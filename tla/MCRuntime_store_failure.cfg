SPECIFICATION FairSpec
CONSTANTS
    TimerId = {t1}
    None = None
    Thresholds = {1}
    MsPerSec = 1
    Durations = {1}
    RetryDelays = {1}
    Jumps <- NoJumps
    MaxTime = 1
    MaxCommands = 1
    MaxBacklog = 0
    StoreFaults = 1
    GateFaults = 0
    PowerFaults = 0
    Crashes = 0
    ClockJumps = 0
    MaxFaults <- MCFaults
PROPERTIES
    DeadlineHandled
