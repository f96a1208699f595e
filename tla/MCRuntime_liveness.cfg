SPECIFICATION FairSpec
CONSTANTS
    TimerId = {t1}
    None = None
    Thresholds = {1}
    MsPerSec = 1
    Durations = {1}
    RetryDelays = {1}
    Jumps <- NoJumps
    MaxTime = 2
    MaxCommands = 2
    MaxBacklog = 1
    StoreFaults = 1
    GateFaults = 1
    PowerFaults = 0
    Crashes = 0
    ClockJumps = 0
    MaxFaults <- MCFaults
PROPERTIES
    DeadlineHandledOrCritical
    RetryTaken
    StopTerminates
