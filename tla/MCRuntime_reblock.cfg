SPECIFICATION Spec
CONSTANTS
    TimerId = {t1}
    None = None
    Thresholds = {1}
    MsPerSec = 1
    Durations = {1}
    RetryDelays = {1}
    Jumps <- NoJumps
    MaxTime = 1
    MaxCommands = 2
    MaxBacklog = 1
    StoreFaults = 0
    GateFaults = 0
    PowerFaults = 0
    Crashes = 0
    ClockJumps = 0
    MaxFaults <- MCFaults
PROPERTIES
    ReblockHasCause
