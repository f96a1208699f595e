SPECIFICATION Spec
CONSTANTS
    TimerId = {t1}
    None = None
    Thresholds = {1, 2}
    MsPerSec = 2
    Durations = {2, 3}
    RetryDelays = {1}
    Jumps <- BackAndForth
    MaxTime = 5
    MaxCommands = 2
    MaxBacklog = 0
    StoreFaults = 1
    GateFaults = 0
    PowerFaults = 1
    Crashes = 2
    ClockJumps = 1
    MaxFaults <- MCFaults
INVARIANTS
    ShutdownAtMostOnce
PROPERTIES
    WarningsExact
