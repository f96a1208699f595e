SPECIFICATION Spec
CONSTANTS
    TimerId = {t1}
    None = None
    Thresholds = {1}
    MsPerSec = 1
    Durations = {1}
    RetryDelays = {1}
    Jumps <- BackAndForth
    MaxTime = 2
    MaxCommands = 1
    MaxBacklog = 0
    StoreFaults = 0
    GateFaults = 0
    PowerFaults = 0
    Crashes = 1
    ClockJumps = 1
    MaxFaults <- MCFaults
INVARIANTS
    WakeHasWork
