SPECIFICATION Spec
CONSTANTS
    TimerId = {t1}
    None = None
    Thresholds = {1}
    MsPerSec = 1
    Durations = {1}
    RetryDelays = {0, 1}
    Jumps <- NoJumps
    MaxTime = 2
    MaxCommands = 3
    MaxBacklog = 1
    StoreFaults = 1
    GateFaults = 2
    PowerFaults = 1
    Crashes = 1
    ClockJumps = 0
    MaxFaults <- MCFaults
INVARIANTS
    ReportTruthful
    ViewCurrent
    TimersArmed
PROPERTIES
    ReblockHasTimer
