SPECIFICATION Spec
CONSTANTS
    TimerId = {t1, t2}
    None = None
    Thresholds = {1}
    MsPerSec = 1
    Durations = {1}
    RetryDelays = {1}
    Jumps <- NoJumps
    MaxTime = 1
    MaxCommands = 3
    MaxBacklog = 1
    StoreFaults = 1
    GateFaults = 1
    PowerFaults = 1
    Crashes = 1
    ClockJumps = 0
    MaxFaults <- MCFaults
SYMMETRY Symmetry
INVARIANTS
    StateConsistent
    EffectIsDurable
    ConfirmedStays
PROPERTIES
    OutboxExact
    CleanStopDurable
    ImplementsLifecycle
