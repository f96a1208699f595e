SPECIFICATION Spec
CONSTANTS
    Client = {c1, c2}
    Owner = Owner
    Worker = Worker
    NoOne = NoOne
    MaxCalls = 1
    Endless = TRUE
    MaxPanics = 1
    PortMayFail = TRUE
    Poison = TRUE
    Thread = {t1}
    MAX_PIPE_INSTANCES = 1
    PREFIX_BYTES = 2
    BodyBytes = 1
    WaitMayFail = TRUE
    CancelMayFail = FALSE
    Radix = 2
    PrefixBytes = 2
    MAX_REQUEST_BYTES = 2
    Content = {0, 1}
    MaxLength = 3
    MaxFrames = 2
INVARIANTS
    StopSafe
    ServiceStatusTrue
    ReaderExact
PROPERTIES
    EveryoneServed
    StopCarriedOut
    CancelEndsWait
    DisconnectDecided
