SPECIFICATION Spec
CONSTANTS
    Value = {v1, v2}
    SetUpValue = {v1, bad}
    Rejected = {bad}
    NoFile = NoFile
    Torn = Torn
    Name = {n1, n2}
    MaxTries = 2
    MaxFaults = 2
    ReplaceMayLose = FALSE
    Key = {k1, k2}
    Sid = {child, other}
    BadSid = badSid
    AbortMayFail = FALSE
    MaxSomebody = 2
    MaxId = 3
    Capacity = 2
    QueueSize = 2
    MaxEvents = 2
    Thread = {t1, t2}
    MAX_PIPE_INSTANCES = 1
    PREFIX_BYTES = 2
    BodyBytes = 1
    WaitMayFail = FALSE
    CancelMayFail = TRUE
    MaxUsize = 40
    BufferLength = {0, 3, 4, 15, 16, 28, 40}
    Count = {0, 1, 2, 3, 4}
    MaxChanges = 3
INVARIANTS
    GateSafe
    HealthViewCurrent
    ConnectionsSafe
    PrivilegeSafe
    DirectorySafe
PROPERTIES
    StoresKeepTheirWord
    RegistryExact
