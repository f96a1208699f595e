SPECIFICATION Spec
CONSTANTS
    StateIdBytes = 1
    Bytes = {10, 171}
    Threshold = {"M3", "M10"}
    MaxActions = 2
    MaxOutbox = 1
    IdBytes = 1
    Byte = {10, 171}
    CodePoint = {65, 10, 1, 47, 34, 128512}
    MaxPin = 2
    VersionFaults = {"two", "zero", "negative", "float", "string", "beyond_64_bits"}
    MaxTampering = 2
    Wrong = Wrong
    OverU32 = OverU32
    Pin = {p1, p2}
    Salt = {s1, s2}
    Token = {tok}
    Empty = Empty
    Huge = Huge
    MaxU32 = 9
    ARGON2_M_COST = 6
    ARGON2_T_COST = 3
    ARGON2_P_COST = 4
    MaxCredEdits = 3
    Char = {1}
    Lone = 2
    Null = Null
    MaxUnits = 5
    Bits = 2
    Caller = {c1, c2}
    MaxCalls = 4
    Step = {30, 270}
    MaxNow = 780
    Account = {"child", "other"}
    Child = "child"
    PAGE_SIZE = 2
    MaxFilters = 5
    MaxAces = 2
    NoEntry = NoEntry
    BaseField = {"display", "account"}
    MaxAttempts = 2
    MaxEdits = 1
    MayFail = TRUE
    Value = {v1, v2}
    SetUpValue = {v1, bad}
    Rejected = {bad}
    NoFile = NoFile
    Torn = Torn
    Name = {n1, n2}
    MaxTries = 2
    MaxFaults = 2
    ReplaceMayLose = TRUE
    Key = {k1, k2}
    Sid = {child, other}
    BadSid = badSid
    AbortMayFail = TRUE
    MaxSomebody = 2
INVARIANTS
    StateExact
    IpcExact
    PinHonoured
    QueryExact
    NoSharedId
    EngineReadExact
    ProvisioningConverges
PROPERTIES
    LockoutExact
    StoreRecovers
    GateWhole
