SPECIFICATION GateSpec
CONSTANTS
    Key = {k1, k2}
    Sid = {child, other}
    BadSid = bad
    AbortMayFail = TRUE
    MaxSomebody = 0
INVARIANTS
    ReportIsTrue
