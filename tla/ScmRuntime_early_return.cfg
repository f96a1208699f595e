SPECIFICATION ScmSpec
CONSTANTS
    PortMayFail = FALSE
    Poison = FALSE
INVARIANT
    GracefulIsOk
