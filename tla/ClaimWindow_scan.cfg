SPECIFICATION Spec
CONSTANTS
    NumKeys = 2
    Procs = {p1, p2}
    Nonces = {n1, n2}
    NoNonce = NoNonce
    W = 2
    Limit = 1
    Lag = 1
    Wait = 0
    Cooldown = 1
    Strategy = "least_used"
    Retries = 0
    Faults = FALSE
    MaxNow = 2
SYMMETRY ClaimSymmetry
CHECK_DEADLOCK FALSE
PROPERTY
    RefusalJustified
