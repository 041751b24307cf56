SPECIFICATION Spec
CONSTANTS
    NumKeys = 1
    Procs = {p1, p2}
    Nonces = {n1, n2, n3}
    NoNonce = NoNonce
    W = 2
    Limit = 1
    Lag = 1
    Wait = 0
    Cooldown = 1
    Strategy = "least_used"
    Retries = 1
    Faults = TRUE
    MaxNow = 3
SYMMETRY ClaimSymmetry
CHECK_DEADLOCK FALSE
INVARIANT
    WindowBound
PROPERTY
    Refinement
