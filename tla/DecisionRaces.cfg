SPECIFICATION Spec
CONSTANTS
    Approvals = {a1}
    Devices = {d1}
    ApprovalKeys = {p1, p2}
    AttestKeys = {k1}
    Nonces = {n1}
    Handlers = {h1, h2}
    MaxCounter = 1
    MaxGen = 2
    MaxRevoked = 3
    NULL = NULL
INVARIANTS TypeOK OneAnswer
PROPERTIES DecidedUnderLiveAuthority
SYMMETRY Symmetry
\* With every request closed and every nonce spent nothing is left to do.
CHECK_DEADLOCK FALSE
