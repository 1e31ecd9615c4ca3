SPECIFICATION Spec
CONSTANTS
    Approvals = {a1, a2}
    Devices = {d1}
    ApprovalKeys = {p1}
    AttestKeys = {k1}
    Nonces = {n1, n2}
    Handlers = {h1, h2}
    MaxCounter = 2
    MaxGen = 1
    MaxRevoked = 0
    NULL = NULL
INVARIANTS OneOpenChallenge NonceSpentOnce
PROPERTIES CounterNeverFalls
SYMMETRY Symmetry
\* With every request closed and every nonce spent nothing is left to do.
CHECK_DEADLOCK FALSE
