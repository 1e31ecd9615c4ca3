SPECIFICATION Spec
CONSTANTS
    i1 = i1
    i2 = i2
    e1 = e1
    e2 = e2
    h1 = h1
    h2 = h2
    r1 = r1
    NULL = NULL
    None = None
    Off = Off
INVARIANTS CallsAreApproved PaymentsAreTrue
PROPERTY ApprovalsAndLimitsHold
SYMMETRY Symmetry
CHECK_DEADLOCK FALSE
