SPECIFICATION Spec
CONSTANTS
    Devices = {d1, d2}
    ApprovalKeys = {p1, p2}
    AttestKeys = {k1}
    Tokens = {t1, t2, t3}
    Handlers = {h1, h2}
    Enrollments = {e1, e2, e3}
    NULL = NULL
INVARIANTS TypeOK NoRevokedAuthority TrustWasProved OneLiveEnrolment RevokedWithItsPast TokenBindsOnce
PROPERTY OnlyTheOwnerDecides
SYMMETRY Symmetry
