SPECIFICATION Spec
CONSTANTS
    Approvals = {a1}
    Devices = {d1}
    Tasks = {t1}
    Core = core
    Scanners = {core}
    Admins = {cli}
    Equipped = {}
    AttemptIds = {i1, i2}
    SemanticsInUse = {"NON_IDEMPOTENT_WRITE"}
    LeaseOutlivesRun = TRUE
    MaxGen = 2
    MaxCrashes = 1
    NULL = NULL
INVARIANTS NoEffectWhereRuledOut
\* With every request closed and the bounds spent nothing is left to do.
CHECK_DEADLOCK FALSE
