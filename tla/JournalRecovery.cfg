SPECIFICATION Spec
CONSTANTS
    Approvals = {a1}
    Devices = {d1}
    Tasks = {t1}
    Core = core
    Scanners = {core}
    Admins = {cli, operator}
    Equipped = {operator}
    AttemptIds = {i1, i2}
    SemanticsInUse = {"READ_ONLY", "IDEMPOTENT_WRITE", "RECONCILABLE_WRITE", "NON_IDEMPOTENT_WRITE"}
    LeaseOutlivesRun = TRUE
    MaxGen = 2
    MaxCrashes = 1
    NULL = NULL
INVARIANTS EffectsAreJournalled AtMostOnce OneActorPerAttempt
\* With every request closed and the bounds spent nothing is left to do.
CHECK_DEADLOCK FALSE
