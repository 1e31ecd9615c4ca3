SPECIFICATION LiveSpec
CONSTANTS
    Approvals = {a1}
    Devices = {d1}
    Tasks = {t1}
    Core = core
    Scanners = {core, gateway}
    Admins = {}
    Equipped = {}
    AttemptIds = {i1}
    SemanticsInUse = {"NON_IDEMPOTENT_WRITE"}
    LeaseOutlivesRun = FALSE
    MaxGen = 1
    MaxCrashes = 2
    NULL = NULL
PROPERTIES ClaimedIsResolved CoreServesAgain
