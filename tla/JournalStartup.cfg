SPECIFICATION Spec
CONSTANTS
    Approvals = {a1}
    Devices = {d1}
    Tasks = {t1, t2}
    Core = core
    Scanners = {core, gateway}
    Admins = {}
    Equipped = {}
    AttemptIds = {i1, i2}
    SemanticsInUse = {"NON_IDEMPOTENT_WRITE"}
    LeaseOutlivesRun = FALSE
    MaxGen = 2
    MaxCrashes = 1
    NULL = NULL
INVARIANTS TypeOK JournalAgreesWithRequest NoEffectWhereRuledOut EffectsAreJournalled AtMostOnce
PROPERTIES RevokedDeviceNeverCrosses ClosedIsFinal ImplementsApprovedAction
SYMMETRY Symmetry
