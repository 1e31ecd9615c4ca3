SPECIFICATION Spec
CONSTANTS
    NULL = NULL
    Off = Off
INVARIANTS RunsAreSettled MilestonesAreMeasured WorkIsCounted ResearchIsDriven ConversationsHold
PROPERTY NoForbiddenStep
CHECK_DEADLOCK FALSE
