SPECIFICATION Spec
CONSTANT Off = Off
INVARIANTS CopiesAreGood  MemoryHolds
PROPERTY LoginIsTheApproved
CHECK_DEADLOCK FALSE
