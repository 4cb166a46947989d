SPECIFICATION Spec
CONSTANTS
    MaxLines = 3
    MaxMultiline = 2
INVARIANTS AcceptedAfterRcpt
PROPERTIES NothingSkipped ConnectionReleased
CHECK_DEADLOCK FALSE
