SPECIFICATION Spec
CONSTANTS
    MaxLines = 3
    MaxMultiline = 2
INVARIANTS VerdictIsOwnReply
CHECK_DEADLOCK FALSE
