SPECIFICATION Spec
CONSTANTS
    MaxLines = 3
    MaxMultiline = 2
INVARIANTS QuitFailureIgnored
CHECK_DEADLOCK FALSE
