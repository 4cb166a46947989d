SPECIFICATION Spec
CONSTANTS
    s1 = s1
    s2 = s2
    a1 = a1
    Slot = {s1, s2}
    Address = {a1}
    Options <- AllOptions
    Backend = "sqlite"
    Threshold = 2
    Window = 2
    Ttl <- MCTtl
    MaxNow = 5
    MaxFails = 3
SYMMETRY Symmetry
INVARIANTS TypeOK AnswersAreFresh CondemnationStands
PROPERTIES CondemnedForCause
