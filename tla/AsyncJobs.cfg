SPECIFICATION Spec
CONSTANTS
    j1 = j1
    j2 = j2
    j3 = j3
    j4 = j4
    Id = {j1, j2, j3, j4}
    Max = 2
    HasSecret = TRUE
INVARIANTS TypeOK QueueHoldsPending PumpScheduled
PROPERTIES EveryJobAnswered ImplementsStore
CHECK_DEADLOCK FALSE
