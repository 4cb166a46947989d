SPECIFICATION Spec
CONSTANTS
    Provider = {gmail}
    gmail = gmail
    TierMin <- MCTierMin
    TierMax <- MCTierMax
    Window <- MCWindow
    Limit <- MCLimit
    Gap = 0
    PersistEnabled = TRUE
    DbFaults = FALSE
    MaxNow = 5
    MaxBlocks = 5
INVARIANTS TypeOK DurableView BoundedBlock WindowsBelowLimit
PROPERTIES EscalationKept NeverCutShort
