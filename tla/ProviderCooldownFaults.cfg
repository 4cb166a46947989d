SPECIFICATION Spec
CONSTANTS
    Provider = {gmail, yahoo}
    gmail = gmail
    yahoo = yahoo
    TierMin <- MCTierMin
    TierMax <- MCTierMax
    Window <- MCWindow
    Limit <- MCLimitSmall
    Gap = 0
    PersistEnabled = TRUE
    DbFaults = TRUE
    MaxNow = 2
    MaxBlocks = 2
PROPERTIES HeldInMemory
