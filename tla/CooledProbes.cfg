SPECIFICATION FlowSpec
CONSTANTS
    gmail = gmail
    v1 = v1
    v2 = v2
    v3 = v3
    Provider = {gmail}
    Verification = {v1, v2, v3}
    ProviderOf <- AllOfOne
    MaxConcurrent = 2
    TierMin <- MCTierMin
    TierMax <- MCTierMax
    Window <- MCWindow
    Limit <- MCLimit
    Gap = 2
    PersistEnabled = TRUE
    DbFaults = FALSE
    MaxNow = 5
    MaxBlocks = 3
INVARIANTS LineHoldsTheWaiting
PROPERTIES EscalationCharged SpacedFromKnownUse EveryVerificationEnds
