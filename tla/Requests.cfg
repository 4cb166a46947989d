SPECIFICATION Spec
CONSTANTS
    batch = batch
    again = again
    single = single
    Request = {batch, again, single}
    Options <- MCOptions
    RowsOf <- MCRowsOf
    DomainOf <- MCDomainOf
    HeadOf <- MCHeadOf
    DomainLimit = 1
    InnerLimit = 2
    MaxConcurrency = 2
    RedisModes <- RedisMode
INVARIANTS TypeOK LineHoldsTheQueued AnswersAreOwn RetriesAreReplayed
PROPERTIES EveryRequestEnds
CHECK_DEADLOCK FALSE
