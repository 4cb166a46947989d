SPECIFICATION Spec
CONSTANTS
    MaxHosts = 3
    Retries = 2
    MaxExtra = 1
    DnsRetries = 2
    Replies <- MCReplies
INVARIANTS
    AnswerIsReturned HostsInOrder AllHostsTried SessionsBounded
    LookupConcludes UndeliverableForCause ValidIsAccepted CountedFailures ScoreAgrees
CHECK_DEADLOCK FALSE
