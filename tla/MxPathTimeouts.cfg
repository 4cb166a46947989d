SPECIFICATION Spec
CONSTANTS
    MaxHosts = 2
    Retries = 1
    MaxExtra = 1
    DnsRetries = 1
    Replies <- MCReplies
INVARIANTS TimeoutsAreRecorded
CHECK_DEADLOCK FALSE
