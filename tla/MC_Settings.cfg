SPECIFICATION Spec
CONSTANTS
    Bits = 5
    Second = 4
    Policies <- MCPolicies
    RetryAfters = {0, 2, 9}
    Statuses = {204, 302, 404, 408, 429, 503, 600}
    Alphabets <- MCAlphabets
    MaxLength <- MCMaxLength
    MaxConcurrency = 6
    Documents <- MCDocuments
    Merges <- MCMerges
    Environments <- MCEnvironments
INVARIANTS
    LadderIsExact
    DelayWithinPolicy
    ScannerAgreesWithServer
    AcceptedIsServable
CHECK_DEADLOCK FALSE
