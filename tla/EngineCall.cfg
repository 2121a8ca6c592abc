SPECIFICATION FairSpec
CONSTANTS
    Attempts = {0, 1, 3}
    RetryOns <- MCRetryOns
    MaxRedirects = 1
    BackoffBase = 1
    BackoffMax = 3
    MaxRetryAfter = 2
    RetryAfters <- MCRetryAfters
    NoHeader = NoHeader
    NotANumber = NotANumber
    TriesCap = 6
INVARIANTS
    TypeOK
    TriesAreBounded
    
    ResponseReleased
    
    FullBudgetUsed
PROPERTY CallEnds
CHECK_DEADLOCK FALSE
