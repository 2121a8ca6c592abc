SPECIFICATION FairSpec
CONSTANTS
    Attempts = {2}
    RetryOns <- MCRetryOns
    MaxRedirects = 1
    BackoffBase = 1
    BackoffMax = 3
    MaxRetryAfter = 2
    RetryAfters <- MCRetryAfters
    NoHeader = NoHeader
    NotANumber = NotANumber
    TriesCap = 6
PROPERTY FailedRefreshIsAuthenticationError
CHECK_DEADLOCK FALSE
