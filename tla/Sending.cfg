SPECIFICATION FairSendingSpec
CONSTANTS
    r1 = r1
    r2 = r2
    Reconnects = TRUE
    Calls = {{r1, r2}}
    Receipts <- NoRequests
    Malformed <- NoRequests
    Limit = 1
    BudgetEnds = TRUE
    MaxLinks = 2
INVARIANTS
    NothingTakenUntold
PROPERTIES
    EverySendResolves
\* Once every send has resolved and the session is over, nothing is left to do.
CHECK_DEADLOCK FALSE
