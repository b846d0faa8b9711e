SPECIFICATION Spec
CONSTANTS
    r1 = r1
    r2 = r2
    r3 = r3
    Reconnects = TRUE
    Calls = {{r1}, {r2, r3}}
    Receipts <- OneReceipt
    Malformed <- OneMalformed
    Limit = 1
    BudgetEnds = TRUE
    MaxLinks = 1
INVARIANTS
    TypeOK
    SlotsAccounted
    QueuedOnlyBehindAFullWindow
    QueueIsTheQueued
    CleanDrainOwesNothing
PROPERTIES
    KeepsContract
\* Once every request is done and the session over, nothing is left to do.
CHECK_DEADLOCK FALSE
