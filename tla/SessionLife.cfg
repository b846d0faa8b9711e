SPECIFICATION FairSpec
CONSTANTS
    Reconnects = TRUE
    Closers = {c1, c2}
    Unbinders = {u1}
    MaxFaults = 4
INVARIANTS
    TypeOK
    ComesBack
    ReplacedSocketIsDead
    OverMeansOver
    DeadMeansOver
PROPERTIES
    KeepsContract
    StopEnds
    KeepsTrying
\* A session that is over takes no more steps.
CHECK_DEADLOCK FALSE
