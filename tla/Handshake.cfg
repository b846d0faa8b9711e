SPECIFICATION FairSpec
CONSTANTS
    Reconnects = TRUE
    FromStart = TRUE
    MaxTries = 2
    Conns = {1, 2, peer}
    ServerClosers = {k1}
    MaxBinds = 2
    MaxFaults = 1
INVARIANTS
    TypeOK
    NothingLeftBehind
    HandedOverWasAccepted
    ListedIsLive
    ClosedServerIsEmpty
PROPERTIES
    DoomedSessionsEnd
\* A call that settled and a server that closed take no more steps.
CHECK_DEADLOCK FALSE
