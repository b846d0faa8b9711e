SPECIFICATION FairSpec
CONSTANTS
    Reconnects = TRUE
    HeaderLength = 2
    MaxPduLength = 3
    Lengths = {1, 2, 3}
    MaxPdus = 3
    MaxLinks = 1
INVARIANTS
    HandedAsWritten
    TimersFollowTheLink
PROPERTIES
    SilentPeerIsDropped
\* A session that is over hears nothing more.
CHECK_DEADLOCK FALSE
