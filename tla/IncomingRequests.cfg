SPECIFICATION FairSpec
CONSTANTS
    a = a
    b = b
    c = c
    None = None
    Reconnects = TRUE
    Messages = {a, b, c}
    MayBe <- Mixed
    SeqNr <- Reused
    MaxHeld = 2
    Listeners = 2
    Hooked = TRUE
    ReadSize = 1
    MaxLinks = 1
INVARIANTS
    TypeOK
    AnsweredOnItsLink
    
    NoDrainWaitsOnNothing
PROPERTIES
    DrainEnds
\* Once every request is dealt with and the session over, nothing is left to do.
CHECK_DEADLOCK FALSE
