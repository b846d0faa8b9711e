SPECIFICATION Spec
CONSTANTS
    a = a
    b = b
    c = c
    None = None
    Reconnects = TRUE
    Messages = {a, b, c}
    MayBe <- Plain
    SeqNr <- Three
    MaxHeld = 1
    Listeners = 1
    Hooked = FALSE
    ReadSize = 2
    MaxLinks = 0
INVARIANTS
    HeldIsBounded
\* Once every request is dealt with and the session over, nothing is left to do.
CHECK_DEADLOCK FALSE
