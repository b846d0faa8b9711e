SPECIFICATION Spec
CONSTANTS
    Reconnects = TRUE
    Closers = {c1}
    Unbinders = {u1}
    MaxFaults = 3
INVARIANTS
    ComesBackWhatever
\* A session that is over takes no more steps.
CHECK_DEADLOCK FALSE
