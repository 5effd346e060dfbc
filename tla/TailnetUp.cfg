\* Two callers: one brings the node up, the other waits for it.
SPECIFICATION TnSpec

CONSTANTS
    d1 = d1
    d2 = d2
    Dialers = {d1, d2}

INVARIANT UpBeforeDial
CHECK_DEADLOCK FALSE
