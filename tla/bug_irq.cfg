SPECIFICATION Spec
INVARIANT
    NoInteractionLost
CONSTANTS
    Blocks = {b1, b2, b3}
    NULL = NULL
    Waits = {1, 2}
    Callbacks = {"start", "clear", "renew"}
    Interrupts = TRUE
    MaxClock = 4
