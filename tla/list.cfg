SPECIFICATION FairSpec
INVARIANTS
    NoInteractionLost
PROPERTIES
    ImplementsSchedule
    InteractionsTakeTurns
CONSTANTS
    Blocks = {b1, b2, b3}
    NULL = NULL
    Waits = {1, 2}
    Callbacks = {"start", "clear", "renew"}
    Interrupts = FALSE
    MaxClock = 4
