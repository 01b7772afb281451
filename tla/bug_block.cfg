SPECIFICATION Spec
INVARIANTS
    RequestedBlockIsSent
CHECK_DEADLOCK FALSE
CONSTANTS
    MAX_PAYLOAD_SIZE = 32
    BodySizes <- MCBodySizes
    Setters = {"SetPayload"}
    FirstAsks <- MCFirstAsks
    GivenOptions <- MCOptions
    MaxOptions = 1
    Memory = {TRUE}
