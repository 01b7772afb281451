SPECIFICATION Spec
INVARIANTS
    ReadsWhatWasWritten
    BufferHoldsDatagram
    CutDatagramInventsNothing
    BlocksFormTheBody
    TransferReachesTheEnd
    RequestedBlockIsSent
CHECK_DEADLOCK FALSE
CONSTANTS
    MAX_PAYLOAD_SIZE = 32
    BodySizes <- MCBodySizes
    Setters = {"CheckBlockOpt"}
    FirstAsks <- MCFirstAsks
    GivenOptions <- MCOptions
    MaxOptions = 3
    Memory = {TRUE}
