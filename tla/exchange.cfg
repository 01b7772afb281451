SPECIFICATION Spec
INVARIANTS
    AcknowledgedAnswerIsReported
PROPERTIES
    ImplementsCalls
VIEW ExchangeView
CONSTANTS
    asker = asker
    server = server
    resource = resource
    NoRes = NoRes
    NoOid = NoOid
    MidMod = 8
    TokMod = 4
    ServerSeed = 2
    MaxRequests = 2
    MaxInteractions = 2
    MaxDuplicates = 1
    MaxWire = 2
    MAX_RETRANSMIT = 0
    WaitTime <- MCWaitTime
    PostponeWait = 1
    PostponeMax = 1
    ClientMaxWait = 1
    Leisure = 1
    RequestTypes = {"CON"}
    HandlerOutcomes = {"content", "postpone"}
