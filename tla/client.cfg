SPECIFICATION Spec
INVARIANTS
    NoNullMessage
    OneCallbackPerRequest
    ResponseFitsRequest
PROPERTIES
    ImplementsRequests
VIEW StackView
SYMMETRY OidSymmetry
CONSTANTS
    e1 = e1
    e2 = e2
    r1 = r1
    o1 = o1
    o2 = o2
    o3 = o3
    Eps = {e1}
    Res = {r1}
    NoRes = NoRes
    NoOid = NoOid
    Observable = {}
    Oids = {o1}
    AllowedMethods <- MCMethods
    WaitTime <- MCWaitTime
    MidMod = 2
    TokMod = 2
    MaxVersion = 0
    MaxInteractions = 2
    MaxRequests = 3
    MAX_RETRANSMIT = 1
    PostponeWait = 1
    PostponeMax = 2
    ClientMaxWait = 2
    Leisure = 1
    SendResults = {TRUE, FALSE}
    SeedMids = {0}
    SeedToks = {0}
    HandlerOutcomes = {"content"}
    HandlerTypes = {"NON"}
    NotifierOutcomes = {"ok"}
    ConEvery = 2
    RequestTypes = {"CON", "NON"}
    MayClear = TRUE
    Datagrams <- MCClientDatagrams
