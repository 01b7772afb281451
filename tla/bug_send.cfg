SPECIFICATION Spec
INVARIANTS
    FailureIsReported
VIEW StackView
SYMMETRY OidSymmetry
CONSTANTS
    e1 = e1
    e2 = e2
    r1 = r1
    o1 = o1
    o2 = o2
    o3 = o3
    Eps = {e1}
    Res = {r1}
    NoRes = NoRes
    NoOid = NoOid
    Observable = {}
    Oids = {o1}
    AllowedMethods <- MCMethods
    WaitTime <- MCWaitTime
    MidMod = 3
    TokMod = 3
    MaxVersion = 0
    MaxInteractions = 2
    MaxRequests = 1
    MAX_RETRANSMIT = 1
    PostponeWait = 1
    PostponeMax = 2
    ClientMaxWait = 2
    Leisure = 1
    SendResults = {TRUE, FALSE}
    SeedMids = {0}
    SeedToks = {0}
    HandlerOutcomes = {"content"}
    HandlerTypes = {"NON"}
    NotifierOutcomes = {"ok"}
    ConEvery = 2
    RequestTypes = {"CON"}
    MayClear = TRUE
    Datagrams <- NoDatagrams
