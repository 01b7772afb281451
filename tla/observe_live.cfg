SPECIFICATION FairSpec
INVARIANTS
    StaleNotificationIsMarked
PROPERTIES
    ObserversAreInformed
CONSTANTS
    e1 = e1
    e2 = e2
    r1 = r1
    o1 = o1
    o2 = o2
    o3 = o3
    Eps = {e1}
    Res = {r1}
    NoRes = NoRes
    NoOid = NoOid
    Observable = {r1}
    Oids = {o1, o2}
    AllowedMethods <- MCMethods
    WaitTime <- MCWaitTime
    MidMod = 3
    TokMod = 3
    MaxVersion = 2
    MaxInteractions = 3
    MaxRequests = 0
    MAX_RETRANSMIT = 1
    PostponeWait = 1
    PostponeMax = 2
    ClientMaxWait = 2
    Leisure = 1
    SendResults = {TRUE}
    SeedMids = {0}
    SeedToks = {0}
    HandlerOutcomes = {"content"}
    HandlerTypes = {"NON"}
    NotifierOutcomes = {"ok", "non"}
    ConEvery = 2
    RequestTypes = {"CON"}
    MayClear = FALSE
    Datagrams <- MCObserveDatagrams
