---------------------------- MODULE CoapExchange ----------------------------
(***************************************************************************)
(* Two endpoints: one that asks, one that serves, each an instance of      *)
(* CoapStack, and a network between them that loses, delays, reorders and  *)
(* duplicates datagrams.  Their seconds pass together.                     *)
(*                                                                         *)
(* No resource is observed, so the variables of CoapStack that concern     *)
(* observers are constants here.                                           *)
(***************************************************************************)
EXTENDS Integers, Sequences, FiniteSets

CONSTANTS
    asker, server,      \* the two endpoints
    resource, NoRes,
    NoOid,
    MidMod, TokMod,
    ServerSeed,         \* the server's first message ID
    MaxRequests,
    MaxInteractions,    \* on either side
    MaxDuplicates,      \* datagrams the network duplicates in a behaviour
    MaxWire,            \* different datagrams under way at a time
    MAX_RETRANSMIT,
    WaitTime, PostponeWait, PostponeMax, ClientMaxWait, Leisure,
    RequestTypes, HandlerOutcomes

ASSUME ExchangeAssumption == asker # server /\ {MaxDuplicates, MaxWire} \subseteq Nat
ASSUME IdsAssumption ==
    MidMod \in Nat \ {0} /\ TokMod \in Nat \ {0} /\ ServerSeed \in 0 .. MidMod - 1
ASSUME ResourceAssumption == resource # NoRes
ASSUME BoundsAssumption == MaxRequests \in Nat /\ MaxInteractions \in Nat
ASSUME SecondsAssumption ==
    /\ MAX_RETRANSMIT \in Nat
    /\ WaitTime \in [0 .. MAX_RETRANSMIT -> Nat]
    /\ {PostponeWait, PostponeMax, ClientMaxWait, Leisure} \subseteq Nat
ASSUME TypesAssumption == RequestTypes \subseteq {"CON", "NON"}

VARIABLES
    aQueue, aMid, aTok, aCalls, aTx,  \* the asking endpoint
    sQueue, sMid, sTx,                \* the serving endpoint
    wire,        \* the datagrams under way and how many copies of each
    duplicates,  \* how many were duplicated
    answered     \* history: the calls the server sent a response to

aVars == <<aQueue, aMid, aTok, aCalls, aTx>>
sVars == <<sQueue, sMid, sTx>>
vars  == <<aQueue, aMid, aTok, aCalls, aTx, sQueue, sMid, sTx, wire, duplicates, answered>>

Resources == {resource}
Everyone(x) == [r \in Resources |-> x]

Asker == INSTANCE CoapStack WITH
    queue <- aQueue, mid <- aMid, tok <- aTok, calls <- aCalls, tx <- aTx,
    leaked <- 0, updateCnt <- Everyone(0), observers <- Everyone(<<>>),
    loop <- [res |-> NoRes, todo |-> <<>>], told <- Everyone({}),
    Eps <- {server}, Res <- Resources, Observable <- {}, AllowedMethods <- Everyone({"GET"}),
    Oids <- {}, MaxVersion <- 0, SendResults <- {TRUE}, SeedMids <- {0}, SeedToks <- {0},
    HandlerTypes <- {"NON"}, NotifierOutcomes <- {"ok"}, ConEvery <- 1,
    MayClear <- FALSE, Datagrams <- {}

Server == INSTANCE CoapStack WITH
    queue <- sQueue, mid <- sMid, tok <- 0, calls <- <<>>, tx <- sTx,
    leaked <- 0, updateCnt <- Everyone(0), observers <- Everyone(<<>>),
    loop <- [res |-> NoRes, todo |-> <<>>], told <- Everyone({}),
    Eps <- {asker}, Res <- Resources, Observable <- {}, AllowedMethods <- Everyone({"GET"}),
    Oids <- {}, MaxVersion <- 0, MaxRequests <- 0,
    SendResults <- {TRUE}, SeedMids <- {ServerSeed}, SeedToks <- {0},
    HandlerTypes <- {"NON"}, NotifierOutcomes <- {"ok"}, ConEvery <- 1,
    MayClear <- FALSE, Datagrams <- {}

-----------------------------------------------------------------------------
(* The network *)

Copies(d) == IF d \in DOMAIN wire THEN wire[d] ELSE 0

\* A datagram on its way to the other endpoint.
Sent(to, tx) == {[to |-> to, msg |-> d.msg] : d \in tx}

\* The wire after the datagrams in "new" were sent and those in "gone" arrived.
Carry(gone, new) ==
    LET copies(d) == Copies(d) - (IF d \in gone THEN 1 ELSE 0) + (IF d \in new THEN 1 ELSE 0)
    IN  /\ wire' = [d \in {d \in DOMAIN wire \cup new : copies(d) > 0} |-> copies(d)]
        /\ Cardinality(DOMAIN wire') <= MaxWire

\* As it reaches the stack: requests are for the resource.
Arrival(d, from) ==
    [ep |-> from, multicast |-> FALSE, critical |-> FALSE, msg |-> d.msg,
     uri |-> IF Server!MsgIsRequest(d.msg) THEN resource ELSE NoRes]

\* A copy stays behind when the datagram is duplicated.
Delivered(d) ==
    \/ Carry({d}, Sent(server, aTx') \cup Sent(asker, sTx')) /\ UNCHANGED duplicates
    \/ /\ duplicates < MaxDuplicates /\ duplicates' = duplicates + 1
       /\ Carry({}, Sent(server, aTx') \cup Sent(asker, sTx'))

-----------------------------------------------------------------------------
(* Steps of one endpoint: the other does nothing and sends nothing. *)

ServerRests == UNCHANGED <<sQueue, sMid>> /\ sTx' = {}
AskerRests  == UNCHANGED <<aQueue, aMid, aTok, aCalls>> /\ aTx' = {}

Answers ==
    answered' = answered \cup {d.msg.token : d \in {d \in sTx' : d.msg.code \in Server!Responses}}

AskerReceives ==
    \E d \in DOMAIN wire :
        /\ d.to = asker
        /\ Asker!HandleIncomingPacket(Arrival(d, server))
        /\ ServerRests /\ Delivered(d) /\ UNCHANGED answered

ServerReceives ==
    \E d \in DOMAIN wire :
        /\ d.to = server
        /\ Server!HandleIncomingPacket(Arrival(d, asker))
        /\ AskerRests /\ Delivered(d) /\ Answers

AskerWorks ==
    /\ \/ Asker!doWork
       \/ \E type \in RequestTypes : Asker!StartNewRequest(server, type)
    /\ ServerRests
    /\ Carry({}, Sent(server, aTx'))
    /\ UNCHANGED <<duplicates, answered>>

ServerWorks ==
    /\ Server!doWork
    /\ AskerRests
    /\ Carry({}, Sent(asker, sTx'))
    /\ Answers
    /\ UNCHANGED duplicates

Lose ==
    /\ \E d \in DOMAIN wire : Carry({d}, {})
    /\ ServerRests /\ AskerRests
    /\ UNCHANGED <<duplicates, answered>>

Tick ==
    /\ Asker!Tick /\ Server!Tick
    /\ UNCHANGED <<wire, duplicates, answered>>

Init ==
    /\ Asker!Init /\ Server!Init
    /\ wire = <<>> /\ duplicates = 0 /\ answered = {}

Next == AskerReceives \/ ServerReceives \/ AskerWorks \/ ServerWorks \/ Lose \/ Tick

Spec == Init /\ [][Next]_vars

-----------------------------------------------------------------------------

\* From the first call to the report, over a network that loses, repeats and
\* reorders: a response that is reported to the application was made by the
\* other side for that very request.
Calls == INSTANCE CoapCalls WITH Calls <- 1 .. MaxRequests, outcome <- aCalls

ImplementsCalls == Calls!Spec

\* The client interaction of request n; tokens are drawn in the order of the
\* calls.
Open(n) == {k \in DOMAIN aQueue : aQueue[k].call = n}

Reported(n) ==
    \/ aCalls[n] = "response"
    \/ \E k \in Open(n) : aQueue[k].state = "HANDLE_RESPONSE"

\* The server ends an exchange because its separate answer was acknowledged
\* only when the application that asked is told that answer: an answer the
\* client no longer waits for is rejected, not acknowledged.
AcknowledgedAnswerIsReported ==
    \A k \in DOMAIN sQueue :
        LET r == sQueue[k] IN
        r.state = "RESPONSE_SENT" /\ r.resp.type = "CON" /\ r.resConfirm = "ACK_SEND"
            => Reported(r.resp.token)
=============================================================================
