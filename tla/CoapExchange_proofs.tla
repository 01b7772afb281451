------------------------- MODULE CoapExchange_proofs -------------------------
(***************************************************************************)
(* Two endpoints and the network between them: a call returns only what    *)
(* the other side answered to it, and an acknowledged answer is reported.  *)
(***************************************************************************)
EXTENDS CoapExchange, TLAPS

\* What may reach either side.
ToAsker  == [ep : {server}, multicast : BOOLEAN, uri : Resources \cup {NoRes},
             critical : BOOLEAN, msg : Asker!Message]
ToServer == [ep : {asker}, multicast : BOOLEAN, uri : Resources \cup {NoRes},
             critical : BOOLEAN, msg : Server!Message]

A == INSTANCE CoapEndpoint_proofs WITH
    queue <- aQueue, mid <- aMid, tok <- aTok, calls <- aCalls, tx <- aTx,
    leaked <- 0, updateCnt <- Everyone(0), observers <- Everyone(<<>>),
    loop <- [res |-> NoRes, todo |-> <<>>], told <- Everyone({}),
    Eps <- {server}, Res <- Resources, Observable <- {}, AllowedMethods <- Everyone({"GET"}),
    Oids <- {}, MaxVersion <- 0, SendResults <- {TRUE}, SeedMids <- {0}, SeedToks <- {0},
    HandlerTypes <- {"NON"}, NotifierOutcomes <- {"ok"}, ConEvery <- 1,
    MayClear <- FALSE, Datagrams <- ToAsker

S == INSTANCE CoapEndpoint_proofs WITH
    queue <- sQueue, mid <- sMid, tok <- 0, calls <- <<>>, tx <- sTx,
    leaked <- 0, updateCnt <- Everyone(0), observers <- Everyone(<<>>),
    loop <- [res |-> NoRes, todo |-> <<>>], told <- Everyone({}),
    Eps <- {asker}, Res <- Resources, Observable <- {}, AllowedMethods <- Everyone({"GET"}),
    Oids <- {}, MaxVersion <- 0, MaxRequests <- 0,
    SendResults <- {TRUE}, SeedMids <- {ServerSeed}, SeedToks <- {0},
    HandlerTypes <- {"NON"}, NotifierOutcomes <- {"ok"}, ConEvery <- 1,
    MayClear <- FALSE, Datagrams <- ToServer

-----------------------------------------------------------------------------
(* The constants are those of two endpoints *)

LEMMA AskerConstants ==
    /\ MidMod \in Nat \ {0} /\ TokMod \in Nat \ {0} /\ 0 \in Nat
    /\ NoRes \notin Resources /\ {} \subseteq Resources
    /\ NoOid \notin {}
    /\ MAX_RETRANSMIT \in Nat
    /\ WaitTime \in [0 .. MAX_RETRANSMIT -> Nat]
    /\ {PostponeWait, PostponeMax, ClientMaxWait, Leisure} \subseteq Nat
    /\ MaxInteractions \in Nat /\ MaxRequests \in Nat
    /\ {TRUE} \subseteq BOOLEAN /\ {TRUE} # {}
    /\ {0} \subseteq A!Mids /\ {0} \subseteq A!Tokens
    /\ Everyone({"GET"}) \in [Resources -> SUBSET A!Requests]
    /\ {"NON"} \subseteq {"CON", "NON"}
    /\ 1 \in Nat \ {0}
    /\ RequestTypes \subseteq {"CON", "NON"}
    /\ FALSE \in BOOLEAN
    /\ ToAsker \subseteq [ep : {server}, multicast : BOOLEAN, uri : Resources \cup {NoRes},
                          critical : BOOLEAN, msg : A!Message]
<1>1. ToAsker \subseteq [ep : {server}, multicast : BOOLEAN, uri : Resources \cup {NoRes},
                          critical : BOOLEAN, msg : A!Message]
  BY DEF ToAsker, A!Codes, Asker!Codes, A!Deregister, Asker!Deregister, A!Message, Asker!Message, A!Mids,
     Asker!Mids, A!NoObserve, Asker!NoObserve, A!NoToken, Asker!NoToken, A!ObserveVals,
     Asker!ObserveVals, A!Register, Asker!Register, A!Requests, Asker!Requests, A!Responses,
     Asker!Responses, A!Tokens, Asker!Tokens, A!Types, Asker!Types, A!Versions, Asker!Versions
<1> QED
  BY <1>1, IdsAssumption, ResourceAssumption, BoundsAssumption, SecondsAssumption, TypesAssumption
     DEF Resources, Everyone, A!Mids, A!Tokens, A!Requests

LEMMA ServerConstants ==
    /\ MidMod \in Nat \ {0} /\ TokMod \in Nat \ {0} /\ 0 \in Nat
    /\ NoRes \notin Resources /\ {} \subseteq Resources
    /\ NoOid \notin {}
    /\ MAX_RETRANSMIT \in Nat
    /\ WaitTime \in [0 .. MAX_RETRANSMIT -> Nat]
    /\ {PostponeWait, PostponeMax, ClientMaxWait, Leisure} \subseteq Nat
    /\ MaxInteractions \in Nat /\ 0 \in Nat
    /\ {TRUE} \subseteq BOOLEAN /\ {TRUE} # {}
    /\ {ServerSeed} \subseteq S!Mids /\ {0} \subseteq S!Tokens
    /\ Everyone({"GET"}) \in [Resources -> SUBSET S!Requests]
    /\ {"NON"} \subseteq {"CON", "NON"}
    /\ 1 \in Nat \ {0}
    /\ RequestTypes \subseteq {"CON", "NON"}
    /\ FALSE \in BOOLEAN
    /\ ToServer \subseteq [ep : {asker}, multicast : BOOLEAN, uri : Resources \cup {NoRes},
                           critical : BOOLEAN, msg : S!Message]
<1>1. ToServer \subseteq [ep : {asker}, multicast : BOOLEAN, uri : Resources \cup {NoRes},
                           critical : BOOLEAN, msg : S!Message]
  BY DEF ToServer, S!Codes, Server!Codes, S!Deregister, Server!Deregister, S!Message, Server!Message,
     S!Mids, Server!Mids, S!NoObserve, Server!NoObserve, S!NoToken, Server!NoToken,
     S!ObserveVals, Server!ObserveVals, S!Register, Server!Register, S!Requests,
     Server!Requests, S!Responses, Server!Responses, S!Tokens, Server!Tokens, S!Types,
     Server!Types, S!Versions, Server!Versions
<1> QED
  BY <1>1, IdsAssumption, ResourceAssumption, BoundsAssumption, SecondsAssumption, TypesAssumption
     DEF Resources, Everyone, S!Mids, S!Tokens, S!Requests

-----------------------------------------------------------------------------
(* The steps of either side are those of an endpoint *)

LEMMA SameWords ==
    /\ Asker!Message = A!Message /\ Server!Message = A!Message /\ S!Message = A!Message
    /\ Server!Requests = A!Requests /\ S!Requests = A!Requests
    /\ Server!Responses = A!Responses /\ S!Responses = A!Responses
    /\ S!NoToken = A!NoToken /\ S!NoMessage = A!NoMessage
BY DEF A!Message, Asker!Message, S!Message, Server!Message, A!Types, Asker!Types,
       S!Types, Server!Types, A!Codes, Asker!Codes, S!Codes, Server!Codes, A!Requests,
       Asker!Requests, S!Requests, Server!Requests, A!Responses, Asker!Responses,
       S!Responses, Server!Responses, A!Mids, Asker!Mids, S!Mids, Server!Mids, A!Tokens,
       Asker!Tokens, S!Tokens, Server!Tokens, A!Versions, Asker!Versions, S!Versions,
       Server!Versions, A!ObserveVals, Asker!ObserveVals, S!ObserveVals,
       Server!ObserveVals, A!NoObserve, Asker!NoObserve, S!NoObserve, Server!NoObserve,
       A!Register, Asker!Register, S!Register, Server!Register, A!Deregister,
       Asker!Deregister, S!Deregister, Server!Deregister, A!NoToken, Asker!NoToken,
       S!NoToken, Server!NoToken, A!NoMessage, Asker!NoMessage, S!NoMessage,
       Server!NoMessage

LEMMA AskerSteps ==
    /\ Asker!Init => A!Init
    /\ \A d : Asker!HandleIncomingPacket(d) => A!HandleIncomingPacket(d)
    /\ \A ep, type : Asker!StartNewRequest(ep, type) => A!StartNewRequest(ep, type)
    /\ Asker!Tick => A!Tick
    /\ Asker!Rotate => A!Rotate
    /\ Asker!handleClientInteraction => A!handleClientInteraction
<1> USE DEF A!Acknowledged, Asker!Acknowledged, A!Asking, Asker!Asking, A!Attached,
        Asker!Attached, A!AwaitsResponse, Asker!AwaitsResponse, A!BadCombination,
        Asker!BadCombination, A!Callback, Asker!Callback, A!ClientGivesUp,
        Asker!ClientGivesUp, A!ClientRetries, Asker!ClientRetries, A!ClientWaits,
        Asker!ClientWaits, A!CreateMessage, Asker!CreateMessage, A!DeleteHead,
        Asker!DeleteHead, A!Duplicates, Asker!Duplicates, A!EmptyAckSent, Asker!EmptyAckSent,
        A!EnableAckTimeout, Asker!EnableAckTimeout, A!EnqueueHead, Asker!EnqueueHead,
        A!FindByMessageIdAndEp, Asker!FindByMessageIdAndEp, A!First, Asker!First, A!Found,
        Asker!Found, A!FreshCalls, Asker!FreshCalls, A!HandleIncomingPacket,
        Asker!HandleIncomingPacket, A!HandleResponse, Asker!HandleResponse, A!Idle,
        Asker!Idle, A!Init, Asker!Init, A!MaxAge, Asker!MaxAge, A!MsgIsRequest,
        Asker!MsgIsRequest, A!NewInteraction, Asker!NewInteraction, A!NextMid, Asker!NextMid,
        A!NextToken, Asker!NextToken, A!NoCall, Asker!NoCall, A!NoLoop, Asker!NoLoop,
        A!NoMessage, Asker!NoMessage, A!NoObserve, Asker!NoObserve, A!NoToken, Asker!NoToken,
        A!OneSecondOlder, Asker!OneSecondOlder, A!OutOfMemory, Asker!OutOfMemory,
        A!Piggybacked, Asker!Piggybacked, A!PrechecksDone, Asker!PrechecksDone, A!ReqStatus,
        Asker!ReqStatus, A!Requested, Asker!Requested, A!Requests, Asker!Requests,
        A!Retransmit, Asker!Retransmit, A!Rotate, Asker!Rotate, A!RxAck, Asker!RxAck,
        A!RxCritical, Asker!RxCritical, A!RxIgnored, Asker!RxIgnored, A!RxPing, Asker!RxPing,
        A!RxRequest, Asker!RxRequest, A!RxReset, Asker!RxReset, A!RxSeparateResponse,
        Asker!RxSeparateResponse, A!RxUnexpectedResponse, Asker!RxUnexpectedResponse,
        A!RxUnknownUri, Asker!RxUnknownUri, A!SendEmptyAck, Asker!SendEmptyAck,
        A!SendEmptyRST, Asker!SendEmptyRST, A!SendMsg, Asker!SendMsg, A!SendRequest,
        Asker!SendRequest, A!SendShortResp, Asker!SendShortResp, A!Sent, Asker!Sent,
        A!SeparateResponse, Asker!SeparateResponse, A!Silent, Asker!Silent, A!Sleeping,
        Asker!Sleeping, A!StartNewRequest, Asker!StartNewRequest, A!StartNewServerInteraction,
        Asker!StartNewServerInteraction, A!Tick, Asker!Tick, A!UnknownUri, Asker!UnknownUri,
        A!UpdateHead, Asker!UpdateHead, A!Wakeup, Asker!Wakeup, A!Woken, Asker!Woken,
        A!clientUnchanged, Asker!clientUnchanged, A!rxUnchanged, Asker!rxUnchanged,
        A!serverUnchanged, Asker!serverUnchanged
<1>1. Asker!Init => A!Init
  OBVIOUS
<1>2. ASSUME NEW d, Asker!HandleIncomingPacket(d) PROVE A!HandleIncomingPacket(d)
  BY <1>2
<1>3. ASSUME NEW ep, NEW type, Asker!StartNewRequest(ep, type) PROVE A!StartNewRequest(ep, type)
  BY <1>3
<1>4. Asker!Tick => A!Tick
  OBVIOUS
<1>5. Asker!Rotate => A!Rotate
  OBVIOUS
<1>6. Asker!handleClientInteraction => A!handleClientInteraction
  BY ZenonT(90) DEF Asker!handleClientInteraction, A!handleClientInteraction
<1> QED BY <1>1, <1>2, <1>3, <1>4, <1>5, <1>6

LEMMA ServerSteps ==
    /\ Server!Init => S!Init
    /\ \A d : Server!HandleIncomingPacket(d) => S!HandleIncomingPacket(d)
    /\ Server!Tick => S!Tick
    /\ Server!Rotate => S!Rotate
    /\ Server!handleServerInteraction => S!handleServerInteraction
<1> USE DEF S!Acknowledged, Server!Acknowledged, S!AddObserver, Server!AddObserver,
        S!AllocRespMsg, Server!AllocRespMsg, S!Allowed, Server!Allowed, S!Answer,
        Server!Answer, S!AnswerCodes, Server!AnswerCodes, S!AnswerSent, Server!AnswerSent,
        S!Answered, Server!Answered, S!Answers, Server!Answers, S!Attached, Server!Attached,
        S!AwaitsHandler, Server!AwaitsHandler, S!BadCombination, Server!BadCombination,
        S!CreateMessage, Server!CreateMessage, S!DeleteHead, Server!DeleteHead, S!Deregister,
        Server!Deregister, S!Deregisters, Server!Deregisters, S!Duplicates, Server!Duplicates,
        S!EmptyAckSent, Server!EmptyAckSent, S!EnableAckTimeout, Server!EnableAckTimeout,
        S!EnqueueHead, Server!EnqueueHead, S!FindByMessageIdAndEp,
        Server!FindByMessageIdAndEp, S!First, Server!First, S!Found, Server!Found, S!FreeOids,
        Server!FreeOids, S!HandleIncomingPacket, Server!HandleIncomingPacket, S!Idle,
        Server!Idle, S!Init, Server!Init, S!LiveOids, Server!LiveOids, S!MaxAge,
        Server!MaxAge, S!MidAfterAllocResp, Server!MidAfterAllocResp, S!MidPrepared,
        Server!MidPrepared, S!MsgIsRequest, Server!MsgIsRequest, S!MustAckEmpty,
        Server!MustAckEmpty, S!MustWaitLeisure, Server!MustWaitLeisure, S!NewInteraction,
        Server!NewInteraction, S!NextMid, Server!NextMid, S!NoCall, Server!NoCall, S!NoLoop,
        Server!NoLoop, S!NoMemoryForAnswer, Server!NoMemoryForAnswer, S!NoMessage, Server!NoMessage,
        S!NoObserve, Server!NoObserve, S!NoToken, Server!NoToken, S!ObserversAt, Server!ObserversAt, S!OneSecondOlder,
        Server!OneSecondOlder, S!OutOfMemory, Server!OutOfMemory, S!PendingNotification,
        Server!PendingNotification, S!Piggybacked, Server!Piggybacked, S!Postponed,
        Server!Postponed, S!PrechecksDone, Server!PrechecksDone, S!Prepared, Server!Prepared,
        S!ReadyForHandler, Server!ReadyForHandler, S!Register, Server!Register, S!Registers,
        Server!Registers, S!RemoveObserver, Server!RemoveObserver, S!Requested,
        Server!Requested, S!Requests, Server!Requests, S!RespStatus, Server!RespStatus,
        S!Restart, Server!Restart, S!Retransmit, Server!Retransmit, S!Rotate, Server!Rotate, S!RxAck, Server!RxAck,
        S!RxCritical, Server!RxCritical, S!RxIgnored, Server!RxIgnored, S!RxPing,
        Server!RxPing, S!RxRequest, Server!RxRequest, S!RxReset, Server!RxReset,
        S!RxSeparateResponse, Server!RxSeparateResponse, S!RxUnexpectedResponse,
        Server!RxUnexpectedResponse, S!RxUnknownUri, Server!RxUnknownUri, S!SendEmptyAck,
        Server!SendEmptyAck, S!SendEmptyRST, Server!SendEmptyRST, S!SendMsg, Server!SendMsg,
        S!SendResp, Server!SendResp, S!SendShortResp, Server!SendShortResp, S!Sent,
        Server!Sent, S!Separate, Server!Separate, S!SeparateResponse, Server!SeparateResponse,
        S!ServeAnswer, Server!ServeAnswer, S!ServeDrop, Server!ServeDrop,
        S!ServeMethodNotAllowed, Server!ServeMethodNotAllowed, S!ServeMulticastCon,
        Server!ServeMulticastCon, S!ServeMulticastWait, Server!ServeMulticastWait,
        S!ServePostponeAck, Server!ServePostponeAck, S!ServePostponeAgain,
        Server!ServePostponeAgain, S!ServerDone, Server!ServerDone, S!ServerRetries,
        Server!ServerRetries, S!ServerWaitsForAck, Server!ServerWaitsForAck, S!Serving,
        Server!Serving, S!SetSleep, Server!SetSleep, S!Silent, Server!Silent, S!Sleeping,
        Server!Sleeping, S!StartNewServerInteraction, Server!StartNewServerInteraction,
        S!Tick, Server!Tick, S!Typed, Server!Typed, S!UnknownUri, Server!UnknownUri,
        S!UpdateHead, Server!UpdateHead, S!Wakeup, Server!Wakeup, S!WantsObserve,
        Server!WantsObserve, S!Without, Server!Without, S!Woken, Server!Woken, S!rxUnchanged,
        Server!rxUnchanged, S!serverUnchanged, Server!serverUnchanged
<1>1. Server!Init => S!Init
  OBVIOUS
<1>2. ASSUME NEW d, Server!HandleIncomingPacket(d) PROVE S!HandleIncomingPacket(d)
  BY <1>2, ZenonT(90)
<1>3. Server!Tick => S!Tick
  OBVIOUS
<1>4. Server!ServeMulticastCon => S!ServeMulticastCon
  BY ZenonT(90)
<1>5. Server!ServeMulticastWait => S!ServeMulticastWait
  OBVIOUS
<1>6. Server!ServeMethodNotAllowed => S!ServeMethodNotAllowed
  BY ZenonT(90)
<1>a. Server!ServeNullAnswer => S!ServeNullAnswer
  BY ZenonT(90) DEF Server!ServeNullAnswer, S!ServeNullAnswer
<1>7. Server!ServeDrop => S!ServeDrop
  OBVIOUS
<1>8. Server!ServePostponeAck => S!ServePostponeAck
  BY ZenonT(90)
<1>9. Server!ServePostponeAgain => S!ServePostponeAgain
  OBVIOUS
<1>10. Server!ServeAnswer => S!ServeAnswer
  BY ZenonT(90)
<1>11. Server!ServerWaitsForAck => S!ServerWaitsForAck
  OBVIOUS
<1>12. Server!ServerRetries => S!ServerRetries
  BY ZenonT(90)
<1>13. Server!ServerDone => S!ServerDone
  OBVIOUS
<1>14. Server!Rotate => S!Rotate
  BY ZenonT(90)
<1> HIDE DEF S!ServeMulticastCon, Server!ServeMulticastCon, S!ServeMulticastWait,
       Server!ServeMulticastWait, S!ServeMethodNotAllowed, Server!ServeMethodNotAllowed,
       S!ServeDrop, Server!ServeDrop, S!ServePostponeAck, Server!ServePostponeAck,
       S!ServePostponeAgain, Server!ServePostponeAgain, S!ServeAnswer,
       Server!ServeAnswer, S!ServerWaitsForAck, Server!ServerWaitsForAck,
       S!ServerRetries, Server!ServerRetries, S!ServerDone, Server!ServerDone, S!Rotate,
       Server!Rotate
<1>15. Server!handleServerInteraction => S!handleServerInteraction
  BY <1>4, <1>5, <1>6, <1>a, <1>7, <1>8, <1>9, <1>10, <1>11, <1>12, <1>13
     DEF Server!handleServerInteraction, S!handleServerInteraction
<1> QED BY <1>1, <1>2, <1>3, <1>14, <1>15, ZenonT(90)

-----------------------------------------------------------------------------
(* What the two sides and the wire hold *)

\* What the asking and the serving side may have sent.
FromAsker(m) ==
    /\ m \in A!Message
    /\ \/ m.code = "EMPTY" /\ m.token = A!NoToken
       \/ m.code = "GET" /\ m.token \in 1 .. aTok

FromServer(m) ==
    /\ m \in A!Message /\ m.code \notin A!Requests
    /\ m.token \in {A!NoToken} \cup (1 .. aTok)
    /\ m.code # "EMPTY" => m.token \in answered

WireOK ==
    \A d \in DOMAIN wire :
        /\ d.to \in {asker, server}
        /\ d.to = server => FromAsker(d.msg)
        /\ d.to = asker => FromServer(d.msg)

\* Tokens are drawn in the order of the calls, so each is the number of its call.
AskerOK ==
    /\ aTok \in 0 .. MaxRequests
    /\ Len(aQueue) <= aTok
    /\ \A n \in 1 .. MaxRequests : aCalls[n] = "idle" <=> n > aTok
    /\ \A k \in DOMAIN aQueue :
        /\ aQueue[k].role = "CLIENT" /\ aQueue[k].call \in 1 .. aTok
        /\ aQueue[k].req.code = "GET" /\ aQueue[k].req.type # "ACK"
        /\ aQueue[k].req.token = aQueue[k].call
        /\ aQueue[k].state = "HANDLE_RESPONSE" => aQueue[k].call \in answered

ServerOK ==
    \A k \in DOMAIN sQueue :
        /\ sQueue[k].role = "SERVER" /\ sQueue[k].resp.code \notin A!Requests
        /\ sQueue[k].req.token \in 1 .. aTok /\ sQueue[k].req.code = "GET"

CallsInv ==
    /\ A!EndpointInv /\ S!EndpointInv
    /\ AskerOK /\ ServerOK /\ WireOK
    /\ answered \subseteq 1 .. aTok

AskerTyped ==
    /\ aQueue \in Seq(A!Interaction) /\ aCalls \in [1 .. MaxRequests -> A!CallResults]
    /\ aMid \in A!Mids /\ \A d \in aTx : d.msg \in A!Message
    /\ \A n \in 1 .. MaxRequests : aCalls[n] = "open" <=> A!Open(aQueue, n)
    /\ \A k \in DOMAIN aQueue : aQueue[k].role = "CLIENT" =>
         aQueue[k].req \in A!Message /\ aQueue[k].call \in 1 .. MaxRequests
    /\ \A j, k \in DOMAIN aQueue :
         aQueue[j].role = "CLIENT" /\ aQueue[k].role = "CLIENT" /\ aQueue[j].call = aQueue[k].call
            => j = k

LEMMA AskerTypes == (A!EndpointInv => AskerTyped) /\ (A!EndpointInv' => AskerTyped')
<1>1. A!EndpointInv => AskerTyped
  BY DEF A!EndpointInv, A!JobsInv, A!TypeInv, A!TypeOK, A!NoNullMessage, A!WellFormed, A!Datagram,
         A!Distinct, A!SameJob, A!CallsOK, AskerTyped
<1> QED BY <1>1, PTL

ServerTyped ==
    /\ sQueue \in Seq(S!Interaction)
    /\ sMid \in S!Mids /\ \A d \in sTx : d.msg \in S!Message
    /\ \A k \in DOMAIN sQueue :
         /\ sQueue[k].resp \in S!Message \cup {S!NoMessage}
         /\ sQueue[k].role = "SERVER" /\ sQueue[k].resp # S!NoMessage =>
              sQueue[k].resp.token = sQueue[k].req.token

LEMMA ServerTypes == (S!EndpointInv => ServerTyped) /\ (S!EndpointInv' => ServerTyped')
<1>1. S!EndpointInv => /\ sQueue \in Seq(S!Interaction)
                       /\ sMid \in S!Mids /\ \A d \in sTx : d.msg \in S!Message
  BY DEF S!EndpointInv, S!JobsInv, S!TypeInv, S!TypeOK, S!Datagram
<1>2. \A r \in S!Interaction : r.resp \in S!Message \cup {S!NoMessage}
  BY DEF S!Interaction, S!MessageOrNull
<1>3. S!EndpointInv => \A k \in DOMAIN sQueue : S!Fits(sQueue[k])
  BY DEF S!EndpointInv, S!AnswersInv, S!AllFit
<1>4. sQueue \in Seq(S!Interaction) => \A k \in DOMAIN sQueue : sQueue[k] \in S!Interaction
  OBVIOUS
<1>5. S!EndpointInv => ServerTyped
  BY <1>1, <1>2, <1>3, <1>4 DEF S!Fits, S!ServerFits, ServerTyped
<1> QED BY <1>5, PTL

\* The wire after a step holds only what it held or what was sent.
LEMMA WireAfter ==
    ASSUME NEW gone, NEW new, Carry(gone, new)
    PROVE  DOMAIN wire' \subseteq DOMAIN wire \cup new
BY DEF Carry

LEMMA DeliveredWire ==
    ASSUME NEW d, Delivered(d)
    PROVE  DOMAIN wire' \subseteq DOMAIN wire \cup (Sent(server, aTx') \cup Sent(asker, sTx'))
BY WireAfter DEF Delivered

LEMMA WireStep ==
    ASSUME WireOK, aTok \in Nat, aTok' \in Nat, aTok <= aTok', answered \subseteq answered',
           DOMAIN wire' \subseteq DOMAIN wire \cup (Sent(server, aTx') \cup Sent(asker, sTx')),
           \A d \in aTx' : FromAsker(d.msg)', \A d \in sTx' : FromServer(d.msg)'
    PROVE  WireOK'
<1>1. /\ \A m : FromAsker(m) => FromAsker(m)'
      /\ \A m : FromServer(m) => FromServer(m)'
  BY DEF FromAsker, FromServer
<1>2. ASSUME NEW d \in DOMAIN wire'
      PROVE  /\ d.to \in {asker, server}
             /\ d.to = server => FromAsker(d.msg)'
             /\ d.to = asker => FromServer(d.msg)'
  <2>1. CASE d \in DOMAIN wire
    BY <1>1, <2>1 DEF WireOK
  <2>2. CASE d \in Sent(server, aTx')
    <3>1. PICK x \in aTx' : d = [to |-> server, msg |-> x.msg]
      BY <2>2 DEF Sent
    <3> QED BY <3>1, ExchangeAssumption
  <2>3. CASE d \in Sent(asker, sTx')
    <3>1. PICK x \in sTx' : d = [to |-> asker, msg |-> x.msg]
      BY <2>3 DEF Sent
    <3> QED BY <3>1, ExchangeAssumption
  <2> QED BY <2>1, <2>2, <2>3
<1> QED BY <1>2 DEF WireOK

-----------------------------------------------------------------------------
(* The steps of the asking side *)

LEMMA AskerClients ==
    ASSUME CallsInv
    PROVE  A!OnlyClients(aQueue) /\ A!EndpointInv /\ AskerTyped
BY AskerTypes DEF CallsInv, AskerOK, A!OnlyClients

LEMMA AskerArrival ==
    ASSUME CallsInv, NEW d \in DOMAIN wire, d.to = asker
    PROVE  /\ Arrival(d, server) \in ToAsker
           /\ Arrival(d, server).msg = d.msg /\ Arrival(d, server).ep = server
           /\ ~A!MsgIsRequest(d.msg)
<1>1. FromServer(d.msg)
  BY DEF CallsInv, WireOK
<1>2. d.msg \in Asker!Message /\ ~A!MsgIsRequest(d.msg)
  BY <1>1, SameWords DEF FromServer, A!MsgIsRequest
<1> QED BY <1>2 DEF Arrival, ToAsker, Resources

LEMMA AskerHears ==
    ASSUME CallsInv, NEW d \in DOMAIN wire, d.to = asker,
           Asker!HandleIncomingPacket(Arrival(d, server))
    PROVE  /\ A!EndpointInv'
           /\ UNCHANGED <<aMid, aTok, aCalls>>
           /\ DOMAIN aQueue' = DOMAIN aQueue
           /\ \A k \in DOMAIN aQueue :
                /\ A!Keeps(aQueue[k], aQueue'[k])
                /\ \/ aQueue'[k].state = aQueue[k].state
                   \/ /\ aQueue'[k].state = "HANDLE_RESPONSE"
                      /\ aQueue[k].state = "WAITING_RESPONSE"
                      /\ d.msg.token = aQueue[k].req.token
                      /\ d.msg.code \in A!Responses
           /\ \/ aTx' = {}
              \/ aTx' = {[ep |-> server, msg |-> A!SendEmptyRST(d.msg.mid)]}
              \/ /\ aTx' = {[ep |-> server, msg |-> A!SendEmptyAck(d.msg.mid)]}
                 /\ d.msg.type = "CON"
                 /\ \E k \in DOMAIN aQueue :
                      /\ aQueue[k].req.token = d.msg.token
                      /\ aQueue'[k].state \in {"HANDLE_RESPONSE", "READY_TO_REQUEST"}
<1> DEFINE a == Arrival(d, server)
<1>1. a \in ToAsker /\ a.msg = d.msg /\ a.ep = server /\ ~A!MsgIsRequest(a.msg)
  BY AskerArrival
<1>2. A!HandleIncomingPacket(a)
  BY AskerSteps
<1>3. A!OnlyClients(aQueue) /\ A!EndpointInv
  BY AskerClients
<1> HIDE DEF a
<1>4. A!EndpointInv'
  <2>1. A!Next
    BY <1>1, <1>2 DEF A!Next
  <2> QED BY <1>3, <2>1, AskerConstants, A!EndpointNext
<1>5. {TRUE} = {TRUE}
  OBVIOUS
<1> QED BY <1>1, <1>2, <1>3, <1>4, <1>5, AskerConstants, A!ClientPacket

LEMMA AskerMoves ==
    ASSUME CallsInv, Asker!doWork
    PROVE  /\ A!EndpointInv'
           /\ UNCHANGED <<aMid, aTok>> /\ Len(aQueue') <= Len(aQueue)
           /\ \A j \in DOMAIN aQueue' : \E k \in DOMAIN aQueue :
                /\ A!Keeps(aQueue[k], aQueue'[j])
                /\ aQueue'[j].state \in {aQueue[k].state, "WAITING_RESPONSE"}
           /\ \/ aTx' = {}
              \/ \E j \in DOMAIN aQueue' :
                    /\ aQueue'[j].state = "WAITING_RESPONSE"
                    /\ aTx' = {[ep |-> aQueue'[j].ep, msg |-> aQueue'[j].req]}
           /\ \/ UNCHANGED aCalls
              \/ \E k \in DOMAIN aQueue :
                    /\ aCalls[aQueue[k].call] = "open"
                    /\ \/ aCalls' = [aCalls EXCEPT ![aQueue[k].call] = "failed"]
                       \/ /\ aQueue[k].state = "HANDLE_RESPONSE"
                          /\ aCalls' = [aCalls EXCEPT ![aQueue[k].call] = "response"]
           /\ \A k \in DOMAIN aQueue : aQueue[k].state = "HANDLE_RESPONSE" =>
                \/ aCalls'[aQueue[k].call] = "response"
                \/ \E j \in DOMAIN aQueue' : /\ aQueue'[j].call = aQueue[k].call
                                             /\ aQueue'[j].state = "HANDLE_RESPONSE"
<1>1. A!OnlyClients(aQueue) /\ A!EndpointInv /\ AskerTyped
  BY AskerClients
<1>2. Asker!Idle /\ aQueue # <<>> /\ A!Idle
      /\ \/ Asker!Rotate
         \/ /\ ~Asker!Sleeping(Head(aQueue))
            /\ \/ Asker!handleServerInteraction \/ Asker!handleNotifyInteraction
               \/ Asker!handleClientInteraction
  BY DEF Asker!doWork, Asker!Idle, A!Idle
<1>3. Head(aQueue).role = "CLIENT"
  <2>1. 1 \in DOMAIN aQueue /\ Head(aQueue) = aQueue[1]
    BY <1>1, <1>2 DEF AskerTyped
  <2> QED BY <1>1, <2>1 DEF A!OnlyClients
<1>4. ~Asker!handleServerInteraction /\ ~Asker!handleNotifyInteraction
  BY <1>3
     DEF Asker!handleServerInteraction, Asker!ServeMulticastCon, Asker!ServeMulticastWait,
         Asker!ServeMethodNotAllowed, Asker!ServeNullAnswer, Asker!ServeDrop, Asker!ServePostponeAck,
         Asker!ServePostponeAgain, Asker!ServeAnswer, Asker!ServerWaitsForAck,
         Asker!ServerRetries, Asker!ServerDone, Asker!AnswerSent, Asker!ReadyForHandler,
         Asker!AwaitsHandler, Asker!Serving, Asker!handleNotifyInteraction,
         Asker!SendNotification, Asker!NotificationWaits, Asker!NotificationRetries,
         Asker!NotificationRestarts, Asker!NotificationDone, Asker!NotificationRefused,
         Asker!NotificationSent, Asker!Pending
<1>5. A!doWork
  <2>1. Asker!Sleeping(Head(aQueue)) <=> A!Sleeping(Head(aQueue))
    BY DEF A!Sleeping, Asker!Sleeping
  <2> QED BY <1>2, <1>4, <2>1, AskerSteps DEF A!doWork
<1>6. A!EndpointInv'
  <2>1. A!Next
    BY <1>5 DEF A!Next
  <2> QED BY <1>1, <2>1, AskerConstants, A!EndpointNext
<1>7. {TRUE} = {TRUE}
  OBVIOUS
<1> QED BY <1>1, <1>5, <1>6, <1>7, AskerConstants, A!ClientWork

LEMMA AskerStarts ==
    ASSUME CallsInv, MaxRequests < TokMod, MaxRequests <= MaxInteractions,
           NEW type \in RequestTypes, Asker!StartNewRequest(server, type)
    PROVE  /\ A!EndpointInv'
           /\ aMid' = A!NextMid(aMid) /\ aTok' = aTok + 1 /\ aTx' = {}
           /\ aTok + 1 \in 1 .. MaxRequests
           /\ Len(aQueue') = Len(aQueue) + 1
           /\ aCalls[aTok + 1] = "idle" /\ aCalls' = [aCalls EXCEPT ![aTok + 1] = "open"]
           /\ \A j \in DOMAIN aQueue' :
                \/ j \in DOMAIN aQueue /\ aQueue'[j] = aQueue[j]
                \/ /\ aQueue'[j].role = "CLIENT" /\ aQueue'[j].call = aTok + 1
                   /\ aQueue'[j].state = "READY_TO_REQUEST"
                   /\ aQueue'[j].req = A!CreateMessage(type, "GET", A!NextMid(aMid), aTok + 1)
           /\ \A j \in DOMAIN aQueue : j \in DOMAIN aQueue' /\ aQueue'[j] = aQueue[j]
<1>1. A!OnlyClients(aQueue) /\ A!EndpointInv /\ AskerTyped
  BY AskerClients
<1>2. A!StartNewRequest(server, type)
  BY AskerSteps
<1>3. A!EndpointInv'
  <2>1. A!Next
    BY <1>2 DEF A!Next
  <2> QED BY <1>1, <2>1, AskerConstants, A!EndpointNext
<1>4. /\ aTok \in 0 .. MaxRequests /\ Len(aQueue) <= aTok /\ Len(aQueue) \in Nat
      /\ \A n \in 1 .. MaxRequests : aCalls[n] = "idle" <=> n > aTok
      /\ MaxRequests \in Nat /\ MaxInteractions \in Nat /\ TokMod \in Nat \ {0}
  BY <1>1, BoundsAssumption, IdsAssumption DEF CallsInv, AskerOK, AskerTyped
<1>5. PICK n \in 1 .. MaxRequests : aCalls[n] = "idle"
  BY <1>2 DEF A!StartNewRequest, A!First, A!FreshCalls
<1>6. aTok + 1 \in 1 .. MaxRequests /\ aCalls[aTok + 1] = "idle"
  BY <1>4, <1>5
<1>7. ~A!OutOfMemory
  BY <1>4, <1>6 DEF A!OutOfMemory
<1>8. A!NextToken(aTok) = aTok + 1
  BY <1>4, <1>6 DEF A!NextToken
<1>9. /\ aMid' = A!NextMid(aMid) /\ aTok' = A!NextToken(aTok) /\ aTx' = {}
      /\ Len(aQueue') = Len(aQueue) + 1
      /\ \E i \in 1 .. MaxRequests :
           /\ aCalls[i] = "idle" /\ aCalls' = [aCalls EXCEPT ![i] = "open"]
           /\ \A x \in 1 .. MaxRequests : aCalls[x] = "idle" => i <= x
           /\ \A j \in DOMAIN aQueue' :
                \/ j \in DOMAIN aQueue /\ aQueue'[j] = aQueue[j]
                \/ /\ aQueue'[j].role = "CLIENT" /\ aQueue'[j].call = i
                   /\ aQueue'[j].state = "READY_TO_REQUEST"
                   /\ aQueue'[j].req = A!CreateMessage(type, "GET", A!NextMid(aMid), A!NextToken(aTok))
           /\ \A j \in DOMAIN aQueue : j \in DOMAIN aQueue' /\ aQueue'[j] = aQueue[j]
  <2>1. server \in {server}
    OBVIOUS
  <2> QED BY <1>1, <1>2, <1>7, <2>1, AskerConstants, A!ClientStarts
<1>10. ASSUME NEW i \in 1 .. MaxRequests, aCalls[i] = "idle",
              \A x \in 1 .. MaxRequests : aCalls[x] = "idle" => i <= x
       PROVE  i = aTok + 1
  <2>1. i <= aTok + 1
    BY <1>6, <1>10
  <2>2. i > aTok
    BY <1>4, <1>10
  <2> QED BY <1>4, <2>1, <2>2
<1> QED BY <1>3, <1>6, <1>8, <1>9, <1>10

LEMMA AskerTicks ==
    ASSUME CallsInv, Asker!Tick
    PROVE  /\ A!EndpointInv'
           /\ UNCHANGED <<aMid, aTok, aCalls>> /\ aTx' = {}
           /\ DOMAIN aQueue' = DOMAIN aQueue /\ Len(aQueue') = Len(aQueue)
           /\ \A k \in DOMAIN aQueue :
                A!Keeps(aQueue[k], aQueue'[k]) /\ aQueue'[k].state = aQueue[k].state
<1>1. A!EndpointInv /\ A!Tick
  BY AskerSteps DEF CallsInv
<1>2. A!EndpointInv'
  <2>1. A!Next
    BY <1>1 DEF A!Next
  <2> QED BY <1>1, <2>1, AskerConstants, A!EndpointNext
<1> QED BY <1>1, <1>2, AskerConstants, A!SecondPasses

LEMMA AskerIdles ==
    ASSUME CallsInv, AskerRests
    PROVE  A!EndpointInv'
BY AskerConstants, A!EndpointRests DEF CallsInv, AskerRests, Everyone

-----------------------------------------------------------------------------
(* The steps of the serving side *)

LEMMA ServerServes ==
    ASSUME CallsInv
    PROVE  S!OnlyServers(sQueue) /\ S!EndpointInv /\ ServerTyped
BY ServerTypes, SameWords DEF CallsInv, ServerOK, S!OnlyServers

LEMMA ServerHears ==
    ASSUME CallsInv, NEW d \in DOMAIN wire, d.to = server,
           Server!HandleIncomingPacket(Arrival(d, asker))
    PROVE  /\ S!EndpointInv' /\ UNCHANGED sMid
           /\ \A j \in DOMAIN sQueue' :
                \/ /\ j \in DOMAIN sQueue
                   /\ S!Keeps(sQueue[j], sQueue'[j]) /\ sQueue'[j].resp = sQueue[j].resp
                   /\ \/ sQueue'[j].resConfirm \in {sQueue[j].resConfirm, "RST_SEND"}
                      \/ d.msg.type = "ACK" /\ d.msg.mid \in {sQueue[j].req.mid, sQueue[j].resp.mid}
                \/ /\ S!MsgIsRequest(d.msg)
                   /\ sQueue'[j].role = "SERVER" /\ sQueue'[j].req = d.msg
                   /\ sQueue'[j].resp = S!NoMessage /\ sQueue'[j].resConfirm = "NOT_SET"
           /\ \/ sTx' = {}
              \/ \E m : /\ sTx' = {[ep |-> asker, msg |-> m]} /\ m.type \in {"ACK", "RST"}
                        /\ \/ m.code = "EMPTY" /\ m.token = S!NoToken
                           \/ /\ m.code \in S!Responses /\ m.token = d.msg.token
                              /\ S!MsgIsRequest(d.msg)
                        /\ m.mid = d.msg.mid
<1> DEFINE a == Arrival(d, asker)
<1>1. /\ a \in ToServer /\ a.msg = d.msg /\ a.ep = asker /\ ~S!UnknownUri(a)
  <2>1. d.msg \in Server!Message
    BY SameWords DEF CallsInv, WireOK, FromAsker
  <2>2. resource # NoRes
    BY ResourceAssumption
  <2>3. Server!MsgIsRequest(d.msg) <=> S!MsgIsRequest(d.msg)
    BY SameWords DEF Server!MsgIsRequest, S!MsgIsRequest
  <2> QED BY <2>1, <2>2, <2>3 DEF Arrival, ToServer, Resources, S!UnknownUri
<1>2. S!HandleIncomingPacket(a)
  BY ServerSteps
<1>3. S!OnlyServers(sQueue) /\ S!EndpointInv
  BY ServerServes
<1> HIDE DEF a
<1>4. S!EndpointInv'
  <2>1. S!Next
    BY <1>1, <1>2 DEF S!Next
  <2> QED BY <1>3, <2>1, ServerConstants, S!EndpointNext
<1>5. {TRUE} = {TRUE}
  OBVIOUS
<1>6. /\ UNCHANGED sMid
      /\ \A j \in DOMAIN sQueue' :
           \/ /\ j \in DOMAIN sQueue
              /\ S!Keeps(sQueue[j], sQueue'[j]) /\ sQueue'[j].resp = sQueue[j].resp
              /\ \/ sQueue'[j].resConfirm \in {sQueue[j].resConfirm, "RST_SEND"}
                 \/ a.msg.type = "ACK" /\ a.msg.mid \in {sQueue[j].req.mid, sQueue[j].resp.mid}
           \/ /\ S!MsgIsRequest(a.msg)
              /\ sQueue'[j].role = "SERVER" /\ sQueue'[j].req = a.msg
              /\ sQueue'[j].resp = S!NoMessage /\ sQueue'[j].resConfirm = "NOT_SET"
      /\ \/ sTx' = {}
         \/ \E m : /\ sTx' = {[ep |-> a.ep, msg |-> m]} /\ m.type \in {"ACK", "RST"}
                   /\ \/ m.code = "EMPTY" /\ m.token = S!NoToken
                      \/ /\ m.code \in S!Responses /\ m.token = a.msg.token
                         /\ S!MsgIsRequest(a.msg)
                   /\ m.mid = a.msg.mid
  BY <1>1, <1>2, <1>3, <1>5, ServerConstants, S!ServerPacket
<1> QED BY <1>1, <1>4, <1>6

LEMMA ServerMoves ==
    ASSUME CallsInv, Server!doWork
    PROVE  /\ S!EndpointInv' /\ sMid' \in {sMid, S!NextMid(sMid)}
           /\ 1 \in DOMAIN sQueue
           /\ \A j \in DOMAIN sQueue' :
                \/ \E k \in DOMAIN sQueue : sQueue'[j] = sQueue[k]
                \/ S!Later(sQueue[1], sQueue'[j])
           /\ \/ sTx' = {}
              \/ \E id \in S!Mids : sTx' = {[ep |-> asker, msg |-> S!SendEmptyAck(id)]}
              \/ \E j \in DOMAIN sQueue' : sTx' = {[ep |-> asker, msg |-> sQueue'[j].resp]}
<1>1. S!OnlyServers(sQueue) /\ S!EndpointInv /\ ServerTyped
  BY ServerServes
<1>2. /\ sQueue # <<>> /\ S!Idle
      /\ \/ Server!Rotate
         \/ /\ ~Server!Sleeping(Head(sQueue))
            /\ \/ Server!handleServerInteraction \/ Server!handleNotifyInteraction
               \/ Server!handleClientInteraction
  BY DEF Server!doWork, Server!Idle, S!Idle
<1>3. Head(sQueue).role = "SERVER"
  <2>1. 1 \in DOMAIN sQueue /\ Head(sQueue) = sQueue[1]
    BY <1>1, <1>2 DEF ServerTyped
  <2> QED BY <1>1, <2>1 DEF S!OnlyServers
<1>4. ~Server!handleClientInteraction /\ ~Server!handleNotifyInteraction
  BY <1>3
     DEF Server!handleClientInteraction, Server!SendRequest, Server!ClientWaits,
         Server!ClientRetries, Server!ClientGivesUp, Server!HandleResponse,
         Server!AwaitsResponse, Server!Asking, Server!handleNotifyInteraction,
         Server!SendNotification, Server!NotificationWaits, Server!NotificationRetries,
         Server!NotificationRestarts, Server!NotificationDone, Server!NotificationRefused,
         Server!NotificationSent, Server!Pending
<1>5. S!doWork
  <2>1. Server!Sleeping(Head(sQueue)) <=> S!Sleeping(Head(sQueue))
    BY DEF S!Sleeping, Server!Sleeping
  <2> QED BY <1>2, <1>4, <2>1, ServerSteps DEF S!doWork
<1>6. S!EndpointInv'
  <2>1. S!Next
    BY <1>5 DEF S!Next
  <2> QED BY <1>1, <2>1, ServerConstants, S!EndpointNext
<1>7. {TRUE} = {TRUE} /\ {"NON"} = {"NON"}
  OBVIOUS
<1>8. ~S!ServeNullAnswer
  <2>1. 1 \in DOMAIN sQueue /\ Head(sQueue) = sQueue[1]
    BY <1>1, <1>2 DEF ServerTyped
  <2>2. Head(sQueue).req.code = "GET"
    BY <2>1 DEF CallsInv, ServerOK
  <2>3. Head(sQueue).res \in Resources
    BY <1>1, <1>3, <2>1
       DEF S!EndpointInv, S!JobsInv, S!TypeInv, S!NoNullMessage, S!WellFormed
  <2> QED BY <2>2, <2>3 DEF S!ServeNullAnswer, S!Allowed, S!Serving, Everyone
<1> QED BY <1>1, <1>5, <1>6, <1>7, <1>8, ServerConstants, S!ServerWork

LEMMA ServerTicks ==
    ASSUME CallsInv, Server!Tick
    PROVE  /\ S!EndpointInv' /\ UNCHANGED sMid /\ sTx' = {}
           /\ DOMAIN sQueue' = DOMAIN sQueue
           /\ \A k \in DOMAIN sQueue :
                /\ S!Keeps(sQueue[k], sQueue'[k])
                /\ sQueue'[k].resp = sQueue[k].resp /\ sQueue'[k].resConfirm = sQueue[k].resConfirm
<1>1. S!EndpointInv /\ S!Tick
  BY ServerSteps DEF CallsInv
<1>2. S!EndpointInv'
  <2>1. S!Next
    BY <1>1 DEF S!Next
  <2> QED BY <1>1, <2>1, ServerConstants, S!EndpointNext
<1> QED BY <1>1, <1>2, ServerConstants, S!SecondPasses

LEMMA ServerIdles ==
    ASSUME CallsInv, ServerRests
    PROVE  S!EndpointInv'
BY ServerConstants, S!EndpointRests DEF CallsInv, ServerRests, Everyone

-----------------------------------------------------------------------------
(* Every answer belongs to its call *)

LEMMA CallsInit == Init => CallsInv
<1> SUFFICES ASSUME Init PROVE CallsInv
  OBVIOUS
<1>1. A!Init /\ S!Init
  BY AskerSteps, ServerSteps DEF Init
<1>2. A!EndpointInv
  BY <1>1, AskerConstants, A!EndpointInit
<1>3. S!EndpointInv
  BY <1>1, ServerConstants, S!EndpointInit
<1>4. /\ aQueue = <<>> /\ aTok = 0 /\ aCalls = [n \in 1 .. MaxRequests |-> "idle"]
      /\ sQueue = <<>>
  BY <1>1 DEF A!Init, S!Init
<1>5. AskerOK
  BY <1>4, BoundsAssumption DEF AskerOK
<1> QED BY <1>2, <1>3, <1>4, <1>5 DEF Init, CallsInv, ServerOK, WireOK

LEMMA AskerKept ==
    ASSUME CallsInv, A!EndpointInv', aTok' = aTok, answered \subseteq answered',
           Len(aQueue') <= Len(aQueue),
           \A n \in 1 .. MaxRequests : aCalls'[n] = "idle" <=> aCalls[n] = "idle",
           \A j \in DOMAIN aQueue' : \E k \in DOMAIN aQueue :
              /\ A!Keeps(aQueue[k], aQueue'[j])
              /\ aQueue'[j].state = "HANDLE_RESPONSE" =>
                    aQueue[k].state = "HANDLE_RESPONSE" \/ aQueue[k].call \in answered
    PROVE  AskerOK'
<1>1. aQueue \in Seq(A!Interaction) /\ aQueue' \in Seq(A!Interaction)
  BY AskerTypes DEF CallsInv, AskerTyped
<1>2. Len(aQueue') <= aTok'
  BY <1>1, BoundsAssumption DEF CallsInv, AskerOK
<1> QED BY <1>2 DEF CallsInv, AskerOK, A!Keeps

LEMMA ServerKept ==
    ASSUME ServerOK, aTok' = aTok,
           \A j \in DOMAIN sQueue' :
              \/ \E k \in DOMAIN sQueue :
                    /\ S!Keeps(sQueue[k], sQueue'[j])
                    /\ sQueue'[j].resp.code \in {sQueue[k].resp.code} \/ sQueue'[j].resp.code \notin A!Requests
              \/ /\ sQueue'[j].role = "SERVER" /\ sQueue'[j].resp.code \notin A!Requests
                 /\ sQueue'[j].req.token \in 1 .. aTok /\ sQueue'[j].req.code = "GET"
    PROVE  ServerOK'
BY DEF ServerOK, S!Keeps

LEMMA CallsStep ==
    ASSUME CallsInv, [Next]_vars, MaxRequests < TokMod, MaxRequests <= MaxInteractions
    PROVE  CallsInv'
<1>1. /\ AskerOK /\ ServerOK /\ WireOK /\ answered \subseteq 1 .. aTok /\ aTok \in Nat
      /\ A!EndpointInv /\ S!EndpointInv /\ AskerTyped /\ ServerTyped
  BY AskerTypes, ServerTypes, BoundsAssumption DEF CallsInv, AskerOK
<1>2. CASE AskerReceives
  <2>1. PICK d \in DOMAIN wire :
          /\ d.to = asker
          /\ Asker!HandleIncomingPacket(Arrival(d, server))
          /\ ServerRests /\ Delivered(d) /\ UNCHANGED answered
    BY <1>2 DEF AskerReceives
  <2>2. A!EndpointInv' /\ S!EndpointInv'
    BY <2>1, AskerHears, ServerIdles
  <2>3. UNCHANGED <<aTok, aCalls, answered, sQueue>> /\ DOMAIN aQueue' = DOMAIN aQueue /\ sTx' = {}
    BY <2>1, AskerHears DEF ServerRests
  <2>4. AskerOK'
    <3>1. aQueue \in Seq(A!Interaction) /\ aQueue' \in Seq(A!Interaction)
      BY <1>1, <2>2, AskerTypes DEF AskerTyped
    <3>2. Len(aQueue') <= Len(aQueue)
      BY <2>3, <3>1
    <3>3. FromServer(d.msg)
      BY <1>1, <2>1 DEF WireOK
    <3>4. d.msg.code \in A!Responses => d.msg.token \in answered
      BY <3>3 DEF FromServer, A!Responses
    <3>5. \A j \in DOMAIN aQueue' :
            /\ A!Keeps(aQueue[j], aQueue'[j])
            /\ aQueue'[j].state = "HANDLE_RESPONSE" =>
                    aQueue[j].state = "HANDLE_RESPONSE" \/ aQueue[j].call \in answered
      BY <1>1, <2>1, <2>3, <3>4, AskerHears DEF AskerOK
    <3> QED BY <2>2, <2>3, <3>2, <3>5, AskerKept
  <2>5. \A x \in aTx' : FromAsker(x.msg)'
    <3>1. \A x \in aTx' : x.msg \in A!Message
      BY <2>2, AskerTypes DEF AskerTyped
    <3>2. \A x \in aTx' : x.msg.code = "EMPTY" /\ x.msg.token = A!NoToken
      BY <2>1, AskerHears DEF A!SendEmptyRST, A!SendEmptyAck, A!SendShortResp, A!CreateMessage
    <3> QED BY <3>1, <3>2 DEF FromAsker
  <2>6. WireOK'
    BY <1>1, <2>1, <2>3, <2>5, DeliveredWire, WireStep
  <2>7. ServerOK'
    BY <1>1, <2>3 DEF ServerOK
  <2> QED BY <1>1, <2>2, <2>3, <2>4, <2>6, <2>7 DEF CallsInv
<1>3. CASE ServerReceives
  <2>1. PICK d \in DOMAIN wire :
          /\ d.to = server
          /\ Server!HandleIncomingPacket(Arrival(d, asker))
          /\ AskerRests /\ Delivered(d) /\ Answers
    BY <1>3 DEF ServerReceives
  <2>2. A!EndpointInv' /\ S!EndpointInv'
    BY <2>1, ServerHears, AskerIdles
  <2>3. UNCHANGED <<aTok, aCalls, aQueue>> /\ aTx' = {} /\ answered \subseteq answered'
    BY <2>1 DEF AskerRests, Answers
  <2>4. /\ FromAsker(d.msg)
        /\ S!MsgIsRequest(d.msg) => d.msg.token \in 1 .. aTok /\ d.msg.code = "GET"
    BY <1>1, <2>1, SameWords DEF WireOK, FromAsker, S!MsgIsRequest, A!Requests
  <2>5. ServerOK'
    <3>1. \A j \in DOMAIN sQueue' :
            \/ j \in DOMAIN sQueue /\ S!Keeps(sQueue[j], sQueue'[j]) /\ sQueue'[j].resp = sQueue[j].resp
            \/ /\ S!MsgIsRequest(d.msg)
               /\ sQueue'[j].role = "SERVER" /\ sQueue'[j].req = d.msg
               /\ sQueue'[j].resp = S!NoMessage
      BY <2>1, ServerHears
    <3>2. S!NoMessage.code \notin A!Requests
      BY DEF S!NoMessage, A!Requests
    <3> QED BY <1>1, <2>3, <2>4, <3>1, <3>2, ServerKept
  <2>6. \A x \in sTx' : FromServer(x.msg)'
    <3>1. \A x \in sTx' : x.msg \in A!Message
      BY <2>2, ServerTypes, SameWords DEF ServerTyped
    <3>2. \A x \in sTx' :
            \/ x.msg.code = "EMPTY" /\ x.msg.token = A!NoToken
            \/ x.msg.code \in A!Responses /\ x.msg.token \in 1 .. aTok
      BY <2>1, <2>4, SameWords, ServerHears
    <3>3. \A x \in sTx' : x.msg.code \in A!Responses => x.msg.token \in answered'
      BY <2>1, SameWords DEF Answers
    <3> QED BY <2>3, <3>1, <3>2, <3>3 DEF FromServer, A!Responses, A!Requests
  <2>7. WireOK'
    BY <1>1, <2>1, <2>3, <2>6, DeliveredWire, WireStep
  <2>8. answered' \subseteq 1 .. aTok'
    <3>1. \A x \in sTx' : x.msg.code \in A!Responses => x.msg.token \in 1 .. aTok
      BY <2>1, <2>4, SameWords, ServerHears DEF A!Responses
    <3> QED BY <1>1, <2>1, <2>3, <3>1, SameWords DEF Answers
  <2>9. AskerOK'
    BY <1>1, <2>3 DEF AskerOK
  <2> QED BY <2>2, <2>5, <2>7, <2>8, <2>9 DEF CallsInv
<1>4. CASE /\ Asker!doWork /\ ServerRests /\ Carry({}, Sent(server, aTx'))
           /\ UNCHANGED <<duplicates, answered>>
  <2>1. A!EndpointInv' /\ S!EndpointInv'
    BY <1>4, AskerMoves, ServerIdles
  <2>2. UNCHANGED <<aTok, answered, sQueue>> /\ sTx' = {} /\ Len(aQueue') <= Len(aQueue)
    BY <1>4, AskerMoves DEF ServerRests
  <2>3. \A n \in 1 .. MaxRequests : aCalls'[n] = "idle" <=> aCalls[n] = "idle"
    BY <1>1, <1>4, AskerMoves DEF AskerTyped
  <2>4. \A j \in DOMAIN aQueue' : \E k \in DOMAIN aQueue :
            /\ A!Keeps(aQueue[k], aQueue'[j])
            /\ aQueue'[j].state \in {aQueue[k].state, "WAITING_RESPONSE"}
    BY <1>4, AskerMoves
  <2>5. AskerOK'
    BY <2>1, <2>2, <2>3, <2>4, AskerKept
  <2>6. \A x \in aTx' : FromAsker(x.msg)'
    <3>1. \A x \in aTx' : x.msg \in A!Message
      BY <2>1, AskerTypes DEF AskerTyped
    <3>2. \A x \in aTx' : \E j \in DOMAIN aQueue' : x.msg = aQueue'[j].req
      BY <1>4, AskerMoves
    <3>3. \A j \in DOMAIN aQueue' : /\ aQueue'[j].req.code = "GET"
                                    /\ aQueue'[j].req.token \in 1 .. aTok'
      BY <2>5 DEF AskerOK
    <3> QED BY <3>1, <3>2, <3>3 DEF FromAsker
  <2>7. WireOK'
    BY <1>1, <1>4, <2>2, <2>6, WireAfter, WireStep
  <2>8. ServerOK'
    BY <1>1, <2>2 DEF ServerOK
  <2> QED BY <1>1, <2>1, <2>2, <2>5, <2>7, <2>8 DEF CallsInv
<1>5. ASSUME NEW type \in RequestTypes, Asker!StartNewRequest(server, type),
             ServerRests, Carry({}, Sent(server, aTx')), UNCHANGED <<duplicates, answered>>
      PROVE  CallsInv'
  <2>1. A!EndpointInv' /\ S!EndpointInv'
    BY <1>5, AskerStarts, ServerIdles
  <2>2. /\ aTok' = aTok + 1 /\ aTok + 1 \in 1 .. MaxRequests
        /\ UNCHANGED <<answered, sQueue>> /\ sTx' = {} /\ aTx' = {}
        /\ Len(aQueue') = Len(aQueue) + 1
        /\ aCalls' = [aCalls EXCEPT ![aTok + 1] = "open"]
    BY <1>5, AskerStarts DEF ServerRests
  <2>3. \A n \in 1 .. MaxRequests : aCalls'[n] = "idle" <=> n > aTok'
    BY <1>1, <2>2, BoundsAssumption DEF AskerOK, AskerTyped
  <2>4. \A j \in DOMAIN aQueue' :
          \/ j \in DOMAIN aQueue /\ aQueue'[j] = aQueue[j]
          \/ /\ aQueue'[j].role = "CLIENT" /\ aQueue'[j].call = aTok + 1
             /\ aQueue'[j].state = "READY_TO_REQUEST"
             /\ aQueue'[j].req = A!CreateMessage(type, "GET", A!NextMid(aMid), aTok + 1)
    BY <1>5, AskerStarts
  <2>5. AskerOK'
    <3>1. type # "ACK"
      BY TypesAssumption
    <3>2. \A j \in DOMAIN aQueue' :
            /\ aQueue'[j].role = "CLIENT" /\ aQueue'[j].call \in 1 .. aTok'
            /\ aQueue'[j].req.code = "GET" /\ aQueue'[j].req.type # "ACK"
            /\ aQueue'[j].req.token = aQueue'[j].call
            /\ aQueue'[j].state = "HANDLE_RESPONSE" => aQueue'[j].call \in answered'
      BY <1>1, <2>2, <2>4, <3>1 DEF AskerOK, A!CreateMessage
    <3>3. aTok' \in 0 .. MaxRequests /\ Len(aQueue') <= aTok'
      BY <1>1, <2>2, BoundsAssumption DEF AskerOK, AskerTyped
    <3> QED BY <2>3, <3>2, <3>3 DEF AskerOK
  <2>6. WireOK'
    <3>1. DOMAIN wire' \subseteq DOMAIN wire \cup (Sent(server, aTx') \cup Sent(asker, sTx'))
      BY <1>5, WireAfter
    <3> QED BY <1>1, <2>2, <3>1, WireStep
  <2>7. ServerOK'
    BY <1>1, <2>2 DEF ServerOK
  <2> QED BY <1>1, <2>1, <2>2, <2>5, <2>6, <2>7 DEF CallsInv
<1>6. CASE ServerWorks
  <2>1. A!EndpointInv' /\ S!EndpointInv'
    BY <1>6, ServerMoves, AskerIdles DEF ServerWorks
  <2>2. UNCHANGED <<aTok, aCalls, aQueue>> /\ aTx' = {} /\ answered \subseteq answered'
    BY <1>6 DEF ServerWorks, AskerRests, Answers
  <2>3. ServerOK'
    <3>1. 1 \in DOMAIN sQueue
      BY <1>6, ServerMoves DEF ServerWorks
    <3>2. \A j \in DOMAIN sQueue' :
            \/ \E k \in DOMAIN sQueue : sQueue'[j] = sQueue[k]
            \/ S!Keeps(sQueue[1], sQueue'[j]) /\ sQueue'[j].resp.code \notin A!Requests
      BY <1>6, ServerMoves, SameWords DEF ServerWorks, S!Later, S!Follows
    <3> QED BY <1>1, <2>2, <3>1, <3>2 DEF ServerOK, S!Keeps
  <2>4. \A x \in sTx' : x.msg \in A!Message
    BY <2>1, ServerTypes, SameWords DEF ServerTyped
  <2>5. \A x \in sTx' :
            \/ x.msg.code = "EMPTY" /\ x.msg.token = A!NoToken
            \/ \E j \in DOMAIN sQueue' : x.msg = sQueue'[j].resp
    BY <1>6, ServerMoves, SameWords
       DEF ServerWorks, S!SendEmptyAck, S!SendShortResp, S!CreateMessage
  <2>6. \A x \in sTx' :
            \/ x.msg.code = "EMPTY" /\ x.msg.token = A!NoToken
            \/ x.msg.code \notin A!Requests /\ x.msg.token \in 1 .. aTok
    <3>1. ASSUME NEW x \in sTx', NEW j \in DOMAIN sQueue', x.msg = sQueue'[j].resp
          PROVE  x.msg.code \notin A!Requests /\ x.msg.token \in 1 .. aTok
      <4>1. sQueue'[j].resp # A!NoMessage
        BY <2>4, <3>1 DEF A!Message, A!NoMessage, A!Types
      <4>2. sQueue'[j].resp.token = sQueue'[j].req.token
        BY <2>1, <2>3, <4>1, ServerTypes, SameWords DEF ServerTyped, ServerOK
      <4> QED BY <2>2, <2>3, <3>1, <4>2 DEF ServerOK
    <3> QED BY <2>5, <3>1
  <2>7. \A x \in sTx' : x.msg.code \in A!Responses => x.msg.token \in answered'
    BY <1>6, SameWords DEF ServerWorks, Answers
  <2>8. \A m \in A!Message : m.code \in A!Requests \cup A!Responses \cup {"EMPTY"}
    BY DEF A!Message, A!Codes
  <2>9. \A x \in sTx' : FromServer(x.msg)'
    BY <2>2, <2>4, <2>6, <2>7, <2>8 DEF FromServer, A!Requests
  <2>10. WireOK'
    BY <1>1, <1>6, <2>2, <2>9, WireAfter, WireStep DEF ServerWorks
  <2>11. answered' \subseteq 1 .. aTok'
    <3>1. \A x \in sTx' : x.msg.code \in A!Responses => x.msg.token \in 1 .. aTok
      BY <2>6 DEF A!Responses
    <3> QED BY <1>1, <1>6, <2>2, <3>1, SameWords DEF ServerWorks, Answers
  <2>12. AskerOK'
    BY <1>1, <2>2 DEF AskerOK
  <2> QED BY <2>1, <2>3, <2>10, <2>11, <2>12 DEF CallsInv
<1>7. CASE Lose
  <2>1. A!EndpointInv' /\ S!EndpointInv'
    BY <1>7, ServerIdles, AskerIdles DEF Lose
  <2>2. UNCHANGED <<aTok, aCalls, aQueue, sQueue, answered>> /\ aTx' = {} /\ sTx' = {}
    BY <1>7 DEF Lose, AskerRests, ServerRests
  <2>3. DOMAIN wire' \subseteq DOMAIN wire \cup (Sent(server, aTx') \cup Sent(asker, sTx'))
    BY <1>7, WireAfter DEF Lose
  <2>4. WireOK'
    BY <1>1, <2>2, <2>3, WireStep
  <2> QED BY <1>1, <2>1, <2>2, <2>4 DEF CallsInv, AskerOK, ServerOK
<1>8. CASE Tick
  <2>1. A!EndpointInv' /\ S!EndpointInv'
    BY <1>8, AskerTicks, ServerTicks DEF Tick
  <2>2. UNCHANGED <<aTok, aCalls, wire, answered>> /\ DOMAIN aQueue' = DOMAIN aQueue
        /\ Len(aQueue') = Len(aQueue)
    BY <1>8, AskerTicks DEF Tick
  <2>3. \A k \in DOMAIN aQueue :
            A!Keeps(aQueue[k], aQueue'[k]) /\ aQueue'[k].state = aQueue[k].state
    BY <1>8, AskerTicks DEF Tick
  <2>4. AskerOK'
    BY <1>1, <2>1, <2>2, <2>3, AskerKept DEF AskerTyped
  <2>5. ServerOK'
    BY <1>1, <1>8, <2>2, ServerTicks, ServerKept DEF Tick
  <2> QED BY <1>1, <2>1, <2>2, <2>4, <2>5 DEF CallsInv, WireOK, FromAsker, FromServer
<1>9. CASE UNCHANGED vars
  <2>1. A!EndpointInv'
    BY <1>1, <1>9, AskerConstants, A!EndpointNext DEF vars, A!vars, Everyone
  <2>2. S!EndpointInv'
    BY <1>1, <1>9, ServerConstants, S!EndpointNext DEF vars, S!vars, Everyone
  <2> QED
    BY <1>1, <1>9, <2>1, <2>2
       DEF vars, CallsInv, AskerOK, ServerOK, WireOK, FromAsker, FromServer
<1> QED BY <1>2, <1>3, <1>4, <1>5, <1>6, <1>7, <1>8, <1>9 DEF Next, AskerWorks

\* A step of the exchange is a step of one call, of its answer, or neither.
LEMMA CallsRefined ==
    ASSUME CallsInv, [Next]_vars, MaxRequests < TokMod, MaxRequests <= MaxInteractions
    PROVE  [Calls!Next]_(Calls!vars)
<1> USE DEF Calls!Next, Calls!vars
<1>1. /\ AskerOK /\ ServerOK /\ WireOK /\ answered \subseteq 1 .. aTok /\ aTok \in 0 .. MaxRequests
      /\ A!EndpointInv /\ S!EndpointInv /\ AskerTyped /\ ServerTyped /\ MaxRequests \in Nat
  BY AskerTypes, ServerTypes, BoundsAssumption DEF CallsInv, AskerOK
<1>2. ASSUME AskerRests, Answers,
             sTx' = {} \/ \E m : sTx' = {[ep |-> asker, msg |-> m]}
                                    /\ (m.code \in A!Responses => m.token \in 1 .. aTok)
      PROVE  [Calls!Next]_(Calls!vars)
  <2>1. UNCHANGED aCalls
    BY <1>2 DEF AskerRests
  <2>2. CASE answered' = answered
    BY <2>1, <2>2
  <2>3. CASE answered' # answered
    <3>1. PICK m : sTx' = {[ep |-> asker, msg |-> m]} /\ m.code \in A!Responses
                   /\ m.token \in 1 .. aTok
      BY <1>2, <2>3, SameWords DEF Answers
    <3>2. answered' = answered \cup {m.token}
      <4> DEFINE x == [ep |-> asker, msg |-> m]
      <4>1. {d \in sTx' : d.msg.code \in A!Responses} = {x} /\ x.msg.token = m.token
        BY <3>1
      <4>2. answered' = answered \cup {d.msg.token : d \in {x}}
        BY <1>2, <4>1, SameWords DEF Answers
      <4> HIDE DEF x
      <4>3. {d.msg.token : d \in {x}} = {x.msg.token}
        OBVIOUS
      <4> QED BY <4>1, <4>2, <4>3
    <3>3. m.token \in 1 .. MaxRequests /\ aCalls[m.token] # "idle"
      BY <1>1, <3>1 DEF AskerOK
    <3>4. Calls!Answer(m.token)
      BY <2>1, <3>2, <3>3 DEF Calls!Answer
    <3> QED BY <3>3, <3>4
  <2> QED BY <2>2, <2>3
<1>3. CASE AskerReceives
  <2>1. UNCHANGED <<aCalls, answered>>
    BY <1>3, AskerHears DEF AskerReceives
  <2> QED BY <2>1
<1>4. CASE ServerReceives
  <2>1. PICK d \in DOMAIN wire :
          /\ d.to = server
          /\ Server!HandleIncomingPacket(Arrival(d, asker))
          /\ AskerRests /\ Delivered(d) /\ Answers
    BY <1>4 DEF ServerReceives
  <2>2. FromAsker(d.msg) /\ (S!MsgIsRequest(d.msg) => d.msg.token \in 1 .. aTok)
    BY <1>1, <2>1, SameWords DEF WireOK, FromAsker, S!MsgIsRequest, A!Requests
  <2>3. \/ sTx' = {}
        \/ \E m : /\ sTx' = {[ep |-> asker, msg |-> m]}
                  /\ (m.code \in A!Responses => m.token \in 1 .. aTok)
    BY <2>1, <2>2, SameWords, ServerHears DEF A!Responses
  <2> QED BY <1>2, <2>1, <2>3
<1>5. CASE ServerWorks
  <2>1. CallsInv' /\ ServerOK' /\ ServerTyped' /\ aTok' = aTok
    BY <1>5, CallsStep, ServerTypes DEF CallsInv, Next, ServerWorks, AskerRests
  <2>2. \/ sTx' = {}
        \/ \E id \in S!Mids : sTx' = {[ep |-> asker, msg |-> S!SendEmptyAck(id)]}
        \/ \E j \in DOMAIN sQueue' : sTx' = {[ep |-> asker, msg |-> sQueue'[j].resp]}
    BY <1>5, ServerMoves DEF ServerWorks
  <2>3. \A id : S!SendEmptyAck(id).code \notin A!Responses
    BY DEF S!SendEmptyAck, S!SendShortResp, S!CreateMessage, A!Responses
  <2>4. \A j \in DOMAIN sQueue' :
            sQueue'[j].resp.code \in A!Responses => sQueue'[j].resp.token \in 1 .. aTok
    <3>1. A!NoMessage.code \notin A!Responses
      BY DEF A!NoMessage, A!Responses
    <3> QED BY <2>1, <3>1, SameWords DEF ServerOK, ServerTyped
  <2>5. \/ sTx' = {}
        \/ \E m : /\ sTx' = {[ep |-> asker, msg |-> m]}
                  /\ (m.code \in A!Responses => m.token \in 1 .. aTok)
    BY <2>2, <2>3, <2>4
  <2> QED BY <1>2, <1>5, <2>5 DEF ServerWorks
<1>6. CASE /\ Asker!doWork /\ ServerRests /\ Carry({}, Sent(server, aTx'))
           /\ UNCHANGED <<duplicates, answered>>
  <2>1. CASE UNCHANGED aCalls
    BY <1>6, <2>1
  <2>2. CASE \E k \in DOMAIN aQueue :
               /\ aCalls[aQueue[k].call] = "open"
               /\ \/ aCalls' = [aCalls EXCEPT ![aQueue[k].call] = "failed"]
                  \/ /\ aQueue[k].state = "HANDLE_RESPONSE"
                     /\ aCalls' = [aCalls EXCEPT ![aQueue[k].call] = "response"]
    <3>1. PICK k \in DOMAIN aQueue :
               /\ aCalls[aQueue[k].call] = "open"
               /\ \/ aCalls' = [aCalls EXCEPT ![aQueue[k].call] = "failed"]
                  \/ /\ aQueue[k].state = "HANDLE_RESPONSE"
                     /\ aCalls' = [aCalls EXCEPT ![aQueue[k].call] = "response"]
      BY <2>2
    <3> DEFINE n == aQueue[k].call
    <3>2. n \in 1 .. MaxRequests /\ (aQueue[k].state = "HANDLE_RESPONSE" => n \in answered)
      BY <1>1 DEF AskerOK
    <3> HIDE DEF n
    <3>3. Calls!Fail(n) \/ Calls!Return(n)
      BY <1>6, <3>1, <3>2 DEF n, Calls!Fail, Calls!Return, Calls!Advance
    <3> QED BY <3>2, <3>3
  <2> QED BY <1>6, <2>1, <2>2, AskerMoves
<1>7. ASSUME NEW type \in RequestTypes, Asker!StartNewRequest(server, type), UNCHANGED answered
      PROVE  [Calls!Next]_(Calls!vars)
  <2>1. /\ aTok + 1 \in 1 .. MaxRequests /\ aCalls[aTok + 1] = "idle"
        /\ aCalls' = [aCalls EXCEPT ![aTok + 1] = "open"]
    BY <1>7, AskerStarts
  <2>2. Calls!Call(aTok + 1)
    BY <1>7, <2>1 DEF Calls!Call, Calls!Advance
  <2> QED BY <2>1, <2>2
<1>8. CASE Lose \/ Tick \/ UNCHANGED vars
  <2>1. UNCHANGED <<aCalls, answered>>
    BY <1>8, AskerTicks DEF Lose, AskerRests, Tick, vars
  <2> QED BY <2>1
<1> QED BY <1>3, <1>4, <1>5, <1>6, <1>7, <1>8 DEF Next, AskerWorks

\* A call returns only what the other side answered to that very call, whatever
\* the network loses, repeats or reorders: the exchange implements CoapCalls.
\* The hypotheses are needed: currToken must not wrap, or two calls have one
\* token; and the heap must hold all calls, because CoAP_StartNewRequest draws
\* the token before it finds that there is no memory.
THEOREM CallsImplemented ==
    ASSUME MaxRequests < TokMod, MaxRequests <= MaxInteractions
    PROVE  Spec => ImplementsCalls
<1>1. Spec => []CallsInv
  <2>1. Init => CallsInv
    BY CallsInit
  <2>2. CallsInv /\ [Next]_vars => CallsInv'
    BY CallsStep
  <2> QED BY <2>1, <2>2, PTL DEF Spec
<1>2. Init => Calls!Init
  <2>1. Init => A!Init
    BY AskerSteps DEF Init
  <2> QED BY <2>1 DEF A!Init, Init, Calls!Init
<1>3. CallsInv /\ [Next]_vars => [Calls!Next]_(Calls!vars)
  BY CallsRefined
<1>4. Spec => Calls!Spec
  BY <1>1, <1>2, <1>3, PTL DEF Spec, Calls!Spec
<1> QED BY <1>4 DEF ImplementsCalls

-----------------------------------------------------------------------------
(* An acknowledged answer is reported *)

\* A message ID the server has drawn.
Drawn(id) == id \in ServerSeed + 1 .. sMid

\* The asker's message ID and token of a call are its number, and nobody has
\* seen the request before it is sent.
AskerIds ==
    /\ aMid = aTok
    /\ \A k \in DOMAIN aQueue :
        /\ aQueue[k].req.mid = aQueue[k].call
        /\ aQueue[k].state = "READY_TO_REQUEST" =>
             /\ \A d \in DOMAIN wire : d.msg.token # aQueue[k].call
             /\ \A j \in DOMAIN sQueue : sQueue[j].req.token # aQueue[k].call

\* An answer has the message ID of its request or one the server has drawn.
AnswerIds(r, top) ==
    /\ r.req.mid = r.req.token
    /\ r.resp.mid <= top
    /\ r.resp.mid > ServerSeed \/ r.resp.mid \in {-1, r.req.mid}
    /\ r.resp.type = "CON" => r.resp.mid > ServerSeed

ServerIds ==
    /\ sMid >= ServerSeed
    /\ \A k \in DOMAIN sQueue : AnswerIds(sQueue[k], sMid)
    /\ \A j, k \in DOMAIN sQueue :
         sQueue[j].resp.mid = sQueue[k].resp.mid /\ sQueue[k].resp.mid # -1
            => sQueue[j].req.token = sQueue[k].req.token

\* An ACK is on its way, or has arrived, only when the answer is reported; a
\* CON answer leads to the interactions with its token only.
Confirmed ==
    \A k \in DOMAIN sQueue : sQueue[k].resConfirm = "ACK_SEND" => Reported(sQueue[k].req.token)

WireIds ==
    \A d \in DOMAIN wire :
        /\ d.to = server /\ d.msg.code = "GET" => d.msg.mid = d.msg.token
        /\ d.to = server /\ d.msg.type = "ACK" =>
             /\ Drawn(d.msg.mid)
             /\ \A k \in DOMAIN sQueue :
                  sQueue[k].resp.mid = d.msg.mid => Reported(sQueue[k].req.token)
        /\ d.to = asker /\ d.msg.type = "CON" =>
             /\ Drawn(d.msg.mid)
             /\ \A k \in DOMAIN sQueue :
                  sQueue[k].resp.mid = d.msg.mid => sQueue[k].req.token = d.msg.token

AckInv == AskerIds /\ ServerIds /\ Confirmed /\ WireIds

\* What was reported, or is about to be, stays so.
LEMMA ReportedStays ==
    ASSUME CallsInv, [Next]_vars, MaxRequests < TokMod, MaxRequests <= MaxInteractions,
           NEW n \in 1 .. MaxRequests, Reported(n)
    PROVE  Reported(n)'
<1>1. AskerTyped /\ AskerOK /\ MaxRequests \in Nat
  BY AskerTypes, BoundsAssumption DEF CallsInv
<1>2. ASSUME aCalls'[n] = aCalls[n] \/ aCalls[n] # "response",
             \A k \in DOMAIN aQueue : aQueue[k].call = n /\ aQueue[k].state = "HANDLE_RESPONSE" =>
                 \/ aCalls'[n] = "response"
                 \/ \E j \in DOMAIN aQueue' :
                      aQueue'[j].call = n /\ aQueue'[j].state = "HANDLE_RESPONSE"
      PROVE  Reported(n)'
  BY <1>2 DEF Reported, Open
<1>3. CASE AskerReceives
  <2>1. UNCHANGED aCalls /\ DOMAIN aQueue' = DOMAIN aQueue
        /\ \A k \in DOMAIN aQueue :
             /\ aQueue'[k].call = aQueue[k].call
             /\ aQueue[k].state = "HANDLE_RESPONSE" => aQueue'[k].state = "HANDLE_RESPONSE"
    BY <1>3, AskerHears DEF AskerReceives, A!Keeps
  <2> QED BY <1>2, <2>1
<1>4. CASE Asker!doWork
  <2>1. aCalls'[n] = aCalls[n] \/ aCalls[n] # "response"
    BY <1>1, <1>4, AskerMoves DEF AskerTyped
  <2> QED BY <1>2, <1>4, <2>1, AskerMoves, SMTT(90)
<1>5. ASSUME NEW type \in RequestTypes, Asker!StartNewRequest(server, type)
      PROVE  Reported(n)'
  <2>1. aCalls[aTok + 1] = "idle" /\ aCalls' = [aCalls EXCEPT ![aTok + 1] = "open"]
        /\ \A j \in DOMAIN aQueue : j \in DOMAIN aQueue' /\ aQueue'[j] = aQueue[j]
    BY <1>5, AskerStarts
  <2>2. aCalls'[n] = aCalls[n] \/ aCalls[n] # "response"
    BY <1>1, <2>1 DEF AskerTyped
  <2> QED BY <1>2, <2>1, <2>2
<1>6. CASE Tick
  <2>1. UNCHANGED aCalls /\ DOMAIN aQueue' = DOMAIN aQueue
        /\ \A k \in DOMAIN aQueue :
             aQueue'[k].call = aQueue[k].call /\ aQueue'[k].state = aQueue[k].state
    BY <1>6, AskerTicks DEF Tick, A!Keeps
  <2> QED BY <1>2, <2>1
<1>7. CASE UNCHANGED <<aCalls, aQueue>>
  BY <1>7 DEF Reported, Open
<1> QED
  BY <1>3, <1>4, <1>5, <1>6, <1>7
     DEF Next, AskerWorks, ServerReceives, ServerWorks, Lose, AskerRests, vars


\* What a step of the server makes of one of its interactions.
Became(r, s) ==
    /\ S!Keeps(r, s)
    /\ \/ s.resp = r.resp
       \/ /\ s.resp.mid \in {r.resp.mid, r.req.mid}
          /\ s.resp.type = "CON" => r.resp.type = "CON" /\ s.resp.mid = r.resp.mid
       \/ s.resp.mid = sMid + 1 /\ sMid' = sMid + 1 /\ r.req = sQueue[1].req
    /\ s.resConfirm = "ACK_SEND" => r.resConfirm = "ACK_SEND" \/ Reported(r.req.token)

\* An interaction that has just begun, for a request that was on the wire.
Arrived(s) ==
    /\ s.resp = S!NoMessage /\ s.resConfirm = "NOT_SET"
    /\ s.req.mid = s.req.token
    /\ \E d \in DOMAIN wire : d.msg.token = s.req.token

\* While the server's counter has not wrapped, its IDs are above those of the
\* requests.
LEMMA NextId ==
    ASSUME CallsInv, AckInv, MaxRequests <= ServerSeed, 1 \in DOMAIN sQueue,
           sMid' = S!NextMid(sMid), sMid' >= sMid
    PROVE  sMid' = sMid + 1
<1>1. /\ MidMod \in Nat \ {0} /\ ServerSeed \in 0 .. MidMod - 1 /\ MaxRequests \in Nat
      /\ aTok \in 0 .. MaxRequests /\ sQueue[1].req.token \in 1 .. aTok
      /\ sMid \in 0 .. MidMod - 1 /\ sMid >= ServerSeed
  BY IdsAssumption, BoundsAssumption, ServerTypes
     DEF CallsInv, AskerOK, ServerOK, AckInv, ServerIds, ServerTyped, S!Mids
<1>2. sMid >= 1 /\ sMid' = (sMid + 1) % MidMod
  BY <1>1 DEF S!NextMid
<1>3. CASE sMid + 1 < MidMod
  BY <1>1, <1>2, <1>3
<1>4. CASE sMid + 1 = MidMod
  <2>1. (sMid + 1) % MidMod = 0
    BY <1>1, <1>4
  <2> QED BY <1>1, <1>2, <2>1
<1> QED BY <1>1, <1>3, <1>4

LEMMA ServerAfter ==
    ASSUME CallsInv, AckInv, MaxRequests <= ServerSeed, ServerReceives \/ ServerWorks, sMid' >= sMid
    PROVE  /\ UNCHANGED <<aQueue, aMid, aTok, aCalls>>
           /\ DOMAIN wire' \subseteq DOMAIN wire \cup Sent(asker, sTx')
           /\ sMid' \in {sMid, sMid + 1}
           /\ \A j \in DOMAIN sQueue' :
                Arrived(sQueue'[j]) \/ \E k \in DOMAIN sQueue : Became(sQueue[k], sQueue'[j])
           /\ \A x \in sTx' :
                \/ /\ x.msg.type # "CON"
                   /\ \/ x.msg.token = S!NoToken
                      \/ \E d \in DOMAIN wire : d.msg.token = x.msg.token
                \/ \E j \in DOMAIN sQueue' : x.msg = sQueue'[j].resp
<1>1. WireOK /\ ServerTyped /\ WireIds
  BY ServerTypes DEF CallsInv, AckInv
<1>2. CASE ServerReceives
  <2>1. PICK d \in DOMAIN wire :
          /\ d.to = server
          /\ Server!HandleIncomingPacket(Arrival(d, asker))
          /\ AskerRests /\ Delivered(d)
    BY <1>2 DEF ServerReceives
  <2>2. DOMAIN wire' \subseteq DOMAIN wire \cup Sent(asker, sTx') /\ UNCHANGED <<aQueue, aMid, aTok, aCalls>>
    BY <2>1, DeliveredWire DEF AskerRests, Sent
  <2>3. UNCHANGED sMid
    BY <2>1, ServerHears
  <2>4. FromAsker(d.msg) /\ (S!MsgIsRequest(d.msg) => d.msg.code = "GET")
    BY <1>1, <2>1, SameWords DEF WireOK, FromAsker, S!MsgIsRequest, A!Requests
  <2>5. ASSUME NEW j \in DOMAIN sQueue'
        PROVE  Arrived(sQueue'[j]) \/ \E k \in DOMAIN sQueue : Became(sQueue[k], sQueue'[j])
    <3>1. CASE /\ j \in DOMAIN sQueue
               /\ S!Keeps(sQueue[j], sQueue'[j]) /\ sQueue'[j].resp = sQueue[j].resp
               /\ \/ sQueue'[j].resConfirm \in {sQueue[j].resConfirm, "RST_SEND"}
                  \/ d.msg.type = "ACK" /\ d.msg.mid \in {sQueue[j].req.mid, sQueue[j].resp.mid}
      <4>1. CASE sQueue'[j].resConfirm \in {sQueue[j].resConfirm, "RST_SEND"}
        BY <3>1, <4>1 DEF Became
      <4>2. CASE d.msg.type = "ACK" /\ d.msg.mid \in {sQueue[j].req.mid, sQueue[j].resp.mid}
        <5>1. /\ Drawn(d.msg.mid)
              /\ sQueue[j].resp.mid = d.msg.mid => Reported(sQueue[j].req.token)
          BY <1>1, <2>1, <3>1, <4>2 DEF WireIds
        <5>2. /\ sQueue[j].req.mid = sQueue[j].req.token /\ sQueue[j].req.token \in 1 .. aTok
              /\ aTok \in 0 .. MaxRequests /\ MaxRequests \in Nat /\ ServerSeed \in Nat /\ sMid \in Nat
          BY <1>1, <3>1, BoundsAssumption, IdsAssumption, SMTT(90)
             DEF CallsInv, AckInv, ServerIds, AnswerIds, ServerOK, AskerOK, ServerTyped, S!Mids
        <5>3. d.msg.mid # sQueue[j].req.mid
          BY <5>1, <5>2 DEF Drawn
        <5> QED BY <3>1, <4>2, <5>1, <5>3 DEF Became
      <4> QED BY <3>1, <4>1, <4>2
    <3>2. CASE /\ S!MsgIsRequest(d.msg)
               /\ sQueue'[j].role = "SERVER" /\ sQueue'[j].req = d.msg
               /\ sQueue'[j].resp = S!NoMessage /\ sQueue'[j].resConfirm = "NOT_SET"
      BY <1>1, <2>1, <2>4, <3>2 DEF Arrived, WireIds
    <3> QED BY <2>1, <3>1, <3>2, ServerHears
  <2>6. \A x \in sTx' :
          /\ x.msg.type # "CON"
          /\ x.msg.token = S!NoToken \/ \E e \in DOMAIN wire : e.msg.token = x.msg.token
    <3>1. CASE sTx' = {}
      BY <3>1
    <3>2. CASE \E m : /\ sTx' = {[ep |-> asker, msg |-> m]} /\ m.type \in {"ACK", "RST"}
                      /\ m.token \in {S!NoToken, d.msg.token}
      BY <3>2
    <3> QED BY <2>1, <3>1, <3>2, ServerHears
  <2> QED BY <2>2, <2>3, <2>5, <2>6
<1>3. CASE ServerWorks
  <2>1. /\ DOMAIN wire' \subseteq DOMAIN wire \cup Sent(asker, sTx')
        /\ UNCHANGED <<aQueue, aMid, aTok, aCalls>>
    BY <1>3, WireAfter DEF ServerWorks, AskerRests
  <2>2. /\ 1 \in DOMAIN sQueue /\ sMid' \in {sMid, S!NextMid(sMid)}
        /\ \A j \in DOMAIN sQueue' :
             (\E k \in DOMAIN sQueue : sQueue'[j] = sQueue[k]) \/ S!Later(sQueue[1], sQueue'[j])
        /\ \/ sTx' = {}
           \/ \E id \in S!Mids : sTx' = {[ep |-> asker, msg |-> S!SendEmptyAck(id)]}
           \/ \E j \in DOMAIN sQueue' : sTx' = {[ep |-> asker, msg |-> sQueue'[j].resp]}
    BY <1>3, ServerMoves DEF ServerWorks
  <2>3. sMid' = S!NextMid(sMid) => sMid' = sMid + 1
    BY <2>2, NextId
  <2>4. ASSUME NEW j \in DOMAIN sQueue'
        PROVE  \E k \in DOMAIN sQueue : Became(sQueue[k], sQueue'[j])
    <3>1. ASSUME NEW k \in DOMAIN sQueue, sQueue'[j] = sQueue[k]
          PROVE  Became(sQueue[k], sQueue'[j])
      BY <3>1 DEF Became, S!Keeps
    <3>2. CASE S!Later(sQueue[1], sQueue'[j])
      BY <2>2, <2>3, <3>2 DEF Became, S!Later, S!Follows
    <3> QED BY <2>2, <3>1, <3>2
  <2>5. \A x \in sTx' :
          \/ x.msg.type # "CON" /\ x.msg.token = S!NoToken
          \/ \E j \in DOMAIN sQueue' : x.msg = sQueue'[j].resp
    BY <2>2 DEF S!SendEmptyAck, S!SendShortResp, S!CreateMessage
  <2> QED BY <2>1, <2>2, <2>3, <2>4, <2>5
<1> QED BY <1>2, <1>3

\* Everything that may move an interaction or put a datagram on the wire at
\* the asking side leaves AckInv as it was.
LEMMA AskerAck ==
    ASSUME CallsInv, AckInv, CallsInv', UNCHANGED <<sQueue, sMid>>,
           \A n \in 1 .. MaxRequests : Reported(n) => Reported(n)',
           AskerIds',
           NEW new, DOMAIN wire' \subseteq DOMAIN wire \cup new,
           \A d \in new :
              /\ d.to = server
              /\ d.msg.code = "GET" => d.msg.mid = d.msg.token
              /\ d.msg.type = "ACK" =>
                   /\ Drawn(d.msg.mid)
                   /\ \A k \in DOMAIN sQueue :
                        sQueue[k].resp.mid = d.msg.mid => Reported(sQueue[k].req.token)'
    PROVE  AckInv'
<1>1. \A k \in DOMAIN sQueue : sQueue[k].req.token \in 1 .. MaxRequests
  BY BoundsAssumption DEF CallsInv, ServerOK, AskerOK
<1>2. ServerIds'
  BY DEF AckInv, ServerIds, AnswerIds
<1>3. Confirmed'
  BY <1>1 DEF AckInv, Confirmed
<1>4. WireIds'
  <2> SUFFICES ASSUME NEW d \in DOMAIN wire'
               PROVE  /\ d.to = server /\ d.msg.code = "GET" => d.msg.mid = d.msg.token
                      /\ d.to = server /\ d.msg.type = "ACK" =>
                           /\ Drawn(d.msg.mid)'
                           /\ \A k \in DOMAIN sQueue :
                                sQueue[k].resp.mid = d.msg.mid => Reported(sQueue[k].req.token)'
                      /\ d.to = asker /\ d.msg.type = "CON" =>
                           /\ Drawn(d.msg.mid)'
                           /\ \A k \in DOMAIN sQueue :
                                sQueue[k].resp.mid = d.msg.mid => sQueue[k].req.token = d.msg.token
    BY DEF WireIds
  <2>1. Drawn(d.msg.mid) => Drawn(d.msg.mid)'
    BY DEF Drawn
  <2>2. CASE d \in DOMAIN wire
    BY <1>1, <2>1, <2>2 DEF AckInv, WireIds
  <2>3. CASE d \in new
    BY <2>1, <2>3, ExchangeAssumption
  <2> QED BY <2>2, <2>3
<1> QED BY <1>2, <1>3, <1>4 DEF AckInv

LEMMA AckAskerReceives ==
    ASSUME CallsInv, AckInv, CallsInv', AskerReceives,
           \A n \in 1 .. MaxRequests : Reported(n) => Reported(n)'
    PROVE  AckInv'
<1>1. PICK d \in DOMAIN wire :
        /\ d.to = asker
        /\ Asker!HandleIncomingPacket(Arrival(d, server))
        /\ ServerRests /\ Delivered(d)
  BY DEF AskerReceives
<1>2. UNCHANGED <<sQueue, sMid>> /\ sTx' = {}
  BY <1>1 DEF ServerRests
<1>3. DOMAIN wire' \subseteq DOMAIN wire \cup Sent(server, aTx')
  BY <1>1, <1>2, DeliveredWire DEF Sent
<1>4. /\ UNCHANGED <<aMid, aTok, aCalls>> /\ DOMAIN aQueue' = DOMAIN aQueue
      /\ \A k \in DOMAIN aQueue :
           /\ A!Keeps(aQueue[k], aQueue'[k])
           /\ aQueue'[k].state \in {aQueue[k].state, "HANDLE_RESPONSE"}
  BY <1>1, AskerHears
<1>5. /\ AskerIds /\ AskerOK /\ AskerOK' /\ WireIds /\ ServerOK /\ MaxRequests \in Nat
      /\ aTok \in 0 .. MaxRequests
  BY BoundsAssumption DEF AckInv, CallsInv, AskerOK
<1>6. \A d2 \in Sent(server, aTx') :
        /\ d2.to = server
        /\ d2.msg.code = "EMPTY" /\ d2.msg.token = A!NoToken
        /\ d2.msg.type = "ACK" =>
             /\ Drawn(d2.msg.mid)
             /\ \A k \in DOMAIN sQueue :
                  sQueue[k].resp.mid = d2.msg.mid => Reported(sQueue[k].req.token)'
  <2>1. CASE aTx' = {}
    BY <2>1 DEF Sent
  <2>2. CASE aTx' = {[ep |-> server, msg |-> A!SendEmptyRST(d.msg.mid)]}
    <3>1. Sent(server, aTx') = {[to |-> server, msg |-> A!SendEmptyRST(d.msg.mid)]}
      BY <2>2 DEF Sent
    <3> QED BY <3>1 DEF A!SendEmptyRST, A!SendShortResp, A!CreateMessage
  <2>3. CASE /\ aTx' = {[ep |-> server, msg |-> A!SendEmptyAck(d.msg.mid)]}
             /\ d.msg.type = "CON"
             /\ \E k \in DOMAIN aQueue :
                  /\ aQueue[k].req.token = d.msg.token
                  /\ aQueue'[k].state \in {"HANDLE_RESPONSE", "READY_TO_REQUEST"}
    <3>1. Sent(server, aTx') = {[to |-> server, msg |-> A!SendEmptyAck(d.msg.mid)]}
      BY <2>3 DEF Sent
    <3>2. PICK k \in DOMAIN aQueue :
            /\ aQueue[k].req.token = d.msg.token
            /\ aQueue'[k].state \in {"HANDLE_RESPONSE", "READY_TO_REQUEST"}
      BY <2>3
    <3>3. aQueue[k].call = d.msg.token /\ aQueue'[k].call = d.msg.token
      BY <1>4, <1>5, <3>2 DEF AskerOK, A!Keeps
    <3>4. aQueue'[k].state = "HANDLE_RESPONSE"
      BY <1>1, <1>4, <1>5, <3>2, <3>3 DEF AskerIds
    <3>5. Reported(d.msg.token)'
      BY <1>4, <3>3, <3>4 DEF Reported, Open
    <3>6. /\ Drawn(d.msg.mid)
          /\ \A i \in DOMAIN sQueue :
               sQueue[i].resp.mid = d.msg.mid => sQueue[i].req.token = d.msg.token
      BY <1>1, <1>5, <2>3 DEF WireIds
    <3>7. \A i \in DOMAIN sQueue :
               sQueue[i].resp.mid = d.msg.mid => Reported(sQueue[i].req.token)'
      BY <1>2, <3>5, <3>6 DEF Reported, Open
    <3> QED BY <3>1, <3>6, <3>7 DEF A!SendEmptyAck, A!SendShortResp, A!CreateMessage
  <2> QED BY <1>1, <2>1, <2>2, <2>3, AskerHears
<1>7. AskerIds'
  <2>1. ASSUME NEW k \in DOMAIN aQueue'
        PROVE  /\ aQueue'[k].req.mid = aQueue'[k].call
               /\ aQueue'[k].state = "READY_TO_REQUEST" =>
                    /\ \A d2 \in DOMAIN wire' : d2.msg.token # aQueue'[k].call
                    /\ \A j \in DOMAIN sQueue : sQueue[j].req.token # aQueue'[k].call
    <3>1. aQueue'[k].call = aQueue[k].call /\ aQueue[k].call \in 1 .. aTok
      BY <1>4, <1>5 DEF A!Keeps, AskerOK
    <3>2. \A d2 \in Sent(server, aTx') : d2.msg.token # aQueue'[k].call
      BY <1>5, <1>6, <3>1 DEF A!NoToken
    <3> QED BY <1>3, <1>4, <1>5, <3>1, <3>2 DEF AskerIds, A!Keeps
  <2> QED BY <1>2, <1>4, <1>5, <2>1 DEF AskerIds
<1> QED BY <1>2, <1>3, <1>6, <1>7, AskerAck

LEMMA AckAskerWorks ==
    ASSUME CallsInv, AckInv, CallsInv', Asker!doWork, ServerRests, Carry({}, Sent(server, aTx')),
           \A n \in 1 .. MaxRequests : Reported(n) => Reported(n)'
    PROVE  AckInv'
<1>1. UNCHANGED <<sQueue, sMid>>
  BY DEF ServerRests
<1>2. DOMAIN wire' \subseteq DOMAIN wire \cup Sent(server, aTx')
  BY WireAfter
<1>3. /\ AskerIds /\ AskerOK /\ AskerOK' /\ AskerTyped' /\ MaxRequests \in Nat
      /\ aTok \in 0 .. MaxRequests
  BY BoundsAssumption, AskerTypes DEF AckInv, CallsInv, AskerOK
<1>4. UNCHANGED <<aMid, aTok>>
      /\ \A j \in DOMAIN aQueue' : \E k \in DOMAIN aQueue :
           /\ A!Keeps(aQueue[k], aQueue'[j])
           /\ aQueue'[j].state \in {aQueue[k].state, "WAITING_RESPONSE"}
  BY AskerMoves
<1>5. \A d \in Sent(server, aTx') : \E j \in DOMAIN aQueue' :
        d.to = server /\ d.msg = aQueue'[j].req /\ aQueue'[j].state = "WAITING_RESPONSE"
  BY AskerMoves, SMTT(90) DEF Sent
<1>6. AskerIds'
  <2>1. ASSUME NEW j \in DOMAIN aQueue'
        PROVE  /\ aQueue'[j].req.mid = aQueue'[j].call
               /\ aQueue'[j].state = "READY_TO_REQUEST" =>
                    /\ \A d \in DOMAIN wire' : d.msg.token # aQueue'[j].call
                    /\ \A i \in DOMAIN sQueue : sQueue[i].req.token # aQueue'[j].call
    <3>1. PICK k \in DOMAIN aQueue :
           /\ A!Keeps(aQueue[k], aQueue'[j])
           /\ aQueue'[j].state \in {aQueue[k].state, "WAITING_RESPONSE"}
      BY <1>4
    <3>2. aQueue'[j].state = "READY_TO_REQUEST" =>
            \A d \in Sent(server, aTx') : d.msg.token # aQueue'[j].call
      BY <1>3, <1>5, SMTT(90) DEF AskerOK, AskerTyped
    <3> QED BY <1>2, <1>3, <3>1, <3>2 DEF AskerIds, A!Keeps
  <2> QED BY <1>1, <1>3, <1>4, <2>1 DEF AskerIds
<1>7. \A d \in Sent(server, aTx') :
        d.to = server /\ d.msg.mid = d.msg.token /\ d.msg.type # "ACK"
  BY <1>3, <1>5, <1>6 DEF AskerOK, AskerIds
<1> QED BY <1>1, <1>2, <1>6, <1>7, AskerAck

LEMMA AckAskerStarts ==
    ASSUME CallsInv, AckInv, CallsInv', MaxRequests < TokMod, MaxRequests <= MaxInteractions,
           MaxRequests <= ServerSeed,
           NEW type \in RequestTypes, Asker!StartNewRequest(server, type),
           ServerRests, Carry({}, Sent(server, aTx')),
           \A n \in 1 .. MaxRequests : Reported(n) => Reported(n)'
    PROVE  AckInv'
<1>1. UNCHANGED <<sQueue, sMid>>
  BY DEF ServerRests
<1>2. /\ aMid' = A!NextMid(aMid) /\ aTok' = aTok + 1 /\ aTx' = {} /\ aTok + 1 \in 1 .. MaxRequests
      /\ \A j \in DOMAIN aQueue' :
           \/ j \in DOMAIN aQueue /\ aQueue'[j] = aQueue[j]
           \/ /\ aQueue'[j].call = aTok + 1
              /\ aQueue'[j].req = A!CreateMessage(type, "GET", A!NextMid(aMid), aTok + 1)
  BY AskerStarts
<1>3. DOMAIN wire' \subseteq DOMAIN wire
  BY <1>2, WireAfter DEF Sent
<1>4. /\ AskerIds /\ AskerOK /\ WireOK /\ ServerOK /\ answered \subseteq 1 .. aTok
      /\ MaxRequests \in Nat /\ MidMod \in Nat /\ ServerSeed \in 0 .. MidMod - 1
      /\ aTok \in 0 .. MaxRequests
  BY BoundsAssumption, IdsAssumption DEF AckInv, CallsInv, AskerOK
<1>5. A!NextMid(aMid) = aTok + 1
  BY <1>2, <1>4 DEF A!NextMid, AskerIds
<1>6. \A d \in DOMAIN wire : d.msg.token # aTok + 1
  BY <1>4 DEF WireOK, FromAsker, FromServer, A!NoToken
<1>7. \A i \in DOMAIN sQueue : sQueue[i].req.token # aTok + 1
  BY <1>4 DEF ServerOK
<1>8. AskerIds'
  BY <1>1, <1>2, <1>3, <1>4, <1>5, <1>6, <1>7 DEF AskerIds, A!CreateMessage
<1> QED BY <1>1, <1>3, <1>8, AskerAck

LEMMA AckServer ==
    ASSUME CallsInv, AckInv, CallsInv', MaxRequests <= ServerSeed,
           ServerReceives \/ ServerWorks, sMid' >= sMid
    PROVE  AckInv'
<1>1. /\ UNCHANGED <<aQueue, aMid, aTok, aCalls>>
      /\ DOMAIN wire' \subseteq DOMAIN wire \cup Sent(asker, sTx')
      /\ sMid' \in {sMid, sMid + 1}
      /\ \A j \in DOMAIN sQueue' :
           Arrived(sQueue'[j]) \/ \E k \in DOMAIN sQueue : Became(sQueue[k], sQueue'[j])
      /\ \A x \in sTx' :
           \/ /\ x.msg.type # "CON"
              /\ \/ x.msg.token = S!NoToken
                 \/ \E d \in DOMAIN wire : d.msg.token = x.msg.token
           \/ \E j \in DOMAIN sQueue' : x.msg = sQueue'[j].resp
  BY ServerAfter
<1>2. /\ AskerIds /\ ServerIds /\ Confirmed /\ WireIds
      /\ ServerTyped /\ ServerTyped' /\ AskerOK /\ ServerOK /\ ServerOK'
      /\ MaxRequests \in Nat /\ ServerSeed \in Nat /\ aTok \in 0 .. MaxRequests /\ sMid \in Nat
  BY ServerTypes, BoundsAssumption, IdsAssumption
     DEF AckInv, CallsInv, AskerOK, ServerTyped, S!Mids
<1>3. /\ \A n : Reported(n)' <=> Reported(n)
      /\ \A id : Drawn(id) => Drawn(id)'
  BY <1>1, <1>2 DEF Reported, Open, Drawn
<1>4. ASSUME NEW x \in sTx', x.msg.type = "CON" \/ x.msg.token # S!NoToken,
             \A d \in DOMAIN wire : d.msg.token # x.msg.token \/ x.msg.type = "CON"
      PROVE  \E j \in DOMAIN sQueue' :
               x.msg = sQueue'[j].resp /\ x.msg.token = sQueue'[j].req.token
  <2>1. PICK j \in DOMAIN sQueue' : x.msg = sQueue'[j].resp
    BY <1>1, <1>4
  <2>2. sQueue'[j].resp # S!NoMessage
    BY <1>2, <2>1 DEF ServerTyped, S!Message, S!NoMessage, S!Types
  <2> QED BY <1>2, <2>1, <2>2 DEF ServerTyped, ServerOK
<1>5. ASSUME NEW j \in DOMAIN sQueue'
      PROVE  \/ \E k \in DOMAIN sQueue : sQueue'[j].req.token = sQueue[k].req.token
             \/ \E d \in DOMAIN wire : sQueue'[j].req.token = d.msg.token
  BY <1>1 DEF Arrived, Became, S!Keeps
<1>6. AskerIds'
  <2>1. ASSUME NEW k \in DOMAIN aQueue, aQueue[k].state = "READY_TO_REQUEST"
        PROVE  /\ \A d \in DOMAIN wire' : d.msg.token # aQueue[k].call
               /\ \A j \in DOMAIN sQueue' : sQueue'[j].req.token # aQueue[k].call
    <3>1. /\ \A d \in DOMAIN wire : d.msg.token # aQueue[k].call
          /\ \A j \in DOMAIN sQueue : sQueue[j].req.token # aQueue[k].call
          /\ aQueue[k].call # S!NoToken
      BY <1>2, <2>1 DEF AskerIds, AskerOK, S!NoToken
    <3>2. \A j \in DOMAIN sQueue' : sQueue'[j].req.token # aQueue[k].call
      BY <1>5, <3>1
    <3>3. ASSUME NEW d \in Sent(asker, sTx')
          PROVE  d.msg.token # aQueue[k].call
      <4>1. PICK x \in sTx' : d.msg = x.msg
        BY <3>3 DEF Sent
      <4> QED BY <1>4, <3>1, <3>2, <4>1
    <3> QED BY <1>1, <3>1, <3>2, <3>3
  <2> QED BY <1>1, <1>2, <2>1 DEF AskerIds
<1>7. ASSUME NEW j \in DOMAIN sQueue'
      PROVE  /\ AnswerIds(sQueue'[j], sMid')
             /\ sQueue'[j].resConfirm = "ACK_SEND" => Reported(sQueue'[j].req.token)
             /\ \/ sQueue'[j].resp.mid \in {-1, sQueue'[j].req.mid}
                \/ /\ sQueue'[j].resp.mid = sMid + 1 /\ sMid' = sMid + 1
                   /\ sQueue'[j].req = sQueue[1].req
                \/ \E k \in DOMAIN sQueue : /\ sQueue'[j].resp.mid = sQueue[k].resp.mid
                                            /\ sQueue'[j].req.token = sQueue[k].req.token
  <2>1. CASE Arrived(sQueue'[j])
    BY <1>1, <1>2, <2>1 DEF Arrived, AnswerIds, S!NoMessage, ServerIds
  <2>2. ASSUME NEW k \in DOMAIN sQueue, Became(sQueue[k], sQueue'[j])
        PROVE  /\ AnswerIds(sQueue'[j], sMid')
               /\ sQueue'[j].resConfirm = "ACK_SEND" => Reported(sQueue'[j].req.token)
               /\ \/ sQueue'[j].resp.mid \in {-1, sQueue'[j].req.mid}
                  \/ /\ sQueue'[j].resp.mid = sMid + 1 /\ sMid' = sMid + 1
                     /\ sQueue'[j].req = sQueue[1].req
                  \/ /\ sQueue'[j].resp.mid = sQueue[k].resp.mid
                     /\ sQueue'[j].req.token = sQueue[k].req.token
    <3>1. /\ AnswerIds(sQueue[k], sMid) /\ sQueue[k].req.token \in 1 .. aTok
          /\ sQueue[k].resConfirm = "ACK_SEND" => Reported(sQueue[k].req.token)
          /\ sQueue'[j].req = sQueue[k].req /\ sMid >= ServerSeed
          /\ sQueue[k].resp.mid \in Nat \cup {-1}
      BY <1>2, <2>2, SMTT(90)
         DEF ServerIds, ServerOK, Confirmed, Became, S!Keeps, ServerTyped, S!Message, S!NoMessage,
             S!Mids
    <3>2. AnswerIds(sQueue'[j], sMid')
      BY <1>1, <1>2, <2>2, <3>1, SMTT(90) DEF AnswerIds, Became
    <3> QED BY <2>2, <3>1, <3>2 DEF Became
  <2> QED BY <1>1, <2>1, <2>2
<1>8. \A k \in DOMAIN sQueue : /\ AnswerIds(sQueue[k], sMid) /\ sQueue[k].req.token \in 1 .. aTok
                               /\ sQueue[k].resp.mid \in Nat \cup {-1}
  BY <1>2 DEF ServerIds, ServerOK, ServerTyped, S!Message, S!NoMessage, S!Mids
<1>9. ASSUME NEW j \in DOMAIN sQueue', NEW k \in DOMAIN sQueue',
             sQueue'[j].resp.mid = sQueue'[k].resp.mid, sQueue'[k].resp.mid # -1
      PROVE  sQueue'[j].req.token = sQueue'[k].req.token
  <2>1. /\ sQueue'[j].req.mid = sQueue'[j].req.token /\ sQueue'[k].req.mid = sQueue'[k].req.token
        /\ sQueue'[j].req.token \in 1 .. MaxRequests /\ sQueue'[k].req.token \in 1 .. MaxRequests
        /\ \/ sQueue'[j].resp.mid > ServerSeed \/ sQueue'[j].resp.mid = sQueue'[j].req.mid
        /\ \/ sQueue'[k].resp.mid > ServerSeed \/ sQueue'[k].resp.mid = sQueue'[k].req.mid
    BY <1>1, <1>2, <1>7, <1>9 DEF AnswerIds, ServerOK
  <2>2. CASE ~(sQueue'[j].resp.mid > ServerSeed)
    BY <1>9, <2>1, <2>2
  <2>3. ASSUME sQueue'[j].resp.mid > ServerSeed
        PROVE  sQueue'[j].req.token = sQueue'[k].req.token
    <3>1. ASSUME NEW i \in {j, k}
          PROVE  \/ sQueue'[i].resp.mid = sMid + 1 /\ sQueue'[i].req = sQueue[1].req
                 \/ \E l \in DOMAIN sQueue : /\ sQueue'[i].resp.mid = sQueue[l].resp.mid
                                             /\ sQueue'[i].req.token = sQueue[l].req.token
      BY <1>2, <1>7, <1>9, <2>1, <2>3
    <3>2. \A l \in DOMAIN sQueue : sQueue[l].resp.mid # sMid + 1
      BY <1>2, <1>8 DEF AnswerIds
    <3>3. sQueue'[j].resp.mid = sQueue'[k].resp.mid /\ sQueue'[j].resp.mid # -1
      BY <1>9
    <3>4. \A l, i \in DOMAIN sQueue :
            sQueue[l].resp.mid = sQueue[i].resp.mid /\ sQueue[i].resp.mid # -1
               => sQueue[l].req.token = sQueue[i].req.token
      BY <1>2 DEF ServerIds
    <3> QED BY <3>1, <3>2, <3>3, <3>4
  <2> QED BY <2>2, <2>3
<1>10. ServerIds'
  BY <1>1, <1>2, <1>7, <1>9 DEF ServerIds
<1>11. Confirmed'
  BY <1>3, <1>7 DEF Confirmed
<1>12. ASSUME NEW id, Drawn(id), NEW j \in DOMAIN sQueue', sQueue'[j].resp.mid = id
       PROVE  \E k \in DOMAIN sQueue : /\ sQueue[k].resp.mid = id
                                       /\ sQueue'[j].req.token = sQueue[k].req.token
  <2>1. id # -1 /\ id # sMid + 1 /\ id > ServerSeed
    BY <1>2, <1>12 DEF Drawn
  <2>2. sQueue'[j].req.mid <= ServerSeed
    BY <1>1, <1>2, <1>7 DEF AnswerIds, ServerOK
  <2>3. id # sQueue'[j].req.mid
    BY <1>2, <1>7, <2>1, <2>2, SMTT(90) DEF AnswerIds, ServerOK
  <2> QED BY <1>7, <1>12, <2>1, <2>3
<1>13. WireIds'
  <2> SUFFICES ASSUME NEW d \in DOMAIN wire'
               PROVE  /\ d.to = server /\ d.msg.code = "GET" => d.msg.mid = d.msg.token
                      /\ d.to = server /\ d.msg.type = "ACK" =>
                           /\ Drawn(d.msg.mid)'
                           /\ \A k \in DOMAIN sQueue' :
                                sQueue'[k].resp.mid = d.msg.mid => Reported(sQueue'[k].req.token)
                      /\ d.to = asker /\ d.msg.type = "CON" =>
                           /\ Drawn(d.msg.mid)'
                           /\ \A k \in DOMAIN sQueue' :
                                sQueue'[k].resp.mid = d.msg.mid =>
                                   sQueue'[k].req.token = d.msg.token
    BY <1>3 DEF WireIds
  <2>1. CASE d \in DOMAIN wire
    BY <1>2, <1>3, <1>12, <2>1, SMTT(90) DEF WireIds
  <2>2. CASE d \in Sent(asker, sTx')
    <3>1. PICK x \in sTx' : d = [to |-> asker, msg |-> x.msg]
      BY <2>2 DEF Sent
    <3>2. ASSUME d.msg.type = "CON"
          PROVE  /\ Drawn(d.msg.mid)'
                 /\ \A k \in DOMAIN sQueue' : sQueue'[k].resp.mid = d.msg.mid =>
                                                 sQueue'[k].req.token = d.msg.token
      <4>1. PICK j \in DOMAIN sQueue' :
              d.msg = sQueue'[j].resp /\ d.msg.token = sQueue'[j].req.token
        BY <1>4, <3>1, <3>2
      <4>2. /\ d.msg.mid > ServerSeed /\ d.msg.mid <= sMid' /\ d.msg.mid \in Nat
        BY <1>2, <1>7, <3>2, <4>1, SMTT(90)
           DEF AnswerIds, ServerTyped, S!Message, S!NoMessage, S!Mids
      <4>3. Drawn(d.msg.mid)'
        BY <1>1, <1>2, <4>2, SMTT(90) DEF Drawn
      <4> QED BY <1>2, <1>9, <4>1, <4>2, <4>3, SMTT(90)
    <3> QED BY <3>1, <3>2, ExchangeAssumption
  <2> QED BY <1>1, <2>1, <2>2
<1> QED BY <1>6, <1>10, <1>11, <1>13 DEF AckInv

LEMMA AckInit == Init => AckInv
<1> SUFFICES ASSUME Init PROVE AckInv
  OBVIOUS
<1>1. A!Init /\ S!Init
  BY AskerSteps, ServerSteps DEF Init
<1>2. aQueue = <<>> /\ aMid = 0 /\ aTok = 0
  BY <1>1 DEF A!Init
<1>3. sQueue = <<>> /\ sMid = ServerSeed
  BY <1>1 DEF S!Init
<1> QED
  BY <1>2, <1>3, IdsAssumption DEF Init, AckInv, AskerIds, ServerIds, Confirmed, WireIds

LEMMA AckLose ==
    ASSUME CallsInv, AckInv, CallsInv', Lose, \A n \in 1 .. MaxRequests : Reported(n) => Reported(n)'
    PROVE  AckInv'
<1>1. /\ UNCHANGED <<aQueue, aMid, aTok, aCalls>>
      /\ UNCHANGED <<sQueue, sMid>>
      /\ DOMAIN wire' \subseteq DOMAIN wire \cup Sent(server, aTx')
      /\ Sent(server, aTx') = {}
  BY WireAfter DEF Lose, AskerRests, ServerRests, Sent
<1>2. AskerIds'
  BY <1>1 DEF AckInv, AskerIds
<1> QED BY <1>1, <1>2, AskerAck

LEMMA AckStep ==
    ASSUME CallsInv, AckInv, CallsInv', [Next]_vars, MaxRequests < TokMod,
           MaxRequests <= MaxInteractions, MaxRequests <= ServerSeed, [sMid' >= sMid]_vars
    PROVE  AckInv'
<1>1. \A n \in 1 .. MaxRequests : Reported(n) => Reported(n)'
  BY ReportedStays
<1>2. CASE UNCHANGED vars
  BY <1>2, SMTT(90)
     DEF vars, AckInv, AskerIds, ServerIds, AnswerIds, Confirmed, WireIds, Reported, Open, Drawn
<1>3. CASE Lose
  BY <1>1, <1>3, AckLose
<1>4. CASE Tick
  <2>1. /\ UNCHANGED <<aMid, aTok, aCalls, sMid, wire>>
        /\ DOMAIN aQueue' = DOMAIN aQueue /\ DOMAIN sQueue' = DOMAIN sQueue
        /\ \A k \in DOMAIN aQueue :
             A!Keeps(aQueue[k], aQueue'[k]) /\ aQueue'[k].state = aQueue[k].state
        /\ \A k \in DOMAIN sQueue :
             /\ S!Keeps(sQueue[k], sQueue'[k])
             /\ sQueue'[k].resp = sQueue[k].resp /\ sQueue'[k].resConfirm = sQueue[k].resConfirm
    BY <1>4, AskerTicks, ServerTicks DEF Tick
  <2>2. \A n : Reported(n)' <=> Reported(n)
    BY <2>1 DEF Reported, Open, A!Keeps
  <2>3. AskerIds'
    BY <2>1, SMTT(90) DEF AckInv, AskerIds, A!Keeps, S!Keeps
  <2>4. ServerIds'
    BY <2>1, SMTT(90) DEF AckInv, ServerIds, AnswerIds, S!Keeps
  <2>5. Confirmed'
    BY <2>1, <2>2 DEF AckInv, Confirmed, S!Keeps
  <2>6. WireIds'
    BY <2>1, <2>2 DEF AckInv, WireIds, Drawn, S!Keeps
  <2> QED BY <2>3, <2>4, <2>5, <2>6 DEF AckInv
<1>5. CASE AskerReceives
  BY <1>1, <1>5, AckAskerReceives
<1>6. CASE Asker!doWork /\ ServerRests /\ Carry({}, Sent(server, aTx'))
  BY <1>1, <1>6, AckAskerWorks
<1>7. ASSUME NEW type \in RequestTypes, Asker!StartNewRequest(server, type),
             ServerRests, Carry({}, Sent(server, aTx'))
      PROVE  AckInv'
  BY <1>1, <1>7, AckAskerStarts
<1>8. CASE (ServerReceives \/ ServerWorks) /\ ~UNCHANGED vars
  BY <1>8, AckServer
<1> QED BY <1>2, <1>3, <1>4, <1>5, <1>6, <1>7, <1>8 DEF Next, AskerWorks

LEMMA AckMeansReported == CallsInv /\ AckInv => AcknowledgedAnswerIsReported
<1> SUFFICES ASSUME CallsInv, AckInv, NEW k \in DOMAIN sQueue,
                    sQueue[k].resp.type = "CON", sQueue[k].resConfirm = "ACK_SEND"
             PROVE  Reported(sQueue[k].resp.token)
  BY DEF AcknowledgedAnswerIsReported
<1>1. sQueue[k].resp.token = sQueue[k].req.token
  BY ServerTypes DEF CallsInv, ServerOK, ServerTyped, S!NoMessage
<1> QED BY <1>1 DEF AckInv, Confirmed

\* The server ends an exchange on an ACK only when the application that asked
\* is, or will be, told that answer.  CoAP_FindInteractionByMessageIdAndEp
\* knows no direction, so this holds while the message IDs of the two sides do
\* not meet: the server's counter starts past the requests, and the behaviour
\* ends before it wraps.
THEOREM AcknowledgedIsReported ==
    ASSUME MaxRequests < TokMod, MaxRequests <= MaxInteractions, MaxRequests <= ServerSeed
    PROVE  Spec /\ [][sMid' >= sMid]_vars => []AcknowledgedAnswerIsReported
<1>1. Init => CallsInv /\ AckInv
  BY CallsInit, AckInit
<1>2. CallsInv /\ AckInv /\ [Next]_vars /\ [sMid' >= sMid]_vars => (CallsInv /\ AckInv)'
  BY CallsStep, AckStep
<1>3. CallsInv /\ AckInv => AcknowledgedAnswerIsReported
  BY AckMeansReported
<1> QED BY <1>1, <1>2, <1>3, PTL DEF Spec
=============================================================================
