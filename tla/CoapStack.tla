------------------------------ MODULE CoapStack ------------------------------
(***************************************************************************)
(* One endpoint of lobaro-coap: CoAP_HandleIncomingPacket, CoAP_doWork and *)
(* the calls of the application, interleaved in any order with any         *)
(* datagrams the network delivers and with the passing of time.            *)
(***************************************************************************)
EXTENDS CoapServer, CoapNotify, CoapClient

CONSTANT Datagrams  \* what the network may deliver

ASSUME DatagramAssumption ==
    Datagrams \subseteq [ep : Eps, multicast : BOOLEAN, uri : Res \cup {NoRes},
                         critical : BOOLEAN, msg : Message]

-----------------------------------------------------------------------------
(* CoAP_HandleIncomingPacket *)

rxUnchanged == UNCHANGED <<leaked, tok, updateCnt, observers, loop, calls>>

RxPing(d) ==
    /\ d.msg.type = "CON" /\ d.msg.code = "EMPTY"
    /\ SendMsg(NoRes, d.ep, SendEmptyRST(d.msg.mid))
    /\ UNCHANGED <<queue, mid>> /\ rxUnchanged

\* Code and type that do not go together (RFC 7252, table 1).
BadCombination(m) ==
    \/ m.code = "EMPTY" /\ m.type \in {"CON", "NON"}
    \/ m.code # "EMPTY" /\ m.type = "RST"
    \/ MsgIsRequest(m) /\ m.type = "ACK"

UnknownUri(d) == MsgIsRequest(d.msg) /\ d.uri = NoRes

RxUnknownUri(d) ==
    /\ ~BadCombination(d.msg) /\ UnknownUri(d)
    /\ \/ /\ d.msg.type = "CON"
          /\ SendMsg(NoRes, d.ep, SendShortResp("ACK", "4.04", d.msg.mid, d.msg.token))
          /\ UNCHANGED mid
       \/ /\ d.msg.type = "NON"
          /\ SendMsg(NoRes, d.ep, SendShortResp("NON", "4.04", NextMid(mid), d.msg.token))
          /\ mid' = NextMid(mid)
    /\ UNCHANGED queue /\ rxUnchanged

RxCritical(d) ==
    /\ ~BadCombination(d.msg) /\ ~UnknownUri(d) /\ d.critical
    /\ IF d.msg.type # "CON" THEN Silent
       ELSE IF MsgIsRequest(d.msg)
       THEN SendMsg(NoRes, d.ep, SendShortResp("ACK", "4.02", d.msg.mid, d.msg.token))
       ELSE SendMsg(NoRes, d.ep, SendEmptyRST(d.msg.mid))
    /\ UNCHANGED <<queue, mid>> /\ rxUnchanged

RxIgnored(d) ==
    /\ BadCombination(d.msg) /\ d.msg.type # "CON"
    /\ Silent
    /\ UNCHANGED <<queue, mid>> /\ rxUnchanged

PrechecksDone(d) == ~BadCombination(d.msg) /\ ~UnknownUri(d) /\ ~d.critical

Found(d) == FindByMessageIdAndEp(d.msg.mid, d.ep)

\* The interaction the message ID leads to is woken before anything else.
Woken(d) == [k \in DOMAIN queue |-> IF k \in Found(d) THEN Wakeup(queue[k]) ELSE queue[k]]

RxReset(d) ==
    /\ PrechecksDone(d) /\ d.msg.type = "RST"
    /\ queue' = [k \in DOMAIN queue |->
                    IF k \in Found(d) THEN [Woken(d)[k] EXCEPT !.resConfirm = "RST_SEND"]
                    ELSE queue[k]]
    /\ Silent
    /\ UNCHANGED mid /\ rxUnchanged

\* Mutant: the message ID alone decides.
PiggybackedByMid(r, m) ==
    m.code # "EMPTY" /\ r.role = "CLIENT" /\ r.state = "WAITING_RESPONSE"

\* An ACK with a code is the piggybacked response to a request of ours.
Piggybacked(r, m) ==
    /\ m.code # "EMPTY"
    /\ r.role = "CLIENT" /\ r.req.token = m.token /\ r.state = "WAITING_RESPONSE"

\* Mutant: any ACK ends the exchange, an empty one and one of another role too.
AcknowledgedAny(r, m) ==
    [r EXCEPT !.resConfirm = "ACK_SEND", !.state = "HANDLE_RESPONSE",
              !.resp = IF Piggybacked(r, m) THEN m ELSE @]

Acknowledged(r, m) ==
    IF Piggybacked(r, m)
    THEN [r EXCEPT !.resConfirm = "ACK_SEND", !.resp = m, !.state = "HANDLE_RESPONSE"]
    ELSE [r EXCEPT !.resConfirm = "ACK_SEND"]

RxAck(d) ==
    /\ PrechecksDone(d) /\ d.msg.type = "ACK"
    /\ queue' = [k \in DOMAIN queue |->
                    IF k \in Found(d) THEN Acknowledged(Woken(d)[k], d.msg) ELSE queue[k]]
    /\ Silent
    /\ UNCHANGED mid /\ rxUnchanged

RxRequest(d) ==
    /\ PrechecksDone(d) /\ MsgIsRequest(d.msg)
    /\ StartNewServerInteraction(d, Woken(d))

SeparateResponse(d) ==
    PrechecksDone(d) /\ ~MsgIsRequest(d.msg) /\ d.msg.type \in {"CON", "NON"}

\* Mutant: any request to that endpoint will do.
RequestedAny(d) ==
    First({k \in DOMAIN queue : queue[k].role = "CLIENT" /\ queue[k].ep = d.ep})

\* The client interactions the token leads to.
Requested(d) ==
    First({k \in DOMAIN queue : /\ queue[k].role = "CLIENT"
                                /\ queue[k].req.token = d.msg.token
                                /\ queue[k].ep = d.ep})

Attached(r, m) ==
    IF r.state \in {"WAITING_RESPONSE", "HANDLE_RESPONSE"}
    THEN [r EXCEPT !.resp = m, !.state = "HANDLE_RESPONSE"] ELSE r

RxSeparateResponse(d) ==
    /\ SeparateResponse(d)
    /\ \E k \in Requested(d) :
        LET r == Attached(Woken(d)[k], d.msg) IN
        /\ IF d.msg.type = "CON"
           THEN SendMsg(NoRes, d.ep, SendEmptyAck(d.msg.mid))
           ELSE Silent
        /\ queue' = [Woken(d) EXCEPT ![k] =
                        IF Sent THEN [r EXCEPT !.resConfirm = "ACK_SEND"] ELSE r]
    /\ UNCHANGED mid /\ rxUnchanged

\* Mutant: a response nobody waits for is acknowledged.
RxUnexpectedAck(d) ==
    /\ SeparateResponse(d) /\ Requested(d) = {}
    /\ queue' = Woken(d)
    /\ SendMsg(NoRes, d.ep, SendEmptyAck(d.msg.mid))
    /\ UNCHANGED mid /\ rxUnchanged

\* A response nobody waits for is rejected, a NON one too.
RxUnexpectedResponse(d) ==
    /\ SeparateResponse(d) /\ Requested(d) = {}
    /\ queue' = Woken(d)
    /\ SendMsg(NoRes, d.ep, SendEmptyRST(d.msg.mid))
    /\ UNCHANGED mid /\ rxUnchanged

HandleIncomingPacket(d) ==
    /\ Idle
    /\ \/ RxPing(d) \/ RxIgnored(d) \/ RxUnknownUri(d) \/ RxCritical(d)
       \/ RxReset(d) \/ RxAck(d) \/ RxRequest(d)
       \/ RxSeparateResponse(d) \/ RxUnexpectedResponse(d)

-----------------------------------------------------------------------------
(* CoAP_doWork: serve the interaction at the head of the list *)

Rotate ==
    /\ Sleeping(Head(queue))
    /\ EnqueueHead(Head(queue)) /\ Silent
    /\ UNCHANGED <<leaked, mid, tok, updateCnt, observers, loop, calls>>

doWork ==
    /\ Idle /\ queue # <<>>
    /\ \/ Rotate
       \/ /\ ~Sleeping(Head(queue))
          /\ handleServerInteraction \/ handleNotifyInteraction \/ handleClientInteraction

-----------------------------------------------------------------------------
(* A second of CoAP.api.rtc1HzCnt *)

\* No age is compared with anything greater.
MaxAge == IF PostponeMax > ClientMaxWait THEN PostponeMax ELSE ClientMaxWait

\* Mutant: a timeout that has passed is counted on.
OneSecondBeyond(r) ==
    [r EXCEPT !.ackLeft = @ - 1,
              !.sleepLeft = IF @ = -1 THEN -1 ELSE @ - 1,
              !.reqAge = IF @ >= MaxAge THEN @ ELSE @ + 1]

OneSecondOlder(r) ==
    [r EXCEPT !.ackLeft = IF @ = 0 THEN 0 ELSE @ - 1,
              !.sleepLeft = IF @ = -1 THEN -1 ELSE @ - 1,
              !.reqAge = IF @ >= MaxAge THEN @ ELSE @ + 1]

Tick ==
    /\ Idle
    /\ queue' = [k \in DOMAIN queue |-> OneSecondOlder(queue[k])]
    /\ Silent
    /\ UNCHANGED <<leaked, mid, tok, updateCnt, observers, loop, calls>>

-----------------------------------------------------------------------------

Next ==
    \/ \E d \in Datagrams : HandleIncomingPacket(d)
    \/ doWork
    \/ \E r \in Res : NotifyResourceObservers(r)
    \/ StartNotifyInteractions
    \/ \E ep \in Eps, type \in RequestTypes : StartNewRequest(ep, type)
    \/ ClearPendingInteractions
    \/ Tick

Spec == Init /\ [][Next]_vars

\* The main loop keeps calling CoAP_doWork, a loop over the observers runs to
\* its end and the clock goes on.  Nothing is assumed of the network or of the
\* application.
Fairness == WF_vars(doWork) /\ WF_vars(StartNotifyInteractions) /\ WF_vars(Tick)

FairSpec == Spec /\ Fairness
=============================================================================
