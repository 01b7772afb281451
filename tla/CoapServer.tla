----------------------------- MODULE CoapServer -----------------------------
(***************************************************************************)
(* The server role: CoAP_StartNewServerInteraction for a request that      *)
(* arrives, handleServerInteraction for the steps CoAP_doWork takes on it. *)
(***************************************************************************)
EXTENDS CoapInteractions

CONSTANT HandlerOutcomes  \* what a resource handler may do, a subset of:
                          \*   "content"  fills the answer, 2.05 Content
                          \*   "other"    sets another response code
                          \*   "error"    HANDLER_ERROR without a code
                          \*   "postpone" HANDLER_POSTPONE
                          \*   "null"     the heap has no room for an answer
CONSTANT HandlerTypes     \* {"NON"}, or {"NON", "CON"} when a handler may make
                          \* the answer to a NON request a CON

ASSUME HandlerTypesAssumption == HandlerTypes \subseteq {"NON", "CON"}

Serving == Head(queue)

serverUnchanged == UNCHANGED <<leaked, tok, updateCnt, loop, calls>>

\* Mutant: only requests the handler has not seen yet count as duplicates.
DuplicatesNotStarted(ep, m) ==
    First({k \in DOMAIN queue : /\ queue[k].role = "SERVER"
                                /\ queue[k].state = "HANDLE_REQUEST"
                                /\ queue[k].req.mid = m.mid
                                /\ queue[k].ep = ep})

\* The interactions that hold the same request already.
Duplicates(ep, m) ==
    First({k \in DOMAIN queue : /\ queue[k].role = "SERVER"
                                /\ queue[k].req.mid = m.mid
                                /\ queue[k].ep = ep})

EmptyAckSent(r) ==
    r.req.type = "CON" /\ r.state = "RESOURCE_POSTPONE_EMPTY_ACK_SENT"

\* A duplicate only has its empty ACK repeated, a new request is appended, and
\* a CON one that finds no memory is answered 5.00.  "list" is the list after
\* the wake-up HandleIncomingPacket did.
StartNewServerInteraction(d, list) ==
    /\ \/ \E k \in Duplicates(d.ep, d.msg) :
            /\ queue' = list
            /\ IF EmptyAckSent(queue[k])
               THEN SendMsg(NoRes, d.ep, SendEmptyAck(d.msg.mid))
               ELSE Silent
       \/ /\ Duplicates(d.ep, d.msg) = {} /\ ~OutOfMemory
          /\ queue' = Append(list,
                [NewInteraction("SERVER", "HANDLE_REQUEST", d.ep) EXCEPT
                    !.res = d.uri, !.multicast = d.multicast, !.req = d.msg])
          /\ Silent
       \/ /\ Duplicates(d.ep, d.msg) = {} /\ OutOfMemory
          /\ queue' = list
          /\ IF d.msg.type = "CON"
             THEN SendMsg(NoRes, d.ep, SendShortResp("ACK", "5.00", d.msg.mid, d.msg.token))
             ELSE Silent
    /\ serverUnchanged /\ UNCHANGED <<mid, observers>>

-----------------------------------------------------------------------------
(* handleServerInteraction before the answer is sent *)

AwaitsHandler ==
    /\ Serving.role = "SERVER"
    /\ Serving.state # "RESPONSE_SENT"

MustWaitLeisure == Serving.multicast /\ Serving.state = "HANDLE_REQUEST"

\* A CON request to a multicast address is dropped.
ServeMulticastCon ==
    /\ AwaitsHandler /\ Serving.multicast /\ Serving.req.type = "CON"
    /\ DeleteHead /\ Silent
    /\ serverUnchanged /\ UNCHANGED <<mid, observers>>

ServeMulticastWait ==
    /\ AwaitsHandler /\ MustWaitLeisure /\ Serving.req.type # "CON"
    /\ EnqueueHead(SetSleep([Serving EXCEPT !.state = "RESPONSE_WAITING_LEISURE"], Leisure))
    /\ Silent
    /\ serverUnchanged /\ UNCHANGED <<mid, observers>>

ReadyForHandler ==
    /\ AwaitsHandler /\ ~MustWaitLeisure
    /\ ~(Serving.multicast /\ Serving.req.type = "CON")

Allowed == Serving.req.code \in AllowedMethods[Serving.res]

ServeMethodNotAllowed ==
    /\ ReadyForHandler /\ ~Allowed
    /\ SendResp([Serving EXCEPT !.resp = AllocRespMsg(Serving.req, "4.05", mid)],
                Tail(queue), "RESPONSE_SENT")
    /\ mid' = MidAfterAllocResp(Serving.req, mid)
    /\ serverUnchanged /\ UNCHANGED observers

NoMemoryForAnswer == "null" \in HandlerOutcomes

\* CoAP_AllocRespMsg finds no memory for the 4.05, which nobody checks: SendResp
\* and CoAP_SendMsg read through NULL.  The program faults or, where address 0
\* can be read, what lies there is not sent, or sent and taken for no CON; then
\* the interaction goes on without an answer.
ServeNullAnswer ==
    /\ ReadyForHandler /\ ~Allowed /\ NoMemoryForAnswer
    /\ \/ Restart
       \/ /\ \/ DeleteHead
             \/ EnqueueHead([Serving EXCEPT !.resp = NoMessage, !.state = "RESPONSE_SENT"])
          /\ Silent
          /\ mid' = MidAfterAllocResp(Serving.req, mid)
          /\ serverUnchanged /\ UNCHANGED observers

\* The answer the handler works on: the one it was given before it postponed,
\* or a new one.
Postponed == Serving.resp # NoMessage
Prepared  == IF Postponed THEN Serving.resp ELSE AllocRespMsg(Serving.req, "EMPTY", mid)
MidPrepared == IF Postponed THEN mid ELSE MidAfterAllocResp(Serving.req, mid)

\* The handler left no answer, or failed a multicast request without a code.
ServeDrop ==
    /\ ReadyForHandler /\ Allowed
    /\ \/ NoMemoryForAnswer /\ ~Postponed
       \/ "error" \in HandlerOutcomes /\ Serving.multicast
    /\ DeleteHead /\ Silent
    /\ mid' = MidPrepared
    /\ serverUnchanged /\ UNCHANGED observers

MustAckEmpty == Serving.req.type = "CON" /\ Serving.reqConfirm # "ACK_SEND"

\* The handler needs time: the first postponement of a CON request sends the
\* empty ACK, or ends the interaction when that cannot be sent.
ServePostponeAck ==
    /\ ReadyForHandler /\ Allowed /\ "postpone" \in HandlerOutcomes
    /\ MustAckEmpty
    /\ SendMsg(NoRes, Serving.ep, SendEmptyAck(Serving.req.mid))
    /\ IF Sent
       THEN EnqueueHead(SetSleep(
                [Serving EXCEPT !.resp = Prepared, !.reqConfirm = "ACK_SEND",
                                !.state = "RESOURCE_POSTPONE_EMPTY_ACK_SENT"],
                PostponeWait))
       ELSE DeleteHead
    /\ mid' = MidPrepared
    /\ serverUnchanged /\ UNCHANGED observers

\* Mutant: nothing limits how long a handler may postpone.
ServePostponeForever ==
    /\ ReadyForHandler /\ Allowed /\ "postpone" \in HandlerOutcomes
    /\ ~MustAckEmpty
    /\ EnqueueHead(SetSleep([Serving EXCEPT !.resp = Prepared], PostponeWait))
    /\ Silent
    /\ mid' = MidPrepared
    /\ serverUnchanged /\ UNCHANGED observers

ServePostponeAgain ==
    /\ ReadyForHandler /\ Allowed /\ "postpone" \in HandlerOutcomes
    /\ ~MustAckEmpty /\ Serving.reqAge < PostponeMax
    /\ EnqueueHead(SetSleep([Serving EXCEPT !.resp = Prepared], PostponeWait))
    /\ Silent
    /\ mid' = MidPrepared
    /\ serverUnchanged /\ UNCHANGED observers

\* The codes an answer is sent with: the handler's, or 5.03 when it postpones
\* past PostponeMax.
AnswerCodes ==
    {"2.05" : x \in {"content"} \cap HandlerOutcomes}
        \cup {"other" : x \in {"other"} \cap HandlerOutcomes}
        \cup {"5.00" : x \in IF Serving.multicast THEN {} ELSE {"error"} \cap HandlerOutcomes}
        \cup {"5.03" : x \in IF MustAckEmpty \/ Serving.reqAge < PostponeMax
                             THEN {} ELSE {"postpone"} \cap HandlerOutcomes}

\* Mutant: asks whether the peer acknowledged us, not whether we did.
SeparateIfAcked == Serving.req.type = "CON" /\ Serving.resConfirm = "ACK_SEND"

Separate == Serving.req.type = "CON" /\ Serving.reqConfirm = "ACK_SEND"

\* Mutant: the handler's choice of a type holds for a CON request as well.
TypedByHandler(m) ==
    IF Separate THEN {[m EXCEPT !.type = "CON", !.mid = NextMid(mid)]}
    ELSE {[m EXCEPT !.type = t] : t \in HandlerTypes}

\* The type and message ID of the answer.  After an empty ACK it is a CON with
\* a message ID of its own.
Typed(m) ==
    IF Separate THEN {[m EXCEPT !.type = "CON", !.mid = NextMid(mid)]}
    ELSE IF Serving.req.type = "CON" THEN {[m EXCEPT !.type = "ACK"]}
    ELSE {[m EXCEPT !.type = t] : t \in HandlerTypes}

\* What the handler and the code after it make of the prepared answer.
Answers ==
    UNION {Typed([Prepared EXCEPT !.code = c,
                                  !.version = IF c = "2.05" THEN updateCnt[Serving.res] ELSE 0]) :
           c \in AnswerCodes}

-----------------------------------------------------------------------------
(* CoAP_HandleObservationInReq and the transmission of the answer *)

WantsObserve(m) ==
    /\ Serving.req.code \in {"GET", "FETCH"} /\ m.code = "2.05"
    /\ Serving.res \in Observable

FreeOids == Oids \ LiveOids

Registers(m)   == WantsObserve(m) /\ Serving.req.observe = Register /\ FreeOids # {}
Deregisters(m) == WantsObserve(m) /\ Serving.req.observe = Deregister

\* The first notification under way to the endpoint with that token, of
\* whatever resource.
PendingNotification(list) ==
    First({k \in DOMAIN list : /\ list[k].role = "NOTIFICATION"
                               /\ list[k].resp.token = Serving.req.token
                               /\ list[k].ep = Serving.ep})

Answer(m) ==
    \/ /\ ~Registers(m) /\ ~Deregisters(m)
       /\ UNCHANGED observers
       /\ SendResp([Serving EXCEPT !.resp = m], Tail(queue), "RESPONSE_SENT")
    \/ /\ Registers(m)
       /\ \E o \in FreeOids :
            AddObserver(Serving.res,
                        [oid |-> o, ep |-> Serving.ep, token |-> Serving.req.token])
       /\ SendResp([Serving EXCEPT !.resp = [m EXCEPT !.observe = 0]],
                   Tail(queue), "RESPONSE_SENT")
    \/ /\ Deregisters(m)
       /\ RemoveObserver(Serving.res, Serving.ep, Serving.req.token)
       /\ SendResp([Serving EXCEPT !.resp = m],
                   Without(Tail(queue), PendingNotification(Tail(queue))), "RESPONSE_SENT")

ServeAnswer ==
    /\ ReadyForHandler /\ Allowed
    /\ \E m \in Answers : Answer(m)
    /\ mid' = IF Separate THEN NextMid(mid) ELSE MidPrepared
    /\ serverUnchanged

-----------------------------------------------------------------------------
(* handleServerInteraction after the answer was sent *)

AnswerSent == Serving.role = "SERVER" /\ Serving.state = "RESPONSE_SENT"

ServerWaitsForAck ==
    /\ AnswerSent /\ RespStatus(Serving) = "WAITING"
    /\ EnqueueHead(SetSleep(Serving, Serving.ackLeft)) /\ Silent
    /\ serverUnchanged /\ UNCHANGED <<mid, observers>>

ServerRetries ==
    /\ AnswerSent /\ RespStatus(Serving) = "RETRY"
    /\ Retransmit(Serving, Serving.resp)
    /\ serverUnchanged /\ UNCHANGED <<mid, observers>>

\* Acknowledged, reset, given up or in no need of an ACK, as an answer is that is
\* missing.
ServerDone ==
    /\ AnswerSent /\ RespStatus(Serving) \notin {"WAITING", "RETRY"}
    /\ DeleteHead /\ Silent
    /\ serverUnchanged /\ UNCHANGED <<mid, observers>>

handleServerInteraction ==
    \/ ServeMulticastCon \/ ServeMulticastWait \/ ServeMethodNotAllowed
    \/ ServeNullAnswer \/ ServeDrop \/ ServePostponeAck \/ ServePostponeAgain \/ ServeAnswer
    \/ ServerWaitsForAck \/ ServerRetries \/ ServerDone
=============================================================================
