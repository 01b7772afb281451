--------------------------- MODULE CoapProperties ---------------------------
(***************************************************************************)
(* What one endpoint promises.  The invariants that need a history relate  *)
(* the interactions to "calls", the callbacks the application saw, and to  *)
(* "told", the observers that were sent the current version.               *)
(***************************************************************************)
EXTENDS CoapStack

Datagram == [ep : Eps, msg : Message]

\* The type of every variable.
TypeOK ==
    /\ queue \in Seq(Interaction)
    /\ leaked \in Nat
    /\ mid \in Mids
    /\ tok \in Tokens
    /\ updateCnt \in [Res -> Versions]
    /\ observers \in [Res -> Seq(Observer)]
    /\ loop \in [res : Res \cup {NoRes}, todo : Seq(Observer)]
    /\ calls \in [1 .. MaxRequests -> CallResults]
    /\ told \in [Res -> SUBSET (Eps \X (Tokens \cup {NoToken}))]
    /\ tx \in SUBSET Datagram

\* What an interaction of each role has: the messages, the resource and the
\* callback that the code reads through pReqMsg, pRespMsg and pRes without
\* asking for NULL, and a state its handler knows.  Not so the answer 4.05 to a
\* method that is not allowed, whose allocation nobody checks.
WellFormed(r) ==
    /\ r.role = "SERVER" =>
        /\ r.req \in Message /\ r.res \in Res /\ r.state \in ServerStates
        /\ r.state = "RESPONSE_SENT" /\ r.req.code \in AllowedMethods[r.res]
                => r.resp \in Message
    /\ r.role = "NOTIFICATION" =>
        r.resp \in Message /\ r.res \in Res /\ r.state \in NotifyStates
    /\ r.role = "CLIENT" =>
        /\ r.req \in Message /\ r.call \in 1 .. MaxRequests /\ r.state \in ClientStates
        /\ r.state = "HANDLE_RESPONSE" => r.resp \in Message

\* No step of any role reads through a NULL pointer to a message, whatever
\* arrives in whatever state of the interaction and whenever memory runs out,
\* but for the steps that send an answer 4.05 and look after it.
NoNullMessage == \A k \in DOMAIN queue : WellFormed(queue[k])

\* The same of every answer.  coap_main.c:392 allocates the 4.05 and line 396
\* sends it without asking whether there is one.
AnswerIsPresent ==
    \A k \in DOMAIN queue :
        queue[k].role = "SERVER" /\ queue[k].state = "RESPONSE_SENT" => queue[k].resp \in Message

-----------------------------------------------------------------------------
(* Server *)

Servers(ep, id) ==
    {k \in DOMAIN queue : /\ queue[k].role = "SERVER" /\ queue[k].ep = ep
                          /\ queue[k].req.mid = id}

\* A request is handled by one interaction at a time however often the client
\* repeats it: the duplicate detection of CoAP_StartNewServerInteraction sees
\* every interaction of the server role in whatever state and position it is.
OneInteractionPerRequest ==
    \A j, k \in DOMAIN queue :
        /\ queue[j].role = "SERVER" /\ queue[k].role = "SERVER"
        /\ queue[j].ep = queue[k].ep /\ queue[j].req.mid = queue[k].req.mid
        => j = k

\* An answer under way carries the token of its request; as an ACK it answers
\* a CON request under that request's message ID; as a CON to a CON request it
\* is one whose request was acknowledged by an empty ACK before.
AnswerFitsRequest ==
    \A k \in DOMAIN queue :
        LET r == queue[k] IN
        r.role = "SERVER" /\ r.state = "RESPONSE_SENT" /\ r.resp # NoMessage =>
            /\ r.resp.token = r.req.token
            /\ r.resp.type = "ACK" => r.req.type = "CON" /\ r.resp.mid = r.req.mid
            /\ r.resp.type = "CON" /\ r.req.type = "CON" => r.reqConfirm = "ACK_SEND"
            /\ r.multicast => r.resp.type # "ACK"

AcksSent(m) == {d \in tx' : d.msg.type = "ACK" /\ d.msg.mid = m}

\* A CON request that was acknowledged with an empty ACK is never answered by
\* an ACK again in doWork: the response goes out separately (or none does).
NoPiggybackAfterEmptyAck ==
    [][\A k \in DOMAIN queue :
        queue[k].role = "SERVER" /\ queue[k].state = "RESOURCE_POSTPONE_EMPTY_ACK_SENT"
            /\ doWork /\ k = 1
        => AcksSent(queue[k].req.mid) = {}]_vars

\* Every interaction for a request ends, with an answer or without one: a
\* handler that postpones for ever is cut off, a lost ACK is not waited for.
RequestsAreFinished ==
    \A ep \in Eps, id \in Mids : Servers(ep, id) # {} ~> Servers(ep, id) = {}

-----------------------------------------------------------------------------
(* Client *)

Clients(n) == {k \in DOMAIN queue : queue[k].role = "CLIENT" /\ queue[k].call = n}

\* The application gets one callback for a request: until then exactly one
\* interaction can make it, and afterwards none can.
OneCallbackPerRequest ==
    /\ \A n \in 1 .. MaxRequests :
        /\ calls[n] # "twice"
        /\ calls[n] = "open" <=> Clients(n) # {}
    /\ \A j, k \in DOMAIN queue :
        /\ queue[j].role = "CLIENT" /\ queue[k].role = "CLIENT"
        /\ queue[j].call = queue[k].call
        => j = k

\* How far each request has come, in the terms of CoapRequests.
Stage ==
    [n \in 1 .. MaxRequests |->
        IF calls[n] # "open" THEN calls[n]
        ELSE IF \E k \in Clients(n) : queue[k].state = "HANDLE_RESPONSE" THEN "answered"
        ELSE IF \E k \in Clients(n) : queue[k].state = "WAITING_RESPONSE" THEN "asked"
        ELSE "accepted"]

AbstractRequests == INSTANCE CoapRequests WITH N <- MaxRequests, stage <- Stage

\* The stack implements CoapRequests: no request is answered before it was
\* asked, an answer that arrived is reported and not overtaken by a timeout, a
\* report is final, and a step concerns one request unless all of them end.
ImplementsRequests == AbstractRequests!Spec

\* A response waiting to be handed to the application has the token of the
\* request it is handed over with and, when piggybacked, its message ID; there
\* is one whenever the callback is about to be told so.
ResponseFitsRequest ==
    \A k \in DOMAIN queue :
        LET r == queue[k] IN
        r.role = "CLIENT" =>
            /\ r.state = "HANDLE_RESPONSE" <=> r.resp # NoMessage
            /\ r.resp # NoMessage => r.resp.token = r.req.token
            /\ r.resp.type = "ACK" => r.resp.mid = r.req.mid

\* A request the stack accepted is reported back to the application.
RequestsAreReported ==
    \A n \in 1 .. MaxRequests : calls[n] = "open" ~> calls[n] # "open"

\* PortingGuide.md: RespCB is called "when the message gets a response or fails
\* to be sent".
FailureIsReported == \A n \in 1 .. MaxRequests : calls[n] # "dropped"

Retransmits(k) ==
    Len(queue') = Len(queue) /\ queue'[k].retransCounter = queue[k].retransCounter + 1

\* coap_main.c 'apply "ACK received" to req (client)' and "Response reset by
\* remote server -> Interaction aborted": a request the server has acknowledged
\* or reset is not sent again.
ConfirmationStopsRequest ==
    [][\A k \in DOMAIN queue :
        queue[k].role = "CLIENT" /\ queue[k].resConfirm # "NOT_SET" => ~Retransmits(k)]_vars

-----------------------------------------------------------------------------
(* Observe *)

\* "We do NOT allow to observe the same resource twice from the same observer":
\* and no block of memory is in two places.
OneObserverPerEndpoint ==
    \A r, s \in Res :
        \A j \in DOMAIN observers[r], k \in DOMAIN observers[s] :
            <<r, j>> # <<s, k>> =>
                /\ observers[r][j].oid # observers[s][k].oid
                /\ r = s => observers[r][j].ep # observers[s][k].ep

\* No endpoint has two notifications of a resource under way.
OneNotificationPerObserver ==
    \A j, k \in DOMAIN queue :
        /\ queue[j].role = "NOTIFICATION" /\ queue[k].role = "NOTIFICATION"
        /\ queue[j].res = queue[k].res /\ queue[j].ep = queue[k].ep
        => j = k

\* Whether the endpoint observes r with that token.
Observes(ep, token, r) ==
    \E k \in DOMAIN observers[r] : observers[r][k].ep = ep /\ observers[r][k].token = token

\* A notification under way to an observer shows the current version or is
\* marked to be renewed ("wait for currently pending notification to end or ...
\* be updated to the new resource representation").
StaleNotificationIsMarked ==
    Idle =>
    \A k \in DOMAIN queue :
        LET r == queue[k] IN
        r.role = "NOTIFICATION" /\ Observes(r.ep, r.resp.token, r.res)
            => r.resp.version = updateCnt[r.res] \/ r.updatePending

\* Once a resource no longer changes, whoever still observes it has been sent
\* its last version under the token it observes with.
ObserversAreInformed ==
    \A r \in Res, ep \in Eps, token \in Tokens :
        <>[](Observes(ep, token, r) => <<ep, token>> \in told[r])

\* coap_interaction.h, pObserver: "NULL" or link to Observer.  The link is used
\* when a notification is renewed.
ObserverLinkIsValid ==
    \A k \in DOMAIN queue :
        queue[k].role = "NOTIFICATION" /\ queue[k].updatePending
            => queue[k].pObserver \in LiveOids

\* coap_interaction.c "remove this observer from resource in case of non OK
\* Code": when a notifier reports an error code its observer is removed.
ErrorCodeRemovesObserver ==
    [][leaked' > leaked =>
        Head(loop.todo) \notin ToSet(observers'[loop.res])]_vars
=============================================================================
