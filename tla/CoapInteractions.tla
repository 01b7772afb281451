-------------------------- MODULE CoapInteractions --------------------------
(***************************************************************************)
(* The state of one CoAP endpoint (coap_interaction.h, the static counters *)
(* of coap_message.c, the observer lists of coap_resource.c) and the       *)
(* operations of coap_interaction.c on it.                                 *)
(*                                                                         *)
(* The linked list CoAP.pInteractions is the sequence "queue"; its head is *)
(* the interaction CoAP_doWork serves next.  Absolute times are kept as    *)
(* the seconds that remain (AckTimeout, SleepUntil) or have passed         *)
(* (Timestamp of the request), which is what timeAfter compares.  All      *)
(* interactions use one socket.                                            *)
(***************************************************************************)
EXTENDS CoapMessages, FiniteSets, SequencesExt

CONSTANTS
    Eps,              \* remote endpoints (NetEp_t)
    Res,              \* the resources of this endpoint
    NoRes,            \* pRes of a client interaction
    Observable,       \* the resources that have a Notifier
    AllowedMethods,   \* [Res -> SUBSET Requests]
    Oids,             \* the memory blocks observers are allocated from
    NoOid,            \* a NULL pObserver
    MaxInteractions,  \* the heap holds that many interactions
    MaxRequests,      \* requests the application makes while the model runs
    MAX_RETRANSMIT,
    WaitTime,         \* seconds CoAP_EnableAckTimeout waits, by retry number
    PostponeWait,     \* POSTPONE_WAIT_TIME_SEK
    PostponeMax,      \* POSTPONE_MAX_WAIT_TIME
    ClientMaxWait,    \* CLIENT_MAX_RESP_WAIT_TIME
    Leisure,          \* DEFAULT_LEISURE
    SendResults,      \* what NetTransmit_fn may return: {TRUE} or BOOLEAN
    SeedMids,         \* what CoAP_InitIds may draw for MId
    SeedToks          \*                        and for currToken

ASSUME ResAssumption  == NoRes \notin Res /\ Observable \subseteq Res
ASSUME OidAssumption  == NoOid \notin Oids
ASSUME TimeAssumption ==
    /\ MAX_RETRANSMIT \in Nat
    /\ WaitTime \in [0 .. MAX_RETRANSMIT -> Nat]
    /\ {PostponeWait, PostponeMax, ClientMaxWait, Leisure} \subseteq Nat
ASSUME BoundAssumption == MaxInteractions \in Nat /\ MaxRequests \in Nat
ASSUME SendAssumption  == SendResults \subseteq BOOLEAN /\ SendResults # {}
ASSUME SeedAssumption == SeedMids \subseteq Mids /\ SeedToks \subseteq Tokens
ASSUME MethodAssumption == AllowedMethods \in [Res -> SUBSET Requests]

VARIABLES
    queue,      \* CoAP.pInteractions
    leaked,     \* interactions allocated, in no list and never freed
    mid,        \* static uint16_t MId
    tok,        \* static uint8_t currToken
    updateCnt,  \* CoAP_Res_t.UpdateCnt
    observers,  \* CoAP_Res_t.pListObservers
    loop,       \* the progress of a running CoAP_StartNotifyInteractions
    calls,      \* what the application saw of its n-th request
    told,       \* who was sent the current version of a resource: {<<ep, token>>}
    tx          \* the datagrams handed to the network by the last step

vars == <<queue, leaked, mid, tok, updateCnt, observers, loop, calls, told, tx>>

ServerStates == {"HANDLE_REQUEST", "RESOURCE_POSTPONE_EMPTY_ACK_SENT",
                 "RESPONSE_SENT", "RESPONSE_WAITING_LEISURE"}
NotifyStates == {"READY_TO_NOTIFY", "NOTIFICATION_SENT"}
ClientStates == {"READY_TO_REQUEST", "WAITING_RESPONSE", "HANDLE_RESPONSE"}
States       == ServerStates \cup NotifyStates \cup ClientStates

Confirmation == {"NOT_SET", "ACK_SEND", "RST_SEND"}

Observer == [oid : Oids, ep : Eps, token : Tokens \cup {NoToken}]

Interaction ==
    [role : {"SERVER", "NOTIFICATION", "CLIENT"}, state : States, ep : Eps,
     res : Res \cup {NoRes}, pObserver : Oids \cup {NoOid},
     updatePending : BOOLEAN, retransCounter : 0 .. MAX_RETRANSMIT,
     ackLeft : Nat, sleepLeft : Nat \cup {-1}, multicast : BOOLEAN,
     req : MessageOrNull, reqConfirm : Confirmation, reqAge : Nat,
     resp : MessageOrNull, resConfirm : Confirmation,
     call : 0 .. MaxRequests]

CallResults == {"idle",     \* not requested yet
                "open",     \* accepted by CoAP_StartNewRequest
                "response", \* RespCB was called with a response
                "failed",   \* RespCB was called with NULL
                "dropped",  \* the interaction was deleted, RespCB not called
                "cleared",  \* by CoAP_ClearPendingInteractions
                "lost",     \* by a restart
                "twice"}    \* RespCB was called more than once

NoCall == 0  \* the interaction has no RespCB

\* CoAP_AllocNewInteraction: the block is zeroed.
NewInteraction(role, state, ep) ==
    [role |-> role, state |-> state, ep |-> ep, res |-> NoRes,
     pObserver |-> NoOid, updatePending |-> FALSE, retransCounter |-> 0,
     ackLeft |-> 0, sleepLeft |-> -1, multicast |-> FALSE,
     req |-> NoMessage, reqConfirm |-> "NOT_SET", reqAge |-> 0,
     resp |-> NoMessage, resConfirm |-> "NOT_SET", call |-> NoCall]

OutOfMemory == Len(queue) + leaked >= MaxInteractions

NoLoop == [res |-> NoRes, todo |-> <<>>]
Idle   == loop.res = NoRes

Init ==
    /\ queue = <<>>
    /\ leaked = 0
    /\ mid \in SeedMids
    /\ tok \in SeedToks
    /\ updateCnt = [r \in Res |-> 0]
    /\ observers = [r \in Res |-> <<>>]
    /\ loop = NoLoop
    /\ calls = [n \in 1 .. MaxRequests |-> "idle"]
    /\ told = [r \in Res |-> {}]
    /\ tx = {}

\* The program faults and the device boots again: everything is lost.
Restart ==
    /\ queue' = <<>>
    /\ leaked' = 0
    /\ mid' \in SeedMids
    /\ tok' \in SeedToks
    /\ updateCnt' = [r \in Res |-> 0]
    /\ observers' = [r \in Res |-> <<>>]
    /\ loop' = NoLoop
    /\ calls' = [n \in 1 .. MaxRequests |-> IF calls[n] = "open" THEN "lost" ELSE calls[n]]
    /\ told' = [r \in Res |-> {}]
    /\ tx' = {}

-----------------------------------------------------------------------------
(* Operations on the list and on an interaction. *)

\* The head is unlinked for good or is appended again (CoAP_DeleteInteraction
\* and CoAP_EnqueueLastInteraction, which the handlers call on the head, but for
\* the cancellation in CoapServer that deletes another one, too).
DeleteHead     == queue' = Tail(queue)
EnqueueHead(r) == queue' = Append(Tail(queue), r)
UpdateHead(r)  == queue' = [queue EXCEPT ![1] = r]

SetSleep(r, seconds)  == [r EXCEPT !.sleepLeft = seconds]
EnableAckTimeout(r)   == [r EXCEPT !.ackLeft = WaitTime[r.retransCounter]]
Wakeup(r)             == [r EXCEPT !.sleepLeft = -1]
Sleeping(r)           == r.sleepLeft >= 0

\* The positions the list search stops at: the first one that matches.
First(positions) == {k \in positions : \A j \in positions : k <= j}

FindByMessageIdAndEp(id, ep) ==
    First({k \in DOMAIN queue : /\ \/ queue[k].resp.mid = id
                                   \/ queue[k].req.mid = id
                                /\ queue[k].ep = ep})

\* The list without the element at the position in ks, if there is one.
Without(s, ks) == IF ks = {} THEN s ELSE RemoveAt(s, CHOOSE k \in ks : TRUE)

\* CoAP_SendMsg: NetTransmit_fn takes the datagram or reports an error.  A
\* message that shows the current version of resource r informs its receiver.
SendMsg(r, ep, m) ==
    \E ok \in SendResults :
        /\ tx' = IF ok THEN {[ep |-> ep, msg |-> m]} ELSE {}
        /\ told' = IF ok /\ r \in Observable /\ m.code = "2.05" /\ m.version = updateCnt[r]
                   THEN [told EXCEPT ![r] = @ \cup {<<ep, m.token>>}]
                   ELSE told

Sent   == tx' # {}
Silent == tx' = {} /\ UNCHANGED told

\* What is left of an answer that was sent: a piggybacked one acknowledges the
\* request, a CON one starts the ACK timeout.
Answered(r, next) ==
    [r EXCEPT !.state = next,
              !.reqConfirm = IF r.resp.type = "ACK" THEN "ACK_SEND" ELSE @,
              !.ackLeft = IF r.resp.type = "CON" THEN WaitTime[r.retransCounter] ELSE @]

\* SendResp: r, whose answer is sent, goes behind the other interactions or,
\* when it cannot be sent, is deleted.
SendResp(r, others, next) ==
    /\ SendMsg(r.res, r.ep, r.resp)
    /\ queue' = IF Sent THEN Append(others, Answered(r, next)) ELSE others

\* Every retransmission: the interaction stays at the head of the list.
Retransmit(r, m) ==
    /\ SendMsg(r.res, r.ep, m)
    /\ IF Sent
       THEN UpdateHead(EnableAckTimeout([r EXCEPT !.retransCounter = @ + 1]))
       ELSE DeleteHead

\* CheckRespStatus.  HOLDTIME_AFTER_NON_TRANSACTION_END is 0, so an answer that
\* needs no ACK is never held back.
RespStatus(r) ==
    IF r.resConfirm = "RST_SEND" THEN "ERR_REMOTE_RST"
    ELSE IF r.resp.type # "CON" \/ r.resConfirm = "ACK_SEND" THEN "OK"
    ELSE IF r.ackLeft > 0 THEN "WAITING"
    ELSE IF r.retransCounter + 1 > MAX_RETRANSMIT THEN "ERR_OUT_OF_ATTEMPTS"
    ELSE "RETRY"

-----------------------------------------------------------------------------
(* Observers of a resource. *)

LiveOids == UNION {{o.oid : o \in ToSet(observers[r])} : r \in Res}

ObserversAt(r, ep) == First({k \in DOMAIN observers[r] : observers[r][k].ep = ep})

\* CoAP_RemoveObserverFromResource
RemoveObserver(r, ep, token) ==
    observers' = [observers EXCEPT ![r] =
        Without(@, First({k \in DOMAIN @ : @[k].ep = ep /\ @[k].token = token}))]

\* Mutant: the old registration of the endpoint stays.
AddObserverAgain(r, o) ==
    /\ o.oid \notin LiveOids
    /\ observers' = [observers EXCEPT ![r] = Append(@, o)]

\* The part of CoAP_HandleObservationInReq that attaches an observer: the new
\* block is allocated before the old registration of the endpoint is freed.
AddObserver(r, o) ==
    /\ o.oid \notin LiveOids
    /\ observers' = [observers EXCEPT ![r] = Append(Without(@, ObserversAt(r, o.ep)), o)]
=============================================================================
