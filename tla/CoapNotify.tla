----------------------------- MODULE CoapNotify -----------------------------
(***************************************************************************)
(* The notification role: CoAP_NotifyResourceObservers starts a            *)
(* notification for every observer of a resource, or marks the one under   *)
(* way; handleNotifyInteraction sends, repeats and renews it.              *)
(*                                                                         *)
(* The loop of CoAP_StartNotifyInteractions takes one step per observer;   *)
(* nothing else happens until it has ended.                                *)
(***************************************************************************)
EXTENDS CoapInteractions

CONSTANTS
    NotifierOutcomes,  \* what a Notifier may do, a subset of:
                       \*   "ok"    fills the notification
                       \*   "non"   fills it and makes it a NON
                       \*   "error" returns HANDLER_ERROR
                       \*   "code4" returns HANDLER_OK with a code >= 4.00
    ConEvery           \* every ConEvery-th notification is a CON  (20)

ASSUME ConEveryAssumption == ConEvery \in Nat \ {0}

Pending == Head(queue)

notifyUnchanged == UNCHANGED <<tok, calls>>

-----------------------------------------------------------------------------
(* CoAP_NotifyResourceObservers and CoAP_StartNotifyInteractions *)

NotifyResourceObservers(r) ==
    /\ Idle
    /\ updateCnt[r] < MaxVersion  \* bounds the model
    /\ updateCnt' = [updateCnt EXCEPT ![r] = @ + 1]
    /\ loop' = IF observers[r] = <<>> THEN NoLoop ELSE [res |-> r, todo |-> observers[r]]
    /\ told' = [told EXCEPT ![r] = {}]
    /\ tx' = {}
    /\ notifyUnchanged /\ UNCHANGED <<queue, leaked, mid, observers>>

ThisObserver == Head(loop.todo)

NextObserver ==
    loop' = IF Len(loop.todo) = 1 THEN NoLoop ELSE [loop EXCEPT !.todo = Tail(@)]

\* Mutant: a notification that was sent does not count as under way.
OngoingUnsent ==
    First({k \in DOMAIN queue : /\ queue[k].role = "NOTIFICATION"
                                /\ queue[k].state = "READY_TO_NOTIFY"
                                /\ queue[k].res = loop.res
                                /\ queue[k].ep = ThisObserver.ep})

Ongoing ==
    First({k \in DOMAIN queue : /\ queue[k].role = "NOTIFICATION"
                                /\ queue[k].res = loop.res
                                /\ queue[k].ep = ThisObserver.ep})

\* Mutant: a notification under way is only woken.
WakeOngoing ==
    /\ ~Idle
    /\ \E k \in Ongoing : queue' = [queue EXCEPT ![k] = Wakeup(@)]
    /\ NextObserver /\ Silent
    /\ notifyUnchanged /\ UNCHANGED <<leaked, mid, updateCnt, observers>>

\* A notification under way is woken and will be renewed.
MarkOngoing ==
    /\ ~Idle
    /\ \E k \in Ongoing : queue' = [queue EXCEPT ![k] = Wakeup([@ EXCEPT !.updatePending = TRUE])]
    /\ NextObserver /\ Silent
    /\ notifyUnchanged /\ UNCHANGED <<leaked, mid, updateCnt, observers>>

\* The remaining observers are skipped.
NotifyOutOfMemory ==
    /\ ~Idle /\ Ongoing = {} /\ OutOfMemory
    /\ loop' = NoLoop /\ Silent
    /\ notifyUnchanged /\ UNCHANGED <<queue, leaked, mid, updateCnt, observers>>

StartsNotification ==
    ~Idle /\ Ongoing = {} /\ ~OutOfMemory

NotificationType(outcome) ==
    IF outcome = "non" /\ updateCnt[loop.res] % ConEvery # 0 THEN "NON" ELSE "CON"

StartNotification ==
    /\ StartsNotification
    /\ \E outcome \in NotifierOutcomes \cap {"ok", "non"} :
        queue' = Append(queue,
            [NewInteraction("NOTIFICATION", "READY_TO_NOTIFY", ThisObserver.ep) EXCEPT
                !.res = loop.res, !.pObserver = ThisObserver.oid,
                !.resp = [CreateMessage(NotificationType(outcome), "2.05", NextMid(mid), ThisObserver.token)
                            EXCEPT !.observe = updateCnt[loop.res],
                                   !.version = updateCnt[loop.res]]])
    /\ mid' = NextMid(mid)
    /\ NextObserver /\ Silent
    /\ notifyUnchanged /\ UNCHANGED <<leaked, updateCnt, observers>>

\* The interaction is freed again; the observer stays.
NotifierFails ==
    /\ StartsNotification /\ "error" \in NotifierOutcomes
    /\ mid' = NextMid(mid)
    /\ NextObserver /\ Silent
    /\ notifyUnchanged /\ UNCHANGED <<queue, leaked, updateCnt, observers>>

\* The observer is looked up with the endpoint of pIA, which is NULL here: the
\* read faults or, where address 0 can be read, finds no such endpoint.  The
\* new interaction is neither linked nor freed.
NotifierReturnsErrorCode ==
    /\ StartsNotification /\ "code4" \in NotifierOutcomes
    /\ \/ Restart
       \/ /\ leaked' = leaked + 1
          /\ mid' = NextMid(mid)
          /\ NextObserver /\ Silent
          /\ notifyUnchanged /\ UNCHANGED <<queue, updateCnt, observers>>

StartNotifyInteractions ==
    \/ MarkOngoing \/ NotifyOutOfMemory \/ StartNotification
    \/ NotifierFails \/ NotifierReturnsErrorCode

-----------------------------------------------------------------------------
(* handleNotifyInteraction *)

servingUnchanged == UNCHANGED <<leaked, updateCnt, loop>> /\ notifyUnchanged

SendNotification ==
    /\ Pending.role = "NOTIFICATION" /\ Pending.state = "READY_TO_NOTIFY"
    /\ SendResp(Pending, Tail(queue), "NOTIFICATION_SENT")
    /\ servingUnchanged /\ UNCHANGED <<mid, observers>>

NotificationSent ==
    Pending.role = "NOTIFICATION" /\ Pending.state = "NOTIFICATION_SENT"

NotificationWaits ==
    /\ NotificationSent /\ RespStatus(Pending) = "WAITING"
    /\ EnqueueHead(SetSleep(Pending, Pending.ackLeft)) /\ Silent
    /\ servingUnchanged /\ UNCHANGED <<mid, observers>>

\* The notification after another call of the Notifier, and what becomes of
\* the observer list.
Renewed(outcome) ==
    LET fresh == [Pending.resp EXCEPT !.mid = NextMid(mid)] IN
    CASE outcome = "error" -> [fresh EXCEPT !.observe = NoObserve]
      [] outcome = "code4" -> [fresh EXCEPT !.observe = updateCnt[Pending.res], !.code = "other"]
      [] OTHER -> [fresh EXCEPT !.observe = updateCnt[Pending.res],
                                !.version = updateCnt[Pending.res],
                                !.type = IF outcome = "non" THEN "NON" ELSE @]

ObserverAfter(outcome) ==
    IF outcome = "error"
    THEN RemoveObserver(Pending.res, Pending.ep, Pending.resp.token)
    ELSE UNCHANGED observers

\* Each repetition carries the newest representation under a new message ID,
\* but stays of the type it had.
NotificationRetries ==
    /\ NotificationSent /\ RespStatus(Pending) = "RETRY"
    /\ \/ /\ ~Pending.updatePending
          /\ Retransmit(Pending, Pending.resp)
          /\ UNCHANGED <<mid, observers>>
       \/ /\ Pending.updatePending
          /\ \E outcome \in NotifierOutcomes :
                LET m == [Renewed(outcome) EXCEPT !.type = Pending.resp.type] IN
                /\ Retransmit([Pending EXCEPT !.resp = m, !.updatePending = FALSE], m)
                /\ ObserverAfter(outcome)
          /\ mid' = NextMid(mid)
    /\ servingUnchanged

\* The transfer ended well and a newer version waits: start over with it.
NotificationRestarts ==
    /\ NotificationSent /\ RespStatus(Pending) = "OK" /\ Pending.updatePending
    /\ \E outcome \in NotifierOutcomes :
        /\ EnqueueHead([Pending EXCEPT !.state = "READY_TO_NOTIFY", !.retransCounter = 0,
                                       !.updatePending = FALSE, !.resConfirm = "NOT_SET",
                                       !.resp = Renewed(outcome)])
        /\ ObserverAfter(outcome)
    /\ mid' = NextMid(mid)
    /\ Silent
    /\ servingUnchanged

\* Mutant: the update that waits is dropped.
NotificationEnds ==
    /\ NotificationSent /\ RespStatus(Pending) = "OK"
    /\ DeleteHead /\ Silent
    /\ servingUnchanged /\ UNCHANGED <<mid, observers>>

NotificationDone ==
    /\ NotificationSent /\ RespStatus(Pending) = "OK" /\ ~Pending.updatePending
    /\ DeleteHead /\ Silent
    /\ servingUnchanged /\ UNCHANGED <<mid, observers>>

\* An observer that resets a notification or never acknowledges it is removed.
NotificationRefused ==
    /\ NotificationSent
    /\ RespStatus(Pending) \in {"ERR_OUT_OF_ATTEMPTS", "ERR_REMOTE_RST"}
    /\ RemoveObserver(Pending.res, Pending.ep, Pending.resp.token)
    /\ DeleteHead /\ Silent
    /\ servingUnchanged /\ UNCHANGED mid

handleNotifyInteraction ==
    \/ SendNotification \/ NotificationWaits \/ NotificationRetries
    \/ NotificationRestarts \/ NotificationDone \/ NotificationRefused
=============================================================================
