--------------------------- MODULE CoapJobs_proofs ---------------------------
(***************************************************************************)
(* No two interactions do the same job: one per request of a client, one   *)
(* notification per observer of a resource, one for each request of ours,  *)
(* and these are exactly the requests the application waits for.           *)
(*                                                                         *)
(* What an interaction works on never changes (Keeps), so every step       *)
(* either leaves the list a list of the same jobs or fewer, or appends one *)
(* the search before it did not find.                                      *)
(*                                                                         *)
(* Then what holds of the observers of the resources and of the            *)
(* notifications under way to them.                                        *)
(***************************************************************************)
EXTENDS CoapStack_proofs, WellFoundedInduction

SameJob(r, s) ==
    \/ /\ r.role = "SERVER" /\ s.role = "SERVER"
       /\ r.ep = s.ep /\ r.req.mid = s.req.mid
    \/ /\ r.role = "NOTIFICATION" /\ s.role = "NOTIFICATION"
       /\ r.res = s.res /\ r.ep = s.ep
    \/ r.role = "CLIENT" /\ s.role = "CLIENT" /\ r.call = s.call

\* s is a later stage of the interaction r.
Keeps(r, s) ==
    /\ s.role = r.role /\ s.ep = r.ep /\ s.res = r.res
    /\ s.req = r.req /\ s.call = r.call

Distinct(q) == \A j, k \in DOMAIN q : SameJob(q[j], q[k]) => j = k

\* An interaction of q will report on the n-th request.
Open(q, n) == \E k \in DOMAIN q : q[k].role = "CLIENT" /\ q[k].call = n

CallsOK(q, c) ==
    \A n \in 1 .. MaxRequests : c[n] # "twice" /\ (c[n] = "open" <=> Open(q, n))

JobsInv == TypeInv /\ Distinct(queue) /\ CallsOK(queue, calls)

-----------------------------------------------------------------------------
(* Lists of jobs *)

\* A search of the list that finds something finds a first one.
LEMMA FirstExists ==
    ASSUME NEW T, T \subseteq Nat, T # {}
    PROVE  First(T) # {}
<1>1. PICK x \in T : \A y \in T : ~(<<y, x>> \in OpToRel(<, Nat))
  BY WFMin, NatLessThanWellFounded
<1>2. ASSUME NEW y \in T PROVE x <= y
  <2>1. x \in Nat /\ y \in Nat /\ <<y, x>> \in Nat \X Nat
    OBVIOUS
  <2>2. y < x => <<y, x>> \in OpToRel(<, Nat)
    BY <2>1, Zenon DEF OpToRel
  <2>3. ~(y < x)
    BY <1>1, <2>2
  <2> QED BY <2>1, <2>3
<1> QED BY <1>2 DEF First

LEMMA PointwiseJobs ==
    ASSUME NEW q, NEW q2, DOMAIN q2 = DOMAIN q, \A k \in DOMAIN q : Keeps(q[k], q2[k])
    PROVE  /\ Distinct(q) => Distinct(q2)
           /\ \A n : Open(q, n) <=> Open(q2, n)
           /\ \A r : (\A k \in DOMAIN q : ~SameJob(q[k], r)) => \A k \in DOMAIN q2 : ~SameJob(q2[k], r)
BY DEF Keeps, Distinct, SameJob, Open

LEMMA AppendJobs ==
    ASSUME NEW S, NEW q \in Seq(S), NEW r \in S
    PROVE  /\ Distinct(q) /\ (\A k \in DOMAIN q : ~SameJob(q[k], r)) => Distinct(Append(q, r))
           /\ \A n : Open(Append(q, r), n) <=> Open(q, n) \/ (r.role = "CLIENT" /\ r.call = n)
<1> DEFINE a == Append(q, r)
<1>1. /\ DOMAIN q = 1 .. Len(q) /\ DOMAIN a = 1 .. Len(q) + 1 /\ Len(q) \in Nat
      /\ \A k \in DOMAIN q : a[k] = q[k]
      /\ a[Len(q) + 1] = r
  OBVIOUS
<1> HIDE DEF a
<1>2. \A k \in DOMAIN a : k \in DOMAIN q \/ k = Len(q) + 1
  BY <1>1
<1>3. \A k \in DOMAIN q : k \in DOMAIN a
  BY <1>1
<1>4. Len(q) + 1 \in DOMAIN a
  BY <1>1
<1>5. ASSUME Distinct(q), \A k \in DOMAIN q : ~SameJob(q[k], r) PROVE Distinct(a)
  <2>1. \A k \in DOMAIN q : ~SameJob(r, q[k])
    BY <1>5 DEF SameJob
  <2> QED BY <1>1, <1>2, <1>5, <2>1 DEF Distinct
<1>6. \A n : Open(a, n) <=> Open(q, n) \/ (r.role = "CLIENT" /\ r.call = n)
  BY <1>1, <1>2, <1>3, <1>4 DEF Open
<1> QED BY <1>5, <1>6 DEF a

LEMMA TailJobs ==
    ASSUME NEW S, NEW q \in Seq(S), q # <<>>
    PROVE  /\ Distinct(q) => /\ Distinct(Tail(q))
                             /\ \A k \in DOMAIN Tail(q) : ~SameJob(Tail(q)[k], Head(q))
           /\ \A n : Open(q, n) <=> Open(Tail(q), n) \/ (Head(q).role = "CLIENT" /\ Head(q).call = n)
<1> DEFINE t == Tail(q)
<1>1. /\ DOMAIN q = 1 .. Len(q) /\ DOMAIN t = 1 .. Len(q) - 1 /\ Len(q) \in Nat \ {0}
      /\ \A k \in DOMAIN t : t[k] = q[k + 1]
      /\ Head(q) = q[1]
  OBVIOUS
<1> HIDE DEF t
<1>2. \A k \in DOMAIN t : k \in Nat /\ k + 1 \in DOMAIN q /\ k + 1 # 1
  BY <1>1
<1>3. 1 \in DOMAIN q /\ \A k \in DOMAIN q : k = 1 \/ (k - 1 \in DOMAIN t /\ q[k] = t[k - 1])
  BY <1>1
<1>4. ASSUME Distinct(q) PROVE Distinct(t) /\ \A k \in DOMAIN t : ~SameJob(t[k], Head(q))
  <2>1. \A j, k \in DOMAIN q : SameJob(q[j], q[k]) => j = k
    BY <1>4 DEF Distinct
  <2>2. ASSUME NEW j \in DOMAIN t, NEW k \in DOMAIN t, SameJob(t[j], t[k]) PROVE j = k
    <3>1. j + 1 = k + 1
      BY <1>1, <1>2, <2>1, <2>2
    <3> QED BY <1>2, <3>1
  <2>3. ASSUME NEW k \in DOMAIN t, SameJob(t[k], Head(q)) PROVE FALSE
    BY <1>1, <1>2, <1>3, <2>1, <2>3
  <2> QED BY <2>2, <2>3 DEF Distinct
<1>5. \A n : Open(q, n) <=> Open(t, n) \/ (Head(q).role = "CLIENT" /\ Head(q).call = n)
  BY <1>1, <1>2, <1>3 DEF Open
<1> QED BY <1>4, <1>5 DEF t

\* Deleting one that is not a client's.
LEMMA WithoutJobs ==
    ASSUME NEW S, NEW q \in Seq(S), NEW ks \in SUBSET DOMAIN q,
           \A k \in ks : q[k].role # "CLIENT"
    PROVE  /\ Distinct(q) => Distinct(Without(q, ks))
           /\ \A n : Open(q, n) <=> Open(Without(q, ks), n)
           /\ \A r : (\A k \in DOMAIN q : ~SameJob(q[k], r)) =>
                        \A k \in DOMAIN Without(q, ks) : ~SameJob(Without(q, ks)[k], r)
<1>1. CASE ks = {}
  BY <1>1 DEF Without
<1>2. CASE ks # {}
  <2> DEFINE w == Without(q, ks)
  <2>1. PICK i \in ks : \E old : Without1(w, q, i, old)
    BY <1>2, WithoutMap
  <2>2. PICK old : Without1(w, q, i, old)
    BY <2>1
  <2>3. q[i].role # "CLIENT"
    OBVIOUS
  <2> HIDE DEF w
  <2>4. Distinct(q) => Distinct(w)
    BY <2>2 DEF Distinct, Without1
  <2>5. \A n : Open(q, n) <=> Open(w, n)
    BY <2>2, <2>3 DEF Open, Without1
  <2>6. \A r : (\A k \in DOMAIN q : ~SameJob(q[k], r)) => \A k \in DOMAIN w : ~SameJob(w[k], r)
    BY <2>2 DEF Without1
  <2> QED BY <2>4, <2>5, <2>6 DEF w
<1> QED BY <1>1, <1>2

LEMMA KeepsJob ==
    ASSUME NEW r, NEW s, Keeps(r, s)
    PROVE  /\ \A i : SameJob(i, s) <=> SameJob(i, r)
           /\ \A n : (s.role = "CLIENT" /\ s.call = n) <=> (r.role = "CLIENT" /\ r.call = n)
BY DEF Keeps, SameJob

-----------------------------------------------------------------------------
(* What doWork makes of the list *)

\* The head has become r, ks of the others are deleted with it or without it.
Others(ks) == Without(Tail(queue), ks)

Deletable(ks) ==
    ks \subseteq {k \in DOMAIN Tail(queue) : Tail(queue)[k].role # "CLIENT"}

JobKept(q) ==
    \E r, ks :
        /\ Keeps(Head(queue), r) /\ Deletable(ks)
        /\ \/ q = Append(Others(ks), r)
           \/ q = [queue EXCEPT ![1] = r]
           \/ q = Others(ks) /\ Head(queue).role # "CLIENT"

LEMMA OthersJobs ==
    ASSUME TypeInv, Distinct(queue), queue # <<>>, NEW ks, Deletable(ks)
    PROVE  /\ Others(ks) \in Seq(Interactions)
           /\ Distinct(Others(ks))
           /\ \A k \in DOMAIN Others(ks) : ~SameJob(Others(ks)[k], Head(queue))
           /\ \A n : Open(queue, n) <=>
                        Open(Others(ks), n) \/ (Head(queue).role = "CLIENT" /\ Head(queue).call = n)
<1>1. queue \in Seq(Interactions) /\ Tail(queue) \in Seq(Interactions)
  BY ServingType
<1>2. ks \in SUBSET DOMAIN Tail(queue) /\ \A k \in ks : Tail(queue)[k].role # "CLIENT"
  BY DEF Deletable
<1>3. Others(ks) \in Seq(Interactions)
  BY <1>1, <1>2, WithoutType DEF Others
<1>4. /\ Distinct(Tail(queue))
      /\ \A k \in DOMAIN Tail(queue) : ~SameJob(Tail(queue)[k], Head(queue))
      /\ \A n : Open(queue, n) <=>
                   Open(Tail(queue), n) \/ (Head(queue).role = "CLIENT" /\ Head(queue).call = n)
  BY <1>1, TailJobs
<1>5. /\ Distinct(Others(ks))
      /\ \A n : Open(Tail(queue), n) <=> Open(Others(ks), n)
      /\ \A k \in DOMAIN Others(ks) : ~SameJob(Others(ks)[k], Head(queue))
  BY <1>1, <1>2, <1>4, WithoutJobs DEF Others
<1> QED BY <1>3, <1>4, <1>5

\* A client at the head that is deleted leaves nothing that would report on it.
LEMMA LastOfItsJob ==
    ASSUME NEW q, NEW r, \A k \in DOMAIN q : ~SameJob(q[k], r), r.role = "CLIENT"
    PROVE  ~Open(q, r.call)
BY DEF Open, SameJob

LEMMA SeqGrows ==
    ASSUME NEW S, NEW q \in Seq(S), NEW r
    PROVE  q \in Seq(S \cup {r}) /\ r \in S \cup {r}
<1>1. Len(q) \in Nat /\ DOMAIN q = 1 .. Len(q) /\ \A k \in 1 .. Len(q) : q[k] \in S \cup {r}
  OBVIOUS
<1>2. q = [k \in 1 .. Len(q) |-> q[k]]
  BY <1>1
<1> QED BY <1>1, <1>2, IsASeq

LEMMA KeptJobs ==
    ASSUME JobsInv, queue # <<>>, JobKept(queue'), UNCHANGED calls
    PROVE  Distinct(queue') /\ CallsOK(queue', calls')
<1>1. PICK r, ks :
        /\ Keeps(Head(queue), r) /\ Deletable(ks)
        /\ \/ queue' = Append(Others(ks), r)
           \/ queue' = [queue EXCEPT ![1] = r]
           \/ queue' = Others(ks) /\ Head(queue).role # "CLIENT"
  BY DEF JobKept
<1>2. TypeInv /\ Distinct(queue) /\ CallsOK(queue, calls)
  BY DEF JobsInv
<1>3. /\ Others(ks) \in Seq(Interactions)
      /\ Distinct(Others(ks))
      /\ \A k \in DOMAIN Others(ks) : ~SameJob(Others(ks)[k], Head(queue))
      /\ \A n : Open(queue, n) <=>
                   Open(Others(ks), n) \/ (Head(queue).role = "CLIENT" /\ Head(queue).call = n)
  BY <1>1, <1>2, OthersJobs
<1>4. SUFFICES Distinct(queue') /\ \A n : Open(queue', n) <=> Open(queue, n)
  BY <1>2 DEF CallsOK
<1>5. CASE queue' = Append(Others(ks), r)
  <2>1. /\ \A k \in DOMAIN Others(ks) : ~SameJob(Others(ks)[k], r)
        /\ \A n : (r.role = "CLIENT" /\ r.call = n)
                    <=> (Head(queue).role = "CLIENT" /\ Head(queue).call = n)
    BY <1>1, <1>3, KeepsJob
  <2>2. Others(ks) \in Seq(Interactions \cup {r}) /\ r \in Interactions \cup {r}
    BY <1>3, SeqGrows
  <2> QED BY <1>3, <1>5, <2>1, <2>2, AppendJobs
<1>6. CASE queue' = [queue EXCEPT ![1] = r]
  <2>1. queue \in Seq(Interactions) /\ Head(queue) = queue[1]
    BY <1>2, ServingType
  <2>2. DOMAIN queue' = DOMAIN queue
    BY <1>6
  <2>3. \A k \in DOMAIN queue : Keeps(queue[k], queue'[k])
    BY <1>1, <1>6, <2>1 DEF Keeps
  <2> QED BY <1>2, <2>2, <2>3, PointwiseJobs
<1>7. CASE queue' = Others(ks) /\ Head(queue).role # "CLIENT"
  BY <1>3, <1>7
<1> QED BY <1>1, <1>5, <1>6, <1>7

\* The usual ways to keep a job.
LEMMA WaysToKeep ==
    ASSUME TypeInv, queue # <<>>, NEW r, Keeps(Head(queue), r)
    PROVE  /\ queue' = Append(Tail(queue), r) => JobKept(queue')
           /\ queue' = [queue EXCEPT ![1] = r] => JobKept(queue')
           /\ queue' = Tail(queue) /\ Head(queue).role # "CLIENT" => JobKept(queue')
<1>1. Others({}) = Tail(queue) /\ Deletable({})
  BY DEF Others, Without, Deletable
<1> QED BY <1>1 DEF JobKept

LEMMA StagesKeep ==
    ASSUME NEW h, NEW r \in Interactions, Keeps(h, r), NEW s, NEW m, NEW next
    PROVE  /\ Keeps(h, SetSleep(r, s))
           /\ Keeps(h, Answered(r, next))
           /\ Keeps(h, EnableAckTimeout([r EXCEPT !.retransCounter = @ + 1]))
           /\ Keeps(h, [r EXCEPT !.resp = m])
<1>1. Keeps(h, SetSleep(r, s)) /\ Keeps(h, [r EXCEPT !.resp = m])
  BY DEF Keeps, SetSleep, Interactions, Interaction
<1>2. Keeps(h, Answered(r, next))
  BY DEF Keeps, Answered, Interactions, Interaction
<1>3. Keeps(h, EnableAckTimeout([r EXCEPT !.retransCounter = @ + 1]))
  BY DEF Keeps, EnableAckTimeout, Interactions, Interaction
<1> QED BY <1>1, <1>2, <1>3

LEMMA SendRespKeeps ==
    ASSUME TypeInv, queue # <<>>, NEW r \in Interactions, Keeps(Head(queue), r),
           Head(queue).role # "CLIENT", NEW ks, Deletable(ks), NEW next,
           SendResp(r, Others(ks), next)
    PROVE  JobKept(queue')
<1>1. Keeps(Head(queue), Answered(r, next))
  BY StagesKeep
<1>2. queue' = Append(Others(ks), Answered(r, next)) \/ queue' = Others(ks)
  BY DEF SendResp
<1> QED BY <1>1, <1>2 DEF JobKept

LEMMA RetransmitKeeps ==
    ASSUME TypeInv, queue # <<>>, NEW r \in Interactions, Keeps(Head(queue), r), NEW m,
           Head(queue).role # "CLIENT" \/ Sent, Retransmit(r, m)
    PROVE  JobKept(queue')
<1>1. Keeps(Head(queue), EnableAckTimeout([r EXCEPT !.retransCounter = @ + 1]))
  BY StagesKeep
<1>2. \/ queue' = [queue EXCEPT ![1] = EnableAckTimeout([r EXCEPT !.retransCounter = @ + 1])]
      \/ queue' = Tail(queue) /\ Head(queue).role # "CLIENT"
  BY DEF Retransmit, UpdateHead, DeleteHead
<1> QED BY <1>1, <1>2, WaysToKeep

LEMMA ServerKeeps ==
    ASSUME TypeInv, queue # <<>>, handleServerInteraction, ~Restart
    PROVE  JobKept(queue') /\ UNCHANGED calls
<1>1. /\ Serving = Head(queue) /\ Serving \in Interactions /\ Serving.role = "SERVER"
      /\ Keeps(Head(queue), Serving) /\ UNCHANGED calls
  <2>1. Serving = Head(queue) /\ Serving \in Interactions
    BY ServingType DEF Serving
  <2>2. Serving.role = "SERVER" /\ UNCHANGED calls
    BY NullAnswerGoesOn
       DEF handleServerInteraction, ServeMulticastCon, ServeMulticastWait, ServeMethodNotAllowed,
           ServeDrop, ServePostponeAck, ServePostponeAgain, ServeAnswer, ServerWaitsForAck,
           ServerRetries, ServerDone, ReadyForHandler, AwaitsHandler, AnswerSent, serverUnchanged
  <2> QED BY <2>1, <2>2 DEF Keeps
<1>2. Others({}) = Tail(queue) /\ Deletable({})
  BY DEF Others, Without, Deletable
<1>3. ASSUME NEW m \in Message
      PROVE  /\ [Serving EXCEPT !.resp = m] \in Interactions
             /\ Keeps(Head(queue), [Serving EXCEPT !.resp = m])
  BY <1>1, <1>3, RespType, StagesKeep
<1>4. CASE DeleteHead
  BY <1>1, <1>4, WaysToKeep DEF DeleteHead
<1>5. CASE ServeMulticastWait
  <2> DEFINE r == [Serving EXCEPT !.state = "RESPONSE_WAITING_LEISURE"]
  <2>1. r \in Interactions /\ Keeps(Head(queue), r)
    BY <1>1 DEF Keeps, Interactions, Interaction, WellFormed, States, ServerStates
  <2>2. queue' = Append(Tail(queue), SetSleep(r, Leisure))
    BY <1>5 DEF ServeMulticastWait, EnqueueHead
  <2> HIDE DEF r
  <2> QED BY <1>1, <2>1, <2>2, StagesKeep, WaysToKeep
<1>6. CASE ServeMethodNotAllowed
  <2> DEFINE m == AllocRespMsg(Serving.req, "4.05", mid)
  <2>1. m \in Message
    BY <1>1, RequestType, AllocRespType DEF TypeInv, TypeOK, Codes, Responses
  <2>2. SendResp([Serving EXCEPT !.resp = m], Tail(queue), "RESPONSE_SENT")
    BY <1>6 DEF ServeMethodNotAllowed
  <2> HIDE DEF m
  <2> QED BY <1>1, <1>2, <1>3, <2>1, <2>2, SendRespKeeps
<1>a. CASE ServeNullAnswer
  <2>1. Keeps(Serving, NullAnswerOf(Serving))
    BY <1>1 DEF Keeps, NullAnswerOf, Interactions, Interaction
  <2>2. queue' = Tail(queue) \/ queue' = Append(Tail(queue), NullAnswerOf(Serving))
    BY <1>a, NullAnswerGoesOn
  <2> QED BY <1>1, <2>1, <2>2, WaysToKeep
<1>7. CASE ServePostponeAck /\ ~DeleteHead
  <2> DEFINE r == [Serving EXCEPT !.resp = Prepared, !.reqConfirm = "ACK_SEND",
                                  !.state = "RESOURCE_POSTPONE_EMPTY_ACK_SENT"]
  <2>1. Keeps(Head(queue), SetSleep(r, PostponeWait))
    BY <1>1 DEF Keeps, SetSleep, Interactions, Interaction
  <2>2. queue' = Append(Tail(queue), SetSleep(r, PostponeWait))
    BY <1>7 DEF ServePostponeAck, EnqueueHead
  <2> HIDE DEF r
  <2> QED BY <1>1, <2>1, <2>2, WaysToKeep
<1>8. CASE ServePostponeAgain
  <2> DEFINE r == [Serving EXCEPT !.resp = Prepared]
  <2>1. Keeps(Head(queue), SetSleep(r, PostponeWait))
    BY <1>1 DEF Keeps, SetSleep, Interactions, Interaction
  <2>2. queue' = Append(Tail(queue), SetSleep(r, PostponeWait))
    BY <1>8 DEF ServePostponeAgain, EnqueueHead
  <2> HIDE DEF r
  <2> QED BY <1>1, <2>1, <2>2, WaysToKeep
<1>9. CASE ServeAnswer
  <2>1. PICK m \in Answers : Answer(m)
    BY <1>9 DEF ServeAnswer
  <2>2. m \in Message
    BY <1>1, AnswersType
  <2>3. [m EXCEPT !.observe = 0] \in Message
    BY <2>2, MaxVersionAssumption DEF Message, ObserveVals, Versions
  <2>4. ASSUME NEW a \in Message, NEW ks, Deletable(ks),
               SendResp([Serving EXCEPT !.resp = a], Others(ks), "RESPONSE_SENT")
        PROVE  JobKept(queue')
    BY <1>1, <1>3, <2>4, SendRespKeeps
  <2>5. \/ SendResp([Serving EXCEPT !.resp = m], Tail(queue), "RESPONSE_SENT")
        \/ SendResp([Serving EXCEPT !.resp = [m EXCEPT !.observe = 0]], Tail(queue), "RESPONSE_SENT")
        \/ SendResp([Serving EXCEPT !.resp = m],
                    Without(Tail(queue), PendingNotification(Tail(queue))), "RESPONSE_SENT")
    BY <2>1 DEF Answer
  <2>6. Deletable(PendingNotification(Tail(queue)))
    BY DEF Deletable, PendingNotification, First
  <2> QED BY <1>1, <1>2, <2>2, <2>3, <2>4, <2>5, <2>6 DEF Others
<1>10. CASE ServerWaitsForAck
  <2>1. queue' = Append(Tail(queue), SetSleep(Serving, Serving.ackLeft))
    BY <1>10 DEF ServerWaitsForAck, EnqueueHead
  <2> QED BY <1>1, <2>1, StagesKeep, WaysToKeep
<1>11. CASE ServerRetries
  BY <1>1, <1>11, RetransmitKeeps DEF ServerRetries
<1> QED
  BY <1>1, <1>4, <1>5, <1>6, <1>a, <1>7, <1>8, <1>9, <1>10, <1>11
     DEF handleServerInteraction, ServeMulticastCon, ServeDrop, ServerDone

LEMMA NotifyKeeps ==
    ASSUME TypeInv, queue # <<>>, handleNotifyInteraction
    PROVE  JobKept(queue') /\ UNCHANGED calls
<1>1. /\ Pending = Head(queue) /\ Pending \in Interactions /\ Pending.role = "NOTIFICATION"
      /\ Pending.resp \in Message
      /\ Keeps(Head(queue), Pending) /\ UNCHANGED calls
  <2>1. Pending = Head(queue)
    BY DEF Pending
  <2>2. Pending.role = "NOTIFICATION" /\ UNCHANGED calls
    BY DEF handleNotifyInteraction, SendNotification, NotificationWaits, NotificationRetries,
           NotificationRestarts, NotificationDone, NotificationRefused, NotificationSent,
           servingUnchanged, notifyUnchanged
  <2> QED BY <2>1, <2>2, PendingType DEF Keeps
<1>2. Others({}) = Tail(queue) /\ Deletable({})
  BY DEF Others, Without, Deletable
<1>3. CASE DeleteHead
  BY <1>1, <1>3, WaysToKeep DEF DeleteHead
<1>4. CASE SendNotification
  <2>1. SendResp(Pending, Others({}), "NOTIFICATION_SENT")
    BY <1>2, <1>4 DEF SendNotification
  <2> QED BY <1>1, <1>2, <2>1, SendRespKeeps
<1>5. CASE NotificationWaits
  <2>1. queue' = Append(Tail(queue), SetSleep(Pending, Pending.ackLeft))
    BY <1>5 DEF NotificationWaits, EnqueueHead
  <2> QED BY <1>1, <2>1, StagesKeep, WaysToKeep
<1>6. CASE NotificationRetries
  <2>1. CASE ~Pending.updatePending
    BY <1>1, <1>6, <2>1, RetransmitKeeps DEF NotificationRetries
  <2>2. CASE Pending.updatePending
    <3>1. PICK outcome \in NotifierOutcomes :
            LET m == [Renewed(outcome) EXCEPT !.type = Pending.resp.type] IN
            /\ Retransmit([Pending EXCEPT !.resp = m, !.updatePending = FALSE], m)
            /\ ObserverAfter(outcome)
      BY <1>6, <2>2 DEF NotificationRetries
    <3> DEFINE m == [Renewed(outcome) EXCEPT !.type = Pending.resp.type]
               r == [Pending EXCEPT !.resp = m, !.updatePending = FALSE]
    <3>2. m \in Message
      BY <1>1, RenewedType DEF Message
    <3>3. Retransmit(r, m)
      BY <3>1
    <3> HIDE DEF m
    <3>4. r \in Interactions /\ Keeps(Head(queue), r)
      BY <1>1, <3>2 DEF Keeps, Interactions, Interaction, WellFormed, MessageOrNull
    <3> HIDE DEF r
    <3> QED BY <1>1, <3>3, <3>4, RetransmitKeeps
  <2> QED BY <2>1, <2>2, <1>1 DEF Interactions, Interaction
<1>7. CASE NotificationRestarts
  <2>1. PICK outcome \in NotifierOutcomes :
          EnqueueHead([Pending EXCEPT !.state = "READY_TO_NOTIFY", !.retransCounter = 0,
                                      !.updatePending = FALSE, !.resConfirm = "NOT_SET",
                                      !.resp = Renewed(outcome)])
    BY <1>7 DEF NotificationRestarts
  <2> DEFINE r == [Pending EXCEPT !.state = "READY_TO_NOTIFY", !.retransCounter = 0,
                                  !.updatePending = FALSE, !.resConfirm = "NOT_SET",
                                  !.resp = Renewed(outcome)]
  <2>2. Keeps(Head(queue), r)
    BY <1>1 DEF Keeps, Interactions, Interaction
  <2>3. queue' = Append(Tail(queue), r)
    BY <2>1 DEF EnqueueHead
  <2> HIDE DEF r
  <2> QED BY <1>1, <2>2, <2>3, WaysToKeep
<1> QED
  BY <1>1, <1>3, <1>4, <1>5, <1>6, <1>7
     DEF handleNotifyInteraction, NotificationDone, NotificationRefused

\* The callback of the client at the head is the only one for its request.
LEMMA ReportedOnce ==
    ASSUME JobsInv, queue # <<>>, Head(queue).role = "CLIENT", Head(queue) \in Interactions,
           queue' = Tail(queue), NEW result \in {"response", "failed", "dropped"},
           \/ Callback(Head(queue).call, result)
           \/ calls' = [calls EXCEPT ![Head(queue).call] = result]
    PROVE  Distinct(queue') /\ CallsOK(queue', calls')
<1> DEFINE c == Head(queue).call
<1>1. c \in 1 .. MaxRequests
  BY DEF Interactions, WellFormed
<1>2. queue \in Seq(Interactions) /\ DOMAIN calls = 1 .. MaxRequests
  BY ServingType DEF JobsInv, TypeInv, TypeOK
<1>3. /\ Distinct(queue')
      /\ \A k \in DOMAIN queue' : ~SameJob(queue'[k], Head(queue))
      /\ \A n : Open(queue, n) <=> Open(queue', n) \/ c = n
  BY <1>2, TailJobs DEF JobsInv
<1>4. ~Open(queue', c)
  BY <1>3, LastOfItsJob
<1>5. calls[c] = "open" /\ \A n \in 1 .. MaxRequests :
                            calls[n] # "twice" /\ (calls[n] = "open" <=> Open(queue, n))
  BY <1>1, <1>3 DEF JobsInv, CallsOK
<1>6. calls'[c] = result /\ \A n \in 1 .. MaxRequests : n # c => calls'[n] = calls[n]
  BY <1>1, <1>2, <1>5 DEF Callback
<1>7. result # "open" /\ result # "twice"
  OBVIOUS
<1> HIDE DEF c
<1> QED BY <1>3, <1>4, <1>5, <1>6, <1>7 DEF CallsOK

LEMMA ClientJobs ==
    ASSUME JobsInv, queue # <<>>, handleClientInteraction
    PROVE  Distinct(queue') /\ CallsOK(queue', calls')
<1>1. TypeInv /\ Asking = Head(queue) /\ Asking \in Interactions
  BY ServingType DEF JobsInv, Asking
<1>2. Asking.role = "CLIENT"
  BY DEF handleClientInteraction, SendRequest, ClientWaits, ClientRetries, ClientGivesUp,
         HandleResponse, AwaitsResponse
<1>3. CASE SendRequest
  <2> DEFINE w == IF Asking.req.type = "CON" THEN WaitTime[0] ELSE Asking.ackLeft
             r == [Asking EXCEPT !.state = "WAITING_RESPONSE", !.reqAge = 0, !.ackLeft = w]
  <2>1. CASE Sent
    <3>1. Keeps(Head(queue), r)
      BY <1>1 DEF Keeps, Interactions, Interaction
    <3>2. queue' = Append(Tail(queue), r) /\ UNCHANGED calls
      BY <1>3, <2>1 DEF SendRequest, EnqueueHead
    <3> HIDE DEF r
    <3> QED BY <1>1, <3>1, <3>2, WaysToKeep, KeptJobs
  <2>2. CASE ~Sent
    <3>1. queue' = Tail(queue) /\ calls' = [calls EXCEPT ![Asking.call] = "dropped"]
      BY <1>3, <2>2 DEF SendRequest, DeleteHead
    <3> QED BY <1>1, <1>2, <3>1, ReportedOnce
  <2> QED BY <2>1, <2>2
<1>4. CASE ClientWaits
  <2>1. queue' = Append(Tail(queue), Asking) /\ UNCHANGED calls /\ Keeps(Head(queue), Asking)
    BY <1>1, <1>4 DEF ClientWaits, EnqueueHead, Keeps
  <2> QED BY <1>1, <2>1, WaysToKeep, KeptJobs
<1>5. CASE ClientRetries
  <2> DEFINE r == [Asking EXCEPT !.reqAge = 0]
  <2>1. r \in Interactions /\ Keeps(Head(queue), r)
    BY <1>1 DEF Keeps, Interactions, Interaction, WellFormed
  <2>2. /\ Retransmit(r, Asking.req)
        /\ IF Sent THEN UNCHANGED calls ELSE Callback(Asking.call, "failed")
    BY <1>5 DEF ClientRetries
  <2> HIDE DEF r
  <2>3. CASE Sent
    BY <1>1, <2>1, <2>2, <2>3, RetransmitKeeps, KeptJobs
  <2>4. CASE ~Sent
    <3>1. queue' = Tail(queue) /\ Callback(Asking.call, "failed")
      BY <2>2, <2>4 DEF Retransmit, DeleteHead
    <3> QED BY <1>1, <1>2, <3>1, ReportedOnce
  <2> QED BY <2>3, <2>4
<1>6. CASE ClientGivesUp
  BY <1>1, <1>2, <1>6, ReportedOnce DEF ClientGivesUp, DeleteHead
<1>7. CASE HandleResponse
  BY <1>1, <1>2, <1>7, ReportedOnce DEF HandleResponse, DeleteHead
<1> QED BY <1>3, <1>4, <1>5, <1>6, <1>7 DEF handleClientInteraction

\* The program starts again: requests that were open are lost.
LEMMA RestartJobs ==
    ASSUME JobsInv, Restart
    PROVE  Distinct(queue') /\ CallsOK(queue', calls')
<1>1. queue' = <<>> /\ \A n \in 1 .. MaxRequests :
          calls'[n] = IF calls[n] = "open" THEN "lost" ELSE calls[n]
  BY DEF Restart
<1> QED BY <1>1 DEF JobsInv, CallsOK, Distinct, Open

LEMMA DoWorkJobs ==
    ASSUME JobsInv, doWork
    PROVE  Distinct(queue') /\ CallsOK(queue', calls')
<1>1. queue # <<>> /\ TypeInv
  BY DEF doWork, JobsInv
<1>2. CASE Rotate
  <2>1. queue' = Append(Tail(queue), Head(queue)) /\ UNCHANGED calls
        /\ Keeps(Head(queue), Head(queue))
    BY <1>2 DEF Rotate, EnqueueHead, Keeps
  <2> QED BY <1>1, <2>1, WaysToKeep, KeptJobs
<1>3. CASE handleServerInteraction
  BY <1>1, <1>3, RestartJobs, ServerKeeps, KeptJobs
<1> QED BY <1>1, <1>2, <1>3, NotifyKeeps, KeptJobs, ClientJobs DEF doWork

-----------------------------------------------------------------------------
(* Packets, notifications, requests *)

\* A step that changes interactions without changing what they work on.
LEMMA SameJobs ==
    ASSUME JobsInv, DOMAIN queue' = DOMAIN queue,
           \A k \in DOMAIN queue : Keeps(queue[k], queue'[k]), UNCHANGED calls
    PROVE  Distinct(queue') /\ CallsOK(queue', calls')
BY PointwiseJobs DEF JobsInv, CallsOK

\* A step that appends an interaction, not of the client role, for a new job.
LEMMA NewJob ==
    ASSUME JobsInv, NEW q \in Seq(Interactions), DOMAIN q = DOMAIN queue,
           \A k \in DOMAIN queue : Keeps(queue[k], q[k]),
           NEW r, r.role # "CLIENT", \A k \in DOMAIN queue : ~SameJob(queue[k], r),
           queue' = Append(q, r), UNCHANGED calls
    PROVE  Distinct(queue') /\ CallsOK(queue', calls')
<1>1. /\ Distinct(q) /\ \A n : Open(queue, n) <=> Open(q, n)
      /\ \A k \in DOMAIN q : ~SameJob(q[k], r)
  BY PointwiseJobs DEF JobsInv
<1>2. q \in Seq(Interactions \cup {r}) /\ r \in Interactions \cup {r}
  BY SeqGrows
<1>3. Distinct(queue') /\ \A n : Open(queue', n) <=> Open(queue, n)
  BY <1>1, <1>2, AppendJobs
<1> QED BY <1>3 DEF JobsInv, CallsOK

LEMMA WokenKeeps ==
    ASSUME TypeInv, NEW d
    PROVE  \A k \in DOMAIN queue : Keeps(queue[k], Woken(d)[k])
<1>1. \A k \in DOMAIN queue : queue[k] \in Interactions
  BY WokenType
<1> QED BY <1>1 DEF Woken, Wakeup, Keeps, Interactions, Interaction

LEMMA PacketJobs ==
    ASSUME JobsInv, NEW d \in Datagrams, HandleIncomingPacket(d)
    PROVE  Distinct(queue') /\ CallsOK(queue', calls')
<1> DEFINE w == Woken(d)
<1>1. /\ TypeInv /\ w \in Seq(Interactions) /\ DOMAIN w = DOMAIN queue
      /\ queue \in Seq(Interactions)
      /\ \A k \in DOMAIN queue : Keeps(queue[k], w[k])
  BY WokenType, WokenKeeps DEF JobsInv
<1>2. UNCHANGED calls
  BY DEF HandleIncomingPacket, RxPing, RxIgnored, RxUnknownUri, RxCritical, RxReset, RxAck,
         RxRequest, RxSeparateResponse, RxUnexpectedResponse, StartNewServerInteraction,
         serverUnchanged, rxUnchanged
<1>3. \A k \in DOMAIN queue : /\ w[k] \in Interactions /\ Keeps(queue[k], queue[k])
                              /\ k \in DOMAIN w
  BY <1>1 DEF Keeps
<1> HIDE DEF w
<1>4. CASE queue' = queue \/ queue' = w
  <2>1. DOMAIN queue' = DOMAIN queue /\ \A k \in DOMAIN queue : Keeps(queue[k], queue'[k])
    BY <1>1, <1>3, <1>4
  <2> QED BY <1>2, <2>1, SameJobs
<1>5. CASE RxReset(d)
  <2>1. queue' = [k \in DOMAIN queue |->
                    IF k \in Found(d) THEN [w[k] EXCEPT !.resConfirm = "RST_SEND"] ELSE queue[k]]
    BY <1>5 DEF RxReset, w
  <2>2. \A k \in DOMAIN queue : Keeps(queue[k], [w[k] EXCEPT !.resConfirm = "RST_SEND"])
    BY <1>1, <1>3 DEF Keeps, Interactions, Interaction
  <2>3. DOMAIN queue' = DOMAIN queue /\ \A k \in DOMAIN queue : Keeps(queue[k], queue'[k])
    BY <1>3, <2>1, <2>2
  <2> QED BY <1>2, <2>3, SameJobs
<1>6. CASE RxAck(d)
  <2>1. queue' = [k \in DOMAIN queue |->
                    IF k \in Found(d) THEN Acknowledged(w[k], d.msg) ELSE queue[k]]
    BY <1>6 DEF RxAck, w
  <2>2. \A k \in DOMAIN queue : Keeps(queue[k], Acknowledged(w[k], d.msg))
    BY <1>1, <1>3 DEF Keeps, Acknowledged, Interactions, Interaction
  <2>3. DOMAIN queue' = DOMAIN queue /\ \A k \in DOMAIN queue : Keeps(queue[k], queue'[k])
    BY <1>3, <2>1, <2>2
  <2> QED BY <1>2, <2>3, SameJobs
<1>7. CASE RxRequest(d)
  <2>1. StartNewServerInteraction(d, w)
    BY <1>7 DEF RxRequest, w
  <2>2. CASE queue' = w
    BY <1>4, <2>2
  <2>3. CASE queue' # w
    <3> DEFINE n == [NewInteraction("SERVER", "HANDLE_REQUEST", d.ep) EXCEPT
                        !.res = d.uri, !.multicast = d.multicast, !.req = d.msg]
    <3>1. Duplicates(d.ep, d.msg) = {} /\ queue' = Append(w, n)
      BY <2>1, <2>3 DEF StartNewServerInteraction
    <3>2. n.role = "SERVER" /\ n.ep = d.ep /\ n.req = d.msg
      BY DEF NewInteraction
    <3> HIDE DEF n
    <3>3. \A k \in DOMAIN queue : ~SameJob(queue[k], n)
      <4> DEFINE T == {k \in DOMAIN queue : /\ queue[k].role = "SERVER"
                                            /\ queue[k].req.mid = d.msg.mid
                                            /\ queue[k].ep = d.ep}
      <4>1. T \subseteq Nat
        BY <1>1
      <4>2. First(T) = {}
        BY <3>1 DEF Duplicates
      <4>3. T = {}
        BY <4>1, <4>2, FirstExists
      <4> QED BY <3>2, <4>3 DEF SameJob
    <3> QED BY <1>1, <1>2, <3>1, <3>2, <3>3, NewJob
  <2> QED BY <2>2, <2>3
<1>8. CASE RxSeparateResponse(d)
  <2>1. PICK k \in Requested(d) :
          queue' = [w EXCEPT ![k] =
                      IF Sent THEN [Attached(w[k], d.msg) EXCEPT !.resConfirm = "ACK_SEND"]
                      ELSE Attached(w[k], d.msg)]
    BY <1>8 DEF RxSeparateResponse, w
  <2>2. k \in DOMAIN queue
    BY DEF Requested, First
  <2>3. /\ Keeps(queue[k], Attached(w[k], d.msg))
        /\ Keeps(queue[k], [Attached(w[k], d.msg) EXCEPT !.resConfirm = "ACK_SEND"])
    BY <1>1, <1>3, <2>2 DEF Keeps, Attached, Interactions, Interaction
  <2>4. DOMAIN queue' = DOMAIN queue /\ \A j \in DOMAIN queue : Keeps(queue[j], queue'[j])
    BY <1>1, <1>3, <2>1, <2>2, <2>3
  <2> QED BY <1>2, <2>4, SameJobs
<1> QED
  BY <1>4, <1>5, <1>6, <1>7, <1>8
     DEF HandleIncomingPacket, RxPing, RxIgnored, RxUnknownUri, RxCritical, RxUnexpectedResponse, w

LEMMA StartNotifyJobs ==
    ASSUME JobsInv, StartNotifyInteractions
    PROVE  Distinct(queue') /\ CallsOK(queue', calls')
<1>1. TypeInv /\ queue \in Seq(Interactions)
  BY QueueType DEF JobsInv, TypeInv
<1>2. CASE Restart
  BY <1>2, RestartJobs
<1>3. CASE UNCHANGED <<queue, calls>>
  BY <1>3 DEF JobsInv
<1>4. CASE MarkOngoing
  <2>1. PICK k \in Ongoing : queue' = [queue EXCEPT ![k] = Wakeup([@ EXCEPT !.updatePending = TRUE])]
    BY <1>4 DEF MarkOngoing
  <2>2. k \in DOMAIN queue /\ queue[k] \in Interactions
    BY <1>1 DEF Ongoing, First
  <2>3. \A j \in DOMAIN queue : Keeps(queue[j], queue[j])
    BY DEF Keeps
  <2>4. Keeps(queue[k], Wakeup([queue[k] EXCEPT !.updatePending = TRUE]))
    BY <2>2 DEF Keeps, Wakeup, Interactions, Interaction
  <2>5. DOMAIN queue' = DOMAIN queue /\ \A j \in DOMAIN queue : Keeps(queue[j], queue'[j])
    BY <2>1, <2>2, <2>3, <2>4
  <2> QED BY <1>4, <2>5, SameJobs DEF MarkOngoing, notifyUnchanged
<1>5. CASE StartNotification
  <2>1. PICK outcome \in NotifierOutcomes \cap {"ok", "non"} :
          queue' = Append(queue,
            [NewInteraction("NOTIFICATION", "READY_TO_NOTIFY", ThisObserver.ep) EXCEPT
                !.res = loop.res, !.pObserver = ThisObserver.oid,
                !.resp = [CreateMessage(NotificationType(outcome), "2.05", NextMid(mid), ThisObserver.token)
                            EXCEPT !.observe = updateCnt[loop.res],
                                   !.version = updateCnt[loop.res]]])
    BY <1>5 DEF StartNotification
  <2> DEFINE m == [CreateMessage(NotificationType(outcome), "2.05", NextMid(mid), ThisObserver.token)
                            EXCEPT !.observe = updateCnt[loop.res],
                                   !.version = updateCnt[loop.res]]
             n == [NewInteraction("NOTIFICATION", "READY_TO_NOTIFY", ThisObserver.ep) EXCEPT
                      !.res = loop.res, !.pObserver = ThisObserver.oid, !.resp = m]
  <2>2. queue' = Append(queue, n)
    BY <2>1
  <2> HIDE DEF m
  <2>3. n.role = "NOTIFICATION" /\ n.res = loop.res /\ n.ep = ThisObserver.ep
    BY DEF NewInteraction
  <2> HIDE DEF n
  <2>4. \A k \in DOMAIN queue : ~SameJob(queue[k], n)
    <3> DEFINE T == {k \in DOMAIN queue : /\ queue[k].role = "NOTIFICATION"
                                          /\ queue[k].res = loop.res
                                          /\ queue[k].ep = ThisObserver.ep}
    <3>1. T \subseteq Nat
      BY <1>1
    <3>2. First(T) = {}
      BY <1>5 DEF StartNotification, StartsNotification, Ongoing
    <3>3. T = {}
      BY <3>1, <3>2, FirstExists
    <3> QED BY <2>3, <3>3 DEF SameJob
  <2>5. \A k \in DOMAIN queue : Keeps(queue[k], queue[k])
    BY DEF Keeps
  <2>6. UNCHANGED calls
    BY <1>5 DEF StartNotification, notifyUnchanged
  <2> QED BY <1>1, <2>2, <2>3, <2>4, <2>5, <2>6, NewJob
<1> QED
  BY <1>2, <1>3, <1>4, <1>5
     DEF StartNotifyInteractions, NotifyOutOfMemory, NotifierFails, NotifierReturnsErrorCode,
         notifyUnchanged

LEMMA StartRequestJobs ==
    ASSUME JobsInv, NEW ep \in Eps, NEW type \in RequestTypes, StartNewRequest(ep, type)
    PROVE  Distinct(queue') /\ CallsOK(queue', calls')
<1>1. TypeInv /\ queue \in Seq(Interactions) /\ DOMAIN calls = 1 .. MaxRequests
  BY QueueType DEF JobsInv, TypeInv, TypeOK
<1>2. PICK n \in First(FreshCalls) :
        IF OutOfMemory
        THEN UNCHANGED <<queue, calls>>
        ELSE /\ queue' = Append(queue,
                    [NewInteraction("CLIENT", "READY_TO_REQUEST", ep) EXCEPT
                        !.req = CreateMessage(type, "GET", NextMid(mid), NextToken(tok)),
                        !.call = n])
             /\ calls' = [calls EXCEPT ![n] = "open"]
  BY DEF StartNewRequest
<1>3. n \in 1 .. MaxRequests /\ calls[n] = "idle"
  BY DEF First, FreshCalls
<1>4. CASE OutOfMemory
  BY <1>2, <1>4 DEF JobsInv
<1>5. CASE ~OutOfMemory
  <2> DEFINE r == [NewInteraction("CLIENT", "READY_TO_REQUEST", ep) EXCEPT
                      !.req = CreateMessage(type, "GET", NextMid(mid), NextToken(tok)),
                      !.call = n]
  <2>1. queue' = Append(queue, r) /\ calls' = [calls EXCEPT ![n] = "open"]
    BY <1>2, <1>5
  <2>2. r.role = "CLIENT" /\ r.call = n
    BY DEF NewInteraction
  <2> HIDE DEF r
  <2>3. ~Open(queue, n)
    BY <1>3 DEF JobsInv, CallsOK
  <2>4. \A k \in DOMAIN queue : ~SameJob(queue[k], r)
    BY <2>2, <2>3 DEF SameJob, Open
  <2>5. queue \in Seq(Interactions \cup {r}) /\ r \in Interactions \cup {r}
    BY <1>1, SeqGrows
  <2>6. Distinct(queue') /\ \A i : Open(queue', i) <=> Open(queue, i) \/ n = i
    BY <2>1, <2>2, <2>4, <2>5, AppendJobs DEF JobsInv
  <2>7. \A i \in 1 .. MaxRequests : calls'[i] = IF i = n THEN "open" ELSE calls[i]
    BY <1>1, <2>1
  <2> QED BY <2>6, <2>7 DEF JobsInv, CallsOK
<1> QED BY <1>4, <1>5

LEMMA TickJobs ==
    ASSUME JobsInv, Tick
    PROVE  Distinct(queue') /\ CallsOK(queue', calls')
<1>1. queue \in Seq(Interactions)
  BY QueueType DEF JobsInv, TypeInv
<1>2. DOMAIN queue' = DOMAIN queue
      /\ \A k \in DOMAIN queue : queue'[k] = OneSecondOlder(queue[k])
  BY DEF Tick
<1>3. \A k \in DOMAIN queue : Keeps(queue[k], OneSecondOlder(queue[k]))
  BY <1>1 DEF Keeps, OneSecondOlder, Interactions, Interaction
<1> QED BY <1>2, <1>3, SameJobs DEF Tick

LEMMA ClearJobs ==
    ASSUME JobsInv, ClearPendingInteractions
    PROVE  Distinct(queue') /\ CallsOK(queue', calls')
<1>1. queue' = <<>> /\ \A n \in 1 .. MaxRequests :
          calls'[n] = IF calls[n] = "open" THEN "cleared" ELSE calls[n]
  BY DEF ClearPendingInteractions, JobsInv, TypeInv, TypeOK
<1> QED BY <1>1 DEF JobsInv, CallsOK, Distinct, Open

-----------------------------------------------------------------------------

LEMMA InitJobs == Init => JobsInv
<1> SUFFICES ASSUME Init PROVE JobsInv
  OBVIOUS
<1>1. Distinct(queue) /\ CallsOK(queue, calls)
  BY DEF Init, Distinct, CallsOK, Open
<1> QED BY <1>1, InitType DEF JobsInv

LEMMA NextJobs == JobsInv /\ [Next]_vars => JobsInv'
<1> SUFFICES ASSUME JobsInv, [Next]_vars PROVE JobsInv'
  OBVIOUS
<1>1. TypeInv'
  BY NextType DEF JobsInv
<1>2. CASE \E d \in Datagrams : HandleIncomingPacket(d)
  BY <1>1, <1>2, PacketJobs DEF JobsInv
<1>3. CASE doWork
  BY <1>1, <1>3, DoWorkJobs DEF JobsInv
<1>4. CASE (\E r \in Res : NotifyResourceObservers(r)) \/ UNCHANGED vars
  BY <1>1, <1>4 DEF JobsInv, NotifyResourceObservers, notifyUnchanged, vars
<1>5. CASE StartNotifyInteractions
  BY <1>1, <1>5, StartNotifyJobs DEF JobsInv
<1>6. CASE \E ep \in Eps, type \in RequestTypes : StartNewRequest(ep, type)
  BY <1>1, <1>6, StartRequestJobs DEF JobsInv
<1>7. CASE ClearPendingInteractions
  BY <1>1, <1>7, ClearJobs DEF JobsInv
<1>8. CASE Tick
  BY <1>1, <1>8, TickJobs DEF JobsInv
<1> QED BY <1>2, <1>3, <1>4, <1>5, <1>6, <1>7, <1>8 DEF Next

LEMMA JobsInvariant == Spec => []JobsInv
BY InitJobs, NextJobs, PTL DEF Spec

\* However often and between whatever other events a client repeats a request,
\* at most one interaction handles it.
THEOREM RequestsHandledOnce == Spec => []OneInteractionPerRequest
<1>1. JobsInv => OneInteractionPerRequest
  BY DEF JobsInv, Distinct, SameJob, OneInteractionPerRequest
<1> QED BY <1>1, JobsInvariant, PTL

\* However often a resource changes, an observer of it has at most one
\* notification under way.
THEOREM ObserversNotifiedOnce == Spec => []OneNotificationPerObserver
<1>1. JobsInv => OneNotificationPerObserver
  BY DEF JobsInv, Distinct, SameJob, OneNotificationPerObserver
<1> QED BY <1>1, JobsInvariant, PTL

\* A request of the application that is still to be reported has exactly one
\* interaction that will, and one that was reported has none.
THEOREM CallbacksOnce == Spec => []OneCallbackPerRequest
<1>1. JobsInv => OneCallbackPerRequest
  BY DEF JobsInv, Distinct, SameJob, CallsOK, Open, Clients, OneCallbackPerRequest
<1> QED BY <1>1, JobsInvariant, PTL

-----------------------------------------------------------------------------
(***************************************************************************)
(* The stack implements CoapRequests: whatever packets arrive and however  *)
(* its interactions are served, each request takes the steps written down  *)
(* there and no other.                                                     *)
(*                                                                         *)
(* The stage of a request is read off its interaction.  JobsInv says that  *)
(* there is one as long as the request is open, so a step moves the stage  *)
(* of the one request it serves, of all that are open, or of none.         *)
(***************************************************************************)

\* r works on the n-th request and is in state s.
Is(r, n, s) == r.role = "CLIENT" /\ r.call = n /\ r.state = s

\* The n-th request has an interaction in state s.
At(q, n, s) == \E k \in DOMAIN q : Is(q[k], n, s)

\* The stage of a request whose interaction is in state s.
StageOf(s) ==
    IF s = "HANDLE_RESPONSE" THEN "answered"
    ELSE IF s = "WAITING_RESPONSE" THEN "asked" ELSE "accepted"

-----------------------------------------------------------------------------
(* The states of the requests in a list *)

LEMMA AppendAt ==
    ASSUME NEW S, NEW q \in Seq(S), NEW r \in S
    PROVE  \A n, s : At(Append(q, r), n, s) <=> At(q, n, s) \/ Is(r, n, s)
<1> DEFINE a == Append(q, r)
<1>1. /\ DOMAIN q = 1 .. Len(q) /\ DOMAIN a = 1 .. Len(q) + 1 /\ Len(q) \in Nat
      /\ \A k \in DOMAIN q : a[k] = q[k]
      /\ a[Len(q) + 1] = r
  OBVIOUS
<1> HIDE DEF a
<1>2. /\ \A k \in DOMAIN a : k \in DOMAIN q \/ k = Len(q) + 1
      /\ \A k \in DOMAIN q : k \in DOMAIN a
      /\ Len(q) + 1 \in DOMAIN a
  BY <1>1
<1>3. \A n, s : At(a, n, s) <=> At(q, n, s) \/ Is(r, n, s)
  BY <1>1, <1>2 DEF At
<1> QED BY <1>3 DEF a

LEMMA TailAt ==
    ASSUME NEW S, NEW q \in Seq(S), q # <<>>
    PROVE  \A n, s : At(q, n, s) <=> At(Tail(q), n, s) \/ Is(Head(q), n, s)
<1> DEFINE t == Tail(q)
<1>1. /\ DOMAIN q = 1 .. Len(q) /\ DOMAIN t = 1 .. Len(q) - 1 /\ Len(q) \in Nat \ {0}
      /\ \A k \in DOMAIN t : t[k] = q[k + 1]
      /\ Head(q) = q[1]
  OBVIOUS
<1> HIDE DEF t
<1>2. \A k \in DOMAIN t : k + 1 \in DOMAIN q
  BY <1>1
<1>3. 1 \in DOMAIN q /\ \A k \in DOMAIN q : k = 1 \/ (k - 1 \in DOMAIN t /\ q[k] = t[k - 1])
  BY <1>1
<1>4. \A n, s : At(q, n, s) <=> At(t, n, s) \/ Is(Head(q), n, s)
  BY <1>1, <1>2, <1>3 DEF At
<1> QED BY <1>4 DEF t

LEMMA WithoutAt ==
    ASSUME NEW S, NEW q \in Seq(S), NEW ks \in SUBSET DOMAIN q,
           \A k \in ks : q[k].role # "CLIENT"
    PROVE  \A n, s : At(Without(q, ks), n, s) <=> At(q, n, s)
<1>1. CASE ks = {}
  BY <1>1 DEF Without
<1>2. CASE ks # {}
  <2> DEFINE w == Without(q, ks)
  <2>1. PICK i \in ks : \E old : Without1(w, q, i, old)
    BY <1>2, WithoutMap
  <2>2. PICK old : Without1(w, q, i, old)
    BY <2>1
  <2>3. q[i].role # "CLIENT"
    OBVIOUS
  <2> HIDE DEF w
  <2>4. \A n, s : At(w, n, s) <=> At(q, n, s)
    BY <2>2, <2>3 DEF At, Is, Without1
  <2> QED BY <2>4 DEF w
<1> QED BY <1>1, <1>2

\* No other interaction works on the request of the head.
LEMMA HeadAt ==
    ASSUME JobsInv, queue # <<>>, Head(queue).role = "CLIENT"
    PROVE  /\ Head(queue).call \in 1 .. MaxRequests
           /\ calls[Head(queue).call] = "open"
           /\ At(queue, Head(queue).call, Head(queue).state)
           /\ \A s : ~At(Tail(queue), Head(queue).call, s)
<1>1. queue \in Seq(Interactions) /\ Head(queue) \in Interactions
  BY ServingType DEF JobsInv
<1>2. Head(queue).call \in 1 .. MaxRequests
  BY <1>1 DEF Interactions, WellFormed
<1>3. Open(queue, Head(queue).call)
  BY <1>1, TailJobs
<1>4. \A k \in DOMAIN Tail(queue) : ~SameJob(Tail(queue)[k], Head(queue))
  BY <1>1, TailJobs DEF JobsInv
<1>5. \A s : ~At(Tail(queue), Head(queue).call, s)
  BY <1>4 DEF At, Is, SameJob
<1>6. At(queue, Head(queue).call, Head(queue).state)
  BY <1>1, TailAt DEF Is
<1> QED BY <1>2, <1>3, <1>5, <1>6 DEF JobsInv, CallsOK

-----------------------------------------------------------------------------
(* Stages *)

LEMMA StageIs ==
    \A n \in 1 .. MaxRequests :
        Stage[n] = IF calls[n] # "open" THEN calls[n]
                   ELSE IF At(queue, n, "HANDLE_RESPONSE") THEN "answered"
                   ELSE IF At(queue, n, "WAITING_RESPONSE") THEN "asked"
                   ELSE "accepted"
BY DEF Stage, Clients, At, Is

LEMMA StageIsThen ==
    \A n \in 1 .. MaxRequests :
        Stage'[n] = IF calls'[n] # "open" THEN calls'[n]
                    ELSE IF At(queue', n, "HANDLE_RESPONSE") THEN "answered"
                    ELSE IF At(queue', n, "WAITING_RESPONSE") THEN "asked"
                    ELSE "accepted"
BY DEF Stage, Clients, At, Is

LEMMA StageDomain ==
    /\ Stage = [n \in 1 .. MaxRequests |-> Stage[n]]
    /\ Stage' = [n \in 1 .. MaxRequests |-> Stage'[n]]
BY DEF Stage

\* A step that changes the state of no request.
LEMMA Stutters ==
    ASSUME UNCHANGED calls, \A n, s : At(queue', n, s) <=> At(queue, n, s)
    PROVE  UNCHANGED Stage
<1>1. \A n \in 1 .. MaxRequests : Stage'[n] = Stage[n]
  BY StageIs, StageIsThen
<1> QED BY <1>1, StageDomain

\* A step that changes the state of one request.
LEMMA Moves ==
    ASSUME NEW n \in 1 .. MaxRequests,
           \A i \in 1 .. MaxRequests : i # n => calls'[i] = calls[i],
           \A i, s : i # n => (At(queue', i, s) <=> At(queue, i, s))
    PROVE  Stage' = [Stage EXCEPT ![n] = Stage'[n]]
<1>1. \A i \in 1 .. MaxRequests : i # n => Stage'[i] = Stage[i]
  BY StageIs, StageIsThen
<1> QED BY <1>1, StageDomain

\* The steps of CoapRequests that concern one request and need no guard.
Moving == {<<"accepted", "asked">>, <<"accepted", "dropped">>, <<"asked", "answered">>,
           <<"asked", "failed">>, <<"answered", "response">>}

LEMMA MovesOn ==
    ASSUME NEW n \in 1 .. MaxRequests, NEW a, NEW b, <<a, b>> \in Moving,
           Stage[n] = a, Stage' = [Stage EXCEPT ![n] = b]
    PROVE  AbstractRequests!Next
<1>1. AbstractRequests!Advance(n, a, b)
  BY DEF AbstractRequests!Advance
<1>2. \/ AbstractRequests!Ask(n) \/ AbstractRequests!Drop(n) \/ AbstractRequests!Answer(n)
      \/ AbstractRequests!GiveUp(n) \/ AbstractRequests!Report(n)
  BY <1>1 DEF Moving, AbstractRequests!Ask, AbstractRequests!Drop, AbstractRequests!Answer,
              AbstractRequests!GiveUp, AbstractRequests!Report
<1> QED BY <1>2 DEF AbstractRequests!Next

-----------------------------------------------------------------------------
(* doWork *)

\* The interaction of another role that is served leaves the stages alone.
LEMMA OthersStutter ==
    ASSUME JobsInv, queue # <<>>, Head(queue).role # "CLIENT", JobKept(queue'), UNCHANGED calls
    PROVE  UNCHANGED Stage
<1>1. PICK r, ks :
        /\ Keeps(Head(queue), r) /\ Deletable(ks)
        /\ \/ queue' = Append(Others(ks), r)
           \/ queue' = [queue EXCEPT ![1] = r]
           \/ queue' = Others(ks)
  BY DEF JobKept
<1>2. queue \in Seq(Interactions) /\ Tail(queue) \in Seq(Interactions) /\ Head(queue) = queue[1]
  BY ServingType DEF JobsInv
<1>3. /\ Others(ks) \in Seq(Interactions)
      /\ \A n, s : At(Others(ks), n, s) <=> At(queue, n, s)
  <2>1. ks \in SUBSET DOMAIN Tail(queue) /\ \A k \in ks : Tail(queue)[k].role # "CLIENT"
    BY <1>1 DEF Deletable
  <2>2. /\ Others(ks) \in Seq(Interactions)
        /\ \A n, s : At(Others(ks), n, s) <=> At(Tail(queue), n, s)
    BY <1>2, <2>1, WithoutType, WithoutAt DEF Others
  <2>3. \A n, s : At(queue, n, s) <=> At(Tail(queue), n, s)
    BY <1>2, TailAt DEF Is
  <2> QED BY <2>2, <2>3
<1>4. \A n, s : ~Is(r, n, s)
  BY <1>1 DEF Is, Keeps
<1>5. CASE queue' = Append(Others(ks), r)
  <2>1. Others(ks) \in Seq(Interactions \cup {r}) /\ r \in Interactions \cup {r}
    BY <1>3, SeqGrows
  <2>2. \A n, s : At(queue', n, s) <=> At(queue, n, s)
    BY <1>3, <1>4, <1>5, <2>1, AppendAt
  <2> QED BY <2>2, Stutters
<1>6. CASE queue' = [queue EXCEPT ![1] = r]
  <2>1. DOMAIN queue' = DOMAIN queue /\ 1 \in DOMAIN queue /\ queue'[1] = r
        /\ \A k \in DOMAIN queue : k # 1 => queue'[k] = queue[k]
    BY <1>2, <1>6
  <2>2. \A n, s : At(queue', n, s) <=> At(queue, n, s)
    BY <1>2, <1>4, <2>1 DEF At, Is
  <2> QED BY <2>2, Stutters
<1>7. CASE queue' = Others(ks)
  BY <1>3, <1>7, Stutters
<1> QED BY <1>1, <1>5, <1>6, <1>7

\* The interaction of a request is served and stays in the list.
LEMMA ServedAt ==
    ASSUME JobsInv, queue # <<>>, Head(queue).role = "CLIENT", NEW r, Keeps(Head(queue), r),
           queue' = Append(Tail(queue), r) \/ queue' = [queue EXCEPT ![1] = r]
    PROVE  /\ \A i, s : i # Head(queue).call => (At(queue', i, s) <=> At(queue, i, s))
           /\ \A s : At(queue, Head(queue).call, s) <=> s = Head(queue).state
           /\ \A s : At(queue', Head(queue).call, s) <=> s = r.state
<1>1. queue \in Seq(Interactions) /\ Tail(queue) \in Seq(Interactions) /\ Head(queue) = queue[1]
  BY ServingType DEF JobsInv
<1>2. /\ \A n, s : At(queue, n, s) <=> At(Tail(queue), n, s) \/ Is(Head(queue), n, s)
      /\ \A s : ~At(Tail(queue), Head(queue).call, s)
  BY <1>1, TailAt, HeadAt
<1>3. \A n, s : At(queue', n, s) <=> At(Tail(queue), n, s) \/ Is(r, n, s)
  <2>1. CASE queue' = Append(Tail(queue), r)
    <3>1. Tail(queue) \in Seq(Interactions \cup {r}) /\ r \in Interactions \cup {r}
      BY <1>1, SeqGrows
    <3> QED BY <2>1, <3>1, AppendAt
  <2>2. CASE queue' = [queue EXCEPT ![1] = r]
    <3>1. queue' \in Seq(Interactions \cup {r}) /\ queue' # <<>>
          /\ Head(queue') = r /\ Tail(queue') = Tail(queue)
      <4>1. queue \in Seq(Interactions \cup {r}) /\ r \in Interactions \cup {r}
        BY <1>1, SeqGrows
      <4>2. queue' \in Seq(Interactions \cup {r}) /\ Len(queue') = Len(queue) /\ Len(queue) > 0
            /\ \A k \in 2 .. Len(queue) : queue'[k] = queue[k]
        BY <2>2, <4>1
      <4>3. queue'[1] = r
        BY <2>2, <4>1, <4>2
      <4> QED BY <4>1, <4>2, <4>3
    <3> QED BY <3>1, TailAt
  <2> QED BY <2>1, <2>2
<1> QED BY <1>2, <1>3 DEF Is, Keeps

\* It is served and ends.
LEMMA EndedAt ==
    ASSUME JobsInv, queue # <<>>, Head(queue).role = "CLIENT", queue' = Tail(queue)
    PROVE  \A i, s : i # Head(queue).call => (At(queue', i, s) <=> At(queue, i, s))
<1>1. queue \in Seq(Interactions)
  BY ServingType DEF JobsInv
<1> QED BY <1>1, TailAt DEF Is

LEMMA ClientRefines ==
    ASSUME JobsInv, queue # <<>>, handleClientInteraction
    PROVE  AbstractRequests!Next
<1> DEFINE n == Asking.call
<1>1. /\ Asking = Head(queue) /\ Asking \in Interactions /\ Asking.role = "CLIENT"
      /\ Keeps(Head(queue), Asking)
  <2>1. Asking = Head(queue) /\ Asking \in Interactions
    BY ServingType DEF Asking, JobsInv
  <2>2. Asking.role = "CLIENT"
    BY DEF handleClientInteraction, SendRequest, ClientWaits, ClientRetries, ClientGivesUp,
           HandleResponse, AwaitsResponse
  <2> QED BY <2>1, <2>2 DEF Keeps
<1>2. /\ n \in 1 .. MaxRequests /\ calls[n] = "open" /\ DOMAIN calls = 1 .. MaxRequests
      /\ At(queue, n, Asking.state)
  BY <1>1, HeadAt DEF JobsInv, TypeInv, TypeOK
<1> HIDE DEF n
<1>3. UNCHANGED Stage => AbstractRequests!Next
  BY DEF AbstractRequests!Next
<1>4. ASSUME NEW r, Keeps(Head(queue), r), UNCHANGED calls,
             queue' = Append(Tail(queue), r) \/ queue' = [queue EXCEPT ![1] = r],
             \/ r.state = Asking.state
             \/ Asking.state = "READY_TO_REQUEST" /\ r.state = "WAITING_RESPONSE"
      PROVE  AbstractRequests!Next
  <2>1. /\ \A i, s : i # n => (At(queue', i, s) <=> At(queue, i, s))
        /\ \A s : At(queue, n, s) <=> s = Asking.state
        /\ \A s : At(queue', n, s) <=> s = r.state
    BY <1>1, <1>4, ServedAt DEF n
  <2>2. CASE r.state = Asking.state
    <3>1. \A i, s : At(queue', i, s) <=> At(queue, i, s)
      BY <2>1, <2>2
    <3> QED BY <1>3, <1>4, <3>1, Stutters
  <2>3. CASE Asking.state = "READY_TO_REQUEST" /\ r.state = "WAITING_RESPONSE"
    <3>1. Stage[n] = "accepted" /\ Stage'[n] = "asked"
      BY <1>2, <1>4, <2>1, <2>3, StageIs, StageIsThen
    <3>2. Stage' = [Stage EXCEPT ![n] = "asked"]
      BY <1>2, <1>4, <2>1, <3>1, Moves
    <3>3. <<"accepted", "asked">> \in Moving
      BY DEF Moving
    <3> QED BY <1>2, <3>1, <3>2, <3>3, MovesOn
  <2> QED BY <1>4, <2>2, <2>3
<1>5. ASSUME queue' = Tail(queue), NEW c, c # "open", calls' = [calls EXCEPT ![n] = c],
             <<StageOf(Asking.state), c>> \in Moving
      PROVE  AbstractRequests!Next
  <2>1. Stage'[n] = c
    BY <1>2, <1>5, StageIsThen
  <2>2. Stage[n] = StageOf(Asking.state)
    <3>1. queue \in Seq(Interactions)
      BY ServingType DEF JobsInv
    <3>2. \A s : At(queue, n, s) <=> s = Asking.state
      BY <1>1, <3>1, TailAt, HeadAt DEF Is, n
    <3> QED BY <1>2, <3>2, StageIs DEF StageOf
  <2>3. Stage' = [Stage EXCEPT ![n] = c]
    BY <1>1, <1>2, <1>5, <2>1, EndedAt, Moves DEF n
  <2> QED BY <1>2, <1>5, <2>2, <2>3, MovesOn
<1>6. \A c : Callback(n, c) => calls' = [calls EXCEPT ![n] = c]
  BY <1>2 DEF Callback
<1>7. CASE SendRequest
  <2>1. CASE Sent
    <3> DEFINE r == [Asking EXCEPT !.state = "WAITING_RESPONSE", !.reqAge = 0,
                        !.ackLeft = IF Asking.req.type = "CON" THEN WaitTime[0] ELSE @]
    <3>1. /\ queue' = Append(Tail(queue), r) /\ UNCHANGED calls
          /\ Asking.state = "READY_TO_REQUEST"
      BY <1>7, <2>1 DEF SendRequest, EnqueueHead
    <3>2. Keeps(Head(queue), r) /\ r.state = "WAITING_RESPONSE"
      BY <1>1 DEF Keeps, Interactions, Interaction
    <3> HIDE DEF r
    <3> QED BY <1>4, <3>1, <3>2
  <2>2. CASE ~Sent
    <3>1. /\ queue' = Tail(queue) /\ calls' = [calls EXCEPT ![n] = "dropped"]
          /\ Asking.state = "READY_TO_REQUEST"
      BY <1>7, <2>2 DEF SendRequest, DeleteHead, n
    <3> QED BY <1>5, <3>1 DEF Moving, StageOf
  <2> QED BY <2>1, <2>2
<1>8. CASE ClientWaits
  BY <1>1, <1>4, <1>8 DEF ClientWaits, EnqueueHead
<1>9. CASE ClientRetries
  <2> DEFINE r == [Asking EXCEPT !.reqAge = 0]
             s == EnableAckTimeout([r EXCEPT !.retransCounter = @ + 1])
  <2>1. /\ Keeps(Head(queue), s) /\ s.state = Asking.state
    BY <1>1 DEF Keeps, Interactions, Interaction, EnableAckTimeout
  <2>2. /\ IF Sent THEN queue' = [queue EXCEPT ![1] = s] ELSE queue' = Tail(queue)
        /\ IF Sent THEN UNCHANGED calls ELSE Callback(n, "failed")
        /\ Asking.state = "WAITING_RESPONSE"
    BY <1>9 DEF ClientRetries, Retransmit, UpdateHead, DeleteHead, AwaitsResponse, n
  <2> HIDE DEF s
  <2> QED BY <1>4, <1>5, <1>6, <2>1, <2>2 DEF Moving, StageOf
<1>10. CASE ClientGivesUp
  BY <1>5, <1>6, <1>10 DEF ClientGivesUp, DeleteHead, AwaitsResponse, Moving, StageOf, n
<1>11. CASE HandleResponse
  BY <1>5, <1>6, <1>11 DEF HandleResponse, DeleteHead, Moving, StageOf, n
<1> QED BY <1>7, <1>8, <1>9, <1>10, <1>11 DEF handleClientInteraction

\* All requests that are open end.
LEMMA EndRefines ==
    ASSUME JobsInv, NEW how \in {"cleared", "lost"},
           \A n \in 1 .. MaxRequests : calls'[n] = IF calls[n] = "open" THEN how ELSE calls[n]
    PROVE  AbstractRequests!Next
<1>1. \A n \in 1 .. MaxRequests : calls[n] \in CallResults
  BY DEF JobsInv, TypeInv, TypeOK
<1>2. \A n \in 1 .. MaxRequests : n \in AbstractRequests!Pending <=> calls[n] = "open"
  BY <1>1, StageIs DEF AbstractRequests!Pending, CallResults
<1>3. \A n \in 1 .. MaxRequests : calls'[n] # "open"
  OBVIOUS
<1>4. \A n \in 1 .. MaxRequests :
        Stage'[n] = IF n \in AbstractRequests!Pending THEN how ELSE Stage[n]
  BY <1>2, <1>3, StageIs, StageIsThen
<1>5. Stage' = [n \in 1 .. MaxRequests |->
                   IF n \in AbstractRequests!Pending THEN how ELSE Stage[n]]
  BY <1>4, StageDomain
<1>6. AbstractRequests!End(how)
  BY <1>5 DEF AbstractRequests!End
<1> QED BY <1>6 DEF AbstractRequests!Next

LEMMA RestartRefines ==
    ASSUME JobsInv, Restart
    PROVE  [AbstractRequests!Next]_Stage
<1>1. \A n \in 1 .. MaxRequests : calls'[n] = IF calls[n] = "open" THEN "lost" ELSE calls[n]
  BY DEF Restart
<1> QED BY <1>1, EndRefines

LEMMA DoWorkRefines ==
    ASSUME JobsInv, doWork
    PROVE  [AbstractRequests!Next]_Stage
<1>1. queue # <<>> /\ TypeInv
  BY DEF doWork, JobsInv
<1>2. CASE Rotate
  <2>1. /\ queue' = Append(Tail(queue), Head(queue)) /\ UNCHANGED calls
        /\ Keeps(Head(queue), Head(queue))
    BY <1>2 DEF Rotate, EnqueueHead, Keeps
  <2>2. queue \in Seq(Interactions) /\ Tail(queue) \in Seq(Interactions)
        /\ Head(queue) \in Interactions
    BY <1>1, ServingType
  <2>3. \A n, s : At(queue', n, s) <=> At(queue, n, s)
    BY <1>1, <2>1, <2>2, TailAt, AppendAt
  <2> QED BY <2>1, <2>3, Stutters
<1>3. CASE handleServerInteraction
  <2>1. Head(queue).role = "SERVER"
    BY <1>3 DEF handleServerInteraction, ServeMulticastCon, ServeMulticastWait,
           ServeMethodNotAllowed, ServeNullAnswer, ServeDrop, ServePostponeAck,
           ServePostponeAgain, ServeAnswer, ServerWaitsForAck, ServerRetries, ServerDone,
           ReadyForHandler, AwaitsHandler, AnswerSent, Serving
  <2>2. CASE Restart
    BY <2>2, RestartRefines
  <2>3. CASE ~Restart
    BY <1>1, <1>3, <2>1, <2>3, ServerKeeps, OthersStutter
  <2> QED BY <2>2, <2>3
<1>4. CASE handleNotifyInteraction
  <2>1. Head(queue).role = "NOTIFICATION"
    BY <1>4 DEF handleNotifyInteraction, SendNotification, NotificationWaits,
           NotificationRetries, NotificationRestarts, NotificationDone, NotificationRefused,
           NotificationSent, Pending
  <2> QED BY <1>1, <1>4, <2>1, NotifyKeeps, OthersStutter
<1> QED BY <1>1, <1>2, <1>3, <1>4, ClientRefines DEF doWork

-----------------------------------------------------------------------------
(* Packets, notifications, requests *)

\* A step that changes interactions without changing what they work on, and
\* whose states only change in that a request that waits for its response gets
\* it, and that at most in one.
LEMMA AnsweredRefines ==
    ASSUME JobsInv, UNCHANGED calls, DOMAIN queue' = DOMAIN queue,
           \A k \in DOMAIN queue : Keeps(queue[k], queue'[k]), NEW i,
           \A k \in DOMAIN queue :
               \/ queue'[k].state = queue[k].state
               \/ queue[k].role # "CLIENT"
               \/ /\ k = i /\ queue[k].state = "WAITING_RESPONSE"
                  /\ queue'[k].state = "HANDLE_RESPONSE"
    PROVE  [AbstractRequests!Next]_Stage
<1>1. CASE \A k \in DOMAIN queue :
             queue[k].role = "CLIENT" => queue'[k].state = queue[k].state
  <2>1. \A n, s : At(queue', n, s) <=> At(queue, n, s)
    BY <1>1 DEF At, Is, Keeps
  <2> QED BY <2>1, Stutters
<1>2. CASE ~ \A k \in DOMAIN queue :
               queue[k].role = "CLIENT" => queue'[k].state = queue[k].state
  <2>1. /\ i \in DOMAIN queue /\ queue[i].role = "CLIENT"
        /\ queue[i].state = "WAITING_RESPONSE" /\ queue'[i].state = "HANDLE_RESPONSE"
        /\ \A k \in DOMAIN queue :
              k # i /\ queue[k].role = "CLIENT" => queue'[k].state = queue[k].state
    BY <1>2
  <2> DEFINE n == queue[i].call
  <2>2. n \in 1 .. MaxRequests
    <3>1. queue[i] \in Interactions
      BY <2>1, QueueType DEF JobsInv, TypeInv
    <3> QED BY <2>1, <3>1 DEF Interactions, WellFormed
  <2>3. calls[n] = "open"
    BY <2>1, <2>2 DEF JobsInv, CallsOK, Open
  <2>4. \A k \in DOMAIN queue : queue[k].role = "CLIENT" /\ queue[k].call = n => k = i
    BY <2>1 DEF JobsInv, Distinct, SameJob
  <2>5. /\ At(queue', n, "HANDLE_RESPONSE") /\ At(queue, n, "WAITING_RESPONSE")
        /\ ~At(queue, n, "HANDLE_RESPONSE")
    BY <2>1, <2>4 DEF At, Is, Keeps
  <2>6. \A m, s : m # n => (At(queue', m, s) <=> At(queue, m, s))
    BY <2>1 DEF At, Is, Keeps
  <2> HIDE DEF n
  <2>7. Stage[n] = "asked" /\ Stage'[n] = "answered"
    BY <2>2, <2>3, <2>5, StageIs, StageIsThen
  <2>8. Stage' = [Stage EXCEPT ![n] = "answered"]
    BY <2>2, <2>6, <2>7, Moves
  <2>9. <<"asked", "answered">> \in Moving
    BY DEF Moving
  <2> QED BY <2>2, <2>7, <2>8, <2>9, MovesOn
<1> QED BY <1>1, <1>2

\* A step that appends an interaction, not of the client role.
LEMMA NewStutters ==
    ASSUME JobsInv, NEW q \in Seq(Interactions), DOMAIN q = DOMAIN queue,
           \A k \in DOMAIN queue : Keeps(queue[k], q[k]) /\ q[k].state = queue[k].state,
           NEW r, r.role # "CLIENT", queue' = Append(q, r), UNCHANGED calls
    PROVE  UNCHANGED Stage
<1>1. \A n, s : At(q, n, s) <=> At(queue, n, s)
  BY DEF At, Is, Keeps
<1>2. q \in Seq(Interactions \cup {r}) /\ r \in Interactions \cup {r}
  BY SeqGrows
<1>3. \A n, s : At(queue', n, s) <=> At(queue, n, s)
  BY <1>1, <1>2, AppendAt DEF Is
<1> QED BY <1>3, Stutters

LEMMA WokenState ==
    ASSUME TypeInv, NEW d
    PROVE  \A k \in DOMAIN queue : Woken(d)[k].state = queue[k].state
<1>1. \A k \in DOMAIN queue : queue[k] \in Interactions
  BY WokenType
<1> QED BY <1>1 DEF Woken, Wakeup, Interactions, Interaction

LEMMA PacketRefines ==
    ASSUME JobsInv, NEW d \in Datagrams, HandleIncomingPacket(d)
    PROVE  [AbstractRequests!Next]_Stage
<1> DEFINE w == Woken(d)
<1>1. /\ TypeInv /\ w \in Seq(Interactions) /\ DOMAIN w = DOMAIN queue
      /\ queue \in Seq(Interactions)
      /\ \A k \in DOMAIN queue : Keeps(queue[k], w[k]) /\ w[k].state = queue[k].state
  BY WokenType, WokenKeeps, WokenState DEF JobsInv
<1>2. UNCHANGED calls
  BY DEF HandleIncomingPacket, RxPing, RxIgnored, RxUnknownUri, RxCritical, RxReset, RxAck,
         RxRequest, RxSeparateResponse, RxUnexpectedResponse, StartNewServerInteraction,
         serverUnchanged, rxUnchanged
<1>3. \A k \in DOMAIN queue : /\ w[k] \in Interactions /\ queue[k] \in Interactions
                              /\ Keeps(queue[k], queue[k]) /\ k \in DOMAIN w
  BY <1>1 DEF Keeps
<1> HIDE DEF w
<1>4. CASE queue' = queue \/ queue' = w
  <2>1. /\ DOMAIN queue' = DOMAIN queue
        /\ \A k \in DOMAIN queue : /\ Keeps(queue[k], queue'[k])
                                   /\ queue'[k].state = queue[k].state
    BY <1>1, <1>3, <1>4
  <2> QED BY <1>2, <2>1, AnsweredRefines
<1>5. CASE RxReset(d)
  <2>1. queue' = [k \in DOMAIN queue |->
                    IF k \in Found(d) THEN [w[k] EXCEPT !.resConfirm = "RST_SEND"] ELSE queue[k]]
    BY <1>5 DEF RxReset, w
  <2>2. \A k \in DOMAIN queue :
           /\ Keeps(queue[k], [w[k] EXCEPT !.resConfirm = "RST_SEND"])
           /\ [w[k] EXCEPT !.resConfirm = "RST_SEND"].state = queue[k].state
    BY <1>1, <1>3 DEF Keeps, Interactions, Interaction
  <2>3. /\ DOMAIN queue' = DOMAIN queue
        /\ \A k \in DOMAIN queue : /\ Keeps(queue[k], queue'[k])
                                   /\ queue'[k].state = queue[k].state
    BY <1>3, <2>1, <2>2
  <2> QED BY <1>2, <2>3, AnsweredRefines
<1>6. CASE RxAck(d)
  <2>1. queue' = [k \in DOMAIN queue |->
                    IF k \in Found(d) THEN Acknowledged(w[k], d.msg) ELSE queue[k]]
    BY <1>6 DEF RxAck, w
  <2>2. \A k \in DOMAIN queue :
           /\ Keeps(queue[k], Acknowledged(w[k], d.msg))
           /\ \/ Acknowledged(w[k], d.msg).state = queue[k].state
              \/ /\ queue[k].state = "WAITING_RESPONSE"
                 /\ Acknowledged(w[k], d.msg).state = "HANDLE_RESPONSE"
    BY <1>1, <1>3 DEF Keeps, Acknowledged, Piggybacked, Interactions, Interaction
  <2>3. \A j, k \in Found(d) : j = k
    BY <1>1 DEF Found, FindByMessageIdAndEp, First
  <2>4. PICK i : \A k \in Found(d) : k = i
    BY <2>3
  <2>5. DOMAIN queue' = DOMAIN queue /\ \A k \in DOMAIN queue : Keeps(queue[k], queue'[k])
    BY <1>3, <2>1, <2>2
  <2>6. \A k \in DOMAIN queue :
           \/ queue'[k].state = queue[k].state
           \/ /\ k = i /\ queue[k].state = "WAITING_RESPONSE"
              /\ queue'[k].state = "HANDLE_RESPONSE"
    BY <2>1, <2>2, <2>4
  <2> QED BY <1>2, <2>5, <2>6, AnsweredRefines
<1>7. CASE RxRequest(d)
  <2>1. StartNewServerInteraction(d, w)
    BY <1>7 DEF RxRequest, w
  <2>2. CASE queue' = w
    BY <1>4, <2>2
  <2>3. CASE queue' # w
    <3> DEFINE n == [NewInteraction("SERVER", "HANDLE_REQUEST", d.ep) EXCEPT
                        !.res = d.uri, !.multicast = d.multicast, !.req = d.msg]
    <3>1. queue' = Append(w, n)
      BY <2>1, <2>3 DEF StartNewServerInteraction
    <3>2. n.role = "SERVER"
      BY DEF NewInteraction
    <3> HIDE DEF n
    <3> QED BY <1>1, <1>2, <3>1, <3>2, NewStutters
  <2> QED BY <2>2, <2>3
<1>8. CASE RxSeparateResponse(d)
  <2>1. PICK k \in Requested(d) :
          queue' = [w EXCEPT ![k] =
                      IF Sent THEN [Attached(w[k], d.msg) EXCEPT !.resConfirm = "ACK_SEND"]
                      ELSE Attached(w[k], d.msg)]
    BY <1>8 DEF RxSeparateResponse, w
  <2> DEFINE r == IF Sent THEN [Attached(w[k], d.msg) EXCEPT !.resConfirm = "ACK_SEND"]
                  ELSE Attached(w[k], d.msg)
  <2>2. k \in DOMAIN queue
    BY DEF Requested, First
  <2>3. /\ Keeps(queue[k], Attached(w[k], d.msg))
        /\ Keeps(queue[k], [Attached(w[k], d.msg) EXCEPT !.resConfirm = "ACK_SEND"])
    BY <1>1, <1>3, <2>2 DEF Keeps, Attached, Interactions, Interaction
  <2>4. /\ [Attached(w[k], d.msg) EXCEPT !.resConfirm = "ACK_SEND"].state
              = Attached(w[k], d.msg).state
        /\ \/ Attached(w[k], d.msg).state = queue[k].state
           \/ /\ queue[k].state = "WAITING_RESPONSE"
              /\ Attached(w[k], d.msg).state = "HANDLE_RESPONSE"
    BY <1>1, <1>3, <2>2 DEF Attached, Interactions, Interaction
  <2>5. /\ Keeps(queue[k], r)
        /\ \/ r.state = queue[k].state
           \/ queue[k].state = "WAITING_RESPONSE" /\ r.state = "HANDLE_RESPONSE"
    BY <2>3, <2>4
  <2>6. queue' = [w EXCEPT ![k] = r]
    BY <2>1
  <2> HIDE DEF r
  <2>7. DOMAIN queue' = DOMAIN queue /\ \A j \in DOMAIN queue : Keeps(queue[j], queue'[j])
    BY <1>1, <1>3, <2>2, <2>5, <2>6
  <2>8. \A j \in DOMAIN queue :
           \/ queue'[j].state = queue[j].state
           \/ /\ j = k /\ queue[j].state = "WAITING_RESPONSE"
              /\ queue'[j].state = "HANDLE_RESPONSE"
    BY <1>1, <1>3, <2>2, <2>5, <2>6
  <2> QED BY <1>2, <2>7, <2>8, AnsweredRefines
<1> QED
  BY <1>4, <1>5, <1>6, <1>7, <1>8
     DEF HandleIncomingPacket, RxPing, RxIgnored, RxUnknownUri, RxCritical, RxUnexpectedResponse, w

LEMMA StartNotifyRefines ==
    ASSUME JobsInv, StartNotifyInteractions
    PROVE  [AbstractRequests!Next]_Stage
<1>1. TypeInv /\ queue \in Seq(Interactions)
  BY QueueType DEF JobsInv, TypeInv
<1>2. CASE Restart
  BY <1>2, RestartRefines
<1>3. CASE UNCHANGED <<queue, calls>>
  BY <1>3, Stutters
<1>4. CASE MarkOngoing
  <2>1. PICK k \in Ongoing : queue' = [queue EXCEPT ![k] = Wakeup([@ EXCEPT !.updatePending = TRUE])]
    BY <1>4 DEF MarkOngoing
  <2>2. k \in DOMAIN queue /\ queue[k] \in Interactions
    BY <1>1 DEF Ongoing, First
  <2> DEFINE r == Wakeup([queue[k] EXCEPT !.updatePending = TRUE])
  <2>3. Keeps(queue[k], r) /\ r.state = queue[k].state
    BY <2>2 DEF Keeps, Wakeup, Interactions, Interaction
  <2>4. queue' = [queue EXCEPT ![k] = r]
    BY <2>1
  <2> HIDE DEF r
  <2>5. /\ DOMAIN queue' = DOMAIN queue
        /\ \A j \in DOMAIN queue : /\ Keeps(queue[j], queue'[j])
                                   /\ queue'[j].state = queue[j].state
    BY <2>2, <2>3, <2>4 DEF Keeps
  <2> QED BY <1>4, <2>5, AnsweredRefines DEF MarkOngoing, notifyUnchanged
<1>5. CASE StartNotification
  <2>1. \E r : r.role = "NOTIFICATION" /\ queue' = Append(queue, r)
    BY <1>5 DEF StartNotification, NewInteraction
  <2>2. PICK r : r.role # "CLIENT" /\ queue' = Append(queue, r)
    BY <2>1
  <2>3. UNCHANGED calls
    BY <1>5 DEF StartNotification, notifyUnchanged
  <2> QED BY <1>1, <2>2, <2>3, NewStutters DEF Keeps
<1> QED
  BY <1>2, <1>3, <1>4, <1>5
     DEF StartNotifyInteractions, NotifyOutOfMemory, NotifierFails, NotifierReturnsErrorCode,
         notifyUnchanged

LEMMA StartRequestRefines ==
    ASSUME JobsInv, NEW ep \in Eps, NEW type \in RequestTypes, StartNewRequest(ep, type)
    PROVE  [AbstractRequests!Next]_Stage
<1>1. TypeInv /\ queue \in Seq(Interactions) /\ DOMAIN calls = 1 .. MaxRequests
  BY QueueType DEF JobsInv, TypeInv, TypeOK
<1>2. PICK n \in First(FreshCalls) :
        IF OutOfMemory
        THEN UNCHANGED <<queue, calls>>
        ELSE /\ queue' = Append(queue,
                    [NewInteraction("CLIENT", "READY_TO_REQUEST", ep) EXCEPT
                        !.req = CreateMessage(type, "GET", NextMid(mid), NextToken(tok)),
                        !.call = n])
             /\ calls' = [calls EXCEPT ![n] = "open"]
  BY DEF StartNewRequest
<1>3. n \in 1 .. MaxRequests /\ calls[n] = "idle"
      /\ \A m \in 1 .. MaxRequests : calls[m] = "idle" => n <= m
  BY DEF First, FreshCalls
<1>4. CASE OutOfMemory
  BY <1>2, <1>4, Stutters
<1>5. CASE ~OutOfMemory
  <2> DEFINE r == [NewInteraction("CLIENT", "READY_TO_REQUEST", ep) EXCEPT
                      !.req = CreateMessage(type, "GET", NextMid(mid), NextToken(tok)),
                      !.call = n]
  <2>1. queue' = Append(queue, r) /\ calls' = [calls EXCEPT ![n] = "open"]
    BY <1>2, <1>5
  <2>2. \A m, s : Is(r, m, s) <=> m = n /\ s = "READY_TO_REQUEST"
    BY DEF NewInteraction, Is
  <2> HIDE DEF r
  <2>3. \A s : ~At(queue, n, s)
    BY <1>3 DEF JobsInv, CallsOK, Open, At, Is
  <2>4. queue \in Seq(Interactions \cup {r}) /\ r \in Interactions \cup {r}
    BY <1>1, SeqGrows
  <2>5. \A m, s : At(queue', m, s) <=> At(queue, m, s) \/ (m = n /\ s = "READY_TO_REQUEST")
    BY <2>1, <2>2, <2>4, AppendAt
  <2>6. Stage[n] = "idle" /\ Stage'[n] = "accepted"
    BY <1>1, <1>3, <2>1, <2>3, <2>5, StageIs, StageIsThen
  <2>7. Stage' = [Stage EXCEPT ![n] = "accepted"]
    BY <1>1, <1>3, <2>1, <2>5, <2>6, Moves
  <2>8. \A m \in 1 .. n - 1 : Stage[m] # "idle"
    <3> SUFFICES ASSUME NEW m \in 1 .. n - 1 PROVE Stage[m] # "idle"
      OBVIOUS
    <3>1. MaxRequests \in Nat
      BY BoundAssumption
    <3>2. m \in 1 .. MaxRequests /\ ~(n <= m)
      BY <1>3, <3>1
    <3>3. calls[m] # "idle"
      BY <1>3, <3>2
    <3> QED BY <3>2, <3>3, StageIs
  <2>9. AbstractRequests!Accept(n)
    BY <2>6, <2>7, <2>8 DEF AbstractRequests!Accept, AbstractRequests!Advance
  <2> QED BY <1>3, <2>9 DEF AbstractRequests!Next
<1> QED BY <1>4, <1>5

LEMMA TickRefines ==
    ASSUME JobsInv, Tick
    PROVE  [AbstractRequests!Next]_Stage
<1>1. queue \in Seq(Interactions)
  BY QueueType DEF JobsInv, TypeInv
<1>2. /\ DOMAIN queue' = DOMAIN queue /\ UNCHANGED calls
      /\ \A k \in DOMAIN queue : queue'[k] = OneSecondOlder(queue[k])
  BY DEF Tick
<1>3. \A k \in DOMAIN queue : /\ Keeps(queue[k], OneSecondOlder(queue[k]))
                              /\ OneSecondOlder(queue[k]).state = queue[k].state
  BY <1>1 DEF Keeps, OneSecondOlder, Interactions, Interaction
<1> QED BY <1>2, <1>3, AnsweredRefines

LEMMA ClearRefines ==
    ASSUME JobsInv, ClearPendingInteractions
    PROVE  [AbstractRequests!Next]_Stage
<1>1. \A n \in 1 .. MaxRequests :
          calls'[n] = IF calls[n] = "open" THEN "cleared" ELSE calls[n]
  BY DEF ClearPendingInteractions, JobsInv, TypeInv, TypeOK
<1> QED BY <1>1, EndRefines

-----------------------------------------------------------------------------

LEMMA InitRefines == Init => AbstractRequests!Init
BY DEF Init, AbstractRequests!Init, Stage

LEMMA NextRefines == JobsInv /\ [Next]_vars => [AbstractRequests!Next]_Stage
<1> SUFFICES ASSUME JobsInv, [Next]_vars PROVE [AbstractRequests!Next]_Stage
  OBVIOUS
<1>1. CASE \E d \in Datagrams : HandleIncomingPacket(d)
  BY <1>1, PacketRefines
<1>2. CASE doWork
  BY <1>2, DoWorkRefines
<1>3. CASE (\E r \in Res : NotifyResourceObservers(r)) \/ UNCHANGED vars
  <2>1. UNCHANGED <<queue, calls>>
    BY <1>3 DEF NotifyResourceObservers, notifyUnchanged, vars
  <2> QED BY <2>1, Stutters
<1>4. CASE StartNotifyInteractions
  BY <1>4, StartNotifyRefines
<1>5. CASE \E ep \in Eps, type \in RequestTypes : StartNewRequest(ep, type)
  BY <1>5, StartRequestRefines
<1>6. CASE ClearPendingInteractions
  BY <1>6, ClearRefines
<1>7. CASE Tick
  BY <1>7, TickRefines
<1> QED BY <1>1, <1>2, <1>3, <1>4, <1>5, <1>6, <1>7 DEF Next

\* Every request goes through the stages of CoapRequests: it is put on the wire
\* before it is answered, an answer that arrived is reported and not given up,
\* what was reported stays so, and no step moves two requests unless it ends
\* all that are open.
THEOREM RequestsImplemented == Spec => ImplementsRequests
BY InitRefines, NextRefines, JobsInvariant, PTL DEF Spec, ImplementsRequests, AbstractRequests!Spec

-----------------------------------------------------------------------------
(* Observers and the notifications under way to them *)

\* A list of observers in which no block and no endpoint is twice.
Apart(list) ==
    \A j, k \in DOMAIN list :
        j # k => list[j].oid # list[k].oid /\ list[j].ep # list[k].ep

\* No block is in two of the lists.
Disjoint(lists) ==
    \A r, s \in Res : r # s =>
        \A j \in DOMAIN lists[r], k \in DOMAIN lists[s] : lists[r][j].oid # lists[s][k].oid

\* The inductive invariant.
ObserversInv == TypeInv /\ (\A r \in Res : Apart(observers[r])) /\ Disjoint(observers)

\* What a step makes of the lists.
Removed(r, ks) ==
    /\ ks \subseteq DOMAIN observers[r]
    /\ observers' = [observers EXCEPT ![r] = Without(@, ks)]

LEMMA RemoveIsRemoved ==
    ASSUME NEW r \in Res, NEW ep, NEW token, TypeInv, RemoveObserver(r, ep, token)
    PROVE  \E ks : Removed(r, ks)
BY DEF RemoveObserver, Removed, First, TypeInv, TypeOK

\* Only these steps change an observer list.
LEMMA ObserverSteps ==
    ASSUME TypeInv, [Next]_vars
    PROVE  \/ UNCHANGED observers
           \/ observers' = [r \in Res |-> <<>>]
           \/ \E r \in Res : \E ks : Removed(r, ks)
           \/ \E r \in Res, o \in Observer : AddObserver(r, o)
<1> USE DEF TypeInv
<1>1. CASE \E d \in Datagrams : HandleIncomingPacket(d)
  BY <1>1
     DEF HandleIncomingPacket, RxPing, RxIgnored, RxUnknownUri, RxCritical, RxReset, RxAck,
         RxRequest, RxSeparateResponse, RxUnexpectedResponse, StartNewServerInteraction,
         serverUnchanged, rxUnchanged
<1>2. CASE doWork /\ Rotate
  BY <1>2 DEF Rotate
<1>3. CASE doWork /\ handleClientInteraction
  BY <1>3
     DEF handleClientInteraction, SendRequest, ClientWaits, ClientRetries, ClientGivesUp,
         HandleResponse, clientUnchanged
<1>4. CASE doWork /\ handleServerInteraction
  <2>1. CASE UNCHANGED observers \/ Restart
    BY <2>1 DEF Restart
  <2>2. CASE ServeAnswer
    <3>1. PICK m \in Answers : Answer(m)
      BY <2>2 DEF ServeAnswer
    <3>2. /\ Serving \in Interactions /\ Serving.role = "SERVER" /\ Serving.res \in Res
          /\ Serving.ep \in Eps /\ Serving.req \in Message
      <4>1. Serving \in Interactions
        BY <1>4, ServingType DEF Serving, doWork
      <4>2. Serving.role = "SERVER"
        BY <2>2 DEF ServeAnswer, ReadyForHandler, AwaitsHandler
      <4> QED BY <4>1, <4>2 DEF Interactions, Interaction, WellFormed
    <3>3. CASE Registers(m)
      <4>1. PICK o \in FreeOids :
              AddObserver(Serving.res,
                          [oid |-> o, ep |-> Serving.ep, token |-> Serving.req.token])
        BY <3>1, <3>3 DEF Answer, Registers, Deregisters, Register, Deregister
      <4>2. [oid |-> o, ep |-> Serving.ep, token |-> Serving.req.token] \in Observer
        BY <3>2 DEF Observer, FreeOids, Message
      <4> QED BY <3>2, <4>1, <4>2
    <3>4. CASE Deregisters(m)
      <4>1. RemoveObserver(Serving.res, Serving.ep, Serving.req.token)
        BY <3>1, <3>4 DEF Answer, Registers, Deregisters, Register, Deregister
      <4> QED BY <3>2, <4>1, RemoveIsRemoved
    <3>5. CASE ~Registers(m) /\ ~Deregisters(m)
      BY <3>1, <3>5 DEF Answer
    <3> QED BY <3>3, <3>4, <3>5
  <2> QED
    BY <1>4, <2>1, <2>2, NullAnswerGoesOn
       DEF handleServerInteraction, ServeMulticastCon, ServeMulticastWait, ServeMethodNotAllowed,
           ServeDrop, ServePostponeAck, ServePostponeAgain, ServerWaitsForAck, ServerRetries,
           ServerDone
<1>5. CASE doWork /\ handleNotifyInteraction
  <2>1. Pending.res \in Res
    <3>1. Pending \in Interactions
      BY <1>5, ServingType DEF Pending, doWork
    <3>2. Pending.role = "NOTIFICATION"
      BY <1>5 DEF handleNotifyInteraction, SendNotification, NotificationWaits,
           NotificationRetries, NotificationRestarts, NotificationDone, NotificationRefused,
           NotificationSent
    <3> QED BY <3>1, <3>2 DEF Interactions, Interaction, WellFormed
  <2>2. UNCHANGED observers \/ RemoveObserver(Pending.res, Pending.ep, Pending.resp.token)
    BY <1>5 DEF handleNotifyInteraction, SendNotification, NotificationWaits,
           NotificationRetries, NotificationRestarts, NotificationDone, NotificationRefused,
           ObserverAfter
  <2> QED BY <2>1, <2>2, RemoveIsRemoved
<1>6. CASE (\E r \in Res : NotifyResourceObservers(r)) \/ UNCHANGED vars
  BY <1>6 DEF NotifyResourceObservers, vars
<1>7. CASE StartNotifyInteractions
  BY <1>7
     DEF StartNotifyInteractions, MarkOngoing, NotifyOutOfMemory, StartNotification,
         NotifierFails, NotifierReturnsErrorCode, Restart
<1>8. CASE ClearPendingInteractions \/ Tick
  BY <1>8 DEF ClearPendingInteractions, Tick, clientUnchanged
<1>9. CASE \E ep \in Eps, type \in RequestTypes : StartNewRequest(ep, type)
  BY <1>9 DEF StartNewRequest, clientUnchanged
<1> QED BY <1>1, <1>2, <1>3, <1>4, <1>5, <1>6, <1>7, <1>8, <1>9 DEF Next, doWork

-----------------------------------------------------------------------------
(* Lists without doubles *)

LEMMA WithoutApart ==
    ASSUME NEW S, NEW list \in Seq(S), NEW ks \in SUBSET DOMAIN list, Apart(list)
    PROVE  Apart(Without(list, ks))
<1>1. CASE ks = {}
  BY <1>1 DEF Without
<1>2. CASE ks # {}
  <2>1. PICK i \in ks : \E old : Without1(Without(list, ks), list, i, old)
    BY <1>2, WithoutMap
  <2>2. PICK old : Without1(Without(list, ks), list, i, old)
    BY <2>1
  <2> QED BY <2>2 DEF Apart, Without1
<1> QED BY <1>1, <1>2

\* One list becomes another of which every element was in it.
LEMMA FewerDisjoint ==
    ASSUME TypeInv, Disjoint(observers), NEW r \in Res, NEW l,
           \A k \in DOMAIN l : \E j \in DOMAIN observers[r] : l[k] = observers[r][j],
           NEW o2, o2 = [observers EXCEPT ![r] = l]
    PROVE  Disjoint(o2)
<1>1. \A s \in Res : o2[s] = IF s = r THEN l ELSE observers[s]
  BY DEF TypeInv, TypeOK
<1>2. \A s \in Res : \A k \in DOMAIN o2[s] : \E j \in DOMAIN observers[s] :
          o2[s][k] = observers[s][j]
  BY <1>1
<1> QED BY <1>2 DEF Disjoint

\* The registration of an endpoint takes the place of the one it had: no other
\* is left in the list.
LEMMA OldRegistrationGone ==
    ASSUME ObserversInv, NEW r \in Res, NEW ep
    PROVE  \A k \in DOMAIN Without(observers[r], ObserversAt(r, ep)) :
               Without(observers[r], ObserversAt(r, ep))[k].ep # ep
<1> DEFINE list == observers[r]
           T == {k \in DOMAIN list : list[k].ep = ep}
<1>1. list \in Seq(Observer) /\ Apart(list) /\ T \subseteq Nat /\ T \subseteq DOMAIN list
  BY DEF ObserversInv, TypeInv, TypeOK
<1>2. ObserversAt(r, ep) = First(T) /\ First(T) \subseteq T
  BY DEF ObserversAt, First
<1> HIDE DEF list
<1>3. CASE First(T) = {}
  <2>1. T = {}
    BY <1>1, <1>3, FirstExists
  <2>2. Without(list, First(T)) = list
    BY <1>3 DEF Without
  <2> QED BY <1>2, <2>1, <2>2 DEF list
<1>4. CASE First(T) # {}
  <2>1. PICK i \in First(T) : \E old : Without1(Without(list, First(T)), list, i, old)
    BY <1>1, <1>2, <1>4, WithoutMap
  <2>2. PICK old : Without1(Without(list, First(T)), list, i, old)
    BY <2>1
  <2>3. \A k \in DOMAIN list \ {i} : list[k].ep # ep
    BY <1>1, <1>2 DEF Apart
  <2>4. \A k \in DOMAIN Without(list, First(T)) : Without(list, First(T))[k].ep # ep
    BY <2>2, <2>3 DEF Without1
  <2> QED BY <1>2, <2>4 DEF list
<1> QED BY <1>3, <1>4

LEMMA AppendApart ==
    ASSUME NEW S, NEW list \in Seq(S), NEW o \in S, Apart(list),
           \A k \in DOMAIN list : list[k].oid # o.oid /\ list[k].ep # o.ep
    PROVE  Apart(Append(list, o))
<1> DEFINE a == Append(list, o)
<1>1. /\ DOMAIN list = 1 .. Len(list) /\ DOMAIN a = 1 .. Len(list) + 1 /\ Len(list) \in Nat
      /\ \A k \in DOMAIN list : a[k] = list[k]
      /\ a[Len(list) + 1] = o
  OBVIOUS
<1> HIDE DEF a
<1>2. \A k \in DOMAIN a : k \in DOMAIN list \/ k = Len(list) + 1
  BY <1>1
<1>3. Apart(a)
  BY <1>1, <1>2 DEF Apart
<1> QED BY <1>3 DEF a

LEMMA RemovedApart ==
    ASSUME ObserversInv, NEW r \in Res, NEW ks, Removed(r, ks)
    PROVE  (\A s \in Res : Apart(observers'[s])) /\ Disjoint(observers')
<1> DEFINE l == Without(observers[r], ks)
<1>1. /\ observers[r] \in Seq(Observer) /\ ks \in SUBSET DOMAIN observers[r]
      /\ observers' = [observers EXCEPT ![r] = l] /\ TypeInv /\ Disjoint(observers)
  BY DEF Removed, ObserversInv, TypeInv, TypeOK
<1>2. Apart(l) /\ \A k \in DOMAIN l : \E j \in DOMAIN observers[r] : l[k] = observers[r][j]
  BY <1>1, WithoutApart, WithoutElements DEF ObserversInv
<1> HIDE DEF l
<1>3. \A s \in Res : observers'[s] = IF s = r THEN l ELSE observers[s]
  BY <1>1 DEF TypeInv, TypeOK
<1> QED BY <1>1, <1>2, <1>3, FewerDisjoint DEF ObserversInv

LEMMA AddedApart ==
    ASSUME ObserversInv, NEW r \in Res, NEW o \in Observer, AddObserver(r, o)
    PROVE  (\A s \in Res : Apart(observers'[s])) /\ Disjoint(observers')
<1> DEFINE w == Without(observers[r], ObserversAt(r, o.ep))
           l == Append(w, o)
<1>1. /\ observers[r] \in Seq(Observer) /\ ObserversAt(r, o.ep) \in SUBSET DOMAIN observers[r]
      /\ observers' = [observers EXCEPT ![r] = l] /\ TypeInv /\ Disjoint(observers)
  BY DEF AddObserver, ObserversAt, First, ObserversInv, TypeInv, TypeOK
<1>2. /\ w \in Seq(Observer) /\ Apart(w) /\ \A k \in DOMAIN w : w[k].ep # o.ep
      /\ \A k \in DOMAIN w : \E j \in DOMAIN observers[r] : w[k] = observers[r][j]
  <2>1. Apart(observers[r])
    BY DEF ObserversInv
  <2>2. w \in Seq(Observer)
    BY <1>1, WithoutType
  <2>3. Apart(w)
    BY <1>1, <2>1, WithoutApart
  <2>4. \A k \in DOMAIN w : \E j \in DOMAIN observers[r] : w[k] = observers[r][j]
    BY <1>1, WithoutElements
  <2>5. \A k \in DOMAIN w : w[k].ep # o.ep
    BY OldRegistrationGone
  <2> QED BY <2>2, <2>3, <2>4, <2>5
<1>3. \A s \in Res : \A k \in DOMAIN observers[s] : observers[s][k].oid # o.oid
  <2> SUFFICES ASSUME NEW s \in Res, NEW k \in DOMAIN observers[s]
               PROVE  observers[s][k].oid # o.oid
    OBVIOUS
  <2>1. observers[s][k] \in ToSet(observers[s])
    BY DEF ToSet
  <2>2. observers[s][k].oid \in LiveOids
    BY <2>1 DEF LiveOids
  <2> QED BY <2>2 DEF AddObserver
<1> HIDE DEF w
<1>4. /\ \A k \in DOMAIN l : l[k] = o \/ \E j \in DOMAIN observers[r] : l[k] = observers[r][j]
      /\ Apart(l)
  <2>1. /\ \A k \in DOMAIN w : w[k].oid # o.oid
    BY <1>2, <1>3
  <2>2. Apart(l)
    BY <1>2, <2>1, AppendApart
  <2>3. \A k \in DOMAIN l : l[k] = o \/ (k \in DOMAIN w /\ l[k] = w[k])
    BY <1>2
  <2> QED BY <1>2, <2>2, <2>3
<1> HIDE DEF l
<1>5. \A s \in Res : observers'[s] = IF s = r THEN l ELSE observers[s]
  BY <1>1 DEF TypeInv, TypeOK
<1>6. \A s \in Res : \A k \in DOMAIN observers'[s] :
          \/ s = r /\ observers'[s][k] = o
          \/ \E j \in DOMAIN observers[s] : observers'[s][k] = observers[s][j]
  BY <1>4, <1>5
<1>7. Disjoint(observers')
  BY <1>1, <1>3, <1>6 DEF Disjoint
<1> QED BY <1>4, <1>5, <1>7 DEF ObserversInv

LEMMA InitObservers == Init => ObserversInv
BY InitType DEF Init, ObserversInv, Apart, Disjoint

LEMMA NextObservers == ObserversInv /\ [Next]_vars => ObserversInv'
<1> SUFFICES ASSUME ObserversInv, [Next]_vars PROVE ObserversInv'
  OBVIOUS
<1>1. TypeInv /\ TypeInv'
  BY NextType DEF ObserversInv
<1>2. CASE UNCHANGED observers
  BY <1>1, <1>2 DEF ObserversInv, Disjoint
<1>3. CASE observers' = [r \in Res |-> <<>>]
  BY <1>1, <1>3 DEF ObserversInv, Apart, Disjoint
<1>4. CASE \E r \in Res : \E ks : Removed(r, ks)
  BY <1>1, <1>4, RemovedApart DEF ObserversInv
<1>5. CASE \E r \in Res, o \in Observer : AddObserver(r, o)
  BY <1>1, <1>5, AddedApart DEF ObserversInv
<1> QED BY <1>1, <1>2, <1>3, <1>4, <1>5, ObserverSteps

LEMMA ObserversInvariant == Spec => []ObserversInv
BY InitObservers, NextObservers, PTL DEF Spec

\* An endpoint that registers for a resource again and again, cancels and
\* registers under other tokens is in its list of observers at most once, and
\* no block of memory is in two places of the lists.
THEOREM ObserversOnce == Spec => []OneObserverPerEndpoint
<1>1. ObserversInv => OneObserverPerEndpoint
  <2> SUFFICES ASSUME ObserversInv, NEW r \in Res, NEW s \in Res, NEW j \in DOMAIN observers[r],
                      NEW k \in DOMAIN observers[s], <<r, j>> # <<s, k>>
               PROVE  /\ observers[r][j].oid # observers[s][k].oid
                      /\ r = s => observers[r][j].ep # observers[s][k].ep
    BY DEF OneObserverPerEndpoint
  <2> QED BY DEF ObserversInv, Apart, Disjoint
<1> QED BY <1>1, ObserversInvariant, PTL

-----------------------------------------------------------------------------
(* Notifications of an old version                                         *)
(*                                                                         *)
(* What StaleNotificationIsMarked says is not true of every notifier and   *)
(* of every client.  A notifier that fails leaves the notification it was  *)
(* to renew as it is; where memory runs out the loop skips the remaining   *)
(* observers; and a client that uses a token for two observations, or two  *)
(* for one, cancels a notification of the wrong one or leaves one behind.  *)
(* It is true where none of these happens.                                 *)

\* Notifiers fill the notification.
NotifiersAnswer == NotifierOutcomes \subseteq {"ok", "non"}

\* A client registers and cancels under one token for each resource.
TokenPerObservation ==
    \A d, e \in Datagrams :
        /\ d.ep = e.ep /\ d.uri \in Res /\ e.uri \in Res
        /\ {d.msg.observe, e.msg.observe} \subseteq {Register, Deregister}
        => (d.uri = e.uri <=> d.msg.token = e.msg.token)

\* An endpoint is in a list of observers under a token.
Listed(list, ep, token) == \E j \in DOMAIN list : list[j].ep = ep /\ list[j].token = token

\* The loop lp has yet to come to the observer of the notification r.
Awaited(r, lp) == lp.res = r.res /\ \E k \in DOMAIN lp.todo : lp.todo[k].ep = r.ep

\* The request of a server interaction arrived as a datagram.
Arrived(r) == \E d \in Datagrams : d.ep = r.ep /\ d.uri = r.res /\ d.msg = r.req

\* A notification belongs to an observer; it shows the version cnt counts, will
\* be renewed, or is about to be marked.
Current(r, cnt, lp) ==
    r.resp.version = cnt[r.res] \/ r.updatePending \/ Awaited(r, lp)

Informs(r, obs, cnt, lp) ==
    /\ r.role = "SERVER" => Arrived(r)
    /\ r.role = "NOTIFICATION" =>
        Listed(obs[r.res], r.ep, r.resp.token) /\ Current(r, cnt, lp)

AllInform(q, obs, cnt, lp) == \A k \in DOMAIN q : Informs(q[k], obs, cnt, lp)

\* An observer of r registered with a datagram.
Registered(o, r) ==
    \E d \in Datagrams : /\ d.ep = o.ep /\ d.uri = r /\ d.msg.token = o.token
                         /\ d.msg.observe = Register

AllRegistered(obs) == \A r \in Res : \A k \in DOMAIN obs[r] : Registered(obs[r][k], r)

\* The loop works on observers of its resource.
LoopListed(obs, lp) ==
    lp.res \in Res => \A k \in DOMAIN lp.todo : \E j \in DOMAIN obs[lp.res] : obs[lp.res][j] = lp.todo[k]

InformsInv ==
    /\ JobsInv /\ ObserversInv
    /\ AllRegistered(observers) /\ LoopListed(observers, loop)
    /\ AllInform(queue, observers, updateCnt, loop)

LEMMA SameInforms ==
    ASSUME NEW r, NEW s, NEW obs, NEW cnt, NEW lp, Informs(r, obs, cnt, lp), Keeps(r, s),
           r.role = "NOTIFICATION" =>
               /\ s.resp.token = r.resp.token
               /\ \/ s.resp.version = r.resp.version /\ (r.updatePending => s.updatePending)
                  \/ s.resp.version = cnt[r.res]
    PROVE  Informs(s, obs, cnt, lp)
BY DEF Informs, Keeps, Arrived, Current, Awaited

\* The list after the head was served: its element, if any, and others of before.
LEMMA Elements ==
    ASSUME TypeInv, queue # <<>>, NEW r, NEW ks, Deletable(ks),
           \/ queue' = Append(Others(ks), r)
           \/ queue' = [queue EXCEPT ![1] = r]
           \/ queue' = Others(ks)
    PROVE  \A k \in DOMAIN queue' :
               \/ queue'[k] = r
               \/ \E j \in DOMAIN Tail(queue) : queue'[k] = Tail(queue)[j]
<1>1. queue \in Seq(Interactions) /\ Tail(queue) \in Seq(Interactions)
  BY ServingType
<1>2. ks \in SUBSET DOMAIN Tail(queue)
  BY DEF Deletable
<1>3. Others(ks) \in Seq(Interactions)
      /\ \A k \in DOMAIN Others(ks) : \E j \in DOMAIN Tail(queue) : Others(ks)[k] = Tail(queue)[j]
  BY <1>1, <1>2, WithoutType, WithoutElements, ZenonT(90) DEF Others
<1> DEFINE o == Others(ks)
<1> HIDE DEF o
<1>4. CASE queue' = Append(o, r)
  <2>1. \A k \in DOMAIN queue' : queue'[k] = r \/ (k \in DOMAIN o /\ queue'[k] = o[k])
    <3>1. o \in Seq(Interactions \cup {r}) /\ r \in Interactions \cup {r}
      BY <1>3, SeqGrows DEF o
    <3> QED BY <1>4, <3>1
  <2> QED BY <1>3, <2>1 DEF o
<1>5. CASE queue' = [queue EXCEPT ![1] = r]
  <2> SUFFICES ASSUME NEW k \in DOMAIN queue', k # 1
               PROVE  \E j \in DOMAIN Tail(queue) : queue'[k] = Tail(queue)[j]
    BY <1>1, <1>5
  <2>1. k - 1 \in DOMAIN Tail(queue) /\ Tail(queue)[k - 1] = queue[k] /\ queue'[k] = queue[k]
    BY <1>1, <1>5
  <2> QED BY <2>1
<1>6. CASE queue' = o
  BY <1>3, <1>6 DEF o
<1> QED BY <1>4, <1>5, <1>6 DEF o

LEMMA TailInforms ==
    ASSUME InformsInv, queue # <<>>
    PROVE  /\ Informs(Head(queue), observers, updateCnt, loop)
           /\ \A k \in DOMAIN Tail(queue) :
                /\ Informs(Tail(queue)[k], observers, updateCnt, loop)
                /\ ~SameJob(Tail(queue)[k], Head(queue))
                /\ Tail(queue)[k] \in Interactions
<1>1. queue \in Seq(Interactions) /\ Tail(queue) \in Seq(Interactions)
  BY ServingType DEF InformsInv, JobsInv
<1>2. \A k \in DOMAIN Tail(queue) : ~SameJob(Tail(queue)[k], Head(queue))
  BY <1>1, TailJobs DEF InformsInv, JobsInv
<1>3. \A k \in DOMAIN Tail(queue) : k + 1 \in DOMAIN queue /\ Tail(queue)[k] = queue[k + 1]
  BY <1>1
<1>4. Head(queue) = queue[1] /\ 1 \in DOMAIN queue
  BY <1>1
<1> QED BY <1>1, <1>2, <1>3, <1>4 DEF InformsInv, AllInform

\* The head, of another role than NOTIFICATION, is served.
LEMMA OthersInform ==
    ASSUME InformsInv, queue # <<>>, Head(queue).role # "NOTIFICATION",
           NEW r, NEW ks, Keeps(Head(queue), r), Deletable(ks),
           \/ queue' = Append(Others(ks), r)
           \/ queue' = [queue EXCEPT ![1] = r]
           \/ queue' = Others(ks)
    PROVE  AllInform(queue', observers, updateCnt, loop)
<1>1. \A k \in DOMAIN queue' :
          queue'[k] = r \/ \E j \in DOMAIN Tail(queue) : queue'[k] = Tail(queue)[j]
  BY Elements DEF InformsInv, JobsInv
<1>2. Informs(r, observers, updateCnt, loop)
  BY TailInforms, SameInforms
<1> QED BY <1>1, <1>2, TailInforms DEF AllInform

\* The one notification at the head is served, and the observers stay.
LEMMA HeadInforms ==
    ASSUME InformsInv, queue # <<>>, Head(queue).role = "NOTIFICATION", NEW r,
           Keeps(Head(queue), r), r.resp.token = Head(queue).resp.token,
           \/ r.resp.version = Head(queue).resp.version /\ r.updatePending = Head(queue).updatePending
           \/ r.resp.version = updateCnt[Head(queue).res],
           \/ queue' = Append(Tail(queue), r)
           \/ queue' = [queue EXCEPT ![1] = r]
           \/ queue' = Tail(queue)
    PROVE  AllInform(queue', observers, updateCnt, loop)
<1>1. Others({}) = Tail(queue) /\ Deletable({})
  BY DEF Others, Without, Deletable
<1>2. \A k \in DOMAIN queue' :
          queue'[k] = r \/ \E j \in DOMAIN Tail(queue) : queue'[k] = Tail(queue)[j]
  BY <1>1, Elements DEF InformsInv, JobsInv
<1>3. Informs(r, observers, updateCnt, loop)
  BY TailInforms, SameInforms
<1> QED BY <1>2, <1>3, TailInforms DEF AllInform

-----------------------------------------------------------------------------
(* Observers that leave and join *)

\* Observers are removed from the list of r: the other endpoints stay in it.
LEMMA OthersListed ==
    ASSUME TypeInv, NEW r \in Res, NEW ks, Removed(r, ks)
    PROVE  \A s \in Res : \A e, t :
               Listed(observers[s], e, t) /\ (s # r \/ \A k \in ks : observers[r][k].ep # e)
                   => Listed(observers'[s], e, t)
<1>1. /\ observers[r] \in Seq(Observer) /\ ks \in SUBSET DOMAIN observers[r]
      /\ \A s \in Res : observers'[s] = IF s = r THEN Without(observers[r], ks) ELSE observers[s]
  BY DEF Removed, TypeInv, TypeOK
<1>2. \A k \in DOMAIN observers[r] :
          k \in ks \/ \E j \in DOMAIN Without(observers[r], ks) :
                         Without(observers[r], ks)[j] = observers[r][k]
  <2>1. CASE ks = {}
    BY <2>1 DEF Without
  <2>2. CASE ks # {}
    <3>1. PICK i \in ks : \E old : Without1(Without(observers[r], ks), observers[r], i, old)
      BY <1>1, <2>2, WithoutMap
    <3>2. PICK old : Without1(Without(observers[r], ks), observers[r], i, old)
      BY <3>1
    <3> QED BY <3>2 DEF Without1
  <2> QED BY <2>1, <2>2
<1> QED BY <1>1, <1>2 DEF Listed

LEMMA RemoveRegistered ==
    ASSUME TypeInv, AllRegistered(observers), NEW r \in Res, NEW ks, Removed(r, ks)
    PROVE  AllRegistered(observers')
<1>1. /\ observers[r] \in Seq(Observer) /\ ks \in SUBSET DOMAIN observers[r]
      /\ \A s \in Res : observers'[s] = IF s = r THEN Without(observers[r], ks) ELSE observers[s]
  BY DEF Removed, TypeInv, TypeOK
<1>2. \A k \in DOMAIN Without(observers[r], ks) :
          \E j \in DOMAIN observers[r] : Without(observers[r], ks)[k] = observers[r][j]
  BY <1>1, WithoutElements
<1> QED BY <1>1, <1>2 DEF AllRegistered

LEMMA RemoveListed ==
    ASSUME TypeInv, NEW r \in Res, NEW ep, NEW token, RemoveObserver(r, ep, token)
    PROVE  /\ \A s \in Res : \A e, t :
                Listed(observers[s], e, t) /\ (s # r \/ e # ep) => Listed(observers'[s], e, t)
           /\ AllRegistered(observers) => AllRegistered(observers')
<1> DEFINE ks == First({k \in DOMAIN observers[r] :
                          observers[r][k].ep = ep /\ observers[r][k].token = token})
<1>1. Removed(r, ks) /\ \A k \in ks : observers[r][k].ep = ep
  BY DEF RemoveObserver, Removed, First, TypeInv, TypeOK
<1> HIDE DEF ks
<1> QED BY <1>1, OthersListed, RemoveRegistered

\* After a registration the endpoint is listed under its token, the others are
\* as they were.
LEMMA AddListed ==
    ASSUME TypeInv, NEW r \in Res, NEW o \in Observer, AddObserver(r, o)
    PROVE  /\ Listed(observers'[r], o.ep, o.token)
           /\ \A s \in Res : \A e, t :
                Listed(observers[s], e, t) /\ (s # r \/ e # o.ep) => Listed(observers'[s], e, t)
           /\ AllRegistered(observers) /\ Registered(o, r) => AllRegistered(observers')
<1> DEFINE ks == ObserversAt(r, o.ep)
           w == Without(observers[r], ks)
           l == Append(w, o)
<1>1. /\ observers[r] \in Seq(Observer) /\ ks \in SUBSET DOMAIN observers[r]
      /\ \A k \in ks : observers[r][k].ep = o.ep
      /\ \A s \in Res : observers'[s] = IF s = r THEN l ELSE observers[s]
  BY DEF AddObserver, ObserversAt, First, TypeInv, TypeOK
<1>2. \A k \in DOMAIN observers[r] : observers[r][k].ep # o.ep =>
          \E j \in DOMAIN w : w[j] = observers[r][k]
  <2>1. CASE ks = {}
    BY <2>1 DEF Without
  <2>2. CASE ks # {}
    <3>1. PICK i \in ks : \E old : Without1(w, observers[r], i, old)
      BY <1>1, <2>2, WithoutMap
    <3>2. PICK old : Without1(w, observers[r], i, old)
      BY <3>1
    <3> HIDE DEF w, ks
    <3> QED BY <1>1, <3>2 DEF Without1
  <2> QED BY <2>1, <2>2
<1>3. w \in Seq(Observer) /\ \A k \in DOMAIN w : \E j \in DOMAIN observers[r] : w[k] = observers[r][j]
  <2>1. w \in Seq(Observer)
    BY <1>1, WithoutType
  <2> QED BY <1>1, <2>1, WithoutElements
<1> HIDE DEF w, ks
<1>4. /\ \A k \in DOMAIN w : k \in DOMAIN l /\ l[k] = w[k]
      /\ \E k \in DOMAIN l : l[k] = o
      /\ \A k \in DOMAIN l : l[k] = o \/ (k \in DOMAIN w /\ l[k] = w[k])
  <2>1. Len(w) + 1 \in DOMAIN l /\ l[Len(w) + 1] = o
    BY <1>3
  <2> QED BY <1>3, <2>1
<1> HIDE DEF l
<1>5. Listed(observers'[r], o.ep, o.token)
  BY <1>1, <1>4 DEF Listed
<1>6. \A s \in Res : \A e, t :
         Listed(observers[s], e, t) /\ (s # r \/ e # o.ep) => Listed(observers'[s], e, t)
  BY <1>1, <1>2, <1>4 DEF Listed
<1>7. AllRegistered(observers) /\ Registered(o, r) => AllRegistered(observers')
  BY <1>1, <1>3, <1>4 DEF AllRegistered
<1> QED BY <1>5, <1>6, <1>7

\* With one token for each observation, the token of a notification is the one
\* of its resource.
LEMMA TokenOfResource ==
    ASSUME TokenPerObservation, InformsInv, NEW r, r \in Interactions, r.role = "NOTIFICATION",
           Informs(r, observers, updateCnt, loop),
           NEW d \in Datagrams, d.ep = r.ep, d.uri \in Res,
           d.msg.observe \in {Register, Deregister}
    PROVE  d.uri = r.res <=> d.msg.token = r.resp.token
<1>1. r.res \in Res
  BY DEF Interactions, WellFormed
<1>2. PICK j \in DOMAIN observers[r.res] :
          observers[r.res][j].ep = r.ep /\ observers[r.res][j].token = r.resp.token
  BY DEF Informs, Listed
<1>3. Registered(observers[r.res][j], r.res)
  BY <1>1 DEF InformsInv, AllRegistered
<1>4. PICK e \in Datagrams : /\ e.ep = r.ep /\ e.uri = r.res /\ e.msg.token = r.resp.token
                             /\ e.msg.observe = Register
  BY <1>2, <1>3 DEF Registered
<1> QED BY <1>1, <1>4 DEF TokenPerObservation

-----------------------------------------------------------------------------
(* doWork *)

\* What the invariant says of the observers, after a step that keeps them.
InformsRest ==
    AllRegistered(observers') /\ LoopListed(observers', loop')
        /\ AllInform(queue', observers', updateCnt', loop')

LEMMA ServerInforms ==
    ASSUME TokenPerObservation, InformsInv, Idle, queue # <<>>, handleServerInteraction,
           ~Restart
    PROVE  InformsRest
<1>1. TypeInv /\ Head(queue).role = "SERVER" /\ Serving = Head(queue) /\ UNCHANGED <<updateCnt, loop>>
  <2>1. Head(queue).role = "SERVER" /\ UNCHANGED <<updateCnt, loop>>
    BY NullAnswerGoesOn
       DEF handleServerInteraction, ServeMulticastCon, ServeMulticastWait, ServeMethodNotAllowed,
           ServeDrop, ServePostponeAck, ServePostponeAgain, ServeAnswer, ServerWaitsForAck,
           ServerRetries, ServerDone, ReadyForHandler, AwaitsHandler, AnswerSent, Serving,
           serverUnchanged
  <2> QED BY <2>1 DEF Serving, InformsInv, JobsInv
<1>2. LoopListed(observers', loop')
  BY <1>1, ResAssumption DEF LoopListed, Idle
<1>3. PICK r, ks :
        /\ Keeps(Head(queue), r) /\ Deletable(ks)
        /\ \/ queue' = Append(Others(ks), r)
           \/ queue' = [queue EXCEPT ![1] = r]
           \/ queue' = Others(ks)
  BY <1>1, ServerKeeps DEF JobKept
<1>4. CASE UNCHANGED observers
  BY <1>1, <1>2, <1>3, <1>4, OthersInform DEF InformsRest, InformsInv
<1>5. CASE ServeAnswer
  <2>1. PICK m \in Answers : Answer(m)
    BY <1>5 DEF ServeAnswer
  <2>2. /\ Serving \in Interactions /\ Serving.res \in Res
        /\ Serving.ep \in Eps /\ Serving.req \in Message
    <3>1. Serving \in Interactions
      BY <1>1, ServingType
    <3> QED BY <1>1, <3>1 DEF Interactions, Interaction, WellFormed
  <2>3. PICK d \in Datagrams : d.ep = Serving.ep /\ d.uri = Serving.res /\ d.msg = Serving.req
    BY <1>1, TailInforms DEF Informs, Arrived
  <2>4. Informs(Head(queue), observers, updateCnt, loop)
        /\ \A k \in DOMAIN Tail(queue) :
             /\ Informs(Tail(queue)[k], observers, updateCnt, loop)
             /\ ~SameJob(Tail(queue)[k], Head(queue))
             /\ Tail(queue)[k] \in Interactions
    BY TailInforms
  <2>5. CASE Registers(m)
    <3>1. PICK x \in FreeOids :
            AddObserver(Serving.res,
                        [oid |-> x, ep |-> Serving.ep, token |-> Serving.req.token])
      BY <2>1, <2>5 DEF Answer, Registers, Deregisters, Register, Deregister
    <3> DEFINE o == [oid |-> x, ep |-> Serving.ep, token |-> Serving.req.token]
    <3>2. o \in Observer /\ o.ep = Serving.ep /\ o.token = Serving.req.token
      BY <2>2 DEF Observer, FreeOids, Message
    <3>3. d.msg.observe = Register
      BY <2>3, <2>5 DEF Registers
    <3>4. Registered(o, Serving.res)
      BY <2>3, <3>2, <3>3 DEF Registered
    <3>5. AddObserver(Serving.res, o)
      BY <3>1
    <3> HIDE DEF o
    <3>6. /\ Listed(observers'[Serving.res], o.ep, o.token)
          /\ \A s \in Res : \A e, t :
                Listed(observers[s], e, t) /\ (s # Serving.res \/ e # o.ep)
                    => Listed(observers'[s], e, t)
          /\ AllRegistered(observers')
      BY <1>1, <2>2, <3>2, <3>4, <3>5, AddListed DEF InformsInv
    <3>7. ASSUME NEW i \in Interactions, Informs(i, observers, updateCnt, loop)
          PROVE  Informs(i, observers', updateCnt', loop')
      <4>1. CASE i.role = "NOTIFICATION" /\ i.res = Serving.res /\ i.ep = Serving.ep
        <5>1. i.resp.token = Serving.req.token
          BY <2>2, <2>3, <3>3, <3>7, <4>1, TokenOfResource
        <5> QED BY <1>1, <3>2, <3>6, <3>7, <4>1, <5>1 DEF Informs
      <4>2. CASE ~(i.role = "NOTIFICATION" /\ i.res = Serving.res /\ i.ep = Serving.ep)
        <5>1. i.role = "NOTIFICATION" => i.res \in Res
          BY <3>7 DEF Interactions, WellFormed
        <5> QED BY <1>1, <3>2, <3>6, <3>7, <4>2, <5>1 DEF Informs
      <4> QED BY <4>1, <4>2
    <3>8. Informs(r, observers', updateCnt', loop')
      <4>1. Informs(Head(queue), observers', updateCnt', loop')
        BY <1>1, <2>2, <2>4, <3>7
      <4> QED BY <1>1, <1>3, <4>1, SameInforms
    <3>9. AllInform(queue', observers', updateCnt', loop')
      BY <1>1, <1>3, <2>4, <3>7, <3>8, Elements DEF AllInform
    <3> QED BY <1>2, <3>6, <3>9 DEF InformsRest
  <2>6. CASE Deregisters(m)
    <3> DEFINE T == {k \in DOMAIN Tail(queue) :
                        /\ Tail(queue)[k].role = "NOTIFICATION"
                        /\ Tail(queue)[k].resp.token = Serving.req.token
                        /\ Tail(queue)[k].ep = Serving.ep}
               W == Without(Tail(queue), First(T))
    <3>1. /\ RemoveObserver(Serving.res, Serving.ep, Serving.req.token)
          /\ SendResp([Serving EXCEPT !.resp = m], W, "RESPONSE_SENT")
      <4>1. /\ RemoveObserver(Serving.res, Serving.ep, Serving.req.token)
            /\ SendResp([Serving EXCEPT !.resp = m],
                        Without(Tail(queue), PendingNotification(Tail(queue))), "RESPONSE_SENT")
        BY <2>1, <2>6 DEF Answer, Registers, Deregisters, Register, Deregister
      <4>2. PendingNotification(Tail(queue)) = First(T)
        BY DEF PendingNotification
      <4> HIDE DEF T
      <4> QED BY <4>1, <4>2
    <3>2. d.msg.observe = Deregister
      BY <2>3, <2>6 DEF Deregisters
    <3>3. ASSUME NEW k \in DOMAIN Tail(queue), Tail(queue)[k].role = "NOTIFICATION",
                 Tail(queue)[k].ep = Serving.ep
          PROVE  Tail(queue)[k].res = Serving.res <=> k \in T
      BY <2>2, <2>3, <2>4, <3>2, <3>3, TokenOfResource
    <3>4. \A j, k \in T : j = k
      <4>1. queue \in Seq(Interactions)
        BY <1>1, ServingType
      <4>2. Distinct(Tail(queue))
        BY <4>1, TailJobs DEF InformsInv, JobsInv
      <4> QED BY <3>3, <4>2 DEF Distinct, SameJob
    <3>5. Tail(queue) \in Seq(Interactions) /\ T \subseteq DOMAIN Tail(queue) /\ T \subseteq Nat
      BY <1>1, ServingType
    <3>6. First(T) = T
      BY <3>4, <3>5 DEF First
    <3> HIDE DEF T
    <3>7. \A k \in DOMAIN W :
             \E j \in DOMAIN Tail(queue) : W[k] = Tail(queue)[j] /\ j \notin T
      <4>1. CASE T = {}
        BY <3>6, <4>1 DEF Without
      <4>2. CASE T # {}
        <5>1. PICK i \in T : \E old : Without1(W, Tail(queue), i, old)
          BY <3>5, <3>6, <4>2, WithoutMap
        <5>2. PICK old : Without1(W, Tail(queue), i, old)
          BY <5>1
        <5>3. \A j \in T : j = i
          BY <3>4
        <5> HIDE DEF W
        <5> QED BY <5>2, <5>3 DEF Without1
      <4> QED BY <4>1, <4>2
    <3>8. W \in Seq(Interactions)
      BY <3>5, <3>6, WithoutType
    <3> HIDE DEF W
    <3>9. /\ \A s \in Res : \A e, t :
               Listed(observers[s], e, t) /\ (s # Serving.res \/ e # Serving.ep)
                   => Listed(observers'[s], e, t)
          /\ AllRegistered(observers')
      BY <1>1, <2>2, <3>1, RemoveListed DEF InformsInv
    <3>11. ASSUME NEW i \in Interactions, Informs(i, observers, updateCnt, loop),
                  ~(i.role = "NOTIFICATION" /\ i.res = Serving.res /\ i.ep = Serving.ep)
           PROVE  Informs(i, observers', updateCnt', loop')
      <4>1. i.role = "NOTIFICATION" => i.res \in Res
        BY <3>11 DEF Interactions, WellFormed
      <4> QED BY <1>1, <3>9, <3>11, <4>1 DEF Informs
    <3>12. \A k \in DOMAIN W : Informs(W[k], observers', updateCnt', loop')
      <4> SUFFICES ASSUME NEW k \in DOMAIN W PROVE Informs(W[k], observers', updateCnt', loop')
        OBVIOUS
      <4>1. PICK j \in DOMAIN Tail(queue) : W[k] = Tail(queue)[j] /\ j \notin T
        BY <3>7
      <4> QED BY <2>4, <3>3, <3>11, <4>1
    <3> DEFINE a == Answered([Serving EXCEPT !.resp = m], "RESPONSE_SENT")
    <3>13. queue' = Append(W, a) \/ queue' = W
      BY <3>1 DEF SendResp
    <3>14. Informs(a, observers', updateCnt', loop')
      <4>1. Keeps(Serving, a)
        <5>1. Keeps(Serving, [Serving EXCEPT !.resp = m])
          BY <2>2 DEF Keeps, Interactions, Interaction
        <5>2. [Serving EXCEPT !.resp = m] \in Interactions
          BY <1>1, <1>5, <2>1, <2>2, AnswersType, RespType DEF ServeAnswer
        <5> QED BY <5>1, <5>2, StagesKeep
      <4>2. Informs(Serving, observers', updateCnt', loop')
        BY <1>1, <2>2, <2>4, <3>11
      <4> HIDE DEF a
      <4> QED BY <1>1, <4>1, <4>2, SameInforms
    <3> HIDE DEF a
    <3>15. AllInform(queue', observers', updateCnt', loop')
      <4>1. CASE queue' = W
        BY <3>12, <4>1 DEF AllInform
      <4>2. CASE queue' = Append(W, a)
        <5>1. W \in Seq(Interactions \cup {a}) /\ a \in Interactions \cup {a}
          BY <3>8, SeqGrows
        <5>2. \A k \in DOMAIN queue' : queue'[k] = a \/ (k \in DOMAIN W /\ queue'[k] = W[k])
          BY <4>2, <5>1
        <5> QED BY <3>12, <3>14, <5>2 DEF AllInform
      <4> QED BY <3>13, <4>1, <4>2
    <3> QED BY <1>2, <3>9, <3>15 DEF InformsRest
  <2>7. CASE ~Registers(m) /\ ~Deregisters(m)
    BY <1>4, <2>1, <2>7 DEF Answer
  <2> QED BY <2>5, <2>6, <2>7
<1> QED
  BY <1>4, <1>5, NullAnswerGoesOn
     DEF handleServerInteraction, ServeMulticastCon, ServeMulticastWait, ServeMethodNotAllowed,
         ServeDrop, ServePostponeAck, ServePostponeAgain, ServerWaitsForAck, ServerRetries,
         ServerDone

LEMMA RestartInforms ==
    ASSUME Restart
    PROVE  InformsRest
BY ResAssumption DEF Restart, InformsRest, AllRegistered, LoopListed, AllInform, NoLoop

\* A notifier that answers renews the version the notification shows.
LEMMA RenewedShowsVersion ==
    ASSUME TypeInv, queue # <<>>, NotifiersAnswer, Pending.role = "NOTIFICATION",
           NEW outcome \in NotifierOutcomes
    PROVE  /\ Renewed(outcome) \in Message
           /\ Renewed(outcome).token = Pending.resp.token
           /\ Renewed(outcome).version = updateCnt[Pending.res]
           /\ ObserverAfter(outcome) => UNCHANGED observers
<1>1. Pending.resp \in Message
  BY PendingType
<1>2. outcome = "ok" \/ outcome = "non"
  BY DEF NotifiersAnswer
<1> QED BY <1>1, <1>2, RenewedType DEF Renewed, ObserverAfter, Message

LEMMA NotifyInforms ==
    ASSUME NotifiersAnswer, InformsInv, Idle, queue # <<>>, handleNotifyInteraction
    PROVE  InformsRest
<1>1. /\ TypeInv /\ UNCHANGED <<updateCnt, loop>>
      /\ Pending = Head(queue) /\ Pending \in Interactions /\ Pending.role = "NOTIFICATION"
      /\ Pending.resp \in Message /\ Pending.res \in Res
  <2>1. Pending = Head(queue)
    BY DEF Pending
  <2>2. Pending.role = "NOTIFICATION" /\ UNCHANGED <<updateCnt, loop>>
    BY DEF handleNotifyInteraction, SendNotification, NotificationWaits, NotificationRetries,
           NotificationRestarts, NotificationDone, NotificationRefused, NotificationSent,
           servingUnchanged, notifyUnchanged
  <2>3. TypeInv
    BY DEF InformsInv, JobsInv
  <2>4. Pending \in Interactions /\ Pending.resp \in Message
    BY <2>1, <2>2, <2>3, PendingType
  <2> QED BY <2>1, <2>2, <2>3, <2>4 DEF Interactions, WellFormed
<1>2. LoopListed(observers', loop')
  BY <1>1, ResAssumption DEF LoopListed, Idle
<1>3. /\ Keeps(Head(queue), Pending)
      /\ \A r : Retransmit(r, r.resp) =>
            \/ queue' = [queue EXCEPT ![1] = EnableAckTimeout([r EXCEPT !.retransCounter = @ + 1])]
            \/ queue' = Tail(queue)
  BY <1>1 DEF Keeps, Retransmit, UpdateHead, DeleteHead
<1>4. CASE UNCHANGED observers
  <2>1. SUFFICES AllInform(queue', observers, updateCnt, loop)
    BY <1>1, <1>2, <1>4 DEF InformsRest, InformsInv
  <2>2. CASE SendNotification
    <3>1. /\ Keeps(Head(queue), Answered(Pending, "NOTIFICATION_SENT"))
          /\ Answered(Pending, "NOTIFICATION_SENT").resp = Pending.resp
          /\ Answered(Pending, "NOTIFICATION_SENT").updatePending = Pending.updatePending
      BY <1>1, <1>3 DEF Answered, Keeps, Interactions, Interaction
    <3>2. \/ queue' = Append(Tail(queue), Answered(Pending, "NOTIFICATION_SENT"))
          \/ queue' = Tail(queue)
      BY <2>2 DEF SendNotification, SendResp
    <3> QED BY <1>1, <3>1, <3>2, HeadInforms
  <2>3. CASE NotificationWaits
    <3>1. /\ Keeps(Head(queue), SetSleep(Pending, Pending.ackLeft))
          /\ SetSleep(Pending, Pending.ackLeft).resp = Pending.resp
          /\ SetSleep(Pending, Pending.ackLeft).updatePending = Pending.updatePending
      BY <1>1, <1>3 DEF SetSleep, Keeps, Interactions, Interaction
    <3>2. queue' = Append(Tail(queue), SetSleep(Pending, Pending.ackLeft))
      BY <2>3 DEF NotificationWaits, EnqueueHead
    <3> QED BY <1>1, <3>1, <3>2, HeadInforms
  <2>4. CASE NotificationRetries
    <3>1. PICK r \in Interactions :
            /\ Retransmit(r, r.resp) /\ Keeps(Head(queue), r)
            /\ r.resp.token = Pending.resp.token
            /\ \/ r.resp.version = Pending.resp.version /\ r.updatePending = Pending.updatePending
               \/ r.resp.version = updateCnt[Pending.res]
      <4>1. CASE ~Pending.updatePending
        <5>1. Retransmit(Pending, Pending.resp)
          BY <2>4, <4>1 DEF NotificationRetries
        <5> QED BY <1>1, <1>3, <5>1
      <4>2. CASE Pending.updatePending
        <5>1. PICK outcome \in NotifierOutcomes :
                LET m == [Renewed(outcome) EXCEPT !.type = Pending.resp.type] IN
                /\ Retransmit([Pending EXCEPT !.resp = m, !.updatePending = FALSE], m)
                /\ ObserverAfter(outcome)
          BY <2>4, <4>2 DEF NotificationRetries
        <5> DEFINE m == [Renewed(outcome) EXCEPT !.type = Pending.resp.type]
                   r == [Pending EXCEPT !.resp = m, !.updatePending = FALSE]
        <5>2. /\ m \in Message /\ m.token = Pending.resp.token
              /\ m.version = updateCnt[Pending.res]
          BY <1>1, RenewedShowsVersion DEF Message
        <5>3. Retransmit(r, m)
          BY <5>1
        <5> HIDE DEF m
        <5>4. r \in Interactions /\ Keeps(Head(queue), r) /\ r.resp = m
          BY <1>1, <5>2 DEF Keeps, Interactions, Interaction, WellFormed, MessageOrNull
        <5> HIDE DEF r
        <5> QED BY <5>2, <5>3, <5>4
      <4> QED BY <4>1, <4>2, <1>1 DEF Interactions, Interaction
    <3> DEFINE s == EnableAckTimeout([r EXCEPT !.retransCounter = @ + 1])
    <3>2. Keeps(Head(queue), s) /\ s.resp = r.resp /\ s.updatePending = r.updatePending
      BY <3>1 DEF Keeps, EnableAckTimeout, Interactions, Interaction
    <3>3. queue' = [queue EXCEPT ![1] = s] \/ queue' = Tail(queue)
      BY <1>3, <3>1
    <3> HIDE DEF s
    <3> QED BY <1>1, <3>1, <3>2, <3>3, HeadInforms
  <2>5. CASE NotificationRestarts
    <3>1. PICK outcome \in NotifierOutcomes :
            /\ EnqueueHead([Pending EXCEPT !.state = "READY_TO_NOTIFY", !.retransCounter = 0,
                                           !.updatePending = FALSE, !.resConfirm = "NOT_SET",
                                           !.resp = Renewed(outcome)])
            /\ ObserverAfter(outcome)
      BY <2>5 DEF NotificationRestarts
    <3> DEFINE r == [Pending EXCEPT !.state = "READY_TO_NOTIFY", !.retransCounter = 0,
                                    !.updatePending = FALSE, !.resConfirm = "NOT_SET",
                                    !.resp = Renewed(outcome)]
    <3>2. Keeps(Head(queue), r) /\ r.resp = Renewed(outcome)
      BY <1>1 DEF Keeps, Interactions, Interaction
    <3>3. queue' = Append(Tail(queue), r)
      BY <3>1 DEF EnqueueHead
    <3> HIDE DEF r
    <3>4. /\ Renewed(outcome).token = Pending.resp.token
          /\ Renewed(outcome).version = updateCnt[Pending.res]
      BY <1>1, RenewedShowsVersion
    <3> QED BY <1>1, <3>2, <3>3, <3>4, HeadInforms
  <2>6. CASE DeleteHead
    BY <1>1, <1>3, <2>6, HeadInforms DEF DeleteHead
  <2> QED
    BY <2>2, <2>3, <2>4, <2>5, <2>6
       DEF handleNotifyInteraction, NotificationDone, NotificationRefused
<1>5. CASE NotificationRefused
  <2>1. /\ \A s \in Res : \A e, t :
             Listed(observers[s], e, t) /\ (s # Pending.res \/ e # Pending.ep)
                 => Listed(observers'[s], e, t)
        /\ AllRegistered(observers')
    BY <1>1, <1>5, RemoveListed DEF NotificationRefused, InformsInv
  <2>2. queue' = Tail(queue)
    BY <1>5 DEF NotificationRefused, DeleteHead
  <2>3. ASSUME NEW k \in DOMAIN Tail(queue)
        PROVE  Informs(Tail(queue)[k], observers', updateCnt', loop')
    <3> DEFINE i == Tail(queue)[k]
    <3>1. Informs(i, observers, updateCnt, loop) /\ ~SameJob(i, Pending) /\ i \in Interactions
      BY <1>1, TailInforms
    <3>2. i.role = "NOTIFICATION" => i.res \in Res /\ (i.res # Pending.res \/ i.ep # Pending.ep)
      BY <1>1, <3>1 DEF SameJob, Interactions, WellFormed
    <3> HIDE DEF i
    <3>3. Informs(i, observers', updateCnt', loop')
      BY <1>1, <2>1, <3>1, <3>2 DEF Informs
    <3> QED BY <3>3 DEF i
  <2> QED BY <1>2, <2>1, <2>2, <2>3 DEF InformsRest, AllInform
<1> QED
  <2>1. CASE NotificationRetries \/ NotificationRestarts
    <3>1. UNCHANGED observers \/ \E outcome \in NotifierOutcomes : ObserverAfter(outcome)
      BY <2>1, Zenon DEF NotificationRetries, NotificationRestarts
    <3> QED BY <1>1, <1>4, <3>1, RenewedShowsVersion
  <2> QED
    BY <1>4, <1>5, <2>1
       DEF handleNotifyInteraction, SendNotification, NotificationWaits, NotificationDone

\* A client at the head stays what it was or is gone.
LEMMA ClientInforms ==
    ASSUME InformsInv, Idle, queue # <<>>, handleClientInteraction
    PROVE  InformsRest
<1>1. TypeInv /\ Asking = Head(queue) /\ Asking \in Interactions
  BY ServingType DEF InformsInv, JobsInv, Asking
<1>2. Asking.role = "CLIENT" /\ UNCHANGED <<updateCnt, loop, observers>>
  BY DEF handleClientInteraction, SendRequest, ClientWaits, ClientRetries, ClientGivesUp,
         HandleResponse, AwaitsResponse, clientUnchanged
<1>3. Others({}) = Tail(queue) /\ Deletable({}) /\ Keeps(Asking, Asking)
  BY DEF Others, Without, Deletable, Keeps
<1>4. SUFFICES \E r : /\ Keeps(Head(queue), r)
                      /\ \/ queue' = Append(Tail(queue), r)
                         \/ queue' = [queue EXCEPT ![1] = r]
                         \/ queue' = Tail(queue)
  BY <1>1, <1>2, <1>3, OthersInform DEF InformsRest, InformsInv
<1>5. CASE DeleteHead
  BY <1>1, <1>3, <1>5 DEF DeleteHead
<1>6. CASE SendRequest
  <2> DEFINE w == IF Asking.req.type = "CON" THEN WaitTime[0] ELSE Asking.ackLeft
             r == [Asking EXCEPT !.state = "WAITING_RESPONSE", !.reqAge = 0, !.ackLeft = w]
  <2>1. Keeps(Head(queue), r)
    BY <1>1 DEF Keeps, Interactions, Interaction
  <2>2. queue' = Append(Tail(queue), r) \/ DeleteHead
    BY <1>6 DEF SendRequest, EnqueueHead
  <2> HIDE DEF r
  <2> QED BY <1>5, <2>1, <2>2
<1>7. CASE ClientWaits
  BY <1>1, <1>3, <1>7 DEF ClientWaits, EnqueueHead
<1>8. CASE ClientRetries
  <2> DEFINE r == [Asking EXCEPT !.reqAge = 0]
             s == EnableAckTimeout([r EXCEPT !.retransCounter = @ + 1])
  <2>1. r \in Interactions /\ Keeps(Head(queue), r)
    BY <1>1 DEF Keeps, Interactions, Interaction, WellFormed
  <2>2. Retransmit(r, Asking.req)
    BY <1>8 DEF ClientRetries
  <2> HIDE DEF r
  <2>3. queue' = [queue EXCEPT ![1] = s] \/ DeleteHead
    BY <2>2 DEF Retransmit, UpdateHead
  <2>4. Keeps(Head(queue), s)
    BY <2>1, StagesKeep
  <2> HIDE DEF s
  <2> QED BY <1>5, <2>3, <2>4
<1> QED
  BY <1>5, <1>6, <1>7, <1>8 DEF handleClientInteraction, ClientGivesUp, HandleResponse

LEMMA RotateInforms ==
    ASSUME InformsInv, queue # <<>>, Rotate
    PROVE  InformsRest
<1>1. /\ UNCHANGED <<updateCnt, loop, observers>>
      /\ queue' = Append(Tail(queue), Head(queue)) /\ Keeps(Head(queue), Head(queue))
  BY DEF Rotate, EnqueueHead, Keeps
<1>2. Others({}) = Tail(queue) /\ Deletable({})
  BY DEF Others, Without, Deletable
<1>3. AllInform(queue', observers, updateCnt, loop)
  BY <1>1, <1>2, OthersInform, HeadInforms
<1> QED BY <1>1, <1>3 DEF InformsRest, InformsInv

-----------------------------------------------------------------------------
(* Packets, the clock and the loop over the observers *)

\* s is a later stage of r with the same notification.
LaterStage(r, s) ==
    Keeps(r, s) /\ (r.role = "NOTIFICATION" => /\ s.resp = r.resp
                                               /\ s.updatePending = r.updatePending)

LEMMA PointwiseInforms ==
    ASSUME NEW q, NEW q2, NEW obs, NEW cnt, NEW lp, AllInform(q, obs, cnt, lp),
           DOMAIN q2 = DOMAIN q, \A k \in DOMAIN q : LaterStage(q[k], q2[k])
    PROVE  AllInform(q2, obs, cnt, lp)
<1> SUFFICES ASSUME NEW k \in DOMAIN q PROVE Informs(q2[k], obs, cnt, lp)
  BY DEF AllInform
<1>1. Informs(q[k], obs, cnt, lp) /\ LaterStage(q[k], q2[k])
  BY DEF AllInform
<1> QED BY <1>1, SameInforms DEF LaterStage

LEMMA AppendInforms ==
    ASSUME NEW S, NEW q \in Seq(S), NEW r \in S, NEW obs, NEW cnt, NEW lp,
           AllInform(q, obs, cnt, lp), Informs(r, obs, cnt, lp)
    PROVE  AllInform(Append(q, r), obs, cnt, lp)
<1>1. \A k \in DOMAIN Append(q, r) :
          Append(q, r)[k] = r \/ (k \in DOMAIN q /\ Append(q, r)[k] = q[k])
  OBVIOUS
<1> QED BY <1>1 DEF AllInform

LEMMA PacketInforms ==
    ASSUME InformsInv, NEW d \in Datagrams, HandleIncomingPacket(d)
    PROVE  InformsRest
<1> DEFINE w == Woken(d)
<1>1. /\ TypeInv /\ w \in Seq(Interactions) /\ DOMAIN w = DOMAIN queue
      /\ queue \in Seq(Interactions)
  BY WokenType DEF InformsInv, JobsInv
<1>2. UNCHANGED <<updateCnt, observers, loop>>
  BY DEF HandleIncomingPacket, RxPing, RxIgnored, RxUnknownUri, RxCritical, RxReset, RxAck,
         RxRequest, RxSeparateResponse, RxUnexpectedResponse, StartNewServerInteraction,
         serverUnchanged, rxUnchanged
<1>3. \A k \in DOMAIN queue : /\ w[k] \in Interactions /\ LaterStage(queue[k], w[k])
                              /\ LaterStage(queue[k], queue[k])
  <2>1. \A k \in DOMAIN queue : w[k] = Wakeup(queue[k]) \/ w[k] = queue[k]
    BY DEF Woken
  <2>2. \A k \in DOMAIN queue : queue[k] \in Interactions /\ w[k] \in Interactions
    BY <1>1
  <2>3. \A r \in Interactions : LaterStage(r, r) /\ LaterStage(r, Wakeup(r))
    BY DEF LaterStage, Keeps, Wakeup, Interactions, Interaction
  <2> HIDE DEF w
  <2> QED BY <2>1, <2>2, <2>3
<1> HIDE DEF w
<1>4. ASSUME DOMAIN queue' = DOMAIN queue, \A k \in DOMAIN queue : LaterStage(queue[k], queue'[k])
      PROVE  InformsRest
  <2>1. AllInform(queue', observers, updateCnt, loop)
    BY <1>4, PointwiseInforms DEF InformsInv
  <2> QED BY <1>2, <2>1 DEF InformsRest, InformsInv
<1>5. CASE queue' = queue \/ queue' = w
  BY <1>1, <1>3, <1>4, <1>5
<1>6. CASE RxReset(d)
  <2>1. queue' = [k \in DOMAIN queue |->
                    IF k \in Found(d) THEN [w[k] EXCEPT !.resConfirm = "RST_SEND"] ELSE queue[k]]
    BY <1>6 DEF RxReset, w
  <2>2. \A k \in DOMAIN queue : LaterStage(queue[k], [w[k] EXCEPT !.resConfirm = "RST_SEND"])
    BY <1>1, <1>3 DEF LaterStage, Keeps, Interactions, Interaction
  <2> QED BY <1>3, <1>4, <2>1, <2>2
<1>7. CASE RxAck(d)
  <2>1. queue' = [k \in DOMAIN queue |->
                    IF k \in Found(d) THEN Acknowledged(w[k], d.msg) ELSE queue[k]]
    BY <1>7 DEF RxAck, w
  <2>2. \A k \in DOMAIN queue : LaterStage(queue[k], Acknowledged(w[k], d.msg))
    <3> SUFFICES ASSUME NEW r, NEW s \in Interactions, LaterStage(r, s)
                 PROVE  LaterStage(r, Acknowledged(s, d.msg))
      BY <1>3
    <3>1. CASE Piggybacked(s, d.msg)
      BY <3>1 DEF LaterStage, Keeps, Acknowledged, Piggybacked, Interactions, Interaction
    <3>2. CASE ~Piggybacked(s, d.msg)
      BY <3>2 DEF LaterStage, Keeps, Acknowledged, Interactions, Interaction
    <3> QED BY <3>1, <3>2
  <2> QED BY <1>3, <1>4, <2>1, <2>2
<1>8. CASE RxRequest(d)
  <2>1. StartNewServerInteraction(d, w)
    BY <1>8 DEF RxRequest, w
  <2> DEFINE n == [NewInteraction("SERVER", "HANDLE_REQUEST", d.ep) EXCEPT
                      !.res = d.uri, !.multicast = d.multicast, !.req = d.msg]
  <2>2. queue' = w \/ queue' = Append(w, n)
    BY <2>1 DEF StartNewServerInteraction
  <2>3. Informs(n, observers, updateCnt, loop)
    BY DEF Informs, Arrived, NewInteraction
  <2> HIDE DEF n
  <2>4. CASE queue' = Append(w, n)
    <3>1. AllInform(w, observers, updateCnt, loop)
      BY <1>1, <1>3, PointwiseInforms DEF InformsInv
    <3>2. w \in Seq(Interactions \cup {n}) /\ n \in Interactions \cup {n}
      BY <1>1, SeqGrows
    <3>3. AllInform(queue', observers, updateCnt, loop)
      BY <2>3, <2>4, <3>1, <3>2, AppendInforms
    <3> QED BY <1>2, <3>3 DEF InformsRest, InformsInv
  <2> QED BY <1>5, <2>2, <2>4
<1>9. CASE RxSeparateResponse(d)
  <2>1. PICK k \in Requested(d) :
          queue' = [w EXCEPT ![k] =
                      IF Sent THEN [Attached(w[k], d.msg) EXCEPT !.resConfirm = "ACK_SEND"]
                      ELSE Attached(w[k], d.msg)]
    BY <1>9 DEF RxSeparateResponse, w
  <2>2. k \in DOMAIN queue /\ queue[k].role = "CLIENT"
    BY DEF Requested, First
  <2>3. /\ LaterStage(queue[k], Attached(w[k], d.msg))
        /\ LaterStage(queue[k], [Attached(w[k], d.msg) EXCEPT !.resConfirm = "ACK_SEND"])
    BY <1>1, <1>3, <2>2 DEF LaterStage, Keeps, Attached, Interactions, Interaction
  <2>4. DOMAIN queue' = DOMAIN queue /\ \A j \in DOMAIN queue : LaterStage(queue[j], queue'[j])
    BY <1>1, <1>3, <2>1, <2>2, <2>3
  <2> QED BY <1>4, <2>4
<1> QED
  BY <1>5, <1>6, <1>7, <1>8, <1>9
     DEF HandleIncomingPacket, RxPing, RxIgnored, RxUnknownUri, RxCritical, RxUnexpectedResponse, w

\* The loop goes on: the other observers are still to come.
LEMMA NextAwaits ==
    ASSUME TypeInv, ~Idle, LoopListed(observers, loop), NextObserver
    PROVE  /\ LoopListed(observers, loop')
           /\ \A r : r.res \in Res /\ Awaited(r, loop) =>
                 Awaited(r, loop') \/ (r.res = loop.res /\ r.ep = ThisObserver.ep)
<1>1. /\ loop.res \in Res /\ loop.todo \in Seq(Observer) /\ loop.todo # <<>>
      /\ loop \in [res : Res \cup {NoRes}, todo : Seq(Observer)]
  BY DEF TypeInv, TypeOK, LoopOK
<1> DEFINE todo == loop.todo
<1>2. /\ Len(todo) \in Nat \ {0} /\ DOMAIN todo = 1 .. Len(todo) /\ Head(todo) = todo[1]
      /\ Tail(todo) \in Seq(Observer) /\ DOMAIN Tail(todo) = 1 .. Len(todo) - 1
      /\ \A k \in DOMAIN Tail(todo) : Tail(todo)[k] = todo[k + 1] /\ k + 1 \in DOMAIN todo
  BY <1>1
<1>3. \A k \in DOMAIN todo : k = 1 \/ (k - 1 \in DOMAIN Tail(todo) /\ Tail(todo)[k - 1] = todo[k])
  BY <1>2
<1> HIDE DEF todo
<1>4. CASE Len(todo) = 1
  <2>1. loop'.res \notin Res
    BY <1>4, ResAssumption DEF NextObserver, NoLoop, todo
  <2>2. \A k \in DOMAIN todo : todo[k] = ThisObserver
    BY <1>2, <1>4 DEF ThisObserver, todo
  <2> QED BY <2>1, <2>2 DEF LoopListed, Awaited, todo
<1>5. CASE Len(todo) # 1
  <2>1. loop'.res = loop.res /\ loop'.todo = Tail(todo)
    BY <1>1, <1>5 DEF NextObserver, todo
  <2>2. LoopListed(observers, loop')
    BY <1>2, <2>1 DEF LoopListed, todo
  <2>3. ASSUME NEW r, Awaited(r, loop)
        PROVE  Awaited(r, loop') \/ (r.res = loop.res /\ r.ep = ThisObserver.ep)
    <3>1. PICK k \in DOMAIN todo : r.res = loop.res /\ todo[k].ep = r.ep
      BY <2>3 DEF Awaited, todo
    <3>2. CASE k = 1
      BY <1>2, <3>1, <3>2 DEF ThisObserver, todo
    <3>3. CASE k # 1
      BY <1>3, <2>1, <3>1, <3>3 DEF Awaited
    <3> QED BY <3>2, <3>3
  <2> QED BY <2>2, <2>3
<1> QED BY <1>4, <1>5

\* The loop comes to an observer: its notification is marked or a new one
\* shows the version.
LEMMA StartNotifyInforms ==
    ASSUME NotifiersAnswer, InformsInv, ~NotifyOutOfMemory, StartNotifyInteractions
    PROVE  InformsRest
<1>1. TypeInv /\ queue \in Seq(Interactions)
  BY QueueType DEF InformsInv, JobsInv, TypeInv
<1>2. MarkOngoing \/ StartNotification
  BY DEF NotifiersAnswer, StartNotifyInteractions, NotifierFails, NotifierReturnsErrorCode
<1>3. ~Idle /\ NextObserver /\ UNCHANGED <<updateCnt, observers>>
  BY <1>2 DEF MarkOngoing, StartNotification, StartsNotification
<1>4. /\ LoopListed(observers, loop')
      /\ \A r : r.res \in Res /\ Awaited(r, loop) =>
            Awaited(r, loop') \/ (r.res = loop.res /\ r.ep = ThisObserver.ep)
  BY <1>1, <1>3, NextAwaits DEF InformsInv
<1>5. \A k \in DOMAIN queue : queue[k] \in Interactions /\ Informs(queue[k], observers, updateCnt, loop)
  BY <1>1 DEF InformsInv, AllInform
<1>6. ASSUME NEW r \in Interactions, Informs(r, observers, updateCnt, loop),
             ~(r.role = "NOTIFICATION" /\ r.res = loop.res /\ r.ep = ThisObserver.ep)
      PROVE  Informs(r, observers, updateCnt, loop')
  <2>1. r.role = "NOTIFICATION" => r.res \in Res
    BY DEF Interactions, WellFormed
  <2> QED BY <1>4, <1>6, <2>1 DEF Informs, Current
<1>7. SUFFICES AllInform(queue', observers, updateCnt, loop')
  BY <1>3, <1>4 DEF InformsRest, InformsInv
<1>8. CASE MarkOngoing
  <2>1. PICK k \in Ongoing : queue' = [queue EXCEPT ![k] = Wakeup([@ EXCEPT !.updatePending = TRUE])]
    BY <1>8 DEF MarkOngoing
  <2>2. /\ k \in DOMAIN queue /\ queue[k] \in Interactions
        /\ queue[k].role = "NOTIFICATION" /\ queue[k].res = loop.res
        /\ queue[k].ep = ThisObserver.ep
    BY <1>1 DEF Ongoing, First
  <2> DEFINE s == Wakeup([queue[k] EXCEPT !.updatePending = TRUE])
  <2>3. Keeps(queue[k], s) /\ s.resp = queue[k].resp /\ s.updatePending = TRUE
    BY <2>2 DEF Keeps, Wakeup, Interactions, Interaction
  <2>4. \A j \in DOMAIN queue' : j \in DOMAIN queue /\ queue'[j] = IF j = k THEN s ELSE queue[j]
    BY <2>1, <2>2
  <2> HIDE DEF s
  <2>5. Informs(s, observers, updateCnt, loop')
    BY <1>5, <2>2, <2>3 DEF Informs, Current, Keeps
  <2>6. ASSUME NEW j \in DOMAIN queue, j # k
        PROVE  Informs(queue[j], observers, updateCnt, loop')
    <3>1. ~(queue[j].role = "NOTIFICATION" /\ queue[j].res = loop.res
             /\ queue[j].ep = ThisObserver.ep)
      BY <2>2, <2>6 DEF InformsInv, JobsInv, Distinct, SameJob
    <3> QED BY <1>5, <1>6, <3>1
  <2> QED BY <2>4, <2>5, <2>6 DEF AllInform
<1>9. CASE StartNotification
  <2>1. PICK outcome \in NotifierOutcomes \cap {"ok", "non"} :
          queue' = Append(queue,
            [NewInteraction("NOTIFICATION", "READY_TO_NOTIFY", ThisObserver.ep) EXCEPT
                !.res = loop.res, !.pObserver = ThisObserver.oid,
                !.resp = [CreateMessage(NotificationType(outcome), "2.05", NextMid(mid), ThisObserver.token)
                            EXCEPT !.observe = updateCnt[loop.res],
                                   !.version = updateCnt[loop.res]]])
    BY <1>9 DEF StartNotification
  <2> DEFINE m == [CreateMessage(NotificationType(outcome), "2.05", NextMid(mid), ThisObserver.token)
                            EXCEPT !.observe = updateCnt[loop.res],
                                   !.version = updateCnt[loop.res]]
             n == [NewInteraction("NOTIFICATION", "READY_TO_NOTIFY", ThisObserver.ep) EXCEPT
                      !.res = loop.res, !.pObserver = ThisObserver.oid, !.resp = m]
  <2>2. queue' = Append(queue, n)
    BY <2>1
  <2>3. m.token = ThisObserver.token /\ m.version = updateCnt[loop.res]
    BY DEF CreateMessage
  <2> HIDE DEF m
  <2>4. n.role = "NOTIFICATION" /\ n.res = loop.res /\ n.ep = ThisObserver.ep /\ n.resp = m
    BY DEF NewInteraction
  <2> HIDE DEF n
  <2>5. Listed(observers[loop.res], ThisObserver.ep, ThisObserver.token)
    <3>1. loop.res \in Res /\ 1 \in DOMAIN loop.todo /\ ThisObserver = loop.todo[1]
      BY <1>1, <1>3 DEF TypeInv, TypeOK, LoopOK, ThisObserver
    <3> QED BY <3>1 DEF InformsInv, LoopListed, Listed
  <2>6. Informs(n, observers, updateCnt, loop')
    BY <2>3, <2>4, <2>5 DEF Informs, Current
  <2>7. \A k \in DOMAIN queue : Informs(queue[k], observers, updateCnt, loop')
    <3> DEFINE T == {k \in DOMAIN queue : /\ queue[k].role = "NOTIFICATION"
                                          /\ queue[k].res = loop.res
                                          /\ queue[k].ep = ThisObserver.ep}
    <3>1. T \subseteq Nat
      BY <1>1
    <3>2. First(T) = {}
      BY <1>9 DEF StartNotification, StartsNotification, Ongoing
    <3>3. T = {}
      BY <3>1, <3>2, FirstExists
    <3> QED BY <1>5, <1>6, <3>3
  <2>8. queue \in Seq(Interactions \cup {n}) /\ n \in Interactions \cup {n}
    BY <1>1, SeqGrows
  <2>9. AllInform(queue, observers, updateCnt, loop')
    BY <2>7 DEF AllInform
  <2> QED BY <2>2, <2>6, <2>8, <2>9, AppendInforms
<1> QED BY <1>2, <1>8, <1>9

\* A resource changes: the loop is going to come to all its observers.
LEMMA ChangeInforms ==
    ASSUME InformsInv, NEW r \in Res, NotifyResourceObservers(r)
    PROVE  InformsRest
<1>1. /\ TypeInv /\ queue \in Seq(Interactions) /\ Idle /\ UNCHANGED <<queue, observers>>
      /\ updateCnt' = [updateCnt EXCEPT ![r] = @ + 1]
      /\ loop' = IF observers[r] = <<>> THEN NoLoop ELSE [res |-> r, todo |-> observers[r]]
  BY QueueType DEF InformsInv, JobsInv, TypeInv, NotifyResourceObservers
<1>2. LoopListed(observers, loop')
  BY <1>1, ResAssumption DEF LoopListed, NoLoop
<1>3. ASSUME NEW k \in DOMAIN queue
      PROVE  Informs(queue[k], observers', updateCnt', loop')
  <2> DEFINE i == queue[k]
  <2>1. i \in Interactions /\ Informs(i, observers, updateCnt, loop)
    BY <1>1 DEF InformsInv, AllInform
  <2>2. CASE i.role = "NOTIFICATION"
    <3>1. i.res \in Res /\ Listed(observers[i.res], i.ep, i.resp.token)
      BY <2>1, <2>2 DEF Interactions, WellFormed, Informs
    <3>2. CASE i.res = r
      <4>1. PICK j \in DOMAIN observers[r] : observers[r][j].ep = i.ep
        BY <3>1, <3>2 DEF Listed
      <4>2. loop' = [res |-> r, todo |-> observers[r]]
        BY <1>1, <4>1
      <4>3. Awaited(i, loop')
        BY <3>2, <4>1, <4>2 DEF Awaited
      <4> QED BY <1>1, <2>1, <2>2, <3>1, <4>3 DEF Informs, Current
    <3>3. CASE i.res # r
      <4>1. ~Awaited(i, loop)
        BY <1>1, <3>1, ResAssumption DEF Awaited, Idle
      <4>2. updateCnt'[i.res] = updateCnt[i.res]
        BY <1>1, <3>1, <3>3 DEF TypeInv, TypeOK
      <4> QED BY <1>1, <2>1, <2>2, <3>1, <4>1, <4>2 DEF Informs, Current
    <3> QED BY <3>2, <3>3
  <2>3. CASE i.role # "NOTIFICATION"
    BY <2>1, <2>3 DEF Informs
  <2> QED BY <2>2, <2>3
<1> QED BY <1>1, <1>2, <1>3 DEF InformsRest, InformsInv, AllInform

\* Requests of the application, the clock and the end of everything.
LEMMA OthersStepInforms ==
    ASSUME InformsInv,
           \/ \E ep \in Eps, type \in RequestTypes : StartNewRequest(ep, type)
           \/ Tick \/ ClearPendingInteractions \/ UNCHANGED vars
    PROVE  InformsRest
<1>1. queue \in Seq(Interactions)
  BY QueueType DEF InformsInv, JobsInv, TypeInv
<1>2. UNCHANGED <<updateCnt, observers, loop>>
  BY DEF StartNewRequest, Tick, ClearPendingInteractions, clientUnchanged, vars
<1>3. SUFFICES AllInform(queue', observers, updateCnt, loop)
  BY <1>2 DEF InformsRest, InformsInv
<1>4. CASE UNCHANGED queue
  BY <1>4 DEF InformsInv
<1>5. CASE Tick
  <2>1. DOMAIN queue' = DOMAIN queue
        /\ \A k \in DOMAIN queue : queue'[k] = OneSecondOlder(queue[k])
    BY <1>5 DEF Tick
  <2>2. \A r \in Interactions : LaterStage(r, OneSecondOlder(r))
    BY DEF LaterStage, Keeps, OneSecondOlder, Interactions, Interaction
  <2>3. \A k \in DOMAIN queue : LaterStage(queue[k], queue'[k])
    BY <1>1, <2>1, <2>2
  <2> QED BY <2>1, <2>3, PointwiseInforms DEF InformsInv
<1>6. CASE ClearPendingInteractions
  BY <1>6 DEF ClearPendingInteractions, AllInform
<1>7. ASSUME NEW ep \in Eps, NEW type \in RequestTypes, StartNewRequest(ep, type)
      PROVE  AllInform(queue', observers, updateCnt, loop)
  <2>1. PICK n \in First(FreshCalls) :
          IF OutOfMemory
          THEN UNCHANGED <<queue, calls>>
          ELSE /\ queue' = Append(queue,
                      [NewInteraction("CLIENT", "READY_TO_REQUEST", ep) EXCEPT
                          !.req = CreateMessage(type, "GET", NextMid(mid), NextToken(tok)),
                          !.call = n])
               /\ calls' = [calls EXCEPT ![n] = "open"]
    BY <1>7 DEF StartNewRequest
  <2> DEFINE r == [NewInteraction("CLIENT", "READY_TO_REQUEST", ep) EXCEPT
                      !.req = CreateMessage(type, "GET", NextMid(mid), NextToken(tok)),
                      !.call = n]
  <2>2. UNCHANGED queue \/ queue' = Append(queue, r)
    BY <2>1
  <2>3. r.role = "CLIENT"
    BY DEF NewInteraction
  <2> HIDE DEF r
  <2>4. Informs(r, observers, updateCnt, loop)
    BY <2>3 DEF Informs
  <2>5. queue \in Seq(Interactions \cup {r}) /\ r \in Interactions \cup {r}
    BY <1>1, SeqGrows
  <2> QED BY <1>4, <2>2, <2>4, <2>5, AppendInforms DEF InformsInv
<1> QED BY <1>4, <1>5, <1>6, <1>7 DEF vars

-----------------------------------------------------------------------------

LEMMA InitInforms == Init => InformsInv
BY InitJobs, InitObservers, ResAssumption
   DEF Init, InformsInv, AllRegistered, LoopListed, AllInform, NoLoop

LEMMA NextInforms ==
    ASSUME NotifiersAnswer, TokenPerObservation
    PROVE  InformsInv /\ [Next]_vars /\ [~NotifyOutOfMemory]_vars => InformsInv'
<1> SUFFICES ASSUME InformsInv, [Next]_vars, [~NotifyOutOfMemory]_vars PROVE InformsInv'
  OBVIOUS
<1>1. JobsInv' /\ ObserversInv'
  BY NextJobs, NextObservers DEF InformsInv
<1>2. SUFFICES InformsRest
  BY <1>1 DEF InformsInv, InformsRest
<1>3. CASE \E d \in Datagrams : HandleIncomingPacket(d)
  BY <1>3, PacketInforms
<1>4. CASE doWork
  <2>1. Idle /\ queue # <<>>
    BY <1>4 DEF doWork
  <2> QED
    BY <1>4, <2>1, RotateInforms, RestartInforms, ServerInforms, NotifyInforms, ClientInforms
       DEF doWork
<1>5. CASE \E r \in Res : NotifyResourceObservers(r)
  BY <1>5, ChangeInforms
<1>6. CASE StartNotifyInteractions /\ vars' # vars
  BY <1>6, StartNotifyInforms
<1>7. CASE \/ \E ep \in Eps, type \in RequestTypes : StartNewRequest(ep, type)
           \/ Tick \/ ClearPendingInteractions \/ UNCHANGED vars
  BY <1>7, OthersStepInforms
<1> QED BY <1>3, <1>4, <1>5, <1>6, <1>7 DEF Next

\* Where notifiers answer, clients keep to one token for each observation and
\* memory does not run out, a change of a resource is lost on no notification
\* under way: it shows the current version or is marked to be renewed.
THEOREM StaleIsMarked ==
    ASSUME NotifiersAnswer, TokenPerObservation
    PROVE  Spec /\ [][~NotifyOutOfMemory]_vars => []StaleNotificationIsMarked
<1>1. InformsInv => StaleNotificationIsMarked
  <2> SUFFICES ASSUME InformsInv, Idle, NEW k \in DOMAIN queue, queue[k].role = "NOTIFICATION"
               PROVE  queue[k].resp.version = updateCnt[queue[k].res] \/ queue[k].updatePending
    BY DEF StaleNotificationIsMarked
  <2>1. queue[k] \in Interactions /\ Informs(queue[k], observers, updateCnt, loop)
    BY QueueType DEF InformsInv, JobsInv, TypeInv, AllInform
  <2> QED BY <2>1, ResAssumption DEF Informs, Current, Awaited, Idle, Interactions, WellFormed
<1>2. InformsInv /\ [Next]_vars /\ [~NotifyOutOfMemory]_vars => InformsInv'
  BY NextInforms
<1> QED BY <1>1, <1>2, InitInforms, PTL DEF Spec
=============================================================================
