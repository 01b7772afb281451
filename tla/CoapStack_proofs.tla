-------------------------- MODULE CoapStack_proofs --------------------------
(***************************************************************************)
(* Proofs about one endpoint, for every value of the constants.            *)
(*                                                                         *)
(* TypeInv says what every variable holds and that no interaction lacks a  *)
(* message its handler reads.  JobsInv says that no two interactions do    *)
(* the same job and that the interactions of the client role are exactly   *)
(* the requests the application still waits for.                           *)
(***************************************************************************)
EXTENDS CoapProperties, SequenceTheorems, TLAPS

Interactions == {r \in Interaction : WellFormed(r)}

\* A loop over observers has one before it as long as it runs.
LoopOK == ~Idle => loop.res \in Res /\ loop.todo # <<>>

TypeInv == TypeOK /\ NoNullMessage /\ LoopOK

\* What is sent is a datagram, and who is told is told of a resource.
TxOK ==
    /\ tx \in SUBSET Datagram
    /\ told \in [Res -> SUBSET (Eps \X (Tokens \cup {NoToken}))]

-----------------------------------------------------------------------------
(* Sequences *)

LEMMA EnqueueType ==
    ASSUME NEW S, NEW q \in Seq(S), q # <<>>, NEW r \in S
    PROVE  /\ Append(Tail(q), r) \in Seq(S)
           /\ [q EXCEPT ![1] = r] \in Seq(S)
           /\ Tail(q) \in Seq(S)
           /\ Head(q) \in S
OBVIOUS

LEMMA WithoutType ==
    ASSUME NEW S, NEW q \in Seq(S), NEW ks \in SUBSET DOMAIN q
    PROVE  Without(q, ks) \in Seq(S)
BY DEF Without, RemoveAt

\* w holds the elements of q without the i-th; "old" says where each was.
Without1(w, q, i, old) ==
    /\ \A k \in DOMAIN w : old[k] \in DOMAIN q \ {i} /\ w[k] = q[old[k]]
    /\ \A j, k \in DOMAIN w : old[j] = old[k] => j = k
    /\ \A k \in DOMAIN q \ {i} : \E j \in DOMAIN w : old[j] = k

LEMMA WithoutMap ==
    ASSUME NEW S, NEW q \in Seq(S), NEW ks \in SUBSET DOMAIN q, ks # {}
    PROVE  \E i \in ks : \E old : Without1(Without(q, ks), q, i, old)
<1> DEFINE i == CHOOSE k \in ks : TRUE
           w == RemoveAt(q, i)
           old == [k \in DOMAIN w |-> IF k < i THEN k ELSE k + 1]
<1>1. i \in ks /\ i \in DOMAIN q
  OBVIOUS
<1>2. Without(q, ks) = w
  BY DEF Without
<1> HIDE DEF i
<1>3. /\ DOMAIN q = 1 .. Len(q) /\ Len(q) \in Nat /\ DOMAIN w = 1 .. Len(q) - 1
      /\ \A k \in DOMAIN w : w[k] = q[old[k]]
  <2> DEFINE a == SubSeq(q, 1, i - 1)
             b == SubSeq(q, i + 1, Len(q))
  <2>1. DOMAIN q = 1 .. Len(q) /\ Len(q) \in Nat /\ i \in 1 .. Len(q)
    BY <1>1
  <2>2. /\ a \in Seq(S) /\ Len(a) = i - 1
        /\ \A k \in 1 .. i - 1 : a[k] = q[k]
    BY <2>1
  <2>3. /\ b \in Seq(S) /\ Len(b) = Len(q) - i
        /\ \A k \in 1 .. Len(q) - i : b[k] = q[i + k]
    <3>1. i + 1 \in Int /\ Len(q) \in Int /\ Len(q) - (i + 1) + 1 = Len(q) - i
      BY <2>1
    <3>2. \A k \in i + 1 .. Len(q) : q[k] \in S
      BY <2>1
    <3>3. /\ b \in Seq(S)
          /\ Len(b) = IF i + 1 <= Len(q) THEN Len(q) - (i + 1) + 1 ELSE 0
          /\ \A k \in 1 .. Len(q) - (i + 1) + 1 : b[k] = q[(i + 1) + k - 1]
      BY <3>1, <3>2, SubSeqProperties
    <3>4. Len(b) = Len(q) - i
      <4>1. CASE i + 1 <= Len(q)
        BY <3>1, <3>3, <4>1
      <4>2. CASE ~(i + 1 <= Len(q))
        <5>1. i \in Int /\ Len(q) \in Int /\ i <= Len(q)
          BY <2>1
        <5>2. Len(q) = i
          BY <4>2, <5>1
        <5> QED BY <3>3, <4>2, <5>1, <5>2
      <4> QED BY <4>1, <4>2
    <3>5. \A k \in 1 .. Len(q) - i : (i + 1) + k - 1 = i + k
      BY <2>1
    <3> QED BY <3>1, <3>3, <3>4, <3>5
  <2>4. w = a \o b
    BY DEF w, RemoveAt
  <2> HIDE DEF a, b, w
  <2>5. /\ DOMAIN w = 1 .. Len(a) + Len(b)
        /\ \A k \in DOMAIN w : w[k] = IF k <= Len(a) THEN a[k] ELSE b[k - Len(a)]
    BY <2>2, <2>3, <2>4
  <2>6. DOMAIN w = 1 .. Len(q) - 1
    BY <2>1, <2>2, <2>3, <2>5
  <2>7. ASSUME NEW k \in DOMAIN w PROVE w[k] = q[old[k]]
    <3>1. CASE k < i
      <4>1. k \in 1 .. i - 1 /\ k <= Len(a)
        BY <2>1, <2>2, <2>6, <3>1
      <4> QED BY <2>2, <2>5, <3>1, <4>1
    <3>2. CASE k >= i
      <4>1. /\ ~(k <= Len(a)) /\ k - Len(a) = k - i + 1
            /\ k - i + 1 \in 1 .. Len(q) - i /\ i + (k - i + 1) = k + 1 /\ ~(k < i)
        BY <2>1, <2>2, <2>6, <3>2
      <4>2. w[k] = b[k - i + 1]
        BY <2>5, <4>1
      <4>3. b[k - i + 1] = q[i + (k - i + 1)]
        BY <2>3, <4>1
      <4>4. old[k] = k + 1
        BY <4>1
      <4> QED BY <4>1, <4>2, <4>3, <4>4
    <3> QED BY <2>1, <2>6, <3>1, <3>2
  <2> QED BY <2>1, <2>6, <2>7
<1> HIDE DEF w
<1>4. /\ \A k \in DOMAIN w : old[k] \in DOMAIN q \ {i}
      /\ \A j, k \in DOMAIN w : old[j] = old[k] => j = k
  BY <1>1, <1>3
<1>5. \A k \in DOMAIN q \ {i} : \E j \in DOMAIN w : old[j] = k
  <2> SUFFICES ASSUME NEW k \in DOMAIN q, k # i PROVE \E j \in DOMAIN w : old[j] = k
    OBVIOUS
  <2>1. CASE k < i
    <3>1. k \in DOMAIN w /\ old[k] = k
      BY <1>1, <1>3, <2>1
    <3> QED BY <3>1
  <2>2. CASE k > i
    <3>1. k - 1 \in DOMAIN w /\ old[k - 1] = k
      BY <1>1, <1>3, <2>2
    <3> QED BY <3>1
  <2> QED BY <1>1, <1>3, <2>1, <2>2
<1> HIDE DEF old
<1> QED BY <1>1, <1>2, <1>3, <1>4, <1>5, SMTT(90) DEF Without1

LEMMA WithoutElements ==
    ASSUME NEW S, NEW q \in Seq(S), NEW ks \in SUBSET DOMAIN q
    PROVE  \A k \in DOMAIN Without(q, ks) : \E j \in DOMAIN q : Without(q, ks)[k] = q[j]
<1>1. CASE ks = {}
  BY <1>1 DEF Without
<1>2. CASE ks # {}
  BY <1>2, WithoutMap DEF Without1
<1> QED BY <1>1, <1>2

\* A queue of well-formed interactions is what TypeInv says of the queue.
LEMMA QueueType ==
    TypeOK /\ NoNullMessage <=> TypeOK /\ queue \in Seq(Interactions)
<1>1. ASSUME TypeOK, NoNullMessage PROVE queue \in Seq(Interactions)
  BY <1>1 DEF TypeOK, NoNullMessage, Interactions
<1>2. ASSUME queue \in Seq(Interactions) PROVE NoNullMessage
  BY <1>2 DEF NoNullMessage, Interactions
<1> QED BY <1>1, <1>2

-----------------------------------------------------------------------------
(* Messages *)

LEMMA MidType ==
    ASSUME NEW m \in Mids
    PROVE  NextMid(m) \in Mids
BY MidModAssumption DEF NextMid, Mids

LEMMA TokenType ==
    ASSUME NEW t \in Tokens
    PROVE  NextToken(t) \in Tokens
BY TokModAssumption DEF NextToken, Tokens

LEMMA ShortRespType ==
    ASSUME NEW type \in Types, NEW code \in Codes, NEW id \in Mids,
           NEW token \in Tokens \cup {NoToken}
    PROVE  /\ CreateMessage(type, code, id, token) \in Message
           /\ SendShortResp(type, code, id, token) \in Message
BY MaxVersionAssumption
   DEF SendShortResp, CreateMessage, Message, ObserveVals, Versions

LEMMA EmptyType ==
    ASSUME NEW id \in Mids
    PROVE  SendEmptyAck(id) \in Message /\ SendEmptyRST(id) \in Message
BY ShortRespType DEF SendEmptyAck, SendEmptyRST, Types, Codes

LEMMA AllocRespType ==
    ASSUME NEW req \in Message, NEW code \in Codes, NEW id \in Mids
    PROVE  AllocRespMsg(req, code, id) \in Message /\ MidAfterAllocResp(req, id) \in Mids
BY MidType, ShortRespType DEF AllocRespMsg, MidAfterAllocResp, Message, Types

LEMMA NoMessageIsNone == NoMessage \notin Message
BY DEF NoMessage, Message, Types

-----------------------------------------------------------------------------
(* Interactions *)

LEMMA WaitType ==
    ASSUME NEW n \in 0 .. MAX_RETRANSMIT
    PROVE  WaitTime[n] \in Nat
BY TimeAssumption

LEMMA NewType ==
    ASSUME NEW role \in {"SERVER", "NOTIFICATION", "CLIENT"}, NEW state \in States, NEW ep \in Eps
    PROVE  NewInteraction(role, state, ep) \in Interaction
BY TimeAssumption, BoundAssumption
   DEF NewInteraction, Interaction, MessageOrNull, Confirmation, NoCall

LEMMA TimerType ==
    ASSUME NEW r \in Interactions, NEW s \in Nat
    PROVE  /\ SetSleep(r, s) \in Interactions
           /\ Wakeup(r) \in Interactions
           /\ OneSecondOlder(r) \in Interactions
           /\ EnableAckTimeout(r) \in Interactions
<1>1. SetSleep(r, s) \in Interactions
  BY DEF SetSleep, Interactions, Interaction, WellFormed
<1>2. Wakeup(r) \in Interactions
  BY DEF Wakeup, Interactions, Interaction, WellFormed
<1>3. OneSecondOlder(r) \in Interactions
  <2>1. /\ (IF r.ackLeft = 0 THEN 0 ELSE r.ackLeft - 1) \in Nat
        /\ (IF r.sleepLeft = -1 THEN -1 ELSE r.sleepLeft - 1) \in Nat \cup {-1}
        /\ (IF r.reqAge >= MaxAge THEN r.reqAge ELSE r.reqAge + 1) \in Nat
    BY DEF Interactions, Interaction
  <2>2. OneSecondOlder(r) \in Interaction
    BY <2>1, ZenonT(90) DEF OneSecondOlder, Interactions, Interaction
  <2>3. WellFormed(OneSecondOlder(r))
    BY DEF OneSecondOlder, Interactions, Interaction, WellFormed
  <2> QED BY <2>2, <2>3 DEF Interactions
<1>4. EnableAckTimeout(r) \in Interactions
  <2>1. WaitTime[r.retransCounter] \in Nat
    BY WaitType DEF Interactions, Interaction
  <2> QED BY <2>1 DEF EnableAckTimeout, Interactions, Interaction, WellFormed
<1> QED BY <1>1, <1>2, <1>3, <1>4

LEMMA AnsweredType ==
    ASSUME NEW r \in Interactions, NEW next, r.resp \in Message,
           \/ r.role = "SERVER" /\ next = "RESPONSE_SENT"
           \/ r.role = "NOTIFICATION" /\ next = "NOTIFICATION_SENT"
    PROVE  Answered(r, next) \in Interactions
<1>1. WaitTime[r.retransCounter] \in Nat
  BY WaitType DEF Interactions, Interaction
<1>2. next \in States
  BY DEF States, ServerStates, NotifyStates
<1>3. Answered(r, next) \in Interaction
  BY <1>1, <1>2 DEF Answered, Interactions, Interaction, Confirmation
<1>4. WellFormed(Answered(r, next))
  BY DEF Answered, Interactions, Interaction, WellFormed, ServerStates, NotifyStates
<1> QED BY <1>3, <1>4 DEF Interactions

LEMMA RespType ==
    ASSUME NEW r \in Interactions, NEW m \in Message
    PROVE  [r EXCEPT !.resp = m] \in Interactions
BY DEF Interactions, Interaction, WellFormed, MessageOrNull

LEMMA SendType ==
    ASSUME TypeOK, NEW r, NEW ep \in Eps, NEW m \in Message, SendMsg(r, ep, m)
    PROVE  TxOK'
<1>1. tx' \in SUBSET Datagram
  BY DEF SendMsg, Datagram
<1>2. told' \in [Res -> SUBSET (Eps \X (Tokens \cup {NoToken}))]
  BY ResAssumption DEF SendMsg, TypeOK, Message
<1> QED BY <1>1, <1>2 DEF TxOK

LEMMA SilentType ==
    ASSUME TypeOK, Silent
    PROVE  TxOK'
BY DEF Silent, TypeOK, TxOK

\* The conjuncts of TypeInv after a step.
LEMMA TypeStep ==
    ASSUME queue' \in Seq(Interactions), leaked' \in Nat, mid' \in Mids, tok' \in Tokens,
           updateCnt' \in [Res -> Versions], observers' \in [Res -> Seq(Observer)],
           loop' \in [res : Res \cup {NoRes}, todo : Seq(Observer)], LoopOK',
           calls' \in [1 .. MaxRequests -> CallResults],
           TxOK'
    PROVE  TypeInv'
<1>1. queue' \in Seq(Interaction) /\ NoNullMessage'
  BY DEF NoNullMessage, Interactions
<1> QED BY <1>1 DEF TypeInv, TypeOK, TxOK

-----------------------------------------------------------------------------
(* Server *)

LEMMA ServingType ==
    ASSUME TypeInv, queue # <<>>
    PROVE  /\ queue \in Seq(Interactions)
           /\ Head(queue) \in Interactions
           /\ Head(queue).ep \in Eps
           /\ Tail(queue) \in Seq(Interactions)
           /\ \A r \in Interactions : /\ Append(Tail(queue), r) \in Seq(Interactions)
                                      /\ [queue EXCEPT ![1] = r] \in Seq(Interactions)
<1>1. queue \in Seq(Interactions)
  BY QueueType DEF TypeInv
<1>2. Head(queue) \in Interactions /\ Tail(queue) \in Seq(Interactions)
  BY <1>1, EnqueueType
<1>3. \A r \in Interactions : /\ Append(Tail(queue), r) \in Seq(Interactions)
                              /\ [queue EXCEPT ![1] = r] \in Seq(Interactions)
  BY <1>1, EnqueueType
<1> QED BY <1>1, <1>2, <1>3 DEF Interactions, Interaction

LEMMA SendRespType ==
    ASSUME TypeInv, NEW r \in Interactions, r.resp \in Message,
           NEW others \in Seq(Interactions), NEW next,
           \/ r.role = "SERVER" /\ next = "RESPONSE_SENT"
           \/ r.role = "NOTIFICATION" /\ next = "NOTIFICATION_SENT",
           SendResp(r, others, next)
    PROVE  queue' \in Seq(Interactions) /\ TxOK'
<1>1. Answered(r, next) \in Interactions
  BY AnsweredType
<1>2. r.ep \in Eps
  BY DEF Interactions, Interaction
<1>3. Append(others, Answered(r, next)) \in Seq(Interactions)
  BY <1>1
<1>4. queue' \in Seq(Interactions)
  BY <1>3 DEF SendResp
<1>5. SendMsg(r.res, r.ep, r.resp)
  BY DEF SendResp
<1> QED BY <1>2, <1>4, <1>5, SendType DEF TypeInv

LEMMA RetransmitType ==
    ASSUME TypeInv, queue # <<>>, NEW r \in Interactions, NEW m \in Message,
           r.retransCounter + 1 <= MAX_RETRANSMIT, Retransmit(r, m)
    PROVE  queue' \in Seq(Interactions) /\ TxOK'
<1>1. [r EXCEPT !.retransCounter = @ + 1] \in Interactions
  <2>1. r.retransCounter + 1 \in 0 .. MAX_RETRANSMIT
    BY TimeAssumption DEF Interactions, Interaction
  <2> DEFINE n == [r EXCEPT !.retransCounter = @ + 1]
  <2>2. n \in Interaction
    BY <2>1 DEF Interactions, Interaction
  <2>3. WellFormed(n)
    BY DEF Interactions, Interaction, WellFormed
  <2> QED BY <2>2, <2>3 DEF Interactions
<1>2. EnableAckTimeout([r EXCEPT !.retransCounter = @ + 1]) \in Interactions
  BY <1>1, TimerType
<1>3. r.ep \in Eps
  BY DEF Interactions, Interaction
<1>4. queue' \in Seq(Interactions)
  BY <1>2, ServingType DEF Retransmit, UpdateHead, DeleteHead
<1>5. SendMsg(r.res, r.ep, m)
  BY DEF Retransmit
<1> QED BY <1>3, <1>4, <1>5, SendType DEF TypeInv

LEMMA StatusType ==
    ASSUME NEW r \in Interactions, RespStatus(r) = "RETRY"
    PROVE  r.retransCounter + 1 <= MAX_RETRANSMIT
BY TimeAssumption DEF RespStatus, Interactions, Interaction

\* A request being served has a message and a resource.
LEMMA RequestType ==
    ASSUME TypeInv, queue # <<>>, Serving.role = "SERVER"
    PROVE  Serving.req \in Message /\ Serving.res \in Res
BY ServingType DEF Serving, Interactions, WellFormed

LEMMA PreparedType ==
    ASSUME TypeInv, queue # <<>>, Serving.role = "SERVER"
    PROVE  Prepared \in Message /\ MidPrepared \in Mids
<1>1. mid \in Mids /\ "EMPTY" \in Codes
  BY DEF TypeInv, TypeOK, Codes
<1>2. CASE Postponed
  BY <1>1, <1>2, ServingType
     DEF Postponed, Prepared, MidPrepared, Serving, Interactions, Interaction, MessageOrNull
<1>3. CASE ~Postponed
  BY <1>1, <1>3, RequestType, AllocRespType DEF Prepared, MidPrepared
<1> QED BY <1>2, <1>3

LEMMA AnswersType ==
    ASSUME TypeInv, queue # <<>>, Serving.role = "SERVER", NEW m \in Answers
    PROVE  m \in Message
<1>1. PICK c \in AnswerCodes :
        m \in Typed([Prepared EXCEPT
                        !.code = c,
                        !.version = IF c = "2.05" THEN updateCnt[Serving.res] ELSE 0])
  BY DEF Answers
<1> DEFINE p == [Prepared EXCEPT
                    !.code = c,
                    !.version = IF c = "2.05" THEN updateCnt[Serving.res] ELSE 0]
<1>2. c \in Codes
  BY DEF AnswerCodes, Codes, Responses
<1>3. (IF c = "2.05" THEN updateCnt[Serving.res] ELSE 0) \in Versions
  BY RequestType, MaxVersionAssumption DEF TypeInv, TypeOK, Versions
<1>4. p \in Message
  BY <1>2, <1>3, PreparedType DEF Message
<1>5. NextMid(mid) \in Mids
  BY MidType DEF TypeInv, TypeOK
<1> HIDE DEF p
<1>6. m \in Typed(p)
  BY <1>1 DEF p
<1> QED BY <1>4, <1>5, <1>6, HandlerTypesAssumption, ZenonT(90) DEF Typed, Message, Types

LEMMA AddObserverType ==
    ASSUME TypeInv, NEW r \in Res, NEW o \in Observer, AddObserver(r, o)
    PROVE  observers' \in [Res -> Seq(Observer)]
<1>1. observers[r] \in Seq(Observer)
  BY DEF TypeInv, TypeOK
<1>2. Without(observers[r], ObserversAt(r, o.ep)) \in Seq(Observer)
  BY <1>1, WithoutType DEF ObserversAt, First
<1>3. Append(Without(observers[r], ObserversAt(r, o.ep)), o) \in Seq(Observer)
  BY <1>2
<1> QED BY <1>3 DEF AddObserver, TypeInv, TypeOK

LEMMA RemoveObserverType ==
    ASSUME TypeInv, NEW r \in Res, NEW ep, NEW token, RemoveObserver(r, ep, token)
    PROVE  observers' \in [Res -> Seq(Observer)]
<1>1. observers[r] \in Seq(Observer)
  BY DEF TypeInv, TypeOK
<1> DEFINE ks == First({k \in DOMAIN observers[r] :
                            observers[r][k].ep = ep /\ observers[r][k].token = token})
<1>2. Without(observers[r], ks) \in Seq(Observer)
  BY <1>1, WithoutType DEF First
<1> QED BY <1>2 DEF RemoveObserver, TypeInv, TypeOK

\* A step of the server role leaves the rest of the state as it was.
LEMMA ServerStep ==
    ASSUME TypeInv, serverUnchanged, queue' \in Seq(Interactions), mid' \in Mids,
           observers' \in [Res -> Seq(Observer)], TxOK'
    PROVE  TypeInv'
<1>1. LoopOK'
  BY DEF serverUnchanged, TypeInv, LoopOK, Idle
<1> QED BY <1>1, TypeStep DEF serverUnchanged, TypeInv, TypeOK

LEMMA AnswerType ==
    ASSUME TypeInv, queue # <<>>, Serving.role = "SERVER", NEW m \in Message, Answer(m)
    PROVE  queue' \in Seq(Interactions) /\ TxOK' /\ observers' \in [Res -> Seq(Observer)]
<1>1. Serving \in Interactions /\ Tail(queue) \in Seq(Interactions)
  BY ServingType DEF Serving
<1>2. /\ [Serving EXCEPT !.resp = m] \in Interactions
      /\ [Serving EXCEPT !.resp = m].resp = m
      /\ [Serving EXCEPT !.resp = m].role = "SERVER"
  BY <1>1, RespType DEF Interactions, Interaction
<1>3. CASE ~Registers(m) /\ ~Deregisters(m)
  <2>1. SendResp([Serving EXCEPT !.resp = m], Tail(queue), "RESPONSE_SENT")
        /\ UNCHANGED observers
    BY <1>3 DEF Answer
  <2> QED BY <2>1, <1>1, <1>2, SendRespType DEF TypeInv, TypeOK
<1>4. CASE Registers(m)
  <2> DEFINE n == [m EXCEPT !.observe = 0]
  <2>1. n \in Message
    BY MaxVersionAssumption DEF Message, ObserveVals, Versions
  <2>2. Serving.role = "SERVER" /\ ~Deregisters(m)
    BY <1>4 DEF Registers, Deregisters, Register, Deregister
  <2>3. PICK o \in FreeOids :
          AddObserver(Serving.res, [oid |-> o, ep |-> Serving.ep, token |-> Serving.req.token])
    BY <1>4, <2>2 DEF Answer
  <2>4. SendResp([Serving EXCEPT !.resp = n], Tail(queue), "RESPONSE_SENT")
    BY <1>4, <2>2 DEF Answer
  <2>5. [oid |-> o, ep |-> Serving.ep, token |-> Serving.req.token] \in Observer
    BY RequestType, ServingType DEF Serving, Observer, FreeOids, Message
  <2>6. observers' \in [Res -> Seq(Observer)]
    BY <2>3, <2>5, AddObserverType, RequestType
  <2> HIDE DEF n
  <2>7. /\ [Serving EXCEPT !.resp = n] \in Interactions
        /\ [Serving EXCEPT !.resp = n].resp = n
        /\ [Serving EXCEPT !.resp = n].role = "SERVER"
    BY <1>1, <2>1, RespType DEF Interactions, Interaction
  <2> QED BY <1>1, <2>1, <2>4, <2>6, <2>7, SendRespType
<1>5. CASE Deregisters(m)
  <2> DEFINE rest == Without(Tail(queue), PendingNotification(Tail(queue)))
  <2>1. ~Registers(m)
    BY <1>5 DEF Registers, Deregisters, Register, Deregister
  <2>2. RemoveObserver(Serving.res, Serving.ep, Serving.req.token)
        /\ SendResp([Serving EXCEPT !.resp = m], rest, "RESPONSE_SENT")
    BY <1>5, <2>1 DEF Answer
  <2>3. rest \in Seq(Interactions)
    BY <1>1, WithoutType DEF PendingNotification, First
  <2> HIDE DEF rest
  <2>4. observers' \in [Res -> Seq(Observer)]
    BY <2>2, RemoveObserverType, RequestType
  <2> QED BY <1>1, <1>2, <2>2, <2>3, <2>4, SendRespType
<1> QED BY <1>3, <1>4, <1>5

\* The program starts again with nothing.
LEMMA RestartType ==
    ASSUME TypeInv, Restart
    PROVE  TypeInv'
<1>1. queue' \in Seq(Interactions) /\ leaked' \in Nat /\ mid' \in Mids /\ tok' \in Tokens
      /\ TxOK'
  BY SeedAssumption DEF Restart, TxOK
<1>2. updateCnt' \in [Res -> Versions] /\ observers' \in [Res -> Seq(Observer)]
  BY MaxVersionAssumption DEF Restart, Versions
<1>3. loop' \in [res : Res \cup {NoRes}, todo : Seq(Observer)] /\ LoopOK'
  BY DEF Restart, NoLoop, LoopOK, Idle
<1>4. calls' \in [1 .. MaxRequests -> CallResults]
  <2>1. \A n \in 1 .. MaxRequests :
            (IF calls[n] = "open" THEN "lost" ELSE calls[n]) \in CallResults
    BY DEF TypeInv, TypeOK, CallResults
  <2> QED BY <2>1 DEF Restart
<1> QED BY <1>1, <1>2, <1>3, <1>4, TypeStep

\* What is left of a step on an answer there was no memory for, when it does not
\* end the program.
NullAnswerOf(r) == [r EXCEPT !.resp = NoMessage, !.state = "RESPONSE_SENT"]

LEMMA NullAnswerGoesOn ==
    ASSUME ServeNullAnswer, ~Restart
    PROVE  /\ Serving.role = "SERVER" /\ Serving.req.code \notin AllowedMethods[Serving.res]
           /\ queue' = Tail(queue) \/ queue' = Append(Tail(queue), NullAnswerOf(Serving))
           /\ Silent /\ mid' = MidAfterAllocResp(Serving.req, mid)
           /\ serverUnchanged /\ UNCHANGED observers
BY DEF ServeNullAnswer, DeleteHead, EnqueueHead, ReadyForHandler, AwaitsHandler, Allowed,
       NullAnswerOf

LEMMA NullAnswerType ==
    ASSUME NEW r \in Interactions, r.role = "SERVER", r.req.code \notin AllowedMethods[r.res]
    PROVE  NullAnswerOf(r) \in Interactions
BY DEF NullAnswerOf, Interactions, Interaction, WellFormed, MessageOrNull, States, ServerStates

LEMMA ServerType ==
    ASSUME TypeInv, queue # <<>>, handleServerInteraction
    PROVE  TypeInv'
<1> USE DEF serverUnchanged
<1>1. mid \in Mids /\ observers \in [Res -> Seq(Observer)] /\ TypeOK
  BY DEF TypeInv, TypeOK
<1>2. /\ Serving \in Interactions /\ Serving.ep \in Eps /\ Tail(queue) \in Seq(Interactions)
      /\ \A r \in Interactions : Append(Tail(queue), r) \in Seq(Interactions)
  BY ServingType DEF Serving
<1>3. NextMid(mid) \in Mids
  BY <1>1, MidType
<1>4. PostponeWait \in Nat /\ Leisure \in Nat
  BY TimeAssumption
<1>5. CASE ServeMulticastCon
  BY <1>1, <1>2, <1>5, SilentType, ServerStep DEF ServeMulticastCon, DeleteHead
<1>6. CASE ServeMulticastWait
  <2> DEFINE r == [Serving EXCEPT !.state = "RESPONSE_WAITING_LEISURE"]
  <2>1. r \in Interactions
    BY <1>2, <1>6 DEF ServeMulticastWait, AwaitsHandler, Interactions, Interaction, WellFormed,
       States, ServerStates
  <2> HIDE DEF r
  <2>2. SetSleep(r, Leisure) \in Interactions
    BY <2>1, <1>4, TimerType
  <2>3. queue' = Append(Tail(queue), SetSleep(r, Leisure)) /\ Silent /\ serverUnchanged
        /\ UNCHANGED <<mid, observers>>
    BY <1>6 DEF ServeMulticastWait, EnqueueHead, r
  <2> QED BY <1>1, <1>2, <2>2, <2>3, SilentType, ServerStep
<1>7. CASE ServeMethodNotAllowed
  <2> DEFINE m == AllocRespMsg(Serving.req, "4.05", mid)
  <2>1. Serving.role = "SERVER"
    BY <1>7 DEF ServeMethodNotAllowed, ReadyForHandler, AwaitsHandler
  <2>2. m \in Message /\ mid' \in Mids
    BY <1>1, <1>7, <2>1, RequestType, AllocRespType
       DEF ServeMethodNotAllowed, Codes, Responses
  <2>3. SendResp([Serving EXCEPT !.resp = m], Tail(queue), "RESPONSE_SENT")
        /\ serverUnchanged /\ UNCHANGED observers
    BY <1>7 DEF ServeMethodNotAllowed
  <2> HIDE DEF m
  <2>4. /\ [Serving EXCEPT !.resp = m] \in Interactions
        /\ [Serving EXCEPT !.resp = m].resp = m
        /\ [Serving EXCEPT !.resp = m].role = "SERVER"
    BY <1>2, <2>1, <2>2, RespType DEF Interactions, Interaction
  <2> QED BY <1>1, <1>2, <2>2, <2>3, <2>4, SendRespType, ServerStep
<1>a. CASE ServeNullAnswer
  <2>1. CASE Restart
    BY <2>1, RestartType
  <2>2. CASE ~Restart
    <3>1. AllocRespMsg(Serving.req, "4.05", mid) \in Message /\ mid' \in Mids
      BY <1>1, <1>a, <2>2, NullAnswerGoesOn, RequestType, AllocRespType DEF Codes, Responses
    <3>2. queue' \in Seq(Interactions)
      BY <1>2, <1>a, <2>2, NullAnswerGoesOn, NullAnswerType
    <3> QED BY <1>1, <1>a, <2>2, <3>1, <3>2, NullAnswerGoesOn, SilentType, ServerStep
  <2> QED BY <2>1, <2>2
<1>8. CASE ServeDrop
  <2>1. Serving.role = "SERVER"
    BY <1>8 DEF ServeDrop, ReadyForHandler, AwaitsHandler
  <2> QED BY <1>1, <1>2, <1>8, <2>1, PreparedType, SilentType, ServerStep
          DEF ServeDrop, DeleteHead
<1>9. CASE ServePostponeAck
  <2>1. Serving.role = "SERVER"
    BY <1>9 DEF ServePostponeAck, ReadyForHandler, AwaitsHandler
  <2>2. Prepared \in Message /\ mid' \in Mids
    BY <1>9, <2>1, PreparedType DEF ServePostponeAck
  <2>3. TxOK'
    <3>1. SendEmptyAck(Serving.req.mid) \in Message
      BY <2>1, RequestType, EmptyType DEF Message
    <3>2. SendMsg(NoRes, Serving.ep, SendEmptyAck(Serving.req.mid))
      BY <1>9 DEF ServePostponeAck
    <3> QED BY <1>1, <1>2, <3>1, <3>2, SendType
  <2> DEFINE r == [Serving EXCEPT !.resp = Prepared, !.reqConfirm = "ACK_SEND",
                                  !.state = "RESOURCE_POSTPONE_EMPTY_ACK_SENT"]
  <2>4. r \in Interactions
    BY <1>2, <2>1, <2>2 DEF Interactions, Interaction, WellFormed, MessageOrNull,
       States, ServerStates, Confirmation
  <2>5. queue' = Append(Tail(queue), SetSleep(r, PostponeWait)) \/ queue' = Tail(queue)
    BY <1>9 DEF ServePostponeAck, EnqueueHead, DeleteHead
  <2> HIDE DEF r
  <2>6. SetSleep(r, PostponeWait) \in Interactions
    BY <2>4, <1>4, TimerType
  <2>7. queue' \in Seq(Interactions)
    BY <1>2, <2>5, <2>6
  <2> QED BY <1>1, <1>9, <2>2, <2>3, <2>7, ServerStep DEF ServePostponeAck
<1>10. CASE ServePostponeAgain
  <2>1. Serving.role = "SERVER"
    BY <1>10 DEF ServePostponeAgain, ReadyForHandler, AwaitsHandler
  <2>2. Prepared \in Message /\ mid' \in Mids
    BY <1>10, <2>1, PreparedType DEF ServePostponeAgain
  <2>3. SetSleep([Serving EXCEPT !.resp = Prepared], PostponeWait) \in Interactions
    BY <1>2, <1>4, <2>2, RespType, TimerType
  <2>4. queue' \in Seq(Interactions)
    BY <1>2, <1>10, <2>3 DEF ServePostponeAgain, EnqueueHead
  <2> QED BY <1>1, <1>10, <2>2, <2>4, SilentType, ServerStep DEF ServePostponeAgain
<1>11. CASE ServeAnswer
  <2>1. Serving.role = "SERVER"
    BY <1>11 DEF ServeAnswer, ReadyForHandler, AwaitsHandler
  <2>2. PICK m \in Answers : Answer(m)
    BY <1>11 DEF ServeAnswer
  <2>3. m \in Message
    BY <2>1, AnswersType
  <2>4. mid' \in Mids
    BY <1>3, <1>11, <2>1, PreparedType DEF ServeAnswer
  <2> QED BY <1>11, <2>1, <2>2, <2>3, <2>4, AnswerType, ServerStep DEF ServeAnswer
<1>12. CASE ServerWaitsForAck
  <2>1. SetSleep(Serving, Serving.ackLeft) \in Interactions
    BY <1>2, TimerType DEF Interactions, Interaction
  <2>2. queue' \in Seq(Interactions)
    BY <1>2, <1>12, <2>1 DEF ServerWaitsForAck, EnqueueHead
  <2> QED BY <1>1, <1>12, <2>2, SilentType, ServerStep DEF ServerWaitsForAck
<1>13. CASE ServerRetries
  <2>1. Serving.resp \in Message
    <3>1. RespStatus(Serving) = "RETRY" /\ Serving.resp \in MessageOrNull
      BY <1>2, <1>13 DEF ServerRetries, Interactions, Interaction
    <3>2. Serving.resp.type = "CON"
      BY <3>1 DEF RespStatus
    <3> QED BY <3>1, <3>2 DEF MessageOrNull, NoMessage
  <2>2. Serving.retransCounter + 1 <= MAX_RETRANSMIT
    BY <1>2, <1>13, StatusType DEF ServerRetries
  <2>3. Retransmit(Serving, Serving.resp) /\ serverUnchanged /\ UNCHANGED <<mid, observers>>
    BY <1>13 DEF ServerRetries
  <2> QED BY <1>1, <1>2, <2>1, <2>2, <2>3, RetransmitType, ServerStep
<1>14. CASE ServerDone
  BY <1>1, <1>2, <1>14, SilentType, ServerStep DEF ServerDone, DeleteHead
<1> QED
  BY <1>5, <1>6, <1>7, <1>a, <1>8, <1>9, <1>10, <1>11, <1>12, <1>13, <1>14
     DEF handleServerInteraction

-----------------------------------------------------------------------------
(* Notifications *)

\* A step on a notification leaves the rest of the state as it was.
LEMMA NotifyStep ==
    ASSUME TypeInv, servingUnchanged, queue' \in Seq(Interactions), mid' \in Mids,
           observers' \in [Res -> Seq(Observer)], TxOK'
    PROVE  TypeInv'
<1>1. LoopOK'
  BY DEF servingUnchanged, TypeInv, LoopOK, Idle
<1> QED BY <1>1, TypeStep DEF servingUnchanged, notifyUnchanged, TypeInv, TypeOK

\* What handleNotifyInteraction finds in the notification at the head.
LEMMA PendingType ==
    ASSUME TypeInv, queue # <<>>, Pending.role = "NOTIFICATION"
    PROVE  /\ Pending \in Interactions /\ Pending.ep \in Eps
           /\ Pending.resp \in Message /\ Pending.res \in Res
           /\ Tail(queue) \in Seq(Interactions)
           /\ \A r \in Interactions : Append(Tail(queue), r) \in Seq(Interactions)
BY ServingType DEF Pending, Interactions, WellFormed

LEMMA RenewedType ==
    ASSUME TypeInv, queue # <<>>, Pending.role = "NOTIFICATION", NEW outcome
    PROVE  Renewed(outcome) \in Message
<1>1. Pending.resp \in Message
  BY PendingType
<1>2. updateCnt[Pending.res] \in Versions
  BY PendingType DEF TypeInv, TypeOK
<1>3. NextMid(mid) \in Mids
  BY MidType DEF TypeInv, TypeOK
<1> DEFINE fresh == [Pending.resp EXCEPT !.mid = NextMid(mid)]
<1>4. fresh \in Message
  BY <1>1, <1>3 DEF Message
<1>5. CASE outcome = "error"
  <2>1. Renewed(outcome) = [fresh EXCEPT !.observe = NoObserve]
    BY <1>5 DEF Renewed
  <2> HIDE DEF fresh
  <2> QED BY <1>4, <2>1 DEF Message, ObserveVals
<1>6. CASE outcome = "code4"
  <2>1. Renewed(outcome) = [fresh EXCEPT !.observe = updateCnt[Pending.res], !.code = "other"]
    BY <1>6 DEF Renewed
  <2> HIDE DEF fresh
  <2> QED BY <1>2, <1>4, <2>1 DEF Message, ObserveVals, Codes, Responses
<1>7. CASE outcome \notin {"error", "code4"}
  <2>1. Renewed(outcome) =
            [fresh EXCEPT !.observe = updateCnt[Pending.res],
                          !.version = updateCnt[Pending.res],
                          !.type = IF outcome = "non" THEN "NON" ELSE @]
    BY <1>7 DEF Renewed
  <2> HIDE DEF fresh
  <2> QED BY <1>2, <1>4, <2>1 DEF Message, ObserveVals, Types
<1> QED BY <1>5, <1>6, <1>7

LEMMA ObserverAfterType ==
    ASSUME TypeInv, queue # <<>>, Pending.role = "NOTIFICATION", NEW outcome,
           ObserverAfter(outcome)
    PROVE  observers' \in [Res -> Seq(Observer)]
BY PendingType, RemoveObserverType DEF ObserverAfter, TypeInv, TypeOK

LEMMA NotifyType ==
    ASSUME TypeInv, queue # <<>>, handleNotifyInteraction
    PROVE  TypeInv'
<1>1. mid \in Mids /\ observers \in [Res -> Seq(Observer)] /\ TypeOK
  BY DEF TypeInv, TypeOK
<1>2. NextMid(mid) \in Mids
  BY <1>1, MidType
<1>3. Pending.role = "NOTIFICATION"
  BY DEF handleNotifyInteraction, SendNotification, NotificationWaits, NotificationRetries,
         NotificationRestarts, NotificationDone, NotificationRefused, NotificationSent
<1>4. /\ Pending \in Interactions /\ Pending.ep \in Eps
      /\ Pending.resp \in Message /\ Pending.res \in Res
      /\ Tail(queue) \in Seq(Interactions)
      /\ \A r \in Interactions : Append(Tail(queue), r) \in Seq(Interactions)
  BY <1>3, PendingType
<1>5. CASE SendNotification
  <2>1. SendResp(Pending, Tail(queue), "NOTIFICATION_SENT") /\ servingUnchanged
        /\ UNCHANGED <<mid, observers>>
    BY <1>5 DEF SendNotification
  <2> QED BY <1>1, <1>3, <1>4, <2>1, SendRespType, NotifyStep
<1>6. CASE NotificationWaits
  <2>1. SetSleep(Pending, Pending.ackLeft) \in Interactions
    BY <1>4, TimerType DEF Interactions, Interaction
  <2>2. queue' \in Seq(Interactions)
    BY <1>4, <1>6, <2>1 DEF NotificationWaits, EnqueueHead
  <2> QED BY <1>1, <1>6, <2>2, SilentType, NotifyStep DEF NotificationWaits
<1>7. CASE NotificationRetries
  <2>1. Pending.retransCounter + 1 <= MAX_RETRANSMIT
    BY <1>4, <1>7, StatusType DEF NotificationRetries
  <2>2. CASE ~Pending.updatePending
    <3>1. Retransmit(Pending, Pending.resp) /\ servingUnchanged /\ UNCHANGED <<mid, observers>>
      BY <1>7, <2>2 DEF NotificationRetries
    <3> QED BY <1>1, <1>4, <2>1, <3>1, RetransmitType, NotifyStep
  <2>3. CASE Pending.updatePending
    <3>1. servingUnchanged /\ mid' = NextMid(mid)
      BY <1>7, <2>3 DEF NotificationRetries
    <3>2. PICK outcome \in NotifierOutcomes :
            LET m == [Renewed(outcome) EXCEPT !.type = Pending.resp.type] IN
            /\ Retransmit([Pending EXCEPT !.resp = m, !.updatePending = FALSE], m)
            /\ ObserverAfter(outcome)
      BY <1>7, <2>3 DEF NotificationRetries
    <3> DEFINE m == [Renewed(outcome) EXCEPT !.type = Pending.resp.type]
               r == [Pending EXCEPT !.resp = m, !.updatePending = FALSE]
    <3>3. m \in Message
      BY <1>3, <1>4, RenewedType DEF Message
    <3>4. Retransmit(r, m) /\ ObserverAfter(outcome)
      BY <3>2
    <3> HIDE DEF m
    <3>5. r \in Interactions /\ r.retransCounter = Pending.retransCounter
      BY <1>4, <3>3 DEF Interactions, Interaction, WellFormed, MessageOrNull
    <3> HIDE DEF r
    <3>6. queue' \in Seq(Interactions) /\ TxOK'
      BY <2>1, <3>3, <3>4, <3>5, RetransmitType
    <3>7. observers' \in [Res -> Seq(Observer)]
      BY <1>3, <3>4, ObserverAfterType
    <3> QED BY <1>2, <3>1, <3>6, <3>7, NotifyStep
  <2> QED BY <2>2, <2>3
<1>8. CASE NotificationRestarts
  <2>1. servingUnchanged /\ mid' = NextMid(mid) /\ Silent
    BY <1>8 DEF NotificationRestarts
  <2>2. PICK outcome \in NotifierOutcomes :
          /\ EnqueueHead([Pending EXCEPT !.state = "READY_TO_NOTIFY", !.retransCounter = 0,
                                         !.updatePending = FALSE, !.resConfirm = "NOT_SET",
                                         !.resp = Renewed(outcome)])
          /\ ObserverAfter(outcome)
    BY <1>8 DEF NotificationRestarts
  <2> DEFINE r == [Pending EXCEPT !.state = "READY_TO_NOTIFY", !.retransCounter = 0,
                                  !.updatePending = FALSE, !.resConfirm = "NOT_SET",
                                  !.resp = Renewed(outcome)]
  <2>3. Renewed(outcome) \in Message
    BY <1>3, RenewedType
  <2>4. r \in Interactions
    <3>1. 0 \in 0 .. MAX_RETRANSMIT /\ "READY_TO_NOTIFY" \in States /\ "NOT_SET" \in Confirmation
      BY TimeAssumption DEF States, NotifyStates, Confirmation
    <3>2. r \in Interaction
      BY <1>4, <2>3, <3>1 DEF Interactions, Interaction, MessageOrNull
    <3>3. r.role = "NOTIFICATION" /\ r.resp \in Message /\ r.res \in Res /\ r.state \in NotifyStates
      BY <1>3, <1>4, <2>3 DEF Interactions, Interaction, NotifyStates
    <3> QED BY <3>2, <3>3 DEF Interactions, WellFormed
  <2>5. queue' \in Seq(Interactions)
    BY <1>4, <2>2, <2>4 DEF EnqueueHead
  <2>6. observers' \in [Res -> Seq(Observer)]
    BY <1>3, <2>2, ObserverAfterType
  <2> QED BY <1>1, <1>2, <2>1, <2>5, <2>6, SilentType, NotifyStep
<1>9. CASE NotificationDone
  BY <1>1, <1>4, <1>9, SilentType, NotifyStep DEF NotificationDone, DeleteHead
<1>10. CASE NotificationRefused
  <2>1. observers' \in [Res -> Seq(Observer)]
    BY <1>4, <1>10, RemoveObserverType DEF NotificationRefused
  <2> QED BY <1>1, <1>4, <1>10, <2>1, SilentType, NotifyStep DEF NotificationRefused, DeleteHead
<1> QED BY <1>5, <1>6, <1>7, <1>8, <1>9, <1>10 DEF handleNotifyInteraction

LEMMA NotifyResourceType ==
    ASSUME TypeInv, NEW r \in Res, NotifyResourceObservers(r)
    PROVE  TypeInv'
<1> USE DEF NotifyResourceObservers
<1>1. observers[r] \in Seq(Observer) /\ TypeOK /\ queue \in Seq(Interactions)
  BY QueueType DEF TypeInv, TypeOK
<1>2. updateCnt' \in [Res -> Versions]
  BY MaxVersionAssumption DEF TypeInv, TypeOK, Versions
<1>3. loop' \in [res : Res \cup {NoRes}, todo : Seq(Observer)] /\ LoopOK'
  BY <1>1, ResAssumption DEF NoLoop, LoopOK, Idle
<1>4. TxOK'
  BY <1>1 DEF TxOK, TypeOK
<1> QED BY <1>1, <1>2, <1>3, <1>4, TypeStep DEF notifyUnchanged, TypeOK

LEMMA LoopType ==
    ASSUME TypeInv, ~Idle
    PROVE  /\ ThisObserver \in Observer /\ loop.res \in Res
           /\ NextObserver => loop' \in [res : Res \cup {NoRes}, todo : Seq(Observer)] /\ LoopOK'
           /\ NoLoop \in [res : Res \cup {NoRes}, todo : Seq(Observer)]
           /\ loop' = NoLoop => LoopOK'
<1>1. loop.res \in Res /\ loop.todo \in Seq(Observer) /\ loop.todo # <<>>
      /\ loop \in [res : Res \cup {NoRes}, todo : Seq(Observer)]
  BY DEF TypeInv, TypeOK, LoopOK
<1>2. NoLoop \in [res : Res \cup {NoRes}, todo : Seq(Observer)] /\ NoLoop.res = NoRes
  BY DEF NoLoop
<1>3. ThisObserver \in Observer
  BY <1>1, EnqueueType DEF ThisObserver
<1>4. loop' = NoLoop => LoopOK'
  BY <1>2 DEF LoopOK, Idle
<1>5. CASE Len(loop.todo) = 1
  BY <1>1, <1>2, <1>3, <1>4, <1>5 DEF NextObserver
<1>6. CASE Len(loop.todo) # 1
  <2>1. Tail(loop.todo) \in Seq(Observer)
    BY <1>1, EnqueueType
  <2>2. Tail(loop.todo) # <<>>
    <3>1. Len(loop.todo) \in Nat \ {0}
      BY <1>1
    <3>2. Len(Tail(loop.todo)) = Len(loop.todo) - 1
      BY <1>1
    <3>3. Len(Tail(loop.todo)) # 0
      BY <1>6, <3>1, <3>2
    <3>4. Len(<<>>) = 0
      OBVIOUS
    <3> QED BY <3>3, <3>4, Zenon
  <2>3. NextObserver => loop' = [loop EXCEPT !.todo = Tail(@)]
    BY <1>6 DEF NextObserver
  <2> QED BY <1>1, <1>2, <1>3, <1>4, <2>1, <2>2, <2>3 DEF LoopOK, Idle
<1> QED BY <1>5, <1>6

\* The program starts with nothing.
LEMMA InitType == Init => TypeInv
<1> SUFFICES ASSUME Init PROVE TypeInv
  OBVIOUS
<1>1. queue \in Seq(Interaction) /\ leaked \in Nat /\ mid \in Mids /\ tok \in Tokens
      /\ tx \in SUBSET Datagram /\ told \in [Res -> SUBSET (Eps \X (Tokens \cup {NoToken}))]
  BY SeedAssumption DEF Init
<1>2. updateCnt \in [Res -> Versions] /\ observers \in [Res -> Seq(Observer)]
  BY MaxVersionAssumption DEF Init, Versions
<1>3. loop \in [res : Res \cup {NoRes}, todo : Seq(Observer)] /\ LoopOK
  BY DEF Init, NoLoop, LoopOK, Idle
<1>4. calls \in [1 .. MaxRequests -> CallResults]
  BY DEF Init, CallResults
<1>5. NoNullMessage
  BY DEF Init, NoNullMessage
<1> QED BY <1>1, <1>2, <1>3, <1>4, <1>5 DEF TypeInv, TypeOK

LEMMA StartNotifyType ==
    ASSUME TypeInv, StartNotifyInteractions
    PROVE  TypeInv'
<1> USE DEF notifyUnchanged
<1>1. TypeOK /\ queue \in Seq(Interactions)
  BY QueueType DEF TypeInv
<1>2. ~Idle
  BY DEF StartNotifyInteractions, MarkOngoing, NotifyOutOfMemory, StartNotification,
         NotifierFails, NotifierReturnsErrorCode, StartsNotification
<1>3. /\ ThisObserver \in Observer /\ loop.res \in Res
      /\ NextObserver => loop' \in [res : Res \cup {NoRes}, todo : Seq(Observer)] /\ LoopOK'
      /\ NoLoop \in [res : Res \cup {NoRes}, todo : Seq(Observer)]
      /\ loop' = NoLoop => LoopOK'
  BY <1>2, LoopType
<1>4. mid \in Mids /\ NextMid(mid) \in Mids
  BY <1>1, MidType DEF TypeOK
<1>5. CASE MarkOngoing
  <2>1. PICK k \in Ongoing : queue' = [queue EXCEPT ![k] = Wakeup([@ EXCEPT !.updatePending = TRUE])]
    BY <1>5 DEF MarkOngoing
  <2>2. k \in DOMAIN queue
    BY <2>1 DEF Ongoing, First
  <2> DEFINE r == [queue[k] EXCEPT !.updatePending = TRUE]
  <2>3. r \in Interactions
    <3>1. queue[k] \in Interactions
      BY <1>1, <2>2
    <3> QED BY <3>1 DEF Interactions, Interaction, WellFormed
  <2> HIDE DEF r
  <2>4. Wakeup(r) \in Interactions
    BY <2>3, TimerType
  <2>5. queue' = [queue EXCEPT ![k] = Wakeup(r)]
    BY <2>1 DEF r
  <2>6. queue' \in Seq(Interactions)
    BY <1>1, <2>2, <2>4, <2>5
  <2> QED BY <1>1, <1>3, <1>5, <2>6, SilentType, TypeStep DEF MarkOngoing, TypeOK
<1>6. CASE NotifyOutOfMemory
  BY <1>1, <1>3, <1>6, SilentType, TypeStep DEF NotifyOutOfMemory, TypeOK
<1>7. CASE StartNotification
  <2>1. PICK outcome \in NotifierOutcomes \cap {"ok", "non"} :
          queue' = Append(queue,
            [NewInteraction("NOTIFICATION", "READY_TO_NOTIFY", ThisObserver.ep) EXCEPT
                !.res = loop.res, !.pObserver = ThisObserver.oid,
                !.resp = [CreateMessage(NotificationType(outcome), "2.05", NextMid(mid), ThisObserver.token)
                            EXCEPT !.observe = updateCnt[loop.res],
                                   !.version = updateCnt[loop.res]]])
    BY <1>7 DEF StartNotification
  <2> DEFINE c == CreateMessage(NotificationType(outcome), "2.05", NextMid(mid), ThisObserver.token)
             m == [c EXCEPT !.observe = updateCnt[loop.res], !.version = updateCnt[loop.res]]
             n == NewInteraction("NOTIFICATION", "READY_TO_NOTIFY", ThisObserver.ep)
             r == [n EXCEPT !.res = loop.res, !.pObserver = ThisObserver.oid, !.resp = m]
  <2>2. c \in Message
    BY <1>3, <1>4, ShortRespType DEF NotificationType, Types, Codes, Responses, Observer
  <2>3. updateCnt[loop.res] \in Versions
    BY <1>1, <1>3 DEF TypeOK
  <2>4. n \in Interaction /\ n.role = "NOTIFICATION" /\ n.state = "READY_TO_NOTIFY"
    BY <1>3, NewType DEF Observer, States, NotifyStates, NewInteraction
  <2>5. queue' = Append(queue, r)
    BY <2>1
  <2> HIDE DEF c, n
  <2>6. m \in Message
    BY <2>2, <2>3 DEF Message, ObserveVals
  <2> HIDE DEF m
  <2>7. r \in Interaction
    BY <1>3, <2>4, <2>6 DEF Interaction, MessageOrNull, Observer
  <2>8. WellFormed(r)
    BY <1>3, <2>4, <2>6 DEF Interaction, WellFormed, NotifyStates
  <2> HIDE DEF r
  <2>9. queue' \in Seq(Interactions)
    BY <1>1, <2>5, <2>7, <2>8 DEF Interactions
  <2> QED BY <1>1, <1>3, <1>4, <1>7, <2>9, SilentType, TypeStep DEF StartNotification, TypeOK
<1>8. CASE NotifierFails
  BY <1>1, <1>3, <1>4, <1>8, SilentType, TypeStep DEF NotifierFails, TypeOK
<1>9. CASE NotifierReturnsErrorCode
  <2>1. CASE Restart
    BY <2>1, RestartType
  <2>2. CASE ~Restart
    <3>1. leaked' = leaked + 1 /\ mid' = NextMid(mid) /\ NextObserver /\ Silent
          /\ UNCHANGED <<tok, calls, queue, updateCnt, observers>>
      BY <1>9, <2>2 DEF NotifierReturnsErrorCode
    <3>2. leaked' \in Nat
      BY <1>1, <3>1 DEF TypeOK
    <3> QED BY <1>1, <1>3, <1>4, <3>1, <3>2, SilentType, TypeStep DEF TypeOK
  <2> QED BY <2>1, <2>2
<1> QED BY <1>5, <1>6, <1>7, <1>8, <1>9 DEF StartNotifyInteractions

-----------------------------------------------------------------------------
(* Client *)

\* A step of the client role leaves the rest of the state as it was.
LEMMA ClientStep ==
    ASSUME TypeInv, clientUnchanged, queue' \in Seq(Interactions), mid' \in Mids,
           tok' \in Tokens, calls' \in [1 .. MaxRequests -> CallResults], TxOK'
    PROVE  TypeInv'
<1>1. LoopOK'
  BY DEF clientUnchanged, TypeInv, LoopOK, Idle
<1> QED BY <1>1, TypeStep DEF clientUnchanged, TypeInv, TypeOK

LEMMA CallbackType ==
    ASSUME TypeInv, NEW n, NEW result \in CallResults, Callback(n, result)
    PROVE  calls' \in [1 .. MaxRequests -> CallResults]
<1>1. (IF calls[n] = "open" THEN result ELSE "twice") \in CallResults
  BY DEF CallResults
<1> QED BY <1>1 DEF Callback, TypeInv, TypeOK

LEMMA StartRequestType ==
    ASSUME TypeInv, NEW ep \in Eps, NEW type \in RequestTypes, StartNewRequest(ep, type)
    PROVE  TypeInv'
<1>1. TypeOK /\ queue \in Seq(Interactions)
  BY QueueType DEF TypeInv
<1>2. /\ NextMid(mid) \in Mids /\ NextToken(tok) \in Tokens
      /\ mid' \in Mids /\ tok' \in Tokens /\ clientUnchanged /\ Silent
  BY <1>1, MidType, TokenType DEF TypeOK, StartNewRequest
<1>3. PICK n \in First(FreshCalls) :
        IF OutOfMemory
        THEN UNCHANGED <<queue, calls>>
        ELSE /\ queue' = Append(queue,
                    [NewInteraction("CLIENT", "READY_TO_REQUEST", ep) EXCEPT
                        !.req = CreateMessage(type, "GET", NextMid(mid), NextToken(tok)),
                        !.call = n])
             /\ calls' = [calls EXCEPT ![n] = "open"]
  BY DEF StartNewRequest
<1>4. CASE OutOfMemory
  BY <1>1, <1>2, <1>3, <1>4, SilentType, ClientStep DEF TypeOK
<1>5. CASE ~OutOfMemory
  <2> DEFINE m == CreateMessage(type, "GET", NextMid(mid), NextToken(tok))
             i == NewInteraction("CLIENT", "READY_TO_REQUEST", ep)
             r == [i EXCEPT !.req = m, !.call = n]
  <2>1. m \in Message
    BY <1>2, ShortRespType, RequestTypesAssumption DEF Types, Codes, Requests
  <2>2. i \in Interaction /\ i.role = "CLIENT" /\ i.state = "READY_TO_REQUEST"
    BY NewType DEF States, ClientStates, NewInteraction
  <2>3. n \in 1 .. MaxRequests /\ n \in 0 .. MaxRequests
    BY BoundAssumption DEF First, FreshCalls
  <2>4. queue' = Append(queue, r) /\ calls' = [calls EXCEPT ![n] = "open"]
    BY <1>3, <1>5
  <2> HIDE DEF m, i
  <2>5. r \in Interaction /\ WellFormed(r)
    BY <2>1, <2>2, <2>3 DEF Interaction, WellFormed, MessageOrNull, ClientStates
  <2> HIDE DEF r
  <2>6. queue' \in Seq(Interactions)
    BY <1>1, <2>4, <2>5 DEF Interactions
  <2>7. calls' \in [1 .. MaxRequests -> CallResults]
    BY <1>1, <2>3, <2>4 DEF TypeOK, CallResults
  <2> QED BY <1>1, <1>2, <2>6, <2>7, SilentType, ClientStep
<1> QED BY <1>4, <1>5

LEMMA ClearType ==
    ASSUME TypeInv, ClearPendingInteractions
    PROVE  TypeInv'
<1>1. calls' \in [1 .. MaxRequests -> CallResults]
  <2>1. \A n \in DOMAIN calls : (IF calls[n] = "open" THEN "cleared" ELSE calls[n]) \in CallResults
    BY DEF TypeInv, TypeOK, CallResults
  <2> QED BY <2>1 DEF ClearPendingInteractions, TypeInv, TypeOK
<1>2. queue' \in Seq(Interactions)
  BY DEF ClearPendingInteractions
<1> QED BY <1>1, <1>2, SilentType, ClientStep DEF ClearPendingInteractions, TypeInv, TypeOK

LEMMA ClientType ==
    ASSUME TypeInv, queue # <<>>, handleClientInteraction
    PROVE  TypeInv'
<1>1. mid \in Mids /\ tok \in Tokens /\ calls \in [1 .. MaxRequests -> CallResults] /\ TypeOK
  BY DEF TypeInv, TypeOK
<1>2. /\ Asking \in Interactions /\ Asking.ep \in Eps /\ Tail(queue) \in Seq(Interactions)
      /\ \A r \in Interactions : Append(Tail(queue), r) \in Seq(Interactions)
  BY ServingType DEF Asking
<1>3. Asking.req \in Message /\ Asking.role = "CLIENT"
  BY <1>2 DEF handleClientInteraction, SendRequest, ClientWaits, ClientRetries, ClientGivesUp,
     HandleResponse, AwaitsResponse, Interactions, WellFormed
<1>4. UNCHANGED <<mid, tok>> /\ clientUnchanged
  BY DEF handleClientInteraction, SendRequest, ClientWaits, ClientRetries, ClientGivesUp,
         HandleResponse
<1>5. {"failed", "response", "dropped"} \subseteq CallResults
  BY DEF CallResults
<1>6. CASE SendRequest
  <2>1. TxOK'
    <3>1. SendMsg(NoRes, Asking.ep, Asking.req)
      BY <1>6 DEF SendRequest
    <3> QED BY <1>1, <1>2, <1>3, <3>1, SendType
  <2> DEFINE r == [Asking EXCEPT !.state = "WAITING_RESPONSE", !.reqAge = 0,
                                 !.ackLeft = IF Asking.req.type = "CON" THEN WaitTime[0] ELSE @]
  <2>2. (IF Asking.req.type = "CON" THEN WaitTime[0] ELSE Asking.ackLeft) \in Nat
    BY <1>2, TimeAssumption, WaitType DEF Interactions, Interaction
  <2>3. r \in Interaction
    <3> DEFINE w == IF Asking.req.type = "CON" THEN WaitTime[0] ELSE Asking.ackLeft
    <3>1. "WAITING_RESPONSE" \in States /\ 0 \in Nat
      BY DEF States, ClientStates
    <3>2. w \in Nat
      BY <2>2
    <3> HIDE DEF w
    <3>3. [Asking EXCEPT !.state = "WAITING_RESPONSE", !.reqAge = 0, !.ackLeft = w] \in Interaction
      BY <1>2, <3>1, <3>2 DEF Interactions, Interaction
    <3>4. r = [Asking EXCEPT !.state = "WAITING_RESPONSE", !.reqAge = 0, !.ackLeft = w]
      BY <1>2 DEF w, Interactions, Interaction
    <3> QED BY <3>3, <3>4
  <2>4. WellFormed(r)
    BY <1>2, <1>3 DEF Interactions, Interaction, WellFormed, ClientStates
  <2>5. \/ queue' = Append(Tail(queue), r) /\ UNCHANGED calls
        \/ queue' = Tail(queue) /\ calls' = [calls EXCEPT ![Asking.call] = "dropped"]
    BY <1>6 DEF SendRequest, EnqueueHead, DeleteHead
  <2> HIDE DEF r
  <2>6. queue' \in Seq(Interactions)
    BY <1>2, <2>3, <2>4, <2>5 DEF Interactions
  <2>7. calls' \in [1 .. MaxRequests -> CallResults]
    BY <1>1, <1>5, <2>5
  <2> QED BY <1>1, <1>4, <2>1, <2>6, <2>7, ClientStep
<1>7. CASE ClientWaits
  <2>1. queue' \in Seq(Interactions)
    BY <1>2, <1>7 DEF ClientWaits, EnqueueHead
  <2> QED BY <1>1, <1>4, <1>7, <2>1, SilentType, ClientStep DEF ClientWaits
<1>8. CASE ClientRetries
  <2> DEFINE r == [Asking EXCEPT !.reqAge = 0]
  <2>1. r \in Interactions
    BY <1>2 DEF Interactions, Interaction, WellFormed
  <2>2. Asking.retransCounter + 1 <= MAX_RETRANSMIT
    BY <1>2, <1>8, TimeAssumption DEF ClientRetries, ReqStatus, Interactions, Interaction
  <2>3. r.retransCounter = Asking.retransCounter
    BY <1>2 DEF Interactions, Interaction
  <2>4. Retransmit(r, Asking.req)
    BY <1>8 DEF ClientRetries
  <2> HIDE DEF r
  <2>5. queue' \in Seq(Interactions) /\ TxOK'
    BY <1>3, <2>1, <2>2, <2>3, <2>4, RetransmitType
  <2>6. calls' \in [1 .. MaxRequests -> CallResults]
    BY <1>1, <1>5, <1>8, CallbackType DEF ClientRetries
  <2> QED BY <1>1, <1>4, <2>5, <2>6, ClientStep
<1>9. CASE ClientGivesUp
  <2>1. calls' \in [1 .. MaxRequests -> CallResults]
    BY <1>5, <1>9, CallbackType DEF ClientGivesUp
  <2> QED BY <1>1, <1>2, <1>4, <1>9, <2>1, SilentType, ClientStep DEF ClientGivesUp, DeleteHead
<1>10. CASE HandleResponse
  <2>1. calls' \in [1 .. MaxRequests -> CallResults]
    BY <1>5, <1>10, CallbackType DEF HandleResponse
  <2> QED BY <1>1, <1>2, <1>4, <1>10, <2>1, SilentType, ClientStep DEF HandleResponse, DeleteHead
<1> QED BY <1>6, <1>7, <1>8, <1>9, <1>10 DEF handleClientInteraction

-----------------------------------------------------------------------------
(* Packets, the head of the list, and time *)

\* A packet leaves the rest of the state as it was.
LEMMA PacketStep ==
    ASSUME TypeInv, rxUnchanged, queue' \in Seq(Interactions), mid' \in Mids, TxOK'
    PROVE  TypeInv'
<1>1. LoopOK'
  BY DEF rxUnchanged, TypeInv, LoopOK, Idle
<1> QED BY <1>1, TypeStep DEF rxUnchanged, TypeInv, TypeOK

LEMMA DatagramType ==
    ASSUME NEW d \in Datagrams
    PROVE  /\ d.ep \in Eps /\ d.msg \in Message /\ d.uri \in Res \cup {NoRes}
           /\ d.multicast \in BOOLEAN
           /\ d.msg.mid \in Mids /\ d.msg.token \in Tokens \cup {NoToken}
           /\ SendEmptyAck(d.msg.mid) \in Message /\ SendEmptyRST(d.msg.mid) \in Message
BY DatagramAssumption, EmptyType DEF Message

LEMMA WokenType ==
    ASSUME TypeInv, NEW d
    PROVE  /\ Woken(d) \in Seq(Interactions) /\ DOMAIN Woken(d) = DOMAIN queue
           /\ queue \in Seq(Interactions)
<1>1. queue \in Seq(Interactions)
  BY QueueType DEF TypeInv
<1>2. \A k \in DOMAIN queue : queue[k] \in Interactions /\ Wakeup(queue[k]) \in Interactions
  BY <1>1, TimerType
<1>3. Len(queue) \in Nat /\ DOMAIN queue = 1 .. Len(queue)
  BY <1>1
<1> QED BY <1>1, <1>2, <1>3 DEF Woken

LEMMA AcknowledgedType ==
    ASSUME NEW r \in Interactions, NEW m \in Message
    PROVE  /\ Acknowledged(r, m) \in Interactions
           /\ [r EXCEPT !.resConfirm = "RST_SEND"] \in Interactions
           /\ [r EXCEPT !.resConfirm = "ACK_SEND"] \in Interactions
<1>1. [r EXCEPT !.resConfirm = "RST_SEND"] \in Interactions
  BY DEF Interactions, Interaction, WellFormed, Confirmation
<1>2. [r EXCEPT !.resConfirm = "ACK_SEND"] \in Interactions
  BY DEF Interactions, Interaction, WellFormed, Confirmation
<1>3. CASE Piggybacked(r, m)
  <2> DEFINE n == [r EXCEPT !.resConfirm = "ACK_SEND", !.resp = m, !.state = "HANDLE_RESPONSE"]
  <2>1. Acknowledged(r, m) = n
    BY <1>3 DEF Acknowledged
  <2>2. "HANDLE_RESPONSE" \in States /\ "ACK_SEND" \in Confirmation
    BY DEF States, ClientStates, Confirmation
  <2>3. n \in Interaction
    BY <2>2 DEF Interactions, Interaction, MessageOrNull
  <2>4. WellFormed(n)
    BY <1>3 DEF Piggybacked, Interactions, Interaction, WellFormed, ClientStates
  <2> QED BY <1>1, <1>2, <2>1, <2>3, <2>4 DEF Interactions
<1> QED BY <1>1, <1>2, <1>3 DEF Acknowledged

LEMMA AttachedType ==
    ASSUME NEW r \in Interactions, NEW m \in Message, r.role = "CLIENT"
    PROVE  Attached(r, m) \in Interactions
<1>1. CASE r.state \in {"WAITING_RESPONSE", "HANDLE_RESPONSE"}
  <2> DEFINE n == [r EXCEPT !.resp = m, !.state = "HANDLE_RESPONSE"]
  <2>1. "HANDLE_RESPONSE" \in States
    BY DEF States, ClientStates
  <2>2. n \in Interaction
    BY <2>1 DEF Interactions, Interaction, MessageOrNull
  <2>3. WellFormed(n)
    BY DEF Interactions, Interaction, WellFormed, ClientStates
  <2> QED BY <1>1, <2>2, <2>3 DEF Attached, Interactions
<1> QED BY <1>1 DEF Attached

LEMMA StartServerType ==
    ASSUME TypeInv, NEW d \in Datagrams, PrechecksDone(d), MsgIsRequest(d.msg),
           StartNewServerInteraction(d, Woken(d))
    PROVE  TypeInv'
<1> USE DEF StartNewServerInteraction
<1>1. Woken(d) \in Seq(Interactions) /\ TypeOK /\ d.msg \in Message /\ d.ep \in Eps
  BY WokenType, DatagramType DEF TypeInv
<1>2. mid' \in Mids /\ rxUnchanged
  BY <1>1 DEF serverUnchanged, rxUnchanged, TypeOK
<1>3. CASE \E k \in Duplicates(d.ep, d.msg) :
            /\ queue' = Woken(d)
            /\ IF EmptyAckSent(queue[k])
               THEN SendMsg(NoRes, d.ep, SendEmptyAck(d.msg.mid))
               ELSE Silent
  BY <1>1, <1>2, <1>3, DatagramType, SendType, SilentType, PacketStep
<1>4. CASE /\ Duplicates(d.ep, d.msg) = {} /\ ~OutOfMemory
           /\ queue' = Append(Woken(d),
                [NewInteraction("SERVER", "HANDLE_REQUEST", d.ep) EXCEPT
                    !.res = d.uri, !.multicast = d.multicast, !.req = d.msg])
           /\ Silent
  <2> DEFINE n == NewInteraction("SERVER", "HANDLE_REQUEST", d.ep)
             r == [n EXCEPT !.res = d.uri, !.multicast = d.multicast, !.req = d.msg]
  <2>1. n \in Interaction /\ n.role = "SERVER" /\ n.state = "HANDLE_REQUEST"
    BY <1>1, NewType DEF NewInteraction, States, ServerStates
  <2>2. d.uri \in Res /\ d.multicast \in BOOLEAN
    BY DatagramType DEF PrechecksDone, UnknownUri
  <2> HIDE DEF n
  <2>3. r \in Interaction
    BY <1>1, <2>1, <2>2 DEF Interaction, MessageOrNull
  <2>4. WellFormed(r)
    BY <1>1, <2>1, <2>2 DEF Interaction, WellFormed, ServerStates
  <2>5. queue' = Append(Woken(d), r)
    BY <1>4 DEF n
  <2> HIDE DEF r
  <2>6. queue' \in Seq(Interactions)
    BY <1>1, <2>3, <2>4, <2>5 DEF Interactions
  <2> QED BY <1>1, <1>2, <1>4, <2>6, SilentType, PacketStep
<1>5. CASE /\ Duplicates(d.ep, d.msg) = {} /\ OutOfMemory
           /\ queue' = Woken(d)
           /\ IF d.msg.type = "CON"
              THEN SendMsg(NoRes, d.ep, SendShortResp("ACK", "5.00", d.msg.mid, d.msg.token))
              ELSE Silent
  <2>1. SendShortResp("ACK", "5.00", d.msg.mid, d.msg.token) \in Message
    BY DatagramType, ShortRespType DEF Types, Codes, Responses
  <2> QED BY <1>1, <1>2, <1>5, <2>1, SendType, SilentType, PacketStep
<1> QED BY <1>3, <1>4, <1>5

LEMMA PacketType ==
    ASSUME TypeInv, NEW d \in Datagrams, HandleIncomingPacket(d)
    PROVE  TypeInv'
<1>1. /\ TypeOK /\ mid \in Mids /\ NextMid(mid) \in Mids
      /\ Woken(d) \in Seq(Interactions) /\ DOMAIN Woken(d) = DOMAIN queue
      /\ queue \in Seq(Interactions)
  BY MidType, WokenType DEF TypeInv, TypeOK
<1>2. /\ d.ep \in Eps /\ d.msg \in Message
      /\ SendEmptyAck(d.msg.mid) \in Message /\ SendEmptyRST(d.msg.mid) \in Message
  BY DatagramType
<1>3. SendShortResp("ACK", "4.04", d.msg.mid, d.msg.token) \in Message
      /\ SendShortResp("ACK", "4.02", d.msg.mid, d.msg.token) \in Message
      /\ SendShortResp("NON", "4.04", NextMid(mid), d.msg.token) \in Message
  BY <1>1, DatagramType, ShortRespType DEF Types, Codes, Responses
<1> DEFINE w == Woken(d)
<1>13. \A k \in DOMAIN queue : w[k] \in Interactions /\ queue[k] \in Interactions
  <2> HIDE DEF w
  <2>1. w \in Seq(Interactions) /\ DOMAIN w = DOMAIN queue
    BY <1>1 DEF w
  <2> QED BY <1>1, <2>1
<1>4. CASE RxPing(d)
  BY <1>1, <1>2, <1>4, SendType, PacketStep DEF RxPing
<1>5. CASE RxIgnored(d)
  BY <1>1, <1>5, SilentType, PacketStep DEF RxIgnored
<1>6. CASE RxUnknownUri(d)
  BY <1>1, <1>2, <1>3, <1>6, SendType, PacketStep DEF RxUnknownUri
<1>7. CASE RxCritical(d)
  BY <1>1, <1>2, <1>3, <1>7, SendType, SilentType, PacketStep DEF RxCritical
<1>8. CASE RxReset(d)
  <2>1. queue' = [k \in DOMAIN queue |->
                    IF k \in Found(d) THEN [Woken(d)[k] EXCEPT !.resConfirm = "RST_SEND"]
                    ELSE queue[k]]
    BY <1>8 DEF RxReset
  <2>2. \A k \in DOMAIN queue : /\ [Woken(d)[k] EXCEPT !.resConfirm = "RST_SEND"] \in Interactions
                                /\ queue[k] \in Interactions
    BY <1>2, <1>13, AcknowledgedType
  <2>3. queue' \in Seq(Interactions)
    BY <1>1, <2>1, <2>2
  <2> QED BY <1>1, <1>8, <2>3, SilentType, PacketStep DEF RxReset
<1>9. CASE RxAck(d)
  <2>1. queue' = [k \in DOMAIN queue |->
                    IF k \in Found(d) THEN Acknowledged(Woken(d)[k], d.msg) ELSE queue[k]]
    BY <1>9 DEF RxAck
  <2>2. \A k \in DOMAIN queue : /\ Acknowledged(Woken(d)[k], d.msg) \in Interactions
                                /\ queue[k] \in Interactions
    BY <1>2, <1>13, AcknowledgedType
  <2>3. queue' \in Seq(Interactions)
    BY <1>1, <2>1, <2>2
  <2> QED BY <1>1, <1>9, <2>3, SilentType, PacketStep DEF RxAck
<1>10. CASE RxRequest(d)
  BY <1>10, StartServerType DEF RxRequest
<1>11. CASE RxSeparateResponse(d)
  <2>1. PICK k \in Requested(d) :
          LET r == Attached(Woken(d)[k], d.msg) IN
          /\ IF d.msg.type = "CON"
             THEN SendMsg(NoRes, d.ep, SendEmptyAck(d.msg.mid))
             ELSE Silent
          /\ queue' = [Woken(d) EXCEPT ![k] =
                          IF Sent THEN [r EXCEPT !.resConfirm = "ACK_SEND"] ELSE r]
    BY <1>11 DEF RxSeparateResponse
  <2> DEFINE r == Attached(Woken(d)[k], d.msg)
             n == IF Sent THEN [r EXCEPT !.resConfirm = "ACK_SEND"] ELSE r
  <2>2. k \in DOMAIN queue /\ queue[k].role = "CLIENT"
    BY DEF Requested, First
  <2>3. Woken(d)[k] \in Interactions /\ queue[k] \in Interactions
    BY <1>1, <2>2
  <2>4. Woken(d)[k].role = "CLIENT"
    BY <2>2, <2>3 DEF Woken, Wakeup, Interactions, Interaction
  <2>5. r \in Interactions
    BY <1>2, <2>3, <2>4, AttachedType
  <2>6. queue' = [Woken(d) EXCEPT ![k] = n]
    BY <2>1
  <2>7. TxOK'
    BY <1>1, <1>2, <2>1, SendType, SilentType
  <2> HIDE DEF r
  <2>8. n \in Interactions
    BY <1>2, <2>5, AcknowledgedType
  <2> HIDE DEF n
  <2>9. queue' \in Seq(Interactions)
    BY <1>1, <2>2, <2>6, <2>8
  <2> QED BY <1>1, <1>11, <2>7, <2>9, PacketStep DEF RxSeparateResponse
<1>12. CASE RxUnexpectedResponse(d)
  BY <1>1, <1>2, <1>12, SendType, PacketStep DEF RxUnexpectedResponse
<1> QED BY <1>4, <1>5, <1>6, <1>7, <1>8, <1>9, <1>10, <1>11, <1>12 DEF HandleIncomingPacket

LEMMA DoWorkType ==
    ASSUME TypeInv, doWork
    PROVE  TypeInv'
<1>1. queue # <<>>
  BY DEF doWork
<1>2. CASE Rotate
  <2>1. queue' \in Seq(Interactions)
    BY <1>1, <1>2, ServingType DEF Rotate, EnqueueHead
  <2>2. rxUnchanged /\ mid' = mid /\ Silent
    BY <1>2 DEF Rotate, rxUnchanged
  <2> QED BY <2>1, <2>2, SilentType, PacketStep DEF TypeInv, TypeOK
<1> QED BY <1>1, <1>2, ServerType, NotifyType, ClientType DEF doWork

LEMMA TickType ==
    ASSUME TypeInv, Tick
    PROVE  TypeInv'
<1>1. queue \in Seq(Interactions)
  BY QueueType DEF TypeInv
<1>2. \A k \in DOMAIN queue : OneSecondOlder(queue[k]) \in Interactions
  BY <1>1, TimerType
<1>3. Len(queue) \in Nat /\ DOMAIN queue = 1 .. Len(queue)
  BY <1>1
<1>4. queue' \in Seq(Interactions)
  BY <1>2, <1>3 DEF Tick
<1>5. rxUnchanged /\ mid' = mid /\ Silent
  BY DEF Tick, rxUnchanged
<1> QED BY <1>4, <1>5, SilentType, PacketStep DEF TypeInv, TypeOK

-----------------------------------------------------------------------------

LEMMA NextType == TypeInv /\ [Next]_vars => TypeInv'
<1> SUFFICES ASSUME TypeInv, [Next]_vars PROVE TypeInv'
  OBVIOUS
<1>1. CASE \E d \in Datagrams : HandleIncomingPacket(d)
  BY <1>1, PacketType
<1>2. CASE doWork
  BY <1>2, DoWorkType
<1>3. CASE \E r \in Res : NotifyResourceObservers(r)
  BY <1>3, NotifyResourceType
<1>4. CASE StartNotifyInteractions
  BY <1>4, StartNotifyType
<1>5. CASE \E ep \in Eps, type \in RequestTypes : StartNewRequest(ep, type)
  BY <1>5, StartRequestType
<1>6. CASE ClearPendingInteractions
  BY <1>6, ClearType
<1>7. CASE Tick
  BY <1>7, TickType
<1>8. CASE UNCHANGED vars
  BY <1>8 DEF vars, TypeInv, TypeOK, NoNullMessage, LoopOK, Idle
<1> QED BY <1>1, <1>2, <1>3, <1>4, <1>5, <1>6, <1>7, <1>8 DEF Next

\* Whatever datagrams arrive, in whatever order with the calls of the
\* application, every variable keeps its type: no timer runs below zero and no
\* message ID, counter or callback leaves its range.
THEOREM TypeCorrect == Spec => []TypeOK
<1>1. TypeInv => TypeOK
  BY DEF TypeInv
<1> QED BY <1>1, InitType, NextType, PTL DEF Spec

\* No step of a role reads through a message, resource or callback its
\* interaction does not have, but for those that send the answer 4.05 and look
\* after it: its allocation is not checked (coap_main.c:392, ServeNullAnswer).
THEOREM MessagesPresent == Spec => []NoNullMessage
<1>1. TypeInv => NoNullMessage
  BY DEF TypeInv
<1> QED BY <1>1, InitType, NextType, PTL DEF Spec
=============================================================================
