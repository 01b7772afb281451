------------------------- MODULE CoapEndpoint_proofs -------------------------
(***************************************************************************)
(* What an endpoint answers.  First: every answer fits its request, the    *)
(* one the server role is sending and the one the client role is about to  *)
(* hand to the application.  Then, with these and the jobs: one step of an *)
(* endpoint as the other side of the network sees it.                      *)
(***************************************************************************)
EXTENDS CoapJobs_proofs

\* A server interaction works on a request that was let in; the answer it has
\* prepared is a piggybacked one until the request has been acknowledged.
ServerFits(r) ==
    /\ r.req.type \in {"CON", "NON"}
    /\ r.resp # NoMessage => r.resp.token = r.req.token
    /\ r.resp.type = "ACK" => r.req.type = "CON" /\ r.resp.mid = r.req.mid
    /\ r.resp.type = "CON" /\ r.req.type = "CON" => r.reqConfirm = "ACK_SEND"
    /\ r.resp # NoMessage /\ r.req.type = "CON" => r.resp.type \in {"ACK", "CON"}
    /\ r.state = "RESPONSE_SENT" /\ r.multicast => r.req.type # "CON"
    /\ r.state = "RESOURCE_POSTPONE_EMPTY_ACK_SENT" =>
        /\ r.req.type = "CON" /\ r.reqConfirm = "ACK_SEND"
        /\ r.req.code \in AllowedMethods[r.res]

\* A client interaction has a response exactly when it is to be reported.
ClientFits(r) ==
    /\ r.state = "HANDLE_RESPONSE" <=> r.resp # NoMessage
    /\ r.resp # NoMessage => r.resp.token = r.req.token
    /\ r.resp.type = "ACK" => r.resp.mid = r.req.mid

Fits(r) ==
    /\ r.role = "SERVER" => ServerFits(r)
    /\ r.role = "CLIENT" => ClientFits(r)

AllFit(q) == \A k \in DOMAIN q : Fits(q[k])

AnswersInv == TypeInv /\ AllFit(queue)

-----------------------------------------------------------------------------
(* Lists *)

LEMMA ListsFit ==
    ASSUME NEW S, NEW q \in Seq(S), AllFit(q)
    PROVE  /\ q # <<>> => Fits(Head(q)) /\ AllFit(Tail(q))
           /\ \A r : Fits(r) => AllFit(Append(q, r)) /\ AllFit([q EXCEPT ![1] = r])
           /\ \A ks \in SUBSET DOMAIN q : AllFit(Without(q, ks))
<1>1. ASSUME q # <<>> PROVE Fits(Head(q)) /\ AllFit(Tail(q))
  <2>1. 1 \in DOMAIN q /\ Head(q) = q[1]
    BY <1>1
  <2>2. \A k \in DOMAIN Tail(q) : k + 1 \in DOMAIN q /\ Tail(q)[k] = q[k + 1]
    BY <1>1
  <2> QED BY <2>1, <2>2 DEF AllFit
<1>2. ASSUME NEW r, Fits(r) PROVE AllFit(Append(q, r)) /\ AllFit([q EXCEPT ![1] = r])
  <2>1. q \in Seq(S \cup {r}) /\ r \in S \cup {r}
    <3>1. Len(q) \in Nat /\ DOMAIN q = 1 .. Len(q) /\ q \in [1 .. Len(q) -> S \cup {r}]
      OBVIOUS
    <3> QED BY <3>1, SeqDef
  <2>2. \A k \in DOMAIN Append(q, r) :
            (k \in DOMAIN q /\ Append(q, r)[k] = q[k]) \/ Append(q, r)[k] = r
    BY <2>1
  <2>3. \A k \in DOMAIN [q EXCEPT ![1] = r] :
            k \in DOMAIN q /\ ([q EXCEPT ![1] = r][k] = q[k] \/ [q EXCEPT ![1] = r][k] = r)
    OBVIOUS
  <2> QED BY <1>2, <2>2, <2>3 DEF AllFit
<1>3. ASSUME NEW ks \in SUBSET DOMAIN q PROVE AllFit(Without(q, ks))
  BY WithoutElements DEF AllFit
<1> QED BY <1>1, <1>2, <1>3

-----------------------------------------------------------------------------
(* Interactions *)

\* s is r with other timers, another counter or another confirmation by the peer.
SameMessages(r, s) ==
    /\ s.role = r.role /\ s.state = r.state /\ s.res = r.res /\ s.multicast = r.multicast
    /\ s.req = r.req /\ s.reqConfirm = r.reqConfirm /\ s.resp = r.resp

LEMMA SameFit == ASSUME NEW r, NEW s, SameMessages(r, s), Fits(r) PROVE Fits(s)
BY DEF SameMessages, Fits, ServerFits, ClientFits

LEMMA StagesFit ==
    ASSUME NEW r \in Interactions, Fits(r)
    PROVE  /\ \A s : Fits(SetSleep(r, s))
           /\ Fits(Wakeup(r))
           /\ Fits(OneSecondOlder(r))
           /\ Fits(EnableAckTimeout([r EXCEPT !.retransCounter = @ + 1]))
           /\ \A c : Fits([r EXCEPT !.resConfirm = c])
<1> USE DEF SameMessages, Interactions, Interaction
<1>1. \A s : SameMessages(r, SetSleep(r, s))
  BY DEF SetSleep
<1>2. SameMessages(r, Wakeup(r)) /\ SameMessages(r, OneSecondOlder(r))
  BY DEF Wakeup, OneSecondOlder
<1>3. SameMessages(r, EnableAckTimeout([r EXCEPT !.retransCounter = @ + 1]))
  BY DEF EnableAckTimeout
<1>4. \A c : SameMessages(r, [r EXCEPT !.resConfirm = c])
  OBVIOUS
<1> HIDE DEF SameMessages, Interactions, Interaction
<1> QED BY <1>1, <1>2, <1>3, <1>4, SameFit

LEMMA ServingFits ==
    ASSUME AnswersInv, queue # <<>>
    PROVE  /\ TypeInv /\ queue \in Seq(Interactions) /\ Head(queue) \in Interactions
           /\ Tail(queue) \in Seq(Interactions)
           /\ AllFit(queue) /\ AllFit(Tail(queue)) /\ Fits(Head(queue))
BY ServingType, ListsFit DEF AnswersInv

\* The head goes behind the others, is changed in its place, or leaves.
LEMMA HeadFits ==
    ASSUME AnswersInv, queue # <<>>, NEW r,
           \/ Fits(r) /\ (EnqueueHead(r) \/ UpdateHead(r))
           \/ DeleteHead
    PROVE  AllFit(queue')
<1>1. /\ queue \in Seq(Interactions) /\ AllFit(queue)
      /\ Tail(queue) \in Seq(Interactions) /\ AllFit(Tail(queue))
  BY ServingFits
<1>2. Fits(r) => AllFit(Append(Tail(queue), r)) /\ AllFit([queue EXCEPT ![1] = r])
  BY <1>1, ListsFit
<1> QED BY <1>1, <1>2 DEF EnqueueHead, UpdateHead, DeleteHead

LEMMA RetransmitFits ==
    ASSUME AnswersInv, queue # <<>>, NEW r \in Interactions, Fits(r), NEW m, Retransmit(r, m)
    PROVE  AllFit(queue')
<1>1. Fits(EnableAckTimeout([r EXCEPT !.retransCounter = @ + 1]))
  BY StagesFit
<1> QED BY <1>1, HeadFits DEF Retransmit

-----------------------------------------------------------------------------
(* Server *)

\* The answer r holds, once it is sent.
LEMMA SendRespFits ==
    ASSUME NEW r \in Interactions, NEW others \in Seq(Interactions), AllFit(others),
           NEW next, Fits(Answered(r, next)), SendResp(r, others, next)
    PROVE  AllFit(queue')
BY ListsFit DEF SendResp

\* The answer prepared for a request fits it, before and after the handler
\* has turned it into a separate one.
LEMMA PreparedFits ==
    ASSUME AnswersInv, queue # <<>>, Serving.role = "SERVER"
    PROVE  /\ Serving \in Interactions /\ Serving.req \in Message
           /\ Serving.req.type \in {"CON", "NON"}
           /\ Prepared \in Message
           /\ Prepared.token = Serving.req.token
           /\ Prepared.type = "ACK" => Serving.req.type = "CON" /\ Prepared.mid = Serving.req.mid
           /\ Prepared.type = "CON" /\ Serving.req.type = "CON" => Serving.reqConfirm = "ACK_SEND"
           /\ Serving.req.type = "CON" /\ Serving.reqConfirm # "ACK_SEND" => Prepared.mid = Serving.req.mid
<1>1. Serving \in Interactions /\ ServerFits(Serving) /\ Serving.req \in Message /\ Prepared \in Message
  BY ServingFits, PreparedType, RequestType DEF Serving, Fits
<1>2. CASE Postponed
  BY <1>1, <1>2 DEF ServerFits, Postponed, Prepared
<1>3. CASE ~Postponed
  BY <1>1, <1>3 DEF ServerFits, Prepared, AllocRespMsg, CreateMessage
<1> QED BY <1>1, <1>2, <1>3
\* The typed answer still does, and is a separate one after an empty ACK.
LEMMA AnswersFit ==
    ASSUME AnswersInv, queue # <<>>, Serving.role = "SERVER", ReadyForHandler,
           NEW m \in Answers
    PROVE  /\ m \in Message
           /\ m.token = Serving.req.token
           /\ m.type = "ACK" => Serving.req.type = "CON" /\ m.mid = Serving.req.mid
           /\ Serving.req.type = "CON" => m.type \in {"ACK", "CON"}
           /\ Serving.req.type = "CON" =>
                (m.type = "CON" <=> Serving.reqConfirm = "ACK_SEND")
           /\ Serving.multicast => Serving.req.type # "CON"
<1>1. PICK c \in AnswerCodes :
        m \in Typed([Prepared EXCEPT
                        !.code = c,
                        !.version = IF c = "2.05" THEN updateCnt[Serving.res] ELSE 0])
  BY DEF Answers
<1> DEFINE p == [Prepared EXCEPT
                    !.code = c,
                    !.version = IF c = "2.05" THEN updateCnt[Serving.res] ELSE 0]
<1>2. p.token = Prepared.token /\ p.mid = Prepared.mid /\ p.type = Prepared.type
      /\ DOMAIN p = DOMAIN Prepared
  BY PreparedFits DEF Message
<1>3. Prepared \in Message
  BY PreparedFits
<1>4. m \in Message
  BY AnswersType, ServingFits
<1> HIDE DEF p
<1>5. m \in Typed(p)
  BY <1>1 DEF p
<1>6. \/ Separate /\ m = [p EXCEPT !.type = "CON", !.mid = NextMid(mid)]
      \/ ~Separate /\ Serving.req.type = "CON" /\ m = [p EXCEPT !.type = "ACK"]
      \/ ~Separate /\ Serving.req.type # "CON" /\ \E t \in HandlerTypes : m = [p EXCEPT !.type = t]
  BY <1>5 DEF Typed
<1>7. /\ m.token = p.token
      /\ Separate => m.type = "CON"
      /\ ~Separate /\ Serving.req.type = "CON" => m.type = "ACK" /\ m.mid = p.mid
      /\ ~Separate /\ Serving.req.type # "CON" => m.type \in HandlerTypes
  BY <1>2, <1>3, <1>6 DEF Message
<1>8. Serving.multicast => Serving.req.type # "CON"
  BY DEF ReadyForHandler
<1> QED BY <1>2, <1>4, <1>7, <1>8, PreparedFits, HandlerTypesAssumption DEF Separate

\* An answer that fits the request of the head, in the state it is sent in.
LEMMA SentFits ==
    ASSUME NEW r \in Interactions, NEW m \in Message, r.role = "SERVER",
           r.req.type \in {"CON", "NON"},
           m.token = r.req.token,
           m.type = "ACK" => r.req.type = "CON" /\ m.mid = r.req.mid,
           r.req.type = "CON" => m.type \in {"ACK", "CON"},
           m.type = "CON" /\ r.req.type = "CON" => r.reqConfirm = "ACK_SEND",
           r.multicast => r.req.type # "CON"
    PROVE  /\ [r EXCEPT !.resp = m] \in Interactions
           /\ Fits(Answered([r EXCEPT !.resp = m], "RESPONSE_SENT"))
<1> DEFINE n == [r EXCEPT !.resp = m]
           a == Answered(n, "RESPONSE_SENT")
<1>1. n \in Interactions
  BY RespType
<1>2. /\ n.role = "SERVER" /\ n.req = r.req /\ n.resp = m /\ n.multicast = r.multicast
      /\ n.reqConfirm = r.reqConfirm
  BY DEF Interactions, Interaction
<1> HIDE DEF n
<1>3. /\ a.role = "SERVER" /\ a.req = n.req /\ a.resp = n.resp /\ a.multicast = n.multicast
      /\ a.reqConfirm = IF n.resp.type = "ACK" THEN "ACK_SEND" ELSE n.reqConfirm
      /\ a.state = "RESPONSE_SENT"
  <2> DEFINE c == IF n.resp.type = "ACK" THEN "ACK_SEND" ELSE n.reqConfirm
             t == IF n.resp.type = "CON" THEN WaitTime[n.retransCounter] ELSE n.ackLeft
  <2>1. a = [n EXCEPT !.state = "RESPONSE_SENT", !.reqConfirm = c, !.ackLeft = t]
    BY <1>1 DEF Answered, Interactions, Interaction
  <2> HIDE DEF c, t, a
  <2>2. /\ a.role = "SERVER" /\ a.req = n.req /\ a.resp = n.resp /\ a.multicast = n.multicast
        /\ a.reqConfirm = c /\ a.state = "RESPONSE_SENT"
    BY <1>1, <1>2, <2>1 DEF Interactions, Interaction
  <2> QED BY <2>2 DEF c
<1> HIDE DEF a
<1>4. ServerFits(a)
  BY <1>2, <1>3 DEF ServerFits
<1>5. Fits(a)
  BY <1>2, <1>3, <1>4 DEF Fits
<1> QED BY <1>1, <1>5 DEF a, n

LEMMA AnswerFits ==
    ASSUME AnswersInv, queue # <<>>, Serving.role = "SERVER", ReadyForHandler,
           NEW m \in Answers, Answer(m)
    PROVE  AllFit(queue')
<1>1. /\ Serving \in Interactions /\ Serving.req.type \in {"CON", "NON"}
      /\ Tail(queue) \in Seq(Interactions) /\ AllFit(Tail(queue))
  BY ServingFits, PreparedFits DEF Serving
<1>2. ASSUME NEW n \in Message, n.type = m.type, n.mid = m.mid, n.token = m.token
      PROVE  /\ [Serving EXCEPT !.resp = n] \in Interactions
             /\ Fits(Answered([Serving EXCEPT !.resp = n], "RESPONSE_SENT"))
  BY <1>1, <1>2, AnswersFit, SentFits
<1>3. m \in Message
  BY AnswersFit
<1>4. CASE ~Registers(m) /\ ~Deregisters(m)
  <2>1. SendResp([Serving EXCEPT !.resp = m], Tail(queue), "RESPONSE_SENT")
    BY <1>4 DEF Answer
  <2> QED BY <1>1, <1>2, <1>3, <2>1, SendRespFits
<1>5. CASE Registers(m)
  <2> DEFINE n == [m EXCEPT !.observe = 0]
  <2>1. n \in Message /\ n.type = m.type /\ n.mid = m.mid /\ n.token = m.token
    BY <1>3, MaxVersionAssumption DEF Message, ObserveVals, Versions
  <2>2. SendResp([Serving EXCEPT !.resp = n], Tail(queue), "RESPONSE_SENT")
    BY <1>5 DEF Answer, Registers, Deregisters, Register, Deregister
  <2> HIDE DEF n
  <2> QED BY <1>1, <1>2, <2>1, <2>2, SendRespFits
<1>6. CASE Deregisters(m)
  <2> DEFINE rest == Without(Tail(queue), PendingNotification(Tail(queue)))
  <2>1. SendResp([Serving EXCEPT !.resp = m], rest, "RESPONSE_SENT")
    BY <1>6 DEF Answer, Registers, Deregisters, Register, Deregister
  <2>2. PendingNotification(Tail(queue)) \in SUBSET DOMAIN Tail(queue)
    BY DEF PendingNotification, First
  <2>3. rest \in Seq(Interactions) /\ AllFit(rest)
    BY <1>1, <2>2, WithoutType, ListsFit
  <2> HIDE DEF rest
  <2> QED BY <1>1, <1>2, <1>3, <2>1, <2>3, SendRespFits
<1> QED BY <1>4, <1>5, <1>6

LEMMA ServerFit ==
    ASSUME AnswersInv, queue # <<>>, handleServerInteraction
    PROVE  AllFit(queue')
<1>1. /\ Serving = Head(queue) /\ Serving \in Interactions /\ Fits(Serving)
      /\ Serving.role = "SERVER"
      /\ ServerFits(Serving)
  <2>1. Serving.role = "SERVER"
    BY DEF handleServerInteraction, ServeMulticastCon, ServeMulticastWait, ServeMethodNotAllowed,
           ServeNullAnswer, ServeDrop, ServePostponeAck, ServePostponeAgain, ServeAnswer,
           ServerWaitsForAck, ServerRetries, ServerDone, AnswerSent, ReadyForHandler, AwaitsHandler
  <2> QED BY <2>1, ServingFits DEF Serving, Fits
<1>2. CASE ServeMulticastCon \/ ServeDrop \/ ServerDone
  BY <1>2, HeadFits DEF ServeMulticastCon, ServeDrop, ServerDone
<1>3. CASE ServeMulticastWait
  <2> DEFINE r == [Serving EXCEPT !.state = "RESPONSE_WAITING_LEISURE"]
             s == SetSleep(r, Leisure)
  <2>1. EnqueueHead(s)
    BY <1>3 DEF ServeMulticastWait
  <2>2. /\ s.role = "SERVER" /\ s.req = Serving.req /\ s.resp = Serving.resp
        /\ s.reqConfirm = Serving.reqConfirm /\ s.state = "RESPONSE_WAITING_LEISURE"
    BY <1>1 DEF SetSleep, Interactions, Interaction
  <2> HIDE DEF s
  <2>3. Fits(s)
    BY <1>1, <2>2 DEF Fits, ServerFits
  <2> QED BY <2>1, <2>3, HeadFits
<1>4. CASE ServeMethodNotAllowed
  <2> DEFINE m == AllocRespMsg(Serving.req, "4.05", mid)
  <2>1. SendResp([Serving EXCEPT !.resp = m], Tail(queue), "RESPONSE_SENT") /\ ReadyForHandler
    BY <1>4 DEF ServeMethodNotAllowed
  <2>2. Serving.req \in Message /\ Serving.req.type \in {"CON", "NON"} /\ mid \in Mids
    BY PreparedFits, ServingFits, <1>1 DEF TypeInv, TypeOK
  <2>3. m \in Message
    BY <2>2, AllocRespType DEF Codes, Responses
  <2>4. /\ m.token = Serving.req.token
        /\ m.type = (IF Serving.req.type = "CON" THEN "ACK" ELSE "NON")
        /\ Serving.req.type = "CON" => m.mid = Serving.req.mid
    BY DEF AllocRespMsg, CreateMessage
  <2>5. Serving.multicast => Serving.req.type # "CON"
    BY <2>1 DEF ReadyForHandler
  <2> HIDE DEF m
  <2>6. /\ [Serving EXCEPT !.resp = m] \in Interactions
        /\ Fits(Answered([Serving EXCEPT !.resp = m], "RESPONSE_SENT"))
    BY <1>1, <2>2, <2>3, <2>4, <2>5, SentFits
  <2> QED BY <2>1, <2>6, ServingFits, SendRespFits
<1>a. CASE ServeNullAnswer
  <2>1. CASE Restart
    BY <2>1 DEF Restart, AllFit
  <2>2. CASE ~Restart
    <3> DEFINE r == NullAnswerOf(Serving)
    <3>1. EnqueueHead(r) \/ DeleteHead
      BY <1>a, <2>2, NullAnswerGoesOn DEF EnqueueHead, DeleteHead
    <3>2. /\ r.role = "SERVER" /\ r.req = Serving.req /\ r.resp = NoMessage
          /\ r.multicast = Serving.multicast /\ r.state = "RESPONSE_SENT"
      BY <1>1 DEF NullAnswerOf, Interactions, Interaction
    <3>3. ReadyForHandler
      BY <1>a DEF ServeNullAnswer
    <3>4. Serving.multicast => Serving.req.type # "CON"
      BY <3>3 DEF ReadyForHandler
    <3> HIDE DEF r
    <3>5. Fits(r)
      BY <1>1, <3>2, <3>4 DEF Fits, ServerFits, NoMessage
    <3> QED BY <3>1, <3>5, HeadFits
  <2> QED BY <2>1, <2>2
<1>5. CASE ServePostponeAck
  <2> DEFINE r == [Serving EXCEPT !.resp = Prepared, !.reqConfirm = "ACK_SEND",
                                  !.state = "RESOURCE_POSTPONE_EMPTY_ACK_SENT"]
             s == SetSleep(r, PostponeWait)
  <2>1. EnqueueHead(s) \/ DeleteHead
    BY <1>5 DEF ServePostponeAck
  <2>2. Serving.req.type = "CON" /\ Serving.req.code \in AllowedMethods[Serving.res]
    BY <1>5 DEF ServePostponeAck, MustAckEmpty, Allowed
  <2>3. /\ s.role = "SERVER" /\ s.req = Serving.req /\ s.resp = Prepared /\ s.res = Serving.res
        /\ s.reqConfirm = "ACK_SEND" /\ s.state = "RESOURCE_POSTPONE_EMPTY_ACK_SENT"
    BY <1>1 DEF SetSleep, Interactions, Interaction
  <2> HIDE DEF s
  <2>4. Prepared.type \in {"ACK", "CON"}
    BY <1>1, <2>2 DEF Prepared, Postponed, ServerFits, AllocRespMsg, CreateMessage
  <2>5. Fits(s)
    BY <1>1, <2>2, <2>3, <2>4, PreparedFits DEF Fits, ServerFits
  <2> QED BY <2>1, <2>5, HeadFits
<1>6. CASE ServePostponeAgain
  <2> DEFINE r == [Serving EXCEPT !.resp = Prepared]
             s == SetSleep(r, PostponeWait)
  <2>1. EnqueueHead(s) /\ Serving.state # "RESPONSE_SENT"
    BY <1>6 DEF ServePostponeAgain, ReadyForHandler, AwaitsHandler
  <2>2. /\ s.role = "SERVER" /\ s.req = Serving.req /\ s.resp = Prepared /\ s.res = Serving.res
        /\ s.reqConfirm = Serving.reqConfirm /\ s.state = Serving.state
    BY <1>1 DEF SetSleep, Interactions, Interaction
  <2> HIDE DEF s
  <2>3. Serving.req.type = "CON" => Prepared.type \in {"ACK", "CON"}
    BY <1>1 DEF Prepared, Postponed, ServerFits, AllocRespMsg, CreateMessage
  <2>4. Fits(s)
    BY <1>1, <2>1, <2>2, <2>3, PreparedFits DEF Fits, ServerFits
  <2> QED BY <2>1, <2>4, HeadFits
<1>7. CASE ServeAnswer
  BY <1>1, <1>7, AnswerFits DEF ServeAnswer
<1>8. CASE ServerWaitsForAck
  BY <1>1, <1>8, StagesFit, HeadFits DEF ServerWaitsForAck
<1>9. CASE ServerRetries
  BY <1>1, <1>9, RetransmitFits DEF ServerRetries
<1> QED BY <1>2, <1>3, <1>4, <1>a, <1>5, <1>6, <1>7, <1>8, <1>9 DEF handleServerInteraction
-----------------------------------------------------------------------------
(* Notifications and requests of ours *)

LEMMA OthersFit == ASSUME NEW r, r.role = "NOTIFICATION" PROVE Fits(r)
BY DEF Fits

LEMMA NotifyFit ==
    ASSUME AnswersInv, queue # <<>>, handleNotifyInteraction
    PROVE  AllFit(queue')
<1>1. /\ Pending = Head(queue) /\ Pending \in Interactions /\ Pending.role = "NOTIFICATION"
      /\ Tail(queue) \in Seq(Interactions) /\ AllFit(Tail(queue))
  <2>1. Pending.role = "NOTIFICATION"
    BY DEF handleNotifyInteraction, SendNotification, NotificationWaits, NotificationRetries,
           NotificationRestarts, NotificationDone, NotificationRefused, NotificationSent
  <2> QED BY <2>1, ServingFits DEF Pending
<1>2. CASE SendNotification
  <2>1. SendResp(Pending, Tail(queue), "NOTIFICATION_SENT")
    BY <1>2 DEF SendNotification
  <2>2. Answered(Pending, "NOTIFICATION_SENT").role = "NOTIFICATION"
    BY <1>1 DEF Answered, Interactions, Interaction
  <2> QED BY <1>1, <2>1, <2>2, OthersFit, SendRespFits
<1>3. CASE NotificationWaits
  <2>1. SetSleep(Pending, Pending.ackLeft).role = "NOTIFICATION"
    BY <1>1 DEF SetSleep, Interactions, Interaction
  <2> QED BY <1>1, <1>3, <2>1, OthersFit, HeadFits DEF NotificationWaits
<1>4. CASE NotificationRetries
  <2>1. PICK r, m : /\ Retransmit(r, m)
                    /\ \/ r = Pending
                       \/ \E n : r = [Pending EXCEPT !.resp = n, !.updatePending = FALSE]
    BY <1>4 DEF NotificationRetries
  <2>2. r.role = "NOTIFICATION" /\ DOMAIN r = DOMAIN Pending
    BY <1>1, <2>1 DEF Interactions, Interaction
  <2> DEFINE s == EnableAckTimeout([r EXCEPT !.retransCounter = @ + 1])
  <2>3. s.role = "NOTIFICATION"
    BY <1>1, <2>2 DEF EnableAckTimeout, Interactions, Interaction
  <2>4. UpdateHead(s) \/ DeleteHead
    BY <2>1 DEF Retransmit
  <2> HIDE DEF s
  <2> QED BY <2>3, <2>4, OthersFit, HeadFits
<1>5. CASE NotificationRestarts
  <2>1. PICK outcome \in NotifierOutcomes :
          EnqueueHead([Pending EXCEPT !.state = "READY_TO_NOTIFY", !.retransCounter = 0,
                                      !.updatePending = FALSE, !.resConfirm = "NOT_SET",
                                      !.resp = Renewed(outcome)])
    BY <1>5 DEF NotificationRestarts
  <2> DEFINE r == [Pending EXCEPT !.state = "READY_TO_NOTIFY", !.retransCounter = 0,
                                  !.updatePending = FALSE, !.resConfirm = "NOT_SET",
                                  !.resp = Renewed(outcome)]
  <2>2. r.role = "NOTIFICATION"
    BY <1>1 DEF Interactions, Interaction
  <2> HIDE DEF r
  <2> QED BY <2>1, <2>2, OthersFit, HeadFits DEF r
<1>6. CASE NotificationDone \/ NotificationRefused
  BY <1>6, HeadFits DEF NotificationDone, NotificationRefused
<1> QED BY <1>2, <1>3, <1>4, <1>5, <1>6 DEF handleNotifyInteraction

LEMMA ClientFit ==
    ASSUME AnswersInv, queue # <<>>, handleClientInteraction
    PROVE  AllFit(queue')
<1>1. /\ Asking = Head(queue) /\ Asking \in Interactions /\ Fits(Asking)
      /\ Asking.role = "CLIENT" /\ ClientFits(Asking)
  <2>1. Asking.role = "CLIENT"
    BY DEF handleClientInteraction, SendRequest, ClientWaits, ClientRetries, ClientGivesUp,
           HandleResponse, AwaitsResponse
  <2> QED BY <2>1, ServingFits DEF Asking, Fits
<1>2. CASE SendRequest
  <2> DEFINE w == IF Asking.req.type = "CON" THEN WaitTime[0] ELSE Asking.ackLeft
             r == [Asking EXCEPT !.state = "WAITING_RESPONSE", !.reqAge = 0, !.ackLeft = w]
  <2>1. EnqueueHead(r) \/ DeleteHead
    BY <1>1, <1>2 DEF SendRequest, Interactions, Interaction
  <2> HIDE DEF w
  <2>2. /\ r.role = "CLIENT" /\ r.req = Asking.req /\ r.resp = Asking.resp
        /\ r.state = "WAITING_RESPONSE" /\ Asking.state = "READY_TO_REQUEST"
    BY <1>1, <1>2 DEF SendRequest, Interactions, Interaction
  <2> HIDE DEF r
  <2>3. Fits(r)
    BY <1>1, <2>2 DEF Fits, ClientFits
  <2> QED BY <2>1, <2>3, HeadFits
<1>3. CASE ClientWaits
  BY <1>1, <1>3, HeadFits DEF ClientWaits
<1>4. CASE ClientRetries
  <2> DEFINE r == [Asking EXCEPT !.reqAge = 0]
  <2>1. r \in Interactions /\ SameMessages(Asking, r)
    BY <1>1 DEF SameMessages, Interactions, Interaction, WellFormed
  <2>2. Retransmit(r, Asking.req)
    BY <1>4 DEF ClientRetries
  <2> HIDE DEF r
  <2> QED BY <1>1, <2>1, <2>2, SameFit, RetransmitFits
<1>5. CASE ClientGivesUp \/ HandleResponse
  BY <1>5, HeadFits DEF ClientGivesUp, HandleResponse
<1> QED BY <1>2, <1>3, <1>4, <1>5 DEF handleClientInteraction

-----------------------------------------------------------------------------
(* Packets, the application and time *)

\* A step that changes interactions one by one.
LEMMA PointwiseFit ==
    ASSUME NEW q, DOMAIN q = DOMAIN queue, \A k \in DOMAIN queue : Fits(q[k])
    PROVE  AllFit(q)
BY DEF AllFit

\* A piggybacked response answers the request whose message ID it has: an
\* interaction that waits has no other message.
LEMMA AcknowledgedFits ==
    ASSUME NEW r \in Interactions, Fits(r), NEW m \in Message,
           r.resp.mid = m.mid \/ r.req.mid = m.mid
    PROVE  Fits(Acknowledged(r, m))
<1>1. CASE Piggybacked(r, m)
  <2> DEFINE a == [r EXCEPT !.resConfirm = "ACK_SEND", !.resp = m, !.state = "HANDLE_RESPONSE"]
  <2>1. /\ r.role = "CLIENT" /\ r.state = "WAITING_RESPONSE" /\ m.token = r.req.token
        /\ r.resp = NoMessage
    BY <1>1 DEF Piggybacked, Fits, ClientFits
  <2>2. m.mid = r.req.mid
    BY <2>1 DEF NoMessage, Message, Mids
  <2>3. a.role = "CLIENT" /\ a.state = "HANDLE_RESPONSE" /\ a.resp = m /\ a.req = r.req
    BY <2>1 DEF Interactions, Interaction
  <2> HIDE DEF a
  <2>4. Fits(a)
    BY <2>1, <2>2, <2>3, NoMessageIsNone DEF Fits, ClientFits
  <2> QED BY <1>1, <2>4 DEF Acknowledged, a
<1>2. CASE ~Piggybacked(r, m)
  BY <1>2, StagesFit DEF Acknowledged
<1> QED BY <1>1, <1>2

LEMMA AttachedFits ==
    ASSUME NEW r \in Interactions, Fits(r), r.role = "CLIENT", NEW m \in Message,
           m.token = r.req.token, m.type # "ACK"
    PROVE  Attached(r, m) \in Interactions /\ Fits(Attached(r, m))
<1>1. CASE r.state \in {"WAITING_RESPONSE", "HANDLE_RESPONSE"}
  <2> DEFINE a == [r EXCEPT !.resp = m, !.state = "HANDLE_RESPONSE"]
  <2>1. a.role = "CLIENT" /\ a.state = "HANDLE_RESPONSE" /\ a.resp = m /\ a.req = r.req
    BY DEF Interactions, Interaction
  <2> HIDE DEF a
  <2>2. Fits(a)
    BY <2>1, NoMessageIsNone DEF Fits, ClientFits
  <2> QED BY <1>1, <2>2, AttachedType DEF Attached, a
<1> QED BY <1>1, AttachedType DEF Attached

LEMMA WokenFits ==
    ASSUME AnswersInv, NEW d
    PROVE  /\ queue \in Seq(Interactions) /\ Woken(d) \in Seq(Interactions)
           /\ DOMAIN Woken(d) = DOMAIN queue /\ AllFit(queue) /\ AllFit(Woken(d))
           /\ \A k \in DOMAIN queue :
                /\ queue[k] \in Interactions /\ Fits(queue[k])
                /\ Woken(d)[k] \in Interactions /\ Fits(Woken(d)[k])
                /\ Woken(d)[k].role = queue[k].role
                /\ Woken(d)[k].req = queue[k].req /\ Woken(d)[k].resp = queue[k].resp
<1>1. /\ queue \in Seq(Interactions) /\ Woken(d) \in Seq(Interactions)
      /\ DOMAIN Woken(d) = DOMAIN queue /\ AllFit(queue)
  BY WokenType DEF AnswersInv
<1>2. \A k \in DOMAIN queue : queue[k] \in Interactions /\ Fits(queue[k]) /\ Fits(Wakeup(queue[k]))
  <2>1. \A k \in DOMAIN queue : queue[k] \in Interactions /\ Fits(queue[k])
    BY <1>1 DEF AllFit
  <2> QED BY <2>1, StagesFit
<1>3. \A k \in DOMAIN queue :
        /\ Wakeup(queue[k]).role = queue[k].role
        /\ Wakeup(queue[k]).req = queue[k].req /\ Wakeup(queue[k]).resp = queue[k].resp
  BY <1>2 DEF Wakeup, Interactions, Interaction
<1>4. \A k \in DOMAIN queue : Woken(d)[k] = Wakeup(queue[k]) \/ Woken(d)[k] = queue[k]
  BY DEF Woken
<1>5. \A k \in DOMAIN queue : Wakeup(queue[k]) \in Interactions
  BY <1>2, TimerType
<1>6. \A k \in DOMAIN queue : Fits(Woken(d)[k])
  BY <1>2, <1>4
<1>7. AllFit(Woken(d))
  BY <1>1, <1>6, PointwiseFit
<1> QED BY <1>1, <1>2, <1>3, <1>4, <1>5, <1>7

LEMMA PacketFits ==
    ASSUME AnswersInv, NEW d \in Datagrams, HandleIncomingPacket(d)
    PROVE  AllFit(queue')
<1> DEFINE w == Woken(d)
<1>1. /\ w \in Seq(Interactions) /\ DOMAIN w = DOMAIN queue /\ AllFit(queue) /\ AllFit(w)
      /\ \A k \in DOMAIN queue :
                /\ queue[k] \in Interactions /\ Fits(queue[k])
                /\ w[k] \in Interactions /\ Fits(w[k])
                /\ w[k].role = queue[k].role
                /\ w[k].req = queue[k].req /\ w[k].resp = queue[k].resp
  BY WokenFits
<1>2. d.msg \in Message
  BY DatagramType
<1> HIDE DEF w
<1>3. CASE queue' = queue \/ queue' = w
  BY <1>1, <1>3
<1>4. CASE RxReset(d)
  <2>1. queue' = [k \in DOMAIN queue |->
                    IF k \in Found(d) THEN [w[k] EXCEPT !.resConfirm = "RST_SEND"] ELSE queue[k]]
    BY <1>4 DEF RxReset, w
  <2>2. \A k \in DOMAIN queue : Fits([w[k] EXCEPT !.resConfirm = "RST_SEND"])
    BY <1>1, StagesFit
  <2> QED BY <1>1, <2>1, <2>2, PointwiseFit
<1>5. CASE RxAck(d)
  <2>1. queue' = [k \in DOMAIN queue |->
                    IF k \in Found(d) THEN Acknowledged(w[k], d.msg) ELSE queue[k]]
    BY <1>5 DEF RxAck, w
  <2>2. \A k \in Found(d) : /\ k \in DOMAIN queue
                            /\ queue[k].resp.mid = d.msg.mid \/ queue[k].req.mid = d.msg.mid
    BY DEF Found, FindByMessageIdAndEp, First
  <2>3. \A k \in Found(d) : Fits(Acknowledged(w[k], d.msg))
    BY <1>1, <1>2, <2>2, AcknowledgedFits
  <2> QED BY <1>1, <2>1, <2>3, PointwiseFit
<1>6. CASE RxRequest(d)
  <2>1. StartNewServerInteraction(d, w) /\ PrechecksDone(d) /\ MsgIsRequest(d.msg)
    BY <1>6 DEF RxRequest, w
  <2> DEFINE r == [NewInteraction("SERVER", "HANDLE_REQUEST", d.ep) EXCEPT
                    !.res = d.uri, !.multicast = d.multicast, !.req = d.msg]
  <2>2. queue' = w \/ queue' = Append(w, r)
    BY <2>1 DEF StartNewServerInteraction
  <2>3. /\ r.role = "SERVER" /\ r.state = "HANDLE_REQUEST" /\ r.req = d.msg
        /\ r.resp = NoMessage
    BY DEF NewInteraction
  <2>4. d.msg.type \in {"CON", "NON"}
    BY <1>2, <2>1 DEF PrechecksDone, BadCombination, MsgIsRequest, Requests, Message, Types
  <2> HIDE DEF r
  <2>5. Fits(r)
    BY <2>3, <2>4 DEF Fits, ServerFits, NoMessage
  <2> QED BY <1>1, <2>2, <2>5, ListsFit
<1>7. CASE RxSeparateResponse(d)
  <2>1. PICK k \in Requested(d) :
          queue' = [w EXCEPT ![k] =
                      IF Sent THEN [Attached(w[k], d.msg) EXCEPT !.resConfirm = "ACK_SEND"]
                      ELSE Attached(w[k], d.msg)]
    BY <1>7 DEF RxSeparateResponse, w
  <2>2. k \in DOMAIN queue /\ queue[k].role = "CLIENT" /\ queue[k].req.token = d.msg.token
    BY DEF Requested, First
  <2>3. d.msg.type # "ACK"
    BY <1>7 DEF RxSeparateResponse, SeparateResponse
  <2>4. Attached(w[k], d.msg) \in Interactions /\ Fits(Attached(w[k], d.msg))
    BY <1>1, <1>2, <2>2, <2>3, AttachedFits
  <2>5. Fits([Attached(w[k], d.msg) EXCEPT !.resConfirm = "ACK_SEND"])
    BY <2>4, StagesFit
  <2> QED BY <1>1, <2>1, <2>2, <2>4, <2>5, PointwiseFit
<1> QED
  BY <1>3, <1>4, <1>5, <1>6, <1>7
     DEF HandleIncomingPacket, RxPing, RxIgnored, RxUnknownUri, RxCritical, RxUnexpectedResponse, w

LEMMA DoWorkFits ==
    ASSUME AnswersInv, doWork
    PROVE  AllFit(queue')
<1>1. queue # <<>> /\ Fits(Head(queue))
  BY ServingFits DEF doWork
<1>2. CASE Rotate
  BY <1>1, <1>2, HeadFits DEF Rotate
<1> QED BY <1>1, <1>2, ServerFit, NotifyFit, ClientFit DEF doWork

LEMMA StartNotifyFits ==
    ASSUME AnswersInv, StartNotifyInteractions
    PROVE  AllFit(queue')
<1>1. queue \in Seq(Interactions) /\ AllFit(queue)
  BY QueueType DEF AnswersInv, TypeInv
<1>2. CASE MarkOngoing
  <2>1. PICK k \in Ongoing : queue' = [queue EXCEPT ![k] = Wakeup([@ EXCEPT !.updatePending = TRUE])]
    BY <1>2 DEF MarkOngoing
  <2>2. k \in DOMAIN queue /\ queue[k] \in Interactions /\ queue[k].role = "NOTIFICATION"
    BY <1>1 DEF Ongoing, First
  <2>3. Wakeup([queue[k] EXCEPT !.updatePending = TRUE]).role = "NOTIFICATION"
    BY <2>2 DEF Wakeup, Interactions, Interaction
  <2> QED BY <1>1, <2>1, <2>3, OthersFit DEF AllFit
<1>3. CASE StartNotification
  <2>1. PICK outcome \in NotifierOutcomes \cap {"ok", "non"} :
          queue' = Append(queue,
            [NewInteraction("NOTIFICATION", "READY_TO_NOTIFY", ThisObserver.ep) EXCEPT
                !.res = loop.res, !.pObserver = ThisObserver.oid,
                !.resp = [CreateMessage(NotificationType(outcome), "2.05", NextMid(mid), ThisObserver.token)
                            EXCEPT !.observe = updateCnt[loop.res],
                                   !.version = updateCnt[loop.res]]])
    BY <1>3 DEF StartNotification
  <2> DEFINE m == [CreateMessage(NotificationType(outcome), "2.05", NextMid(mid), ThisObserver.token)
                            EXCEPT !.observe = updateCnt[loop.res],
                                   !.version = updateCnt[loop.res]]
             n == [NewInteraction("NOTIFICATION", "READY_TO_NOTIFY", ThisObserver.ep) EXCEPT
                      !.res = loop.res, !.pObserver = ThisObserver.oid, !.resp = m]
  <2>2. queue' = Append(queue, n)
    BY <2>1
  <2> HIDE DEF m
  <2>3. n.role = "NOTIFICATION"
    BY DEF NewInteraction
  <2> HIDE DEF n
  <2> QED BY <1>1, <2>2, <2>3, OthersFit, ListsFit
<1>4. CASE queue' = queue \/ queue' = <<>>
  BY <1>1, <1>4 DEF AllFit
<1> QED
  BY <1>2, <1>3, <1>4
     DEF StartNotifyInteractions, NotifyOutOfMemory, NotifierFails, NotifierReturnsErrorCode, Restart

LEMMA StartRequestFits ==
    ASSUME AnswersInv, NEW ep, NEW type, StartNewRequest(ep, type)
    PROVE  AllFit(queue')
<1>1. queue \in Seq(Interactions) /\ AllFit(queue)
  BY QueueType DEF AnswersInv, TypeInv
<1>2. PICK n \in First(FreshCalls) :
        \/ queue' = queue
        \/ queue' = Append(queue,
                [NewInteraction("CLIENT", "READY_TO_REQUEST", ep) EXCEPT
                    !.req = CreateMessage(type, "GET", NextMid(mid), NextToken(tok)),
                    !.call = n])
  BY DEF StartNewRequest
<1> DEFINE r == [NewInteraction("CLIENT", "READY_TO_REQUEST", ep) EXCEPT
                    !.req = CreateMessage(type, "GET", NextMid(mid), NextToken(tok)),
                    !.call = n]
<1>3. r.role = "CLIENT" /\ r.state = "READY_TO_REQUEST" /\ r.resp = NoMessage
  BY DEF NewInteraction
<1>4. queue' = queue \/ queue' = Append(queue, r)
  BY <1>2
<1> HIDE DEF r
<1>5. Fits(r)
  BY <1>3 DEF Fits, ClientFits, NoMessage
<1> QED BY <1>1, <1>4, <1>5, ListsFit

LEMMA TickFits ==
    ASSUME AnswersInv, Tick
    PROVE  AllFit(queue')
<1>1. queue \in Seq(Interactions) /\ AllFit(queue)
  BY QueueType DEF AnswersInv, TypeInv
<1>2. \A k \in DOMAIN queue : queue[k] \in Interactions /\ Fits(queue[k])
  BY <1>1 DEF AllFit
<1>3. \A k \in DOMAIN queue : Fits(OneSecondOlder(queue[k]))
  BY <1>2, StagesFit
<1> QED BY <1>3, PointwiseFit DEF Tick

-----------------------------------------------------------------------------

LEMMA InitAnswers == Init => AnswersInv
BY InitType DEF AnswersInv, Init, AllFit

LEMMA NextAnswers == AnswersInv /\ [Next]_vars => AnswersInv'
<1> SUFFICES ASSUME AnswersInv, [Next]_vars PROVE AllFit(queue')
  BY NextType DEF AnswersInv
<1>1. CASE \E d \in Datagrams : HandleIncomingPacket(d)
  BY <1>1, PacketFits
<1>2. CASE doWork
  BY <1>2, DoWorkFits
<1>3. CASE (\E r \in Res : NotifyResourceObservers(r)) \/ UNCHANGED vars
  BY <1>3 DEF AnswersInv, NotifyResourceObservers, vars
<1>4. CASE StartNotifyInteractions
  BY <1>4, StartNotifyFits
<1>5. CASE \E ep \in Eps, type \in RequestTypes : StartNewRequest(ep, type)
  BY <1>5, StartRequestFits
<1>6. CASE ClearPendingInteractions
  BY <1>6 DEF ClearPendingInteractions, AllFit
<1>7. CASE Tick
  BY <1>7, TickFits
<1> QED BY <1>1, <1>2, <1>3, <1>4, <1>5, <1>6, <1>7 DEF Next

LEMMA AnswersInvariant == Spec => []AnswersInv
BY InitAnswers, NextAnswers, PTL DEF Spec

\* Whatever a handler does and however often it postpones, an answer under way
\* belongs to the request it is the answer to.
THEOREM AnswersFitRequests == Spec => []AnswerFitsRequest
<1>1. AnswersInv => AnswerFitsRequest
  BY DEF AnswersInv, AllFit, Fits, ServerFits, AnswerFitsRequest, NoMessage, TypeInv,
         NoNullMessage, WellFormed, Message, Types
<1> QED BY <1>1, AnswersInvariant, PTL

\* The application is handed the response to the request it is told about,
\* whatever duplicated, late or foreign responses arrive.
THEOREM ResponsesFitRequests == Spec => []ResponseFitsRequest
<1>1. AnswersInv => ResponseFitsRequest
  BY DEF AnswersInv, AllFit, Fits, ClientFits, ResponseFitsRequest
<1> QED BY <1>1, AnswersInvariant, PTL

\* A step of doWork on a request whose empty ACK was sent sends no other ACK.
LEMMA NoSecondAck ==
    ASSUME AnswersInv, doWork, Serving.role = "SERVER",
           Serving.state = "RESOURCE_POSTPONE_EMPTY_ACK_SENT"
    PROVE  \A d \in tx' : d.msg.type # "ACK"
<1>1. /\ Serving = Head(queue) /\ queue # <<>> /\ Serving \in Interactions /\ ServerFits(Serving)
      /\ Serving.req.type = "CON" /\ Serving.reqConfirm = "ACK_SEND" /\ Allowed
      /\ ~MustAckEmpty /\ Separate /\ ~AnswerSent
  BY ServingFits DEF doWork, Serving, Fits, ServerFits, Allowed, MustAckEmpty, Separate, AnswerSent
<1>2. CASE Silent
  BY <1>2 DEF Silent
<1>3. CASE ServeAnswer
  <2>1. PICK m \in Answers : Answer(m)
    BY <1>3 DEF ServeAnswer
  <2>2. m \in Message /\ m.type = "CON"
    BY <1>1, <1>3, <2>1, AnswersFit DEF ServeAnswer
  <2>3. PICK n \in {m, [m EXCEPT !.observe = 0]} :
          \E others : SendResp([Serving EXCEPT !.resp = n], others, "RESPONSE_SENT")
    BY <2>1 DEF Answer
  <2>4. n.type = "CON"
    BY <2>2, <2>3 DEF Message
  <2>5. [Serving EXCEPT !.resp = n].resp = n
    BY <1>1 DEF Interactions, Interaction
  <2>6. \A d \in tx' : d.msg = n
    BY <2>3, <2>5 DEF SendResp, SendMsg
  <2> QED BY <2>4, <2>6
<1>4. ~handleNotifyInteraction /\ ~handleClientInteraction
  BY <1>1 DEF Serving, Pending, Asking, handleNotifyInteraction, SendNotification,
         NotificationWaits, NotificationRetries, NotificationRestarts, NotificationDone,
         NotificationRefused, NotificationSent, handleClientInteraction, SendRequest, ClientWaits,
         ClientRetries, ClientGivesUp, HandleResponse, AwaitsResponse
<1>5. \/ Silent \/ ServeAnswer
  BY <1>1, <1>4 DEF doWork, Rotate, handleServerInteraction, ServeMulticastCon, ServeMulticastWait,
         ServeMethodNotAllowed, ServeNullAnswer, ServeDrop, ServePostponeAck, ServePostponeAgain,
         ServerWaitsForAck, ServerRetries, ServerDone
<1> QED BY <1>2, <1>3, <1>5

\* Once a request was acknowledged by an empty ACK, doWork answers it by a
\* separate response or not at all.
THEOREM SeparateAfterEmptyAck == Spec => NoPiggybackAfterEmptyAck
<1> DEFINE Step == \A k \in DOMAIN queue :
                    queue[k].role = "SERVER" /\ queue[k].state = "RESOURCE_POSTPONE_EMPTY_ACK_SENT"
                        /\ doWork /\ k = 1
                    => AcksSent(queue[k].req.mid) = {}
<1>1. AnswersInv /\ [Next]_vars => [Step]_vars
  <2> SUFFICES ASSUME AnswersInv, NEW k \in DOMAIN queue, queue[k].role = "SERVER",
                      queue[k].state = "RESOURCE_POSTPONE_EMPTY_ACK_SENT", doWork, k = 1
               PROVE  AcksSent(queue[k].req.mid) = {}
    OBVIOUS
  <2>1. Serving = queue[k]
    BY ServingFits DEF Serving, doWork
  <2> QED BY <2>1, NoSecondAck DEF AcksSent
<1>2. NoPiggybackAfterEmptyAck <=> [][Step]_vars
  BY DEF NoPiggybackAfterEmptyAck
<1> QED BY <1>1, <1>2, AnswersInvariant, PTL DEF Spec

-----------------------------------------------------------------------------
(***************************************************************************)
(* What one step of an endpoint looks like from the other side of the      *)
(* network: which datagrams it may send, which message IDs and tokens they *)
(* have, and what it does to the interactions they come from.  The         *)
(* endpoint is in one role only: it asks, or it serves.                    *)
(***************************************************************************)

EndpointInv == JobsInv /\ AnswersInv

OnlyClients(q) == \A k \in DOMAIN q : q[k].role = "CLIENT"

OnlyServers(q) == \A k \in DOMAIN q : q[k].role = "SERVER" /\ q[k].resp.code \notin Requests

LEMMA EndpointNext == EndpointInv /\ [Next]_vars => EndpointInv'
BY NextJobs, NextAnswers DEF EndpointInv

LEMMA EndpointInit == Init => EndpointInv
BY InitJobs, InitAnswers DEF EndpointInv

\* While the other side acts, an endpoint only forgets what it sent.
LEMMA EndpointRests ==
    ASSUME EndpointInv, UNCHANGED <<queue, leaked, mid, tok, updateCnt, observers, loop, calls, told>>,
           tx' = {}
    PROVE  EndpointInv'
BY DEF EndpointInv, JobsInv, AnswersInv, TypeInv, TypeOK, NoNullMessage, LoopOK, Idle, Distinct,
       CallsOK, Open, AllFit

LEMMA EndpointQueue ==
    ASSUME EndpointInv
    PROVE  queue \in Seq(Interactions)
BY QueueType DEF EndpointInv, JobsInv, TypeInv

\* q holds r and, besides, elements of the list.
Gets(q, r) ==
    /\ \A j \in DOMAIN q : q[j] = r \/ \E k \in DOMAIN queue : q[j] = queue[k]
    /\ \E j \in DOMAIN q : q[j] = r

\* The elements of the list after a step that changed the head to r, or
\* deleted it, and deleted ks of the others.
LEMMA ElementsAfter ==
    ASSUME TypeInv, queue # <<>>, NEW ks \in SUBSET DOMAIN Tail(queue), NEW r
    PROVE  /\ Gets(Append(Others(ks), r), r)
           /\ Gets([queue EXCEPT ![1] = r], r)
           /\ \A j \in DOMAIN Others(ks) : \E k \in DOMAIN queue : Others(ks)[j] = queue[k]
<1>1. /\ queue \in Seq(Interactions) /\ Tail(queue) \in Seq(Interactions)
      /\ \A k \in DOMAIN Tail(queue) : k + 1 \in DOMAIN queue /\ Tail(queue)[k] = queue[k + 1]
  BY ServingType
<1>2. \A j \in DOMAIN Others(ks) : \E k \in DOMAIN queue : Others(ks)[j] = queue[k]
  <2>1. \A j \in DOMAIN Others(ks) : \E k \in DOMAIN Tail(queue) : Others(ks)[j] = Tail(queue)[k]
    BY <1>1, WithoutElements DEF Others
  <2> QED BY <1>1, <2>1
<1>3. Others(ks) \in Seq(Interactions)
  BY <1>1, WithoutType DEF Others
<1> DEFINE o == Others(ks)
<1> HIDE DEF o
<1>4. o \in Seq(Interactions \cup {r}) /\ r \in Interactions \cup {r}
  BY <1>3, SeqGrows DEF o
<1>5. /\ \A j \in DOMAIN Append(o, r) : Append(o, r)[j] = r \/ (j \in DOMAIN o /\ Append(o, r)[j] = o[j])
      /\ \E j \in DOMAIN Append(o, r) : Append(o, r)[j] = r
  <2>1. /\ DOMAIN o = 1 .. Len(o) /\ Len(o) \in Nat /\ DOMAIN Append(o, r) = 1 .. Len(o) + 1
        /\ \A j \in 1 .. Len(o) : Append(o, r)[j] = o[j]
        /\ Append(o, r)[Len(o) + 1] = r
    BY <1>4
  <2> QED BY <2>1
<1>6. /\ \A j \in DOMAIN [queue EXCEPT ![1] = r] :
            [queue EXCEPT ![1] = r][j] = r \/ [queue EXCEPT ![1] = r][j] = queue[j]
      /\ \E j \in DOMAIN [queue EXCEPT ![1] = r] : [queue EXCEPT ![1] = r][j] = r
      /\ DOMAIN [queue EXCEPT ![1] = r] = DOMAIN queue
  BY <1>1
<1>7. Gets(Append(Others(ks), r), r)
  BY <1>2, <1>5 DEF o, Gets
<1>8. Gets([queue EXCEPT ![1] = r], r)
  BY <1>6 DEF Gets
<1> QED BY <1>2, <1>7, <1>8

-----------------------------------------------------------------------------
(* The asking side *)

\* What doWork makes of a client at the head.
ClientMoves ==
    LET h == Head(queue) IN
    \/ \E r : /\ queue' = Append(Tail(queue), r) \/ queue' = [queue EXCEPT ![1] = r]
              /\ Keeps(h, r) /\ UNCHANGED calls
              /\ \/ r.state = h.state /\ tx' = {}
                 \/ /\ h.state # "HANDLE_RESPONSE" /\ r.state = "WAITING_RESPONSE"
                    /\ tx' = {[ep |-> h.ep, msg |-> h.req]}
    \/ /\ queue' = Tail(queue) /\ tx' = {}
       /\ \/ h.state = "HANDLE_RESPONSE" /\ calls' = [calls EXCEPT ![h.call] = "response"]
          \/ h.state # "HANDLE_RESPONSE" /\ calls' = [calls EXCEPT ![h.call] = "failed"]

LEMMA ClientMovesOn ==
    ASSUME EndpointInv, doWork, Head(queue).role = "CLIENT", SendResults = {TRUE}
    PROVE  ClientMoves /\ UNCHANGED <<mid, tok>>
<1>1. /\ queue # <<>> /\ TypeInv /\ Asking = Head(queue) /\ Asking \in Interactions
      /\ Keeps(Asking, Asking)
  BY ServingType DEF doWork, EndpointInv, JobsInv, Asking, Keeps
<1>2. calls[Asking.call] = "open"
  <2>1. Open(queue, Asking.call) /\ Asking.call \in 1 .. MaxRequests
    <3>1. queue[1] = Asking /\ 1 \in DOMAIN queue
      BY <1>1 DEF TypeInv, TypeOK
    <3> QED BY <1>1, <3>1 DEF Open, Interactions, WellFormed
  <2> QED BY <2>1 DEF EndpointInv, JobsInv, CallsOK
<1>3. \A r, m : SendMsg(NoRes, r, m) => tx' = {[ep |-> r, msg |-> m]} /\ Sent
  BY DEF SendMsg, Sent
<1>4. CASE Rotate
  BY <1>1, <1>4 DEF Rotate, EnqueueHead, Silent, ClientMoves
<1>5. CASE SendRequest
  <2> DEFINE w == IF Asking.req.type = "CON" THEN WaitTime[0] ELSE Asking.ackLeft
             r == [Asking EXCEPT !.state = "WAITING_RESPONSE", !.reqAge = 0, !.ackLeft = w]
  <2>1. queue' = Append(Tail(queue), r) /\ UNCHANGED <<calls, mid, tok>>
        /\ tx' = {[ep |-> Asking.ep, msg |-> Asking.req]}
        /\ Asking.state = "READY_TO_REQUEST"
    BY <1>3, <1>5 DEF SendRequest, EnqueueHead
  <2>2. Keeps(Asking, r) /\ r.state = "WAITING_RESPONSE"
    BY <1>1 DEF Keeps, Interactions, Interaction
  <2> HIDE DEF r
  <2> QED BY <1>1, <2>1, <2>2 DEF ClientMoves
<1>6. CASE ClientWaits
  BY <1>1, <1>6 DEF ClientWaits, EnqueueHead, Silent, ClientMoves
<1>7. CASE ClientRetries
  <2> DEFINE a == [Asking EXCEPT !.reqAge = 0]
             r == EnableAckTimeout([a EXCEPT !.retransCounter = @ + 1])
  <2>1. a \in Interactions /\ a.ep = Asking.ep /\ a.state = Asking.state /\ Keeps(Asking, a)
        /\ a.res = Asking.res
    BY <1>1 DEF Interactions, Interaction, WellFormed, Keeps
  <2>2. Asking.state = "WAITING_RESPONSE" /\ UNCHANGED <<mid, tok>> /\ Retransmit(a, Asking.req)
        /\ (Sent => UNCHANGED calls)
    BY <1>7 DEF ClientRetries, AwaitsResponse
  <2> HIDE DEF a
  <2>3. Keeps(Asking, r)
    BY <2>1, StagesKeep
  <2>4. r.state = a.state
    BY <2>1 DEF EnableAckTimeout, Interactions, Interaction
  <2> HIDE DEF r
  <2>5. tx' = {[ep |-> Asking.ep, msg |-> Asking.req]} /\ Sent
    BY <2>1, <2>2 DEF Retransmit, SendMsg, Sent
  <2>6. queue' = [queue EXCEPT ![1] = r]
    BY <2>2, <2>5 DEF Retransmit, UpdateHead, r
  <2> QED BY <1>1, <2>1, <2>2, <2>3, <2>4, <2>5, <2>6 DEF ClientMoves
<1>8. CASE ClientGivesUp
  BY <1>1, <1>2, <1>8 DEF ClientGivesUp, AwaitsResponse, DeleteHead, Silent, Callback, ClientMoves
<1>9. CASE HandleResponse
  BY <1>1, <1>2, <1>9 DEF HandleResponse, DeleteHead, Silent, Callback, ClientMoves
<1>10. handleClientInteraction \/ Rotate
  BY DEF doWork, handleServerInteraction, ServeMulticastCon, ServeMulticastWait,
         ServeMethodNotAllowed, ServeNullAnswer, ServeDrop, ServePostponeAck, ServePostponeAgain,
         ServeAnswer, ServerWaitsForAck, ServerRetries, ServerDone, AnswerSent, ReadyForHandler,
         AwaitsHandler, Serving, handleNotifyInteraction, SendNotification, NotificationWaits,
         NotificationRetries, NotificationRestarts, NotificationDone, NotificationRefused,
         NotificationSent, Pending
<1>11. (ClientWaits \/ ClientGivesUp \/ HandleResponse \/ Rotate) => UNCHANGED <<mid, tok>>
  BY DEF ClientWaits, ClientGivesUp, HandleResponse, Rotate
<1> QED
  BY <1>4, <1>5, <1>6, <1>7, <1>8, <1>9, <1>10, <1>11
     DEF handleClientInteraction, SendRequest, ClientRetries

\* doWork sends a request or reports on one; nothing else becomes of any.
LEMMA ClientWork ==
    ASSUME EndpointInv, doWork, OnlyClients(queue), SendResults = {TRUE}
    PROVE  /\ UNCHANGED <<mid, tok>> /\ Len(queue') <= Len(queue)
           /\ \A j \in DOMAIN queue' : \E k \in DOMAIN queue :
                /\ Keeps(queue[k], queue'[j])
                /\ queue'[j].state \in {queue[k].state, "WAITING_RESPONSE"}
           /\ \/ tx' = {}
              \/ \E j \in DOMAIN queue' :
                    /\ queue'[j].state = "WAITING_RESPONSE"
                    /\ tx' = {[ep |-> queue'[j].ep, msg |-> queue'[j].req]}
           /\ \/ UNCHANGED calls
              \/ \E k \in DOMAIN queue :
                    /\ calls[queue[k].call] = "open"
                    /\ \/ calls' = [calls EXCEPT ![queue[k].call] = "failed"]
                       \/ /\ queue[k].state = "HANDLE_RESPONSE"
                          /\ calls' = [calls EXCEPT ![queue[k].call] = "response"]
           /\ \A k \in DOMAIN queue : queue[k].state = "HANDLE_RESPONSE" =>
                \/ calls'[queue[k].call] = "response"
                \/ \E j \in DOMAIN queue' : /\ queue'[j].call = queue[k].call
                                            /\ queue'[j].state = "HANDLE_RESPONSE"
<1> DEFINE h == Head(queue)
<1>1. /\ queue # <<>> /\ TypeInv /\ queue \in Seq(Interactions) /\ h = queue[1] /\ 1 \in DOMAIN queue
      /\ h.role = "CLIENT" /\ h.call \in 1 .. MaxRequests
      /\ Tail(queue) \in Seq(Interactions) /\ Len(Tail(queue)) = Len(queue) - 1
      /\ Len(queue) \in Nat
      /\ \A k \in DOMAIN Tail(queue) : k + 1 \in DOMAIN queue /\ Tail(queue)[k] = queue[k + 1]
      /\ \A k \in DOMAIN queue : k = 1 \/ (k - 1 \in DOMAIN Tail(queue) /\ queue[k] = Tail(queue)[k - 1])
  BY ServingType DEF doWork, EndpointInv, JobsInv, OnlyClients, Interactions, WellFormed
<1> DEFINE t == Tail(queue)
<1> HIDE DEF h, t
<1>2. /\ h.call \in DOMAIN calls /\ calls[h.call] = "open"
  <2>1. Open(queue, h.call)
    BY <1>1 DEF Open
  <2> QED BY <1>1, <2>1 DEF EndpointInv, JobsInv, CallsOK, TypeInv, TypeOK
<1>3. ClientMoves /\ UNCHANGED <<mid, tok>>
  BY <1>1, ClientMovesOn DEF h
<1>4. \A k \in DOMAIN queue : Keeps(queue[k], queue[k])
  BY DEF Keeps
<1>5. ASSUME NEW r, queue' = Append(t, r) \/ queue' = [queue EXCEPT ![1] = r]
      PROVE  /\ Len(queue') <= Len(queue)
             /\ \A j \in DOMAIN queue' : queue'[j] = r \/ \E k \in DOMAIN queue : queue'[j] = queue[k]
             /\ \E j \in DOMAIN queue' : queue'[j] = r
             /\ \A k \in DOMAIN queue : k = 1 \/ \E j \in DOMAIN queue' : queue'[j] = queue[k]
  <2>1. CASE queue' = Append(t, r)
    <3>1. t \in Seq(Interactions \cup {r}) /\ r \in Interactions \cup {r}
      BY <1>1, SeqGrows DEF t
    <3>2. /\ Len(queue') = Len(t) + 1 /\ DOMAIN queue' = 1 .. Len(t) + 1 /\ Len(t) \in Nat
          /\ DOMAIN t = 1 .. Len(t)
          /\ queue'[Len(t) + 1] = r /\ \A j \in 1 .. Len(t) : queue'[j] = t[j]
      BY <2>1, <3>1
    <3>3. \A k \in DOMAIN queue : k # 1 => k - 1 \in DOMAIN queue' /\ queue'[k - 1] = queue[k]
      BY <1>1, <3>2 DEF t
    <3>4. \A j \in DOMAIN queue' :
              queue'[j] = r \/ (j \in DOMAIN t /\ queue'[j] = t[j])
      BY <3>2
    <3>5. \A j \in DOMAIN queue' : queue'[j] = r \/ \E k \in DOMAIN queue : queue'[j] = queue[k]
      BY <1>1, <3>4 DEF t
    <3>6. Len(queue') <= Len(queue) /\ Len(t) + 1 \in DOMAIN queue'
      BY <1>1, <3>2 DEF t
    <3> QED BY <3>2, <3>3, <3>5, <3>6
  <2>2. CASE queue' = [queue EXCEPT ![1] = r]
    <3>1. /\ DOMAIN queue' = DOMAIN queue /\ Len(queue') = Len(queue) /\ queue'[1] = r
          /\ \A j \in DOMAIN queue : j # 1 => queue'[j] = queue[j]
      BY <1>1, <2>2
    <3> QED BY <1>1, <3>1
  <2> QED BY <1>5, <2>1, <2>2
<1>6. CASE \E r : /\ queue' = Append(t, r) \/ queue' = [queue EXCEPT ![1] = r]
                  /\ Keeps(h, r) /\ UNCHANGED calls
                  /\ \/ r.state = h.state /\ tx' = {}
                     \/ /\ h.state # "HANDLE_RESPONSE" /\ r.state = "WAITING_RESPONSE"
                        /\ tx' = {[ep |-> h.ep, msg |-> h.req]}
  <2>1. PICK r : /\ queue' = Append(t, r) \/ queue' = [queue EXCEPT ![1] = r]
                 /\ Keeps(h, r) /\ UNCHANGED calls
                 /\ \/ r.state = h.state /\ tx' = {}
                    \/ /\ h.state # "HANDLE_RESPONSE" /\ r.state = "WAITING_RESPONSE"
                       /\ tx' = {[ep |-> h.ep, msg |-> h.req]}
    BY <1>6
  <2>2. /\ Len(queue') <= Len(queue)
        /\ \A j \in DOMAIN queue' : queue'[j] = r \/ \E k \in DOMAIN queue : queue'[j] = queue[k]
        /\ \E j \in DOMAIN queue' : queue'[j] = r
        /\ \A k \in DOMAIN queue : k = 1 \/ \E j \in DOMAIN queue' : queue'[j] = queue[k]
    BY <1>5, <2>1
  <2>3. r.call = h.call /\ r.ep = h.ep /\ r.req = h.req
    BY <2>1 DEF Keeps
  <2>4. \A j \in DOMAIN queue' : \E k \in DOMAIN queue :
                /\ Keeps(queue[k], queue'[j])
                /\ queue'[j].state \in {queue[k].state, "WAITING_RESPONSE"}
    BY <1>1, <1>4, <2>1, <2>2
  <2>5. \A k \in DOMAIN queue : queue[k].state = "HANDLE_RESPONSE" =>
            \E j \in DOMAIN queue' : /\ queue'[j].call = queue[k].call
                                     /\ queue'[j].state = "HANDLE_RESPONSE"
    BY <1>1, <2>1, <2>2, <2>3
  <2>6. \/ tx' = {}
        \/ \E j \in DOMAIN queue' :
              /\ queue'[j].state = "WAITING_RESPONSE"
              /\ tx' = {[ep |-> queue'[j].ep, msg |-> queue'[j].req]}
    BY <2>1, <2>2, <2>3
  <2> QED BY <1>3, <2>1, <2>2, <2>4, <2>5, <2>6
<1>7. CASE /\ queue' = t /\ tx' = {}
           /\ \/ h.state = "HANDLE_RESPONSE" /\ calls' = [calls EXCEPT ![h.call] = "response"]
              \/ h.state # "HANDLE_RESPONSE" /\ calls' = [calls EXCEPT ![h.call] = "failed"]
  <2>1. \A k \in DOMAIN queue : k = 1 \/ \E j \in DOMAIN queue' : queue'[j] = queue[k]
    BY <1>1, <1>7 DEF t
  <2>2. h.state = "HANDLE_RESPONSE" => calls'[h.call] = "response"
    BY <1>2, <1>7
  <2>3. \A k \in DOMAIN queue : queue[k].state = "HANDLE_RESPONSE" =>
                \/ calls'[queue[k].call] = "response"
                \/ \E j \in DOMAIN queue' : /\ queue'[j].call = queue[k].call
                                            /\ queue'[j].state = "HANDLE_RESPONSE"
    BY <1>1, <2>1, <2>2
  <2>4. \A j \in DOMAIN queue' : \E k \in DOMAIN queue :
                /\ Keeps(queue[k], queue'[j])
                /\ queue'[j].state \in {queue[k].state, "WAITING_RESPONSE"}
    BY <1>1, <1>4, <1>7 DEF t
  <2>5. Len(queue') <= Len(queue)
    BY <1>1, <1>7 DEF t
  <2>6. \E k \in DOMAIN queue :
                    /\ calls[queue[k].call] = "open"
                    /\ \/ calls' = [calls EXCEPT ![queue[k].call] = "failed"]
                       \/ /\ queue[k].state = "HANDLE_RESPONSE"
                          /\ calls' = [calls EXCEPT ![queue[k].call] = "response"]
    BY <1>1, <1>2, <1>7
  <2> QED BY <1>3, <1>7, <2>3, <2>4, <2>5, <2>6
<1> QED BY <1>3, <1>6, <1>7 DEF ClientMoves, h, t

\* A response moves at most the one request whose token it has; what the
\* endpoint sends back is empty, and an ACK only for a response that reached
\* an interaction.
LEMMA ClientPacket ==
    ASSUME EndpointInv, OnlyClients(queue), NEW d \in Datagrams, HandleIncomingPacket(d),
           ~MsgIsRequest(d.msg), SendResults = {TRUE}
    PROVE  /\ UNCHANGED <<mid, tok, calls>>
           /\ DOMAIN queue' = DOMAIN queue
           /\ \A k \in DOMAIN queue :
                /\ Keeps(queue[k], queue'[k])
                /\ \/ queue'[k].state = queue[k].state
                   \/ /\ queue'[k].state = "HANDLE_RESPONSE"
                      /\ queue[k].state = "WAITING_RESPONSE"
                      /\ d.msg.token = queue[k].req.token
                      /\ d.msg.code \in Responses
           /\ \/ tx' = {}
              \/ tx' = {[ep |-> d.ep, msg |-> SendEmptyRST(d.msg.mid)]}
              \/ /\ tx' = {[ep |-> d.ep, msg |-> SendEmptyAck(d.msg.mid)]}
                 /\ d.msg.type = "CON"
                 /\ \E k \in DOMAIN queue :
                      /\ queue[k].req.token = d.msg.token
                      /\ queue'[k].state \in {"HANDLE_RESPONSE", "READY_TO_REQUEST"}
<1> DEFINE w == Woken(d)
<1>1. /\ AnswersInv /\ TypeInv
      /\ w \in Seq(Interactions) /\ DOMAIN w = DOMAIN queue /\ queue \in Seq(Interactions)
      /\ \A k \in DOMAIN queue :
                /\ queue[k] \in Interactions /\ w[k] \in Interactions
                /\ queue[k].role = "CLIENT"
  BY WokenFits DEF EndpointInv, AnswersInv, OnlyClients
<1>2. \A k \in DOMAIN queue : Keeps(queue[k], w[k]) /\ w[k].state = queue[k].state
  BY <1>1 DEF w, Woken, Wakeup, Keeps, Interactions, Interaction
<1>3. \A k \in DOMAIN queue : w[k].req = queue[k].req /\ w[k].role = "CLIENT"
  BY <1>1, <1>2 DEF Keeps
<1>4. d.msg \in Message /\ (d.msg.code # "EMPTY" => d.msg.code \in Responses)
  BY DatagramType DEF Message, Codes, MsgIsRequest
<1>5. \A k \in DOMAIN queue : Keeps(queue[k], queue[k])
  BY DEF Keeps
<1> HIDE DEF w
<1>6. \A r, m : SendMsg(NoRes, r, m) => tx' = {[ep |-> r, msg |-> m]} /\ Sent
  BY DEF SendMsg, Sent
<1>7. UNCHANGED <<tok, calls>>
  BY DEF HandleIncomingPacket, RxPing, RxIgnored, RxUnknownUri, RxCritical, RxReset, RxAck, RxRequest,
         RxSeparateResponse, RxUnexpectedResponse, rxUnchanged, StartNewServerInteraction,
         serverUnchanged
<1>8. CASE RxPing(d) \/ RxCritical(d) \/ RxIgnored(d)
  <2>1. UNCHANGED <<queue, mid>>
    BY <1>8 DEF RxPing, RxCritical, RxIgnored
  <2>2. tx' = {} \/ tx' = {[ep |-> d.ep, msg |-> SendEmptyRST(d.msg.mid)]}
    BY <1>6, <1>8 DEF RxPing, RxCritical, RxIgnored, Silent
  <2> QED BY <1>1, <1>5, <1>7, <2>1, <2>2
<1>9. CASE RxReset(d)
  <2>1. /\ queue' = [k \in DOMAIN queue |->
                      IF k \in Found(d) THEN [w[k] EXCEPT !.resConfirm = "RST_SEND"] ELSE queue[k]]
        /\ tx' = {} /\ UNCHANGED mid
    BY <1>9 DEF RxReset, w, Silent
  <2>2. \A k \in DOMAIN queue : /\ Keeps(queue[k], queue'[k])
                                /\ queue'[k].state = queue[k].state
    BY <1>1, <1>2, <1>5, <2>1, ZenonT(90) DEF Keeps, Interactions, Interaction
  <2> QED BY <1>7, <1>1, <2>1, <2>2
<1>10. CASE RxAck(d)
  <2>1. /\ queue' = [k \in DOMAIN queue |->
                      IF k \in Found(d) THEN Acknowledged(w[k], d.msg) ELSE queue[k]]
        /\ tx' = {} /\ UNCHANGED mid
    BY <1>10 DEF RxAck, w, Silent
  <2>2. ASSUME NEW r \in Interactions
        PROVE  /\ Keeps(r, Acknowledged(r, d.msg))
               /\ \/ Acknowledged(r, d.msg).state = r.state
                  \/ Acknowledged(r, d.msg).state = "HANDLE_RESPONSE" /\ Piggybacked(r, d.msg)
    BY DEF Acknowledged, Keeps, Interactions, Interaction
  <2>3. ASSUME NEW k \in DOMAIN queue
        PROVE  /\ Keeps(queue[k], queue'[k])
               /\ \/ queue'[k].state = queue[k].state
                  \/ queue'[k].state = "HANDLE_RESPONSE" /\ Piggybacked(w[k], d.msg)
    BY <1>1, <1>2, <1>5, <2>1, <2>2 DEF Keeps
  <2>4. \A k \in DOMAIN queue : Piggybacked(w[k], d.msg) =>
            /\ queue[k].state = "WAITING_RESPONSE" /\ d.msg.token = queue[k].req.token
            /\ d.msg.code \in Responses
    BY <1>2, <1>3, <1>4 DEF Piggybacked
  <2> QED BY <1>7, <1>1, <2>1, <2>3, <2>4
<1>11. CASE RxSeparateResponse(d)
  <2>1. PICK k \in Requested(d) :
          /\ IF d.msg.type = "CON"
             THEN SendMsg(NoRes, d.ep, SendEmptyAck(d.msg.mid))
             ELSE Silent
          /\ queue' = [w EXCEPT ![k] =
                      IF Sent THEN [Attached(w[k], d.msg) EXCEPT !.resConfirm = "ACK_SEND"]
                      ELSE Attached(w[k], d.msg)]
    BY <1>11 DEF RxSeparateResponse, w
  <2>2. k \in DOMAIN queue /\ queue[k].req.token = d.msg.token
    BY DEF Requested, First
  <2>3. d.msg.code \in Responses /\ UNCHANGED mid
    BY <1>4, <1>11 DEF RxSeparateResponse, SeparateResponse, PrechecksDone, BadCombination
  <2>4. queue[k].state \in {"READY_TO_REQUEST", "WAITING_RESPONSE", "HANDLE_RESPONSE"}
    BY <1>1, <2>2 DEF Interactions, WellFormed, ClientStates
  <2> DEFINE a == Attached(w[k], d.msg)
  <2>5. /\ Keeps(w[k], a)
        /\ a.state = IF queue[k].state = "READY_TO_REQUEST" THEN "READY_TO_REQUEST"
                     ELSE "HANDLE_RESPONSE"
    <3>1. w[k] \in Interactions /\ w[k].state = queue[k].state
      BY <1>1, <1>2, <2>2
    <3>2. CASE queue[k].state = "READY_TO_REQUEST"
      BY <3>1, <3>2 DEF Attached, Keeps
    <3>3. CASE queue[k].state # "READY_TO_REQUEST"
      BY <2>4, <3>1, <3>3 DEF Attached, Keeps, Interactions, Interaction
    <3> QED BY <3>2, <3>3
  <2>6. a \in Interactions
    BY <1>1, <1>3, <1>4, <2>2, AttachedType
  <2> HIDE DEF a
  <2> DEFINE b == IF Sent THEN [a EXCEPT !.resConfirm = "ACK_SEND"] ELSE a
  <2>7. b.state = a.state /\ Keeps(a, b)
    BY <2>6 DEF Keeps, Interactions, Interaction
  <2>8. queue' = [w EXCEPT ![k] = b]
    BY <2>1 DEF a
  <2> HIDE DEF b
  <2>9. /\ DOMAIN queue' = DOMAIN queue /\ queue'[k] = b
        /\ \A i \in DOMAIN queue : i # k => queue'[i] = w[i]
    BY <1>1, <2>2, <2>8
  <2>10. Keeps(queue[k], b)
    BY <1>2, <2>2, <2>5, <2>7 DEF Keeps
  <2>11. \A i \in DOMAIN queue :
                /\ Keeps(queue[i], queue'[i])
                /\ \/ queue'[i].state = queue[i].state
                   \/ /\ queue'[i].state = "HANDLE_RESPONSE"
                      /\ queue[i].state = "WAITING_RESPONSE"
                      /\ d.msg.token = queue[i].req.token
                      /\ d.msg.code \in Responses
    BY <1>2, <2>2, <2>3, <2>4, <2>5, <2>7, <2>9, <2>10
  <2>12. \/ tx' = {}
         \/ tx' = {[ep |-> d.ep, msg |-> SendEmptyAck(d.msg.mid)]} /\ d.msg.type = "CON"
    BY <1>6, <2>1 DEF Silent
  <2> QED BY <1>7, <2>2, <2>3, <2>5, <2>7, <2>9, <2>11, <2>12
<1>12. CASE RxUnexpectedResponse(d)
  <2>1. queue' = w /\ UNCHANGED mid /\ tx' = {[ep |-> d.ep, msg |-> SendEmptyRST(d.msg.mid)]}
    BY <1>6, <1>12 DEF RxUnexpectedResponse, w
  <2> QED BY <1>1, <1>2, <1>7, <2>1
<1> QED
  BY <1>8, <1>9, <1>10, <1>11, <1>12
     DEF HandleIncomingPacket, RxUnknownUri, UnknownUri, RxRequest

\* A request takes the next message ID and the next token, and the number of
\* the first call that was not made yet.
LEMMA ClientStarts ==
    ASSUME EndpointInv, NEW ep \in Eps, NEW type \in RequestTypes, StartNewRequest(ep, type),
           ~OutOfMemory
    PROVE  /\ mid' = NextMid(mid) /\ tok' = NextToken(tok) /\ tx' = {}
           /\ Len(queue') = Len(queue) + 1
           /\ \E n \in 1 .. MaxRequests :
                /\ calls[n] = "idle" /\ calls' = [calls EXCEPT ![n] = "open"]
                /\ \A i \in 1 .. MaxRequests : calls[i] = "idle" => n <= i
                /\ \A j \in DOMAIN queue' :
                     \/ j \in DOMAIN queue /\ queue'[j] = queue[j]
                     \/ /\ queue'[j].role = "CLIENT" /\ queue'[j].call = n
                        /\ queue'[j].state = "READY_TO_REQUEST"
                        /\ queue'[j].req = CreateMessage(type, "GET", NextMid(mid), NextToken(tok))
                /\ \A j \in DOMAIN queue : j \in DOMAIN queue' /\ queue'[j] = queue[j]
<1>1. queue \in Seq(Interactions)
  BY EndpointQueue
<1>2. PICK n \in First(FreshCalls) :
        /\ queue' = Append(queue,
                    [NewInteraction("CLIENT", "READY_TO_REQUEST", ep) EXCEPT
                        !.req = CreateMessage(type, "GET", NextMid(mid), NextToken(tok)),
                        !.call = n])
        /\ calls' = [calls EXCEPT ![n] = "open"]
  BY DEF StartNewRequest
<1>3. n \in 1 .. MaxRequests /\ calls[n] = "idle"
      /\ \A i \in 1 .. MaxRequests : calls[i] = "idle" => n <= i
  BY DEF First, FreshCalls
<1> DEFINE r == [NewInteraction("CLIENT", "READY_TO_REQUEST", ep) EXCEPT
                    !.req = CreateMessage(type, "GET", NextMid(mid), NextToken(tok)),
                    !.call = n]
<1>4. /\ r.role = "CLIENT" /\ r.call = n /\ r.state = "READY_TO_REQUEST"
      /\ r.req = CreateMessage(type, "GET", NextMid(mid), NextToken(tok))
  BY DEF NewInteraction
<1>5. queue' = Append(queue, r)
  BY <1>2
<1> HIDE DEF r
<1>6. queue \in Seq(Interactions \cup {r}) /\ r \in Interactions \cup {r}
  BY <1>1, SeqGrows
<1>7. /\ Len(queue') = Len(queue) + 1 /\ Len(queue) \in Nat
      /\ DOMAIN queue' = 1 .. Len(queue) + 1 /\ DOMAIN queue = 1 .. Len(queue)
      /\ queue'[Len(queue) + 1] = r /\ \A j \in 1 .. Len(queue) : queue'[j] = queue[j]
  BY <1>5, <1>6
<1>8. /\ \A j \in DOMAIN queue' : (j \in DOMAIN queue /\ queue'[j] = queue[j]) \/ queue'[j] = r
      /\ \A j \in DOMAIN queue : j \in DOMAIN queue' /\ queue'[j] = queue[j]
  BY <1>7
<1>9. mid' = NextMid(mid) /\ tok' = NextToken(tok) /\ tx' = {}
  BY DEF StartNewRequest, Silent
<1> QED BY <1>2, <1>3, <1>4, <1>7, <1>8, <1>9

\* A second changes timers only.
LEMMA SecondPasses ==
    ASSUME EndpointInv, Tick
    PROVE  /\ UNCHANGED <<mid, tok, calls>> /\ tx' = {}
           /\ DOMAIN queue' = DOMAIN queue /\ Len(queue') = Len(queue)
           /\ \A k \in DOMAIN queue :
                /\ Keeps(queue[k], queue'[k]) /\ queue'[k].state = queue[k].state
                /\ queue'[k].resp = queue[k].resp /\ queue'[k].resConfirm = queue[k].resConfirm
<1>1. queue \in Seq(Interactions)
  BY EndpointQueue
<1>2. queue' = [k \in DOMAIN queue |-> OneSecondOlder(queue[k])]
  BY DEF Tick
<1>3. Len(queue') = Len(queue)
  <2>1. DOMAIN queue = 1 .. Len(queue) /\ Len(queue) \in Nat
    BY <1>1
  <2> QED BY <1>2, <2>1
<1>4. ASSUME NEW r \in Interactions
      PROVE  /\ Keeps(r, OneSecondOlder(r)) /\ OneSecondOlder(r).state = r.state
             /\ OneSecondOlder(r).resp = r.resp /\ OneSecondOlder(r).resConfirm = r.resConfirm
  BY DEF OneSecondOlder, Keeps, Interactions, Interaction
<1>5. \A k \in DOMAIN queue : queue[k] \in Interactions /\ queue'[k] = OneSecondOlder(queue[k])
  BY <1>1, <1>2
<1> QED BY <1>2, <1>3, <1>4, <1>5 DEF Tick, Silent

-----------------------------------------------------------------------------
(* The serving side *)

\* m is the next answer of r: it keeps the message ID, has that of the request,
\* or the next one.  A CON answer never has that of the request.
Follows(r, m) ==
    /\ m.code \notin Requests
    /\ \/ /\ m.mid \in {r.resp.mid, r.req.mid}
          /\ m.type = "CON" => r.resp.type = "CON" /\ m.mid = r.resp.mid
       \/ m.mid = NextMid(mid) /\ mid' = NextMid(mid)

\* s is what doWork makes of r.
Later(r, s) == Keeps(r, s) /\ s.resConfirm = r.resConfirm /\ Follows(r, s.resp)

\* What doWork makes of a server interaction at the head.
ServerMoves ==
    LET h == Head(queue) IN
    \E r : \E ks \in SUBSET DOMAIN Tail(queue) :
        \/ /\ queue' = Append(Others(ks), r) \/ queue' = [queue EXCEPT ![1] = r]
           /\ Later(h, r)
           /\ \/ tx' = {}
              \/ tx' = {[ep |-> h.ep, msg |-> SendEmptyAck(h.req.mid)]}
              \/ tx' = {[ep |-> h.ep, msg |-> r.resp]}
        \/ queue' = Others(ks) /\ tx' = {}

LEMMA StagesLater ==
    ASSUME NEW h, NEW r \in Interactions, Later(h, r), NEW s, NEW next
    PROVE  /\ Later(h, SetSleep(r, s)) /\ SetSleep(r, s).resp = r.resp
           /\ Later(h, Answered(r, next)) /\ Answered(r, next).resp = r.resp
           /\ Later(h, EnableAckTimeout([r EXCEPT !.retransCounter = @ + 1]))
           /\ EnableAckTimeout([r EXCEPT !.retransCounter = @ + 1]).resp = r.resp
<1>1. /\ Keeps(h, SetSleep(r, s)) /\ Keeps(h, Answered(r, next))
      /\ Keeps(h, EnableAckTimeout([r EXCEPT !.retransCounter = @ + 1]))
  BY StagesKeep DEF Later
<1>2. ASSUME NEW a \in {SetSleep(r, s), Answered(r, next),
                        EnableAckTimeout([r EXCEPT !.retransCounter = @ + 1])}
      PROVE  a.resp = r.resp /\ a.resConfirm = r.resConfirm
  BY <1>2 DEF SetSleep, Answered, EnableAckTimeout, Interactions, Interaction
<1> QED BY <1>1, <1>2 DEF Later

\* An answer that is sent.
LEMMA AnswerMoves ==
    ASSUME EndpointInv, doWork, NEW r \in Interactions, Later(Head(queue), r),
           NEW ks \in SUBSET DOMAIN Tail(queue), SendResp(r, Others(ks), "RESPONSE_SENT"),
           SendResults = {TRUE}
    PROVE  ServerMoves
<1>1. tx' = {[ep |-> r.ep, msg |-> r.resp]} /\ Sent
  BY DEF SendResp, SendMsg, Sent
<1>2. r.ep = Head(queue).ep
  BY DEF Later, Keeps
<1> DEFINE a == Answered(r, "RESPONSE_SENT")
<1>3. queue' = Append(Others(ks), a)
  BY <1>1 DEF SendResp
<1>4. Later(Head(queue), a) /\ a.resp = r.resp
  BY StagesLater
<1> HIDE DEF a
<1> QED BY <1>1, <1>2, <1>3, <1>4 DEF ServerMoves

LEMMA AnswerLater ==
    ASSUME NEW h \in Interactions, h.role = "SERVER", NEW m \in Message, Follows(h, m)
    PROVE  [h EXCEPT !.resp = m] \in Interactions /\ Later(h, [h EXCEPT !.resp = m])
<1>1. [h EXCEPT !.resp = m] \in Interactions
  BY RespType
<1> DEFINE r == [h EXCEPT !.resp = m]
<1>2. r.resp = m /\ r.resConfirm = h.resConfirm /\ Keeps(h, r)
  BY DEF Keeps, Interactions, Interaction
<1> HIDE DEF r
<1>3. Later(h, r)
  BY <1>2 DEF Later
<1> QED BY <1>1, <1>3 DEF r

\* The message ID of what the handler is given, and the counter after it.
LEMMA PreparedMid ==
    ASSUME EndpointInv, queue # <<>>, Serving.role = "SERVER", Serving.resp.code \notin Requests
    PROVE  /\ Prepared \in Message /\ Prepared.code \notin Requests
           /\ Prepared.type = "CON" => Prepared = Serving.resp
           /\ \/ Prepared.mid \in {Serving.resp.mid, Serving.req.mid} /\ MidPrepared = mid
              \/ Prepared.mid = NextMid(mid) /\ MidPrepared = NextMid(mid)
<1>1. Prepared \in Message
  BY PreparedFits DEF EndpointInv
<1>2. CASE Postponed
  BY <1>1, <1>2 DEF Prepared, MidPrepared
<1>3. CASE ~Postponed
  BY <1>1, <1>3 DEF Prepared, MidPrepared, AllocRespMsg, CreateMessage, MidAfterAllocResp, Requests
<1> QED BY <1>2, <1>3

LEMMA ServeAnswerMoves ==
    ASSUME EndpointInv, doWork, Head(queue).role = "SERVER",
           Head(queue).resp.code \notin Requests, SendResults = {TRUE}, HandlerTypes = {"NON"},
           ServeAnswer
    PROVE  ServerMoves /\ mid' \in {mid, NextMid(mid)}
<1>1. /\ queue # <<>> /\ AnswersInv /\ Serving = Head(queue) /\ Serving \in Interactions
      /\ ReadyForHandler /\ mid' = (IF Separate THEN NextMid(mid) ELSE MidPrepared)
  BY ServingFits DEF doWork, EndpointInv, Serving, ServeAnswer
<1>2. PICK m \in Answers : Answer(m)
  BY DEF ServeAnswer
<1>3. PICK c \in AnswerCodes :
        m \in Typed([Prepared EXCEPT
                        !.code = c,
                        !.version = IF c = "2.05" THEN updateCnt[Serving.res] ELSE 0])
  BY <1>2 DEF Answers
<1>4. c \notin Requests
  BY DEF AnswerCodes, Requests
<1>5. /\ Prepared \in Message
      /\ \/ Prepared.mid \in {Serving.resp.mid, Serving.req.mid} /\ MidPrepared = mid
         \/ Prepared.mid = NextMid(mid) /\ MidPrepared = NextMid(mid)
  BY <1>1, PreparedMid
<1> DEFINE v == IF c = "2.05" THEN updateCnt[Serving.res] ELSE 0
           p == [Prepared EXCEPT !.code = c, !.version = v]
<1>6. p.mid = Prepared.mid /\ p.code = c /\ DOMAIN p = DOMAIN Prepared
  BY <1>5 DEF Message
<1>7. m \in Typed(p)
  BY <1>3
<1>8. \/ Separate /\ m = [p EXCEPT !.type = "CON", !.mid = NextMid(mid)]
      \/ ~Separate /\ \E t \in {"ACK", "NON"} : m = [p EXCEPT !.type = t]
  BY <1>7 DEF Typed
<1> HIDE DEF p
<1>9. /\ m.code = c
      /\ Separate => m.mid = NextMid(mid)
      /\ ~Separate => m.mid = Prepared.mid /\ m.type # "CON"
  BY <1>5, <1>6, <1>8 DEF Message
<1>10. m \in Message
  BY <1>1, <1>2, AnswersFit
<1>11. \/ m.mid \in {Serving.resp.mid, Serving.req.mid} /\ m.type # "CON"
       \/ m.mid = NextMid(mid) /\ mid' = NextMid(mid)
  BY <1>1, <1>5, <1>9
<1>12. PICK n \in Message, ks \in SUBSET DOMAIN Tail(queue) :
          /\ n.mid = m.mid /\ n.code = m.code /\ n.type = m.type
          /\ SendResp([Serving EXCEPT !.resp = n], Others(ks), "RESPONSE_SENT")
  <2>1. Others({}) = Tail(queue) /\ {} \in SUBSET DOMAIN Tail(queue)
    BY DEF Others, Without
  <2>2. CASE ~Registers(m) /\ ~Deregisters(m)
    <3>1. SendResp([Serving EXCEPT !.resp = m], Others({}), "RESPONSE_SENT")
      BY <1>2, <2>1, <2>2 DEF Answer
    <3> QED BY <1>10, <2>1, <3>1
  <2>3. CASE Registers(m)
    <3> DEFINE o == [m EXCEPT !.observe = 0]
    <3>1. o \in Message /\ o.mid = m.mid /\ o.code = m.code /\ o.type = m.type
      BY <1>10, MaxVersionAssumption DEF Message, ObserveVals, Versions
    <3>2. SendResp([Serving EXCEPT !.resp = o], Tail(queue), "RESPONSE_SENT")
      BY <1>2, <2>3 DEF Answer, Registers, Deregisters, Register, Deregister
    <3> HIDE DEF o
    <3> QED BY <2>1, <3>1, <3>2
  <2>4. CASE Deregisters(m)
    <3>1. SendResp([Serving EXCEPT !.resp = m], Others(PendingNotification(Tail(queue))),
                   "RESPONSE_SENT")
      BY <1>2, <2>4 DEF Answer, Registers, Deregisters, Register, Deregister, Others
    <3>2. PendingNotification(Tail(queue)) \in SUBSET DOMAIN Tail(queue)
      BY DEF PendingNotification, First
    <3> QED BY <1>10, <3>1, <3>2
  <2> QED BY <2>2, <2>3, <2>4
<1>13. /\ [Serving EXCEPT !.resp = n] \in Interactions
       /\ Later(Serving, [Serving EXCEPT !.resp = n])
  <2>1. Follows(Serving, n)
    BY <1>4, <1>9, <1>11, <1>12 DEF Follows
  <2> QED BY <1>1, <1>12, <2>1, AnswerLater
<1>14. ServerMoves
  BY <1>1, <1>12, <1>13, AnswerMoves
<1> QED BY <1>1, <1>5, <1>14

LEMMA ServerMovesOn ==
    ASSUME EndpointInv, doWork, Head(queue).role = "SERVER",
           Head(queue).resp.code \notin Requests, SendResults = {TRUE}, HandlerTypes = {"NON"},
           ~ServeNullAnswer
    PROVE  ServerMoves /\ mid' \in {mid, NextMid(mid)} /\ UNCHANGED calls
<1>1. /\ queue # <<>> /\ TypeInv /\ Serving = Head(queue) /\ Serving \in Interactions
      /\ Serving.req \in Message /\ mid \in Mids
  BY ServingType DEF doWork, EndpointInv, JobsInv, TypeInv, TypeOK, Serving, Interactions, WellFormed
<1>2. Others({}) = Tail(queue) /\ {} \in SUBSET DOMAIN Tail(queue)
  BY DEF Others, Without
<1>3. Later(Serving, Serving)
  BY <1>1 DEF Later, Follows, Keeps
<1>4. /\ Prepared \in Message /\ Prepared.code \notin Requests
      /\ Prepared.type = "CON" => Prepared = Serving.resp
      /\ \/ Prepared.mid \in {Serving.resp.mid, Serving.req.mid} /\ MidPrepared = mid
         \/ Prepared.mid = NextMid(mid) /\ MidPrepared = NextMid(mid)
  BY <1>1, PreparedMid
<1>5. ASSUME NEW r, Later(Serving, r),
             queue' = Append(Tail(queue), r) \/ queue' = [queue EXCEPT ![1] = r],
             \/ tx' = {}
             \/ tx' = {[ep |-> Serving.ep, msg |-> SendEmptyAck(Serving.req.mid)]}
             \/ tx' = {[ep |-> Serving.ep, msg |-> r.resp]}
      PROVE  ServerMoves
  BY <1>1, <1>2, <1>5 DEF ServerMoves
<1>6. CASE Rotate
  BY <1>1, <1>3, <1>5, <1>6 DEF Rotate, EnqueueHead, Silent
<1>7. CASE ServeMulticastCon \/ ServeDrop \/ ServerDone
  <2>1. queue' = Tail(queue) /\ tx' = {} /\ mid' \in {mid, MidPrepared}
    BY <1>7 DEF ServeMulticastCon, ServeDrop, ServerDone, DeleteHead, Silent
  <2>2. UNCHANGED calls
    BY <1>7 DEF ServeMulticastCon, ServeDrop, ServerDone, serverUnchanged
  <2> QED BY <1>2, <1>4, <2>1, <2>2 DEF ServerMoves
<1>8. CASE ServeMulticastWait
  <2> DEFINE r == [Serving EXCEPT !.state = "RESPONSE_WAITING_LEISURE"]
             s == SetSleep(r, Leisure)
  <2>1. queue' = Append(Tail(queue), s) /\ tx' = {} /\ UNCHANGED <<mid, calls>>
    BY <1>8 DEF ServeMulticastWait, EnqueueHead, Silent, serverUnchanged
  <2>2. Later(Serving, s)
    BY <1>1, <1>3 DEF SetSleep, Later, Follows, Keeps, Interactions, Interaction
  <2> HIDE DEF s
  <2> QED BY <1>5, <2>1, <2>2
<1>9. CASE ServeMethodNotAllowed
  <2> DEFINE m == AllocRespMsg(Serving.req, "4.05", mid)
  <2>1. /\ SendResp([Serving EXCEPT !.resp = m], Tail(queue), "RESPONSE_SENT")
        /\ mid' = MidAfterAllocResp(Serving.req, mid) /\ UNCHANGED calls
    BY <1>9 DEF ServeMethodNotAllowed, serverUnchanged
  <2>2. m \in Message /\ m.code \notin Requests
    BY <1>1, AllocRespType DEF Codes, Responses, Requests, AllocRespMsg, CreateMessage
  <2>3. /\ m.type # "CON"
        /\ \/ m.mid = Serving.req.mid /\ mid' = mid
           \/ m.mid = NextMid(mid) /\ mid' = NextMid(mid)
    BY <2>1 DEF AllocRespMsg, CreateMessage, MidAfterAllocResp
  <2> HIDE DEF m
  <2>4. /\ [Serving EXCEPT !.resp = m] \in Interactions
        /\ Later(Serving, [Serving EXCEPT !.resp = m])
    <3>1. Follows(Serving, m)
      BY <2>2, <2>3 DEF Follows
    <3> QED BY <1>1, <2>2, <3>1, AnswerLater
  <2>5. ServerMoves
    BY <1>1, <1>2, <2>1, <2>4, AnswerMoves
  <2> QED BY <2>1, <2>3, <2>5
<1>10. CASE ServePostponeAck \/ ServePostponeAgain
  <2> DEFINE a == [Serving EXCEPT !.resp = Prepared, !.reqConfirm = "ACK_SEND",
                                  !.state = "RESOURCE_POSTPONE_EMPTY_ACK_SENT"]
             b == [Serving EXCEPT !.resp = Prepared]
  <2>1. /\ mid' = MidPrepared /\ UNCHANGED calls
        /\ \/ /\ queue' = Append(Tail(queue), SetSleep(a, PostponeWait))
              /\ tx' = {[ep |-> Serving.ep, msg |-> SendEmptyAck(Serving.req.mid)]}
           \/ queue' = Append(Tail(queue), SetSleep(b, PostponeWait)) /\ tx' = {}
    BY <1>10 DEF ServePostponeAck, ServePostponeAgain, serverUnchanged, EnqueueHead, Silent,
                 SendMsg, Sent
  <2>2. /\ SetSleep(a, PostponeWait).resp = Prepared /\ SetSleep(b, PostponeWait).resp = Prepared
        /\ SetSleep(a, PostponeWait).resConfirm = Serving.resConfirm
        /\ SetSleep(b, PostponeWait).resConfirm = Serving.resConfirm
        /\ Keeps(Serving, SetSleep(a, PostponeWait)) /\ Keeps(Serving, SetSleep(b, PostponeWait))
    BY <1>1 DEF SetSleep, Keeps, Interactions, Interaction
  <2> HIDE DEF a, b
  <2>3. Later(Serving, SetSleep(a, PostponeWait)) /\ Later(Serving, SetSleep(b, PostponeWait))
    BY <1>4, <2>1, <2>2 DEF Later, Follows
  <2> QED BY <1>4, <1>5, <2>1, <2>3
<1>11. CASE ServeAnswer
  BY <1>11, ServeAnswerMoves DEF ServeAnswer, serverUnchanged
<1>12. CASE ServerWaitsForAck
  <2>1. /\ queue' = Append(Tail(queue), SetSleep(Serving, Serving.ackLeft)) /\ tx' = {}
        /\ UNCHANGED <<mid, calls>>
    BY <1>12 DEF ServerWaitsForAck, EnqueueHead, Silent, serverUnchanged
  <2> QED BY <1>1, <1>3, <1>5, <2>1, StagesLater
<1>13. CASE ServerRetries
  <2> DEFINE r == EnableAckTimeout([Serving EXCEPT !.retransCounter = @ + 1])
  <2>1. Retransmit(Serving, Serving.resp) /\ UNCHANGED <<mid, calls>>
    BY <1>13 DEF ServerRetries, serverUnchanged
  <2>2. tx' = {[ep |-> Serving.ep, msg |-> Serving.resp]} /\ Sent
    BY <2>1 DEF Retransmit, SendMsg, Sent
  <2>3. queue' = [queue EXCEPT ![1] = r]
    BY <2>1, <2>2 DEF Retransmit, UpdateHead
  <2>4. Later(Serving, r) /\ r.resp = Serving.resp
    BY <1>1, <1>3, StagesLater
  <2> HIDE DEF r
  <2> QED BY <1>5, <2>1, <2>2, <2>3, <2>4
<1>14. handleServerInteraction \/ Rotate
  BY DEF doWork, handleClientInteraction, SendRequest, ClientWaits, ClientRetries, ClientGivesUp,
         HandleResponse, AwaitsResponse, Asking, handleNotifyInteraction, SendNotification,
         NotificationWaits, NotificationRetries, NotificationRestarts, NotificationDone,
         NotificationRefused, NotificationSent, Pending
<1>15. Rotate => UNCHANGED <<mid, calls>>
  BY DEF Rotate
<1> QED
  BY <1>6, <1>7, <1>8, <1>9, <1>10, <1>11, <1>12, <1>13, <1>14, <1>15 DEF handleServerInteraction

\* doWork changes one interaction, the head; it sends the answer of an
\* interaction that is then in the list, or an empty ACK.
LEMMA ServerWork ==
    ASSUME EndpointInv, doWork, OnlyServers(queue), SendResults = {TRUE}, HandlerTypes = {"NON"},
           ~ServeNullAnswer
    PROVE  /\ mid' \in {mid, NextMid(mid)} /\ UNCHANGED calls
           /\ 1 \in DOMAIN queue
           /\ \A j \in DOMAIN queue' :
                \/ \E k \in DOMAIN queue : queue'[j] = queue[k]
                \/ Later(queue[1], queue'[j])
           /\ \/ tx' = {}
              \/ \E ep \in Eps, id \in Mids : tx' = {[ep |-> ep, msg |-> SendEmptyAck(id)]}
              \/ \E ep \in Eps : \E j \in DOMAIN queue' : tx' = {[ep |-> ep, msg |-> queue'[j].resp]}
<1>1. /\ queue # <<>> /\ TypeInv /\ queue \in Seq(Interactions)
      /\ 1 \in DOMAIN queue /\ Head(queue) = queue[1] /\ Head(queue) \in Interactions
  BY ServingType DEF doWork, EndpointInv, JobsInv
<1>2. /\ Head(queue).role = "SERVER" /\ Head(queue).resp.code \notin Requests
      /\ Head(queue).ep \in Eps /\ Head(queue).req.mid \in Mids
  <2>1. Head(queue).role = "SERVER" /\ Head(queue).resp.code \notin Requests
    BY <1>1 DEF OnlyServers
  <2> QED BY <1>1, <2>1 DEF Interactions, Interaction, WellFormed, Message
<1>3. ServerMoves /\ mid' \in {mid, NextMid(mid)} /\ UNCHANGED calls
  BY <1>2, ServerMovesOn
<1> DEFINE h == Head(queue)
<1>4. PICK r, ks :
        /\ ks \in SUBSET DOMAIN Tail(queue)
        /\ \/ /\ queue' = Append(Others(ks), r) \/ queue' = [queue EXCEPT ![1] = r]
              /\ Later(h, r)
              /\ \/ tx' = {}
                 \/ tx' = {[ep |-> h.ep, msg |-> SendEmptyAck(h.req.mid)]}
                 \/ tx' = {[ep |-> h.ep, msg |-> r.resp]}
           \/ queue' = Others(ks) /\ tx' = {}
  BY <1>3 DEF ServerMoves
<1>5. CASE queue' = Others(ks) /\ tx' = {}
  <2>1. \A j \in DOMAIN queue' : \E k \in DOMAIN queue : queue'[j] = queue[k]
    BY <1>1, <1>4, <1>5, ElementsAfter
  <2> QED BY <1>1, <1>3, <1>5, <2>1
<1>6. CASE /\ queue' = Append(Others(ks), r) \/ queue' = [queue EXCEPT ![1] = r]
           /\ Later(h, r)
           /\ \/ tx' = {}
              \/ tx' = {[ep |-> h.ep, msg |-> SendEmptyAck(h.req.mid)]}
              \/ tx' = {[ep |-> h.ep, msg |-> r.resp]}
  <2>1. Gets(Append(Others(ks), r), r) /\ Gets([queue EXCEPT ![1] = r], r)
    BY <1>1, <1>4, ElementsAfter
  <2>2. /\ \A j \in DOMAIN queue' : queue'[j] = r \/ \E k \in DOMAIN queue : queue'[j] = queue[k]
        /\ \E j \in DOMAIN queue' : queue'[j] = r
    BY <1>6, <2>1 DEF Gets
  <2>3. Later(queue[1], r)
    BY <1>1, <1>6
  <2> HIDE DEF h
  <2>4. h.ep \in Eps /\ h.req.mid \in Mids
    BY <1>2 DEF h
  <2> QED BY <1>1, <1>3, <1>6, <2>2, <2>3, <2>4
<1> QED BY <1>4, <1>5, <1>6

\* A datagram starts an interaction for a request, or confirms one whose
\* request or answer has its message ID; only a request is answered at once.
LEMMA ServerPacket ==
    ASSUME EndpointInv, OnlyServers(queue), NEW d \in Datagrams, HandleIncomingPacket(d),
           ~UnknownUri(d), SendResults = {TRUE}
    PROVE  /\ UNCHANGED <<mid, calls>>
           /\ \A j \in DOMAIN queue' :
                \/ /\ j \in DOMAIN queue
                   /\ Keeps(queue[j], queue'[j]) /\ queue'[j].resp = queue[j].resp
                   /\ \/ queue'[j].resConfirm \in {queue[j].resConfirm, "RST_SEND"}
                      \/ d.msg.type = "ACK" /\ d.msg.mid \in {queue[j].req.mid, queue[j].resp.mid}
                \/ /\ MsgIsRequest(d.msg)
                   /\ queue'[j].role = "SERVER" /\ queue'[j].req = d.msg
                   /\ queue'[j].resp = NoMessage /\ queue'[j].resConfirm = "NOT_SET"
           /\ \/ tx' = {}
              \/ \E m : /\ tx' = {[ep |-> d.ep, msg |-> m]} /\ m.type \in {"ACK", "RST"}
                        /\ \/ m.code = "EMPTY" /\ m.token = NoToken
                           \/ /\ m.code \in Responses /\ m.token = d.msg.token
                              /\ MsgIsRequest(d.msg)
                        /\ m.mid = d.msg.mid
<1> DEFINE w == Woken(d)
<1>1. /\ AnswersInv /\ TypeInv
      /\ w \in Seq(Interactions) /\ DOMAIN w = DOMAIN queue /\ queue \in Seq(Interactions)
      /\ \A k \in DOMAIN queue :
                /\ queue[k] \in Interactions /\ w[k] \in Interactions
                /\ queue[k].role = "SERVER" /\ w[k].role = "SERVER"
                /\ w[k].resp = queue[k].resp
  BY WokenFits DEF EndpointInv, AnswersInv, OnlyServers
<1>2. \A k \in DOMAIN queue : Keeps(queue[k], w[k]) /\ w[k].resConfirm = queue[k].resConfirm
  BY <1>1 DEF w, Woken, Wakeup, Keeps, Interactions, Interaction
<1>3. \A k \in DOMAIN queue : Keeps(queue[k], queue[k])
  BY DEF Keeps
<1> HIDE DEF w
<1>4. ASSUME NEW m, SendMsg(NoRes, d.ep, m)
      PROVE  tx' = {[ep |-> d.ep, msg |-> m]}
  BY <1>4 DEF SendMsg
<1>5. UNCHANGED <<mid, calls>>
  BY DEF HandleIncomingPacket, RxPing, RxIgnored, RxUnknownUri, RxCritical, RxReset, RxAck, RxRequest,
         RxSeparateResponse, RxUnexpectedResponse, rxUnchanged, StartNewServerInteraction,
         serverUnchanged
<1> DEFINE Empty(m) == m = SendEmptyRST(d.msg.mid) \/ m = SendEmptyAck(d.msg.mid)
           Short(m) == /\ MsgIsRequest(d.msg)
                       /\ \E c \in {"4.02", "5.00"} :
                            m = SendShortResp("ACK", c, d.msg.mid, d.msg.token)
           Sends == tx' = {} \/ \E m : tx' = {[ep |-> d.ep, msg |-> m]} /\ (Empty(m) \/ Short(m))
<1>6. ASSUME NEW m, Empty(m) \/ Short(m)
      PROVE  /\ m.type \in {"ACK", "RST"} /\ m.mid = d.msg.mid
             /\ \/ m.code = "EMPTY" /\ m.token = NoToken
                \/ /\ m.code \in Responses /\ m.token = d.msg.token
                   /\ MsgIsRequest(d.msg)
  BY <1>6 DEF SendEmptyRST, SendEmptyAck, SendShortResp, CreateMessage, Responses
<1>7. Sends => \/ tx' = {}
               \/ \E m : /\ tx' = {[ep |-> d.ep, msg |-> m]} /\ m.type \in {"ACK", "RST"}
                         /\ \/ m.code = "EMPTY" /\ m.token = NoToken
                            \/ /\ m.code \in Responses /\ m.token = d.msg.token
                               /\ MsgIsRequest(d.msg)
                         /\ m.mid = d.msg.mid
  BY <1>6
<1> DEFINE Kept == DOMAIN queue' = DOMAIN queue /\ \A j \in DOMAIN queue :
                    /\ Keeps(queue[j], queue'[j]) /\ queue'[j].resp = queue[j].resp
                    /\ \/ queue'[j].resConfirm \in {queue[j].resConfirm, "RST_SEND"}
                       \/ d.msg.type = "ACK" /\ d.msg.mid \in {queue[j].req.mid, queue[j].resp.mid}
<1>8. queue' = queue \/ queue' = w => Kept
  BY <1>1, <1>2, <1>3
<1>9. CASE RxPing(d) \/ RxCritical(d) \/ RxIgnored(d)
  <2>1. queue' = queue
    BY <1>9 DEF RxPing, RxCritical, RxIgnored
  <2>2. Sends
    BY <1>4, <1>9 DEF RxPing, RxCritical, RxIgnored, Silent
  <2> QED BY <1>5, <1>7, <1>8, <2>1, <2>2
<1>10. CASE RxReset(d)
  <2>1. /\ queue' = [k \in DOMAIN queue |->
                      IF k \in Found(d) THEN [w[k] EXCEPT !.resConfirm = "RST_SEND"] ELSE queue[k]]
        /\ tx' = {}
    BY <1>10 DEF RxReset, w, Silent
  <2>2. ASSUME NEW r \in Interactions, NEW c
        PROVE  /\ Keeps(r, [r EXCEPT !.resConfirm = c]) /\ [r EXCEPT !.resConfirm = c].resp = r.resp
               /\ [r EXCEPT !.resConfirm = c].resConfirm = c
    BY DEF Keeps, Interactions, Interaction
  <2>3. Kept
    BY <1>1, <1>2, <1>3, <2>1, <2>2 DEF Keeps
  <2> QED BY <1>5, <2>1, <2>3
<1>11. CASE RxAck(d)
  <2>1. /\ queue' = [k \in DOMAIN queue |->
                      IF k \in Found(d) THEN Acknowledged(w[k], d.msg) ELSE queue[k]]
        /\ tx' = {} /\ d.msg.type = "ACK"
    BY <1>11 DEF RxAck, w, Silent
  <2>2. ASSUME NEW r \in Interactions, r.role = "SERVER"
        PROVE  Keeps(r, Acknowledged(r, d.msg)) /\ Acknowledged(r, d.msg).resp = r.resp
    BY <2>2 DEF Acknowledged, Piggybacked, Keeps, Interactions, Interaction
  <2>3. \A k \in Found(d) : d.msg.mid \in {queue[k].req.mid, queue[k].resp.mid}
    BY DEF Found, FindByMessageIdAndEp, First
  <2>4. Kept
    BY <1>1, <1>2, <1>3, <2>1, <2>2, <2>3 DEF Keeps
  <2> QED BY <1>5, <2>1, <2>4
<1>12. CASE RxRequest(d)
  <2>1. StartNewServerInteraction(d, w) /\ MsgIsRequest(d.msg)
    BY <1>12 DEF RxRequest, w
  <2> DEFINE r == [NewInteraction("SERVER", "HANDLE_REQUEST", d.ep) EXCEPT
                    !.res = d.uri, !.multicast = d.multicast, !.req = d.msg]
  <2>2. queue' = w \/ queue' = Append(w, r)
    BY <2>1 DEF StartNewServerInteraction
  <2>3. /\ r.role = "SERVER" /\ r.req = d.msg /\ r.resp = NoMessage
        /\ r.resConfirm = "NOT_SET"
    BY DEF NewInteraction
  <2>4. Sends
    BY <1>4, <2>1 DEF StartNewServerInteraction, Silent
  <2> HIDE DEF r
  <2>5. w \in Seq(Interactions \cup {r}) /\ r \in Interactions \cup {r}
    BY <1>1, SeqGrows
  <2>6. \A j \in DOMAIN Append(w, r) :
            Append(w, r)[j] = r \/ (j \in DOMAIN queue /\ Append(w, r)[j] = w[j])
    <3>1. /\ DOMAIN w = 1 .. Len(w) /\ Len(w) \in Nat /\ DOMAIN Append(w, r) = 1 .. Len(w) + 1
          /\ \A j \in 1 .. Len(w) : Append(w, r)[j] = w[j]
          /\ Append(w, r)[Len(w) + 1] = r
      BY <2>5
    <3> QED BY <1>1, <3>1
  <2>7. CASE queue' = w
    BY <1>5, <1>7, <1>8, <2>4, <2>7
  <2>8. CASE queue' = Append(w, r)
    <3>1. \A j \in DOMAIN queue' : \/ queue'[j] = r
                                   \/ j \in DOMAIN queue /\ queue'[j] = w[j]
      BY <2>6, <2>8
    <3> QED BY <1>1, <1>2, <1>5, <1>7, <2>1, <2>3, <2>4, <3>1
  <2> QED BY <2>2, <2>7, <2>8
<1>13. CASE RxUnexpectedResponse(d)
  <2>1. queue' = w /\ tx' = {[ep |-> d.ep, msg |-> SendEmptyRST(d.msg.mid)]}
    BY <1>4, <1>13 DEF RxUnexpectedResponse, w
  <2> QED BY <1>5, <1>7, <1>8, <2>1
<1>14. ~RxSeparateResponse(d)
  BY <1>1 DEF RxSeparateResponse, Requested, First
<1> QED
  BY <1>9, <1>10, <1>11, <1>12, <1>13, <1>14
     DEF HandleIncomingPacket, RxUnknownUri
=============================================================================
