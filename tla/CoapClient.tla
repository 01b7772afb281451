----------------------------- MODULE CoapClient -----------------------------
(***************************************************************************)
(* The client role: CoAP_StartNewRequest and handleClientInteraction.      *)
(* "calls" records which of its callbacks the application has seen.        *)
(***************************************************************************)
EXTENDS CoapInteractions

CONSTANT RequestTypes  \* {"CON"} for CoAP_StartNewRequest; "NON" as well for
                       \* callers of CoAP_StartNewClientInteraction
CONSTANT MayClear      \* whether the application calls
                       \* CoAP_ClearPendingInteractions

ASSUME RequestTypesAssumption == RequestTypes \subseteq {"CON", "NON"}
ASSUME ClearAssumption == MayClear \in BOOLEAN

Asking == Head(queue)

clientUnchanged == UNCHANGED <<leaked, updateCnt, observers, loop>>

FreshCalls == {n \in 1 .. MaxRequests : calls[n] = "idle"}

\* The IDs are drawn before the interaction is allocated.
StartNewRequest(ep, type) ==
    /\ Idle
    /\ \E n \in First(FreshCalls) :
        IF OutOfMemory
        THEN UNCHANGED <<queue, calls>>
        ELSE /\ queue' = Append(queue,
                    [NewInteraction("CLIENT", "READY_TO_REQUEST", ep) EXCEPT
                        !.req = CreateMessage(type, "GET", NextMid(mid), NextToken(tok)),
                        !.call = n])
             /\ calls' = [calls EXCEPT ![n] = "open"]
    /\ mid' = NextMid(mid) /\ tok' = NextToken(tok)
    /\ Silent
    /\ clientUnchanged

Callback(n, result) ==
    calls' = [calls EXCEPT ![n] = IF @ = "open" THEN result ELSE "twice"]

\* SendReq.  When the datagram cannot be sent the interaction is deleted, and
\* RespCB is not called.
SendRequest ==
    /\ Asking.role = "CLIENT" /\ Asking.state = "READY_TO_REQUEST"
    /\ SendMsg(NoRes, Asking.ep, Asking.req)
    /\ IF Sent
       THEN /\ EnqueueHead([Asking EXCEPT
                    !.state = "WAITING_RESPONSE", !.reqAge = 0,
                    !.ackLeft = IF Asking.req.type = "CON" THEN WaitTime[0] ELSE @])
            /\ UNCHANGED calls
       ELSE DeleteHead /\ calls' = [calls EXCEPT ![Asking.call] = "dropped"]
    /\ UNCHANGED <<mid, tok>> /\ clientUnchanged

\* Mutant: the response to a NON request is awaited for ever.
ReqStatusPatient(r) ==
    IF r.reqConfirm = "RST_SEND" THEN "ERR_REMOTE_RST"
    ELSE IF r.req.type # "CON" \/ r.reqConfirm = "ACK_SEND" \/ r.ackLeft > 0 THEN "WAITING"
    ELSE IF r.retransCounter + 1 > MAX_RETRANSMIT THEN "ERR_OUT_OF_ATTEMPTS"
    ELSE "RETRY"

\* CheckReqStatus
ReqStatus(r) ==
    IF r.reqConfirm = "RST_SEND" THEN "ERR_REMOTE_RST"
    ELSE IF r.req.type # "CON" \/ r.reqConfirm = "ACK_SEND"
         THEN IF r.reqAge >= ClientMaxWait THEN "ERR_TIMEOUT" ELSE "WAITING"
    ELSE IF r.ackLeft > 0 THEN "WAITING"
    ELSE IF r.retransCounter + 1 > MAX_RETRANSMIT THEN "ERR_OUT_OF_ATTEMPTS"
    ELSE "RETRY"

AwaitsResponse == Asking.role = "CLIENT" /\ Asking.state = "WAITING_RESPONSE"

ClientWaits ==
    /\ AwaitsResponse /\ ReqStatus(Asking) = "WAITING"
    /\ EnqueueHead(Asking) /\ Silent
    /\ UNCHANGED <<mid, tok, calls>> /\ clientUnchanged

ClientRetries ==
    /\ AwaitsResponse /\ ReqStatus(Asking) = "RETRY"
    /\ Retransmit([Asking EXCEPT !.reqAge = 0], Asking.req)
    /\ IF Sent THEN UNCHANGED calls ELSE Callback(Asking.call, "failed")
    /\ UNCHANGED <<mid, tok>> /\ clientUnchanged

ClientGivesUp ==
    /\ AwaitsResponse /\ ReqStatus(Asking) \notin {"WAITING", "RETRY"}
    /\ Callback(Asking.call, "failed")
    /\ DeleteHead /\ Silent
    /\ UNCHANGED <<mid, tok>> /\ clientUnchanged

\* Mutant: the interaction is kept after the callback.
HandleResponseAgain ==
    /\ Asking.role = "CLIENT" /\ Asking.state = "HANDLE_RESPONSE"
    /\ Callback(Asking.call, "response")
    /\ EnqueueHead(Asking) /\ Silent
    /\ UNCHANGED <<mid, tok>> /\ clientUnchanged

HandleResponse ==
    /\ Asking.role = "CLIENT" /\ Asking.state = "HANDLE_RESPONSE"
    /\ Callback(Asking.call, "response")
    /\ DeleteHead /\ Silent
    /\ UNCHANGED <<mid, tok>> /\ clientUnchanged

handleClientInteraction ==
    \/ SendRequest \/ ClientWaits \/ ClientRetries \/ ClientGivesUp \/ HandleResponse

\* CoAP_ClearPendingInteractions frees everything without a callback.
ClearPendingInteractions ==
    /\ MayClear /\ Idle /\ queue # <<>>
    /\ queue' = <<>>
    /\ calls' = [n \in DOMAIN calls |-> IF calls[n] = "open" THEN "cleared" ELSE calls[n]]
    /\ Silent
    /\ UNCHANGED <<mid, tok>> /\ clientUnchanged
=============================================================================
