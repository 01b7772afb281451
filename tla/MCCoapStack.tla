---------------------------- MODULE MCCoapStack ----------------------------
(***************************************************************************)
(* Small instances of CoapStack.  A configuration picks the endpoints, the *)
(* datagrams and the outcomes of the callbacks its question needs.         *)
(***************************************************************************)
EXTENDS CoapProperties, TLC

CONSTANTS e1, e2, r1, o1, o2, o3

\* No step reads what was sent, "told" and "tx": states that differ only in
\* them are the same to the runs that check invariants and single steps.
StackView == <<queue, leaked, mid, tok, updateCnt, observers, loop, calls>>

\* Which block an observer is allocated in makes no difference.
OidSymmetry == Permutations(Oids)

\* One retransmission, after a wait of 1 and then of 2 seconds.
MCWaitTime == [n \in 0 .. MAX_RETRANSMIT |-> n + 1]
MCMethods  == [r \in Res |-> {"GET"}]
MCDatagram(ep, type, code, id, token) ==
    [ep |-> ep, multicast |-> FALSE, uri |-> NoRes, critical |-> FALSE,
     msg |-> CreateMessage(type, code, id, token)]

MCRequest(ep, type, code, id, token) ==
    [MCDatagram(ep, type, code, id, token) EXCEPT !.uri = CHOOSE r \in Res : TRUE]

MCEmpty(eps, types, ids) ==
    {MCDatagram(ep, type, "EMPTY", id, NoToken) : ep \in eps, type \in types, id \in ids}

\* Requests of both types, repeated and reset at will; one that is not allowed,
\* ones the prechecks answer, and multicast ones.
MCServerDatagrams ==
    LET get == {MCRequest(ep, type, "GET", 0, 0) : ep \in Eps, type \in {"CON", "NON"}} IN
    get \cup {MCRequest(e1, "CON", "PUT", 1, 1)}
        \cup {[d EXCEPT !.uri = NoRes] : d \in get}
        \cup {[d EXCEPT !.critical = TRUE] : d \in get}
        \cup {[d EXCEPT !.multicast = TRUE] : d \in get}
        \cup MCEmpty(Eps, {"CON", "NON", "ACK", "RST"}, {0, 1})

\* A request of each type and the ACK for its separate answer; the ACK, the
\* reset and the responses a request of ours may get: for the run that follows
\* every request to its end.
MCBothRoles ==
    {MCRequest(e1, type, "GET", 0, 0) : type \in {"CON", "NON"}}
        \cup {MCDatagram(e1, type, "2.05", 1, 1) : type \in {"ACK", "CON"}}
        \cup {MCDatagram(e1, "RST", "EMPTY", 1, NoToken)}
        \cup MCEmpty({e1}, {"ACK"}, {1, 2})

\* What a server may answer to requests under the IDs and tokens 0 and 1, and
\* what it may not.
MCClientDatagrams ==
    {MCDatagram(e1, type, "2.05", id, id) : type \in {"ACK", "CON", "NON"}, id \in {0, 1}}
        \cup {MCDatagram(e1, type, "2.05", 0, 1) : type \in {"ACK", "CON"}}
        \cup {MCDatagram(e1, "RST", "2.05", 1, 1)}
        \cup {[MCDatagram(e1, type, "2.05", 1, 1) EXCEPT !.critical = TRUE] : type \in {"CON", "NON"}}
        \cup MCEmpty({e1}, {"ACK", "RST"}, {0, 1})

\* Registrations and cancellations, each under one token per endpoint.
MCObserve(ep, id, token, value) ==
    [MCRequest(ep, "NON", "GET", id, token) EXCEPT !.msg.observe = value]
MCObserveDatagrams ==
    {MCObserve(e1, 0, 0, Register), MCObserve(e1, 0, 0, Deregister)}
        \cup MCEmpty({e1}, {"ACK", "RST"}, Mids)
MCTwoObservers ==
    {MCObserve(e1, 0, 0, Register), MCObserve(e1, 0, 0, Deregister),
     MCObserve(e2, 0, 0, Register)} \cup MCEmpty({e1}, {"RST"}, {1})

\* A server that acknowledges or resets the request ...
MCConfirm == MCEmpty({e1}, {"ACK", "RST"}, {1})

\* ... once it was sent to it.
WasSent(d) ==
    \E k \in DOMAIN queue : /\ queue[k].role = "CLIENT" /\ queue[k].state = "WAITING_RESPONSE"
                            /\ queue[k].ep = d.ep /\ queue[k].req.mid = d.msg.mid
ConfirmNext ==
    \/ \E d \in Datagrams : WasSent(d) /\ HandleIncomingPacket(d)
    \/ doWork
    \/ \E ep \in Eps, type \in RequestTypes : StartNewRequest(ep, type)
    \/ Tick
ConfirmSpec == Init /\ [][ConfirmNext]_vars

NoDatagrams == {}
=============================================================================
