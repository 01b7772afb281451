---------------------------- MODULE CoapRequests ----------------------------
(***************************************************************************)
(* What the stack promises the application about its requests, without the *)
(* list, the messages and the timers: a request that was accepted is put   *)
(* on the wire, is answered afterwards and then reported, or it fails; an  *)
(* answer that has arrived is no longer given up.  CoapProperties maps the *)
(* stack to these stages.                                                  *)
(***************************************************************************)
EXTENDS Naturals

CONSTANT N      \* the requests are numbered 1..N in the order of the calls

VARIABLE stage  \* of each request

Stages ==
    {"idle",      \* not requested yet
     "accepted",  \* CoAP_StartNewRequest returned COAP_OK
     "asked",     \* the request was handed to the network
     "answered",  \* its response has arrived
     "response",  \* RespCB was called with the response
     "failed",    \* RespCB was called with NULL
     "dropped",   \* the first send failed: no callback
     "cleared",   \* CoAP_ClearPendingInteractions: no callback
     "lost"}      \* the device restarted

Pending == {n \in 1 .. N : stage[n] \in {"accepted", "asked", "answered"}}

Advance(n, before, after) ==
    /\ stage[n] = before
    /\ stage' = [stage EXCEPT ![n] = after]

Accept(n) ==
    /\ \A m \in 1 .. n - 1 : stage[m] # "idle"
    /\ Advance(n, "idle", "accepted")

Ask(n)    == Advance(n, "accepted", "asked")
Drop(n)   == Advance(n, "accepted", "dropped")
Answer(n) == Advance(n, "asked", "answered")
GiveUp(n) == Advance(n, "asked", "failed")
Report(n) == Advance(n, "answered", "response")

\* All that is pending ends at once, by order of the application or by a crash.
End(how) == stage' = [n \in 1 .. N |-> IF n \in Pending THEN how ELSE stage[n]]

Init == stage = [n \in 1 .. N |-> "idle"]

Next ==
    \/ UNCHANGED stage  \* something else goes on
    \/ \E n \in 1 .. N :
        Accept(n) \/ Ask(n) \/ Drop(n) \/ Answer(n) \/ GiveUp(n) \/ Report(n)
    \/ End("cleared")
    \/ End("lost")

Spec == Init /\ [][Next]_stage
=============================================================================
