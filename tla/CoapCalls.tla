------------------------------ MODULE CoapCalls ------------------------------
(***************************************************************************)
(* What two endpoints and the network between them amount to for the       *)
(* application that asks: a call returns only what the other side answered *)
(* to it, and may fail whether or not it was answered.  An answer may be   *)
(* made more than once, and after the call has failed.                     *)
(***************************************************************************)
EXTENDS Naturals

CONSTANT Calls

VARIABLES
    outcome,  \* of each call: "idle", "open", "response" or "failed"
    answered  \* the calls the other side has answered

vars == <<outcome, answered>>

Advance(n, before, after) ==
    /\ outcome[n] = before
    /\ outcome' = [outcome EXCEPT ![n] = after]
    /\ UNCHANGED answered

Call(n)   == Advance(n, "idle", "open")
Return(n) == n \in answered /\ Advance(n, "open", "response")
Fail(n)   == Advance(n, "open", "failed")

Answer(n) ==
    /\ outcome[n] # "idle"
    /\ answered' = answered \cup {n}
    /\ UNCHANGED outcome

Init == outcome = [n \in Calls |-> "idle"] /\ answered = {}

Next ==
    \/ UNCHANGED vars
    \/ \E n \in Calls : Call(n) \/ Answer(n) \/ Return(n) \/ Fail(n)

Spec == Init /\ [][Next]_vars
=============================================================================
