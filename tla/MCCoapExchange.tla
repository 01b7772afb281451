--------------------------- MODULE MCCoapExchange ---------------------------
(***************************************************************************)
(* A small instance of CoapExchange.                                       *)
(***************************************************************************)
EXTENDS CoapExchange

MCWaitTime == [n \in 0 .. MAX_RETRANSMIT |-> 1]

\* Nothing reads what was sent once it is on the wire.
ExchangeView == <<aQueue, aMid, aTok, aCalls, sQueue, sMid, wire, duplicates, answered>>
=============================================================================
