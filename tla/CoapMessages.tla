---------------------------- MODULE CoapMessages ----------------------------
(***************************************************************************)
(* CoAP messages as coap_message.c builds and classifies them.  A message  *)
(* keeps what the interaction state machines tell apart: the type, the     *)
(* code, the message ID, the token, the Observe option and, for a          *)
(* representation of a resource, which version of it the payload shows.    *)
(* Options, payload bytes and their encoding are abstracted away.          *)
(***************************************************************************)
EXTENDS Integers, Sequences

CONSTANTS
    MidMod,     \* message IDs are 0..MidMod-1          (65536 in the code)
    TokMod,     \* generated tokens are 0..TokMod-1       (256 in the code)
    MaxVersion  \* bound on CoAP_Res_t.UpdateCnt, see NotifyResourceObservers

ASSUME MidModAssumption     == MidMod \in Nat \ {0}
ASSUME TokModAssumption     == TokMod \in Nat \ {0}
ASSUME MaxVersionAssumption == MaxVersion \in Nat

Types     == {"CON", "NON", "ACK", "RST"}
Requests  == {"GET", "POST", "PUT", "DELETE", "FETCH", "PATCH", "IPATCH"}
Responses == {"2.05", "4.02", "4.04", "4.05", "5.00", "5.03", "other"}
Codes     == {"EMPTY"} \cup Requests \cup Responses

Mids     == 0 .. MidMod - 1
Tokens   == 0 .. TokMod - 1
Versions == 0 .. MaxVersion

\* Value of the Observe option, -1 when the message has none.
NoObserve   == -1
Register    == 0
Deregister  == 1
ObserveVals == {NoObserve, Register, Deregister} \cup Versions

\* The zero-length token, the only one an EMPTY message has on the wire.
NoToken == -1

Message ==
    [type : Types, code : Codes, mid : Mids, token : Tokens \cup {NoToken},
     observe : ObserveVals, version : Versions]

\* A NULL CoAP_Message_t*: no field equals the field of a message.
NoMessage ==
    [type |-> "NULL", code |-> "NULL", mid |-> -1, token |-> -2,
     observe |-> NoObserve, version |-> 0]

MessageOrNull == Message \cup {NoMessage}

MsgIsRequest(m) == m.code \in Requests

CreateMessage(type, code, mid, token) ==
    [type |-> type, code |-> code, mid |-> mid, token |-> token,
     observe |-> NoObserve, version |-> 0]

\* What the wire shows of a message: CoAP_BuildDatagram drops the token of
\* an EMPTY message whatever the caller put into it.
SendShortResp(type, code, mid, token) ==
    CreateMessage(type, code, mid, IF code = "EMPTY" THEN NoToken ELSE token)

SendEmptyAck(mid) == SendShortResp("ACK", "EMPTY", mid, NoToken)
SendEmptyRST(mid) == SendShortResp("RST", "EMPTY", mid, NoToken)

\* MId++ and currToken++ on a uint16_t and a uint8_t.
NextMid(m)   == (m + 1) % MidMod
NextToken(t) == (t + 1) % TokMod

\* CoAP_AllocRespMsg: a piggybacked ACK under the request's ID for a CON
\* request, a NON under the next own message ID for a NON one.
AllocRespMsg(req, code, mid) ==
    IF req.type = "CON"
    THEN CreateMessage("ACK", code, req.mid, req.token)
    ELSE CreateMessage("NON", code, NextMid(mid), req.token)

MidAfterAllocResp(req, mid) == IF req.type = "CON" THEN mid ELSE NextMid(mid)
=============================================================================
