------------------------------ MODULE CoapWire ------------------------------
(***************************************************************************)
(* The datagrams of src/coap_message.c and the option lists of             *)
(* src/coap_options.c they carry, byte by byte: the only layer where the   *)
(* delta and length coding of an option, or the room a datagram needs, can *)
(* go wrong.  A value or a payload is a sequence of bytes.                 *)
(***************************************************************************)
EXTENDS Integers, SequencesExt

Byte == 0 .. 255
Word == 65536                         \* the arithmetic of uint16_t is modulo Word
MAX_OPTION_VALUE_SIZE == 1034
OPTION_PAYLOAD_MARKER == 255
COAP_VERSION == 1

OPT_NUM_URI_PATH == 11
OPT_NUM_BLOCK2   == 23
KNOWN_OPTIONS    == {OPT_NUM_URI_PATH, OPT_NUM_BLOCK2, 27, 4, 12, 15, 17}

Option == [Number : 0 .. Word - 1, Value : Seq(Byte)]
Opt(number, value) == [Number |-> number, Value |-> value]

EMPTY == 0

-----------------------------------------------------------------------------
(* The list of options: ascending numbers, equal numbers in the order in   *)
(* which they were added.                                                  *)

\* The list after an option is inserted before the first greater number.
\* Without memory nothing is inserted; in front of the list, the pointer to the
\* list is overwritten before the allocation is checked.
AppendOptionToList(list, opt, memory) ==
    LET later == SelectInSubSeq(list, 1, Len(list), LAMBDA o : o.Number > opt.Number) IN
    CASE memory /\ later = 0  -> Append(list, opt)
      [] memory /\ later > 0  -> InsertAt(list, later, opt)
      [] ~memory /\ later = 1 -> <<>>
      [] OTHER                -> list

\* The options whose number is one of "numbers", in order.
OptionsAmong(list, numbers) ==
    FlattenSeq([k \in DOMAIN list |->
        IF list[k].Number \in numbers THEN << list[k] >> ELSE <<>>])

OptionsByNumber(list, number) == OptionsAmong(list, {number})

\* Every option of that number leaves the list.
RemoveAllOptions(list, number) == OptionsAmong(list, Nat \ {number})

\* The number of the first option that is critical (odd) and unknown, or 0.
CheckForUnknownCriticalOption(list) ==
    LET rejected == SelectInSeq(list, LAMBDA o : o.Number \notin KNOWN_OPTIONS /\ o.Number % 2 = 1)
    IN  IF rejected = 0 THEN 0 ELSE list[rejected].Number

UriOptionsAreEqual(a, b) ==
    OptionsByNumber(a, OPT_NUM_URI_PATH) = OptionsByNumber(b, OPT_NUM_URI_PATH)

-----------------------------------------------------------------------------
(* Packing *)

\* Mutant: 269 is still put into one byte.
NibbleLate(n) == IF n < 13 THEN n ELSE IF n <= 269 THEN 13 ELSE 14

Nibble(n) == IF n < 13 THEN n ELSE IF n < 269 THEN 13 ELSE 14

\* The bytes that extend a nibble; uint8_t arithmetic where there is one.
Extended(n) ==
    CASE Nibble(n) = 13 -> << (n - 13) % 256 >>
      [] Nibble(n) = 14 -> << ((n - 269) \div 256) % 256, (n - 269) % 256 >>
      [] OTHER          -> <<>>

\* The distance to the previous number, in uint16_t.
Delta(list, k) == (list[k].Number - (IF k = 1 THEN 0 ELSE list[k - 1].Number)) % Word

PackOptionsFromList(list) ==
    FlattenSeq([k \in DOMAIN list |->
        LET value == list[k].Value IN
        << 16 * Nibble(Delta(list, k)) + Nibble(Len(value)) >>
            \o Extended(Delta(list, k)) \o Extended(Len(value)) \o value])

\* Mutant: the extension of a delta is forgotten in the room needed.
NeededMem4PackOptionsLess(list) ==
    LET Field(n) == IF n < 13 THEN 0 ELSE IF n < 269 THEN 1 ELSE 2
        Needed(k) == 1 + Field(Len(list[k].Value)) + Len(list[k].Value)
    IN  FoldLeftDomain(LAMBDA sum, k : sum + Needed(k), 0, list)

\* The room they are given, computed apart from the bytes themselves.
NeededMem4PackOptions(list) ==
    LET Field(n) == IF n < 13 THEN 0 ELSE IF n < 269 THEN 1 ELSE 2
        Needed(k) == 1 + Field(Delta(list, k)) + Field(Len(list[k].Value)) + Len(list[k].Value)
    IN  FoldLeftDomain(LAMBDA sum, k : sum + Needed(k), 0, list)

-----------------------------------------------------------------------------
(* Parsing.  "stray" stands for whatever is read behind the datagram: the  *)
(* extension bytes are fetched before the length is looked at.             *)

ParseState == [offset : Nat, last : 0 .. Word - 1, list : Seq(Option),
               payload : Seq(Byte), res : {"OK", "FORMAT_ERROR"}]

ParseError(s) == [s EXCEPT !.res = "FORMAT_ERROR", !.list = <<>>]

\* Mutant: the bytes left are counted in uint16_t.
TooShortUnsigned(raw, start, length) == (Len(raw) - start) % Word < length

\* The value does not fit into the bytes that are left, which may be less than 0.
TooShort(raw, start, length) == Len(raw) - start < length

\* The option at s.offset; the allocation of a parsed option always succeeds.
ParseOption(raw, stray, s) ==
    LET At(i) == IF i < Len(raw) THEN raw[i + 1] ELSE stray
        Field(nibble, i) ==
            CASE nibble = 13 -> [val |-> At(i) + 13, size |-> 1]
              [] nibble = 14 -> [val |-> (256 * At(i) + At(i + 1) + 269) % Word, size |-> 2]
              [] OTHER       -> [val |-> nibble, size |-> 0]
        delta  == Field(At(s.offset) \div 16, s.offset + 1)
        length == Field(At(s.offset) % 16, s.offset + 1 + delta.size)
        start  == s.offset + 1 + delta.size + length.size
        number == (delta.val + s.last) % Word
    IN  IF \/ At(s.offset) \div 16 = 15
           \/ At(s.offset) % 16 = 15
           \/ length.val > MAX_OPTION_VALUE_SIZE
           \/ TooShort(raw, start, length.val)
        THEN ParseError(s)
        ELSE [s EXCEPT !.offset = start + length.val,
                       !.last   = number,
                       !.list   = AppendOptionToList(@,
                           Opt(number, [i \in 1 .. length.val |-> At(start + i - 1)]), TRUE)]

ParseOptionsFromRaw(raw, stray) ==
    LET parse[s \in ParseState] ==
            IF s.res # "OK" \/ s.offset >= Len(raw) THEN s
            ELSE IF raw[s.offset + 1] # OPTION_PAYLOAD_MARKER THEN parse[ParseOption(raw, stray, s)]
            ELSE IF Len(raw) - s.offset < 2 THEN ParseError(s)
            ELSE [s EXCEPT !.payload = SubSeq(raw, s.offset + 2, Len(raw))]
    IN  parse[[offset |-> 0, last |-> 0, list |-> <<>>, payload |-> <<>>, res |-> "OK"]]

-----------------------------------------------------------------------------
(* Datagrams *)

CON == 0
ACK == 2

\* An EMPTY message is four bytes whatever it holds, were it not for options.
BuildDatagram(msg) ==
    LET token   == IF msg.code = EMPTY THEN <<>> ELSE msg.token
        payload == IF msg.code = EMPTY THEN <<>> ELSE msg.payload
    IN  << 64 * COAP_VERSION + 16 * msg.type + Len(token), msg.code,
           msg.mid \div 256, msg.mid % 256 >>
        \o token \o PackOptionsFromList(msg.options)
        \o IF payload = <<>> THEN <<>> ELSE << OPTION_PAYLOAD_MARKER >> \o payload

\* What CoAP_SendMsg allocates for it.
GetRawSizeOfMessage(msg) ==
    4 + NeededMem4PackOptions(msg.options)
      + IF msg.code = EMPTY THEN 0
        ELSE Len(msg.token) + IF msg.payload = <<>> THEN 0 ELSE Len(msg.payload) + 1

\* The message in a datagram, or the error it is dropped with.  A datagram that
\* ends within its token makes the number of bytes left wrap to 65 thousand: what
\* the code then makes of the memory behind it is not modelled ("OVERREAD").
ParseMessageFromDatagram(raw, stray, maxPayload) ==
    LET msg(token, options, payload) ==
            [type |-> (raw[1] \div 16) % 4, code |-> raw[2], mid |-> 256 * raw[3] + raw[4],
             token |-> token, options |-> options, payload |-> payload]
        tokenLength == raw[1] % 16
        body   == 4 + tokenLength
        parsed == ParseOptionsFromRaw(SubSeq(raw, body + 1, Len(raw)), stray)
        Failed(why) == [res |-> why, msg |-> <<>>]
        Ok(m) == [res |-> "OK", msg |-> m]
    IN  IF Len(raw) < 4 THEN Failed("TOO_SHORT")
        ELSE IF raw[1] \div 64 # COAP_VERSION THEN Failed("UNKNOWN_VERSION")
        ELSE IF tokenLength > 8 \/ raw[2] \div 32 \in {1, 6, 7} THEN Failed("FORMAT_ERROR")
        ELSE IF Len(raw) = 4 THEN Ok(msg(<<>>, <<>>, <<>>))
        ELSE IF Len(raw) < body THEN Failed("OVERREAD")
        ELSE IF parsed.res # "OK" THEN Failed(parsed.res)
        ELSE IF Len(parsed.payload) > maxPayload THEN Failed("TOO_MUCH_PAYLOAD")
        ELSE Ok(msg(SubSeq(raw, 5, body), parsed.list, parsed.payload))
=============================================================================
