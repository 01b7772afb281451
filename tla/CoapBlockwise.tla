--------------------------- MODULE CoapBlockwise ---------------------------
(***************************************************************************)
(* A body that one datagram cannot hold, fetched block by block (Block2,   *)
(* src/option-types/coap_option_blockwise.c).  The server parses each      *)
(* request from its datagram, lets the handler set the payload of the      *)
(* answer and packs that into a datagram.  The client is not in the        *)
(* repository: it asks for the blocks one after the other and keeps those  *)
(* that continue what it has.                                              *)
(***************************************************************************)
EXTENDS CoapWire

CONSTANTS
    MAX_PAYLOAD_SIZE,   \* a power of two from 32 to 1024
    BodySizes,          \* the sizes of the resource's content
    Setters,            \* how the handler sets it: "SetPayload", "CheckBlockOpt"
    FirstAsks,          \* the first block a client asks for, or NoBlock
    GivenOptions,       \* the options of a request besides Block2
    MaxOptions,         \* bound: how many of them
    Memory              \* whether an option of a request finds memory: TRUE, FALSE

Blk(num, size, more) == [num |-> num, size |-> size, more |-> more]
NoBlock == Blk(0, 0, FALSE)           \* a request without Block2

BlockSizes  == <<16, 32, 64, 128, 256, 512, 1024>>      \* SZX 0 to 6
BlockOption == [num : 0 .. 16 * Word - 1, size : Range(BlockSizes), more : BOOLEAN]

ASSUME MaxPayloadAssumption == MAX_PAYLOAD_SIZE \in {32, 64, 128, 256, 512, 1024}

\* payloadTotalSize is a uint16_t.
ASSUME BodyAssumption == BodySizes \subseteq 0 .. Word - 1

\* What a client can ask for: the number of a block has 20 bits.
ASSUME AsksAssumption == \A blk \in FirstAsks : blk \in {NoBlock} \cup {b \in BlockOption : ~b.more}

\* Block2 itself is added by Ask.
ASSUME OptionsAssumption ==
    \A opt \in GivenOptions :
        /\ opt \in Option /\ opt.Number # OPT_NUM_BLOCK2
        /\ Len(opt.Value) <= MAX_OPTION_VALUE_SIZE

ASSUME MemoryAssumption == Memory \subseteq BOOLEAN

VARIABLES
    body,       \* the content of the resource
    setter,     \* the function its handler calls
    stage,      \* of the transfer: "build", "asked", "answered", "done", "refused"
    given,      \* history: the options the client was told it added
    options,    \* the list it really has
    ask,        \* the block it asks for
    wire,       \* the datagram under way
    sent,       \* history: the message in that datagram
    from,       \* where in the body the transfer starts
    got         \* the bytes of the body it has

vars == <<body, setter, stage, given, options, ask, wire, sent, from, got>>

GET         == 1
CONTENT     == 69                     \* 2.05
BAD_OPTION  == 130                    \* 4.02
NOT_FOUND   == 132                    \* 4.04
ResourceUri == << Opt(OPT_NUM_URI_PATH, <<114>>) >>

-----------------------------------------------------------------------------
(* The Block2 option *)

Szx(size) == CHOOSE i \in 0 .. 6 : BlockSizes[i + 1] = size

AddBlkOptionToMsg(list, blk) ==
    LET value == 16 * blk.num + (IF blk.more THEN 8 ELSE 0) + Szx(blk.size)
        bytes == IF blk = Blk(0, 16, FALSE) THEN <<>>
                 ELSE IF blk.num < 16 THEN << value % 256 >>
                 ELSE IF blk.num < 4096 THEN << (value \div 256) % 256, value % 256 >>
                 ELSE << (value \div Word) % 256, (value \div 256) % 256, value % 256 >>
    IN  AppendOptionToList(list, Opt(OPT_NUM_BLOCK2, bytes), TRUE)

\* The number that at most three bytes stand for.
OptionValue(bytes) ==
    CASE Len(bytes) = 0 -> 0
      [] Len(bytes) = 1 -> bytes[1]
      [] Len(bytes) = 2 -> 256 * bytes[1] + bytes[2]
      [] OTHER          -> Word * bytes[1] + 256 * bytes[2] + bytes[3]

\* The first Block2 option.  A reserved size is an error to this function; its
\* callers treat every error as if there were no such option.
GetBlockOption(list) ==
    LET found == OptionsByNumber(list, OPT_NUM_BLOCK2)
        bytes == found[1].Value
        value == OptionValue(bytes)
    IN  IF \/ found = <<>>
           \/ Len(bytes) > 3
           \/ value % 8 = 7
        THEN NoBlock
        ELSE Blk(value \div 16, BlockSizes[(value % 8) + 1], (value \div 8) % 2 = 1)

-----------------------------------------------------------------------------
(* The payload of an answer *)

NotExisting == <<98, 108, 111>>       \* "block not existing", abbreviated

\* The only one the public header offers: whatever was asked for, block 0.
SetPayload(resp, content) ==
    IF Len(content) > MAX_PAYLOAD_SIZE
    THEN [resp EXCEPT !.options = AddBlkOptionToMsg(@, Blk(0, MAX_PAYLOAD_SIZE, TRUE)),
                      !.payload = SubSeq(content, 1, MAX_PAYLOAD_SIZE)]
    ELSE [resp EXCEPT !.payload = content]

\* Mutant: a block that ends where the body ends is said to have a successor.
MoreFollowsLate(left, size) == left >= size

MoreFollows(left, size) == left > size

\* Mutant: the block is looked up in blocks of the server's own size.
BlockOffsetOwn(blk) == MAX_PAYLOAD_SIZE * blk.num

BlockOffset(blk) == blk.size * blk.num

\* Mutant: the size the client asked for is ignored.
AgreedSizeOwn(blk) == MAX_PAYLOAD_SIZE

\* The client's wish, unless it is too big for us.
AgreedSize(blk) == IF blk.size > MAX_PAYLOAD_SIZE THEN MAX_PAYLOAD_SIZE ELSE blk.size

SetPayload_CheckBlockOpt(req, resp, content) ==
    LET asked == GetBlockOption(req.options)
        size  == AgreedSize(asked)
        start == BlockOffset([asked EXCEPT !.size = size])
        left  == Len(content) - start
        more  == MoreFollows(left, size)
    IN  IF content = <<>> THEN [resp EXCEPT !.payload = <<>>]
        ELSE IF asked = NoBlock THEN SetPayload(resp, content)
        ELSE IF left <= 0 THEN [resp EXCEPT !.code = BAD_OPTION, !.payload = NotExisting]
        ELSE [resp EXCEPT
                !.options = AddBlkOptionToMsg(RemoveAllOptions(@, OPT_NUM_BLOCK2),
                                              Blk(asked.num, size, more)),
                !.payload = SubSeq(content, start + 1, start + (IF more THEN size ELSE left))]

-----------------------------------------------------------------------------
(* A transfer *)

Request  == [type |-> CON, code |-> GET, mid |-> (Word - 256 + ask.num) % Word, token |-> <<7, 0>>,
             options |-> IF ask = NoBlock THEN options ELSE AddBlkOptionToMsg(options, ask),
             payload |-> <<>>]

Parsed == ParseMessageFromDatagram(wire, 0, MAX_PAYLOAD_SIZE)

Answer(req, code) ==
    [type |-> ACK, code |-> code, mid |-> req.mid, token |-> req.token,
     options |-> <<>>, payload |-> <<>>]

\* What the prechecks and the handler make of a request.
AnswerTo(req) ==
    IF ~UriOptionsAreEqual(req.options, ResourceUri) THEN Answer(req, NOT_FOUND)
    ELSE IF CheckForUnknownCriticalOption(req.options) # 0 THEN Answer(req, BAD_OPTION)
    ELSE IF setter = "SetPayload" THEN SetPayload(Answer(req, CONTENT), body)
    ELSE SetPayload_CheckBlockOpt(req, Answer(req, CONTENT), body)

Send(msg) == wire' = BuildDatagram(msg) /\ sent' = msg

Init ==
    /\ \E n \in BodySizes : body = [i \in 1 .. n |-> i % 256]
    /\ setter \in Setters
    /\ ask \in FirstAsks
    /\ from = ask.num * ask.size
    /\ stage = "build"
    /\ given = ResourceUri /\ options = ResourceUri
    /\ wire = <<>> /\ sent = <<>> /\ got = <<>>

\* An option is added to the request; the caller goes on without it if there is
\* no memory, as CoAP_AppendUriOptionsFromString does.
AddOption ==
    /\ stage = "build" /\ wire = <<>> /\ Len(given) < MaxOptions
    /\ \E opt \in GivenOptions, memory \in Memory :
        /\ options' = AppendOptionToList(options, opt, memory)
        /\ given' = IF memory THEN Append(given, opt) ELSE given
    /\ UNCHANGED <<body, setter, stage, ask, wire, sent, from, got>>

Ask ==
    /\ stage = "build"
    /\ Send(Request)
    /\ stage' = "asked"
    /\ UNCHANGED <<body, setter, given, options, ask, from, got>>

Serve ==
    /\ stage = "asked" /\ Parsed.res = "OK"
    /\ Send(AnswerTo(Parsed.msg))
    /\ stage' = "answered"
    /\ UNCHANGED <<body, setter, given, options, ask, from, got>>

\* The client keeps a block that continues what it has; anything else, and
\* every error, ends the transfer.
Receive ==
    /\ stage = "answered" /\ Parsed.res = "OK"
    /\ LET blk  == GetBlockOption(Parsed.msg.options)
           fits == /\ Parsed.msg.code = CONTENT
                   /\ blk.num * blk.size = from + Len(got)
       IN  /\ got' = IF fits THEN got \o Parsed.msg.payload ELSE got
           /\ stage' = IF ~fits THEN "refused" ELSE IF blk.more THEN "build" ELSE "done"
           /\ ask' = IF fits /\ blk.more THEN Blk(blk.num + 1, blk.size, FALSE) ELSE ask
    /\ UNCHANGED <<body, setter, given, options, wire, sent, from>>

Next == AddOption \/ Ask \/ Serve \/ Receive
Spec == Init /\ [][Next]_vars

-----------------------------------------------------------------------------
(* What a transfer promises *)

\* The receiver of a datagram reads what its sender wrote: every header field,
\* the payload, and of each option number the values that were added, in the
\* order in which they were added, however numbers and lengths are coded.
ReadsWhatWasWritten ==
    wire # <<>> =>
        /\ Parsed = [res |-> "OK", msg |-> sent]
        /\ stage = "asked" =>
            \A number \in {o.Number : o \in Range(given \o Parsed.msg.options)} \ {OPT_NUM_BLOCK2} :
                OptionsByNumber(Parsed.msg.options, number) = OptionsByNumber(given, number)

\* CoAP_SendMsg allocates exactly the bytes CoAP_BuildDatagram writes.
BufferHoldsDatagram == wire # <<>> => Len(wire) = GetRawSizeOfMessage(sent)

\* A datagram that arrives cut off behind its token is refused or read without
\* its last options: no option is invented, none gets another number or value,
\* whatever lies in memory behind the datagram.
CutDatagramInventsNothing ==
    wire # <<>> =>
        \A cut \in 4 + Len(sent.token) .. Len(wire) - 1, stray \in {0, 16, 255} :
            LET read == ParseMessageFromDatagram(SubSeq(wire, 1, cut), stray, MAX_PAYLOAD_SIZE)
            IN  read.res = "OK" => IsPrefix(read.msg.options, sent.options)

\* The blocks the client keeps are the body from where it began, byte for byte,
\* even where the server made the blocks smaller than the client wished.
BlocksFormTheBody == got = SubSeq(body, from + 1, from + Len(got))

\* A transfer is over when the end of the body was reached, never before; it is
\* refused only to a client that asks for what is not there, or that begins
\* behind block 0 with blocks bigger than the server's, which keeps the number
\* of a block when it makes the block smaller.
TransferReachesTheEnd ==
    /\ stage = "done" => from + Len(got) >= Len(body)
    /\ stage = "refused" =>
        \/ from >= Len(body)
        \/ ask.num > 0 /\ ask.size > MAX_PAYLOAD_SIZE
        \/ CheckForUnknownCriticalOption(options) # 0
        \/ ~UriOptionsAreEqual(options, ResourceUri)

\* CoAP_SetPayload "performs beside setting the payload also the blockwise
\* transfer logic": a request for a block of a size the server can send is
\* answered by that block.
RequestedBlockIsSent ==
    /\ stage = "answered" /\ sent.code = CONTENT /\ body # <<>>
    /\ ask # NoBlock /\ ask.size <= MAX_PAYLOAD_SIZE
    => LET blk == GetBlockOption(sent.options) IN blk.num = ask.num /\ blk.size = ask.size
=============================================================================
