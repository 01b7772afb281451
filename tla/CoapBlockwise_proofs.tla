------------------------ MODULE CoapBlockwise_proofs ------------------------
(***************************************************************************)
(* What a blockwise transfer promises, proved for every body, every first  *)
(* block a client may ask for, and every list of options.                  *)
(***************************************************************************)
EXTENDS CoapBlockwise, CoapWire_proofs

-----------------------------------------------------------------------------
(* The inductive invariant *)

NoBlock2(list) == \A k \in 1 .. Len(list) : list[k].Number # OPT_NUM_BLOCK2

Types ==
    /\ body \in Seq(Byte) /\ Len(body) < Word
    /\ setter \in Setters
    /\ stage \in {"build", "asked", "answered", "done", "refused"}
    /\ ask = NoBlock \/ ask \in BlockOption
    /\ from \in Nat /\ got \in Seq(Byte)

\* The list is sorted, and its values of a number are those the client was told
\* it added.
Lists ==
    /\ Sorted(options) /\ NoBlock2(options)
    /\ given \in Seq(Option)
    /\ Memory \subseteq {TRUE} =>
        \A number \in Nat : OptionsByNumber(options, number) = OptionsByNumber(given, number)

\* The datagram under way is the message last sent, and that message is the
\* question, or the answer to it.
Wires ==
    /\ wire # <<>> => sent \in Message(MAX_PAYLOAD_SIZE) /\ wire = BuildDatagram(sent)
    /\ stage \in {"asked", "answered"} => wire # <<>>
    /\ stage = "asked" => sent = Request
    /\ stage = "answered" => sent = AnswerTo(Request)

\* The client asks for the block that continues what it has.
Progress ==
    stage \in {"build", "asked", "answered"} =>
        /\ ask.num * ask.size = from + Len(got)
        /\ \/ got = <<>>
           \/ from + Len(got) < Len(body) /\ ask.size <= MAX_PAYLOAD_SIZE

IInv == Types /\ Lists /\ Wires /\ Progress /\ BlocksFormTheBody

-----------------------------------------------------------------------------
(* The Block2 option *)

\* The value of the option, and the bytes it is written in.
BlockValue(blk) == 16 * blk.num + (IF blk.more THEN 8 ELSE 0) + Szx(blk.size)

\* Large literals are kept out of the steps.
FitsTwo(n) == n < 4096

BlockBytes(blk) ==
    IF blk = Blk(0, 16, FALSE) THEN <<>>
    ELSE IF blk.num < 16 THEN << BlockValue(blk) % 256 >>
    ELSE IF FitsTwo(blk.num) THEN << (BlockValue(blk) \div 256) % 256, BlockValue(blk) % 256 >>
    ELSE << (BlockValue(blk) \div Word) % 256, (BlockValue(blk) \div 256) % 256, BlockValue(blk) % 256 >>

BlockIn(bytes) ==
    IF Len(bytes) > 3 \/ OptionValue(bytes) % 8 = 7 THEN NoBlock
    ELSE Blk(OptionValue(bytes) \div 16, BlockSizes[(OptionValue(bytes) % 8) + 1],
             (OptionValue(bytes) \div 8) % 2 = 1)

Sizes == {16, 32, 64, 128, 256, 512, 1024}

LEMMA SizesAre == Range(BlockSizes) = Sizes
<1>1. /\ DOMAIN BlockSizes = 1 .. 7
      /\ BlockSizes[1] = 16 /\ BlockSizes[2] = 32 /\ BlockSizes[3] = 64 /\ BlockSizes[4] = 128
      /\ BlockSizes[5] = 256 /\ BlockSizes[6] = 512 /\ BlockSizes[7] = 1024
  BY DEF BlockSizes
<1>2. 1 .. 7 = {1, 2, 3, 4, 5, 6, 7}
  OBVIOUS
<1> QED BY <1>1, <1>2 DEF Range, Sizes

LEMMA SzxIs ==
    ASSUME NEW size \in Sizes
    PROVE  Szx(size) \in 0 .. 6 /\ BlockSizes[Szx(size) + 1] = size
<1>1. /\ BlockSizes[0 + 1] = 16 /\ BlockSizes[1 + 1] = 32 /\ BlockSizes[2 + 1] = 64
      /\ BlockSizes[3 + 1] = 128 /\ BlockSizes[4 + 1] = 256 /\ BlockSizes[5 + 1] = 512
      /\ BlockSizes[6 + 1] = 1024
  BY DEF BlockSizes
<1>2. \E i \in 0 .. 6 : BlockSizes[i + 1] = size
  BY <1>1 DEF Sizes
<1> QED BY <1>2 DEF Szx

LEMMA BlockNumber == \A n \in 0 .. 16 * Word - 1 : n \in Nat /\ n < 16 * Word
<1>1. 16 * Word \in Nat
  BY WordType
<1> QED BY <1>1

LEMMA BlockType ==
    ASSUME NEW blk \in BlockOption
    PROVE  /\ blk.num \in 0 .. 16 * Word - 1 /\ blk.size \in Sizes /\ blk.more \in BOOLEAN
           /\ blk.size \in Nat /\ blk.size >= 16 /\ blk.size <= 1024
           /\ blk = Blk(blk.num, blk.size, blk.more)
           /\ blk # NoBlock
<1>1. blk \in [num : 0 .. 16 * Word - 1, size : Sizes, more : BOOLEAN]
  BY SizesAre DEF BlockOption
<1>2. blk.num \in 0 .. 16 * Word - 1 /\ blk.size \in Sizes /\ blk.more \in BOOLEAN
      /\ blk = Blk(blk.num, blk.size, blk.more)
  BY <1>1 DEF Blk
<1>3. blk.size \in Nat /\ blk.size >= 16 /\ blk.size <= 1024
  BY <1>2 DEF Sizes
<1>4. blk # NoBlock
  BY <1>3 DEF NoBlock, Blk
<1> QED BY <1>2, <1>3, <1>4

LEMMA IsBlock ==
    ASSUME NEW num \in 0 .. 16 * Word - 1, NEW size \in Sizes, NEW more \in BOOLEAN
    PROVE  /\ Blk(num, size, more) \in BlockOption
           /\ Blk(num, size, more).num = num
           /\ Blk(num, size, more).size = size
           /\ Blk(num, size, more).more = more
BY SizesAre DEF BlockOption, Blk

\* Three bytes hold the value: the numbers of a block have 20 bits.
LEMMA ValueBytes ==
    ASSUME NEW v \in Nat
    PROVE  /\ v % 256 \in Byte /\ (v \div 256) % 256 \in Byte /\ (v \div Word) % 256 \in Byte
           /\ v < 256 => v % 256 = v
           /\ v < Word => 256 * ((v \div 256) % 256) + (v % 256) = v
           /\ v < 256 * Word =>
                Word * ((v \div Word) % 256) + 256 * ((v \div 256) % 256) + (v % 256) = v
BY SMT DEF Byte, Word

PartsOf(v, n, z, m) ==
    /\ v \in Nat /\ v % 8 = z /\ v \div 16 = n
    /\ (v \div 8) % 2 = 1 <=> m = 8
    /\ n < 16 => v < 256
    /\ FitsTwo(n) => v < Word
    /\ n < 16 * Word => v < 256 * Word

LEMMA ValueParts ==
    ASSUME NEW n \in Nat, NEW z \in 0 .. 6, NEW m \in {0, 8}
    PROVE  PartsOf(16 * n + m + z, n, z, m)
BY SMT DEF Word, FitsTwo, PartsOf

LEMMA BlockBack ==
    ASSUME NEW blk \in BlockOption
    PROVE  /\ BlockBytes(blk) \in Seq(Byte) /\ Len(BlockBytes(blk)) <= 3
           /\ BlockIn(BlockBytes(blk)) = blk
<1> DEFINE v == BlockValue(blk)
           n == blk.num
           z == Szx(blk.size)
           m == IF blk.more THEN 8 ELSE 0
           b == BlockBytes(blk)
<1>1. /\ n \in 0 .. 16 * Word - 1 /\ blk.size \in Sizes /\ blk.more \in BOOLEAN
      /\ blk = Blk(n, blk.size, blk.more)
  BY BlockType
<1>2. z \in 0 .. 6 /\ BlockSizes[z + 1] = blk.size
  BY <1>1, SzxIs
<1>3. m \in {0, 8} /\ (m = 8 <=> blk.more)
  BY <1>1
<1>4. v = 16 * n + m + z
  BY DEF BlockValue
<1>5. n \in Nat /\ n < 16 * Word
  BY <1>1, BlockNumber
<1> HIDE DEF v, n, z, m
<1>6. /\ v \in Nat /\ v % 8 = z /\ v \div 16 = n
      /\ (v \div 8) % 2 = 1 <=> m = 8
      /\ n < 16 => v < 256
      /\ FitsTwo(n) => v < Word
      /\ n < 16 * Word => v < 256 * Word
  <2>1. PartsOf(16 * n + m + z, n, z, m)
    BY <1>2, <1>3, <1>5, ValueParts, Zenon
  <2> QED BY <1>4, <2>1, Zenon DEF PartsOf
<1>7. /\ v % 256 \in Byte /\ (v \div 256) % 256 \in Byte /\ (v \div Word) % 256 \in Byte
      /\ v < 256 => v % 256 = v
      /\ v < Word => 256 * ((v \div 256) % 256) + (v % 256) = v
      /\ v < 256 * Word =>
           Word * ((v \div Word) % 256) + 256 * ((v \div 256) % 256) + (v % 256) = v
  BY <1>6, ValueBytes
<1>8. b \in Seq(Byte) /\ Len(b) <= 3 /\ OptionValue(b) = v
  <2>1. CASE blk = Blk(0, 16, FALSE)
    <3>1. b = <<>>
      BY <2>1 DEF BlockBytes
    <3>2. n = 0 /\ blk.size = 16 /\ ~blk.more
      BY <2>1 DEF Blk, n
    <3>3. z = 0
      <4>1. BlockSizes[z + 1] = 16
        BY <1>2, <3>2
      <4>2. /\ BlockSizes[0 + 1] = 16 /\ BlockSizes[1 + 1] = 32 /\ BlockSizes[2 + 1] = 64
            /\ BlockSizes[3 + 1] = 128 /\ BlockSizes[4 + 1] = 256 /\ BlockSizes[5 + 1] = 512
            /\ BlockSizes[6 + 1] = 1024
        BY DEF BlockSizes
      <4> QED BY <4>1, <4>2, <1>2
    <3>4. v = 0
      BY <3>2, <3>3, <1>3, <1>4
    <3>5. OptionValue(<<>>) = 0
      BY DEF OptionValue
    <3> QED BY <3>1, <3>4, <3>5
  <2>2. CASE blk # Blk(0, 16, FALSE) /\ n < 16
    <3>1. b = << v % 256 >>
      BY <2>2 DEF BlockBytes, v, n
    <3>2. OptionValue(<< v % 256 >>) = v % 256
      <4>1. Len(<< v % 256 >>) = 1 /\ << v % 256 >>[1] = v % 256
        OBVIOUS
      <4> QED BY <4>1 DEF OptionValue
    <3>3. << v % 256 >> \in Seq(Byte) /\ Len(<< v % 256 >>) = 1
      BY <1>7
    <3> QED BY <3>1, <3>2, <3>3, <1>6, <1>7, <2>2
  <2>3. CASE blk # Blk(0, 16, FALSE) /\ ~(n < 16) /\ FitsTwo(n)
    <3> DEFINE x == (v \div 256) % 256
               y == v % 256
    <3>1. b = << x, y >>
      BY <2>3 DEF BlockBytes, v, n
    <3>2. x \in Byte /\ y \in Byte /\ 256 * x + y = v
      BY <1>6, <1>7, <2>3
    <3> HIDE DEF x, y
    <3>3. << x, y >> \in Seq(Byte) /\ Len(<< x, y >>) = 2 /\ << x, y >>[1] = x /\ << x, y >>[2] = y
      BY <3>2
    <3>4. OptionValue(<< x, y >>) = 256 * x + y
      BY <3>3 DEF OptionValue
    <3> QED BY <3>1, <3>2, <3>3, <3>4
  <2>4. CASE blk # Blk(0, 16, FALSE) /\ ~(n < 16) /\ ~FitsTwo(n)
    <3> DEFINE w == (v \div Word) % 256
               x == (v \div 256) % 256
               y == v % 256
    <3>1. b = << w, x, y >>
      BY <2>4 DEF BlockBytes, v, n
    <3>2. w \in Byte /\ x \in Byte /\ y \in Byte /\ Word * w + 256 * x + y = v
      BY <1>5, <1>6, <1>7, Zenon DEF w, x, y
    <3> HIDE DEF w, x, y
    <3>3. << w, x, y >> \in Seq(Byte) /\ Len(<< w, x, y >>) = 3
          /\ << w, x, y >>[1] = w /\ << w, x, y >>[2] = x /\ << w, x, y >>[3] = y
      BY <3>2
    <3>4. OptionValue(<< w, x, y >>) = Word * w + 256 * x + y
      BY <3>3 DEF OptionValue
    <3> QED BY <3>1, <3>2, <3>3, <3>4
  <2> HIDE DEF b
  <2> QED BY <2>1, <2>2, <2>3, <2>4, Zenon
<1>9. BlockIn(b) = Blk(v \div 16, BlockSizes[(v % 8) + 1], (v \div 8) % 2 = 1)
  <2>1. ~(Len(b) > 3) /\ ~(v % 8 = 7)
    <3>1. Len(b) \in Nat
      BY <1>8
    <3> HIDE DEF b
    <3> QED BY <1>2, <1>6, <1>8, <3>1
  <2> QED BY <1>8, <2>1, Zenon DEF BlockIn
<1>10. ((v \div 8) % 2 = 1) = blk.more
  BY <1>1, <1>3, <1>6
<1> QED BY <1>1, <1>2, <1>6, <1>8, <1>9, <1>10

LEMMA AddBlockIs ==
    ASSUME NEW list, NEW blk
    PROVE  AddBlkOptionToMsg(list, blk)
             = AppendOptionToList(list, Opt(OPT_NUM_BLOCK2, BlockBytes(blk)), TRUE)
BY SMT DEF AddBlkOptionToMsg, BlockBytes, BlockValue, FitsTwo

LEMMA GetBlockIs ==
    ASSUME NEW list
    PROVE  GetBlockOption(list) =
             IF OptionsByNumber(list, OPT_NUM_BLOCK2) = <<>> THEN NoBlock
             ELSE BlockIn(OptionsByNumber(list, OPT_NUM_BLOCK2)[1].Value)
<1> DEFINE found == OptionsByNumber(list, OPT_NUM_BLOCK2)
<1>1. CASE found = <<>>
  BY <1>1, Zenon DEF GetBlockOption
<1>2. CASE found # <<>>
  <2>1. GetBlockOption(list) = BlockIn(found[1].Value)
    BY <1>2, Zenon DEF GetBlockOption, BlockIn
  <2> QED BY <1>2, <2>1
<1> QED BY <1>1, <1>2

LEMMA NoBlockRead ==
    ASSUME NEW list \in Seq(Option), NoBlock2(list)
    PROVE  /\ GetBlockOption(list) = NoBlock
           /\ OptionsByNumber(list, OPT_NUM_BLOCK2) = <<>>
<1>1. \A k \in 1 .. Len(list) : list[k].Number \notin {OPT_NUM_BLOCK2}
  BY DEF NoBlock2
<1>2. OptionsByNumber(list, OPT_NUM_BLOCK2) = <<>>
  BY <1>1, AmongNone, Zenon DEF OptionsByNumber
<1> QED BY <1>2, GetBlockIs

LEMMA BlockIsOption ==
    ASSUME NEW blk \in BlockOption
    PROVE  /\ Opt(OPT_NUM_BLOCK2, BlockBytes(blk)) \in Option
           /\ Opt(OPT_NUM_BLOCK2, BlockBytes(blk)).Number = OPT_NUM_BLOCK2
           /\ Opt(OPT_NUM_BLOCK2, BlockBytes(blk)).Value = BlockBytes(blk)
           /\ Len(BlockBytes(blk)) <= MAX_OPTION_VALUE_SIZE
<1>1. OPT_NUM_BLOCK2 \in 0 .. Word - 1
  <2>1. 23 \in Nat /\ 23 < Word
    BY WordType
  <2> QED BY <2>1, WordType DEF OPT_NUM_BLOCK2
<1>2. BlockBytes(blk) \in Seq(Byte) /\ Len(BlockBytes(blk)) <= 3
  BY BlockBack
<1>3. Len(BlockBytes(blk)) <= MAX_OPTION_VALUE_SIZE
  BY <1>2 DEF MAX_OPTION_VALUE_SIZE
<1> QED BY <1>1, <1>2, <1>3, Zenon DEF Opt, Option

\* Every option of the new list but Block2 is one of the old.
AddsBlock2(list, new) ==
    \A k \in 1 .. Len(new) :
        new[k].Number = OPT_NUM_BLOCK2 \/ \E j \in 1 .. Len(list) : new[k] = list[j]

\* The list with a Block2 option: sorted, the other numbers as they were, and
\* Block2 reads as it was written.
LEMMA AddBlock ==
    ASSUME NEW list, Sorted(list), NEW blk \in BlockOption,
           NEW new, new = AddBlkOptionToMsg(list, blk)
    PROVE  /\ Sorted(new)
           /\ AddsBlock2(list, new)
           /\ \A number : number # OPT_NUM_BLOCK2 =>
                OptionsByNumber(new, number) = OptionsByNumber(list, number)
           /\ NoBlock2(list) => GetBlockOption(new) = blk
<1> DEFINE o == Opt(OPT_NUM_BLOCK2, BlockBytes(blk))
<1>1. o \in Option /\ o.Number = OPT_NUM_BLOCK2 /\ o.Value = BlockBytes(blk)
      /\ Len(o.Value) <= MAX_OPTION_VALUE_SIZE
  BY BlockIsOption
<1>2. new = AppendOptionToList(list, o, TRUE)
  BY AddBlockIs
<1> HIDE DEF o
<1>3. list \in Seq(Option) /\ Ascending(list)
      /\ \A k \in 1 .. Len(list) : Len(list[k].Value) <= MAX_OPTION_VALUE_SIZE
  BY DEF Sorted
<1>4. /\ new \in Seq(Option) /\ Ascending(new) /\ Len(new) = Len(list) + 1
      /\ \A k \in 1 .. Len(new) : new[k] = o \/ \E j \in 1 .. Len(list) : new[k] = list[j]
  <2>1. o \in Option /\ list \in Seq(Option) /\ Ascending(list)
    BY <1>1, <1>3
  <2>2. new \in Seq(Option) /\ Len(new) = Len(list) + 1
    BY <2>1, <1>2, AppendOptionType
  <2>3. Ascending(new)
    BY <2>1, <1>2, AppendOptionType
  <2>4. \A k \in 1 .. Len(new) : new[k] = o \/ \E j \in 1 .. Len(list) : new[k] = list[j]
    <3>1. Gains(list, o, new)
      BY <2>1, <1>2, AppendOptionType
    <3> QED BY <3>1 DEF Gains
  <2> QED BY <2>2, <2>3, <2>4
<1>5. Sorted(new)
  BY <1>1, <1>3, <1>4, Zenon DEF Sorted
<1>6. AddsBlock2(list, new)
  BY <1>1, <1>4, Zenon DEF AddsBlock2
<1>7. ASSUME NEW number
      PROVE  OptionsByNumber(new, number) = OptionsByNumber(list, number) \o Kept(o, {number})
  BY <1>1, <1>2, <1>3, AmongInserted, Zenon
<1>8. ASSUME NEW number, number # OPT_NUM_BLOCK2
      PROVE  OptionsByNumber(new, number) = OptionsByNumber(list, number)
  <2>1. Kept(o, {number}) = <<>>
    BY <1>1, <1>8 DEF Kept
  <2>2. OptionsByNumber(list, number) \in Seq(Option)
    BY <1>3, AmongType DEF OptionsByNumber
  <2>3. \A s \in Seq(Option) : s \o <<>> = s
    OBVIOUS
  <2> QED BY <1>7, <2>1, <2>2, <2>3, Zenon
<1>9. ASSUME NoBlock2(list) PROVE GetBlockOption(new) = blk
  <2>1. OptionsByNumber(list, OPT_NUM_BLOCK2) = <<>>
    BY <1>3, <1>9, NoBlockRead
  <2>2. Kept(o, {OPT_NUM_BLOCK2}) = << o >>
    BY <1>1 DEF Kept
  <2>3. OptionsByNumber(new, OPT_NUM_BLOCK2) = <<>> \o << o >>
    BY <1>7, <2>1, <2>2, Zenon
  <2>4. <<>> \o << o >> = << o >> /\ << o >> # <<>> /\ << o >>[1] = o
    BY <1>1
  <2>5. GetBlockOption(new) = BlockIn(o.Value)
    BY <2>3, <2>4, GetBlockIs, Zenon
  <2> QED BY <2>5, <1>1, BlockBack
<1> QED BY <1>5, <1>6, <1>8, <1>9, Zenon

\* An option is rejected when it is critical and unknown.
Critical(o) == o.Number \notin KNOWN_OPTIONS /\ o.Number % 2 = 1

LEMMA CriticalIs ==
    ASSUME NEW list \in Seq(Option)
    PROVE  CheckForUnknownCriticalOption(list) # 0 <=> \E k \in 1 .. Len(list) : Critical(list[k])
<1> DEFINE S == {k \in 1 .. Len(list) : Critical(list[k])}
           i == SelectInSeq(list, LAMBDA o : o.Number \notin KNOWN_OPTIONS /\ o.Number % 2 = 1)
<1>1. CheckForUnknownCriticalOption(list) = IF i = 0 THEN 0 ELSE list[i].Number
  BY DEF CheckForUnknownCriticalOption
<1>2. i = IF S = {} THEN 0 ELSE Min(S)
  BY Zenon DEF SelectInSeq, SelectInSubSeq, Critical
<1>3. CASE S = {}
  BY <1>1, <1>2, <1>3
<1>4. CASE S # {}
  <2>1. S \in SUBSET Nat
    OBVIOUS
  <2>2. Min(S) \in S
    BY <2>1, <1>4, MinIs
  <2>3. i \in 1 .. Len(list) /\ Critical(list[i])
    BY <1>2, <1>4, <2>2
  <2>4. i # 0
    BY <2>3
  <2>5. list[i].Number # 0
    <3>1. list[i].Number % 2 = 1
      BY <2>3 DEF Critical
    <3>2. 0 % 2 = 0
      OBVIOUS
    <3> HIDE DEF i
    <3> QED BY <3>1, <3>2
  <2> HIDE DEF i
  <2> QED BY <1>1, <1>4, <2>3, <2>4, <2>5
<1> QED BY <1>3, <1>4

-----------------------------------------------------------------------------
(* Questions and answers *)

LEMMA Codes ==
    /\ GET \in Byte /\ GET \div 32 \notin {1, 6, 7} /\ GET # EMPTY
    /\ CONTENT \in Byte /\ CONTENT \div 32 \notin {1, 6, 7} /\ CONTENT # EMPTY
    /\ BAD_OPTION \in Byte /\ BAD_OPTION \div 32 \notin {1, 6, 7} /\ BAD_OPTION # EMPTY
    /\ NOT_FOUND \in Byte /\ NOT_FOUND \div 32 \notin {1, 6, 7} /\ NOT_FOUND # EMPTY
    /\ BAD_OPTION # CONTENT /\ NOT_FOUND # CONTENT
BY SMT DEF GET, CONTENT, BAD_OPTION, NOT_FOUND, EMPTY, Byte

MaxIsSize == MAX_PAYLOAD_SIZE \in Sizes /\ MAX_PAYLOAD_SIZE \in Nat /\ MAX_PAYLOAD_SIZE >= 32

LEMMA MaxType == MaxIsSize
BY MaxPayloadAssumption DEF MaxIsSize, Sizes

LEMMA EmptyList == Sorted(<<>>) /\ NoBlock2(<<>>) /\ <<>> \in Seq(Option)
BY DEF Sorted, Ascending, NoBlock2

\* Every message of a transfer has this form.
Form(type, code, mid, list, payload) ==
    [type |-> type, code |-> code, mid |-> mid, token |-> <<7, 0>>, options |-> list,
     payload |-> payload]

LEMMA FormType ==
    ASSUME NEW type \in {CON, ACK}, NEW code \in Byte, code \div 32 \notin {1, 6, 7}, code # EMPTY,
           NEW mid \in 0 .. Word - 1, NEW list, Sorted(list),
           NEW payload \in Seq(Byte), Len(payload) <= MAX_PAYLOAD_SIZE
    PROVE  /\ Form(type, code, mid, list, payload) \in Message(MAX_PAYLOAD_SIZE)
           /\ Form(type, code, mid, list, payload).code = code
           /\ Form(type, code, mid, list, payload).mid = mid
           /\ Form(type, code, mid, list, payload).options = list
           /\ Form(type, code, mid, list, payload).payload = payload
<1> DEFINE m == Form(type, code, mid, list, payload)
           token == <<7, 0>>
<1>1. type \in 0 .. 3
  BY DEF CON, ACK
<1>2. token \in Seq(Byte) /\ Len(token) = 2
  BY DEF Byte
<1>3. list \in Seq(Option)
  BY DEF Sorted
<1>4. m = [type |-> type, code |-> code, mid |-> mid, token |-> token, options |-> list,
           payload |-> payload]
  BY DEF Form
<1> HIDE DEF m, token
<1>5. /\ m \in [type : 0 .. 3, code : Byte, mid : 0 .. Word - 1, token : Seq(Byte),
                options : Seq(Option), payload : Seq(Byte)]
      /\ m.code = code /\ m.options = list /\ m.payload = payload /\ m.token = token
      /\ m.mid = mid
  BY <1>1, <1>2, <1>3, <1>4
<1>6. Len(m.token) <= 8
  <2>1. Len(m.token) = 2
    BY <1>2, <1>5, Zenon
  <2> QED BY <2>1
<1>7. m \in Message(MAX_PAYLOAD_SIZE)
  BY <1>5, <1>6, Zenon DEF Message
<1> QED BY <1>5, <1>7 DEF m

LEMMA MidType == \A n \in Nat : (Word - 256 + n) % Word \in 0 .. Word - 1
<1> TAKE n \in Nat
<1>1. Word - 256 + n \in Int
  BY WordType
<1>2. (Word - 256 + n) % Word \in Nat /\ (Word - 256 + n) % Word < Word
  BY <1>1, WordType, Zenon
<1> QED BY <1>2, WordType, Zenon

LEMMA AskType ==
    ASSUME Types
    PROVE  ask.num \in Nat /\ ask.size \in Nat /\ (ask # NoBlock => ask \in BlockOption)
<1>1. CASE ask = NoBlock
  BY <1>1 DEF NoBlock, Blk
<1>2. CASE ask \in BlockOption
  BY <1>2, BlockType, BlockNumber
<1> QED BY <1>1, <1>2 DEF Types

\* A question: the list of the client with its Block2 option.
LEMMA RequestIs ==
    ASSUME Types, Lists
    PROVE  /\ Request \in Message(MAX_PAYLOAD_SIZE)
           /\ Request.mid \in 0 .. Word - 1 /\ Request.token = <<7, 0>>
           /\ GetBlockOption(Request.options) = ask
           /\ \A number : number # OPT_NUM_BLOCK2 =>
                OptionsByNumber(Request.options, number) = OptionsByNumber(options, number)
           /\ CheckForUnknownCriticalOption(Request.options) # 0 =>
                CheckForUnknownCriticalOption(options) # 0
<1> DEFINE list == Request.options
           mid == (Word - 256 + ask.num) % Word
<1>1. Sorted(options) /\ NoBlock2(options) /\ options \in Seq(Option)
  BY DEF Lists, Sorted
<1>2. list = IF ask = NoBlock THEN options ELSE AddBlkOptionToMsg(options, ask)
  BY DEF Request
<1>3. Request = Form(CON, GET, mid, list, <<>>)
  BY DEF Request, Form
<1>4. mid \in 0 .. Word - 1
  BY AskType, MidType
<1>5. Request.mid = mid /\ Request.token = <<7, 0>>
  BY DEF Request
<1> HIDE DEF list, mid
<1>6. /\ Sorted(list)
      /\ GetBlockOption(list) = ask
      /\ \A number : number # OPT_NUM_BLOCK2 =>
           OptionsByNumber(list, number) = OptionsByNumber(options, number)
      /\ AddsBlock2(options, list)
  <2>1. CASE ask = NoBlock
    <3>1. AddsBlock2(options, options)
      BY DEF AddsBlock2
    <3> QED BY <2>1, <3>1, <1>1, <1>2, NoBlockRead
  <2>2. CASE ask # NoBlock
    <3>1. ask \in BlockOption /\ list = AddBlkOptionToMsg(options, ask)
      BY <2>2, <1>2, AskType
    <3> QED BY <1>1, <3>1, AddBlock, Zenon
  <2> QED BY <2>1, <2>2
<1>7. Request \in Message(MAX_PAYLOAD_SIZE)
  <2>1. CON \in {CON, ACK} /\ <<>> \in Seq(Byte) /\ Len(<<>>) <= MAX_PAYLOAD_SIZE
    BY MaxType DEF MaxIsSize
  <2> QED BY <1>3, <1>4, <1>6, <2>1, Codes, FormType, Zenon
<1>8. ASSUME CheckForUnknownCriticalOption(list) # 0
      PROVE  CheckForUnknownCriticalOption(options) # 0
  <2>0. list \in Seq(Option)
    BY <1>6 DEF Sorted
  <2>1. PICK k \in 1 .. Len(list) : Critical(list[k])
    BY <1>8, <2>0, CriticalIs
  <2>2. list[k].Number # OPT_NUM_BLOCK2
    <3>1. OPT_NUM_BLOCK2 \in KNOWN_OPTIONS
      BY DEF KNOWN_OPTIONS
    <3> QED BY <2>1, <3>1 DEF Critical
  <2>3. PICK j \in 1 .. Len(options) : list[k] = options[j]
    BY <2>2, <1>6, Zenon DEF AddsBlock2
  <2>4. \E i \in 1 .. Len(options) : Critical(options[i])
    BY <2>1, <2>3, Zenon
  <2> QED BY <2>4, <1>1, CriticalIs
<1> QED BY <1>4, <1>5, <1>6, <1>7, <1>8 DEF list

\* What an answer is made of.
Reply(req, code, list, payload) ==
    [type |-> ACK, code |-> code, mid |-> req.mid, token |-> req.token, options |-> list,
     payload |-> payload]

\* What the handler's functions make of the bare reply r.
Edits(r, req, code) ==
    \A newCode, list, payload :
        /\ [r EXCEPT !.payload = payload] = Reply(req, code, <<>>, payload)
        /\ [r EXCEPT !.code = newCode, !.payload = payload]
             = Reply(req, newCode, <<>>, payload)
        /\ [r EXCEPT !.options = list, !.payload = payload]
             = Reply(req, code, list, payload)

LEMMA ReplyExcept ==
    ASSUME NEW req, NEW code, NEW r, r = Reply(req, code, <<>>, <<>>)
    PROVE  Edits(r, req, code)
<1> SUFFICES ASSUME NEW newCode, NEW list, NEW payload
             PROVE  /\ [r EXCEPT !.payload = payload] = Reply(req, code, <<>>, payload)
                    /\ [r EXCEPT !.code = newCode, !.payload = payload]
                         = Reply(req, newCode, <<>>, payload)
                    /\ [r EXCEPT !.options = list, !.payload = payload]
                         = Reply(req, code, list, payload)
  BY Zenon DEF Edits
<1> DEFINE S(c, l, p) == [type : {ACK}, code : {c}, mid : {req.mid}, token : {req.token},
                          options : {l}, payload : {p}]
<1>1. \A c, l, p : \A m \in S(c, l, p) : m = Reply(req, c, l, p)
  BY DEF Reply
<1>2. r \in S(code, <<>>, <<>>)
  BY DEF Reply
<1>3. [r EXCEPT !.payload = payload] \in S(code, <<>>, payload)
  BY <1>2
<1>4. [r EXCEPT !.code = newCode, !.payload = payload] \in S(newCode, <<>>, payload)
  BY <1>2
<1>5. [r EXCEPT !.options = list, !.payload = payload] \in S(code, list, payload)
  BY <1>2
<1> HIDE DEF S
<1> QED BY <1>1, <1>3, <1>4, <1>5, Zenon

LEMMA SetPayloadIs ==
    ASSUME NEW req, NEW content
    PROVE  SetPayload(Answer(req, CONTENT), content) =
             IF Len(content) > MAX_PAYLOAD_SIZE
             THEN Reply(req, CONTENT, AddBlkOptionToMsg(<<>>, Blk(0, MAX_PAYLOAD_SIZE, TRUE)),
                        SubSeq(content, 1, MAX_PAYLOAD_SIZE))
             ELSE Reply(req, CONTENT, <<>>, content)
<1> DEFINE r == Answer(req, CONTENT)
<1>1. r = Reply(req, CONTENT, <<>>, <<>>)
  BY DEF Answer, Reply
<1>2. r.options = <<>>
  BY DEF Answer
<1> HIDE DEF r
<1>3. \A list, payload :
        /\ [r EXCEPT !.payload = payload] = Reply(req, CONTENT, <<>>, payload)
        /\ [r EXCEPT !.options = list, !.payload = payload] = Reply(req, CONTENT, list, payload)
  <2>1. Edits(r, req, CONTENT)
    BY <1>1, ReplyExcept, Zenon
  <2> QED BY <2>1, Zenon DEF Edits
<1> QED BY <1>2, <1>3, Zenon DEF SetPayload, r

LEMMA AgreedType ==
    ASSUME NEW blk \in BlockOption
    PROVE  /\ AgreedSize(blk) \in Sizes /\ AgreedSize(blk) \in Nat
           /\ AgreedSize(blk) >= 16 /\ AgreedSize(blk) <= MAX_PAYLOAD_SIZE
           /\ AgreedSize(blk) <= blk.size
           /\ blk.size <= MAX_PAYLOAD_SIZE => AgreedSize(blk) = blk.size
<1>1. blk.size \in Sizes /\ blk.size \in Nat /\ blk.size >= 16
  BY BlockType
<1>2. MAX_PAYLOAD_SIZE \in Sizes /\ MAX_PAYLOAD_SIZE \in Nat /\ MAX_PAYLOAD_SIZE >= 32
  BY MaxType DEF MaxIsSize
<1>3. CASE blk.size > MAX_PAYLOAD_SIZE
  <2>1. AgreedSize(blk) = MAX_PAYLOAD_SIZE
    BY <1>3 DEF AgreedSize
  <2> QED BY <1>1, <1>2, <1>3, <2>1
<1>4. CASE ~(blk.size > MAX_PAYLOAD_SIZE)
  <2>1. AgreedSize(blk) = blk.size
    BY <1>4 DEF AgreedSize
  <2> QED BY <1>1, <1>2, <1>4, <2>1
<1> QED BY <1>3, <1>4

\* The block asked for, or the refusal of one behind the end.
BlockReply(req, content, blk, size) ==
    LET start == size * blk.num
        left  == Len(content) - start
    IN  IF left <= 0 THEN Reply(req, BAD_OPTION, <<>>, NotExisting)
        ELSE Reply(req, CONTENT, AddBlkOptionToMsg(<<>>, Blk(blk.num, size, left > size)),
                   SubSeq(content, start + 1, start + (IF left > size THEN size ELSE left)))

LEMMA CheckBlockIs ==
    ASSUME NEW req, NEW content, NEW blk, blk = GetBlockOption(req.options),
           blk = NoBlock \/ blk \in BlockOption
    PROVE  SetPayload_CheckBlockOpt(req, Answer(req, CONTENT), content) =
             IF content = <<>> THEN Reply(req, CONTENT, <<>>, <<>>)
             ELSE IF blk = NoBlock THEN SetPayload(Answer(req, CONTENT), content)
             ELSE BlockReply(req, content, blk, AgreedSize(blk))
<1> DEFINE size  == AgreedSize(blk)
           start == BlockOffset([blk EXCEPT !.size = size])
           left  == Len(content) - start
           more  == MoreFollows(left, size)
           resp  == Answer(req, CONTENT)
<1>1. SetPayload_CheckBlockOpt(req, resp, content) =
        IF content = <<>> THEN [resp EXCEPT !.payload = <<>>]
        ELSE IF blk = NoBlock THEN SetPayload(resp, content)
        ELSE IF left <= 0 THEN [resp EXCEPT !.code = BAD_OPTION, !.payload = NotExisting]
        ELSE [resp EXCEPT
                !.options = AddBlkOptionToMsg(RemoveAllOptions(@, OPT_NUM_BLOCK2),
                                              Blk(blk.num, size, more)),
                !.payload = SubSeq(content, start + 1, start + (IF more THEN size ELSE left))]
  BY Zenon DEF SetPayload_CheckBlockOpt
<1>2. resp = Reply(req, CONTENT, <<>>, <<>>) /\ resp.options = <<>>
  BY DEF Answer, Reply
<1> HIDE DEF resp
<1>0. Edits(resp, req, CONTENT)
  BY <1>2, ReplyExcept, Zenon
<1>3. [resp EXCEPT !.payload = <<>>] = Reply(req, CONTENT, <<>>, <<>>)
  BY <1>0, Zenon DEF Edits
<1>4. [resp EXCEPT !.code = BAD_OPTION, !.payload = NotExisting]
        = Reply(req, BAD_OPTION, <<>>, NotExisting)
  BY <1>0, Zenon DEF Edits
<1>5. \A list, payload : [resp EXCEPT !.options = list, !.payload = payload]
                           = Reply(req, CONTENT, list, payload)
  BY <1>0, Zenon DEF Edits
<1>6. RemoveAllOptions(<<>>, OPT_NUM_BLOCK2) = <<>>
  BY AmongNil DEF RemoveAllOptions
<1>7. ASSUME blk # NoBlock PROVE start = size * blk.num
  <2>1. blk \in [num : 0 .. 16 * Word - 1, size : Sizes, more : BOOLEAN]
    BY <1>7, SizesAre DEF BlockOption
  <2>2. [blk EXCEPT !.size = size].size = size /\ [blk EXCEPT !.size = size].num = blk.num
    BY <2>1
  <2> QED BY <2>2, Zenon DEF BlockOffset
<1>8. more = (left > size)
  BY DEF MoreFollows
<1> HIDE DEF size, start, more
<1>9. CASE content = <<>>
  BY <1>1, <1>3, <1>9, Zenon DEF resp
<1>10. CASE content # <<>> /\ blk = NoBlock
  BY <1>1, <1>10, Zenon DEF resp
<1>11. CASE content # <<>> /\ blk # NoBlock
  <2>1. BlockReply(req, content, blk, size) =
          IF left <= 0 THEN Reply(req, BAD_OPTION, <<>>, NotExisting)
          ELSE Reply(req, CONTENT, AddBlkOptionToMsg(<<>>, Blk(blk.num, size, more)),
                     SubSeq(content, start + 1, start + (IF more THEN size ELSE left)))
    BY <1>7, <1>8, <1>11, Zenon DEF BlockReply
  <2>2. SetPayload_CheckBlockOpt(req, resp, content) = BlockReply(req, content, blk, size)
    <3> HIDE DEF left
    <3>1. CASE left <= 0
      BY <1>1, <1>4, <1>11, <2>1, <3>1, Zenon
    <3>2. CASE ~(left <= 0)
      <4>1. SetPayload_CheckBlockOpt(req, resp, content) =
              [resp EXCEPT
                !.options = AddBlkOptionToMsg(<<>>, Blk(blk.num, size, more)),
                !.payload = SubSeq(content, start + 1, start + (IF more THEN size ELSE left))]
        BY <1>1, <1>2, <1>6, <1>11, <3>2, Zenon
      <4> QED BY <4>1, <1>5, <2>1, <3>2, Zenon
    <3> QED BY <3>1, <3>2
  <2> QED BY <1>11, <2>2, Zenon DEF resp, size
<1> QED BY <1>9, <1>10, <1>11, Zenon

\* The kinds of answers.
WholeBody(a) ==
    a.code = CONTENT /\ GetBlockOption(a.options) = NoBlock /\ a.payload = body

IsBlockOf(a, blk) ==
    /\ a.code = CONTENT /\ GetBlockOption(a.options) = blk
    /\ blk \in BlockOption /\ blk.size <= MAX_PAYLOAD_SIZE
    /\ blk.num * blk.size < Len(body)
    /\ blk.more <=> (Len(body) > blk.num * blk.size + blk.size)
    /\ a.payload = SubSeq(body, blk.num * blk.size + 1,
                          IF blk.more THEN blk.num * blk.size + blk.size ELSE Len(body))

OneBlock(a) == \E blk : IsBlockOf(a, blk)

LEMMA WholeBodyType ==
    ASSUME Types, NEW req, req.mid \in 0 .. Word - 1, req.token = <<7, 0>>,
           Len(body) <= MAX_PAYLOAD_SIZE
    PROVE  /\ Reply(req, CONTENT, <<>>, body) \in Message(MAX_PAYLOAD_SIZE)
           /\ WholeBody(Reply(req, CONTENT, <<>>, body))
<1>1. Reply(req, CONTENT, <<>>, body) = Form(ACK, CONTENT, req.mid, <<>>, body)
  BY DEF Reply, Form
<1>2. body \in Seq(Byte) /\ ACK \in {CON, ACK}
  BY DEF Types
<1>3. GetBlockOption(<<>>) = NoBlock
  BY EmptyList, NoBlockRead
<1>4. /\ Form(ACK, CONTENT, req.mid, <<>>, body) \in Message(MAX_PAYLOAD_SIZE)
      /\ Form(ACK, CONTENT, req.mid, <<>>, body).code = CONTENT
      /\ Form(ACK, CONTENT, req.mid, <<>>, body).options = <<>>
      /\ Form(ACK, CONTENT, req.mid, <<>>, body).payload = body
  BY <1>2, Codes, EmptyList, FormType
<1> QED BY <1>1, <1>3, <1>4 DEF WholeBody

\* Part of the body, from index i up to index j.
LEMMA PartType ==
    ASSUME Types, NEW i \in Nat, NEW j \in Nat, i <= j, j <= Len(body)
    PROVE  SubSeq(body, i + 1, j) \in Seq(Byte) /\ Len(SubSeq(body, i + 1, j)) = j - i
<1>1. body \in Seq(Byte) /\ Len(body) \in Nat
  BY DEF Types
<1> QED BY <1>1

LEMMA OneBlockType ==
    ASSUME Types, NEW req, req.mid \in 0 .. Word - 1, req.token = <<7, 0>>,
           NEW blk \in BlockOption, blk.size <= MAX_PAYLOAD_SIZE,
           NEW start \in Nat, start = blk.num * blk.size, start < Len(body),
           blk.more <=> (Len(body) > start + blk.size),
           NEW end, end = IF blk.more THEN start + blk.size ELSE Len(body),
           NEW a, a = Reply(req, CONTENT, AddBlkOptionToMsg(<<>>, blk),
                            SubSeq(body, start + 1, end))
    PROVE  a \in Message(MAX_PAYLOAD_SIZE) /\ IsBlockOf(a, blk)
<1> DEFINE list == AddBlkOptionToMsg(<<>>, blk)
           part == SubSeq(body, start + 1, end)
           size == blk.size
<1>1. body \in Seq(Byte) /\ Len(body) \in Nat
  BY DEF Types
<1>2. size \in Nat /\ size >= 16 /\ blk.more \in BOOLEAN
  BY BlockType
<1>3. MAX_PAYLOAD_SIZE \in Nat
  BY MaxType DEF MaxIsSize
<1>4. end \in Nat /\ start <= end /\ end <= Len(body) /\ end - start <= size
  <2>1. CASE blk.more
    <3>1. end = start + size /\ Len(body) > start + size
      BY <2>1, Zenon
    <3> HIDE DEF size
    <3> QED BY <1>1, <1>2, <3>1
  <2>2. CASE ~blk.more
    <3>1. end = Len(body) /\ ~(Len(body) > start + size)
      BY <2>2, Zenon
    <3> HIDE DEF size
    <3> QED BY <1>1, <1>2, <3>1
  <2> QED BY <2>1, <2>2
<1>5. part \in Seq(Byte) /\ Len(part) = end - start
  BY <1>4, PartType
<1>6. Len(part) <= MAX_PAYLOAD_SIZE
  BY <1>2, <1>3, <1>4, <1>5, SMTT(90)
<1>7. Sorted(list) /\ GetBlockOption(list) = blk
  BY EmptyList, AddBlock
<1> HIDE DEF list, part
<1>8. a = Form(ACK, CONTENT, req.mid, list, part)
  BY DEF Reply, Form, list, part
<1>9. ACK \in {CON, ACK}
  OBVIOUS
<1>10. /\ Form(ACK, CONTENT, req.mid, list, part) \in Message(MAX_PAYLOAD_SIZE)
       /\ Form(ACK, CONTENT, req.mid, list, part).code = CONTENT
       /\ Form(ACK, CONTENT, req.mid, list, part).options = list
       /\ Form(ACK, CONTENT, req.mid, list, part).payload = part
  BY <1>5, <1>6, <1>7, <1>9, Codes, FormType
<1>11. IsBlockOf(a, blk)
  <2>1. a.code = CONTENT /\ GetBlockOption(a.options) = blk /\ a.payload = part
    BY <1>7, <1>8, <1>10, Zenon
  <2> QED BY <2>1, Zenon DEF IsBlockOf, part
<1> QED BY <1>8, <1>10, <1>11

\* An answer without options and without the body.
LEMMA BareType ==
    ASSUME NEW req, req.mid \in 0 .. Word - 1, req.token = <<7, 0>>,
           NEW code \in {BAD_OPTION, NOT_FOUND}, NEW payload \in {<<>>, NotExisting}
    PROVE  /\ Reply(req, code, <<>>, payload) \in Message(MAX_PAYLOAD_SIZE)
           /\ Reply(req, code, <<>>, payload).code # CONTENT
<1>1. Reply(req, code, <<>>, payload) = Form(ACK, code, req.mid, <<>>, payload)
  BY DEF Reply, Form
<1>2. NotExisting \in Seq(Byte) /\ Len(NotExisting) = 3
  BY DEF NotExisting, Byte
<1>3. payload \in Seq(Byte) /\ Len(payload) <= MAX_PAYLOAD_SIZE
  <2>1. MAX_PAYLOAD_SIZE \in Nat /\ MAX_PAYLOAD_SIZE >= 32
    BY MaxType DEF MaxIsSize
  <2>2. CASE payload = <<>>
    BY <2>1, <2>2
  <2>3. CASE payload = NotExisting
    <3>1. Len(payload) = 3 /\ payload \in Seq(Byte)
      BY <1>2, <2>3, Zenon
    <3> QED BY <2>1, <3>1
  <2> QED BY <2>2, <2>3
<1>4. code \in Byte /\ code \div 32 \notin {1, 6, 7} /\ code # EMPTY /\ code # CONTENT
  <2>1. CASE code = BAD_OPTION
    BY <2>1, Codes, Zenon
  <2>2. CASE code = NOT_FOUND
    BY <2>2, Codes, Zenon
  <2> QED BY <2>1, <2>2
<1>5. ACK \in {CON, ACK}
  OBVIOUS
<1>6. Sorted(<<>>)
  BY EmptyList
<1>7. /\ Form(ACK, code, req.mid, <<>>, payload) \in Message(MAX_PAYLOAD_SIZE)
      /\ Form(ACK, code, req.mid, <<>>, payload).code = code
  BY <1>3, <1>4, <1>5, <1>6, FormType
<1> QED BY <1>1, <1>4, <1>7, Zenon

FirstBlock == Blk(0, MAX_PAYLOAD_SIZE, TRUE)

\* CoAP_SetPayload answers with the whole body, or with block 0 of it.
LEMMA PayloadAnswer ==
    ASSUME Types, NEW req, req.mid \in 0 .. Word - 1, req.token = <<7, 0>>,
           NEW a, a = SetPayload(Answer(req, CONTENT), body)
    PROVE  /\ a \in Message(MAX_PAYLOAD_SIZE)
           /\ WholeBody(a) \/ IsBlockOf(a, FirstBlock)
           /\ FirstBlock.num = 0
<1> DEFINE max == MAX_PAYLOAD_SIZE
<1>1. max \in Sizes /\ max \in Nat /\ max >= 32
  BY MaxType DEF MaxIsSize
<1>2. body \in Seq(Byte) /\ Len(body) \in Nat
  BY DEF Types
<1>3. /\ FirstBlock \in BlockOption /\ FirstBlock.num = 0
      /\ FirstBlock.size = max /\ FirstBlock.more = TRUE
  <2>1. 0 \in 0 .. 16 * Word - 1
    <3>1. 16 * Word \in Nat /\ 16 * Word >= 1
      BY WordType
    <3> QED BY <3>1
  <2> QED BY <1>1, <2>1, IsBlock, Zenon DEF FirstBlock
<1>4. CASE Len(body) > max
  <2>1. a = Reply(req, CONTENT, AddBlkOptionToMsg(<<>>, FirstBlock), SubSeq(body, 1, max))
    BY <1>4, SetPayloadIs, Zenon DEF FirstBlock
  <2> DEFINE start == 0
  <2>2. start \in Nat /\ start = FirstBlock.num * FirstBlock.size /\ start < Len(body)
    BY <1>1, <1>2, <1>3, <1>4
  <2>3. FirstBlock.more <=> (Len(body) > start + FirstBlock.size)
    <3>1. start + FirstBlock.size = max
      BY <1>1, <1>3
    <3> QED BY <1>3, <1>4, <3>1, Zenon
  <2>4. max = IF FirstBlock.more THEN start + FirstBlock.size ELSE Len(body)
    <3>1. start + FirstBlock.size = max
      BY <1>1, <1>3
    <3> QED BY <1>3, <3>1, Zenon
  <2>5. start + 1 = 1 /\ FirstBlock.size <= MAX_PAYLOAD_SIZE
    BY <1>1, <1>3
  <2> HIDE DEF start, max
  <2>6. a \in Message(MAX_PAYLOAD_SIZE) /\ IsBlockOf(a, FirstBlock)
    BY <1>3, <2>1, <2>2, <2>3, <2>4, <2>5, OneBlockType, Zenon
  <2> QED BY <1>3, <2>6
<1>5. CASE ~(Len(body) > max)
  <2>1. a = Reply(req, CONTENT, <<>>, body)
    BY <1>5, SetPayloadIs, Zenon
  <2>2. Len(body) <= MAX_PAYLOAD_SIZE
    BY <1>1, <1>2, <1>5
  <2> QED BY <1>3, <2>1, <2>2, WholeBodyType, Zenon
<1> QED BY <1>4, <1>5

\* The block with that number and size is sent.
SendsBlock(a, num, size) == \E b : IsBlockOf(a, b) /\ b.num = num /\ b.size = size

\* CoAP_SetPayload_CheckBlockOpt answers with the block asked for.
LEMMA BlockAnswer ==
    ASSUME Types, NEW req, req.mid \in 0 .. Word - 1, req.token = <<7, 0>>,
           NEW blk \in BlockOption, NEW size, size = AgreedSize(blk),
           NEW a, a = BlockReply(req, body, blk, size)
    PROVE  /\ a \in Message(MAX_PAYLOAD_SIZE)
           /\ \/ a.code # CONTENT /\ Len(body) <= size * blk.num
              \/ SendsBlock(a, blk.num, size)
<1> DEFINE n == blk.num
           start == size * n
           left == Len(body) - start
           b == Blk(n, size, left > size)
           end == start + (IF left > size THEN size ELSE left)
<1>1. /\ size \in Sizes /\ size \in Nat /\ size <= MAX_PAYLOAD_SIZE
      /\ n \in 0 .. 16 * Word - 1 /\ n \in Nat
  BY AgreedType, BlockType, BlockNumber
<1>2. body \in Seq(Byte) /\ Len(body) \in Nat
  BY DEF Types
<1>3. start \in Nat /\ left \in Int /\ start = n * size
  <2> HIDE DEF n
  <2> QED BY <1>1, <1>2
<1>9. start \in Nat /\ left \in Int
  BY <1>3
<1>4. a = IF left <= 0 THEN Reply(req, BAD_OPTION, <<>>, NotExisting)
          ELSE Reply(req, CONTENT, AddBlkOptionToMsg(<<>>, b), SubSeq(body, start + 1, end))
  BY Zenon DEF BlockReply
<1>5. /\ b \in BlockOption /\ b.num = n /\ b.size = size /\ b.more = (left > size)
  <2> DEFINE more == left > size
  <2>1. more \in BOOLEAN
    OBVIOUS
  <2>2. b = Blk(n, size, more)
    OBVIOUS
  <2> HIDE DEF n, left, more, b, start, end
  <2>3. b \in BlockOption /\ b.num = n /\ b.size = size /\ b.more = more
    <3>1. n \in 0 .. 16 * Word - 1 /\ size \in Sizes
      BY <1>1, Zenon
    <3>2. /\ Blk(n, size, more) \in BlockOption /\ Blk(n, size, more).num = n
          /\ Blk(n, size, more).size = size /\ Blk(n, size, more).more = more
      BY <2>1, <3>1, IsBlock
    <3> QED BY <2>2, <3>2, Zenon
  <2> QED BY <2>3, Zenon DEF more
<1> HIDE DEF n, start, b, end
<1>6. CASE left <= 0
  <2>1. a = Reply(req, BAD_OPTION, <<>>, NotExisting)
    BY <1>4, <1>6, Zenon
  <2>2. Len(body) <= start
    BY <1>2, <1>3, <1>6
  <2>3. a \in Message(MAX_PAYLOAD_SIZE) /\ a.code # CONTENT
    BY <2>1, BareType
  <2> QED BY <2>2, <2>3 DEF start, n
<1>7. CASE ~(left <= 0)
  <2>1. a = Reply(req, CONTENT, AddBlkOptionToMsg(<<>>, b), SubSeq(body, start + 1, end))
    BY <1>4, <1>7, Zenon
  <2>2. start = b.num * b.size /\ start < Len(body) /\ b.size <= MAX_PAYLOAD_SIZE
    BY <1>1, <1>2, <1>3, <1>5, <1>7
  <2>3. (left > size) <=> (Len(body) > start + size)
    BY <1>1, <1>2, <1>9
  <2>4. b.more <=> (Len(body) > start + b.size)
    BY <1>5, <2>3, Zenon
  <2>5. start + left = Len(body)
    BY <1>2, <1>9
  <2>6. end = IF b.more THEN start + b.size ELSE Len(body)
    BY <1>5, <2>5, Zenon DEF end
  <2> HIDE DEF left
  <2>7. a \in Message(MAX_PAYLOAD_SIZE) /\ IsBlockOf(a, b)
    BY <1>3, <1>5, <2>1, <2>2, <2>4, <2>6, OneBlockType, Zenon
  <2> QED BY <2>7, <1>5, Zenon DEF n, SendsBlock
<1> QED BY <1>6, <1>7

Refusal(a) ==
    /\ a.code # CONTENT
    /\ \/ ~UriOptionsAreEqual(options, ResourceUri)
       \/ CheckForUnknownCriticalOption(options) # 0
       \/ ask # NoBlock /\ Len(body) <= AgreedSize(ask) * ask.num

\* A handler that checks Block2 leaves the whole body to clients without it.
Whole(a) ==
    WholeBody(a) /\ (setter # "SetPayload" => ask = NoBlock \/ body = <<>>)

\* It sends the block asked for, in the size agreed on.
Part(a) ==
    \E blk :
        /\ IsBlockOf(a, blk)
        /\ ask = NoBlock => blk.num = 0
        /\ setter # "SetPayload" /\ ask # NoBlock =>
             blk.num = ask.num /\ blk.size = AgreedSize(ask)

LEMMA ServerAnswers ==
    ASSUME Types, Lists, NEW a, a = AnswerTo(Request)
    PROVE  a \in Message(MAX_PAYLOAD_SIZE) /\ (Refusal(a) \/ Whole(a) \/ Part(a))
<1> DEFINE req == Request
<1>1. /\ req.mid \in 0 .. Word - 1 /\ req.token = <<7, 0>>
      /\ GetBlockOption(req.options) = ask
      /\ OptionsByNumber(req.options, OPT_NUM_URI_PATH)
           = OptionsByNumber(options, OPT_NUM_URI_PATH)
      /\ CheckForUnknownCriticalOption(req.options) # 0 =>
           CheckForUnknownCriticalOption(options) # 0
  <2>1. OPT_NUM_URI_PATH # OPT_NUM_BLOCK2
    BY DEF OPT_NUM_URI_PATH, OPT_NUM_BLOCK2
  <2> QED BY <2>1, RequestIs
<1>2. a = IF ~UriOptionsAreEqual(req.options, ResourceUri) THEN Answer(req, NOT_FOUND)
          ELSE IF CheckForUnknownCriticalOption(req.options) # 0 THEN Answer(req, BAD_OPTION)
          ELSE IF setter = "SetPayload" THEN SetPayload(Answer(req, CONTENT), body)
          ELSE SetPayload_CheckBlockOpt(req, Answer(req, CONTENT), body)
  BY Zenon DEF AnswerTo
<1> HIDE DEF req
<1>3. \A code : Answer(req, code) = Reply(req, code, <<>>, <<>>)
  BY DEF Answer, Reply
<1>4. CASE ~UriOptionsAreEqual(req.options, ResourceUri)
  <2>1. a = Reply(req, NOT_FOUND, <<>>, <<>>)
    BY <1>2, <1>3, <1>4, Zenon
  <2>2. a \in Message(MAX_PAYLOAD_SIZE) /\ a.code # CONTENT
    BY <1>1, <2>1, BareType
  <2>3. ~UriOptionsAreEqual(options, ResourceUri)
    BY <1>1, <1>4, Zenon DEF UriOptionsAreEqual
  <2> QED BY <2>2, <2>3, Zenon DEF Refusal
<1>5. CASE /\ UriOptionsAreEqual(req.options, ResourceUri)
           /\ CheckForUnknownCriticalOption(req.options) # 0
  <2>1. a = Reply(req, BAD_OPTION, <<>>, <<>>)
    BY <1>2, <1>3, <1>5, Zenon
  <2>2. a \in Message(MAX_PAYLOAD_SIZE) /\ a.code # CONTENT
    BY <1>1, <2>1, BareType
  <2>3. CheckForUnknownCriticalOption(options) # 0
    BY <1>1, <1>5, Zenon
  <2> QED BY <2>2, <2>3, Zenon DEF Refusal
<1> DEFINE Served == /\ UriOptionsAreEqual(req.options, ResourceUri)
                     /\ ~(CheckForUnknownCriticalOption(req.options) # 0)
<1>6. ASSUME a = SetPayload(Answer(req, CONTENT), body), setter = "SetPayload" \/ ask = NoBlock
      PROVE  a \in Message(MAX_PAYLOAD_SIZE) /\ (Whole(a) \/ Part(a))
  <2>1. /\ a \in Message(MAX_PAYLOAD_SIZE)
        /\ WholeBody(a) \/ IsBlockOf(a, FirstBlock)
        /\ FirstBlock.num = 0
    BY <1>1, <1>6, PayloadAnswer
  <2> QED BY <1>6, <2>1, Zenon DEF Whole, Part
<1>7. CASE Served /\ setter = "SetPayload"
  <2>1. a = SetPayload(Answer(req, CONTENT), body)
    BY <1>2, <1>7, Zenon
  <2> QED BY <2>1, <1>6, <1>7, Zenon
<1>8. CASE Served /\ setter # "SetPayload"
  <2>1. ask = NoBlock \/ ask \in BlockOption
    BY DEF Types
  <2>2. a = IF body = <<>> THEN Reply(req, CONTENT, <<>>, <<>>)
            ELSE IF ask = NoBlock THEN SetPayload(Answer(req, CONTENT), body)
            ELSE BlockReply(req, body, ask, AgreedSize(ask))
    <3>1. a = SetPayload_CheckBlockOpt(req, Answer(req, CONTENT), body)
      BY <1>2, <1>8, Zenon
    <3> QED BY <1>1, <2>1, <3>1, CheckBlockIs, Zenon
  <2>3. CASE body = <<>>
    <3>1. a = Reply(req, CONTENT, <<>>, body)
      BY <2>2, <2>3, Zenon
    <3>2. Len(body) <= MAX_PAYLOAD_SIZE
      BY <2>3, MaxType DEF MaxIsSize
    <3>3. a \in Message(MAX_PAYLOAD_SIZE) /\ WholeBody(a)
      BY <1>1, <3>1, <3>2, WholeBodyType, Zenon
    <3> QED BY <2>3, <3>3, Zenon DEF Whole
  <2>4. CASE body # <<>> /\ ask = NoBlock
    BY <1>6, <2>2, <2>4, Zenon
  <2>5. CASE body # <<>> /\ ask # NoBlock
    <3>1. a = BlockReply(req, body, ask, AgreedSize(ask)) /\ ask \in BlockOption
      BY <2>1, <2>2, <2>5, Zenon
    <3>2. /\ a \in Message(MAX_PAYLOAD_SIZE)
          /\ \/ a.code # CONTENT /\ Len(body) <= AgreedSize(ask) * ask.num
             \/ SendsBlock(a, ask.num, AgreedSize(ask))
      BY <1>1, <3>1, BlockAnswer, Zenon
    <3> QED BY <2>5, <3>2, Zenon DEF Refusal, Part, SendsBlock
  <2> QED BY <2>3, <2>4, <2>5
<1> QED BY <1>4, <1>5, <1>7, <1>8, Zenon

-----------------------------------------------------------------------------
(* The invariant holds *)

LEMMA Reads ==
    ASSUME Wires, wire # <<>>
    PROVE  Parsed = [res |-> "OK", msg |-> sent]
<1>1. sent \in Message(MAX_PAYLOAD_SIZE) /\ wire = BuildDatagram(sent)
  BY DEF Wires
<1>2. MAX_PAYLOAD_SIZE \in Nat /\ 0 \in Byte
  BY MaxType DEF MaxIsSize, Byte
<1> QED BY <1>1, <1>2, MessageReadBack, Zenon DEF Parsed

LEMMA WireType ==
    ASSUME NEW m \in Message(MAX_PAYLOAD_SIZE)
    PROVE  BuildDatagram(m) # <<>>
<1>1. MAX_PAYLOAD_SIZE \in Nat
  BY MaxType DEF MaxIsSize
<1>2. Len(BuildDatagram(m)) = 4 + Len(m.token) + Len(Rest(m))
      /\ Rest(m) \in Seq(Byte) /\ m.token \in Seq(Byte)
  BY <1>1, RestType, MessageType
<1>3. Len(m.token) \in Nat /\ Len(Rest(m)) \in Nat
  BY <1>2
<1>4. Len(BuildDatagram(m)) # 0
  BY <1>2, <1>3
<1> QED BY <1>4

LEMMA ResourceType ==
    /\ ResourceUri \in Seq(Option) /\ Sorted(ResourceUri) /\ NoBlock2(ResourceUri)
<1> DEFINE o == Opt(OPT_NUM_URI_PATH, <<114>>)
<1>1. o \in Option /\ o.Number = OPT_NUM_URI_PATH /\ Len(o.Value) <= MAX_OPTION_VALUE_SIZE
  <2>1. 11 \in Nat /\ 11 < Word
    BY WordType
  <2>2. OPT_NUM_URI_PATH \in 0 .. Word - 1
    BY <2>1, WordType DEF OPT_NUM_URI_PATH
  <2>3. <<114>> \in Seq(Byte) /\ Len(<<114>>) = 1
    BY DEF Byte
  <2>4. Len(<<114>>) <= MAX_OPTION_VALUE_SIZE
    BY <2>3 DEF MAX_OPTION_VALUE_SIZE
  <2> QED BY <2>2, <2>3, <2>4, Zenon DEF Opt, Option
<1>2. ResourceUri = << o >>
  BY DEF ResourceUri
<1> HIDE DEF o
<1>3. << o >> \in Seq(Option) /\ Len(<< o >>) = 1 /\ << o >>[1] = o
  BY <1>1
<1>4. o.Number <= o.Number
  BY <1>1, OptionType
<1>5. Sorted(<< o >>)
  BY <1>1, <1>3, <1>4 DEF Sorted, Ascending
<1>6. OPT_NUM_URI_PATH # OPT_NUM_BLOCK2
  BY DEF OPT_NUM_URI_PATH, OPT_NUM_BLOCK2
<1>7. NoBlock2(<< o >>)
  BY <1>1, <1>3, <1>6 DEF NoBlock2
<1> QED BY <1>2, <1>3, <1>5, <1>7

LEMMA InitInv == Init => IInv
<1> SUFFICES ASSUME Init PROVE IInv
  OBVIOUS
<1>1. body \in Seq(Byte) /\ Len(body) < Word
  <2>1. PICK n \in BodySizes : body = [i \in 1 .. n |-> i % 256]
    BY DEF Init
  <2>2. n \in Nat /\ n < Word
    BY <2>1, BodyAssumption, WordType
  <2>3. \A i \in 1 .. n : i % 256 \in Byte
    BY <2>2 DEF Byte
  <2>4. body \in Seq(Byte) /\ Len(body) = n
    BY <2>1, <2>2, <2>3
  <2> QED BY <2>2, <2>4
<1>2. ask = NoBlock \/ ask \in BlockOption
  BY AsksAssumption DEF Init
<1>3. ask.num \in Nat /\ ask.size \in Nat
  <2>1. CASE ask = NoBlock
    BY <2>1 DEF NoBlock, Blk
  <2>2. CASE ask \in BlockOption
    BY <2>2, BlockType, BlockNumber
  <2> QED BY <1>2, <2>1, <2>2
<1>4. from = ask.num * ask.size /\ from \in Nat
  BY <1>3 DEF Init
<1>5. /\ setter \in Setters /\ stage = "build" /\ given = ResourceUri /\ options = ResourceUri
      /\ wire = <<>> /\ got = <<>>
  BY DEF Init
<1>6. Types
  BY <1>1, <1>2, <1>4, <1>5 DEF Types
<1>7. Lists
  BY <1>5, ResourceType DEF Lists
<1>8. Wires
  BY <1>5 DEF Wires
<1>9. Progress
  BY <1>4, <1>5 DEF Progress
<1>10. BlocksFormTheBody
  <2>1. SubSeq(body, from + 1, from + 0) = <<>>
    BY <1>1, <1>4
  <2> QED BY <1>5, <2>1 DEF BlocksFormTheBody
<1> QED BY <1>6, <1>7, <1>8, <1>9, <1>10 DEF IInv

LEMMA AddOptionInv == IInv /\ AddOption => IInv'
<1> SUFFICES ASSUME IInv, AddOption PROVE IInv'
  OBVIOUS
<1>1. /\ stage = "build" /\ wire = <<>>
      /\ UNCHANGED <<body, setter, stage, ask, wire, sent, from, got>>
  BY DEF AddOption
<1>2. PICK opt \in GivenOptions, memory \in Memory :
        /\ options' = AppendOptionToList(options, opt, memory)
        /\ given' = IF memory THEN Append(given, opt) ELSE given
  BY DEF AddOption
<1>3. /\ opt \in Option /\ opt.Number # OPT_NUM_BLOCK2
      /\ Len(opt.Value) <= MAX_OPTION_VALUE_SIZE /\ memory \in BOOLEAN
  BY OptionsAssumption, MemoryAssumption
<1>4. /\ Sorted(options) /\ NoBlock2(options) /\ options \in Seq(Option) /\ Ascending(options)
      /\ given \in Seq(Option)
      /\ Memory \subseteq {TRUE} =>
           \A number \in Nat : OptionsByNumber(options, number) = OptionsByNumber(given, number)
  BY DEF IInv, Lists, Sorted
<1>5. ASSUME memory PROVE Lists'
  <2>1. options' = AppendOptionToList(options, opt, TRUE) /\ given' = Append(given, opt)
    BY <1>2, <1>3, <1>5
  <2>2. /\ options' \in Seq(Option) /\ Ascending(options') /\ Gains(options, opt, options')
    BY <1>3, <1>4, <2>1, AppendOptionType
  <2>3. Sorted(options')
    <3>1. \A k \in 1 .. Len(options) : Len(options[k].Value) <= MAX_OPTION_VALUE_SIZE
      BY <1>4 DEF Sorted
    <3>2. \A k \in 1 .. Len(options') : Len(options'[k].Value) <= MAX_OPTION_VALUE_SIZE
      BY <1>3, <2>2, <3>1, Zenon DEF Gains
    <3> QED BY <2>2, <3>2 DEF Sorted
  <2>4. NoBlock2(options')
    BY <1>3, <1>4, <2>2, Zenon DEF Gains, NoBlock2
  <2>5. given' \in Seq(Option)
    BY <1>3, <1>4, <2>1
  <2>6. ASSUME Memory \subseteq {TRUE}, NEW number \in Nat
        PROVE  OptionsByNumber(options', number) = OptionsByNumber(given', number)
    <3>1. OptionsByNumber(options', number)
            = OptionsByNumber(options, number) \o Kept(opt, {number})
      BY <1>3, <1>4, <2>1, AmongInserted
    <3>2. OptionsByNumber(given', number)
            = OptionsByNumber(given, number) \o Kept(opt, {number})
      BY <1>3, <1>4, <2>1, AmongAppend DEF OptionsByNumber
    <3> QED BY <1>4, <2>6, <3>1, <3>2, Zenon
  <2> QED BY <2>3, <2>4, <2>5, <2>6 DEF Lists
<1>6. ASSUME ~memory PROVE Lists'
  <2>1. options' \in {<<>>, options} /\ given' = given
    <3>1. memory = FALSE
      BY <1>3, <1>6
    <3> QED BY <1>2, <1>4, <3>1, AppendWithoutMemory, Zenon
  <2>2. ~(Memory \subseteq {TRUE})
    BY <1>6
  <2>3. Sorted(options') /\ NoBlock2(options')
    BY <1>4, <2>1, EmptyList
  <2> QED BY <1>4, <2>1, <2>2, <2>3 DEF Lists
<1>7. Lists'
  BY <1>3, <1>5, <1>6
<1>8. Types'
  BY <1>1 DEF IInv, Types
<1>9. Wires'
  BY <1>1 DEF Wires
<1>10. Progress'
  BY <1>1 DEF IInv, Progress
<1>11. BlocksFormTheBody'
  BY <1>1 DEF IInv, BlocksFormTheBody
<1> QED BY <1>7, <1>8, <1>9, <1>10, <1>11 DEF IInv

LEMMA AskInv == IInv /\ Ask => IInv'
<1> SUFFICES ASSUME IInv, Ask PROVE IInv'
  OBVIOUS
<1>1. /\ stage = "build" /\ stage' = "asked" /\ wire' = BuildDatagram(Request)
      /\ sent' = Request
      /\ UNCHANGED <<body, setter, given, options, ask, from, got>>
  BY DEF Ask, Send
<1>2. Request \in Message(MAX_PAYLOAD_SIZE)
  BY RequestIs DEF IInv
<1>3. Request' = Request
  BY <1>1, Zenon DEF Request
<1>4. wire' # <<>>
  BY <1>1, <1>2, WireType, Zenon
<1>5. Wires'
  <2>1. stage' # "answered"
    BY <1>1
  <2> QED BY <1>1, <1>2, <1>3, <1>4, <2>1, Zenon DEF Wires
<1>6. Types'
  BY <1>1 DEF IInv, Types
<1>7. Lists'
  BY <1>1 DEF IInv, Lists
<1>8. Progress'
  BY <1>1 DEF IInv, Progress
<1>9. BlocksFormTheBody'
  BY <1>1 DEF IInv, BlocksFormTheBody
<1> QED BY <1>5, <1>6, <1>7, <1>8, <1>9 DEF IInv

LEMMA ServeInv == IInv /\ Serve => IInv'
<1> SUFFICES ASSUME IInv, Serve PROVE IInv'
  OBVIOUS
<1>0. Types /\ Lists /\ Wires
  BY DEF IInv
<1>1. wire # <<>> /\ sent = Request /\ stage = "asked"
  BY <1>0 DEF Serve, Wires
<1>2. Parsed.msg = Request
  BY <1>0, <1>1, Reads
<1>3. /\ stage' = "answered" /\ wire' = BuildDatagram(AnswerTo(Request))
      /\ sent' = AnswerTo(Request)
      /\ UNCHANGED <<body, setter, given, options, ask, from, got>>
  BY <1>2, Zenon DEF Serve, Send
<1>4. AnswerTo(Request) \in Message(MAX_PAYLOAD_SIZE)
  BY <1>0, ServerAnswers
<1>5. Request' = Request
  BY <1>3, Zenon DEF Request
<1>6. sent' = AnswerTo(Request)'
  BY <1>3, <1>5, Zenon DEF AnswerTo
<1>7. wire' # <<>>
  BY <1>3, <1>4, WireType, Zenon
<1>8. Wires'
  <2>1. stage' # "asked"
    BY <1>3
  <2> QED BY <1>3, <1>4, <1>6, <1>7, <2>1, Zenon DEF Wires
<1>9. Types'
  BY <1>3 DEF IInv, Types
<1>10. Lists'
  BY <1>3 DEF IInv, Lists
<1>11. Progress'
  BY <1>1, <1>3 DEF IInv, Progress
<1>12. BlocksFormTheBody'
  BY <1>3 DEF IInv, BlocksFormTheBody
<1> QED BY <1>8, <1>9, <1>10, <1>11, <1>12 DEF IInv

\* Two parts of the body that follow each other.
LEMMA Joined ==
    ASSUME NEW s \in Seq(Byte), NEW i \in Nat, NEW j \in Nat, NEW k \in Nat,
           i <= j, j <= k, k <= Len(s)
    PROVE  SubSeq(s, i + 1, j) \o SubSeq(s, j + 1, k) = SubSeq(s, i + 1, k)
<1> DEFINE a == SubSeq(s, i + 1, j)
           b == SubSeq(s, j + 1, k)
           c == SubSeq(s, i + 1, k)
           m == j - i
           n == k - j
<1>1. /\ m \in Nat /\ n \in Nat /\ i + m = j /\ j + n = k /\ k - i = m + n
      /\ a \in Seq(Byte) /\ Len(a) = m /\ \A x \in 1 .. m : a[x] = s[i + x]
      /\ b \in Seq(Byte) /\ Len(b) = n /\ \A x \in 1 .. n : b[x] = s[j + x]
      /\ c \in Seq(Byte) /\ Len(c) = m + n /\ \A x \in 1 .. m + n : c[x] = s[i + x]
  OBVIOUS
<1> HIDE DEF a, b, c, m, n
<1>2. Follows(a \o b, a, b, m, n, Byte)
  BY <1>1, ConcatFollows, Zenon
<1>3. /\ a \o b \in Seq(Byte) /\ Len(a \o b) = m + n
      /\ \A x \in 1 .. m : (a \o b)[x] = a[x]
      /\ \A x \in 1 .. n : (a \o b)[m + x] = b[x]
  BY <1>2, Zenon DEF Follows
<1> DEFINE d == a \o b
<1> HIDE DEF d
<1>4. /\ d \in Seq(Byte) /\ Len(d) = m + n
      /\ \A x \in 1 .. m : d[x] = s[i + x]
      /\ \A x \in 1 .. n : d[m + x] = s[j + x]
  BY <1>1, <1>3, ZenonT(90) DEF d
<1>5. ASSUME NEW x \in 1 .. m + n PROVE d[x] = s[i + x]
  <2>1. CASE x <= m
    BY <1>1, <1>4, <2>1
  <2>2. CASE ~(x <= m)
    <3> DEFINE y == x - m
    <3>1. y \in 1 .. n /\ m + y = x /\ j + y = i + x
      BY <1>1, <2>2
    <3> HIDE DEF y
    <3>2. d[m + y] = s[j + y]
      BY <1>4, <3>1, Zenon
    <3> QED BY <3>1, <3>2, Zenon
  <2> QED BY <2>1, <2>2
<1>6. d = c
  <2>1. Len(d) = Len(c) /\ \A x \in 1 .. Len(d) : d[x] = c[x]
    BY <1>1, <1>4, <1>5, Zenon
  <2> QED BY <1>1, <1>4, <2>1
<1> QED BY <1>6 DEF a, b, c, d

\* The number of the next block has 20 bits as long as the body goes on.
LEMMA NextNumber ==
    ASSUME NEW n \in Nat, NEW size \in Nat, size >= 16, NEW length \in Nat, length < Word,
           n * size + size < length
    PROVE  /\ n + 1 \in 0 .. 16 * Word - 1
           /\ (n + 1) * size = n * size + size
<1>1. n * size \in Nat /\ (n + 1) * size = n * size + size
  OBVIOUS
<1>2. n <= n * size
  <2>1. CASE n = 0
    BY <2>1, <1>1
  <2>2. CASE n # 0
    BY <2>2, SMT
  <2> QED BY <2>1, <2>2
<1>3. n + 1 < Word
  BY <1>1, <1>2, WordType
<1>4. Word <= 16 * Word
  BY WordType
<1>5. n + 1 < 16 * Word /\ 16 * Word \in Nat
  BY <1>3, <1>4, WordType
<1> QED BY <1>1, <1>5

\* The number of bytes the client has with the next block.
BlockEnd(blk) == IF blk.more THEN blk.num * blk.size + blk.size ELSE Len(body)

\* The client keeps the whole body.
LEMMA KeepWhole ==
    ASSUME Types, WholeBody(sent), from + Len(got) = 0,
           got' = got \o sent.payload, UNCHANGED <<body, from>>
    PROVE  /\ got' \in Seq(Byte) /\ from + Len(got') = Len(body)
           /\ BlocksFormTheBody'
<1>1. body \in Seq(Byte) /\ got \in Seq(Byte) /\ from \in Nat
  BY DEF Types
<1>2. from = 0 /\ Len(got) = 0
  BY <1>1
<1>3. got = <<>>
  BY <1>1, <1>2
<1>4. got' = body
  <2>1. <<>> \o body = body
    BY <1>1
  <2> QED BY <1>3, <2>1, Zenon DEF WholeBody
<1>5. SubSeq(body, 1, Len(body)) = body
  BY <1>1
<1>6. 0 + 1 = 1 /\ 0 + Len(body) = Len(body)
  BY <1>1
<1>7. got' = SubSeq(body', from' + 1, from' + Len(got'))
  BY <1>2, <1>4, <1>5, <1>6, Zenon
<1> QED BY <1>1, <1>2, <1>4, <1>6, <1>7, Zenon DEF BlocksFormTheBody

\* The client keeps a block that continues what it has.
LEMMA KeepBlock ==
    ASSUME Types, BlocksFormTheBody, NEW blk, IsBlockOf(sent, blk),
           blk.num * blk.size = from + Len(got),
           got' = got \o sent.payload, UNCHANGED <<body, from>>
    PROVE  /\ got' \in Seq(Byte)
           /\ from + Len(got') = BlockEnd(blk)
           /\ BlocksFormTheBody'
<1> DEFINE i == from
           j == blk.num * blk.size
           k == BlockEnd(blk)
           part == SubSeq(body, j + 1, k)
<1>1. /\ body \in Seq(Byte) /\ Len(body) \in Nat /\ got \in Seq(Byte) /\ Len(got) \in Nat
      /\ i \in Nat
  BY DEF Types
<1>2. /\ blk \in BlockOption /\ j < Len(body)
      /\ blk.more <=> (Len(body) > j + blk.size)
      /\ sent.payload = part
  BY Zenon DEF IsBlockOf, BlockEnd
<1>3. blk.size \in Nat
  BY <1>2, BlockType
<1>4. j \in Nat /\ i <= j
  BY <1>1
<1>5. k \in Nat /\ j <= k /\ k <= Len(body)
  <2>1. CASE blk.more
    <3>1. k = j + blk.size /\ Len(body) > j + blk.size
      BY <1>2, <2>1, Zenon DEF BlockEnd
    <3> QED BY <1>1, <1>3, <1>4, <3>1
  <2>2. CASE ~blk.more
    <3>1. k = Len(body)
      BY <2>2 DEF BlockEnd
    <3> QED BY <1>1, <1>2, <1>4, <3>1
  <2> QED BY <2>1, <2>2
<1>6. got = SubSeq(body, i + 1, j)
  BY DEF BlocksFormTheBody
<1>7. got' = got \o part
  BY <1>2
<1> HIDE DEF i, j, k
<1>8. got' = SubSeq(body, i + 1, k)
  <2>1. SubSeq(body, i + 1, j) \o SubSeq(body, j + 1, k) = SubSeq(body, i + 1, k)
    BY <1>1, <1>4, <1>5, Joined
  <2>2. part = SubSeq(body, j + 1, k)
    BY DEF j, k
  <2> HIDE DEF part
  <2> QED BY <1>6, <1>7, <2>1, <2>2, Zenon
<1>9. got' \in Seq(Byte) /\ Len(got') = k - i
  BY <1>1, <1>4, <1>5, <1>8
<1>10. i + Len(got') = k
  BY <1>1, <1>5, <1>9
<1>11. got' = SubSeq(body', from' + 1, from' + Len(got'))
  BY <1>8, <1>10, Zenon DEF i
<1> QED BY <1>9, <1>10, <1>11, Zenon DEF BlocksFormTheBody, i, k

\* The block in the answer, and whether the client keeps it.
Answered == GetBlockOption(sent.options)
Fits == sent.code = CONTENT /\ Answered.num * Answered.size = from + Len(got)

LEMMA ReceiveIs ==
    ASSUME IInv, Receive
    PROVE  /\ stage = "answered" /\ ask.num * ask.size = from + Len(got)
           /\ Refusal(sent) \/ Whole(sent) \/ Part(sent)
           /\ got' = IF Fits THEN got \o sent.payload ELSE got
           /\ stage' = IF ~Fits THEN "refused" ELSE IF Answered.more THEN "build" ELSE "done"
           /\ ask' = IF Fits /\ Answered.more THEN Blk(Answered.num + 1, Answered.size, FALSE)
                     ELSE ask
           /\ UNCHANGED <<body, setter, given, options, wire, sent, from>>
<1>1. Types /\ Lists /\ Wires /\ Progress
  BY DEF IInv
<1>2. stage = "answered"
  BY DEF Receive
<1>3. wire # <<>> /\ sent = AnswerTo(Request)
  BY <1>1, <1>2 DEF Wires
<1>4. Parsed.msg = sent
  BY <1>1, <1>3, Reads
<1>5. Refusal(sent) \/ Whole(sent) \/ Part(sent)
  BY <1>1, <1>3, ServerAnswers
<1>6. ask.num * ask.size = from + Len(got)
  BY <1>1, <1>2 DEF Progress
<1> QED BY <1>2, <1>4, <1>5, <1>6, Zenon DEF Receive, Fits, Answered

\* The three ways a transfer goes on.
Keeps == got' = got \o sent.payload /\ UNCHANGED <<body, from>>

Refused2 == ~Fits /\ stage' = "refused" /\ got' = got /\ ask' = ask

Ends == Fits /\ WholeBody(sent) /\ from + Len(got) = 0 /\ stage' = "done" /\ ask' = ask /\ Keeps

Continues(blk) ==
    /\ Fits /\ IsBlockOf(sent, blk) /\ blk.num * blk.size = from + Len(got) /\ Keeps
    /\ stage' = IF blk.more THEN "build" ELSE "done"
    /\ ask' = IF blk.more THEN Blk(blk.num + 1, blk.size, FALSE) ELSE ask

LEMMA ReceiveCases ==
    ASSUME IInv, Receive
    PROVE  Refused2 \/ Ends \/ \E blk : Continues(blk)
<1>1. CASE ~Fits
  BY <1>1, ReceiveIs, Zenon DEF Refused2
<1>2. CASE Fits
  <2>1. Keeps
    BY <1>2, ReceiveIs, Zenon DEF Keeps
  <2>2. sent.code = CONTENT /\ Answered.num * Answered.size = from + Len(got)
    BY <1>2 DEF Fits
  <2>3. Whole(sent) \/ Part(sent)
    BY <2>2, ReceiveIs, Zenon DEF Refusal
  <2>4. CASE Whole(sent)
    <3>1. WholeBody(sent) /\ Answered = NoBlock
      BY <2>4, Zenon DEF Whole, WholeBody, Answered
    <3>2. NoBlock.num * NoBlock.size = 0 /\ ~NoBlock.more
      BY DEF NoBlock, Blk
    <3>3. from + Len(got) = 0
      BY <2>2, <3>1, <3>2, Zenon
    <3>4. stage' = "done" /\ ask' = ask
      BY <1>2, <3>1, <3>2, ReceiveIs, Zenon
    <3> QED BY <1>2, <2>1, <3>1, <3>3, <3>4, Zenon DEF Ends
  <2>5. CASE Part(sent)
    <3>1. PICK blk : IsBlockOf(sent, blk)
      BY <2>5, Zenon DEF Part
    <3>2. Answered = blk
      BY <3>1, Zenon DEF IsBlockOf, Answered
    <3>3. Continues(blk)
      BY <1>2, <2>1, <2>2, <3>1, <3>2, ReceiveIs, Zenon DEF Continues
    <3> QED BY <3>3, Zenon
  <2> QED BY <2>3, <2>4, <2>5, Zenon
<1> QED BY <1>1, <1>2, Zenon

LEMMA ReceiveInv == IInv /\ Receive => IInv'
<1> SUFFICES ASSUME IInv, Receive PROVE IInv'
  OBVIOUS
<1>1. Types /\ Lists /\ Wires /\ BlocksFormTheBody /\ stage = "answered"
  BY ReceiveIs DEF IInv
<1>2. UNCHANGED <<body, setter, given, options, wire, sent, from>>
  BY ReceiveIs
<1>3. /\ body \in Seq(Byte) /\ Len(body) \in Nat /\ Len(body) < Word /\ from \in Nat
      /\ got \in Seq(Byte) /\ Len(got) \in Nat
  BY <1>1 DEF Types
<1>4. Lists'
  BY <1>1, <1>2 DEF Lists
<1>5. ASSUME stage' \in {"build", "done", "refused"} PROVE Wires'
  BY <1>1, <1>2, <1>5 DEF Wires
<1>6. ASSUME Refused2 PROVE IInv'
  <2>1. stage' = "refused" /\ got' = got /\ ask' = ask
    BY <1>6 DEF Refused2
  <2>2. Types' /\ Wires'
    BY <1>1, <1>2, <1>5, <2>1 DEF Types
  <2>3. Progress' /\ BlocksFormTheBody'
    BY <1>1, <1>2, <2>1 DEF Progress, BlocksFormTheBody
  <2> QED BY <1>4, <2>2, <2>3 DEF IInv
<1>7. ASSUME Ends PROVE IInv'
  <2>1. stage' = "done" /\ ask' = ask
    BY <1>7 DEF Ends
  <2>2. got' \in Seq(Byte) /\ BlocksFormTheBody'
    BY <1>1, <1>7, KeepWhole, Zenon DEF Ends, Keeps
  <2>3. Types' /\ Wires'
    BY <1>1, <1>2, <1>5, <2>1, <2>2 DEF Types
  <2>4. Progress'
    BY <2>1 DEF Progress
  <2> QED BY <1>4, <2>2, <2>3, <2>4 DEF IInv
<1>8. ASSUME NEW blk, Continues(blk) PROVE IInv'
  <2> DEFINE n == blk.num
             size == blk.size
  <2>1. got' \in Seq(Byte) /\ from + Len(got') = BlockEnd(blk) /\ BlocksFormTheBody'
    BY <1>1, <1>8, KeepBlock, Zenon DEF Continues, Keeps
  <2>2. blk \in BlockOption /\ size <= MAX_PAYLOAD_SIZE
        /\ (blk.more <=> (Len(body) > n * size + size))
    BY <1>8, Zenon DEF Continues, IsBlockOf
  <2>3. n \in Nat /\ size \in Nat /\ size >= 16 /\ size \in Sizes
    BY <2>2, BlockType, BlockNumber
  <2>4. CASE ~blk.more
    <3>1. stage' = "done" /\ ask' = ask
      BY <1>8, <2>4, Zenon DEF Continues
    <3>2. Types' /\ Wires'
      BY <1>1, <1>2, <1>5, <2>1, <3>1 DEF Types
    <3>3. Progress'
      BY <3>1 DEF Progress
    <3> QED BY <1>4, <2>1, <3>2, <3>3 DEF IInv
  <2>5. CASE blk.more
    <3>1. stage' = "build" /\ ask' = Blk(n + 1, size, FALSE)
      BY <1>8, <2>5, Zenon DEF Continues
    <3>2. from + Len(got') = n * size + size /\ Len(body) > n * size + size
      BY <2>1, <2>2, <2>5, Zenon DEF BlockEnd
    <3> HIDE DEF n, size
    <3>3. n + 1 \in 0 .. 16 * Word - 1 /\ (n + 1) * size = n * size + size
      BY <1>3, <2>3, <3>2, NextNumber
    <3>4. /\ Blk(n + 1, size, FALSE) \in BlockOption
          /\ Blk(n + 1, size, FALSE).num = n + 1
          /\ Blk(n + 1, size, FALSE).size = size
      BY <2>3, <3>3, IsBlock
    <3>5. ask' \in BlockOption /\ ask'.num * ask'.size = from' + Len(got') /\ ask'.size = size
      BY <1>2, <3>1, <3>2, <3>3, <3>4, Zenon
    <3>6. Types' /\ Wires'
      BY <1>1, <1>2, <1>5, <2>1, <3>1, <3>5 DEF Types
    <3>7. from' + Len(got') < Len(body')
      <4>1. n * size + size \in Nat
        BY <2>3
      <4> QED BY <1>2, <1>3, <3>2, <4>1
    <3>8. Progress'
      BY <2>2, <3>5, <3>7, Zenon DEF Progress, size
    <3> QED BY <1>4, <2>1, <3>6, <3>8 DEF IInv
  <2> QED BY <2>4, <2>5
<1> QED BY <1>6, <1>7, <1>8, ReceiveCases, Zenon

\* The invariant is inductive.
THEOREM IInvHolds == Spec => []IInv
<1>1. Init => IInv
  BY InitInv
<1>2. IInv /\ [Next]_vars => IInv'
  <2> SUFFICES ASSUME IInv, [Next]_vars PROVE IInv'
    OBVIOUS
  <2>1. CASE AddOption
    BY <2>1, AddOptionInv
  <2>2. CASE Ask
    BY <2>2, AskInv
  <2>3. CASE Serve
    BY <2>3, ServeInv
  <2>4. CASE Receive
    BY <2>4, ReceiveInv
  <2>5. CASE UNCHANGED vars
    <3>1. UNCHANGED <<body, setter, stage, given, options, ask, wire, sent, from, got>>
      BY <2>5 DEF vars
    <3>2. Request' = Request
      BY <3>1, Zenon DEF Request
    <3>3. AnswerTo(Request)' = AnswerTo(Request)
      BY <3>1, <3>2, Zenon DEF AnswerTo
    <3>4. Types' /\ Lists'
      BY <3>1 DEF IInv, Types, Lists
    <3>5. Wires'
      BY <3>1, <3>2, <3>3, Zenon DEF IInv, Wires
    <3>6. Progress' /\ BlocksFormTheBody'
      BY <3>1 DEF IInv, Progress, BlocksFormTheBody
    <3> QED BY <3>4, <3>5, <3>6 DEF IInv
  <2> QED BY <2>1, <2>2, <2>3, <2>4, <2>5 DEF Next
<1> QED BY <1>1, <1>2, PTL DEF Spec

\* What the client has is the body from where it began, byte for byte, whichever
\* function the handler calls and whatever options get lost for want of memory.
THEOREM BlocksFormTheBodyAlways == Spec => []BlocksFormTheBody
<1>1. IInv => BlocksFormTheBody
  BY DEF IInv
<1> QED BY <1>1, IInvHolds, PTL

\* CoAP_SendMsg never allocates a byte too few or too many.
THEOREM BufferHoldsDatagramAlways == Spec => []BufferHoldsDatagram
<1>1. ASSUME IInv PROVE BufferHoldsDatagram
  <2> SUFFICES ASSUME wire # <<>> PROVE Len(wire) = GetRawSizeOfMessage(sent)
    BY DEF BufferHoldsDatagram
  <2>1. sent \in Message(MAX_PAYLOAD_SIZE) /\ wire = BuildDatagram(sent)
    BY <1>1 DEF IInv, Wires
  <2>2. MAX_PAYLOAD_SIZE \in Nat
    BY MaxType DEF MaxIsSize
  <2> QED BY <2>1, <2>2, BufferFits
<1> QED BY <1>1, IInvHolds, PTL

\* No datagram of a transfer, wherever it is cut off behind its token, makes its
\* receiver invent or change an option.
THEOREM CutDatagramInventsNothingAlways == Spec => []CutDatagramInventsNothing
<1>1. ASSUME IInv PROVE CutDatagramInventsNothing
  <2> DEFINE CutRead(cut, stray) ==
               ParseMessageFromDatagram(SubSeq(wire, 1, cut), stray, MAX_PAYLOAD_SIZE)
  <2>1. SUFFICES ASSUME wire # <<>>,
                        NEW cut \in 4 + Len(sent.token) .. Len(wire) - 1,
                        NEW stray \in {0, 16, 255},
                        CutRead(cut, stray).res = "OK"
                 PROVE  IsPrefix(CutRead(cut, stray).msg.options, sent.options)
    BY DEF CutDatagramInventsNothing
  <2>2. sent \in Message(MAX_PAYLOAD_SIZE) /\ wire = BuildDatagram(sent)
    BY <1>1, <2>1 DEF IInv, Wires
  <2>3. MAX_PAYLOAD_SIZE \in Nat /\ stray \in Byte
    BY MaxType DEF MaxIsSize, Byte
  <2>4. Len(wire) \in Nat /\ Len(sent.token) \in Nat
    BY <2>2, <2>3, RestType, MessageType
  <2>5. cut \in 4 + Len(sent.token) .. Len(wire)
    BY <2>4
  <2>6. cut \in 4 + Len(sent.token) .. Len(BuildDatagram(sent))
    BY <2>2, <2>5, Zenon
  <2> DEFINE read == CutRead(cut, stray)
  <2>7. /\ read = ParseMessageFromDatagram(SubSeq(BuildDatagram(sent), 1, cut), stray,
                                            MAX_PAYLOAD_SIZE)
        /\ read.res = "OK"
    BY <2>1, <2>2, Zenon
  <2> HIDE DEF read
  <2>8. IsPrefix(read.msg.options, sent.options)
    BY <2>2, <2>3, <2>6, <2>7, CutDatagram
  <2> QED BY <2>8 DEF read
<1> QED BY <1>1, IInvHolds, PTL

\* The receiver reads what was written, and the server the values the client was
\* told it added, if no option is lost for want of memory.
THEOREM ReadsWhatWasWrittenAlways ==
    ASSUME Memory \subseteq {TRUE}
    PROVE  Spec => []ReadsWhatWasWritten
<1>1. ASSUME IInv PROVE ReadsWhatWasWritten
  <2> SUFFICES ASSUME wire # <<>> PROVE ReadsWhatWasWritten
    BY DEF ReadsWhatWasWritten
  <2>1. Types /\ Lists /\ Wires
    BY <1>1 DEF IInv
  <2>2. Parsed = [res |-> "OK", msg |-> sent] /\ Parsed.msg = sent
    BY <2>1, Reads
  <2>3. ASSUME stage = "asked",
               NEW number \in {o.Number : o \in Range(given \o Parsed.msg.options)}
                                \ {OPT_NUM_BLOCK2}
        PROVE  OptionsByNumber(Parsed.msg.options, number) = OptionsByNumber(given, number)
    <3>1. sent = Request /\ sent \in Message(MAX_PAYLOAD_SIZE)
      BY <2>1, <2>3 DEF Wires
    <3>2. number \in Nat
      <4> DEFINE all == given \o sent.options
      <4>1. PICK o \in Range(all) : number = o.Number
        BY <2>2, <2>3
      <4>2. given \in Seq(Option) /\ sent.options \in Seq(Option)
        <5>1. MAX_PAYLOAD_SIZE \in Nat
          BY MaxType DEF MaxIsSize
        <5> QED BY <2>1, <3>1, <5>1, MessageType DEF Lists
      <4>3. all \in Seq(Option)
        BY <4>2
      <4>4. o \in Option
        BY <4>1, <4>3 DEF Range
      <4> QED BY <4>1, <4>4, OptionType
    <3>3. OptionsByNumber(Request.options, number) = OptionsByNumber(options, number)
      BY <2>1, <2>3, RequestIs
    <3>4. OptionsByNumber(options, number) = OptionsByNumber(given, number)
      BY <2>1, <3>2 DEF Lists
    <3> QED BY <2>2, <3>1, <3>3, <3>4, Zenon
  <2> QED BY <2>2, <2>3, Zenon DEF ReadsWhatWasWritten
<1> QED BY <1>1, IInvHolds, PTL

\* Why the client was refused, whatever it asked for.
LEMMA RefusedWhy ==
    ASSUME Setters \subseteq {"CheckBlockOpt"}, IInv, Receive, Refused2
    PROVE  \/ from >= Len(body)
           \/ ask.num > 0 /\ ask.size > MAX_PAYLOAD_SIZE
           \/ CheckForUnknownCriticalOption(options) # 0
           \/ ~UriOptionsAreEqual(options, ResourceUri)
<1> DEFINE Why == \/ from >= Len(body)
                  \/ ask.num > 0 /\ ask.size > MAX_PAYLOAD_SIZE
                  \/ CheckForUnknownCriticalOption(options) # 0
                  \/ ~UriOptionsAreEqual(options, ResourceUri)
           size == AgreedSize(ask)
<1>1. /\ Types /\ setter # "SetPayload" /\ from \in Nat
      /\ body \in Seq(Byte) /\ Len(body) \in Nat /\ Len(got) \in Nat
  BY DEF IInv, Types
<1>2. ask.num \in Nat /\ ask.size \in Nat /\ (ask # NoBlock => ask \in BlockOption)
  BY <1>1, AskType
<1>3. ask.num * ask.size = from + Len(got) /\ (Refusal(sent) \/ Whole(sent) \/ Part(sent))
  BY ReceiveIs
<1>4. stage = "answered"
  BY ReceiveIs
<1>5. got = <<>> \/ (from + Len(got) < Len(body) /\ ask.size <= MAX_PAYLOAD_SIZE)
  BY <1>4 DEF IInv, Progress
<1>6. ~Fits
  BY DEF Refused2
<1>7. MAX_PAYLOAD_SIZE \in Nat
  BY MaxType DEF MaxIsSize
<1>8. ASSUME ask = NoBlock PROVE from + Len(got) = 0
  <2>1. ask.num * ask.size = 0
    BY <1>8 DEF NoBlock, Blk
  <2> QED BY <1>3, <2>1
<1>9. ASSUME ask # NoBlock
      PROVE  /\ size \in Nat /\ size <= ask.size
             /\ (ask.size <= MAX_PAYLOAD_SIZE => size = ask.size)
  BY <1>2, <1>9, AgreedType
<1> HIDE DEF Why, size
<1>10. CASE Refusal(sent)
  <2>1. CASE ask # NoBlock /\ Len(body) <= size * ask.num
    <3>1. size \in Nat /\ size <= ask.size /\ (ask.size <= MAX_PAYLOAD_SIZE => size = ask.size)
      BY <1>9, <2>1
    <3>2. CASE got = <<>>
      <4>1. from = ask.num * ask.size
        BY <1>1, <1>3, <3>2
      <4>2. size * ask.num <= ask.num * ask.size
        BY <1>2, <3>1
      <4>3. from >= Len(body)
        BY <1>1, <1>2, <2>1, <3>1, <4>1, <4>2
      <4> QED BY <4>3 DEF Why
    <3>3. CASE got # <<>>
      <4>1. from + Len(got) < Len(body) /\ size = ask.size
        BY <1>5, <3>1, <3>3
      <4>2. size * ask.num = from + Len(got)
        BY <1>2, <1>3, <4>1
      <4> QED BY <1>1, <2>1, <4>1, <4>2
    <3> QED BY <3>2, <3>3
  <2>2. CASE ~(ask # NoBlock /\ Len(body) <= size * ask.num)
    BY <1>10, <2>2, Zenon DEF Refusal, Why, size
  <2> QED BY <2>1, <2>2
<1>11. CASE Whole(sent)
  <2>1. sent.code = CONTENT /\ Answered = NoBlock /\ (ask = NoBlock \/ body = <<>>)
    BY <1>1, <1>11, Zenon DEF Whole, WholeBody, Answered
  <2>2. CASE ask = NoBlock
    <3>1. Answered.num * Answered.size = 0
      BY <2>1 DEF NoBlock, Blk
    <3> QED BY <1>6, <1>8, <2>1, <2>2, <3>1, Zenon DEF Fits
  <2>3. CASE body = <<>>
    <3>1. from >= Len(body)
      BY <1>1, <2>3
    <3> QED BY <3>1 DEF Why
  <2> QED BY <2>1, <2>2, <2>3
<1>12. CASE Part(sent)
  <2>1. PICK blk : /\ IsBlockOf(sent, blk)
                   /\ ask = NoBlock => blk.num = 0
                   /\ ask # NoBlock => blk.num = ask.num /\ blk.size = size
    BY <1>1, <1>12, Zenon DEF Part, size
  <2>2. sent.code = CONTENT /\ Answered = blk /\ blk \in BlockOption
    BY <2>1, Zenon DEF IsBlockOf, Answered
  <2>3. blk.num * blk.size # from + Len(got)
    BY <1>6, <2>2, Zenon DEF Fits
  <2>4. blk.size \in Nat
    BY <2>2, BlockType
  <2>5. CASE ask = NoBlock
    <3>1. blk.num * blk.size = 0
      BY <2>1, <2>4, <2>5
    <3> QED BY <1>8, <2>3, <2>5, <3>1
  <2>6. CASE ask # NoBlock
    <3>1. blk.num * blk.size = ask.num * size
      BY <2>1, <2>6
    <3>2. size \in Nat /\ (ask.size <= MAX_PAYLOAD_SIZE => size = ask.size)
      BY <1>9, <2>6
    <3>3. size # ask.size
      BY <1>3, <2>3, <3>1, Zenon
    <3>4. ask.num # 0
      <4> SUFFICES ASSUME ask.num = 0 PROVE FALSE
        OBVIOUS
      <4>1. ask.num * size = 0 /\ ask.num * ask.size = 0
        BY <1>2, <3>2
      <4> QED BY <1>3, <2>3, <3>1, <4>1
    <3>5. ask.num > 0 /\ ask.size > MAX_PAYLOAD_SIZE
      BY <1>2, <1>7, <3>2, <3>3, <3>4
    <3> QED BY <3>5, Zenon DEF Why
  <2> QED BY <2>5, <2>6
<1> QED BY <1>3, <1>10, <1>11, <1>12, Zenon DEF Why

\* A server whose handlers check the Block2 option brings a transfer to the end
\* of the body, unless the client asked for what it cannot have.
THEOREM TransferReachesTheEndAlways ==
    ASSUME Setters \subseteq {"CheckBlockOpt"}
    PROVE  Spec => []TransferReachesTheEnd
<1>1. Init => TransferReachesTheEnd
  BY DEF Init, TransferReachesTheEnd
<1>2. IInv /\ TransferReachesTheEnd /\ [Next]_vars => TransferReachesTheEnd'
  <2> SUFFICES ASSUME IInv, TransferReachesTheEnd, [Next]_vars
               PROVE  TransferReachesTheEnd'
    OBVIOUS
  <2>1. CASE AddOption \/ Ask \/ Serve
    <3>1. stage' # "done" /\ stage' # "refused"
      BY <2>1 DEF AddOption, Ask, Serve
    <3> QED BY <3>1 DEF TransferReachesTheEnd
  <2>2. CASE Receive
    <3>1. UNCHANGED <<body, options, from>>
      BY <2>2, ReceiveIs
    <3>2. Types /\ BlocksFormTheBody /\ body \in Seq(Byte) /\ Len(body) \in Nat
      BY DEF IInv, Types
    <3>3. CASE Refused2
      <4>1. stage' = "refused" /\ ask' = ask
        BY <3>3 DEF Refused2
      <4>2. /\ UriOptionsAreEqual(options, ResourceUri)' = UriOptionsAreEqual(options, ResourceUri)
            /\ CheckForUnknownCriticalOption(options)' = CheckForUnknownCriticalOption(options)
        BY <3>1, Zenon
      <4>3. stage' # "done"
        BY <4>1
      <4>4. \/ from >= Len(body)
            \/ ask.num > 0 /\ ask.size > MAX_PAYLOAD_SIZE
            \/ CheckForUnknownCriticalOption(options) # 0
            \/ ~UriOptionsAreEqual(options, ResourceUri)
        BY <2>2, <3>3, RefusedWhy
      <4> QED BY <3>1, <4>1, <4>2, <4>3, <4>4, Zenon DEF TransferReachesTheEnd
    <3>4. CASE Ends
      <4>1. stage' = "done"
        BY <3>4 DEF Ends
      <4>2. from + Len(got') = Len(body)
        BY <3>2, <3>4, KeepWhole, Zenon DEF Ends, Keeps
      <4> QED BY <3>1, <3>2, <4>1, <4>2 DEF TransferReachesTheEnd
    <3>5. ASSUME NEW blk, Continues(blk) PROVE TransferReachesTheEnd'
      <4>1. stage' = IF blk.more THEN "build" ELSE "done"
        BY <3>5 DEF Continues
      <4>2. from + Len(got') = BlockEnd(blk)
        BY <3>2, <3>5, KeepBlock, Zenon DEF Continues, Keeps
      <4>3. CASE blk.more
        BY <4>1, <4>3 DEF TransferReachesTheEnd
      <4>4. CASE ~blk.more
        <5>1. stage' = "done" /\ from + Len(got') = Len(body)
          BY <4>1, <4>2, <4>4, Zenon DEF BlockEnd
        <5> QED BY <3>1, <3>2, <5>1 DEF TransferReachesTheEnd
      <4> QED BY <4>3, <4>4
    <3> QED BY <2>2, <3>3, <3>4, <3>5, ReceiveCases, Zenon
  <2>3. CASE UNCHANGED vars
    <3>1. UNCHANGED <<body, stage, options, ask, from, got>>
      BY <2>3 DEF vars
    <3> QED BY <3>1, Zenon DEF TransferReachesTheEnd
  <2> QED BY <2>1, <2>2, <2>3 DEF Next
<1> QED BY <1>1, <1>2, IInvHolds, PTL DEF Spec

\* A request for a block of a size the server can send is answered by that
\* block, if the handlers check the Block2 option.
THEOREM RequestedBlockIsSentAlways ==
    ASSUME Setters \subseteq {"CheckBlockOpt"}
    PROVE  Spec => []RequestedBlockIsSent
<1>1. ASSUME IInv PROVE RequestedBlockIsSent
  <2> SUFFICES ASSUME stage = "answered", sent.code = CONTENT, body # <<>>,
                      ask # NoBlock, ask.size <= MAX_PAYLOAD_SIZE
               PROVE  /\ GetBlockOption(sent.options).num = ask.num
                      /\ GetBlockOption(sent.options).size = ask.size
    BY Zenon DEF RequestedBlockIsSent
  <2>1. Types /\ Lists /\ sent = AnswerTo(Request)
    BY <1>1 DEF IInv, Wires
  <2>2. Refusal(sent) \/ Whole(sent) \/ Part(sent)
    BY <2>1, ServerAnswers
  <2>3. ask \in BlockOption /\ setter # "SetPayload"
    BY <2>1 DEF Types
  <2>4. Part(sent)
    BY <2>2, <2>3, Zenon DEF Refusal, Whole
  <2>5. PICK blk : IsBlockOf(sent, blk) /\ blk.num = ask.num /\ blk.size = AgreedSize(ask)
    BY <2>3, <2>4, Zenon DEF Part
  <2>6. AgreedSize(ask) = ask.size
    BY <2>3, AgreedType
  <2> QED BY <2>5, <2>6, Zenon DEF IsBlockOf
<1> QED BY <1>1, IInvHolds, PTL

=============================================================================
