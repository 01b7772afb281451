--------------------------- MODULE CoapWire_proofs ---------------------------
(***************************************************************************)
(* What the coding of CoapWire does to every message, not to the handful a *)
(* run enumerates: a datagram is read back as the message it was built     *)
(* from, fills exactly the room its sender allocated, and invents no       *)
(* option when it arrives cut off.                                         *)
(*                                                                         *)
(* The recursive functions of the model (FlattenSeq, FoldLeft, the loop of *)
(* the parser) are shown to exist first; what they compute then follows by *)
(* induction on a set of numbers.                                          *)
(***************************************************************************)
EXTENDS CoapWire, SequenceTheorems, WellFoundedInduction, TLAPS

LEMMA UpTo ==
    ASSUME NEW N \in Nat, NEW S, 0 \in S, \A n \in 0 .. N - 1 : n \in S => n + 1 \in S
    PROVE  \A n \in 0 .. N : n \in S
<1> SUFFICES ASSUME \E n \in 0 .. N : n \notin S PROVE FALSE
  OBVIOUS
<1> DEFINE T == {n \in 0 .. N : n \notin S}
<1>1. T \subseteq Nat /\ T # {}
  OBVIOUS
<1>2. PICK x \in T : \A y \in T : ~(<<y, x>> \in OpToRel(<, Nat))
  BY <1>1, WFMin, NatLessThanWellFounded
<1>3. x \in 1 .. N
  OBVIOUS
<1>4. x - 1 \notin T
  <2>1. <<x - 1, x>> \in Nat \X Nat /\ x - 1 < x
    BY <1>3
  <2>2. <<x - 1, x>> \in OpToRel(<, Nat)
    BY <2>1, Zenon DEF OpToRel
  <2> QED BY <1>2, <2>2
<1> QED BY <1>3, <1>4

-----------------------------------------------------------------------------
(* Recursion *)

\* A function on 0 .. n defined by recursion exists.
Recurs(f, n, S, base, step) ==
    /\ f \in [0 .. n -> S]
    /\ f[0] = base
    /\ \A k \in 0 .. n - 1 : f[k + 1] = step[k + 1][f[k]]

LEMMA Recursion ==
    ASSUME NEW n \in Nat, NEW S, NEW base \in S, NEW step \in [1 .. n -> [S -> S]]
    PROVE  \E f : Recurs(f, n, S, base, step)
<1> DEFINE Q == {m \in 0 .. n : \E f : Recurs(f, m, S, base, step)}
<1>1. 0 \in Q
  <2> DEFINE f == [k \in 0 .. 0 |-> base]
  <2>1. Recurs(f, 0, S, base, step)
    BY DEF Recurs
  <2> HIDE DEF f
  <2> QED BY <2>1
<1>2. ASSUME NEW m \in 0 .. n - 1, m \in Q PROVE m + 1 \in Q
  <2>1. PICK g : Recurs(g, m, S, base, step)
    BY <1>2
  <2>2. /\ g \in [0 .. m -> S] /\ g[0] = base
        /\ \A k \in 0 .. m - 1 : g[k + 1] = step[k + 1][g[k]]
    BY <2>1 DEF Recurs
  <2> DEFINE f == [k \in 0 .. m + 1 |-> IF k = m + 1 THEN step[m + 1][g[m]] ELSE g[k]]
  <2>3. g[m] \in S /\ m + 1 \in 1 .. n /\ step[m + 1] \in [S -> S]
    BY <2>2
  <2>4. f \in [0 .. m + 1 -> S]
    BY <2>2, <2>3
  <2>5. (\A k \in 0 .. m : f[k] = g[k]) /\ f[m + 1] = step[m + 1][g[m]]
    OBVIOUS
  <2> HIDE DEF f
  <2>6. ASSUME NEW k \in 0 .. m PROVE f[k + 1] = step[k + 1][f[k]]
    <3>1. CASE k = m
      BY <3>1, <2>5
    <3>2. CASE k \in 0 .. m - 1
      <4>1. g[k + 1] = step[k + 1][g[k]] /\ k + 1 \in 0 .. m
        BY <2>2, <3>2
      <4> QED BY <4>1, <2>5
    <3> QED BY <3>1, <3>2
  <2>7. Recurs(f, m + 1, S, base, step)
    <3>1. (m + 1) - 1 = m /\ 0 \in 0 .. m
      OBVIOUS
    <3> QED BY <3>1, <2>2, <2>4, <2>5, <2>6 DEF Recurs
  <2> QED BY <1>2, <2>7
<1>3. \A m \in 0 .. n : m \in Q
  <2> HIDE DEF Q
  <2> QED BY <1>1, <1>2, UpTo
<1> QED BY <1>3

\* f[k] is the concatenation of the first k sequences.
Joins(f, seqs, T) ==
    /\ f \in [0 .. Len(seqs) -> Seq(T)]
    /\ f[0] = <<>>
    /\ \A k \in 0 .. Len(seqs) - 1 : f[k + 1] = f[k] \o seqs[k + 1]

LEMMA JoinsExists ==
    ASSUME NEW T, NEW seqs \in Seq(Seq(T))
    PROVE  \E f : Joins(f, seqs, T)
<1> DEFINE n == Len(seqs)
           step == [k \in 1 .. n |-> [s \in Seq(T) |-> s \o seqs[k]]]
<1>1. n \in Nat /\ <<>> \in Seq(T)
  OBVIOUS
<1>2. step \in [1 .. n -> [Seq(T) -> Seq(T)]]
  <2>1. ASSUME NEW k \in 1 .. n, NEW s \in Seq(T) PROVE s \o seqs[k] \in Seq(T)
    OBVIOUS
  <2>2. ASSUME NEW k \in 1 .. n PROVE [s \in Seq(T) |-> s \o seqs[k]] \in [Seq(T) -> Seq(T)]
    BY <2>1
  <2> QED BY <2>2
<1>3. \A k \in 1 .. n, s \in Seq(T) : step[k][s] = s \o seqs[k]
  OBVIOUS
<1> HIDE DEF step
<1>4. PICK f : Recurs(f, n, Seq(T), <<>>, step)
  <2> HIDE DEF n
  <2> QED BY <1>1, <1>2, Recursion
<1>5. ASSUME NEW k \in 0 .. n - 1 PROVE f[k + 1] = f[k] \o seqs[k + 1]
  <2>0. k \in 0 .. n /\ k + 1 \in 1 .. n
    BY <1>1
  <2>1. f[k] \in Seq(T) /\ f[k + 1] = step[k + 1][f[k]]
    BY <1>4, <2>0, Zenon DEF Recurs
  <2> QED BY <2>0, <2>1, <1>3, Zenon
<1> QED BY <1>4, <1>5 DEF Joins, Recurs

LEMMA FlattenJoins ==
    ASSUME NEW T, NEW seqs \in Seq(Seq(T)), NEW f, Joins(f, seqs, T)
    PROVE  FlattenSeq(seqs) = f[Len(seqs)]
<1> DEFINE n == Len(seqs)
           Def(g) == g = [i \in 1 .. n |-> IF i = 1 THEN seqs[i] ELSE g[i - 1] \o seqs[i]]
           flatten == CHOOSE g : Def(g)
<1>1. n \in Nat
  OBVIOUS
<1>2. CASE n = 0
  <2>1. seqs = <<>>
    BY <1>2
  <2>2. FlattenSeq(seqs) = seqs
    BY <1>2 DEF FlattenSeq
  <2> QED BY <2>1, <2>2, <1>2 DEF Joins
<1>3. CASE n # 0
  <2>1. FlattenSeq(seqs) = flatten[n]
    BY <1>3, Zenon DEF FlattenSeq
  <2>2. f[0] = <<>> /\ \A k \in 0 .. n - 1 : f[k + 1] = f[k] \o seqs[k + 1]
    BY DEF Joins
  <2>3. \E g : Def(g)
    <3> DEFINE g == [i \in 1 .. n |-> f[i]]
    <3>1. ASSUME NEW i \in 1 .. n PROVE g[i] = IF i = 1 THEN seqs[i] ELSE g[i - 1] \o seqs[i]
      <4>1. PICK k \in 0 .. n - 1 : i = k + 1 /\ i - 1 = k
        <5>1. i - 1 \in 0 .. n - 1 /\ i = (i - 1) + 1
          OBVIOUS
        <5> QED BY <5>1
      <4>2. f[i] = f[k] \o seqs[i]
        BY <2>2, <4>1, Zenon
      <4>0. g[i] = f[i] /\ seqs[i] \in Seq(T)
        OBVIOUS
      <4>3. CASE i = 1
        <5>1. k = 0
          BY <4>1, <4>3
        <5>2. f[i] = <<>> \o seqs[i]
          BY <2>2, <4>2, <5>1, Zenon
        <5>3. <<>> \o seqs[i] = seqs[i]
          BY <4>0, ConcatEmptySeq
        <5> QED BY <4>0, <4>3, <5>2, <5>3, Zenon
      <4>4. CASE i # 1
        <5>1. k \in 1 .. n
          BY <4>1, <4>4
        <5>2. g[k] = f[k]
          BY <5>1
        <5> QED BY <4>0, <4>1, <4>2, <4>4, <5>2, Zenon
      <4> QED BY <4>3, <4>4
    <3>2. g = [i \in 1 .. n |-> g[i]]
      OBVIOUS
    <3> HIDE DEF g
    <3>3. Def(g)
      BY <3>1, <3>2
    <3> QED BY <3>3
  <2>4. Def(flatten)
    BY <2>3
  <2> HIDE DEF flatten
  <2> DEFINE Q == {i \in 0 .. n : i = 0 \/ flatten[i] = f[i]}
  <2>5. ASSUME NEW i \in 1 .. n
        PROVE  flatten[i] = IF i = 1 THEN seqs[i] ELSE flatten[i - 1] \o seqs[i]
    BY <2>4
  <2>6. ASSUME NEW i \in 0 .. n - 1, i \in Q PROVE i + 1 \in Q
    <3>1. i + 1 \in 1 .. n /\ (i + 1) - 1 = i /\ seqs[i + 1] \in Seq(T)
      BY <1>1
    <3>2. f[i + 1] = f[i] \o seqs[i + 1] /\ f[0] = <<>>
      BY <2>2
    <3>3. flatten[i + 1] = IF i = 0 THEN seqs[i + 1] ELSE flatten[i] \o seqs[i + 1]
      BY <2>5, <3>1
    <3>4. flatten[i + 1] = f[i + 1]
      <4>1. CASE i = 0
        <5>1. <<>> \o seqs[i + 1] = seqs[i + 1]
          BY <3>1, ConcatEmptySeq
        <5> QED BY <4>1, <5>1, <3>2, <3>3, Zenon
      <4>2. CASE i # 0
        BY <4>2, <2>6, <3>2, <3>3, Zenon
      <4> QED BY <4>1, <4>2
    <3> QED BY <3>1, <3>4
  <2>7. \A i \in 0 .. n : i \in Q
    <3>1. 0 \in Q
      BY <1>1
    <3> HIDE DEF Q, n
    <3> QED BY <1>1, <2>6, <3>1, UpTo
  <2> QED BY <1>1, <1>3, <2>1, <2>7
<1> QED BY <1>2, <1>3

LEMMA FlattenType ==
    ASSUME NEW T, NEW seqs \in Seq(Seq(T))
    PROVE  FlattenSeq(seqs) \in Seq(T)
<1>1. PICK f : Joins(f, seqs, T)
  BY JoinsExists
<1>2. FlattenSeq(seqs) = f[Len(seqs)] /\ Len(seqs) \in 0 .. Len(seqs)
  BY <1>1, FlattenJoins
<1> QED BY <1>1, <1>2 DEF Joins

LEMMA FlattenEmpty == FlattenSeq(<<>>) = <<>>
BY DEF FlattenSeq

LEMMA FlattenAppend ==
    ASSUME NEW T, NEW seqs \in Seq(Seq(T)), NEW s \in Seq(T)
    PROVE  FlattenSeq(Append(seqs, s)) = FlattenSeq(seqs) \o s
<1> DEFINE a == Append(seqs, s)
           n == Len(seqs)
<1>1. PICK f : Joins(f, seqs, T)
  BY JoinsExists
<1>2. a \in Seq(Seq(T)) /\ Len(a) = n + 1 /\ n \in Nat /\ a[n + 1] = s
      /\ \A k \in 1 .. n : a[k] = seqs[k]
  OBVIOUS
<1> HIDE DEF a
<1> DEFINE g == [k \in 0 .. n + 1 |-> IF k = n + 1 THEN f[n] \o s ELSE f[k]]
<1>3. f[n] \in Seq(T) /\ f[n] \o s \in Seq(T) /\ \A k \in 0 .. n : f[k] \in Seq(T)
  <2>1. \A k \in 0 .. n : f[k] \in Seq(T)
    BY <1>1, <1>2 DEF Joins
  <2> QED BY <1>2, <2>1
<1>4. /\ g \in [0 .. n + 1 -> Seq(T)] /\ g[n + 1] = f[n] \o s
      /\ \A k \in 0 .. n : g[k] = f[k]
  BY <1>2, <1>3
<1> HIDE DEF g
<1>5. ASSUME NEW k \in 0 .. n PROVE g[k + 1] = g[k] \o a[k + 1]
  <2>1. CASE k = n
    BY <2>1, <1>2, <1>4
  <2>2. CASE k \in 0 .. n - 1
    <3>1. f[k + 1] = f[k] \o seqs[k + 1]
      BY <1>1, <2>2, Zenon DEF Joins
    <3>2. k + 1 \in 1 .. n /\ k + 1 \in 0 .. n /\ k \in 0 .. n
      BY <1>2, <2>2
    <3> QED BY <3>1, <3>2, <1>2, <1>4, Zenon
  <2>3. k = n \/ k \in 0 .. n - 1
    BY <1>2
  <2> QED BY <2>1, <2>2, <2>3
<1>6. Joins(g, a, T)
  <2>1. g[0] = <<>>
    BY <1>1, <1>2, <1>4 DEF Joins
  <2>2. Len(a) - 1 = n
    BY <1>2
  <2> QED BY <1>2, <1>4, <1>5, <2>1, <2>2 DEF Joins
<1>7. FlattenSeq(a) = g[n + 1] /\ FlattenSeq(seqs) = f[n]
  BY <1>1, <1>2, <1>6, FlattenJoins
<1> QED BY <1>4, <1>7 DEF a

-----------------------------------------------------------------------------
(* Packing *)

LastNumber(list) == IF list = <<>> THEN 0 ELSE list[Len(list)].Number

\* The bytes of an option at a distance d from the one before it.
BytesOf(d, v) ==
    << 16 * Nibble(d) + Nibble(Len(v)) >> \o Extended(d) \o Extended(Len(v)) \o v

\* An option that follows one with the number "last", as bytes.
Coded(last, o) == BytesOf((o.Number - last) % Word, o.Value)

LEMMA FirstByte ==
    ASSUME NEW a \in 0 .. 14, NEW b \in 0 .. 14
    PROVE  /\ 16 * a + b \in Byte /\ 16 * a + b # OPTION_PAYLOAD_MARKER
           /\ (16 * a + b) \div 16 = a /\ (16 * a + b) % 16 = b
BY DEF Byte, OPTION_PAYLOAD_MARKER

\* The arithmetic of uint16_t; large literals are kept out of every other step.
LEMMA WordType ==
    /\ \A n \in Int : n % Word \in Nat /\ n % Word < Word
    /\ \A n \in Nat : n < Word => n % Word = n
    /\ \A n \in 0 .. Word - 1 : n \in Nat /\ n < Word
    /\ \A n \in Nat : n < Word => n \in 0 .. Word - 1
    /\ Word \in Nat /\ 269 < Word
<1>0. Word \in Nat
  BY SMT DEF Word
<1>1. ASSUME NEW n \in Int PROVE n % Word \in Nat /\ n % Word < Word
  BY SMT DEF Word
<1>2. ASSUME NEW n \in Nat, n < Word PROVE n % Word = n
  BY <1>2, SMT DEF Word
<1>3. ASSUME NEW n \in 0 .. Word - 1 PROVE n \in Nat /\ n < Word
  BY <1>0
<1>4. ASSUME NEW n \in Nat, n < Word PROVE n \in 0 .. Word - 1
  BY <1>0, <1>4
<1>5. Word \in Nat /\ 269 < Word
  BY SMT DEF Word
<1> QED BY <1>1, <1>2, <1>3, <1>4, <1>5

LEMMA OptionType ==
    ASSUME NEW o \in Option
    PROVE  /\ o.Number \in Nat /\ o.Number < Word
           /\ o.Value \in Seq(Byte) /\ Len(o.Value) \in Nat
<1>1. o.Number \in 0 .. Word - 1 /\ o.Value \in Seq(Byte)
  BY DEF Option
<1>2. o.Number \in Nat /\ o.Number < Word
  BY <1>1, WordType
<1> QED BY <1>1, <1>2

LEMMA ExtendedType ==
    ASSUME NEW n \in Nat
    PROVE  /\ Extended(n) \in Seq(Byte)
           /\ Len(Extended(n)) = IF n < 13 THEN 0 ELSE IF n < 269 THEN 1 ELSE 2
           /\ Nibble(n) = IF n < 13 THEN n ELSE IF n < 269 THEN 13 ELSE 14
           /\ Nibble(n) \in 0 .. 14
<1>1. /\ Nibble(n) = IF n < 13 THEN n ELSE IF n < 269 THEN 13 ELSE 14
      /\ Nibble(n) \in 0 .. 14
  BY DEF Nibble
<1>2. CASE n < 13
  <2>1. Nibble(n) # 13 /\ Nibble(n) # 14
    BY <1>1, <1>2
  <2>2. Extended(n) = <<>>
    BY <2>1 DEF Extended
  <2> QED BY <1>1, <1>2, <2>2
<1>3. CASE 13 <= n /\ n < 269
  <2>1. Extended(n) = << (n - 13) % 256 >>
    BY <1>1, <1>3 DEF Extended
  <2>2. (n - 13) % 256 \in Byte
    BY DEF Byte
  <2> QED BY <1>1, <1>3, <2>1, <2>2
<1>4. CASE 269 <= n
  <2>1. Extended(n) = << ((n - 269) \div 256) % 256, (n - 269) % 256 >>
    BY <1>1, <1>4 DEF Extended
  <2>2. ((n - 269) \div 256) % 256 \in Byte /\ (n - 269) % 256 \in Byte
    BY <1>4 DEF Byte
  <2> QED BY <1>1, <1>4, <2>1, <2>2
<1> QED BY <1>2, <1>3, <1>4

LEMMA CodedType ==
    ASSUME NEW last \in Nat, NEW o \in Option
    PROVE  Coded(last, o) \in Seq(Byte)
<1> DEFINE d == (o.Number - last) % Word
<1>1. d \in Nat /\ o.Value \in Seq(Byte) /\ Len(o.Value) \in Nat
  <2>1. o.Number - last \in Int
    BY OptionType
  <2> QED BY <2>1, OptionType, WordType
<1>2. /\ Extended(d) \in Seq(Byte) /\ Extended(Len(o.Value)) \in Seq(Byte)
      /\ Nibble(d) \in 0 .. 14 /\ Nibble(Len(o.Value)) \in 0 .. 14
  BY <1>1, ExtendedType
<1>3. 16 * Nibble(d) + Nibble(Len(o.Value)) \in Byte
  BY <1>2, FirstByte
<1>4. << 16 * Nibble(d) + Nibble(Len(o.Value)) >> \in Seq(Byte)
  BY <1>3
<1> HIDE DEF d
<1>5. Coded(last, o) = << 16 * Nibble(d) + Nibble(Len(o.Value)) >>
                         \o Extended(d) \o Extended(Len(o.Value)) \o o.Value
  BY DEF Coded, BytesOf, d
<1> QED BY <1>1, <1>2, <1>4, <1>5, ConcatProperties

LEMMA PackEmpty == PackOptionsFromList(<<>>) = <<>>
<1>1. [k \in DOMAIN <<>> |->
        LET value == <<>>[k].Value IN
        << 16 * Nibble(Delta(<<>>, k)) + Nibble(Len(value)) >>
            \o Extended(Delta(<<>>, k)) \o Extended(Len(value)) \o value] = <<>>
  OBVIOUS
<1> QED BY <1>1, FlattenEmpty DEF PackOptionsFromList

CodedAll(list) ==
    [k \in DOMAIN list |->
        Coded(IF k = 1 THEN 0 ELSE list[k - 1].Number, list[k])]

LEMMA PackIsCoded ==
    ASSUME NEW list
    PROVE  PackOptionsFromList(list) = FlattenSeq(CodedAll(list))
BY Zenon DEF PackOptionsFromList, CodedAll, Coded, BytesOf, Delta

LEMMA CodedAllType ==
    ASSUME NEW list \in Seq(Option)
    PROVE  CodedAll(list) \in Seq(Seq(Byte)) /\ Len(CodedAll(list)) = Len(list)
<1>1. DOMAIN list = 1 .. Len(list) /\ Len(list) \in Nat
  OBVIOUS
<1>2. ASSUME NEW k \in 1 .. Len(list)
      PROVE  Coded(IF k = 1 THEN 0 ELSE list[k - 1].Number, list[k]) \in Seq(Byte)
  <2>1. list[k] \in Option /\ (k # 1 => list[k - 1] \in Option)
    BY <1>1
  <2>2. (IF k = 1 THEN 0 ELSE list[k - 1].Number) \in Nat
    BY <2>1, OptionType
  <2> QED BY <2>1, <2>2, CodedType
<1>3. CodedAll(list) = [k \in 1 .. Len(list) |->
                            Coded(IF k = 1 THEN 0 ELSE list[k - 1].Number, list[k])]
  BY <1>1 DEF CodedAll
<1>4. CodedAll(list) \in [1 .. Len(list) -> Seq(Byte)]
  BY <1>2, <1>3, Zenon
<1> QED BY <1>1, <1>4

LEMMA PackType ==
    ASSUME NEW list \in Seq(Option)
    PROVE  PackOptionsFromList(list) \in Seq(Byte)
BY PackIsCoded, CodedAllType, FlattenType

LEMMA PackAppend ==
    ASSUME NEW list \in Seq(Option), NEW o \in Option
    PROVE  PackOptionsFromList(Append(list, o))
             = PackOptionsFromList(list) \o Coded(LastNumber(list), o)
<1> DEFINE a == Append(list, o)
           n == Len(list)
<1>1. /\ a \in Seq(Option) /\ Len(a) = n + 1 /\ n \in Nat /\ a[n + 1] = o
      /\ \A k \in 1 .. n : a[k] = list[k]
      /\ DOMAIN list = 1 .. n /\ DOMAIN a = 1 .. n + 1
  OBVIOUS
<1>2. Coded(LastNumber(list), o) \in Seq(Byte)
  <2>1. n # 0 => list[n] \in Option
    OBVIOUS
  <2>2. list = <<>> \/ n # 0
    OBVIOUS
  <2>3. LastNumber(list) \in Nat
    BY <2>1, <2>2, OptionType DEF LastNumber
  <2> QED BY <2>3, CodedType
<1>3. CodedAll(a) = Append(CodedAll(list), Coded(LastNumber(list), o))
  <2> DEFINE b == Append(CodedAll(list), Coded(LastNumber(list), o))
             c == CodedAll(list)
  <2>1. c \in Seq(Seq(Byte)) /\ Len(c) = n
    BY CodedAllType
  <2>2. /\ b \in Seq(Seq(Byte)) /\ Len(b) = n + 1 /\ b[n + 1] = Coded(LastNumber(list), o)
        /\ \A k \in 1 .. n : b[k] = c[k]
    <3> DEFINE x == Coded(LastNumber(list), o)
    <3> HIDE DEF c, x
    <3>1. x \in Seq(Byte)
      BY <1>2 DEF x
    <3>2. \A k \in 1 .. Len(c) : Append(c, x)[k] = c[k]
      BY <2>1, <3>1, AppendProperties
    <3>3. /\ Append(c, x) \in Seq(Seq(Byte)) /\ Len(Append(c, x)) = n + 1
          /\ Append(c, x)[n + 1] = x
      BY <2>1, <3>1, AppendProperties
    <3>4. \A k \in 1 .. n : Append(c, x)[k] = c[k]
      BY <2>1, <3>2
    <3>5. b = Append(c, x)
      BY DEF x, c
    <3> HIDE DEF b
    <3> QED BY <3>3, <3>4, <3>5 DEF x
  <2> HIDE DEF b
  <2>3. CodedAll(a) \in Seq(Seq(Byte)) /\ Len(CodedAll(a)) = n + 1
    BY <1>1, CodedAllType
  <2> HIDE DEF a
  <2>4. ASSUME NEW k \in 1 .. n + 1 PROVE CodedAll(a)[k] = b[k]
    <3>1. CodedAll(a)[k] = Coded(IF k = 1 THEN 0 ELSE a[k - 1].Number, a[k])
      BY <1>1 DEF CodedAll
    <3>2. CASE k = n + 1
      <4>1. (IF k = 1 THEN 0 ELSE a[k - 1].Number) = LastNumber(list)
        <5>1. CASE n = 0
          BY <5>1, <3>2 DEF LastNumber
        <5>2. CASE n # 0
          <6>1. a[n] = list[n] /\ k - 1 = n /\ k # 1 /\ list # <<>>
            BY <5>2, <3>2, <1>1
          <6> QED BY <6>1 DEF LastNumber
        <5> QED BY <5>1, <5>2
      <4> QED BY <4>1, <3>1, <3>2, <2>2, <1>1
    <3>3. CASE k \in 1 .. n
      <4>1. c[k] = Coded(IF k = 1 THEN 0 ELSE list[k - 1].Number, list[k])
        BY <3>3, <1>1 DEF CodedAll
      <4>2. a[k] = list[k] /\ (k # 1 => a[k - 1] = list[k - 1])
        BY <3>3, <1>1
      <4>3. (IF k = 1 THEN 0 ELSE a[k - 1].Number) = IF k = 1 THEN 0 ELSE list[k - 1].Number
        BY <4>2
      <4> QED BY <3>1, <3>3, <4>1, <4>2, <4>3, <2>2
    <3> QED BY <1>1, <3>2, <3>3
  <2>5. CodedAll(a) = b
    BY <1>1, <2>2, <2>3, <2>4, SeqEqual
  <2> QED BY <2>5 DEF a, b
<1> QED BY <1>2, <1>3, PackIsCoded, CodedAllType, FlattenAppend

-----------------------------------------------------------------------------
(* Parsing an option *)

ByteAt(raw, stray, i) == IF i < Len(raw) THEN raw[i + 1] ELSE stray

FieldSize(nibble) ==
    CASE nibble = 13 -> 1
      [] nibble = 14 -> 2
      [] OTHER       -> 0

FieldValue(raw, stray, nibble, i) ==
    CASE nibble = 13 -> ByteAt(raw, stray, i) + 13
      [] nibble = 14 -> (256 * ByteAt(raw, stray, i) + ByteAt(raw, stray, i + 1) + 269) % Word
      [] OTHER       -> nibble

FieldRead(raw, stray, nibble, i) ==
            CASE nibble = 13 -> [val |-> ByteAt(raw, stray, i) + 13, size |-> 1]
              [] nibble = 14 -> [val |-> (256 * ByteAt(raw, stray, i) + ByteAt(raw, stray, i + 1) + 269) % Word, size |-> 2]
              [] OTHER       -> [val |-> nibble, size |-> 0]

LEMMA FieldIs == ASSUME NEW raw, NEW stray, NEW nibble, NEW i
   PROVE FieldRead(raw, stray, nibble, i).val = FieldValue(raw, stray, nibble, i) /\ FieldRead(raw, stray, nibble, i).size = FieldSize(nibble)
<1>1. CASE nibble = 13
  BY <1>1, SMT DEF FieldRead, FieldValue, FieldSize
<1>2. CASE nibble = 14
  BY <1>2, SMT DEF FieldRead, FieldValue, FieldSize
<1>3. CASE nibble # 13 /\ nibble # 14
  BY <1>3, SMT DEF FieldRead, FieldValue, FieldSize
<1> QED BY <1>1, <1>2, <1>3

First(raw, stray, s) == ByteAt(raw, stray, s.offset)
DeltaSize(raw, stray, s) == FieldSize(First(raw, stray, s) \div 16)
DeltaRead(raw, stray, s) == FieldValue(raw, stray, First(raw, stray, s) \div 16, s.offset + 1)
LengthRead(raw, stray, s) ==
    FieldValue(raw, stray, First(raw, stray, s) % 16, s.offset + 1 + DeltaSize(raw, stray, s))
ValueStart(raw, stray, s) ==
    s.offset + 1 + DeltaSize(raw, stray, s) + FieldSize(First(raw, stray, s) % 16)

OptionRead(raw, stray, s) ==
    Opt((DeltaRead(raw, stray, s) + s.last) % Word,
        [i \in 1 .. LengthRead(raw, stray, s) |-> ByteAt(raw, stray, ValueStart(raw, stray, s) + i - 1)])

Refused(raw, stray, s) ==
    \/ First(raw, stray, s) \div 16 = 15
    \/ First(raw, stray, s) % 16 = 15
    \/ LengthRead(raw, stray, s) > MAX_OPTION_VALUE_SIZE
    \/ TooShort(raw, ValueStart(raw, stray, s), LengthRead(raw, stray, s))

LEMMA ParseOptionIs ==
    ASSUME NEW raw, NEW stray, NEW s
    PROVE  ParseOption(raw, stray, s) =
             IF Refused(raw, stray, s) THEN ParseError(s)
             ELSE [s EXCEPT !.offset = ValueStart(raw, stray, s) + LengthRead(raw, stray, s),
                            !.last   = (DeltaRead(raw, stray, s) + s.last) % Word,
                            !.list   = AppendOptionToList(@, OptionRead(raw, stray, s), TRUE)]
<1> DEFINE d == FieldRead(raw, stray, First(raw, stray, s) \div 16, s.offset + 1)
           l == FieldRead(raw, stray, First(raw, stray, s) % 16, s.offset + 1 + d.size)
<1>1. d.val = DeltaRead(raw, stray, s) /\ d.size = DeltaSize(raw, stray, s)
  BY FieldIs DEF DeltaRead, DeltaSize
<1>2. l.val = LengthRead(raw, stray, s) /\ s.offset + 1 + d.size + l.size = ValueStart(raw, stray, s)
  BY <1>1, FieldIs DEF LengthRead, ValueStart
<1>3. ParseOption(raw, stray, s) =
         IF \/ First(raw, stray, s) \div 16 = 15
            \/ First(raw, stray, s) % 16 = 15
            \/ l.val > MAX_OPTION_VALUE_SIZE
            \/ TooShort(raw, s.offset + 1 + d.size + l.size, l.val)
         THEN ParseError(s)
         ELSE [s EXCEPT !.offset = s.offset + 1 + d.size + l.size + l.val,
                        !.last   = (d.val + s.last) % Word,
                        !.list   = AppendOptionToList(@,
                           Opt((d.val + s.last) % Word,
                               [i \in 1 .. l.val |-> ByteAt(raw, stray, s.offset + 1 + d.size + l.size + i - 1)]), TRUE)]
  BY Zenon DEF ParseOption, FieldRead, ByteAt, First
<1> HIDE DEF d, l
<1> QED BY <1>1, <1>2, <1>3, Zenon DEF Refused, OptionRead

LEMMA TwoBytes ==
    ASSUME NEW m \in Nat, m + 269 < Word
    PROVE  /\ (m \div 256) % 256 \in Byte /\ m % 256 \in Byte
           /\ (256 * ((m \div 256) % 256) + (m % 256) + 269) % Word = m + 269
<1>1. m < 65536 /\ m + 269 \in Nat
  BY SMT DEF Word
<1>2. m \div 256 \in Nat /\ m = 256 * (m \div 256) + (m % 256) /\ m % 256 \in 0 .. 255
  BY SMT
<1>5. m \div 256 < 256
  BY <1>1, <1>2, SMT
<1>3. (m \div 256) % 256 = m \div 256
  BY <1>2, <1>5, SMT
<1>4. 256 * ((m \div 256) % 256) + (m % 256) + 269 = m + 269
  BY <1>2, <1>3, SMT
<1>6. (m \div 256) % 256 \in Byte /\ m % 256 \in Byte
  BY <1>2, <1>3, <1>5 DEF Byte
<1> QED BY <1>1, <1>4, <1>6, WordType

LEMMA FieldReadBack ==
    ASSUME NEW n \in Nat, n < Word, NEW raw \in Seq(Byte), NEW stray, NEW i \in Nat,
           i + Len(Extended(n)) <= Len(raw),
           \A j \in 1 .. Len(Extended(n)) : raw[i + j] = Extended(n)[j]
    PROVE  FieldValue(raw, stray, Nibble(n), i) = n
<1>1. CASE n < 13
  <2>1. Nibble(n) = n /\ n # 13 /\ n # 14
    BY <1>1 DEF Nibble
  <2> QED BY <2>1 DEF FieldValue
<1>2. CASE 13 <= n /\ n < 269
  <2>1. Nibble(n) = 13 /\ Extended(n) = << (n - 13) % 256 >>
    BY <1>2 DEF Nibble, Extended
  <2>2. raw[i + 1] = (n - 13) % 256 /\ i < Len(raw)
    BY <2>1
  <2>3. (n - 13) % 256 = n - 13
    BY <1>2
  <2> QED BY <2>1, <2>2, <2>3 DEF FieldValue, ByteAt
<1>3. CASE 269 <= n
  <2>1. Nibble(n) = 14 /\ Extended(n) = << ((n - 269) \div 256) % 256, (n - 269) % 256 >>
    BY <1>3 DEF Nibble, Extended
  <2>2. /\ raw[i + 1] = ((n - 269) \div 256) % 256 /\ raw[i + 2] = (n - 269) % 256
        /\ i < Len(raw) /\ i + 1 < Len(raw)
    BY <2>1
  <2>3. n - 269 \in Nat /\ (n - 269) + 269 = n
    BY <1>3
  <2>4. (256 * (((n - 269) \div 256) % 256) + ((n - 269) % 256) + 269) % Word = n
    BY <2>3, TwoBytes, SMTT(90)
  <2>5. (i + 1) + 1 = i + 2
    OBVIOUS
  <2>6. ByteAt(raw, stray, i) = raw[i + 1] /\ ByteAt(raw, stray, i + 1) = raw[i + 2]
    BY <2>2, <2>5 DEF ByteAt
  <2>7. FieldValue(raw, stray, 14, i)
          = (256 * ByteAt(raw, stray, i) + ByteAt(raw, stray, i + 1) + 269) % Word
    BY SMT DEF FieldValue
  <2> DEFINE x == ((n - 269) \div 256) % 256
             y == (n - 269) % 256
  <2>9. (256 * x + y + 269) % Word = n /\ raw[i + 1] = x /\ raw[i + 2] = y
    BY <2>2, <2>4
  <2> HIDE DEF x, y
  <2>8. FieldValue(raw, stray, 14, i) = n
    BY <2>6, <2>7, <2>9
  <2> QED BY <2>1, <2>8, Zenon
<1> QED BY <1>1, <1>2, <1>3

\* Where the bytes of an option are.
Holds(c, d, v) ==
    /\ c \in Seq(Byte)
    /\ Len(c) = 1 + Len(Extended(d)) + Len(Extended(Len(v))) + Len(v)
    /\ c[1] = 16 * Nibble(d) + Nibble(Len(v))
    /\ \A i \in 1 .. Len(Extended(d)) : c[1 + i] = Extended(d)[i]
    /\ \A i \in 1 .. Len(Extended(Len(v))) : c[1 + Len(Extended(d)) + i] = Extended(Len(v))[i]
    /\ \A i \in 1 .. Len(v) :
         c[1 + Len(Extended(d)) + Len(Extended(Len(v))) + i] = v[i]

LEMMA CodedBytes ==
    ASSUME NEW d \in Nat, NEW v \in Seq(Byte), NEW c, c = BytesOf(d, v)
    PROVE  Holds(c, d, v)
<1> DEFINE b == 16 * Nibble(d) + Nibble(Len(v))
           e == Extended(d)
           f == Extended(Len(v))
<1>1. b \in Byte /\ e \in Seq(Byte) /\ f \in Seq(Byte) /\ << b >> \in Seq(Byte)
  <2>1. Len(v) \in Nat
    OBVIOUS
  <2>2. e \in Seq(Byte) /\ f \in Seq(Byte) /\ Nibble(d) \in 0 .. 14 /\ Nibble(Len(v)) \in 0 .. 14
    BY <2>1, ExtendedType
  <2>3. b \in Byte
    BY <2>2, FirstByte
  <2> QED BY <2>2, <2>3
<1>2. c = << b >> \o e \o f \o v
  BY DEF BytesOf
<1> HIDE DEF b, e, f
<1>3. /\ << b >> \o e \in Seq(Byte) /\ Len(<< b >> \o e) = 1 + Len(e)
      /\ (<< b >> \o e)[1] = b
      /\ \A i \in 1 .. Len(e) : (<< b >> \o e)[1 + i] = e[i]
  BY <1>1
<1> DEFINE g == << b >> \o e
<1> HIDE DEF g
<1>4. /\ g \o f \in Seq(Byte) /\ Len(g \o f) = Len(g) + Len(f)
      /\ \A i \in 1 .. Len(g) : (g \o f)[i] = g[i]
      /\ \A i \in 1 .. Len(f) : (g \o f)[Len(g) + i] = f[i]
  BY <1>1, <1>3 DEF g
<1> DEFINE h == g \o f
<1> HIDE DEF h
<1>5. /\ h \o v \in Seq(Byte) /\ Len(h \o v) = Len(h) + Len(v)
      /\ \A i \in 1 .. Len(h) : (h \o v)[i] = h[i]
      /\ \A i \in 1 .. Len(v) : (h \o v)[Len(h) + i] = v[i]
  BY <1>4 DEF h
<1>6. c = h \o v
  BY <1>2 DEF g, h
<1>7. Len(e) \in Nat /\ Len(f) \in Nat /\ Len(v) \in Nat
  BY <1>1
<1>8. Len(g) = 1 + Len(e) /\ Len(h) = 1 + Len(e) + Len(f)
  BY <1>3, <1>4, <1>7 DEF g, h
<1>9. \A i \in 1 .. 1 + Len(e) : h[i] = g[i] /\ c[i] = h[i]
  <2> TAKE i \in 1 .. 1 + Len(e)
  <2>1. i \in 1 .. Len(g) /\ i \in 1 .. Len(h)
    BY <1>7, <1>8
  <2> QED BY <2>1, <1>4, <1>5, <1>6 DEF h
<1>10. c[1] = b /\ \A i \in 1 .. Len(e) : c[1 + i] = e[i]
  <2>1. g[1] = b /\ \A i \in 1 .. Len(e) : g[1 + i] = e[i]
    BY <1>3 DEF g
  <2>2. \A i \in 1 .. 1 + Len(e) : c[i] = g[i]
    BY <1>9
  <2>3. 1 \in 1 .. 1 + Len(e) /\ \A i \in 1 .. Len(e) : 1 + i \in 1 .. 1 + Len(e)
    BY <1>7
  <2> QED BY <2>1, <2>2, <2>3
<1>11. ASSUME NEW i \in 1 .. Len(f) PROVE c[1 + Len(e) + i] = f[i]
  <2>1. 1 + Len(e) + i \in 1 .. Len(h) /\ 1 + Len(e) + i = Len(g) + i
    BY <1>7, <1>8
  <2> QED BY <2>1, <1>4, <1>5, <1>6 DEF h
<1>12. ASSUME NEW i \in 1 .. Len(v) PROVE c[1 + Len(e) + Len(f) + i] = v[i]
  BY <1>5, <1>6, <1>8
<1>13. c \in Seq(Byte) /\ Len(c) = 1 + Len(e) + Len(f) + Len(v)
  BY <1>5, <1>6, <1>8
<1> QED BY <1>10, <1>11, <1>12, <1>13 DEF b, e, f, Holds

LEMMA ByteType == \A b \in Byte : b \in Nat /\ b < 256
BY DEF Byte

LEMMA FieldSizes ==
    ASSUME NEW n \in Nat
    PROVE  FieldSize(Nibble(n)) = Len(Extended(n)) /\ Len(Extended(n)) \in 0 .. 2
<1>1. CASE n < 13
  BY <1>1, ExtendedType DEF FieldSize
<1>2. CASE 13 <= n /\ n < 269
  BY <1>2, ExtendedType DEF FieldSize
<1>3. CASE 269 <= n
  BY <1>3, ExtendedType DEF FieldSize
<1> QED BY <1>1, <1>2, <1>3

ReadAfter(s, o, length) ==
    [s EXCEPT !.offset = @ + length, !.last = o.Number, !.list = AppendOptionToList(@, o, TRUE)]

\* Where a datagram holds the bytes of an option, whole or cut off, that option
\* is read, or none.
LEMMA ParseCoded ==
    ASSUME NEW raw \in Seq(Byte), NEW stray \in Byte, NEW s \in ParseState, NEW o \in Option,
           s.offset < Len(raw), s.last <= o.Number, Len(o.Value) <= MAX_OPTION_VALUE_SIZE,
           NEW c, c = Coded(s.last, o),
           \A i \in 1 .. Len(c) : s.offset + i <= Len(raw) => raw[s.offset + i] = c[i]
    PROVE  ParseOption(raw, stray, s) =
             IF s.offset + Len(c) <= Len(raw) THEN ReadAfter(s, o, Len(c)) ELSE ParseError(s)
<1> DEFINE d == o.Number - s.last
           v == o.Value
           n == Len(v)
           a == Len(Extended(d))
           b == Len(Extended(n))
           p == s.offset
           q == ValueStart(raw, stray, s)
           l == LengthRead(raw, stray, s)
<1>0. s.offset \in Nat /\ s.last \in 0 .. Word - 1
  BY DEF ParseState
<1>1. /\ p \in Nat /\ p < Len(raw) /\ Len(raw) \in Nat
      /\ s.last \in Nat /\ s.last < Word /\ o.Number \in Nat /\ o.Number < Word
      /\ v \in Seq(Byte) /\ n \in Nat
  <2>1. s.last \in Nat /\ s.last < Word
    BY <1>0, WordType
  <2>2. o.Number \in Nat /\ o.Number < Word /\ v \in Seq(Byte) /\ n \in Nat
    BY OptionType
  <2> QED BY <1>0, <2>1, <2>2
<1>2. d \in Nat /\ d < Word /\ d % Word = d
  <2>1. d \in Nat /\ d < Word
    <3>1. Word \in Nat
      BY WordType
    <3> QED BY <1>1, <3>1
  <2> QED BY <2>1, WordType
<1>3. n < Word /\ n <= MAX_OPTION_VALUE_SIZE
  BY <1>1, SMT DEF MAX_OPTION_VALUE_SIZE, Word
<1>4. c = BytesOf(d, v)
  BY <1>2, Zenon DEF Coded
<1>50. /\ c \in Seq(Byte) /\ Len(c) = 1 + a + b + n
       /\ c[1] = 16 * Nibble(d) + Nibble(n)
       /\ \A i \in 1 .. a : c[1 + i] = Extended(d)[i]
       /\ \A i \in 1 .. b : c[1 + a + i] = Extended(n)[i]
       /\ \A i \in 1 .. n : c[1 + a + b + i] = v[i]
  <2>1. v \in Seq(Byte) /\ d \in Nat
    BY <1>1, <1>2
  <2> HIDE DEF d, v
  <2>2. n = Len(v) /\ a = Len(Extended(d)) /\ b = Len(Extended(Len(v)))
    OBVIOUS
  <2> HIDE DEF n, a, b
  <2>3. Holds(c, d, v)
    BY <1>4, <2>1, CodedBytes
  <2> QED BY <2>2, <2>3, Zenon DEF Holds
<1>5. Len(c) = 1 + a + b + n
  BY <1>50
<1>6. a \in 0 .. 2 /\ b \in 0 .. 2 /\ FieldSize(Nibble(d)) = a /\ FieldSize(Nibble(n)) = b
  <2> HIDE DEF d, n
  <2> QED BY <1>1, <1>2, FieldSizes
<1>7. Nibble(d) \in 0 .. 14 /\ Nibble(n) \in 0 .. 14
  <2> HIDE DEF d, n
  <2> QED BY <1>1, <1>2, ExtendedType
<1>8. First(raw, stray, s) \div 16 = Nibble(d) /\ First(raw, stray, s) % 16 = Nibble(n)
  <2> HIDE DEF d, n, a, b
  <2>1. 1 \in 1 .. Len(c) /\ p + 1 <= Len(raw)
    <3> HIDE DEF p
    <3> QED BY <1>1, <1>5, <1>6
  <2>2. First(raw, stray, s) = c[1]
    BY <2>1 DEF First, ByteAt
  <2>3. First(raw, stray, s) = 16 * Nibble(d) + Nibble(n)
    BY <2>2, <1>50
  <2> QED BY <2>3, <1>7, FirstByte
<1>9. q = p + 1 + a + b
  BY <1>6, <1>8 DEF ValueStart, DeltaSize
<1> HIDE DEF d, v, n, a, b, p, q, l
<1>14. /\ a \in Nat /\ b \in Nat /\ n \in Nat /\ p \in Nat /\ Len(raw) \in Nat
       /\ Len(c) = 1 + a + b + n /\ q = p + 1 + a + b
  BY <1>1, <1>5, <1>6, <1>9
<1>10. l \in Nat
  <2>1. \A i \in Nat : ByteAt(raw, stray, i) \in Nat
    <3> TAKE i \in Nat
    <3>1. CASE i < Len(raw)
      <4>1. raw[i + 1] \in Byte
        BY <1>1, <3>1
      <4>2. raw[i + 1] \in Nat
        BY <4>1, ByteType
      <4> QED BY <4>2, <3>1 DEF ByteAt
    <3>2. CASE ~(i < Len(raw))
      BY <3>2 DEF ByteAt, Byte
    <3> QED BY <3>1, <3>2
  <2>2. p + 1 + DeltaSize(raw, stray, s) = p + 1 + a
    BY <1>6, <1>8 DEF DeltaSize
  <2>3. l = FieldValue(raw, stray, Nibble(n), p + 1 + a)
    BY <1>8, <2>2 DEF LengthRead, l, p
  <2> DEFINE i == p + 1 + a
  <2>4. i \in Nat /\ i + 1 \in Nat
    BY <1>1, <1>6
  <2> HIDE DEF i
  <2>5. ByteAt(raw, stray, i) \in Nat /\ ByteAt(raw, stray, i + 1) \in Nat
    BY <2>1, <2>4
  <2>6. (256 * ByteAt(raw, stray, i) + ByteAt(raw, stray, i + 1) + 269) % Word \in Nat
    <3>1. 256 * ByteAt(raw, stray, i) + ByteAt(raw, stray, i + 1) + 269 \in Int
      BY <2>5
    <3> QED BY <3>1, WordType
  <2>7. Nibble(n) \in Nat
    BY <1>7
  <2>8. FieldValue(raw, stray, Nibble(n), i) \in Nat
    BY <2>5, <2>6, <2>7 DEF FieldValue
  <2> QED BY <2>3, <2>8 DEF i
<1>11. ASSUME q <= Len(raw) PROVE l = n /\ DeltaRead(raw, stray, s) = d
  <2>1. DeltaRead(raw, stray, s) = FieldValue(raw, stray, Nibble(d), p + 1)
    BY <1>8 DEF DeltaRead, p
  <2>2. ASSUME NEW i \in 1 .. a PROVE raw[(p + 1) + i] = Extended(d)[i]
    <3>1. p + (1 + i) <= Len(raw) /\ 1 + i \in 1 .. Len(c) /\ p + (1 + i) = (p + 1) + i
      BY <1>11, <1>14
    <3>2. raw[p + (1 + i)] = c[1 + i]
      BY <3>1, Zenon DEF p
    <3> QED BY <3>1, <3>2, <1>50
  <2>3. (p + 1) + a <= Len(raw) /\ p + 1 \in Nat
    BY <1>1, <1>6, <1>9, <1>11
  <2>4. FieldValue(raw, stray, Nibble(d), p + 1) = d
    BY <1>2, <2>2, <2>3, FieldReadBack DEF a
  <2>5. l = FieldValue(raw, stray, Nibble(n), p + 1 + a)
    BY <1>6, <1>8 DEF LengthRead, DeltaSize, l, p
  <2>6. ASSUME NEW i \in 1 .. b PROVE raw[(p + 1 + a) + i] = Extended(n)[i]
    <3>1. /\ p + (1 + a + i) <= Len(raw) /\ 1 + a + i \in 1 .. Len(c)
          /\ p + (1 + a + i) = (p + 1 + a) + i
      BY <1>11, <1>14
    <3>2. raw[p + (1 + a + i)] = c[1 + a + i]
      BY <3>1, Zenon DEF p
    <3> QED BY <3>1, <3>2, <1>50
  <2>7. (p + 1 + a) + b <= Len(raw) /\ p + 1 + a \in Nat
    BY <1>1, <1>6, <1>9, <1>11
  <2>8. FieldValue(raw, stray, Nibble(n), p + 1 + a) = n
    BY <1>1, <1>3, <2>6, <2>7, FieldReadBack DEF b
  <2> QED BY <2>1, <2>4, <2>5, <2>8
<1>12. CASE p + Len(c) <= Len(raw)
  <2>1. q <= Len(raw) /\ q + n = p + Len(c) /\ q \in Nat
    BY <1>1, <1>5, <1>6, <1>9, <1>12
  <2>2. l = n /\ DeltaRead(raw, stray, s) = d
    BY <1>11, <2>1
  <2>3. (d + s.last) % Word = o.Number
    <3>1. d + s.last = o.Number
      BY <1>1 DEF d
    <3> QED BY <1>1, <3>1, WordType
  <2>4. ~Refused(raw, stray, s)
    <3>1. ~TooShort(raw, q, l)
      BY <1>1, <1>12, <2>1, <2>2 DEF TooShort
    <3>2. ~(l > MAX_OPTION_VALUE_SIZE)
      <4>1. MAX_OPTION_VALUE_SIZE \in Nat
        BY DEF MAX_OPTION_VALUE_SIZE
      <4> QED BY <4>1, <1>1, <1>3, <2>2
    <3>3. Nibble(d) # 15 /\ Nibble(n) # 15
      BY <1>7
    <3> QED BY <3>1, <3>2, <3>3, <1>8, Zenon DEF Refused, q, l
  <2>5. [i \in 1 .. l |-> ByteAt(raw, stray, q + i - 1)] = v
    <3>1. ASSUME NEW i \in 1 .. n PROVE ByteAt(raw, stray, q + i - 1) = v[i]
      <4>1. /\ q + i - 1 < Len(raw) /\ (q + i - 1) + 1 = p + (1 + a + b + i)
            /\ p + (1 + a + b + i) <= Len(raw) /\ 1 + a + b + i \in 1 .. Len(c)
        BY <1>1, <1>5, <1>6, <1>9, <2>1, <1>12
      <4>2. raw[p + (1 + a + b + i)] = c[1 + a + b + i]
        BY <4>1, Zenon DEF p
      <4>3. c[1 + a + b + i] = v[i]
        BY <1>50
      <4> QED BY <4>1, <4>2, <4>3, Zenon DEF ByteAt
    <3>2. v = [i \in 1 .. n |-> v[i]]
      BY <1>1 DEF n
    <3> QED BY <3>1, <3>2, <2>2
  <2>6. OptionRead(raw, stray, s) = o
    <3>1. OptionRead(raw, stray, s) = Opt(o.Number, o.Value)
      BY <2>2, <2>3, <2>5, Zenon DEF OptionRead, v, q, l
    <3>2. o = [Number |-> o.Number, Value |-> o.Value]
      BY DEF Option
    <3> QED BY <3>1, <3>2 DEF Opt
  <2>7. ParseOption(raw, stray, s) = ReadAfter(s, o, Len(c))
    <3>1. ParseOption(raw, stray, s) =
            [s EXCEPT !.offset = q + l, !.last = (DeltaRead(raw, stray, s) + s.last) % Word,
                      !.list = AppendOptionToList(@, OptionRead(raw, stray, s), TRUE)]
      BY <2>4, ParseOptionIs, Zenon DEF q, l
    <3>2. q + l = s.offset + Len(c)
      BY <2>1, <2>2 DEF p
    <3> QED BY <3>1, <3>2, <2>2, <2>3, <2>6, Zenon DEF ReadAfter
  <2> QED BY <2>7, <1>12 DEF p
<1>13. CASE ~(p + Len(c) <= Len(raw))
  <2>1. TooShort(raw, q, l)
    <3>1. CASE q <= Len(raw)
      <4>1. l = n
        BY <3>1, <1>11
      <4> QED BY <4>1, <3>1, <1>13, <1>14 DEF TooShort
    <3>2. CASE ~(q <= Len(raw))
      BY <3>2, <1>1, <1>6, <1>9, <1>10 DEF TooShort
    <3> QED BY <3>1, <3>2
  <2>2. Refused(raw, stray, s)
    BY <2>1, Zenon DEF Refused, q, l
  <2> QED BY <2>2, <1>13, ParseOptionIs, Zenon DEF p
<1> QED BY <1>12, <1>13

-----------------------------------------------------------------------------
(* The list of options *)
LEMMA Concat3 ==
    ASSUME NEW T
    PROVE  \A f, g, x \in Seq(T) : (f \o g) \o x = f \o (g \o x)
BY ConcatAssociative

LEMMA FlattenConcat ==
    ASSUME NEW T, NEW s \in Seq(Seq(T)), NEW t \in Seq(Seq(T))
    PROVE  FlattenSeq(s \o t) = FlattenSeq(s) \o FlattenSeq(t)
<1> DEFINE n == Len(t)
           S == Seq(T)
           u(k) == SubSeq(t, 1, k)
           Q == {k \in 0 .. n : FlattenSeq(s \o u(k)) = FlattenSeq(s) \o FlattenSeq(u(k))}
<1>1. n \in Nat /\ FlattenSeq(s) \in S
  BY FlattenType
<1>0. \A f, g, x \in Seq(T) : (f \o g) \o x = f \o (g \o x)
  BY Concat3, SMTT(90)
<1>2. 0 \in Q
  <2>1. u(0) = <<>> /\ s \o <<>> = s
    OBVIOUS
  <2>2. FlattenSeq(s) \o <<>> = FlattenSeq(s)
    BY <1>1, ConcatEmptySeq
  <2> HIDE DEF u
  <2>3. FlattenSeq(s \o u(0)) = FlattenSeq(s) \o FlattenSeq(u(0))
    BY <2>1, <2>2, FlattenEmpty, Zenon
  <2> QED BY <1>1, <2>3
<1>3. ASSUME NEW k \in 0 .. n - 1, k \in Q PROVE k + 1 \in Q
  <2>1. /\ u(k) \in Seq(S) /\ t[k + 1] \in S /\ u(k + 1) = Append(u(k), t[k + 1])
        /\ s \o u(k) \in Seq(S)
    OBVIOUS
  <2> DEFINE v == u(k)
             x == t[k + 1]
  <2>2. v \in Seq(S) /\ x \in S /\ u(k + 1) = Append(v, x) /\ s \o v \in Seq(S)
    BY <2>1
  <2>3. FlattenSeq(s \o v) = FlattenSeq(s) \o FlattenSeq(v)
    BY <1>3
  <2> HIDE DEF v, x, u
  <2>4. s \o Append(v, x) = Append(s \o v, x)
    BY <2>2, SMTT(90)
  <2>5. FlattenSeq(Append(s \o v, x)) = FlattenSeq(s \o v) \o x
    BY <2>2, FlattenAppend
  <2>6. FlattenSeq(Append(v, x)) = FlattenSeq(v) \o x
    BY <2>2, FlattenAppend
  <2>7. FlattenSeq(v) \in S
    BY <2>2, FlattenType
  <2>8. (FlattenSeq(s) \o FlattenSeq(v)) \o x = FlattenSeq(s) \o (FlattenSeq(v) \o x)
    <3> DEFINE f == FlattenSeq(s)
               g == FlattenSeq(v)
    <3>1. f \in Seq(T) /\ g \in Seq(T) /\ x \in Seq(T)
      BY <1>1, <2>2, <2>7
    <3> HIDE DEF f, g
    <3>2. (f \o g) \o x = f \o (g \o x)
      BY <3>1, <1>0
    <3> QED BY <3>2 DEF f, g
  <2>9. FlattenSeq(s \o u(k + 1)) = FlattenSeq(s) \o FlattenSeq(u(k + 1))
    BY <2>2, <2>3, <2>4, <2>5, <2>6, <2>8, Zenon
  <2>10. k + 1 \in 0 .. n
    BY <1>1
  <2> QED BY <2>9, <2>10
<1>4. n \in Q
  <2> HIDE DEF Q, n
  <2>1. \A k \in 0 .. n : k \in Q
    BY <1>1, <1>2, <1>3, UpTo
  <2> QED BY <1>1, <2>1
<1>5. u(n) = t
  OBVIOUS
<1> QED BY <1>4, <1>5

Ascending(list) == \A j, k \in 1 .. Len(list) : j <= k => list[j].Number <= list[k].Number

\* What an option becomes in OptionsAmong.
Kept(o, numbers) == IF o.Number \in numbers THEN << o >> ELSE <<>>
KeptAll(list, numbers) == [k \in DOMAIN list |-> Kept(list[k], numbers)]

LEMMA KeptType ==
    ASSUME NEW list \in Seq(Option), NEW numbers
    PROVE  /\ OptionsAmong(list, numbers) = FlattenSeq(KeptAll(list, numbers))
           /\ KeptAll(list, numbers) \in Seq(Seq(Option))
           /\ Len(KeptAll(list, numbers)) = Len(list)
           /\ \A k \in 1 .. Len(list) : KeptAll(list, numbers)[k] = Kept(list[k], numbers)
<1>1. OptionsAmong(list, numbers) = FlattenSeq(KeptAll(list, numbers))
  BY Zenon DEF OptionsAmong, KeptAll, Kept
<1>2. DOMAIN list = 1 .. Len(list) /\ Len(list) \in Nat
  OBVIOUS
<1>3. ASSUME NEW k \in 1 .. Len(list) PROVE Kept(list[k], numbers) \in Seq(Option)
  <2>1. list[k] \in Option
    OBVIOUS
  <2> QED BY <2>1 DEF Kept
<1>4. KeptAll(list, numbers) = [k \in 1 .. Len(list) |-> Kept(list[k], numbers)]
  BY <1>2 DEF KeptAll
<1> HIDE DEF Kept
<1>5. KeptAll(list, numbers) \in [1 .. Len(list) -> Seq(Option)]
  BY <1>3, <1>4, Zenon
<1> QED BY <1>1, <1>2, <1>4, <1>5

LEMMA AmongType ==
    ASSUME NEW list \in Seq(Option), NEW numbers
    PROVE  OptionsAmong(list, numbers) \in Seq(Option)
BY KeptType, FlattenType

LEMMA AmongConcat ==
    ASSUME NEW a \in Seq(Option), NEW b \in Seq(Option), NEW numbers
    PROVE  OptionsAmong(a \o b, numbers) = OptionsAmong(a, numbers) \o OptionsAmong(b, numbers)
<1> DEFINE ka == KeptAll(a, numbers)
           kb == KeptAll(b, numbers)
           kc == KeptAll(a \o b, numbers)
           c == a \o b
<1>1. c \in Seq(Option) /\ Len(c) = Len(a) + Len(b) /\ Len(a) \in Nat /\ Len(b) \in Nat
      /\ (\A k \in 1 .. Len(a) : c[k] = a[k]) /\ \A k \in 1 .. Len(b) : c[Len(a) + k] = b[k]
  OBVIOUS
<1> HIDE DEF c
<1>2. /\ ka \in Seq(Seq(Option)) /\ kb \in Seq(Seq(Option)) /\ kc \in Seq(Seq(Option))
      /\ Len(ka) = Len(a) /\ Len(kb) = Len(b) /\ Len(kc) = Len(a) + Len(b)
      /\ \A k \in 1 .. Len(a) : ka[k] = Kept(a[k], numbers)
      /\ \A k \in 1 .. Len(b) : kb[k] = Kept(b[k], numbers)
      /\ \A k \in 1 .. Len(a) + Len(b) : kc[k] = Kept(c[k], numbers)
  BY <1>1, KeptType, Zenon DEF c
<1> HIDE DEF ka, kb, kc
<1>3. /\ ka \o kb \in Seq(Seq(Option)) /\ Len(ka \o kb) = Len(a) + Len(b)
      /\ \A k \in 1 .. Len(a) + Len(b) : (ka \o kb)[k] = IF k <= Len(a) THEN ka[k] ELSE kb[k - Len(a)]
  <2>1. /\ ka \o kb \in Seq(Seq(Option)) /\ Len(ka \o kb) = Len(ka) + Len(kb)
        /\ \A k \in 1 .. Len(ka) + Len(kb) : (ka \o kb)[k] = IF k <= Len(ka) THEN ka[k] ELSE kb[k - Len(ka)]
    <3> DEFINE T == Seq(Option)
    <3>1. ka \in Seq(T) /\ kb \in Seq(T)
      BY <1>2
    <3> HIDE DEF T
    <3>2. /\ ka \o kb \in Seq(T) /\ Len(ka \o kb) = Len(ka) + Len(kb)
          /\ \A k \in 1 .. Len(ka) + Len(kb) : (ka \o kb)[k] = IF k <= Len(ka) THEN ka[k] ELSE kb[k - Len(ka)]
      BY <3>1, ConcatProperties
    <3> QED BY <3>2 DEF T
  <2> QED BY <1>2, <2>1
<1>4. ASSUME NEW k \in 1 .. Len(a) + Len(b) PROVE kc[k] = (ka \o kb)[k]
  <2>1. CASE k <= Len(a)
    <3>1. k \in 1 .. Len(a)
      BY <1>1, <2>1
    <3> QED BY <3>1, <2>1, <1>1, <1>2, <1>3, Zenon
  <2>2. CASE ~(k <= Len(a))
    <3>1. k - Len(a) \in 1 .. Len(b) /\ k = Len(a) + (k - Len(a))
      BY <1>1, <2>2
    <3>2. c[k] = b[k - Len(a)]
      BY <3>1, <1>1
    <3> QED BY <3>1, <3>2, <2>2, <1>2, <1>3, Zenon
  <2> QED BY <2>1, <2>2
<1>5. kc = ka \o kb
  BY <1>2, <1>3, <1>4, SeqEqual
<1>6. FlattenSeq(kc) = FlattenSeq(ka) \o FlattenSeq(kb)
  BY <1>2, <1>5, FlattenConcat
<1>7. /\ OptionsAmong(a, numbers) = FlattenSeq(ka)
      /\ OptionsAmong(b, numbers) = FlattenSeq(kb)
      /\ OptionsAmong(a \o b, numbers) = FlattenSeq(kc)
  BY <1>1, KeptType DEF ka, kb, kc, c
<1> QED BY <1>6, <1>7

LEMMA AmongNil == ASSUME NEW numbers PROVE OptionsAmong(<<>>, numbers) = <<>>
<1>1. [k \in DOMAIN <<>> |-> IF <<>>[k].Number \in numbers THEN << <<>>[k] >> ELSE <<>>] = <<>>
  OBVIOUS
<1> QED BY <1>1, FlattenEmpty DEF OptionsAmong

LEMMA AmongOne ==
    ASSUME NEW o \in Option, NEW numbers
    PROVE  OptionsAmong(<< o >>, numbers) = Kept(o, numbers)
<1> DEFINE l == << o >>
           k == KeptAll(l, numbers)
           x == Kept(o, numbers)
<1>1. l \in Seq(Option) /\ Len(l) = 1 /\ l[1] = o
  OBVIOUS
<1>2. x \in Seq(Option)
  BY DEF Kept
<1> HIDE DEF l
<1>3. k \in Seq(Seq(Option)) /\ Len(k) = 1 /\ k[1] = x /\ OptionsAmong(l, numbers) = FlattenSeq(k)
  BY <1>1, KeptType
<1> HIDE DEF k, x
<1>4. k = Append(<<>>, x) /\ <<>> \in Seq(Seq(Option))
  BY <1>2, <1>3
<1>5. FlattenSeq(k) = FlattenSeq(<<>>) \o x
  BY <1>2, <1>4, FlattenAppend
<1>6. <<>> \o x = x
  BY <1>2, ConcatEmptySeq
<1> QED BY <1>3, <1>5, <1>6, FlattenEmpty DEF l, x

LEMMA AmongAppend ==
    ASSUME NEW list \in Seq(Option), NEW o \in Option, NEW numbers
    PROVE  OptionsAmong(Append(list, o), numbers) = OptionsAmong(list, numbers) \o Kept(o, numbers)
<1>1. Append(list, o) = list \o << o >> /\ << o >> \in Seq(Option)
  OBVIOUS
<1>2. OptionsAmong(list \o << o >>, numbers) = OptionsAmong(list, numbers) \o OptionsAmong(<< o >>, numbers)
  BY <1>1, AmongConcat
<1> QED BY <1>1, <1>2, AmongOne

\* By induction on the length of the list: a fact of every option that is kept
\* or left out decides what the list becomes.
LEMMA AmongNone ==
    ASSUME NEW list \in Seq(Option), NEW numbers,
           \A k \in 1 .. Len(list) : list[k].Number \notin numbers
    PROVE  OptionsAmong(list, numbers) = <<>>
<1> DEFINE n == Len(list)
           u(k) == SubSeq(list, 1, k)
           Q == {k \in 0 .. n : OptionsAmong(u(k), numbers) = <<>>}
<1>1. n \in Nat /\ u(0) = <<>> /\ u(n) = list
  OBVIOUS
<1>2. 0 \in Q
  <2> HIDE DEF u, n
  <2> QED BY <1>1, AmongNil
<1>3. ASSUME NEW k \in 0 .. n - 1, k \in Q PROVE k + 1 \in Q
  <2>1. /\ u(k) \in Seq(Option) /\ list[k + 1] \in Option
        /\ u(k + 1) = Append(u(k), list[k + 1]) /\ k + 1 \in 0 .. n /\ k + 1 \in 1 .. n
    OBVIOUS
  <2>2. OptionsAmong(u(k), numbers) = <<>>
    BY <1>3
  <2> HIDE DEF u, n
  <2>3. Kept(list[k + 1], numbers) = <<>>
    BY <2>1, Zenon DEF Kept, n
  <2>4. OptionsAmong(u(k + 1), numbers) = <<>> \o <<>>
    <3> DEFINE v == u(k)
               x == list[k + 1]
    <3>1. v \in Seq(Option) /\ x \in Option
      BY <2>1
    <3> HIDE DEF v, x
    <3>2. OptionsAmong(Append(v, x), numbers) = OptionsAmong(v, numbers) \o Kept(x, numbers)
      BY <3>1, AmongAppend
    <3> QED BY <3>2, <2>1, <2>2, <2>3 DEF v, x
  <2>5. <<>> \o <<>> = <<>>
    OBVIOUS
  <2> QED BY <2>1, <2>4, <2>5
<1>4. n \in Q
  <2> HIDE DEF Q, n, u
  <2>1. \A k \in 0 .. n : k \in Q
    BY <1>1, <1>2, <1>3, UpTo
  <2> QED BY <1>1, <2>1
<1> QED BY <1>1, <1>4

LEMMA MinIs ==
    ASSUME NEW S \in SUBSET Nat, S # {}
    PROVE  Min(S) \in S /\ \A y \in S : Min(S) <= y
<1>1. PICK x \in S : \A y \in S : ~(<<y, x>> \in OpToRel(<, Nat))
  BY WFMin, NatLessThanWellFounded
<1>2. \A y \in S : x <= y
  <2> SUFFICES ASSUME NEW y \in S, y < x PROVE FALSE
    OBVIOUS
  <2>1. <<y, x>> \in Nat \X Nat /\ y < x
    OBVIOUS
  <2>2. <<y, x>> \in OpToRel(<, Nat)
    BY <2>1, Zenon DEF OpToRel
  <2> QED BY <1>1, <2>2
<1> QED BY <1>2 DEF Min

\* The option comes in behind the first p of the list.
InsertedAt(p, list, o, new) ==
    /\ p \in 0 .. Len(list)
    /\ new = (SubSeq(list, 1, p) \o << o >>) \o SubSeq(list, p + 1, Len(list))
    /\ \A k \in 1 .. p : list[k].Number <= o.Number
    /\ p < Len(list) => list[p + 1].Number > o.Number

LEMMA Inserted ==
    ASSUME NEW list \in Seq(Option), NEW o \in Option
    PROVE  \E p \in 0 .. Len(list) : InsertedAt(p, list, o, AppendOptionToList(list, o, TRUE))
<1> DEFINE n == Len(list)
           greater == {i \in 1 .. n : list[i].Number > o.Number}
           new == AppendOptionToList(list, o, TRUE)
<1>1. n \in Nat /\ o.Number \in Nat /\ \A k \in 1 .. n : list[k].Number \in Nat
  <2>1. \A k \in 1 .. n : list[k] \in Option
    OBVIOUS
  <2> QED BY <2>1, OptionType
<1>2. CASE greater = {}
  <2>1. new = Append(list, o)
    <3>1. SelectInSubSeq(list, 1, n, LAMBDA x : x.Number > o.Number) = 0
      BY <1>2, Zenon DEF SelectInSubSeq
    <3>2. ~(0 > 0)
      OBVIOUS
    <3> QED BY <3>1, <3>2, Zenon DEF AppendOptionToList
  <2>2. \A k \in 1 .. n : list[k].Number <= o.Number
    <3> TAKE k \in 1 .. n
    <3>1. ~(list[k].Number > o.Number)
      BY <1>2
    <3> QED BY <3>1, <1>1
  <2>3. Append(list, o) = (SubSeq(list, 1, n) \o << o >>) \o SubSeq(list, n + 1, n)
    OBVIOUS
  <2>4. InsertedAt(n, list, o, new)
    <3> HIDE DEF new
    <3> QED BY <1>1, <2>1, <2>2, <2>3 DEF InsertedAt
  <2>5. n \in 0 .. n
    BY <1>1
  <2> HIDE DEF n, new
  <2> QED BY <2>4, <2>5 DEF new, n
<1>3. CASE greater # {}
  <2> DEFINE m == Min(greater)
  <2>1. m \in greater /\ \A y \in greater : m <= y
    <3>1. greater \in SUBSET Nat
      OBVIOUS
    <3> HIDE DEF greater
    <3> QED BY <1>3, <3>1, MinIs
  <2>2. SelectInSubSeq(list, 1, n, LAMBDA x : x.Number > o.Number) = m
    BY <1>3, Zenon DEF SelectInSubSeq
  <2>3. m \in 1 .. n /\ list[m].Number > o.Number
    BY <2>1
  <2>4. ASSUME NEW k \in 1 .. m - 1 PROVE list[k].Number <= o.Number
    <3>1. k \in 1 .. n /\ ~(m <= k)
      BY <1>1, <2>3
    <3>2. ~(list[k].Number > o.Number)
      BY <3>1, <2>1
    <3> QED BY <3>1, <3>2, <1>1
  <2>5. new = InsertAt(list, m, o)
    <3>1. m # 0 /\ m > 0
      BY <2>3
    <3> HIDE DEF m
    <3> QED BY <2>2, <3>1, Zenon DEF AppendOptionToList
  <2> HIDE DEF m, new, greater
  <2> DEFINE p == m - 1
  <2>6. p \in 0 .. n /\ p + 1 = m /\ p < n
    BY <1>1, <2>3
  <2> HIDE DEF p
  <2>7. InsertAt(list, m, o) = (SubSeq(list, 1, p) \o << o >>) \o SubSeq(list, p + 1, n)
    BY <2>6, Zenon DEF InsertAt, p
  <2>8. InsertedAt(p, list, o, new)
    BY <2>3, <2>4, <2>5, <2>6, <2>7 DEF InsertedAt, p
  <2> QED BY <2>6, <2>8 DEF new
<1> QED BY <1>2, <1>3

\* A sequence of m elements followed by one of n.
Follows(c, s, t, m, n, S) ==
    /\ c \in Seq(S) /\ Len(c) = m + n
    /\ \A k \in 1 .. m : c[k] = s[k]
    /\ \A k \in 1 .. n : c[m + k] = t[k]

LEMMA ConcatFollows ==
    \A S : \A s \in Seq(S), t \in Seq(S), m \in Nat, n \in Nat :
        Len(s) = m /\ Len(t) = n => Follows(s \o t, s, t, m, n, S)
BY DEF Follows

LEMMA SplitAt ==
    ASSUME NEW S, NEW list \in Seq(S), NEW p \in 0 .. Len(list)
    PROVE  list = SubSeq(list, 1, p) \o SubSeq(list, p + 1, Len(list))
<1> DEFINE n == Len(list)
           a == SubSeq(list, 1, p)
           b == SubSeq(list, p + 1, n)
           c == a \o b
<1>1. n \in Nat /\ p \in Nat /\ p <= n
  OBVIOUS
<1>2. a \in Seq(S) /\ Len(a) = p /\ \A k \in 1 .. p : a[k] = list[k]
  OBVIOUS
<1>3. b \in Seq(S) /\ Len(b) = n - p /\ \A k \in 1 .. n - p : b[k] = list[p + k]
  OBVIOUS
<1> HIDE DEF a, b
<1>4. /\ c \in Seq(S) /\ Len(c) = p + (n - p)
      /\ \A k \in 1 .. p : c[k] = a[k]
      /\ \A k \in 1 .. n - p : c[p + k] = b[k]
  <2>1. n - p \in Nat
    BY <1>1
  <2>2. Follows(c, a, b, p, n - p, S)
    BY <1>1, <1>2, <1>3, <2>1, ConcatFollows, Zenon
  <2> QED BY <2>2, Zenon DEF Follows
<1> HIDE DEF c
<1>5. Len(c) = n
  BY <1>1, <1>4
<1>6. ASSUME NEW k \in 1 .. n PROVE c[k] = list[k]
  <2>1. CASE k <= p
    BY <2>1, <1>1, <1>2, <1>4
  <2>2. CASE ~(k <= p)
    <3>1. k - p \in 1 .. n - p /\ p + (k - p) = k
      BY <2>2, <1>1
    <3>2. c[p + (k - p)] = list[p + (k - p)]
      BY <3>1, <1>3, <1>4, Zenon
    <3> QED BY <3>1, <3>2
  <2> QED BY <2>1, <2>2
<1>7. c = list
  BY <1>4, <1>5, <1>6, SeqEqual
<1> QED BY <1>7 DEF a, b, c

\* Where its elements are then.
ElementsAt(p, list, o, new) ==
    /\ new \in Seq(Option) /\ Len(new) = Len(list) + 1
    /\ \A k \in 1 .. p : new[k] = list[k]
    /\ new[p + 1] = o
    /\ \A k \in p + 2 .. Len(list) + 1 : new[k] = list[k - 1]

LEMMA InsertedType ==
    ASSUME NEW list \in Seq(Option), NEW o \in Option, NEW p, NEW new, InsertedAt(p, list, o, new)
    PROVE  ElementsAt(p, list, o, new)
<1> DEFINE n == Len(list)
           a == SubSeq(list, 1, p)
           b == SubSeq(list, p + 1, n)
           c == << o >>
<1>1. p \in 0 .. n /\ n \in Nat /\ new = (a \o c) \o b
  BY DEF InsertedAt
<1>2. /\ a \in Seq(Option) /\ Len(a) = p /\ \A k \in 1 .. p : a[k] = list[k]
      /\ b \in Seq(Option) /\ Len(b) = n - p /\ \A k \in 1 .. n - p : b[k] = list[p + k]
      /\ c \in Seq(Option) /\ Len(c) = 1 /\ c[1] = o
  BY <1>1
<1> HIDE DEF n, a, b, c
<1> DEFINE d == a \o c
           q == p + 1
           r == n - p
<1>3. q \in Nat /\ r \in Nat /\ q + r = n + 1 /\ p \in Nat /\ 1 \in Nat
  BY <1>1
<1>4. /\ d \in Seq(Option) /\ Len(d) = q
      /\ \A k \in 1 .. p : d[k] = a[k]
      /\ \A k \in 1 .. 1 : d[p + k] = c[k]
  <2>1. Follows(d, a, c, p, 1, Option)
    BY <1>2, <1>3, ConcatFollows, Zenon
  <2> QED BY <2>1, Zenon DEF Follows, q
<1> HIDE DEF d
<1>5. new = d \o b
  BY <1>1 DEF d
<1> HIDE DEF q, r
<1>6. /\ new \in Seq(Option) /\ Len(new) = n + 1
      /\ \A k \in 1 .. q : new[k] = d[k]
      /\ \A k \in 1 .. r : new[q + k] = b[k]
  <2>1. Follows(d \o b, d, b, q, r, Option)
    BY <1>2, <1>3, <1>4, ConcatFollows, Zenon DEF r
  <2> QED BY <2>1, <1>3, <1>5, Zenon DEF Follows
<1>7. ASSUME NEW k \in 1 .. p PROVE new[k] = list[k]
  <2>1. k \in 1 .. q
    BY <1>3 DEF q
  <2> QED BY <2>1, <1>2, <1>4, <1>6
<1>8. new[p + 1] = o
  <2>1. q \in 1 .. q /\ 1 \in 1 .. 1 /\ p + 1 = q
    BY <1>3 DEF q
  <2> QED BY <2>1, <1>2, <1>4, <1>6
<1>9. ASSUME NEW k \in p + 2 .. n + 1 PROVE new[k] = list[k - 1]
  <2>1. k - q \in 1 .. r /\ q + (k - q) = k /\ p + (k - q) = k - 1
    BY <1>1 DEF q, r
  <2> QED BY <2>1, <1>2, <1>6, SMTT(90) DEF r
<1> QED BY <1>6, <1>7, <1>8, <1>9 DEF n, ElementsAt

\* Every option of the new list is the new one or one of the old.
Gains(list, o, new) ==
    \A k \in 1 .. Len(new) : new[k] = o \/ \E j \in 1 .. Len(list) : new[k] = list[j]

\* Whatever order the options are added in: the list stays sorted, keeps what it
\* has, and gains the new option.
LEMMA AppendOptionType ==
    ASSUME NEW list \in Seq(Option), NEW o \in Option, Ascending(list),
           NEW new, new = AppendOptionToList(list, o, TRUE)
    PROVE  /\ new \in Seq(Option) /\ Ascending(new) /\ Len(new) = Len(list) + 1
           /\ Gains(list, o, new)
<1> DEFINE n == Len(list)
<1>1. PICK p \in 0 .. n : InsertedAt(p, list, o, new)
  BY Inserted
<1>2. /\ n \in Nat /\ o.Number \in Nat /\ \A k \in 1 .. n : list[k].Number \in Nat
  <2>1. \A k \in 1 .. n : list[k] \in Option
    OBVIOUS
  <2> QED BY <2>1, OptionType
<1>0. p \in Nat /\ p <= n
  OBVIOUS
<1>3. /\ new \in Seq(Option) /\ Len(new) = n + 1
      /\ \A k \in 1 .. p : new[k] = list[k]
      /\ new[p + 1] = o
      /\ \A k \in p + 2 .. n + 1 : new[k] = list[k - 1]
  <2>1. ElementsAt(p, list, o, new)
    BY <1>1, InsertedType, Zenon
  <2> QED BY <2>1, Zenon DEF ElementsAt
<1>4. /\ \A k \in 1 .. p : list[k].Number <= o.Number
      /\ p < n => list[p + 1].Number > o.Number
  BY <1>1 DEF InsertedAt
<1>5. \A j, k \in 1 .. n : j <= k => list[j].Number <= list[k].Number
  BY DEF Ascending
<1> HIDE DEF n
<1>6. \A k \in p + 1 .. n : list[k].Number > o.Number
  <2> TAKE k \in p + 1 .. n
  <2>1. p + 1 \in 1 .. n /\ k \in 1 .. n /\ p < n /\ p + 1 <= k
    BY <1>2
  <2>2. list[p + 1].Number <= list[k].Number
    BY <1>5, <2>1
  <2> QED BY <1>2, <1>4, <2>1, <2>2
<1>7. ASSUME NEW j \in 1 .. n + 1, NEW k \in 1 .. n + 1, j <= k
      PROVE  new[j].Number <= new[k].Number
  <2>1. CASE k <= p
    <3>1. j \in 1 .. p /\ k \in 1 .. p /\ j \in 1 .. n /\ k \in 1 .. n
      BY <1>2, <1>7, <2>1
    <3> QED BY <3>1, <1>3, <1>5, <1>7
  <2>2. CASE k = p + 1
    <3>1. CASE j = k
      <4>1. new[j] = o /\ new[k] = o
        BY <3>1, <2>2, <1>3, Zenon
      <4>2. o.Number <= o.Number
        BY <1>2
      <4> QED BY <4>1, <4>2, Zenon
    <3>2. CASE j # k
      <4>1. j \in 1 .. p
        BY <3>2, <2>2, <1>7
      <4> QED BY <4>1, <2>2, <1>3, <1>4
    <3> QED BY <3>1, <3>2
  <2>3. CASE k > p + 1
    <3>1. k \in p + 2 .. n + 1 /\ k - 1 \in p + 1 .. n /\ k - 1 \in 1 .. n
      BY <1>2, <2>3
    <3>2. new[k] = list[k - 1] /\ list[k - 1].Number > o.Number /\ list[k - 1].Number \in Nat
      BY <3>1, <1>2, <1>3, <1>6
    <3>3. CASE j <= p
      <4>1. j \in 1 .. p /\ j \in 1 .. n /\ j <= k - 1
        BY <3>3, <2>3, <1>2
      <4>2. list[j].Number <= list[k - 1].Number
        BY <4>1, <3>1, <1>5
      <4> QED BY <4>1, <4>2, <3>2, <1>3
    <3>4. CASE j = p + 1
      <4>1. new[j] = o
        BY <3>4, <1>3, Zenon
      <4>2. o.Number <= list[k - 1].Number
        BY <1>2, <3>2
      <4> QED BY <4>1, <4>2, <3>2
    <3>5. CASE j > p + 1
      <4>1. j \in p + 2 .. n + 1 /\ j - 1 \in 1 .. n /\ j - 1 <= k - 1
        BY <3>5, <1>2, <1>7
      <4>2. list[j - 1].Number <= list[k - 1].Number
        BY <4>1, <3>1, <1>5
      <4> QED BY <4>1, <4>2, <3>2, <1>3
    <3>6. j <= p \/ j = p + 1 \/ j > p + 1
      BY <1>0
    <3> QED BY <3>3, <3>4, <3>5, <3>6
  <2>4. k <= p \/ k = p + 1 \/ k > p + 1
    BY <1>0
  <2> QED BY <2>1, <2>2, <2>3, <2>4
<1>8. Ascending(new)
  BY <1>3, <1>7 DEF Ascending
<1>9. ASSUME NEW k \in 1 .. n + 1 PROVE new[k] = o \/ \E j \in 1 .. n : new[k] = list[j]
  <2>1. CASE k \in 1 .. p
    <3>1. k \in 1 .. n
      BY <2>1, <1>0, <1>2
    <3> QED BY <2>1, <3>1, <1>3, Zenon
  <2>2. CASE k = p + 1
    BY <2>2, <1>3, Zenon
  <2>3. CASE k \in p + 2 .. n + 1
    <3>1. k - 1 \in 1 .. n
      BY <2>3, <1>0, <1>2
    <3> QED BY <2>3, <3>1, <1>3, Zenon
  <2>4. k \in 1 .. p \/ k = p + 1 \/ k \in p + 2 .. n + 1
    BY <1>0, <1>2
  <2> QED BY <2>1, <2>2, <2>3, <2>4
<1>10. Gains(list, o, new)
  BY <1>3, <1>9, Zenon DEF Gains, n
<1> QED BY <1>3, <1>8, <1>10 DEF n

LEMMA AppendAtEnd ==
    ASSUME NEW list \in Seq(Option), NEW o \in Option,
           \A k \in 1 .. Len(list) : list[k].Number <= o.Number
    PROVE  AppendOptionToList(list, o, TRUE) = Append(list, o)
<1>1. PICK p \in 0 .. Len(list) : InsertedAt(p, list, o, AppendOptionToList(list, o, TRUE))
  BY Inserted
<1>2. Len(list) \in Nat /\ o.Number \in Nat /\ \A k \in 1 .. Len(list) : list[k].Number \in Nat
  <2>1. \A k \in 1 .. Len(list) : list[k] \in Option
    OBVIOUS
  <2> QED BY <2>1, OptionType
<1>3. p = Len(list)
  <2> SUFFICES ASSUME p < Len(list) PROVE FALSE
    BY <1>2
  <2>1. p + 1 \in 1 .. Len(list)
    BY <1>2
  <2> QED BY <1>1, <1>2, <2>1 DEF InsertedAt
<1>4. Append(list, o) = (SubSeq(list, 1, p) \o << o >>) \o SubSeq(list, p + 1, Len(list))
  BY <1>3
<1> QED BY <1>1, <1>4, Zenon DEF InsertedAt

\* Options of one number keep the order in which they were added.
LEMMA AmongInserted ==
    ASSUME NEW list \in Seq(Option), NEW o \in Option, Ascending(list), NEW number
    PROVE  OptionsByNumber(AppendOptionToList(list, o, TRUE), number)
             = OptionsByNumber(list, number) \o Kept(o, {number})
<1> DEFINE n == Len(list)
           new == AppendOptionToList(list, o, TRUE)
           N == {number}
<1>1. PICK p \in 0 .. n : InsertedAt(p, list, o, new)
  BY Inserted
<1> DEFINE a == SubSeq(list, 1, p)
           b == SubSeq(list, p + 1, n)
           c == << o >>
           A(l) == OptionsAmong(l, N)
<1>2. /\ a \in Seq(Option) /\ b \in Seq(Option) /\ c \in Seq(Option) /\ a \o c \in Seq(Option)
      /\ n \in Nat /\ Len(b) = n - p /\ \A k \in 1 .. n - p : b[k] = list[p + k]
      /\ list = a \o b
  <2>1. n \in Nat /\ Len(b) = n - p /\ \A k \in 1 .. n - p : b[k] = list[p + k]
    OBVIOUS
  <2>2. a \in Seq(Option) /\ b \in Seq(Option) /\ c \in Seq(Option)
    OBVIOUS
  <2>3. list = a \o b
    BY SplitAt
  <2> HIDE DEF a, b, c, n
  <2>4. a \o c \in Seq(Option)
    BY <2>2
  <2> QED BY <2>1, <2>2, <2>3, <2>4
<1>3. new = (a \o c) \o b
  BY <1>1 DEF InsertedAt
<1> HIDE DEF a, b, c, new
<1>4. A(new) = (A(a) \o A(c)) \o A(b) /\ A(list) = A(a) \o A(b)
  <2>1. \A x \in Seq(Option), y \in Seq(Option) : A(x \o y) = A(x) \o A(y)
    BY AmongConcat
  <2> HIDE DEF A
  <2> QED BY <1>2, <1>3, <2>1, Zenon
<1>5. A(c) = Kept(o, N)
  BY AmongOne DEF c
<1>6. A(a) \in Seq(Option) /\ A(b) \in Seq(Option) /\ A(c) \in Seq(Option)
  BY <1>2, AmongType
<1>7. CASE o.Number = number
  <2>1. ASSUME NEW k \in 1 .. Len(b) PROVE b[k].Number \notin N
    <3>1. p + 1 \in 1 .. n /\ p + k \in 1 .. n /\ p + 1 <= p + k /\ p < n /\ k \in 1 .. n - p
      BY <1>2, <2>1
    <3>2. list[p + 1].Number > o.Number /\ list[p + 1].Number <= list[p + k].Number
      BY <3>1, <1>1 DEF InsertedAt, Ascending
    <3>3. b[k] = list[p + k] /\ list[p + k] \in Option /\ list[p + 1] \in Option
      BY <3>1, <1>2
    <3>4. list[p + k].Number \in Nat /\ list[p + 1].Number \in Nat /\ o.Number \in Nat
      BY <3>3, OptionType
    <3> QED BY <3>2, <3>3, <3>4, <1>7
  <2>2. A(b) = <<>>
    BY <1>2, <2>1, AmongNone
  <2> HIDE DEF A
  <2>3. A(a) \o A(c) \in Seq(Option)
    BY <1>6
  <2>4. A(new) = A(a) \o A(c) /\ A(list) = A(a)
    BY <1>4, <1>6, <2>2, <2>3, ConcatEmptySeq
  <2> QED BY <1>5, <2>4 DEF A, new, OptionsByNumber
<1>8. CASE o.Number # number
  <2>1. A(c) = <<>>
    BY <1>5, <1>8 DEF Kept
  <2> HIDE DEF A
  <2>2. A(a) \o A(c) = A(a)
    BY <1>6, <2>1, ConcatEmptySeq
  <2>3. A(new) = A(list)
    BY <1>4, <2>2
  <2>4. A(list) \in Seq(Option)
    BY AmongType DEF A
  <2>5. A(list) \o <<>> = A(list)
    BY <2>4, ConcatEmptySeq
  <2> QED BY <1>5, <2>1, <2>3, <2>5 DEF A, new, OptionsByNumber
<1> QED BY <1>7, <1>8

\* Without memory the list keeps its elements, or loses all of them.
LEMMA AppendWithoutMemory ==
    ASSUME NEW list \in Seq(Option), NEW o
    PROVE  AppendOptionToList(list, o, FALSE) \in {<<>>, list}
BY DEF AppendOptionToList

-----------------------------------------------------------------------------
(* The loop that parses the options *)
\* The recursive function that steps through S until it comes to a state of
\* "stop" exists when every step comes nearer to one.
Loops(f, S, stop, out, step) ==
    f = [s \in S |-> IF s \in stop THEN out[s] ELSE f[step[s]]]

LEMMA LoopExists ==
    ASSUME NEW S, NEW stop, NEW out, NEW step, NEW rank, NEW N \in Nat,
           \A s \in S : rank[s] \in 0 .. N,
           \A s \in S : s \notin stop => step[s] \in S /\ rank[step[s]] < rank[s]
    PROVE  \E f : Loops(f, S, stop, out, step)
<1> DEFINE D(m) == {s \in S : rank[s] <= m}
           Q == {m \in 0 .. N : \E f : Loops(f, D(m), stop, out, step)}
<1>1. 0 \in Q
  <2>1. \A s \in D(0) : s \in stop
    <3> TAKE s \in D(0)
    <3>1. s \in S /\ rank[s] \in 0 .. N /\ rank[s] <= 0
      OBVIOUS
    <3>2. CASE s \notin stop
      <4>1. step[s] \in S /\ rank[step[s]] < rank[s]
        BY <3>1, <3>2
      <4>2. rank[step[s]] \in 0 .. N
        BY <4>1
      <4> QED BY <3>1, <4>1, <4>2
    <3> QED BY <3>2
  <2> DEFINE f == [s \in D(0) |-> out[s]]
  <2>2. f = [s \in D(0) |-> IF s \in stop THEN out[s] ELSE f[step[s]]]
    BY <2>1, Zenon
  <2> HIDE DEF f, D
  <2>3. Loops(f, D(0), stop, out, step)
    BY <2>2, Zenon DEF Loops
  <2> QED BY <2>3
<1>2. ASSUME NEW m \in 0 .. N - 1, m \in Q PROVE m + 1 \in Q
  <2>1. PICK g : Loops(g, D(m), stop, out, step)
    BY <1>2
  <2> DEFINE f == [s \in D(m + 1) |->
                      IF s \in D(m) THEN g[s] ELSE IF s \in stop THEN out[s] ELSE g[step[s]]]
  <2>2. ASSUME NEW s \in D(m + 1), s \notin stop
        PROVE  step[s] \in D(m) /\ step[s] \in D(m + 1)
    <3>1. s \in S /\ rank[s] \in 0 .. N /\ rank[s] <= m + 1
      OBVIOUS
    <3>2. step[s] \in S /\ rank[step[s]] < rank[s]
      BY <2>2, <3>1
    <3>3. rank[step[s]] \in 0 .. N
      BY <3>2
    <3>4. rank[step[s]] <= m /\ rank[step[s]] <= m + 1
      BY <3>1, <3>2, <3>3
    <3> QED BY <3>2, <3>4
  <2>3. \A s \in D(m) : s \in D(m + 1)
    <3> TAKE s \in D(m)
    <3>1. rank[s] \in 0 .. N /\ rank[s] <= m
      OBVIOUS
    <3>2. rank[s] <= m + 1
      BY <3>1
    <3> QED BY <3>2
  <2> HIDE DEF D
  <2>4. ASSUME NEW s \in D(m + 1)
        PROVE  f[s] = IF s \in stop THEN out[s] ELSE f[step[s]]
    <3>1. \A t \in D(m) : f[t] = g[t]
      BY <2>3, Zenon
    <3>2. \A t \in D(m) : g[t] = IF t \in stop THEN out[t] ELSE g[step[t]]
      BY <2>1, Zenon DEF Loops
    <3>3. CASE s \in stop
      BY <3>3, <3>1, <3>2, Zenon
    <3>4. CASE s \notin stop
      <4>1. step[s] \in D(m)
        BY <2>2, <3>4
      <4>2. f[step[s]] = g[step[s]]
        BY <3>1, <4>1, Zenon
      <4>3. f[s] = g[step[s]]
        BY <3>2, <3>4, Zenon
      <4> QED BY <3>4, <4>2, <4>3, Zenon
    <3> QED BY <3>3, <3>4
  <2>5. f = [s \in D(m + 1) |-> IF s \in stop THEN out[s] ELSE f[step[s]]]
    <3>1. f = [s \in D(m + 1) |-> f[s]]
      BY Zenon
    <3> HIDE DEF f
    <3> QED BY <2>4, <3>1, Zenon
  <2> HIDE DEF f
  <2>6. Loops(f, D(m + 1), stop, out, step)
    BY <2>5, Zenon DEF Loops
  <2> QED BY <2>6
<1>3. N \in Q
  <2> HIDE DEF Q
  <2>1. \A m \in 0 .. N : m \in Q
    BY <1>1, <1>2, UpTo
  <2> QED BY <2>1
<1>4. D(N) = S
  <2>1. \A s \in S : rank[s] <= N
    <3> TAKE s \in S
    <3>1. rank[s] \in 0 .. N
      OBVIOUS
    <3> QED BY <3>1
  <2> QED BY <2>1
<1> HIDE DEF D
<1> QED BY <1>3, <1>4

Ended(raw, s) == s.res # "OK" \/ s.offset >= Len(raw)
AtPayload(raw, s) == raw[s.offset + 1] = OPTION_PAYLOAD_MARKER
PayloadRead(raw, s) ==
    IF Len(raw) - s.offset < 2 THEN ParseError(s)
    ELSE [s EXCEPT !.payload = SubSeq(raw, s.offset + 2, Len(raw))]

LEMMA ByteAtType ==
    ASSUME NEW raw \in Seq(Byte), NEW stray \in Byte, NEW i \in Nat
    PROVE  ByteAt(raw, stray, i) \in Byte
<1>1. CASE i < Len(raw)
  BY <1>1 DEF ByteAt
<1>2. CASE ~(i < Len(raw))
  BY <1>2 DEF ByteAt
<1> QED BY <1>1, <1>2

LEMMA FieldTypes ==
    ASSUME NEW raw \in Seq(Byte), NEW stray \in Byte, NEW nibble \in Nat, NEW i \in Nat
    PROVE  FieldValue(raw, stray, nibble, i) \in Nat /\ FieldSize(nibble) \in 0 .. 2
<1>1. ByteAt(raw, stray, i) \in Nat /\ ByteAt(raw, stray, i + 1) \in Nat
  <2>1. i + 1 \in Nat
    OBVIOUS
  <2> QED BY <2>1, ByteAtType, ByteType
<1>2. (256 * ByteAt(raw, stray, i) + ByteAt(raw, stray, i + 1) + 269) % Word \in Nat
  <2>1. 256 * ByteAt(raw, stray, i) + ByteAt(raw, stray, i + 1) + 269 \in Int
    BY <1>1
  <2> QED BY <2>1, WordType
<1> QED BY <1>1, <1>2 DEF FieldValue, FieldSize

LEMMA ParseErrorType ==
    ASSUME NEW s \in ParseState
    PROVE  ParseError(s) \in ParseState /\ ParseError(s).res # "OK"
<1> DEFINE A == 0 .. Word - 1
<1>1. s \in [offset : Nat, last : A, list : Seq(Option),
              payload : Seq(Byte), res : {"OK", "FORMAT_ERROR"}]
  BY DEF ParseState
<1> HIDE DEF A
<1>2. <<>> \in Seq(Option)
  OBVIOUS
<1> DEFINE L == Seq(Option)
           t == [s EXCEPT !.res = "FORMAT_ERROR", !.list = <<>>]
<1> HIDE DEF L
<1>3. /\ t \in [offset : Nat, last : A, list : L,
                payload : Seq(Byte), res : {"OK", "FORMAT_ERROR"}]
      /\ t.res # "OK"
  BY <1>1, <1>2 DEF L
<1> QED BY <1>3 DEF ParseState, ParseError, A, L

\* An option that is read comes behind where its reading began and ends within
\* the datagram.
LEMMA ParseOptionType ==
    ASSUME NEW raw \in Seq(Byte), NEW stray \in Byte, NEW s \in ParseState
    PROVE  /\ ParseOption(raw, stray, s) \in ParseState
           /\ \/ ParseOption(raw, stray, s).res # "OK"
              \/ ParseOption(raw, stray, s).offset > s.offset
<1> DEFINE first == First(raw, stray, s)
           q == ValueStart(raw, stray, s)
           l == LengthRead(raw, stray, s)
           d == DeltaRead(raw, stray, s)
           o == OptionRead(raw, stray, s)
<1>1. /\ s.offset \in Nat /\ s.last \in 0 .. Word - 1 /\ s.list \in Seq(Option)
      /\ s.payload \in Seq(Byte) /\ s.res \in {"OK", "FORMAT_ERROR"}
  BY DEF ParseState
<1>2. first \div 16 \in Nat /\ first % 16 \in Nat
  <2>1. first \in Byte
    BY <1>1, ByteAtType DEF First
  <2>2. first \in Nat
    BY <2>1, ByteType
  <2> HIDE DEF first
  <2> QED BY <2>2
<1>3. s.offset + 1 \in Nat
  BY <1>1
<1>4. d \in Nat /\ DeltaSize(raw, stray, s) \in 0 .. 2
  BY <1>2, <1>3, FieldTypes DEF DeltaRead, DeltaSize
<1>5. l \in Nat /\ FieldSize(first % 16) \in 0 .. 2
  <2>1. s.offset + 1 + DeltaSize(raw, stray, s) \in Nat
    BY <1>1, <1>4
  <2> HIDE DEF first
  <2> QED BY <1>2, <2>1, FieldTypes DEF LengthRead, first
<1>6. q \in Nat /\ q > s.offset
  BY <1>1, <1>4, <1>5, SMTT(90) DEF ValueStart
<1>7. ParseError(s) \in ParseState /\ ParseError(s).res # "OK"
  BY ParseErrorType
<1>8. o \in Option
  <2>1. (d + s.last) % Word \in 0 .. Word - 1
    <3>1. d + s.last \in Int
      <4>1. s.last \in Nat
        BY <1>1, WordType
      <4> QED BY <1>4, <4>1
    <3> HIDE DEF d
    <3> QED BY <3>1, WordType
  <2>2. ASSUME NEW i \in 1 .. l PROVE ByteAt(raw, stray, q + i - 1) \in Byte
    <3>1. q + i - 1 \in Nat
      BY <1>5, <1>6
    <3> QED BY <3>1, ByteAtType
  <2> HIDE DEF l, q, d
  <2>3. [i \in 1 .. l |-> ByteAt(raw, stray, q + i - 1)] \in Seq(Byte)
    BY <1>5, <2>2
  <2>4. o = [Number |-> (d + s.last) % Word, Value |-> [i \in 1 .. l |-> ByteAt(raw, stray, q + i - 1)]]
    BY Zenon DEF OptionRead, Opt, l, q, d
  <2> HIDE DEF o
  <2> QED BY <2>1, <2>3, <2>4 DEF Option
<1> HIDE DEF first, q, l, d, o
<1>9. CASE Refused(raw, stray, s)
  BY <1>7, <1>9, ParseOptionIs
<1>10. CASE ~Refused(raw, stray, s)
  <2> DEFINE list == AppendOptionToList(s.list, o, TRUE)
             t == ParseOption(raw, stray, s)
  <2>1. t = [s EXCEPT !.offset = q + l, !.last = (d + s.last) % Word, !.list = list]
    BY <1>10, ParseOptionIs, Zenon DEF q, l, d, o
  <2>2. list \in Seq(Option)
    <3>1. PICK p \in 0 .. Len(s.list) : InsertedAt(p, s.list, o, list)
      BY <1>1, <1>8, Inserted
    <3> HIDE DEF list
    <3> QED BY <1>1, <1>8, <3>1, InsertedType DEF ElementsAt
  <2>3. (d + s.last) % Word \in 0 .. Word - 1
    BY <1>8 DEF o, OptionRead, Opt, Option, d
  <2> HIDE DEF list, t
  <2>4. q + l \in Nat /\ q + l > s.offset
    BY <1>1, <1>5, <1>6
  <2>5. t \in ParseState /\ t.offset > s.offset
    BY <1>1, <2>1, <2>2, <2>3, <2>4 DEF ParseState
  <2> QED BY <2>5 DEF t
<1> QED BY <1>9, <1>10

Parses(f, raw, stray) ==
    \A s \in ParseState :
        f[s] = IF Ended(raw, s) THEN s
               ELSE IF AtPayload(raw, s) THEN PayloadRead(raw, s)
               ELSE f[ParseOption(raw, stray, s)]

Start == [offset |-> 0, last |-> 0, list |-> <<>>, payload |-> <<>>, res |-> "OK"]

LEMMA StartType == Start \in ParseState
<1>1. 0 \in 0 .. Word - 1
  BY WordType
<1> QED BY <1>1 DEF Start, ParseState

LEMMA ParseLoop ==
    ASSUME NEW raw \in Seq(Byte), NEW stray \in Byte
    PROVE  \E f : Parses(f, raw, stray) /\ ParseOptionsFromRaw(raw, stray) = f[Start]
<1> DEFINE S == ParseState
           N == Len(raw)
           stop == {s \in S : Ended(raw, s) \/ AtPayload(raw, s)}
           out == [s \in S |-> IF Ended(raw, s) THEN s ELSE PayloadRead(raw, s)]
           step == [s \in S |-> ParseOption(raw, stray, s)]
           rank == [s \in S |-> IF Ended(raw, s) THEN 0 ELSE N - s.offset]
           Def(f) == f = [s \in S |->
                            IF s.res # "OK" \/ s.offset >= Len(raw) THEN s
                            ELSE IF raw[s.offset + 1] # OPTION_PAYLOAD_MARKER
                                 THEN f[ParseOption(raw, stray, s)]
                            ELSE IF Len(raw) - s.offset < 2 THEN ParseError(s)
                            ELSE [s EXCEPT !.payload = SubSeq(raw, s.offset + 2, Len(raw))]]
           parse == CHOOSE f : Def(f)
<1>1. ParseOptionsFromRaw(raw, stray) = parse[Start]
  BY Zenon DEF ParseOptionsFromRaw, Start
<1>2. N \in Nat /\ \A s \in S : s.offset \in Nat
  BY DEF ParseState
<1>3. \A s \in S : rank[s] \in 0 .. N
  <2> TAKE s \in S
  <2>1. CASE Ended(raw, s)
    BY <1>2, <2>1
  <2>2. CASE ~Ended(raw, s)
    <3>1. s.offset \in Nat /\ ~(s.offset >= N)
      BY <1>2, <2>2 DEF Ended
    <3>2. N - s.offset \in 0 .. N
      BY <1>2, <3>1
    <3> QED BY <2>2, <3>2
  <2> QED BY <2>1, <2>2
<1>4. \A s \in S : s \notin stop => step[s] \in S /\ rank[step[s]] < rank[s]
  <2> TAKE s \in S
  <2> HAVE s \notin stop
  <2> DEFINE t == ParseOption(raw, stray, s)
  <2>1. ~Ended(raw, s) /\ step[s] = t
    OBVIOUS
  <2>2. t \in S /\ (t.res # "OK" \/ t.offset > s.offset)
    BY ParseOptionType
  <2> HIDE DEF t, S, N
  <2>3. s.offset \in Nat /\ t.offset \in Nat /\ ~(s.offset >= N) /\ rank[s] = N - s.offset
    BY <1>2, <2>1, <2>2 DEF Ended, N
  <2>4. CASE Ended(raw, t)
    <3>1. rank[t] = 0
      BY <2>2, <2>4
    <3> HIDE DEF rank, step
    <3> QED BY <1>2, <2>1, <2>2, <2>3, <3>1
  <2>5. CASE ~Ended(raw, t)
    <3>1. rank[t] = N - t.offset /\ t.offset > s.offset
      BY <2>2, <2>5 DEF Ended
    <3> HIDE DEF rank, step
    <3> QED BY <1>2, <2>1, <2>2, <2>3, <3>1
  <2> QED BY <2>4, <2>5
<1>5. \A s \in S : step[s] = ParseOption(raw, stray, s)
  OBVIOUS
<1>6. \A s \in S : out[s] = IF Ended(raw, s) THEN s ELSE PayloadRead(raw, s)
  OBVIOUS
<1>7. PICK f : Loops(f, S, stop, out, step)
  <2> HIDE DEF S, stop, out, step, rank, N
  <2> QED BY <1>2, <1>3, <1>4, LoopExists
<1>8. \A g : Def(g) <=> Loops(g, S, stop, out, step)
  <2> TAKE g
  <2> DEFINE L == [s \in S |-> IF s \in stop THEN out[s] ELSE g[step[s]]]
             R == [s \in S |->
                      IF s.res # "OK" \/ s.offset >= Len(raw) THEN s
                      ELSE IF raw[s.offset + 1] # OPTION_PAYLOAD_MARKER
                           THEN g[ParseOption(raw, stray, s)]
                      ELSE IF Len(raw) - s.offset < 2 THEN ParseError(s)
                      ELSE [s EXCEPT !.payload = SubSeq(raw, s.offset + 2, Len(raw))]]
  <2>0. \A s \in S : s \in stop <=> Ended(raw, s) \/ AtPayload(raw, s)
    OBVIOUS
  <2> HIDE DEF stop, out, step
  <2>1. ASSUME NEW s \in S PROVE L[s] = R[s]
    <3>1. L[s] = IF Ended(raw, s) THEN s
                 ELSE IF AtPayload(raw, s) THEN PayloadRead(raw, s)
                 ELSE g[ParseOption(raw, stray, s)]
      BY <1>5, <1>6, <2>0, Zenon
    <3>2. R[s] = IF Ended(raw, s) THEN s
                 ELSE IF ~AtPayload(raw, s) THEN g[ParseOption(raw, stray, s)]
                 ELSE PayloadRead(raw, s)
      BY Zenon DEF Ended, AtPayload, PayloadRead
    <3> QED BY <3>1, <3>2, Zenon
  <2>2. L = [s \in S |-> L[s]] /\ R = [s \in S |-> R[s]]
    BY Zenon
  <2>3. L = R
    <3> HIDE DEF L, R
    <3> QED BY <2>1, <2>2, Zenon
  <2>4. Def(g) <=> g = R
    BY Zenon
  <2>5. Loops(g, S, stop, out, step) <=> g = L
    BY Zenon DEF Loops
  <2> HIDE DEF L, R, Def
  <2> QED BY <2>3, <2>4, <2>5
<1>9. Loops(parse, S, stop, out, step)
  <2> HIDE DEF Def, stop, out, step
  <2>1. Def(f)
    BY <1>7, <1>8
  <2>2. Def(parse)
    BY <2>1, Zenon
  <2> HIDE DEF parse
  <2> QED BY <2>2, <1>8
<1>10. Parses(parse, raw, stray)
  <2>0. \A s \in S : s \in stop <=> Ended(raw, s) \/ AtPayload(raw, s)
    OBVIOUS
  <2> HIDE DEF parse, stop, out, step
  <2>1. ASSUME NEW s \in S PROVE parse[s] = IF s \in stop THEN out[s] ELSE parse[step[s]]
    BY <1>9, Zenon DEF Loops
  <2> QED BY <2>0, <2>1, <1>5, <1>6, Zenon DEF Parses
<1> QED BY <1>1, <1>10

\* The first k options of a list, their bytes, and where the parser is behind them.
Before(list, k) == SubSeq(list, 1, k)
Packed(list, k) == PackOptionsFromList(Before(list, k))
Reached(list, k) ==
    [offset |-> Len(Packed(list, k)), last |-> LastNumber(Before(list, k)),
     list |-> Before(list, k), payload |-> <<>>, res |-> "OK"]
NextCoded(list, k) == Coded(LastNumber(Before(list, k)), list[k + 1])

LEMMA BeforeType ==
    ASSUME NEW list \in Seq(Option), NEW k \in 0 .. Len(list)
    PROVE  /\ Before(list, k) \in Seq(Option) /\ Len(Before(list, k)) = k
           /\ \A j \in 1 .. k : Before(list, k)[j] = list[j]
           /\ k < Len(list) => Before(list, k + 1) = Append(Before(list, k), list[k + 1])
           /\ LastNumber(Before(list, k)) = IF k = 0 THEN 0 ELSE list[k].Number
           /\ LastNumber(Before(list, k)) \in 0 .. Word - 1
<1> DEFINE b == Before(list, k)
<1>1. b \in Seq(Option) /\ Len(b) = k /\ \A j \in 1 .. k : b[j] = list[j]
  BY DEF Before
<1>2. k < Len(list) => Before(list, k + 1) = Append(b, list[k + 1])
  BY DEF Before
<1>3. LastNumber(b) = IF k = 0 THEN 0 ELSE list[k].Number
  <2>1. CASE k = 0
    <3>1. b = <<>>
      BY <1>1, <2>1
    <3> QED BY <2>1, <3>1 DEF LastNumber
  <2>2. CASE k # 0
    <3>1. b # <<>> /\ b[Len(b)] = list[k]
      BY <1>1, <2>2
    <3> QED BY <2>2, <3>1 DEF LastNumber
  <2> QED BY <2>1, <2>2
<1>4. LastNumber(b) \in 0 .. Word - 1
  <2>1. 0 \in 0 .. Word - 1
    BY WordType
  <2>2. k # 0 => list[k] \in Option
    OBVIOUS
  <2> QED BY <1>3, <2>1, <2>2 DEF Option
<1> QED BY <1>1, <1>2, <1>3, <1>4

LEMMA PackedStep ==
    ASSUME NEW list \in Seq(Option), NEW k \in 0 .. Len(list) - 1
    PROVE  /\ Packed(list, k + 1) = Packed(list, k) \o NextCoded(list, k)
           /\ NextCoded(list, k) \in Seq(Byte) /\ Packed(list, k) \in Seq(Byte)
           /\ Len(NextCoded(list, k)) >= 1
           /\ NextCoded(list, k)[1] # OPTION_PAYLOAD_MARKER
<1> DEFINE b == Before(list, k)
           last == LastNumber(b)
           o == list[k + 1]
           c == NextCoded(list, k)
           d == (o.Number - last) % Word
           v == o.Value
<1>1. b \in Seq(Option) /\ Before(list, k + 1) = Append(b, o) /\ last \in 0 .. Word - 1
  <2>1. k \in 0 .. Len(list) /\ k < Len(list)
    OBVIOUS
  <2> QED BY <2>1, BeforeType
<1>2. o \in Option /\ last \in Nat
  <2>1. last \in Nat
    BY <1>1, WordType
  <2> QED BY <2>1
<1>3. v \in Seq(Byte) /\ Len(v) \in Nat /\ d \in Nat
  <2>1. o.Number - last \in Int
    BY <1>2, OptionType
  <2> QED BY <1>2, <2>1, OptionType, WordType
<1> HIDE DEF b, o, v, d, last
<1>4. c = BytesOf(d, v)
  BY DEF NextCoded, Coded, b, o, v, d, last
<1>5. c \in Seq(Byte)
  BY <1>2, CodedType DEF NextCoded, b, o, last
<1> HIDE DEF c
<1>6. Holds(c, d, v)
  BY <1>3, <1>4, CodedBytes
<1>7. Len(c) >= 1
  <2>1. Len(c) = 1 + Len(Extended(d)) + Len(Extended(Len(v))) + Len(v)
    BY <1>6 DEF Holds
  <2>2. Len(Extended(d)) \in 0 .. 2 /\ Len(Extended(Len(v))) \in 0 .. 2
    BY <1>3, FieldSizes
  <2> QED BY <1>3, <2>1, <2>2
<1>8. c[1] # OPTION_PAYLOAD_MARKER
  <2>1. c[1] = 16 * Nibble(d) + Nibble(Len(v))
    BY <1>6 DEF Holds
  <2>2. Nibble(d) \in 0 .. 14 /\ Nibble(Len(v)) \in 0 .. 14
    BY <1>3, ExtendedType
  <2> QED BY <2>1, <2>2, FirstByte
<1>9. Packed(list, k + 1) = Packed(list, k) \o c
  <2>1. PackOptionsFromList(Append(b, o)) = PackOptionsFromList(b) \o Coded(last, o)
    BY <1>1, <1>2, PackAppend DEF last
  <2> QED BY <1>1, <2>1 DEF Packed, NextCoded, c, b, o, last
<1>10. Packed(list, k) \in Seq(Byte)
  BY <1>1, PackType DEF Packed, b
<1> QED BY <1>5, <1>7, <1>8, <1>9, <1>10 DEF c

\* The bytes of the first options are the first bytes of them all.
Leads(s, t) == Len(s) <= Len(t) /\ \A i \in 1 .. Len(s) : t[i] = s[i]

LEMMA PackedLeads ==
    ASSUME NEW list \in Seq(Option)
    PROVE  \A k \in 0 .. Len(list) :
              /\ Packed(list, k) \in Seq(Byte)
              /\ \A j \in 0 .. k : Leads(Packed(list, j), Packed(list, k))
<1> DEFINE n == Len(list)
           P(k) == Packed(list, k)
           Q == {k \in 0 .. n : P(k) \in Seq(Byte) /\ \A j \in 0 .. k : Leads(P(j), P(k))}
<1>0. n \in Nat
  OBVIOUS
<1>1. 0 \in Q
  <2>1. P(0) \in Seq(Byte)
    <3>1. Before(list, 0) \in Seq(Option)
      BY BeforeType
    <3> QED BY <3>1, PackType DEF Packed
  <2> HIDE DEF P
  <2>2. Leads(P(0), P(0))
    BY <2>1 DEF Leads
  <2>3. \A j \in 0 .. 0 : j = 0
    OBVIOUS
  <2> QED BY <1>0, <2>1, <2>2, <2>3
<1>2. ASSUME NEW k \in 0 .. n - 1, k \in Q PROVE k + 1 \in Q
  <2> DEFINE c == NextCoded(list, k)
  <2>1. P(k + 1) = P(k) \o c /\ c \in Seq(Byte) /\ P(k) \in Seq(Byte)
    BY PackedStep
  <2>2. \A j \in 0 .. k : Leads(P(j), P(k))
    BY <1>2
  <2> HIDE DEF P, c
  <2>3. P(k + 1) \in Seq(Byte) /\ Leads(P(k), P(k + 1))
    <3>1. /\ P(k) \o c \in Seq(Byte) /\ Len(P(k) \o c) = Len(P(k)) + Len(c)
          /\ \A i \in 1 .. Len(P(k)) : (P(k) \o c)[i] = P(k)[i]
          /\ Len(c) \in Nat /\ Len(P(k)) \in Nat
      BY <2>1
    <3>2. Len(P(k)) <= Len(P(k)) + Len(c)
      BY <3>1
    <3> QED BY <2>1, <3>1, <3>2, Zenon DEF Leads
  <2>4. Leads(P(k + 1), P(k + 1))
    BY <2>3 DEF Leads
  <2>5. ASSUME NEW j \in 0 .. k + 1 PROVE Leads(P(j), P(k + 1))
    <3>1. CASE j = k + 1
      BY <2>4, <3>1
    <3>2. CASE j \in 0 .. k
      <4>1. Leads(P(j), P(k))
        BY <2>2, <3>2
      <4>2. Len(P(j)) <= Len(P(k)) /\ Len(P(k)) <= Len(P(k + 1))
        BY <4>1, <2>3 DEF Leads
      <4>3. P(j) \in Seq(Byte)
        <5>1. j \in 0 .. Len(list)
          BY <1>0, <3>2 DEF n
        <5>2. Before(list, j) \in Seq(Option)
          BY <5>1, BeforeType
        <5> QED BY <5>2, PackType DEF Packed, P
      <4>4. Len(P(j)) \in Nat /\ Len(P(k)) \in Nat /\ Len(P(k + 1)) \in Nat
        BY <2>1, <2>3, <4>3
      <4>5. ASSUME NEW i \in 1 .. Len(P(j)) PROVE P(k + 1)[i] = P(j)[i]
        <5>1. i \in 1 .. Len(P(k))
          BY <4>2, <4>4
        <5> QED BY <5>1, <4>1, <2>3 DEF Leads
      <4>6. Len(P(j)) <= Len(P(k + 1))
        BY <4>2, <4>4
      <4> QED BY <4>5, <4>6 DEF Leads
    <3>3. j = k + 1 \/ j \in 0 .. k
      BY <1>0
    <3> QED BY <3>1, <3>2, <3>3
  <2>6. k + 1 \in 0 .. n
    BY <1>0
  <2> QED BY <2>3, <2>5, <2>6
<1>3. \A k \in 0 .. n : k \in Q
  <2> HIDE DEF Q, n
  <2> QED BY <1>0, <1>1, <1>2, UpTo
<1> QED BY <1>3

\* What a list of options must be for a datagram to carry it.
Sorted(list) ==
    /\ list \in Seq(Option) /\ Ascending(list)
    /\ \A k \in 1 .. Len(list) : Len(list[k].Value) <= MAX_OPTION_VALUE_SIZE

\* As far as the datagram reaches, it holds these bytes.
Agrees(raw, packed) == \A i \in 1 .. Len(packed) : i <= Len(raw) => raw[i] = packed[i]

LEMMA ReachedType ==
    ASSUME NEW list \in Seq(Option), NEW k \in 0 .. Len(list)
    PROVE  Reached(list, k) \in ParseState
<1>1. /\ Before(list, k) \in Seq(Option) /\ LastNumber(Before(list, k)) \in 0 .. Word - 1
      /\ Packed(list, k) \in Seq(Byte)
  BY BeforeType, PackedLeads
<1>2. Len(Packed(list, k)) \in Nat /\ <<>> \in Seq(Byte)
  BY <1>1
<1> QED BY <1>1, <1>2 DEF Reached, ParseState

\* From one option the parser comes to the next, or sees that it is cut off.
LEMMA ParseStep ==
    ASSUME NEW raw \in Seq(Byte), NEW stray \in Byte, NEW list, Sorted(list),
           Agrees(raw, Packed(list, Len(list))),
           NEW k \in 0 .. Len(list) - 1, Len(Packed(list, k)) < Len(raw)
    PROVE  /\ ~Ended(raw, Reached(list, k))
           /\ ~AtPayload(raw, Reached(list, k))
           /\ ParseOption(raw, stray, Reached(list, k)) =
                IF Len(Packed(list, k + 1)) <= Len(raw) THEN Reached(list, k + 1)
                ELSE ParseError(Reached(list, k))
<1> DEFINE n == Len(list)
           s == Reached(list, k)
           o == list[k + 1]
           c == NextCoded(list, k)
           p == Packed(list, k)
           q == Packed(list, k + 1)
           w == Packed(list, n)
           b == Before(list, k)
           last == LastNumber(b)
<1>1. /\ list \in Seq(Option) /\ n \in Nat /\ k \in 0 .. n /\ k + 1 \in 0 .. n /\ k < n
      /\ k + 1 \in 1 .. n /\ n \in 0 .. n /\ o \in Option /\ Len(raw) \in Nat
  BY DEF Sorted
<1>2. /\ q = p \o c /\ c \in Seq(Byte) /\ p \in Seq(Byte) /\ Len(c) >= 1
      /\ c[1] # OPTION_PAYLOAD_MARKER
  BY <1>1, PackedStep
<1>3. w \in Seq(Byte) /\ Leads(q, w) /\ q \in Seq(Byte)
  BY <1>1, PackedLeads
<1>4. /\ b \in Seq(Option) /\ Len(b) = k /\ \A j \in 1 .. k : b[j] = list[j]
      /\ Before(list, k + 1) = Append(b, o)
      /\ last = (IF k = 0 THEN 0 ELSE list[k].Number)
      /\ LastNumber(Before(list, k + 1)) = o.Number
  <2>1. k + 1 # 0
    BY <1>1
  <2> QED BY <1>1, <2>1, BeforeType
<1>5. s \in ParseState
  BY <1>1, ReachedType
<1>6. /\ s.offset = Len(p) /\ s.last = last /\ s.list = b /\ s.payload = <<>> /\ s.res = "OK"
  BY DEF Reached
<1>7. o.Number \in Nat /\ \A j \in 1 .. k : list[j].Number \in Nat /\ list[j].Number <= o.Number
  <2>1. o.Number \in Nat
    BY <1>1, OptionType
  <2>2. ASSUME NEW j \in 1 .. k PROVE list[j].Number \in Nat /\ list[j].Number <= o.Number
    <3>1. j \in 1 .. n /\ j <= k + 1 /\ list[j] \in Option
      BY <1>1
    <3>2. list[j].Number \in Nat
      BY <3>1, OptionType
    <3> QED BY <1>1, <3>1, <3>2 DEF Sorted, Ascending
  <2> QED BY <2>1, <2>2
<1>8. s.last <= o.Number
  <2>1. k # 0 => k \in 1 .. k
    BY <1>1
  <2> HIDE DEF s, last, o, b
  <2> QED BY <2>1, <1>4, <1>6, <1>7
<1>9. Len(o.Value) <= MAX_OPTION_VALUE_SIZE
  BY <1>1 DEF Sorted
<1>10. c = Coded(s.last, o)
  BY <1>6 DEF NextCoded
<1>11. Len(p) < Len(raw) /\ \A i \in 1 .. Len(w) : i <= Len(raw) => raw[i] = w[i]
  BY DEF Agrees
<1> HIDE DEF s, o, c, p, q, w, b, last, n
<1>12. Len(p) \in Nat /\ Len(c) \in Nat /\ Len(q) = Len(p) + Len(c)
       /\ \A i \in 1 .. Len(c) : q[Len(p) + i] = c[i]
  BY <1>2
<1>13. ASSUME NEW i \in 1 .. Len(c), s.offset + i <= Len(raw)
       PROVE  raw[s.offset + i] = c[i]
  <2>1. Len(p) + i \in 1 .. Len(q)
    BY <1>12
  <2>2. Len(p) + i \in 1 .. Len(w) /\ w[Len(p) + i] = q[Len(p) + i]
    <3>1. Len(q) <= Len(w) /\ Len(q) \in Nat /\ Len(w) \in Nat
      BY <1>3 DEF Leads
    <3> QED BY <2>1, <3>1, <1>3 DEF Leads
  <2>3. raw[Len(p) + i] = w[Len(p) + i]
    BY <2>2, <1>6, <1>11, <1>13
  <2> QED BY <2>2, <2>3, <1>6, <1>12
<1>14. s.offset < Len(raw)
  BY <1>6, <1>11
<1>15. ~Ended(raw, s)
  BY <1>1, <1>6, <1>11, <1>12 DEF Ended
<1>16. ~AtPayload(raw, s)
  <2>1. 1 \in 1 .. Len(c) /\ s.offset + 1 <= Len(raw)
    BY <1>1, <1>2, <1>6, <1>11, <1>12
  <2>2. raw[s.offset + 1] = c[1]
    BY <2>1, <1>13
  <2> QED BY <2>2, <1>2 DEF AtPayload
<1>17. ParseOption(raw, stray, s) =
          IF s.offset + Len(c) <= Len(raw) THEN ReadAfter(s, o, Len(c)) ELSE ParseError(s)
  BY <1>1, <1>5, <1>8, <1>9, <1>10, <1>13, <1>14, ParseCoded
<1>18. ReadAfter(s, o, Len(c)) = Reached(list, k + 1)
  <2>1. AppendOptionToList(b, o, TRUE) = Append(b, o)
    <3>1. \A j \in 1 .. Len(b) : b[j].Number <= o.Number
      BY <1>4, <1>7
    <3> QED BY <1>1, <1>4, <3>1, AppendAtEnd
  <2>2. s = [offset |-> Len(p), last |-> last, list |-> b, payload |-> <<>>, res |-> "OK"]
    BY DEF s, Reached, p, last, b
  <2>3. Reached(list, k + 1) = [offset |-> Len(p) + Len(c), last |-> o.Number,
                                list |-> Append(b, o), payload |-> <<>>, res |-> "OK"]
    BY <1>4, <1>12, Zenon DEF Reached, q
  <2>4. ReadAfter(s, o, Len(c)) = [s EXCEPT !.offset = Len(p) + Len(c), !.last = o.Number,
                                            !.list = Append(b, o)]
    BY <1>6, <2>1, Zenon DEF ReadAfter
  <2> QED BY <2>2, <2>3, <2>4
<1> QED BY <1>6, <1>12, <1>15, <1>16, <1>17, <1>18 DEF s, p, q

\* The parser reads all options the datagram holds whole, and stops at the first
\* that it does not.
LEMMA ParsePacked ==
    ASSUME NEW raw \in Seq(Byte), NEW stray \in Byte, NEW list, Sorted(list),
           Agrees(raw, Packed(list, Len(list))),
           NEW f, Parses(f, raw, stray)
    PROVE  \/ /\ f[Start] = f[Reached(list, Len(list))]
              /\ Len(Packed(list, Len(list))) <= Len(raw)
           \/ /\ Len(Packed(list, Len(list))) > Len(raw)
              /\ \/ f[Start].res # "OK"
                 \/ /\ f[Start].payload = <<>>
                    /\ \E k \in 0 .. Len(list) : f[Start].list = Before(list, k)
<1> DEFINE n == Len(list)
           P(k) == Packed(list, k)
           Cut == /\ Len(P(n)) > Len(raw)
                  /\ \/ f[Start].res # "OK"
                     \/ /\ f[Start].payload = <<>>
                        /\ \E k \in 0 .. n : f[Start].list = Before(list, k)
           Q == {k \in 0 .. n : \/ f[Start] = f[Reached(list, k)] /\ Len(P(k)) <= Len(raw)
                                \/ Cut}
<1>1. n \in Nat /\ list \in Seq(Option) /\ Len(raw) \in Nat
  BY DEF Sorted
<1>2. 0 \in Q
  <2>1. Before(list, 0) = <<>>
    BY DEF Before
  <2>2. Packed(list, 0) = <<>>
    BY <2>1, PackEmpty DEF Packed
  <2>3. Reached(list, 0) = Start
    BY <2>1, <2>2 DEF Reached, Start, LastNumber
  <2>4. Len(P(0)) <= Len(raw)
    BY <1>1, <2>2
  <2> HIDE DEF P, Cut
  <2> QED BY <1>1, <2>3, <2>4
<1>3. ASSUME NEW k \in 0 .. n - 1, k \in Q PROVE k + 1 \in Q
  <2>0. k + 1 \in 0 .. n /\ k \in 0 .. n
    BY <1>1
  <2> SUFFICES ASSUME ~Cut
               PROVE  f[Start] = f[Reached(list, k + 1)] /\ Len(P(k + 1)) <= Len(raw)
    BY <2>0
  <2>1. f[Start] = f[Reached(list, k)] /\ Len(P(k)) <= Len(raw)
    BY <1>3
  <2> DEFINE s == Reached(list, k)
  <2>2. s \in ParseState
    BY <1>1, <2>0, ReachedType
  <2>3. /\ P(k) \in Seq(Byte) /\ P(k + 1) \in Seq(Byte) /\ P(n) \in Seq(Byte)
        /\ Len(P(k + 1)) <= Len(P(n)) /\ Len(P(k)) \in Nat /\ Len(P(k + 1)) \in Nat
        /\ Len(P(n)) \in Nat
    <3>1. n \in 0 .. n
      BY <1>1
    <3>2. P(k) \in Seq(Byte) /\ P(k + 1) \in Seq(Byte) /\ P(n) \in Seq(Byte) /\ Leads(P(k + 1), P(n))
      BY <1>1, <2>0, <3>1, PackedLeads
    <3> HIDE DEF P
    <3> QED BY <3>2 DEF Leads
  <2>4. Len(P(k)) < Len(P(k + 1))
    <3>1. /\ P(k + 1) = P(k) \o NextCoded(list, k)
          /\ NextCoded(list, k) \in Seq(Byte) /\ Len(NextCoded(list, k)) >= 1
      BY <1>1, PackedStep
    <3> HIDE DEF P
    <3>2. Len(P(k + 1)) = Len(P(k)) + Len(NextCoded(list, k)) /\ Len(NextCoded(list, k)) \in Nat
      BY <2>3, <3>1
    <3> QED BY <2>3, <3>1, <3>2
  <2>5. s.res = "OK" /\ s.list = Before(list, k) /\ s.payload = <<>> /\ s.offset = Len(P(k))
    BY DEF Reached
  <2>6. f[s] = IF Ended(raw, s) THEN s
               ELSE IF AtPayload(raw, s) THEN PayloadRead(raw, s)
               ELSE f[ParseOption(raw, stray, s)]
    BY <2>2 DEF Parses
  <2>7. CASE Len(P(k)) = Len(raw)
    <3>1. Ended(raw, s)
      BY <1>1, <2>5, <2>7 DEF Ended
    <3>2. f[Start] = s
      BY <2>1, <2>6, <3>1
    <3>3. Len(P(n)) > Len(raw)
      <4> HIDE DEF P
      <4> QED BY <1>1, <2>3, <2>4, <2>7
    <3>4. Cut
      BY <2>0, <2>5, <3>2, <3>3
    <3> QED BY <3>4
  <2>8. CASE Len(P(k)) # Len(raw)
    <3>0. Len(P(k)) < Len(raw)
      <4> HIDE DEF P
      <4> QED BY <1>1, <2>1, <2>3, <2>8
    <3>1. /\ ~Ended(raw, s) /\ ~AtPayload(raw, s)
          /\ ParseOption(raw, stray, s) =
                IF Len(P(k + 1)) <= Len(raw) THEN Reached(list, k + 1) ELSE ParseError(s)
      BY <3>0, ParseStep
    <3> HIDE DEF s, P, Cut
    <3>2. f[Start] = f[ParseOption(raw, stray, s)]
      BY <2>1, <2>6, <3>1 DEF s
    <3>3. CASE Len(P(k + 1)) <= Len(raw)
      BY <3>1, <3>2, <3>3
    <3>4. CASE ~(Len(P(k + 1)) <= Len(raw))
      <4>1. f[Start] = f[ParseError(s)]
        BY <3>1, <3>2, <3>4
      <4>2. ParseError(s) \in ParseState /\ ParseError(s).res # "OK"
        BY <2>2, ParseErrorType
      <4>3. f[ParseError(s)] = ParseError(s)
        BY <4>2 DEF Parses, Ended
      <4>4. Len(P(n)) > Len(raw)
        BY <1>1, <2>3, <3>4
      <4>5. Cut
        BY <4>1, <4>2, <4>3, <4>4 DEF Cut
      <4> QED BY <4>5
    <3> QED BY <3>3, <3>4
  <2> QED BY <2>7, <2>8
<1>4. n \in Q
  <2> HIDE DEF Q, n
  <2>1. \A k \in 0 .. n : k \in Q
    BY <1>1, <1>2, <1>3, UpTo
  <2> QED BY <1>1, <2>1
<1> QED BY <1>4

-----------------------------------------------------------------------------
(* Datagrams *)
\* The messages the code sends: what Block2 and the other options of the model
\* fit into, with a token of at most eight bytes.
Message(maxPayload) ==
    {m \in [type : 0 .. 3, code : Byte, mid : 0 .. Word - 1, token : Seq(Byte),
            options : Seq(Option), payload : Seq(Byte)] :
        /\ m.code \div 32 \notin {1, 6, 7}
        /\ Len(m.token) <= 8
        /\ Sorted(m.options)
        /\ Len(m.payload) <= maxPayload
        /\ m.code = EMPTY => m.token = <<>> /\ m.payload = <<>>}

Tail255(payload) == IF payload = <<>> THEN <<>> ELSE << OPTION_PAYLOAD_MARKER >> \o payload
Rest(m) == PackOptionsFromList(m.options) \o Tail255(m.payload)
Header(m) == << 64 * COAP_VERSION + 16 * m.type + Len(m.token), m.code, m.mid \div 256, m.mid % 256 >>

LEMMA TailType ==
    ASSUME NEW payload \in Seq(Byte)
    PROVE  /\ Tail255(payload) \in Seq(Byte)
           /\ Len(Tail255(payload)) = IF payload = <<>> THEN 0 ELSE 1 + Len(payload)
           /\ payload # <<>> =>
                /\ Tail255(payload)[1] = OPTION_PAYLOAD_MARKER
                /\ \A i \in 1 .. Len(payload) : Tail255(payload)[1 + i] = payload[i]
<1>1. OPTION_PAYLOAD_MARKER \in Byte
  BY DEF OPTION_PAYLOAD_MARKER, Byte
<1> DEFINE x == << OPTION_PAYLOAD_MARKER >>
<1>2. x \in Seq(Byte) /\ Len(x) = 1 /\ x[1] = OPTION_PAYLOAD_MARKER
  BY <1>1
<1> HIDE DEF x
<1>3. /\ x \o payload \in Seq(Byte) /\ Len(x \o payload) = 1 + Len(payload)
      /\ (x \o payload)[1] = x[1]
      /\ \A i \in 1 .. Len(payload) : (x \o payload)[1 + i] = payload[i]
  <2>1. 1 \in Nat /\ Len(payload) \in Nat /\ 1 \in 1 .. 1
    OBVIOUS
  <2>2. Follows(x \o payload, x, payload, 1, Len(payload), Byte)
    BY <1>2, <2>1, ConcatFollows, Zenon
  <2> QED BY <2>1, <2>2, Zenon DEF Follows
<1>4. Tail255(payload) = IF payload = <<>> THEN <<>> ELSE x \o payload
  BY DEF Tail255, x
<1> QED BY <1>2, <1>3, <1>4

LEMMA BeforeAll ==
    ASSUME NEW list \in Seq(Option)
    PROVE  Before(list, Len(list)) = list /\ Packed(list, Len(list)) = PackOptionsFromList(list)
<1>1. SubSeq(list, 1, Len(list)) = list
  OBVIOUS
<1> QED BY <1>1 DEF Before, Packed

\* The parser behind the last option of a list.
TailRead(f, raw, w, list, payload) ==
    LET s == f[Reached(list, Len(list))] IN
    /\ s.res = "OK" => s.list = list
    /\ raw = w => s.res = "OK" /\ s.payload = payload

LEMMA ParseTail ==
    ASSUME NEW raw \in Seq(Byte), NEW stray \in Byte, NEW list, Sorted(list),
           NEW payload \in Seq(Byte), NEW f, Parses(f, raw, stray),
           NEW w, w = PackOptionsFromList(list) \o Tail255(payload),
           Leads(raw, w), Len(raw) >= Len(PackOptionsFromList(list))
    PROVE  TailRead(f, raw, w, list, payload)
<1> DEFINE n == Len(list)
           s == Reached(list, n)
           p == PackOptionsFromList(list)
           t == Tail255(payload)
<1>1. list \in Seq(Option) /\ n \in Nat /\ n \in 0 .. n /\ Len(raw) \in Nat /\ Len(payload) \in Nat
  BY DEF Sorted
<1>2. s \in ParseState
  BY <1>1, ReachedType
<1>3. s = [offset |-> Len(p), last |-> s.last, list |-> list, payload |-> <<>>, res |-> "OK"]
  <2>1. Before(list, n) = list /\ Packed(list, n) = p
    BY <1>1, BeforeAll
  <2> QED BY <2>1 DEF Reached
<1>4. f[s] = IF Ended(raw, s) THEN s
             ELSE IF AtPayload(raw, s) THEN PayloadRead(raw, s)
             ELSE f[ParseOption(raw, stray, s)]
  BY <1>2 DEF Parses
<1>5. p \in Seq(Byte) /\ t \in Seq(Byte)
  BY <1>1, PackType, TailType
<1>6. /\ w = p \o t /\ Len(raw) >= Len(p)
      /\ Len(raw) <= Len(w) /\ \A i \in 1 .. Len(raw) : w[i] = raw[i]
  BY DEF Leads
<1>7. /\ Len(t) = IF payload = <<>> THEN 0 ELSE 1 + Len(payload)
      /\ payload # <<>> => /\ t[1] = OPTION_PAYLOAD_MARKER
                           /\ \A i \in 1 .. Len(payload) : t[1 + i] = payload[i]
  BY TailType
<1> HIDE DEF n, s, p, t
<1>8. /\ w \in Seq(Byte) /\ Len(w) = Len(p) + Len(t) /\ Len(p) \in Nat /\ Len(t) \in Nat
      /\ \A i \in 1 .. Len(t) : w[Len(p) + i] = t[i]
  BY <1>5, <1>6
<1>9. s.res = "OK" /\ s.list = list /\ s.payload = <<>> /\ s.offset = Len(p)
  BY <1>3
<1>10. CASE Len(raw) = Len(p)
  <2>1. Ended(raw, s)
    BY <1>9, <1>8, <1>10 DEF Ended
  <2>2. f[s] = s
    BY <1>4, <2>1
  <2>3. raw = w => payload = <<>>
    BY <1>1, <1>7, <1>8, <1>10
  <2> QED BY <1>9, <2>2, <2>3 DEF s, n, TailRead
<1>11. CASE Len(raw) # Len(p)
  <2>1. Len(raw) > Len(p) /\ payload # <<>>
    BY <1>1, <1>6, <1>7, <1>8, <1>11
  <2>2. ~Ended(raw, s)
    BY <1>1, <1>8, <1>9, <2>1 DEF Ended
  <2>3. AtPayload(raw, s)
    <3>1. Len(p) + 1 \in 1 .. Len(raw) /\ 1 \in 1 .. Len(t)
      BY <1>1, <1>7, <1>8, <2>1
    <3>2. raw[Len(p) + 1] = t[1]
      BY <3>1, <1>6, <1>8
    <3> QED BY <3>2, <1>7, <1>9, <2>1 DEF AtPayload
  <2>4. f[s] = PayloadRead(raw, s)
    BY <1>4, <2>2, <2>3
  <2>5. CASE Len(raw) - Len(p) < 2
    <3>1. f[s] = ParseError(s)
      BY <1>9, <2>4, <2>5 DEF PayloadRead
    <3>2. f[s].res # "OK"
      BY <3>1, <1>2, ParseErrorType
    <3>3. payload = <<>> \/ Len(payload) >= 1
      BY <1>1
    <3>4. raw # w
      BY <1>1, <1>7, <1>8, <2>1, <2>5, <3>3
    <3> QED BY <3>2, <3>4 DEF s, n, TailRead
  <2>6. CASE ~(Len(raw) - Len(p) < 2)
    <3>1. f[s] = [s EXCEPT !.payload = SubSeq(raw, Len(p) + 2, Len(raw))]
      BY <1>9, <2>4, <2>6 DEF PayloadRead
    <3>2. f[s].list = list /\ f[s].res = "OK" /\ f[s].payload = SubSeq(raw, Len(p) + 2, Len(raw))
      BY <3>1, <1>3
    <3>3. ASSUME raw = w PROVE SubSeq(raw, Len(p) + 2, Len(raw)) = payload
      <4> DEFINE u == SubSeq(raw, Len(p) + 2, Len(raw))
      <4>1. Len(raw) = Len(p) + 1 + Len(payload)
        BY <1>1, <1>7, <1>8, <2>1, <3>3
      <4>2. /\ u \in Seq(Byte) /\ Len(u) = Len(payload)
            /\ \A i \in 1 .. Len(payload) : u[i] = raw[Len(p) + 1 + i]
        <5>1. /\ Len(p) + 2 \in 1 .. Len(raw) + 1
              /\ Len(raw) - (Len(p) + 2) + 1 = Len(payload)
          BY <4>1, <1>1, <1>8
        <5>2. u \in Seq(Byte) /\ Len(u) = Len(payload)
          BY <5>1, <4>1, <1>1, <1>8
        <5>3. ASSUME NEW i \in 1 .. Len(payload) PROVE u[i] = raw[Len(p) + 1 + i]
          <6>1. u[i] = raw[(Len(p) + 2) + i - 1]
            BY <5>1, <4>1, <1>1, <1>8
          <6>2. (Len(p) + 2) + i - 1 = Len(p) + 1 + i
            BY <1>8
          <6> QED BY <6>1, <6>2
        <5> QED BY <5>2, <5>3
      <4> HIDE DEF u
      <4>3. ASSUME NEW i \in 1 .. Len(payload) PROVE u[i] = payload[i]
        <5>1. 1 + i \in 1 .. Len(t) /\ Len(p) + (1 + i) = Len(p) + 1 + i
          BY <1>1, <1>7, <1>8, <2>1
        <5>2. w[Len(p) + (1 + i)] = t[1 + i] /\ t[1 + i] = payload[i]
          BY <5>1, <1>7, <1>8, <2>1
        <5> QED BY <5>1, <5>2, <4>2, <3>3
      <4>4. u = payload
        BY <4>2, <4>3, SeqEqual
      <4> QED BY <4>4 DEF u
    <3> QED BY <3>2, <3>3 DEF s, n, TailRead
  <2> QED BY <2>5, <2>6
<1> QED BY <1>10, <1>11

\* Options and payload, whole or cut off.
ReadBack(read, raw, w, list, payload) ==
    /\ read.res = "OK" => \E k \in 0 .. Len(list) : read.list = Before(list, k)
    /\ raw = w => read.res = "OK" /\ read.list = list /\ read.payload = payload

LEMMA ParseOptionsBack ==
    ASSUME NEW raw \in Seq(Byte), NEW stray \in Byte, NEW list, Sorted(list),
           NEW payload \in Seq(Byte), NEW w, w = PackOptionsFromList(list) \o Tail255(payload),
           Leads(raw, w)
    PROVE  ReadBack(ParseOptionsFromRaw(raw, stray), raw, w, list, payload)
<1> DEFINE n == Len(list)
           p == PackOptionsFromList(list)
           t == Tail255(payload)
           r == ParseOptionsFromRaw(raw, stray)
<1>1. list \in Seq(Option) /\ n \in 0 .. n /\ Len(raw) \in Nat
  BY DEF Sorted
<1>2. PICK f : Parses(f, raw, stray) /\ r = f[Start]
  BY ParseLoop
<1>3. Packed(list, n) = p /\ Before(list, n) = list
  BY <1>1, BeforeAll
<1>4. p \in Seq(Byte) /\ t \in Seq(Byte)
  BY <1>1, PackType, TailType
<1>5. Len(raw) <= Len(w) /\ \A i \in 1 .. Len(raw) : w[i] = raw[i]
  BY DEF Leads
<1>6. w = p \o t
  OBVIOUS
<1> HIDE DEF n, p, t, r
<1>7. /\ w \in Seq(Byte) /\ Len(w) = Len(p) + Len(t) /\ Len(p) \in Nat /\ Len(t) \in Nat
      /\ \A i \in 1 .. Len(p) : w[i] = p[i]
  BY <1>4, <1>6
<1>8. Agrees(raw, Packed(list, n))
  <2>1. ASSUME NEW i \in 1 .. Len(p), i <= Len(raw) PROVE raw[i] = p[i]
    <3>1. i \in 1 .. Len(raw)
      BY <1>1, <2>1
    <3> QED BY <3>1, <1>5, <1>7
  <2> QED BY <1>3, <2>1 DEF Agrees
<1>9. \/ r = f[Reached(list, n)] /\ Len(p) <= Len(raw)
      \/ /\ Len(p) > Len(raw)
         /\ r.res # "OK" \/ \E k \in 0 .. n : r.list = Before(list, k)
  <2>1. \/ f[Start] = f[Reached(list, n)] /\ Len(Packed(list, n)) <= Len(raw)
        \/ /\ Len(Packed(list, n)) > Len(raw)
           /\ \/ f[Start].res # "OK"
              \/ f[Start].payload = <<>> /\ \E k \in 0 .. n : f[Start].list = Before(list, k)
    BY <1>2, <1>8, ParsePacked DEF n
  <2> QED BY <2>1, <1>2, <1>3
<1>10. CASE r = f[Reached(list, n)] /\ Len(p) <= Len(raw)
  <2>1. Len(raw) >= Len(p)
    BY <1>1, <1>7, <1>10
  <2>2. /\ f[Reached(list, n)].res = "OK" => f[Reached(list, n)].list = list
        /\ raw = w => f[Reached(list, n)].res = "OK" /\ f[Reached(list, n)].payload = payload
    <3>1. Len(raw) >= Len(PackOptionsFromList(list))
      BY <2>1 DEF p
    <3>2. TailRead(f, raw, w, list, payload)
      BY <1>2, <3>1, ParseTail
    <3> QED BY <3>2 DEF TailRead, n
  <2> QED BY <1>1, <1>3, <1>10, <2>2 DEF r, n, ReadBack
<1>11. CASE /\ Len(p) > Len(raw)
            /\ r.res # "OK" \/ \E k \in 0 .. n : r.list = Before(list, k)
  <2>1. raw # w
    BY <1>7, <1>11
  <2> QED BY <1>11, <2>1 DEF r, n, ReadBack
<1> QED BY <1>9, <1>10, <1>11

LEMMA MessageType ==
    ASSUME NEW max \in Nat, NEW m \in Message(max)
    PROVE  /\ m.type \in 0 .. 3 /\ m.code \in Byte /\ m.mid \in 0 .. Word - 1
           /\ m.token \in Seq(Byte) /\ Len(m.token) \in 0 .. 8
           /\ m.options \in Seq(Option) /\ Sorted(m.options)
           /\ m.payload \in Seq(Byte) /\ Len(m.payload) \in Nat /\ Len(m.payload) <= max
           /\ m.code \div 32 \notin {1, 6, 7}
           /\ m.code = EMPTY => m.token = <<>> /\ m.payload = <<>>
           /\ m = [type |-> m.type, code |-> m.code, mid |-> m.mid, token |-> m.token,
                   options |-> m.options, payload |-> m.payload]
<1> DEFINE W == 0 .. Word - 1
<1>1. /\ m \in [type : 0 .. 3, code : Byte, mid : W, token : Seq(Byte),
                options : Seq(Option), payload : Seq(Byte)]
      /\ m.code \div 32 \notin {1, 6, 7}
      /\ Len(m.token) <= 8
      /\ Sorted(m.options)
      /\ Len(m.payload) <= max
      /\ m.code = EMPTY => m.token = <<>> /\ m.payload = <<>>
  BY Zenon DEF Message
<1> HIDE DEF W
<1>2. m.token \in Seq(Byte) /\ m.payload \in Seq(Byte)
  BY <1>1
<1>3. Len(m.token) \in 0 .. 8 /\ Len(m.payload) \in Nat
  <2>1. \A s \in Seq(Byte) : Len(s) \in Nat
    OBVIOUS
  <2>2. Len(m.token) \in Nat /\ Len(m.payload) \in Nat
    BY <1>2, <2>1, Zenon
  <2>3. Len(m.token) <= 8
    BY <1>1
  <2>4. \A n \in Nat : n <= 8 => n \in 0 .. 8
    OBVIOUS
  <2> QED BY <2>2, <2>3, <2>4, Zenon
<1>4. m = [type |-> m.type, code |-> m.code, mid |-> m.mid, token |-> m.token,
           options |-> m.options, payload |-> m.payload]
  BY <1>1
<1>5. m.type \in 0 .. 3 /\ m.code \in Byte /\ m.mid \in W /\ m.options \in Seq(Option)
  BY <1>1
<1> QED BY <1>1, <1>2, <1>3, <1>4, <1>5 DEF W

LEMMA HeaderType ==
    ASSUME NEW max \in Nat, NEW m \in Message(max)
    PROVE  /\ Header(m) \in Seq(Byte) /\ Len(Header(m)) = 4
           /\ Header(m)[1] \div 64 = COAP_VERSION
           /\ (Header(m)[1] \div 16) % 4 = m.type
           /\ Header(m)[1] % 16 = Len(m.token)
           /\ Header(m)[2] = m.code
           /\ 256 * Header(m)[3] + Header(m)[4] = m.mid
<1> DEFINE k == Len(m.token)
           t == m.type
           b == 64 * COAP_VERSION + 16 * t + k
           d == m.mid
           h == Header(m)
<1>1. k \in 0 .. 8 /\ t \in 0 .. 3 /\ d \in Nat /\ d < Word /\ m.code \in Byte
  <2>1. d \in 0 .. Word - 1
    BY MessageType
  <2> HIDE DEF d
  <2>2. d \in Nat /\ d < Word
    BY <2>1, WordType
  <2>3. k \in 0 .. 8 /\ t \in 0 .. 3 /\ m.code \in Byte
    BY MessageType
  <2> QED BY <2>2, <2>3
<1>2. h = << b, m.code, d \div 256, d % 256 >>
  BY DEF Header
<1> HIDE DEF h
<1>3. b \in Byte /\ b \div 64 = COAP_VERSION /\ (b \div 16) % 4 = t /\ b % 16 = k
  <2> HIDE DEF k, t
  <2> QED BY <1>1 DEF COAP_VERSION, Byte
<1>4. d \div 256 \in Byte /\ d % 256 \in Byte /\ 256 * (d \div 256) + (d % 256) = d
  <2> HIDE DEF d
  <2>1. d < 65536
    BY <1>1, SMT DEF Word
  <2>2. d \div 256 < 256 /\ d \div 256 \in Nat /\ d % 256 \in 0 .. 255
    BY <1>1, <2>1, SMT
  <2>3. 256 * (d \div 256) + (d % 256) = d
    BY <1>1, SMT
  <2> QED BY <2>2, <2>3 DEF Byte
<1> HIDE DEF b, k, t, d
<1>5. h \in Seq(Byte) /\ Len(h) = 4 /\ h[1] = b /\ h[2] = m.code /\ h[3] = d \div 256 /\ h[4] = d % 256
  BY <1>1, <1>2, <1>3, <1>4
<1> QED BY <1>3, <1>4, <1>5 DEF k, t, d, h

\* The datagram begins with header and token of the message.
Begins(raw, m) == Leads(Header(m) \o m.token, raw)

LEMMA BeginsBytes ==
    ASSUME NEW max \in Nat, NEW m \in Message(max)
    PROVE  /\ Header(m) \o m.token \in Seq(Byte)
           /\ Len(Header(m) \o m.token) = 4 + Len(m.token)
           /\ \A i \in 1 .. 4 : (Header(m) \o m.token)[i] = Header(m)[i]
           /\ \A i \in 1 .. Len(m.token) : (Header(m) \o m.token)[4 + i] = m.token[i]
<1>1. Header(m) \in Seq(Byte) /\ Len(Header(m)) = 4 /\ m.token \in Seq(Byte) /\ Len(m.token) \in Nat /\ 4 \in Nat
  <2>1. Len(m.token) \in 0 .. 8
    BY MessageType
  <2> QED BY <2>1, HeaderType, MessageType
<1>2. Follows(Header(m) \o m.token, Header(m), m.token, 4, Len(m.token), Byte)
  BY <1>1, ConcatFollows, Zenon
<1> QED BY <1>2, Zenon DEF Follows

AfterToken(raw, m) == SubSeq(raw, 4 + Len(m.token) + 1, Len(raw))

Read(m, options, payload) ==
    [res |-> "OK", msg |-> [type |-> m.type, code |-> m.code, mid |-> m.mid,
                            token |-> m.token, options |-> options, payload |-> payload]]

ReadOf(m, raw, parsed, max) ==
    IF Len(raw) = 4 THEN Read(m, <<>>, <<>>)
    ELSE IF parsed.res # "OK" THEN [res |-> parsed.res, msg |-> <<>>]
    ELSE IF Len(parsed.payload) > max THEN [res |-> "TOO_MUCH_PAYLOAD", msg |-> <<>>]
    ELSE Read(m, parsed.list, parsed.payload)

LEMMA ParseBegun ==
    ASSUME NEW max \in Nat, NEW m \in Message(max), NEW raw \in Seq(Byte), NEW stray,
           Begins(raw, m), NEW parsed, parsed = ParseOptionsFromRaw(AfterToken(raw, m), stray)
    PROVE  ParseMessageFromDatagram(raw, stray, max) = ReadOf(m, raw, parsed, max)
<1> DEFINE k == Len(m.token)
           h == Header(m)
           g == h \o m.token
<1>1. /\ k \in 0 .. 8 /\ m.token \in Seq(Byte) /\ m.code \div 32 \notin {1, 6, 7}
      /\ Len(raw) \in Nat
  BY MessageType
<1>2. /\ h[1] \div 64 = COAP_VERSION /\ (h[1] \div 16) % 4 = m.type /\ h[1] % 16 = k
      /\ h[2] = m.code /\ 256 * h[3] + h[4] = m.mid
  BY HeaderType
<1>3. /\ Len(g) = 4 + k
      /\ \A i \in 1 .. 4 : g[i] = h[i]
      /\ \A i \in 1 .. k : g[4 + i] = m.token[i]
  BY BeginsBytes
<1>4. Len(g) <= Len(raw) /\ \A i \in 1 .. Len(g) : raw[i] = g[i]
  BY DEF Begins, Leads
<1> HIDE DEF g, h, k
<1>5. raw[1] = h[1] /\ raw[2] = h[2] /\ raw[3] = h[3] /\ raw[4] = h[4]
  <2>1. \A i \in 1 .. 4 : i \in 1 .. Len(g)
    BY <1>1, <1>3
  <2>2. 1 \in 1 .. 4 /\ 2 \in 1 .. 4 /\ 3 \in 1 .. 4 /\ 4 \in 1 .. 4
    OBVIOUS
  <2>3. \A i \in 1 .. 4 : raw[i] = h[i]
    BY <2>1, <1>3, <1>4, Zenon
  <2> QED BY <2>2, <2>3, Zenon
<1>6. /\ raw[1] \div 64 = COAP_VERSION /\ (raw[1] \div 16) % 4 = m.type /\ raw[1] % 16 = k
      /\ raw[2] = m.code /\ 256 * raw[3] + raw[4] = m.mid
  BY <1>2, <1>5, Zenon
<1>7. ~(Len(raw) < 4) /\ ~(Len(raw) < 4 + k) /\ ~(k > 8) /\ 4 + k + 1 \in Int
  BY <1>1, <1>3, <1>4
<1>8. SubSeq(raw, 5, 4 + k) = m.token
  <2> DEFINE u == SubSeq(raw, 5, 4 + k)
  <2>1. u \in Seq(Byte) /\ Len(u) = k /\ \A i \in 1 .. k : u[i] = raw[4 + i]
    <3>1. 4 + k <= Len(raw) /\ k \in Nat
      BY <1>1, <1>7
    <3>2. ASSUME NEW i \in 5 .. 4 + k PROVE raw[i] \in Byte
      BY <3>1, <1>1
    <3>3. u \in Seq(Byte) /\ Len(u) = k
      BY <3>1, <3>2
    <3>4. ASSUME NEW i \in 1 .. k PROVE u[i] = raw[4 + i]
      <4>1. u[i] = raw[5 + i - 1] /\ 5 + i - 1 = 4 + i
        BY <3>1
      <4> QED BY <4>1
    <3> QED BY <3>3, <3>4
  <2> HIDE DEF u
  <2>2. ASSUME NEW i \in 1 .. k PROVE u[i] = m.token[i]
    <3>1. 4 + i \in 1 .. Len(g)
      BY <1>1, <1>3
    <3> QED BY <3>1, <2>1, <1>3, <1>4
  <2>3. u = m.token
    BY <1>1, <2>1, <2>2, SeqEqual DEF k
  <2> QED BY <2>3 DEF u
<1>9. Len(raw) = 4 => m.token = <<>>
  BY <1>1, <1>7 DEF k
<1>10. parsed = ParseOptionsFromRaw(SubSeq(raw, 4 + k + 1, Len(raw)), stray)
  BY DEF AfterToken, k
<1>11. ParseMessageFromDatagram(raw, stray, max) =
         IF Len(raw) = 4 THEN Read([m EXCEPT !.token = <<>>], <<>>, <<>>)
         ELSE IF parsed.res # "OK" THEN [res |-> parsed.res, msg |-> <<>>]
         ELSE IF Len(parsed.payload) > max THEN [res |-> "TOO_MUCH_PAYLOAD", msg |-> <<>>]
         ELSE [res |-> "OK", msg |-> [type |-> m.type, code |-> m.code, mid |-> m.mid,
                                      token |-> SubSeq(raw, 5, 4 + k),
                                      options |-> parsed.list, payload |-> parsed.payload]]
  <2> HIDE DEF Read
  <2>1. Read([m EXCEPT !.token = <<>>], <<>>, <<>>)
          = [res |-> "OK", msg |-> [type |-> m.type, code |-> m.code, mid |-> m.mid,
                                    token |-> <<>>, options |-> <<>>, payload |-> <<>>]]
    <3>1. m = [type |-> m.type, code |-> m.code, mid |-> m.mid, token |-> m.token,
               options |-> m.options, payload |-> m.payload]
      BY MessageType
    <3> QED BY <3>1 DEF Read
  <2> QED BY <1>1, <1>6, <1>7, <1>10, <2>1, Zenon DEF ParseMessageFromDatagram
<1>12. Len(raw) = 4 => Read([m EXCEPT !.token = <<>>], <<>>, <<>>) = Read(m, <<>>, <<>>)
  <2>1. m = [type |-> m.type, code |-> m.code, mid |-> m.mid, token |-> m.token,
             options |-> m.options, payload |-> m.payload]
    BY MessageType
  <2> QED BY <2>1, <1>9 DEF Read
<1> QED BY <1>8, <1>11, <1>12, Zenon DEF Read, ReadOf

LEMMA RestType ==
    ASSUME NEW max \in Nat, NEW m \in Message(max)
    PROVE  /\ Rest(m) \in Seq(Byte)
           /\ BuildDatagram(m) = (Header(m) \o m.token) \o Rest(m)
           /\ BuildDatagram(m) \in Seq(Byte)
           /\ Len(BuildDatagram(m)) = 4 + Len(m.token) + Len(Rest(m))
           /\ Leads(Header(m) \o m.token, BuildDatagram(m))
           /\ \A i \in 1 .. Len(Rest(m)) : BuildDatagram(m)[4 + Len(m.token) + i] = Rest(m)[i]
<1> DEFINE g == Header(m) \o m.token
           p == PackOptionsFromList(m.options)
           t == Tail255(m.payload)
           w == BuildDatagram(m)
           k == Len(m.token)
           r == Rest(m)
<1>0. m.token \in Seq(Byte) /\ m.payload \in Seq(Byte) /\ m.options \in Seq(Option) /\ k \in Nat
  BY MessageType
<1>1. g \in Seq(Byte) /\ Len(g) = 4 + k
  BY BeginsBytes
<1>2. p \in Seq(Byte) /\ t \in Seq(Byte)
  BY <1>0, PackType, TailType
<1>3. /\ (IF m.code = EMPTY THEN <<>> ELSE m.token) = m.token
      /\ (IF m.code = EMPTY THEN <<>> ELSE m.payload) = m.payload
  BY MessageType
<1>4. w = (g \o p) \o t
  BY <1>3, ZenonT(90) DEF BuildDatagram, Header, Tail255
<1>5. r = p \o t
  BY DEF Rest
<1> HIDE DEF g, p, t, w, r, k
<1>6. \A a, b, c \in Seq(Byte) : (a \o b) \o c = a \o (b \o c)
  BY Concat3
<1>7. w = g \o r
  BY <1>1, <1>2, <1>4, <1>5, <1>6, Zenon
<1>8. r \in Seq(Byte) /\ Len(r) \in Nat /\ 4 + k \in Nat
  BY <1>0, <1>2, <1>5
<1>9. Follows(g \o r, g, r, 4 + k, Len(r), Byte)
  BY <1>1, <1>8, ConcatFollows, Zenon
<1>10. /\ w \in Seq(Byte) /\ Len(w) = 4 + k + Len(r)
       /\ \A i \in 1 .. 4 + k : w[i] = g[i]
       /\ \A i \in 1 .. Len(r) : w[4 + k + i] = r[i]
  BY <1>7, <1>9, Zenon DEF Follows
<1>11. Len(g) <= Len(w)
  BY <1>0, <1>1, <1>8, <1>10
<1>12. Leads(g, w)
  BY <1>1, <1>10, <1>11, Zenon DEF Leads
<1> QED BY <1>7, <1>8, <1>10, <1>12 DEF g, w, r, k

\* What is left of a datagram that arrives cut off behind its token.
CutOff(m, cut) == SubSeq(BuildDatagram(m), 1, cut)

LEMMA CutType ==
    ASSUME NEW max \in Nat, NEW m \in Message(max),
           NEW cut \in 4 + Len(m.token) .. Len(BuildDatagram(m))
    PROVE  /\ CutOff(m, cut) \in Seq(Byte) /\ Len(CutOff(m, cut)) = cut
           /\ Begins(CutOff(m, cut), m)
           /\ AfterToken(CutOff(m, cut), m) \in Seq(Byte)
           /\ Leads(AfterToken(CutOff(m, cut), m), Rest(m))
           /\ cut = Len(BuildDatagram(m)) => AfterToken(CutOff(m, cut), m) = Rest(m)
<1> DEFINE g == Header(m) \o m.token
           w == BuildDatagram(m)
           k == 4 + Len(m.token)
           r == Rest(m)
           raw == CutOff(m, cut)
           b == AfterToken(raw, m)
<1>1. /\ g \in Seq(Byte) /\ Len(g) = k /\ k \in Nat
      /\ r \in Seq(Byte) /\ w \in Seq(Byte) /\ Len(w) = k + Len(r)
      /\ Leads(g, w) /\ \A i \in 1 .. Len(r) : w[k + i] = r[i]
  BY BeginsBytes, RestType, MessageType
<1>2. cut \in k .. Len(w) /\ raw = SubSeq(w, 1, cut)
  BY DEF CutOff
<1>3. b = SubSeq(raw, k + 1, Len(raw))
  BY DEF AfterToken
<1> HIDE DEF g, w, k, r, raw, b
<1>4. Len(w) \in Nat /\ Len(r) \in Nat /\ cut \in Nat /\ cut <= Len(w) /\ k <= cut
  BY <1>1, <1>2
<1>5. raw \in Seq(Byte) /\ Len(raw) = cut /\ \A i \in 1 .. cut : raw[i] = w[i]
  BY <1>1, <1>2, <1>4
<1>6. Leads(g, raw)
  <2>1. ASSUME NEW i \in 1 .. Len(g) PROVE raw[i] = g[i]
    <3>1. i \in 1 .. cut
      BY <1>1, <1>4
    <3> QED BY <3>1, <1>1, <1>5 DEF Leads
  <2> QED BY <1>1, <1>4, <1>5, <2>1 DEF Leads
<1>7. b \in Seq(Byte) /\ Len(b) = cut - k /\ \A i \in 1 .. cut - k : b[i] = raw[k + i]
  <2>1. b \in Seq(Byte) /\ Len(b) = cut - k
    BY <1>1, <1>3, <1>4, <1>5
  <2>2. ASSUME NEW i \in 1 .. cut - k PROVE b[i] = raw[k + i]
    <3>1. b[i] = raw[(k + 1) + i - 1] /\ (k + 1) + i - 1 = k + i
      BY <1>1, <1>3, <1>4, <1>5
    <3> QED BY <3>1
  <2> QED BY <2>1, <2>2
<1>8. \A i \in 1 .. cut - k : b[i] = r[i]
  <2> TAKE i \in 1 .. cut - k
  <2>1. i \in 1 .. Len(r) /\ k + i \in 1 .. cut
    BY <1>1, <1>4
  <2> QED BY <2>1, <1>1, <1>5, <1>7
<1>9. Leads(b, r)
  <2>1. Len(b) <= Len(r)
    BY <1>1, <1>4, <1>7
  <2> QED BY <1>7, <1>8, <2>1 DEF Leads
<1>10. cut = Len(w) => b = r
  <2> HAVE cut = Len(w)
  <2>1. Len(b) = Len(r)
    BY <1>1, <1>4, <1>7
  <2> QED BY <1>1, <1>7, <1>8, <2>1, SeqEqual
<1> QED BY <1>5, <1>6, <1>7, <1>9, <1>10 DEF g, w, k, r, raw, b, Begins

LEMMA EmptyParse ==
    ASSUME NEW stray \in Byte
    PROVE  /\ ParseOptionsFromRaw(<<>>, stray).list = <<>>
           /\ ParseOptionsFromRaw(<<>>, stray).payload = <<>>
<1>1. PICK f : Parses(f, <<>>, stray) /\ ParseOptionsFromRaw(<<>>, stray) = f[Start]
  <2>1. <<>> \in Seq(Byte)
    OBVIOUS
  <2> QED BY <2>1, ParseLoop
<1>2. Ended(<<>>, Start)
  BY DEF Ended, Start
<1>3. f[Start] = Start
  BY <1>1, <1>2, StartType DEF Parses
<1> QED BY <1>1, <1>3 DEF Start

\* CoAP_ParseMessageFromDatagram reads what CoAP_BuildDatagram wrote: for every
\* message the code sends, whatever numbers and lengths its options have and
\* whatever lies in memory behind the datagram.
THEOREM MessageReadBack ==
    ASSUME NEW max \in Nat, NEW m \in Message(max), NEW stray \in Byte
    PROVE  ParseMessageFromDatagram(BuildDatagram(m), stray, max) = [res |-> "OK", msg |-> m]
<1> DEFINE w == BuildDatagram(m)
           r == Rest(m)
           parsed == ParseOptionsFromRaw(r, stray)
<1>1. /\ w \in Seq(Byte) /\ r \in Seq(Byte) /\ Len(w) = 4 + Len(m.token) + Len(r)
      /\ Len(m.token) \in Nat /\ Len(r) \in Nat
  BY RestType, MessageType
<1>2. Len(w) \in 4 + Len(m.token) .. Len(w)
  BY <1>1
<1>3. CutOff(m, Len(w)) = w
  BY <1>1 DEF CutOff
<1>4. Begins(w, m) /\ AfterToken(w, m) = r
  BY <1>2, <1>3, CutType
<1>5. /\ m.options \in Seq(Option) /\ Sorted(m.options) /\ m.payload \in Seq(Byte)
      /\ Len(m.payload) \in Nat /\ Len(m.payload) <= max
      /\ Read(m, m.options, m.payload) = [res |-> "OK", msg |-> m]
  <2>1. m = [type |-> m.type, code |-> m.code, mid |-> m.mid, token |-> m.token,
             options |-> m.options, payload |-> m.payload]
    BY MessageType
  <2>2. Read(m, m.options, m.payload) = [res |-> "OK", msg |-> m]
    BY <2>1, Zenon DEF Read
  <2> QED BY <2>2, MessageType
<1>6. parsed.res = "OK" /\ parsed.list = m.options /\ parsed.payload = m.payload
  <2>1. Leads(r, r)
    BY <1>1 DEF Leads
  <2>2. r = PackOptionsFromList(m.options) \o Tail255(m.payload)
    BY DEF Rest
  <2> HIDE DEF r
  <2>3. ReadBack(ParseOptionsFromRaw(r, stray), r, r, m.options, m.payload)
    BY <1>1, <1>5, <2>1, <2>2, ParseOptionsBack
  <2> QED BY <2>3 DEF ReadBack
<1> HIDE DEF w, r
<1>7. ParseMessageFromDatagram(w, stray, max) = ReadOf(m, w, parsed, max)
  <2>1. parsed = ParseOptionsFromRaw(AfterToken(w, m), stray)
    BY <1>4
  <2> HIDE DEF parsed
  <2> QED BY <1>1, <1>4, <2>1, ParseBegun
<1>8. Len(w) = 4 => m.options = <<>> /\ m.payload = <<>>
  <2> HAVE Len(w) = 4
  <2>1. r = <<>>
    <3>1. \A x, y \in Nat : 4 = 4 + x + y => y = 0
      OBVIOUS
    <3>3. Len(r) = 0
      BY <1>1, <3>1, Zenon
    <3>2. \A s \in Seq(Byte) : Len(s) = 0 => s = <<>>
      OBVIOUS
    <3> QED BY <1>1, <3>2, <3>3, Zenon
  <2> QED BY <2>1, <1>6, EmptyParse
<1>9. ~(Len(parsed.payload) > max)
  BY <1>5, <1>6
<1> HIDE DEF parsed
<1> QED BY <1>5, <1>6, <1>7, <1>8, <1>9, Zenon DEF w, ReadOf

\* A datagram cut off behind its token is refused, or read without its last
\* options: none is invented, none gets another number or value.
THEOREM CutDatagram ==
    ASSUME NEW max \in Nat, NEW m \in Message(max), NEW stray \in Byte,
           NEW cut \in 4 + Len(m.token) .. Len(BuildDatagram(m)),
           NEW read, read = ParseMessageFromDatagram(SubSeq(BuildDatagram(m), 1, cut), stray, max),
           read.res = "OK"
    PROVE  IsPrefix(read.msg.options, m.options)
<1> DEFINE raw == CutOff(m, cut)
           b == AfterToken(raw, m)
           parsed == ParseOptionsFromRaw(b, stray)
           list == m.options
<1>1. raw \in Seq(Byte) /\ Begins(raw, m) /\ b \in Seq(Byte) /\ Leads(b, Rest(m))
  BY CutType
<1>2. list \in Seq(Option) /\ Sorted(list) /\ m.payload \in Seq(Byte) /\ Len(list) \in Nat
  BY MessageType
<1>3. parsed.res = "OK" => \E k \in 0 .. Len(list) : parsed.list = Before(list, k)
  <2>1. Rest(m) = PackOptionsFromList(list) \o Tail255(m.payload)
    BY DEF Rest
  <2> HIDE DEF b, list
  <2>2. ReadBack(ParseOptionsFromRaw(b, stray), b, Rest(m), list, m.payload)
    BY <1>1, <1>2, <2>1, ParseOptionsBack
  <2> QED BY <2>2 DEF ReadBack
<1>4. read = ParseMessageFromDatagram(raw, stray, max)
  BY DEF CutOff
<1> HIDE DEF raw, b
<1>5. read = ReadOf(m, raw, parsed, max)
  BY <1>1, <1>4, ParseBegun DEF b
<1> HIDE DEF parsed
<1>6. \E k \in 0 .. Len(list) : read.msg.options = Before(list, k)
  <2>1. CASE Len(raw) = 4
    <3>1. read.msg.options = <<>>
      BY <1>5, <2>1 DEF Read, ReadOf
    <3>2. Before(list, 0) = <<>> /\ 0 \in 0 .. Len(list)
      BY <1>2 DEF Before
    <3> QED BY <3>1, <3>2
  <2>2. CASE Len(raw) # 4
    <3>1. parsed.res = "OK" /\ ~(Len(parsed.payload) > max)
      <4>1. CASE parsed.res # "OK"
        BY <1>5, <2>2, <4>1 DEF ReadOf
      <4>2. CASE parsed.res = "OK" /\ Len(parsed.payload) > max
        BY <1>5, <2>2, <4>2 DEF ReadOf
      <4> QED BY <4>1, <4>2
    <3>2. read = Read(m, parsed.list, parsed.payload)
      BY <1>5, <2>2, <3>1 DEF ReadOf
    <3>3. read.msg.options = parsed.list
      BY <3>2 DEF Read
    <3> QED BY <1>3, <3>1, <3>3
  <2> QED BY <2>1, <2>2
<1>7. PICK k \in 0 .. Len(list) : read.msg.options = Before(list, k)
  BY <1>6
<1> DEFINE s == Before(list, k)
<1>8. s \in Seq(Option) /\ Len(s) = k
  BY <1>2, BeforeType
<1>9. SubSeq(s, 1, k) = s
  <2> HIDE DEF s
  <2> QED BY <1>8
<1>10. SubSeq(list, 1, k) = s
  BY DEF Before
<1>11. IsPrefix(s, list)
  <2>1. k <= Len(list)
    OBVIOUS
  <2> HIDE DEF s, list
  <2> QED BY <1>8, <1>9, <1>10, <2>1, Zenon DEF IsPrefix
<1> QED BY <1>7, <1>11 DEF list

-----------------------------------------------------------------------------
(* The room for a datagram *)
LEMMA MaxIs ==
    ASSUME NEW n \in Nat, NEW s \in SUBSET (1 .. n), s # {}
    PROVE  Max(s) \in s /\ \A y \in s : y <= Max(s)
<1> DEFINE T == {n - x : x \in s}
<1>1. T \in SUBSET Nat /\ T # {}
  <2>1. ASSUME NEW x \in s PROVE n - x \in Nat
    <3>1. x \in 1 .. n
      OBVIOUS
    <3> QED BY <3>1
  <2> QED BY <2>1
<1> DEFINE m == Min(T)
<1>2. m \in T /\ \A y \in T : m <= y
  <2> HIDE DEF T
  <2> QED BY <1>1, MinIs
<1>3. PICK x \in s : m = n - x
  BY <1>2
<1>4. \A y \in s : y <= x
  <2> TAKE y \in s
  <2>1. n - y \in T
    OBVIOUS
  <2>2. m <= n - y
    BY <1>2, <2>1
  <2> HIDE DEF m, T
  <2> QED BY <1>3, <2>2
<1> QED BY <1>4 DEF Max

\* A fold over 1 .. n, from the highest index down.
Folds(g, n, S, base, step) ==
    /\ g \in [SUBSET (1 .. n) -> S]
    /\ \A s \in SUBSET (1 .. n) :
         g[s] = IF s = {} THEN base ELSE step[Max(s)][g[s \ {Max(s)}]]

LEMMA FoldExists ==
    ASSUME NEW n \in Nat, NEW S, NEW base \in S, NEW step \in [1 .. n -> [S -> S]]
    PROVE  \E g : Folds(g, n, S, base, step)
<1> DEFINE Q == {m \in 0 .. n : \E g : Folds(g, m, S, base, step)}
<1>1. 0 \in Q
  <2> DEFINE g == [s \in SUBSET (1 .. 0) |-> base]
  <2>1. \A s \in SUBSET (1 .. 0) : s = {}
    OBVIOUS
  <2>2. g \in [SUBSET (1 .. 0) -> S] /\ \A s \in SUBSET (1 .. 0) : g[s] = base
    OBVIOUS
  <2> HIDE DEF g
  <2>3. Folds(g, 0, S, base, step)
    BY <2>1, <2>2, Zenon DEF Folds
  <2>4. 0 \in 0 .. n
    OBVIOUS
  <2> QED BY <2>3, <2>4
<1>2. ASSUME NEW m \in 0 .. n - 1, m \in Q PROVE m + 1 \in Q
  <2> DEFINE D == SUBSET (1 .. m)
             E == SUBSET (1 .. m + 1)
  <2>1. PICK h : Folds(h, m, S, base, step)
    BY <1>2
  <2>2. h \in [D -> S] /\ \A s \in D : h[s] = IF s = {} THEN base ELSE step[Max(s)][h[s \ {Max(s)}]]
    BY <2>1 DEF Folds
  <2>3. m + 1 \in 1 .. n /\ m \in Nat /\ m + 1 \in Nat /\ m + 1 \in 0 .. n
    OBVIOUS
  <2>4. step[m + 1] \in [S -> S]
    BY <2>3
  <2>5. ASSUME NEW s \in E PROVE s \ {m + 1} \in D /\ (m + 1 \notin s => s \in D)
    <3>1. \A x \in s : x \in 1 .. m + 1
      OBVIOUS
    <3>2. \A x \in 1 .. m + 1 : x # m + 1 => x \in 1 .. m
      BY <2>3
    <3> QED BY <3>1, <3>2, Zenon
  <2>6. ASSUME NEW s \in E, m + 1 \in s PROVE Max(s) = m + 1
    <3>1. s # {}
      BY <2>6
    <3>2. Max(s) \in s /\ \A y \in s : y <= Max(s)
      BY <2>3, <3>1, MaxIs
    <3>3. Max(s) \in 1 .. m + 1 /\ m + 1 <= Max(s)
      BY <3>2, <2>6
    <3> QED BY <2>3, <3>3
  <2> DEFINE g == [s \in E |-> IF m + 1 \in s THEN step[m + 1][h[s \ {m + 1}]] ELSE h[s]]
  <2> HIDE DEF D, E
  <2>7. g \in [E -> S]
    <3>1. ASSUME NEW s \in E PROVE (IF m + 1 \in s THEN step[m + 1][h[s \ {m + 1}]] ELSE h[s]) \in S
      <4>1. CASE m + 1 \in s
        <5>1. h[s \ {m + 1}] \in S
          BY <2>2, <2>5
        <5> QED BY <4>1, <5>1, <2>4
      <4>2. CASE m + 1 \notin s
        <5>1. h[s] \in S
          BY <2>2, <2>5, <4>2
        <5> QED BY <4>2, <5>1
      <4> QED BY <4>1, <4>2
    <3> QED BY <3>1, Zenon
  <2>8. ASSUME NEW s \in E
        PROVE  g[s] = IF s = {} THEN base ELSE step[Max(s)][g[s \ {Max(s)}]]
    <3>0. \A t \in E : g[t] = IF m + 1 \in t THEN step[m + 1][h[t \ {m + 1}]] ELSE h[t]
      BY Zenon
    <3>9. \A t \in D : t \in E /\ m + 1 \notin t
      <4>1. \A x \in 1 .. m : x \in 1 .. m + 1 /\ x # m + 1
        BY <2>3
      <4> QED BY <4>1, Zenon DEF D, E
    <3> HIDE DEF g
    <3>1. CASE m + 1 \in s
      <4>1. s # {} /\ Max(s) = m + 1
        BY <2>6, <3>1
      <4>2. s \ {m + 1} \in D
        BY <2>5
      <4>3. g[s \ {m + 1}] = h[s \ {m + 1}]
        BY <3>0, <3>9, <4>2, Zenon
      <4>4. g[s] = step[m + 1][h[s \ {m + 1}]]
        BY <3>0, <3>1, Zenon
      <4> QED BY <4>1, <4>3, <4>4, Zenon
    <3>2. CASE m + 1 \notin s
      <4>1. s \in D
        BY <2>5, <3>2
      <4>2. g[s] = h[s]
        BY <3>0, <3>2, Zenon
      <4>3. CASE s = {}
        BY <4>1, <4>2, <4>3, <2>2, Zenon
      <4>4. CASE s # {}
        <5>1. s \ {Max(s)} \in D
          BY <4>1, Zenon DEF D
        <5>2. g[s \ {Max(s)}] = h[s \ {Max(s)}]
          BY <3>0, <3>9, <5>1, Zenon
        <5> QED BY <4>1, <4>2, <4>4, <5>2, <2>2, Zenon
      <4> QED BY <4>3, <4>4
    <3> QED BY <3>1, <3>2
  <2> HIDE DEF g
  <2>9. Folds(g, m + 1, S, base, step)
    BY <2>7, <2>8, Zenon DEF Folds, E
  <2> QED BY <2>3, <2>9
<1>3. n \in Q
  <2> HIDE DEF Q
  <2>1. \A m \in 0 .. n : m \in Q
    BY <1>1, <1>2, UpTo
  <2> QED BY <2>1
<1> QED BY <1>3

LEMMA MaxUpTo ==
    ASSUME NEW k \in Nat
    PROVE  Max(1 .. k + 1) = k + 1 /\ (1 .. k + 1) \ {k + 1} = 1 .. k
<1> DEFINE s == 1 .. k + 1
<1>1. k + 1 \in s /\ k + 1 \in Nat
  OBVIOUS
<1>2. Max(s) \in s /\ \A y \in s : y <= Max(s)
  <2>1. s \in SUBSET (1 .. k + 1) /\ s # {}
    BY <1>1
  <2> HIDE DEF s
  <2> QED BY <1>1, <2>1, MaxIs
<1>3. Max(s) \in 1 .. k + 1 /\ k + 1 <= Max(s)
  BY <1>1, <1>2
<1>4. s \ {k + 1} = 1 .. k
  OBVIOUS
<1> HIDE DEF s
<1>5. Max(s) = k + 1
  BY <1>1, <1>3
<1> QED BY <1>4, <1>5 DEF s

\* The room for an option, apart from its bytes.
RoomFor(n) == IF n < 13 THEN 0 ELSE IF n < 269 THEN 1 ELSE 2
Room(list, k) == 1 + RoomFor(Delta(list, k)) + RoomFor(Len(list[k].Value)) + Len(list[k].Value)

Sums(g, list) ==
    /\ g[1 .. 0] = 0
    /\ \A k \in 0 .. Len(list) - 1 : g[1 .. k + 1] = g[1 .. k] + Room(list, k + 1)

LEMMA RoomType ==
    ASSUME NEW list \in Seq(Option), NEW k \in 1 .. Len(list)
    PROVE  Room(list, k) \in Nat
<1>1. Len(list[k].Value) \in Nat
  <2>1. list[k] \in Option
    OBVIOUS
  <2> QED BY <2>1, OptionType
<1>2. \A n : RoomFor(n) \in Nat
  BY DEF RoomFor
<1> QED BY <1>1, <1>2 DEF Room

LEMMA NeededIsSum ==
    ASSUME NEW list \in Seq(Option)
    PROVE  \E g : Sums(g, list) /\ NeededMem4PackOptions(list) = g[1 .. Len(list)]
<1> DEFINE n == Len(list)
           q == [i \in DOMAIN list |-> i]
           step == [k \in 1 .. n |-> [v \in Nat |-> v + Room(list, k)]]
           Def(g) == g = [s \in SUBSET (DOMAIN q) |->
                            IF s = {} THEN 0 ELSE g[s \ {Max(s)}] + Room(list, q[Max(s)])]
           iter == CHOOSE g : Def(g)
<1>1. NeededMem4PackOptions(list) = iter[DOMAIN q]
  BY Zenon DEF NeededMem4PackOptions, FoldLeftDomain, FoldLeft, MapThenFoldSet, Room, RoomFor
<1>2. n \in Nat /\ DOMAIN q = 1 .. n /\ \A k \in 1 .. n : q[k] = k
  OBVIOUS
<1>3. step \in [1 .. n -> [Nat -> Nat]] /\ \A k \in 1 .. n, v \in Nat : step[k][v] = v + Room(list, k)
  <2>1. ASSUME NEW k \in 1 .. n, NEW v \in Nat PROVE v + Room(list, k) \in Nat
    BY RoomType
  <2>2. ASSUME NEW k \in 1 .. n PROVE [v \in Nat |-> v + Room(list, k)] \in [Nat -> Nat]
    BY <2>1
  <2> QED BY <2>2
<1> HIDE DEF q, step
<1>4. PICK h : Folds(h, n, Nat, 0, step)
  <2> HIDE DEF n
  <2> QED BY <1>2, <1>3, FoldExists
<1>5. ASSUME NEW s \in SUBSET (1 .. n), s # {} PROVE Max(s) \in 1 .. n /\ q[Max(s)] = Max(s)
  <2>1. Max(s) \in s
    BY <1>2, <1>5, MaxIs
  <2> QED BY <2>1, <1>2
<1>6. Def(h)
  <2>1. h \in [SUBSET (1 .. n) -> Nat]
    BY <1>4 DEF Folds
  <2>2. ASSUME NEW s \in SUBSET (1 .. n)
        PROVE  h[s] = IF s = {} THEN 0 ELSE h[s \ {Max(s)}] + Room(list, q[Max(s)])
    <3>1. h[s] = IF s = {} THEN 0 ELSE step[Max(s)][h[s \ {Max(s)}]]
      BY <1>4 DEF Folds
    <3>2. h[s \ {Max(s)}] \in Nat
      BY <2>1
    <3>3. CASE s = {}
      BY <3>1, <3>3
    <3>4. CASE s # {}
      <4>1. Max(s) \in 1 .. n /\ q[Max(s)] = Max(s)
        BY <1>5, <3>4
      <4>2. step[Max(s)][h[s \ {Max(s)}]] = h[s \ {Max(s)}] + Room(list, Max(s))
        BY <4>1, <3>2, <1>3, Zenon
      <4> QED BY <3>1, <3>4, <4>1, <4>2, Zenon
    <3> QED BY <3>3, <3>4
  <2>3. h = [s \in SUBSET (1 .. n) |-> h[s]]
    BY <2>1
  <2>4. h = [s \in SUBSET (1 .. n) |-> IF s = {} THEN 0 ELSE h[s \ {Max(s)}] + Room(list, q[Max(s)])]
    <3> HIDE DEF n
    <3> QED BY <2>2, <2>3, Zenon
  <2> QED BY <1>2, <2>4, Zenon
<1>7. Def(iter)
  <2> HIDE DEF Def
  <2> QED BY <1>6, Zenon
<1> HIDE DEF iter
<1>8. ASSUME NEW s \in SUBSET (1 .. n)
      PROVE  iter[s] = IF s = {} THEN 0 ELSE iter[s \ {Max(s)}] + Room(list, q[Max(s)])
  <2> HIDE DEF n
  <2> QED BY <1>2, <1>7, Zenon
<1>9. \A s \in SUBSET (1 .. n) : s # {} => iter[s] = iter[s \ {Max(s)}] + Room(list, Max(s))
  BY <1>5, <1>8, Zenon
<1>10. iter[{}] = 0
  BY <1>8
<1>11. Sums(iter, list)
  <2>1. iter[1 .. 0] = 0
    <3>1. 1 .. 0 = {}
      OBVIOUS
    <3> QED BY <1>10, <3>1, Zenon
  <2>2. ASSUME NEW k \in 0 .. n - 1 PROVE iter[1 .. k + 1] = iter[1 .. k] + Room(list, k + 1)
    <3>1. 1 .. k + 1 \in SUBSET (1 .. n) /\ 1 .. k + 1 # {}
      <4>1. k + 1 \in 1 .. k + 1
        BY <1>2
      <4>2. \A x \in 1 .. k + 1 : x \in 1 .. n
        BY <1>2
      <4> QED BY <4>1, <4>2
    <3>2. Max(1 .. k + 1) = k + 1 /\ (1 .. k + 1) \ {k + 1} = 1 .. k
      <4>1. k \in Nat
        BY <1>2
      <4> QED BY <4>1, MaxUpTo
    <3> QED BY <1>9, <3>1, <3>2, Zenon
  <2> QED BY <2>1, <2>2 DEF Sums
<1> QED BY <1>1, <1>2, <1>11

LEMMA RoomOfStep ==
    ASSUME NEW list \in Seq(Option), NEW k \in 0 .. Len(list) - 1
    PROVE  /\ Len(Packed(list, k + 1)) = Len(Packed(list, k)) + Room(list, k + 1)
           /\ Len(Packed(list, k)) \in Nat
<1> DEFINE o == list[k + 1]
           last == LastNumber(Before(list, k))
           d == (o.Number - last) % Word
           v == o.Value
           c == NextCoded(list, k)
<1>1. k \in 0 .. Len(list) /\ k + 1 \in 1 .. Len(list) /\ o \in Option /\ k \in Nat
  OBVIOUS
<1>2. last = (IF k = 0 THEN 0 ELSE list[k].Number) /\ last \in Nat
  <2>1. last \in 0 .. Word - 1
    BY <1>1, BeforeType
  <2>2. last \in Nat
    BY <2>1, WordType
  <2> QED BY <1>1, <2>2, BeforeType
<1>3. d \in Nat /\ v \in Seq(Byte) /\ Len(v) \in Nat
  <2>1. o.Number - last \in Int
    BY <1>1, <1>2, OptionType
  <2> QED BY <1>1, <2>1, OptionType, WordType
<1>4. Delta(list, k + 1) = d
  <2>1. (k + 1) - 1 = k /\ (k + 1 = 1 <=> k = 0)
    BY <1>1
  <2>2. last = (IF k + 1 = 1 THEN 0 ELSE list[(k + 1) - 1].Number)
    BY <1>2, <2>1
  <2> HIDE DEF last
  <2> QED BY <2>2, Zenon DEF Delta
<1>5. c = BytesOf(d, v)
  BY DEF NextCoded, Coded
<1> HIDE DEF d, v, c, o, last
<1>6. Len(c) = 1 + Len(Extended(d)) + Len(Extended(Len(v))) + Len(v)
  <2>1. Holds(c, d, v)
    BY <1>3, <1>5, CodedBytes
  <2> QED BY <2>1, Zenon DEF Holds
<1>7. \A n \in Nat : Len(Extended(n)) = RoomFor(n)
  BY ExtendedType DEF RoomFor
<1>8. Room(list, k + 1) = Len(c)
  <2>1. Len(Extended(d)) = RoomFor(d) /\ Len(Extended(Len(v))) = RoomFor(Len(v))
    BY <1>3, <1>7
  <2> QED BY <1>4, <1>6, <2>1, Zenon DEF Room, v, o
<1>9. Packed(list, k + 1) = Packed(list, k) \o c /\ c \in Seq(Byte) /\ Packed(list, k) \in Seq(Byte)
  BY PackedStep DEF c
<1>10. Len(Packed(list, k) \o c) = Len(Packed(list, k)) + Len(c) /\ Len(Packed(list, k)) \in Nat
  BY <1>9
<1> QED BY <1>8, <1>9, <1>10

LEMMA NeededIsPacked ==
    ASSUME NEW list \in Seq(Option)
    PROVE  NeededMem4PackOptions(list) = Len(PackOptionsFromList(list))
<1> DEFINE n == Len(list)
<1>1. PICK g : Sums(g, list) /\ NeededMem4PackOptions(list) = g[1 .. n]
  BY NeededIsSum
<1> DEFINE Q == {k \in 0 .. n : g[1 .. k] = Len(Packed(list, k))}
<1>2. n \in Nat
  OBVIOUS
<1>3. 0 \in Q
  <2>1. Before(list, 0) = <<>>
    BY DEF Before
  <2>2. Packed(list, 0) = <<>>
    BY <2>1, PackEmpty DEF Packed
  <2>3. Len(<<>>) = 0
    OBVIOUS
  <2>4. g[1 .. 0] = 0
    BY <1>1 DEF Sums
  <2>5. g[1 .. 0] = Len(Packed(list, 0)) /\ 0 \in 0 .. n
    BY <1>2, <2>2, <2>3, <2>4
  <2> QED BY <2>5
<1>4. ASSUME NEW k \in 0 .. n - 1, k \in Q PROVE k + 1 \in Q
  <2>1. g[1 .. k + 1] = g[1 .. k] + Room(list, k + 1)
    BY <1>1 DEF Sums
  <2>2. Len(Packed(list, k + 1)) = Len(Packed(list, k)) + Room(list, k + 1)
    BY RoomOfStep
  <2>3. g[1 .. k] = Len(Packed(list, k))
    BY <1>4, Zenon
  <2>4. k + 1 \in 0 .. n
    BY <1>2
  <2> QED BY <2>1, <2>2, <2>3, <2>4, Zenon
<1>5. n \in Q
  <2> HIDE DEF Q, n
  <2>1. \A k \in 0 .. n : k \in Q
    BY <1>2, <1>3, <1>4, UpTo
  <2>2. n \in 0 .. n
    BY <1>2
  <2> QED BY <2>1, <2>2
<1>6. Packed(list, n) = PackOptionsFromList(list)
  BY BeforeAll
<1> QED BY <1>1, <1>5, <1>6, Zenon

\* CoAP_BuildDatagram writes exactly the bytes CoAP_SendMsg allocates for it:
\* the sum is over the options, apart from their bytes.
THEOREM BufferFits ==
    ASSUME NEW max \in Nat, NEW m \in Message(max)
    PROVE  Len(BuildDatagram(m)) = GetRawSizeOfMessage(m)
<1> DEFINE p == PackOptionsFromList(m.options)
           t == Tail255(m.payload)
           k == Len(m.token)
           l == Len(m.payload)
           need == NeededMem4PackOptions(m.options)
<1>1. /\ m.token \in Seq(Byte) /\ k \in Nat /\ m.payload \in Seq(Byte) /\ l \in Nat
      /\ m.options \in Seq(Option)
      /\ m.code = EMPTY => m.token = <<>> /\ m.payload = <<>>
  BY MessageType
<1>2. need = Len(p) /\ p \in Seq(Byte)
  BY <1>1, NeededIsPacked, PackType
<1>3. t \in Seq(Byte) /\ Len(t) = IF m.payload = <<>> THEN 0 ELSE 1 + l
  BY <1>1, TailType
<1>4. Len(BuildDatagram(m)) = 4 + k + Len(Rest(m))
  BY RestType
<1>5. Rest(m) = p \o t
  BY DEF Rest
<1>6. m.code = EMPTY => k = 0 /\ l = 0
  BY <1>1
<1>7. GetRawSizeOfMessage(m) =
        4 + need + IF m.code = EMPTY THEN 0 ELSE k + IF m.payload = <<>> THEN 0 ELSE l + 1
  BY Zenon DEF GetRawSizeOfMessage
<1> HIDE DEF p, t, k, l, need
<1>8. Len(p \o t) = Len(p) + Len(t) /\ Len(p) \in Nat /\ Len(t) \in Nat
  BY <1>2, <1>3
<1>9. CASE m.code = EMPTY
  <2>1. k = 0 /\ Len(t) = 0
    BY <1>1, <1>3, <1>6, <1>9
  <2> QED BY <1>2, <1>4, <1>5, <1>7, <1>8, <1>9, <2>1
<1>10. CASE m.code # EMPTY /\ m.payload = <<>>
  BY <1>1, <1>2, <1>3, <1>4, <1>5, <1>7, <1>8, <1>10
<1>11. CASE m.code # EMPTY /\ m.payload # <<>>
  BY <1>1, <1>2, <1>3, <1>4, <1>5, <1>7, <1>8, <1>11
<1> QED BY <1>9, <1>10, <1>11
=============================================================================
