--------------------------- MODULE CoapNV_proofs ---------------------------
(***************************************************************************)
(* A request finds the resource created under its path: what the reader of *)
(* URI strings, one character at a time, makes of any string is what the   *)
(* string means (Parts, Path, Query), and no step of the table changes     *)
(* under which path a resource is found.                                   *)
(* An observer is read back from its record in the persisted page: the     *)
(* options of the record are packed in the order of their numbers, and     *)
(* parsing them gives the endpoint, socket, token, path and query again.   *)
(* So what loading attaches to a resource after a restart was attached to  *)
(* it when the page was saved (NVInv), and the first observer of each      *)
(* resource returns.                                                       *)
(***************************************************************************)
EXTENDS CoapNV, CoapWire_proofs

-----------------------------------------------------------------------------
(* The parts of a string *)

At(str, delims, k) == k \in DOMAIN str /\ str[k] \notin delims
Starts(str, delims, i, j) == ~At(str, delims, i - 1) /\ \A k \in i .. j : At(str, delims, k)
Begin(str, delims, j) == CHOOSE i \in 1 .. j : Starts(str, delims, i, j)

\* What ends at j, if a part does.
Piece(str, delims, j) ==
    IF At(str, delims, j) /\ ~At(str, delims, j + 1)
    THEN << SubSeq(str, Begin(str, delims, j), j) >> ELSE <<>>
Pieces(str, delims) == [j \in DOMAIN str |-> Piece(str, delims, j)]

\* After n characters: the parts that have ended, and the one that has not.
Done(str, delims, n) == FlattenSeq(SubSeq(Pieces(str, delims), 1, n - 1))
Open(str, delims, n) ==
    IF At(str, delims, n) THEN SubSeq(str, Begin(str, delims, n), n) ELSE <<>>

\* The part that has not ended, if there is one, ends.
Closed(parts, part) == IF part = <<>> THEN parts ELSE Append(parts, part)

LEMMA PartsIs ==
    ASSUME NEW str, NEW delims
    PROVE  Parts(str, delims) = FlattenSeq(Pieces(str, delims))
BY Zenon DEF Parts, Pieces, Piece, Begin, Starts, At

LEMMA BeginIs ==
    ASSUME NEW str \in Seq(Byte), NEW delims, NEW j \in 1 .. Len(str), At(str, delims, j)
    PROVE  /\ Begin(str, delims, j) \in 1 .. j
           /\ ~At(str, delims, j - 1) => Begin(str, delims, j) = j
           /\ At(str, delims, j - 1) => Begin(str, delims, j) = Begin(str, delims, j - 1)
<1>1. Len(str) \in Nat /\ j \in Nat
  OBVIOUS
<1>2. ASSUME NEW n \in 1 .. Len(str), NEW a \in 1 .. n, NEW b \in 1 .. n,
             Starts(str, delims, a, n), Starts(str, delims, b, n), a < b
      PROVE  FALSE
  <2>1. b - 1 \in a .. n
    BY <1>1, <1>2
  <2>2. At(str, delims, b - 1) /\ ~At(str, delims, b - 1)
    BY <1>2, <2>1, Zenon DEF Starts
  <2> QED BY <2>2
<1>3. ASSUME NEW n \in 1 .. Len(str), NEW a \in 1 .. n, Starts(str, delims, a, n)
      PROVE  Begin(str, delims, n) = a
  <2> DEFINE b == Begin(str, delims, n)
  <2>1. b \in 1 .. n /\ Starts(str, delims, b, n)
    BY <1>3, Zenon DEF Begin
  <2> HIDE DEF b
  <2>2. ~(a < b) /\ ~(b < a)
    BY <1>2, <1>3, <2>1
  <2>3. a = b
    BY <2>1, <2>2
  <2> QED BY <2>3 DEF b
<1>4. ASSUME NEW n \in 1 .. Len(str), At(str, delims, n), ~At(str, delims, n - 1)
      PROVE  Starts(str, delims, n, n) /\ n \in 1 .. n
  <2>1. \A k \in n .. n : k = n
    BY <1>1
  <2>2. n \in 1 .. n
    BY <1>1
  <2> QED BY <1>4, <2>1, <2>2, Zenon DEF Starts
<1>5. ASSUME NEW n \in 1 .. Len(str) - 1, At(str, delims, n + 1),
             NEW a \in 1 .. n, Starts(str, delims, a, n)
      PROVE  Starts(str, delims, a, n + 1) /\ a \in 1 .. n + 1
  <2>1. \A k \in a .. n + 1 : k \in a .. n \/ k = n + 1
    BY <1>1
  <2>2. a \in 1 .. n + 1
    BY <1>1
  <2> QED BY <1>5, <2>1, <2>2, Zenon DEF Starts
<1> DEFINE Q == {n \in 0 .. Len(str) : n \in 1 .. Len(str) /\ At(str, delims, n)
                                       => \E a \in 1 .. n : Starts(str, delims, a, n)}
<1>6. \A n \in 0 .. Len(str) : n \in Q
  <2>1. 0 \in Q
    BY <1>1
  <2>2. ASSUME NEW n \in 0 .. Len(str) - 1, n \in Q PROVE n + 1 \in Q
    <3>1. n + 1 \in 0 .. Len(str) /\ n + 1 \in 1 .. Len(str) /\ (n + 1) - 1 = n
      BY <1>1
    <3>2. SUFFICES ASSUME At(str, delims, n + 1)
                   PROVE  \E a \in 1 .. n + 1 : Starts(str, delims, a, n + 1)
      BY <3>1
    <3>3. CASE At(str, delims, n)
      <4>1. n \in 1 .. Len(str) /\ n \in 1 .. Len(str) - 1
        BY <1>1, <3>3 DEF At
      <4>2. PICK a \in 1 .. n : Starts(str, delims, a, n)
        BY <2>2, <3>3, <4>1
      <4> QED BY <1>5, <3>2, <4>1, <4>2
    <3>4. CASE ~At(str, delims, n)
      BY <1>4, <3>1, <3>2, <3>4
    <3> QED BY <3>3, <3>4
  <2> HIDE DEF Q
  <2> QED BY <1>1, <2>1, <2>2, UpTo
<1>7. PICK a \in 1 .. j : Starts(str, delims, a, j)
  <2>1. j \in Q
    BY <1>1, <1>6
  <2> QED BY <2>1
<1>8. Begin(str, delims, j) \in 1 .. j
  BY <1>3, <1>7
<1>9. ASSUME ~At(str, delims, j - 1) PROVE Begin(str, delims, j) = j
  BY <1>3, <1>4, <1>9
<1>10. ASSUME At(str, delims, j - 1) PROVE Begin(str, delims, j) = Begin(str, delims, j - 1)
  <2> DEFINE n == j - 1
  <2>1. n \in 1 .. Len(str) /\ n \in 1 .. Len(str) - 1 /\ n + 1 = j /\ n \in 0 .. Len(str)
    BY <1>1, <1>10 DEF At
  <2>2. At(str, delims, n) /\ n \in Q
    BY <1>10, <1>6, <2>1
  <2>3. PICK b \in 1 .. n : Starts(str, delims, b, n)
    BY <2>1, <2>2
  <2> HIDE DEF n, Q
  <2>4. Starts(str, delims, b, n + 1) /\ b \in 1 .. n + 1
    BY <1>5, <2>1, <2>3
  <2>5. Begin(str, delims, n) = b
    BY <1>3, <2>1, <2>3, Zenon
  <2>6. Begin(str, delims, j) = b
    BY <1>3, <2>1, <2>4, Zenon
  <2> QED BY <2>5, <2>6 DEF n
<1> QED BY <1>8, <1>9, <1>10

LEMMA PiecesType ==
    ASSUME NEW str \in Seq(Byte), NEW delims
    PROVE  /\ Pieces(str, delims) \in Seq(Seq(Seq(Byte)))
           /\ Len(Pieces(str, delims)) = Len(str)
           /\ \A j \in 1 .. Len(str) : Pieces(str, delims)[j] = Piece(str, delims, j)
<1>1. DOMAIN str = 1 .. Len(str) /\ Len(str) \in Nat
  OBVIOUS
<1>2. ASSUME NEW j \in 1 .. Len(str) PROVE Piece(str, delims, j) \in Seq(Seq(Byte))
  <2>1. CASE At(str, delims, j)
    <3>1. Begin(str, delims, j) \in 1 .. j
      BY <2>1, BeginIs
    <3> DEFINE p == SubSeq(str, Begin(str, delims, j), j)
    <3>2. p \in Seq(Byte)
      BY <1>1, <3>1
    <3> HIDE DEF p
    <3>3. << p >> \in Seq(Seq(Byte)) /\ <<>> \in Seq(Seq(Byte))
      BY <3>2
    <3> QED BY <3>3 DEF Piece, p
  <2>2. CASE ~At(str, delims, j)
    BY <2>2 DEF Piece
  <2> QED BY <2>1, <2>2
<1>3. Pieces(str, delims) = [j \in 1 .. Len(str) |-> Piece(str, delims, j)]
  BY <1>1 DEF Pieces
<1>4. Pieces(str, delims) \in [1 .. Len(str) -> Seq(Seq(Byte))]
  BY <1>2, <1>3, Zenon
<1> QED BY <1>1, <1>3, <1>4

\* Nothing is read before the first character.
LEMMA PartsBegin ==
    ASSUME NEW str \in Seq(Byte), NEW delims
    PROVE  Done(str, delims, 0) = <<>> /\ Open(str, delims, 0) = <<>>
<1>1. ~At(str, delims, 0)
  BY DEF At
<1>2. SubSeq(Pieces(str, delims), 1, 0 - 1) = <<>>
  BY PiecesType
<1> QED BY <1>1, <1>2, FlattenEmpty DEF Done, Open

LEMMA PartsType ==
    ASSUME NEW str \in Seq(Byte), NEW delims, NEW n \in 0 .. Len(str)
    PROVE  Done(str, delims, n) \in Seq(Seq(Byte)) /\ Open(str, delims, n) \in Seq(Byte)
<1>1. n \in Nat /\ Len(str) \in Nat
  OBVIOUS
<1>2. SubSeq(Pieces(str, delims), 1, n - 1) \in Seq(Seq(Seq(Byte)))
  <2> DEFINE T == Seq(Seq(Byte))
             p == Pieces(str, delims)
  <2>1. p \in Seq(T) /\ Len(p) = Len(str)
    BY PiecesType
  <2> HIDE DEF T, p
  <2>2. SubSeq(p, 1, n - 1) \in Seq(T)
    BY <1>1, <2>1
  <2> QED BY <2>2 DEF T, p
<1>3. Done(str, delims, n) \in Seq(Seq(Byte))
  BY <1>2, FlattenType DEF Done
<1>4. Open(str, delims, n) \in Seq(Byte)
  <2>1. CASE At(str, delims, n)
    <3>1. n \in 1 .. Len(str)
      BY <2>1 DEF At
    <3>2. Begin(str, delims, n) \in 1 .. n
      BY <2>1, <3>1, BeginIs
    <3> QED BY <1>1, <2>1, <3>1, <3>2 DEF Open
  <2>2. CASE ~At(str, delims, n)
    BY <2>2 DEF Open
  <2> QED BY <2>1, <2>2
<1> QED BY <1>3, <1>4

\* One character further: a delimiter ends the part that is open.
LEMMA PartsStep ==
    ASSUME NEW str \in Seq(Byte), NEW delims, NEW n \in 0 .. Len(str) - 1
    PROVE  /\ str[n + 1] \in delims =>
                /\ Open(str, delims, n + 1) = <<>>
                /\ Done(str, delims, n + 1) = Closed(Done(str, delims, n), Open(str, delims, n))
           /\ str[n + 1] \notin delims =>
                /\ Open(str, delims, n + 1) = Append(Open(str, delims, n), str[n + 1])
                /\ Done(str, delims, n + 1) = Done(str, delims, n)
<1>1. n \in Nat /\ n + 1 \in 1 .. Len(str) /\ n \in 0 .. Len(str) /\ Len(str) \in Nat /\ (n + 1) - 1 = n
  OBVIOUS
<1>2. At(str, delims, n + 1) <=> str[n + 1] \notin delims
  BY <1>1 DEF At
<1>3. Open(str, delims, n) = <<>> <=> ~At(str, delims, n)
  <2>1. CASE At(str, delims, n)
    <3>1. n \in 1 .. Len(str)
      BY <2>1 DEF At
    <3>2. Begin(str, delims, n) \in 1 .. n
      BY <2>1, <3>1, BeginIs
    <3>3. SubSeq(str, Begin(str, delims, n), n) # <<>>
      <4>1. Len(SubSeq(str, Begin(str, delims, n), n)) = n - Begin(str, delims, n) + 1
        BY <1>1, <3>1, <3>2
      <4>2. Len(SubSeq(str, Begin(str, delims, n), n)) # 0
        BY <3>2, <4>1
      <4>3. Len(<<>>) = 0
        OBVIOUS
      <4> QED BY <4>2, <4>3, Zenon
    <3> QED BY <2>1, <3>3 DEF Open
  <2>2. CASE ~At(str, delims, n)
    BY <2>2 DEF Open
  <2> QED BY <2>1, <2>2
<1>4. Done(str, delims, n + 1) = IF At(str, delims, n) /\ ~At(str, delims, n + 1)
                                 THEN Append(Done(str, delims, n), Open(str, delims, n))
                                 ELSE Done(str, delims, n)
  <2> DEFINE T == Seq(Byte)
             p == Pieces(str, delims)
  <2>1. p \in Seq(Seq(T)) /\ Len(p) = Len(str) /\ \A j \in 1 .. Len(str) : p[j] = Piece(str, delims, j)
    BY PiecesType
  <2>2. Done(str, delims, n) = FlattenSeq(SubSeq(p, 1, n - 1))
        /\ Done(str, delims, n + 1) = FlattenSeq(SubSeq(p, 1, n))
    BY <1>1, Zenon DEF Done
  <2>3. Done(str, delims, n) \in Seq(T)
    BY <1>1, PartsType
  <2> HIDE DEF T, p
  <2>4. CASE n = 0
    <3>1. SubSeq(p, 1, n - 1) = SubSeq(p, 1, n)
      BY <2>1, <2>4
    <3>2. ~At(str, delims, n)
      BY <2>4 DEF At
    <3> QED BY <2>2, <3>1, <3>2, Zenon
  <2>5. CASE n # 0
    <3>1. n \in 1 .. Len(str)
      BY <1>1, <2>5
    <3>2. SubSeq(p, 1, n) = Append(SubSeq(p, 1, n - 1), p[n])
          /\ SubSeq(p, 1, n - 1) \in Seq(Seq(T)) /\ p[n] \in Seq(T)
      <4> DEFINE U == Seq(T)
      <4>1. p \in Seq(U)
        BY <2>1
      <4> HIDE DEF U
      <4>2. SubSeq(p, 1, n) = Append(SubSeq(p, 1, n - 1), p[n])
            /\ SubSeq(p, 1, n - 1) \in Seq(U) /\ p[n] \in U
        BY <2>1, <3>1, <4>1
      <4> QED BY <4>2 DEF U
    <3>3. Done(str, delims, n + 1) = Done(str, delims, n) \o p[n]
      BY <2>2, <3>2, FlattenAppend
    <3>4. p[n] = IF At(str, delims, n) /\ ~At(str, delims, n + 1)
                 THEN << Open(str, delims, n) >> ELSE <<>>
      <4>1. p[n] = Piece(str, delims, n)
        BY <2>1, <3>1
      <4> QED BY <4>1, Zenon DEF Piece, Open
    <3>5. CASE At(str, delims, n) /\ ~At(str, delims, n + 1)
      <4>1. Open(str, delims, n) \in T
        BY <1>1, PartsType DEF T
      <4>2. Done(str, delims, n) \o << Open(str, delims, n) >>
            = Append(Done(str, delims, n), Open(str, delims, n))
        BY <2>3, <4>1
      <4> QED BY <3>3, <3>4, <3>5, <4>2, Zenon
    <3>6. CASE ~(At(str, delims, n) /\ ~At(str, delims, n + 1))
      <4>1. Done(str, delims, n) \o <<>> = Done(str, delims, n)
        BY <2>3
      <4> QED BY <3>3, <3>4, <3>6, <4>1, Zenon
    <3> QED BY <3>5, <3>6
  <2> QED BY <2>4, <2>5
<1>5. CASE str[n + 1] \in delims
  <2>1. Open(str, delims, n + 1) = <<>>
    BY <1>2, <1>5 DEF Open
  <2> QED BY <1>2, <1>3, <1>4, <1>5, <2>1, Zenon DEF Closed
<1>6. CASE str[n + 1] \notin delims
  <2>1. Open(str, delims, n + 1) = SubSeq(str, Begin(str, delims, n + 1), n + 1)
    BY <1>2, <1>6 DEF Open
  <2>2. CASE At(str, delims, n)
    <3>0. n \in 1 .. Len(str)
      BY <2>2 DEF At
    <3>1. Begin(str, delims, n + 1) = Begin(str, delims, n) /\ Begin(str, delims, n) \in 1 .. n
      BY <1>1, <1>2, <1>6, <2>2, <3>0, BeginIs
    <3> DEFINE b == Begin(str, delims, n)
    <3> HIDE DEF b
    <3>2. b \in 1 .. n
      BY <3>1 DEF b
    <3>3. SubSeq(str, b, n + 1) = Append(SubSeq(str, b, n), str[n + 1])
      BY <1>1, <3>0, <3>2
    <3>4. Open(str, delims, n) = SubSeq(str, b, n)
      BY <2>2 DEF Open, b
    <3> QED BY <1>2, <1>4, <1>6, <2>1, <3>1, <3>3, <3>4, Zenon DEF b
  <2>3. CASE ~At(str, delims, n)
    <3>1. Begin(str, delims, n + 1) = n + 1
      BY <1>1, <1>2, <1>6, <2>3, BeginIs
    <3>2. Open(str, delims, n) = <<>>
      BY <2>3 DEF Open
    <3>3. SubSeq(str, n + 1, n + 1) = << str[n + 1] >> /\ Append(<<>>, str[n + 1]) = << str[n + 1] >>
      <4>1. ASSUME NEW m \in 1 .. Len(str) PROVE SubSeq(str, m, m) = << str[m] >>
        <5> DEFINE q == SubSeq(str, m, m)
        <5>1. q \in Seq(Byte) /\ Len(q) = 1 /\ q[1] = str[m]
          OBVIOUS
        <5> HIDE DEF q
        <5>2. q = << str[m] >>
          BY <5>1
        <5> QED BY <5>2 DEF q
      <4>2. Append(<<>>, str[n + 1]) = << str[n + 1] >>
        OBVIOUS
      <4> QED BY <1>1, <4>1, <4>2
    <3> QED BY <1>2, <1>4, <1>6, <2>1, <2>3, <3>1, <3>2, <3>3, Zenon
  <2> QED BY <2>2, <2>3
<1> QED BY <1>5, <1>6

\* The end of the string ends the last part.
LEMMA PartsEnd ==
    ASSUME NEW str \in Seq(Byte), NEW delims
    PROVE  Parts(str, delims) = Closed(Done(str, delims, Len(str)), Open(str, delims, Len(str)))
<1> DEFINE n == Len(str)
           T == Seq(Byte)
           p == Pieces(str, delims)
<1>1. n \in Nat /\ ~At(str, delims, n + 1) /\ n \in 0 .. Len(str)
  <2>1. n \in Nat /\ n + 1 \notin DOMAIN str /\ n \in 0 .. Len(str)
    OBVIOUS
  <2> QED BY <2>1 DEF At
<1>2. p \in Seq(Seq(T)) /\ Len(p) = n /\ \A j \in 1 .. n : p[j] = Piece(str, delims, j)
  BY PiecesType
<1>3. Done(str, delims, n) = FlattenSeq(SubSeq(p, 1, n - 1)) /\ Parts(str, delims) = FlattenSeq(p)
  BY PartsIs, Zenon DEF Done
<1>4. Done(str, delims, n) \in Seq(T) /\ Open(str, delims, n) \in T
  BY <1>1, PartsType
<1> HIDE DEF T, p
<1>5. CASE n = 0
  <2>1. p = <<>>
    BY <1>2, <1>5
  <2>2. SubSeq(p, 1, n - 1) = <<>> /\ ~At(str, delims, n)
    BY <1>2, <1>5 DEF At
  <2> QED BY <1>3, <2>1, <2>2, Zenon DEF Closed, Open
<1>6. CASE n # 0
  <2>1. n \in 1 .. Len(str)
    BY <1>1, <1>6
  <2> HIDE DEF n
  <2>2. p = Append(SubSeq(p, 1, n - 1), p[n]) /\ SubSeq(p, 1, n - 1) \in Seq(Seq(T)) /\ p[n] \in Seq(T)
    <3> DEFINE U == Seq(T)
    <3>1. p \in Seq(U)
      BY <1>2
    <3> HIDE DEF U
    <3>2. p = Append(SubSeq(p, 1, n - 1), p[n]) /\ SubSeq(p, 1, n - 1) \in Seq(U) /\ p[n] \in U
      BY <1>1, <1>2, <1>6, <3>1
    <3> QED BY <3>2 DEF U
  <2>3. Parts(str, delims) = Done(str, delims, n) \o p[n]
    BY <1>3, <2>2, FlattenAppend
  <2>4. p[n] = IF At(str, delims, n) THEN << Open(str, delims, n) >> ELSE <<>>
    <3>1. p[n] = Piece(str, delims, n)
      BY <1>2, <2>1 DEF n
    <3> QED BY <1>1, <3>1, Zenon DEF Piece, Open
  <2>5. CASE At(str, delims, n)
    <3>1. Begin(str, delims, n) \in 1 .. n
      BY <2>1, <2>5, BeginIs
    <3>2. Len(SubSeq(str, Begin(str, delims, n), n)) = n - Begin(str, delims, n) + 1
      BY <1>1, <2>1, <3>1
    <3>3. Len(SubSeq(str, Begin(str, delims, n), n)) # 0
      BY <1>1, <3>1, <3>2
    <3>4. Open(str, delims, n) # <<>>
      <4>1. Len(<<>>) = 0
        OBVIOUS
      <4> QED BY <2>5, <3>3, <4>1, Zenon DEF Open
    <3>5. Done(str, delims, n) \o << Open(str, delims, n) >>
          = Append(Done(str, delims, n), Open(str, delims, n))
      BY <1>4
    <3> QED BY <2>3, <2>4, <2>5, <3>4, <3>5, Zenon DEF Closed, n
  <2>6. CASE ~At(str, delims, n)
    <3>1. Done(str, delims, n) \o <<>> = Done(str, delims, n)
      BY <1>4
    <3> QED BY <2>3, <2>4, <2>6, <3>1, Zenon DEF Closed, Open, n
  <2> QED BY <2>5, <2>6
<1> QED BY <1>5, <1>6

-----------------------------------------------------------------------------
(* One character at a time *)

UriState == [list : {l \in Seq(Option) : Ascending(l)}, part : Seq(Byte),
             number : {OPT_NUM_URI_PATH, OPT_NUM_URI_QUERY}]

Reader(list, part, number) == [list |-> list, part |-> part, number |-> number]

ListWith(s) == IF s.part = <<>> THEN s.list
               ELSE AppendOptionToList(s.list, Opt(s.number, s.part), TRUE)

LEMMA UriStateIs ==
    ASSUME NEW s \in UriState
    PROVE  /\ s.list \in Seq(Option) /\ Ascending(s.list) /\ s.part \in Seq(Byte)
           /\ s.number \in {OPT_NUM_URI_PATH, OPT_NUM_URI_QUERY}
           /\ s = Reader(s.list, s.part, s.number)
           /\ Opt(s.number, s.part) \in Option
<1>1. s.list \in {l \in Seq(Option) : Ascending(l)} /\ s.part \in Seq(Byte)
      /\ s.number \in {OPT_NUM_URI_PATH, OPT_NUM_URI_QUERY}
      /\ s = Reader(s.list, s.part, s.number)
  BY DEF UriState, Reader
<1>2. s.number \in 0 .. Word - 1
  <2>1. OPT_NUM_URI_PATH \in Nat /\ OPT_NUM_URI_QUERY \in Nat
        /\ OPT_NUM_URI_PATH < 269 /\ OPT_NUM_URI_QUERY < 269
    BY SMT DEF OPT_NUM_URI_PATH, OPT_NUM_URI_QUERY
  <2>2. s.number \in Nat /\ s.number < Word
    BY <1>1, <2>1, WordType
  <2> QED BY <2>2, WordType
<1>3. Opt(s.number, s.part) \in Option
  BY <1>1, <1>2 DEF Opt, Option
<1> QED BY <1>1, <1>3

LEMMA ReaderType ==
    ASSUME NEW list \in Seq(Option), Ascending(list), NEW part \in Seq(Byte),
           NEW number \in {OPT_NUM_URI_PATH, OPT_NUM_URI_QUERY}
    PROVE  Reader(list, part, number) \in UriState
<1>1. list \in {l \in Seq(Option) : Ascending(l)}
  BY Zenon
<1> QED BY <1>1 DEF Reader, UriState

LEMMA UriReadIs ==
    ASSUME NEW s \in UriState, NEW c
    PROVE  /\ WithPart(s) = Reader(ListWith(s), <<>>, s.number)
           /\ UriRead(s, c) =
                IF s.number = OPT_NUM_URI_PATH /\ c = Question
                THEN Reader(ListWith(s), <<>>, OPT_NUM_URI_QUERY)
                ELSE IF c \in (IF s.number = OPT_NUM_URI_PATH THEN {Slash, Space} ELSE {Ampersand})
                THEN Reader(ListWith(s), <<>>, s.number)
                ELSE Reader(s.list, Append(s.part, c), s.number)
<1>1. s = [list |-> s.list, part |-> s.part, number |-> s.number]
  BY UriStateIs DEF Reader
<1> DEFINE w == WithPart(s)
<1>2. w = [list |-> ListWith(s), part |-> <<>>, number |-> s.number]
  <2> DEFINE l == AppendOptionToList(s.list, Opt(s.number, s.part), TRUE)
  <2>1. CASE s.part = <<>>
    BY <1>1, <2>1, Zenon DEF WithPart, ListWith
  <2>2. CASE s.part # <<>>
    <3>1. w = [s EXCEPT !.part = <<>>, !.list = AppendOptionToList(@, Opt(s.number, s.part), TRUE)]
      BY <2>2, Zenon DEF WithPart
    <3>2. w = [list |-> l, part |-> <<>>, number |-> s.number]
      <4>1. w = [s EXCEPT !.part = <<>>, !.list = l]
        BY <3>1
      <4> HIDE DEF l, w
      <4> QED BY <1>1, <4>1
    <3> QED BY <2>2, <3>2, Zenon DEF ListWith
  <2> QED BY <2>1, <2>2
<1> DEFINE l == ListWith(s)
<1> HIDE DEF w, l
<1>3. [w EXCEPT !.number = OPT_NUM_URI_QUERY] = [list |-> l, part |-> <<>>, number |-> OPT_NUM_URI_QUERY]
  BY <1>2 DEF l
<1>4. [s EXCEPT !.part = Append(@, c)] = [list |-> s.list, part |-> Append(s.part, c), number |-> s.number]
  <2> DEFINE a == Append(s.part, c)
  <2>1. [s EXCEPT !.part = Append(@, c)] = [s EXCEPT !.part = a]
    OBVIOUS
  <2> HIDE DEF a
  <2>2. [s EXCEPT !.part = a] = [list |-> s.list, part |-> a, number |-> s.number]
    BY <1>1
  <2> QED BY <2>1, <2>2 DEF a
<1>5. UriRead(s, c) =
        IF s.number = OPT_NUM_URI_PATH /\ c = Question THEN [w EXCEPT !.number = OPT_NUM_URI_QUERY]
        ELSE IF c \in (IF s.number = OPT_NUM_URI_PATH THEN {Slash, Space} ELSE {Ampersand})
        THEN w ELSE [s EXCEPT !.part = Append(@, c)]
  BY Zenon DEF UriRead, w
<1> QED BY <1>2, <1>3, <1>4, <1>5, Zenon DEF Reader, l, w

LEMMA UriReadType ==
    ASSUME NEW s \in UriState, NEW c \in Byte
    PROVE  UriRead(s, c) \in UriState /\ WithPart(s) \in UriState
<1>1. ListWith(s) \in Seq(Option) /\ Ascending(ListWith(s))
  BY UriStateIs, AppendOptionType DEF ListWith
<1>2. /\ <<>> \in Seq(Byte) /\ Append(s.part, c) \in Seq(Byte)
      /\ s.number \in {OPT_NUM_URI_PATH, OPT_NUM_URI_QUERY}
      /\ s.list \in Seq(Option) /\ Ascending(s.list)
  <2>1. s.part \in Seq(Byte)
    BY UriStateIs
  <2>2. Append(s.part, c) \in Seq(Byte)
    BY <2>1
  <2> QED BY <2>2, UriStateIs
<1>3. /\ Reader(ListWith(s), <<>>, s.number) \in UriState
      /\ Reader(ListWith(s), <<>>, OPT_NUM_URI_QUERY) \in UriState
      /\ Reader(s.list, Append(s.part, c), s.number) \in UriState
  BY <1>1, <1>2, ReaderType
<1> QED BY <1>3, UriReadIs, Zenon

\* The fold as a sequence of states.
Reads(g, string) ==
    /\ g \in [0 .. Len(string) -> UriState]
    /\ g[0] = Reader(<<>>, <<>>, OPT_NUM_URI_PATH)
    /\ \A k \in 0 .. Len(string) - 1 : g[k + 1] = UriRead(g[k], string[k + 1])

LEMMA StringIsRead ==
    ASSUME NEW string \in Seq(Byte)
    PROVE  \E g : Reads(g, string) /\ UriOptionsFromString(string) = WithPart(g[Len(string)]).list
<1> DEFINE n == Len(string)
           base == Reader(<<>>, <<>>, OPT_NUM_URI_PATH)
           step == [k \in 1 .. n |-> [s \in UriState |-> UriRead(s, string[k])]]
           Def(g) == g = [s \in SUBSET (DOMAIN string) |->
                            IF s = {} THEN base ELSE UriRead(g[s \ {Max(s)}], string[Max(s)])]
           iter == CHOOSE g : Def(g)
<1>1. UriOptionsFromString(string) = WithPart(iter[DOMAIN string]).list
  BY Zenon DEF UriOptionsFromString, FoldLeft, MapThenFoldSet, Reader
<1>2. n \in Nat /\ DOMAIN string = 1 .. n /\ \A k \in 1 .. n : string[k] \in Byte
  OBVIOUS
<1>3. base \in UriState
  <2>1. <<>> \in Seq(Option) /\ <<>> \in Seq(Byte) /\ Ascending(<<>>)
    BY DEF Ascending
  <2> QED BY <2>1, ReaderType
<1>4. step \in [1 .. n -> [UriState -> UriState]]
      /\ \A k \in 1 .. n, s \in UriState : step[k][s] = UriRead(s, string[k])
  <2>1. ASSUME NEW k \in 1 .. n, NEW s \in UriState PROVE UriRead(s, string[k]) \in UriState
    BY <1>2, UriReadType
  <2>2. ASSUME NEW k \in 1 .. n
        PROVE  [s \in UriState |-> UriRead(s, string[k])] \in [UriState -> UriState]
    BY <2>1, Zenon
  <2>3. step \in [1 .. n -> [UriState -> UriState]]
    BY <2>2, Zenon
  <2> QED BY <2>3, Zenon
<1> HIDE DEF step, base
<1>5. PICK h : Folds(h, n, UriState, base, step)
  <2> HIDE DEF n
  <2> QED BY <1>2, <1>3, <1>4, FoldExists
<1>6. ASSUME NEW s \in SUBSET (1 .. n), s # {} PROVE Max(s) \in 1 .. n
  BY <1>2, <1>6, MaxIs
<1>7. Def(h)
  <2>1. h \in [SUBSET (1 .. n) -> UriState]
    BY <1>5 DEF Folds
  <2>2. ASSUME NEW s \in SUBSET (1 .. n)
        PROVE  h[s] = IF s = {} THEN base ELSE UriRead(h[s \ {Max(s)}], string[Max(s)])
    <3>1. h[s] = IF s = {} THEN base ELSE step[Max(s)][h[s \ {Max(s)}]]
      BY <1>5 DEF Folds
    <3>2. h[s \ {Max(s)}] \in UriState
      BY <2>1
    <3>3. CASE s = {}
      BY <3>1, <3>3, Zenon
    <3>4. CASE s # {}
      BY <1>4, <1>6, <3>1, <3>2, <3>4, Zenon
    <3> QED BY <3>3, <3>4
  <2>3. h = [s \in SUBSET (1 .. n) |-> h[s]]
    BY <2>1
  <2> HIDE DEF n
  <2>4. h = [s \in SUBSET (1 .. n) |-> IF s = {} THEN base ELSE UriRead(h[s \ {Max(s)}], string[Max(s)])]
    BY <2>2, <2>3, Zenon
  <2> QED BY <1>2, <2>4, Zenon
<1>8. Def(iter)
  <2> HIDE DEF Def
  <2> QED BY <1>7, Zenon
<1> HIDE DEF iter
<1>9. ASSUME NEW s \in SUBSET (1 .. n)
      PROVE  iter[s] = IF s = {} THEN base ELSE UriRead(iter[s \ {Max(s)}], string[Max(s)])
  <2> HIDE DEF n
  <2> QED BY <1>2, <1>8, Zenon
<1> DEFINE g == [k \in 0 .. n |-> iter[1 .. k]]
<1>10. g[0] = base
  <2>1. 1 .. 0 = {} /\ 0 \in 0 .. n /\ {} \in SUBSET (1 .. n)
    BY <1>2
  <2> QED BY <1>9, <2>1
<1>11. ASSUME NEW k \in 0 .. n - 1 PROVE g[k + 1] = UriRead(g[k], string[k + 1])
  <2>1. 1 .. k + 1 \in SUBSET (1 .. n) /\ 1 .. k + 1 # {}
    <3>1. k + 1 \in 1 .. k + 1
      BY <1>2
    <3>2. \A x \in 1 .. k + 1 : x \in 1 .. n
      BY <1>2
    <3> QED BY <3>1, <3>2
  <2>2. Max(1 .. k + 1) = k + 1 /\ (1 .. k + 1) \ {k + 1} = 1 .. k
    <3>1. k \in Nat
      BY <1>2
    <3> QED BY <3>1, MaxUpTo
  <2>3. iter[1 .. k + 1] = UriRead(iter[1 .. k], string[k + 1])
    BY <1>9, <2>1, <2>2, Zenon
  <2>4. k \in 0 .. n /\ k + 1 \in 0 .. n
    BY <1>2
  <2> QED BY <2>3, <2>4, Zenon
<1> HIDE DEF g
<1>12. \A k \in 0 .. n : g[k] \in UriState
  <2> DEFINE Q == {k \in 0 .. n : g[k] \in UriState}
  <2>1. 0 \in Q
    BY <1>2, <1>3, <1>10
  <2>2. ASSUME NEW k \in 0 .. n - 1, k \in Q PROVE k + 1 \in Q
    <3>1. k + 1 \in 0 .. n /\ string[k + 1] \in Byte
      BY <1>2
    <3>2. g[k] \in UriState
      BY <2>2
    <3> QED BY <1>11, <3>1, <3>2, UriReadType
  <2> HIDE DEF Q, n
  <2>3. \A k \in 0 .. n : k \in Q
    BY <1>2, <2>1, <2>2, UpTo
  <2> QED BY <2>3 DEF Q
<1>13. Reads(g, string)
  <2>1. g \in [0 .. n -> UriState]
    <3>1. g = [k \in 0 .. n |-> g[k]]
      BY DEF g
    <3> HIDE DEF n
    <3> QED BY <1>12, <3>1, Zenon
  <2> QED BY <1>10, <1>11, <2>1 DEF Reads, base
<1>14. g[n] = iter[DOMAIN string]
  BY <1>2 DEF g
<1> QED BY <1>1, <1>13, <1>14

-----------------------------------------------------------------------------
(* The options of a string *)

OptsOf(number, parts) == [k \in 1 .. Len(parts) |-> Opt(number, parts[k])]

UriNumbers == {OPT_NUM_URI_PATH, OPT_NUM_URI_QUERY}
DelimitersOf(number) == IF number = OPT_NUM_URI_PATH THEN {Slash, Space} ELSE {Ampersand}

LEMMA UriOpt ==
    ASSUME NEW number \in UriNumbers, NEW part \in Seq(Byte)
    PROVE  Opt(number, part) \in Option /\ Opt(number, part).Number = number
           /\ Opt(number, part).Value = part
<1>1. <<>> \in Seq(Option) /\ Ascending(<<>>)
  BY DEF Ascending
<1>2. Reader(<<>>, part, number) \in UriState
  BY <1>1, ReaderType DEF UriNumbers
<1>3. Opt(number, part) \in Option
  <2>1. Reader(<<>>, part, number).number = number /\ Reader(<<>>, part, number).part = part
    BY DEF Reader
  <2> QED BY <1>2, <2>1, UriStateIs
<1> QED BY <1>3 DEF Opt

LEMMA OptsOfType ==
    ASSUME NEW number \in UriNumbers, NEW parts \in Seq(Seq(Byte))
    PROVE  /\ OptsOf(number, parts) \in Seq(Option)
           /\ Len(OptsOf(number, parts)) = Len(parts)
           /\ \A k \in 1 .. Len(parts) : OptsOf(number, parts)[k] = Opt(number, parts[k])
<1>1. \A k \in 1 .. Len(parts) : Opt(number, parts[k]) \in Option
  BY UriOpt
<1>2. OptsOf(number, parts) \in [1 .. Len(parts) -> Option]
  BY <1>1, Zenon DEF OptsOf
<1>3. \A k \in 1 .. Len(parts) : OptsOf(number, parts)[k] = Opt(number, parts[k])
  BY Zenon DEF OptsOf
<1>4. Len(parts) \in Nat
  OBVIOUS
<1>5. ASSUME NEW n \in Nat, NEW f \in [1 .. n -> Option] PROVE f \in Seq(Option) /\ Len(f) = n
  OBVIOUS
<1>6. OptsOf(number, parts) \in Seq(Option) /\ Len(OptsOf(number, parts)) = Len(parts)
  BY <1>2, <1>4, <1>5, Zenon
<1> QED BY <1>3, <1>6, Zenon

LEMMA OptsOfAppend ==
    ASSUME NEW number \in UriNumbers, NEW parts \in Seq(Seq(Byte)), NEW part \in Seq(Byte)
    PROVE  OptsOf(number, Append(parts, part)) = Append(OptsOf(number, parts), Opt(number, part))
<1> DEFINE T == Seq(Byte)
           a == Append(parts, part)
           o == OptsOf(number, parts)
           b == OptsOf(number, a)
           x == Opt(number, part)
<1>1. a \in Seq(T) /\ Len(a) = Len(parts) + 1 /\ a[Len(parts) + 1] = part
      /\ (\A k \in 1 .. Len(parts) : a[k] = parts[k]) /\ Len(parts) \in Nat
  <2>1. parts \in Seq(T) /\ part \in T
    OBVIOUS
  <2> HIDE DEF T
  <2> QED BY <2>1
<1>2. /\ b \in Seq(Option) /\ Len(b) = Len(a) /\ \A k \in 1 .. Len(a) : b[k] = Opt(number, a[k])
      /\ o \in Seq(Option) /\ Len(o) = Len(parts)
      /\ \A k \in 1 .. Len(parts) : o[k] = Opt(number, parts[k])
  <2>1. a \in Seq(Seq(Byte))
    BY <1>1
  <2> HIDE DEF a
  <2> QED BY <2>1, OptsOfType
<1>3. x \in Option
  BY UriOpt
<1> HIDE DEF a, b, o, x
<1>4. Append(o, x) \in Seq(Option) /\ Len(Append(o, x)) = Len(o) + 1
      /\ Append(o, x)[Len(o) + 1] = x /\ \A k \in 1 .. Len(o) : Append(o, x)[k] = o[k]
  BY <1>2, <1>3
<1>5. ASSUME NEW k \in 1 .. Len(b) PROVE b[k] = Append(o, x)[k]
  <2>1. CASE k = Len(parts) + 1
    BY <1>1, <1>2, <1>4, <2>1, Zenon DEF x
  <2>2. CASE k # Len(parts) + 1
    <3>1. k \in 1 .. Len(parts)
      BY <1>1, <1>2, <2>2
    <3> QED BY <1>1, <1>2, <1>4, <3>1, Zenon
  <2> QED BY <2>1, <2>2
<1>6. b = Append(o, x)
  BY <1>1, <1>2, <1>4, <1>5, SeqEqual
<1> QED BY <1>6 DEF a, b, o, x

\* The part that is open becomes an option at the end.
LEMMA ListWithOpen ==
    ASSUME NEW base \in Seq(Option), NEW number \in UriNumbers,
           \A k \in 1 .. Len(base) : base[k].Number <= number,
           NEW parts \in Seq(Seq(Byte)), NEW part \in Seq(Byte)
    PROVE  ListWith(Reader(base \o OptsOf(number, parts), part, number))
           = base \o OptsOf(number, Closed(parts, part))
<1> DEFINE o == OptsOf(number, parts)
           l == base \o o
           x == Opt(number, part)
<1>1. /\ o \in Seq(Option) /\ Len(o) = Len(parts) /\ x \in Option /\ x.Number = number
      /\ \A k \in 1 .. Len(o) : o[k].Number = number
  BY OptsOfType, UriOpt
<1> HIDE DEF o, x
<1>2. number \in Nat
  BY <1>1, OptionType
<1>3. l \in Seq(Option) /\ \A k \in 1 .. Len(l) : l[k].Number <= x.Number
  <2>0. Len(base) \in Nat /\ Len(o) \in Nat
    BY <1>1
  <2>1. l \in Seq(Option) /\ Len(l) = Len(base) + Len(o)
        /\ \A k \in 1 .. Len(base) + Len(o) :
              l[k] = IF k <= Len(base) THEN base[k] ELSE o[k - Len(base)]
    BY <1>1, ConcatProperties, Zenon
  <2> HIDE DEF l
  <2>2. ASSUME NEW k \in 1 .. Len(l) PROVE l[k].Number <= number
    <3>1. CASE k <= Len(base)
      <4>1. k \in 1 .. Len(base) /\ l[k] = base[k]
        BY <2>0, <2>1, <3>1
      <4> QED BY <4>1
    <3>2. CASE ~(k <= Len(base))
      <4>1. k - Len(base) \in 1 .. Len(o) /\ l[k] = o[k - Len(base)]
        BY <2>0, <2>1, <3>2
      <4>2. l[k].Number = number
        BY <1>1, <4>1
      <4> QED BY <1>2, <4>2
    <3> QED BY <3>1, <3>2
  <2> QED BY <1>1, <2>1, <2>2
<1> HIDE DEF l
<1>4. ListWith(Reader(l, part, number)) = IF part = <<>> THEN l ELSE AppendOptionToList(l, x, TRUE)
  BY DEF ListWith, Reader, x
<1>5. CASE part = <<>>
  BY <1>4, <1>5, Zenon DEF Closed, l, o
<1>6. CASE part # <<>>
  <2>1. AppendOptionToList(l, x, TRUE) = Append(l, x)
    BY <1>1, <1>3, AppendAtEnd
  <2>2. Append(l, x) = base \o Append(o, x)
    <3>1. /\ << x >> \in Seq(Option) /\ base \o o \in Seq(Option)
          /\ Append(base \o o, x) = (base \o o) \o << x >> /\ Append(o, x) = o \o << x >>
      BY <1>1
    <3>2. (base \o o) \o << x >> = base \o (o \o << x >>)
      BY <1>1, <3>1, ConcatAssociative, SMTT(90)
    <3> QED BY <3>1, <3>2, Zenon DEF l
  <2>3. Append(o, x) = OptsOf(number, Append(parts, part))
    BY OptsOfAppend DEF o, x
  <2> QED BY <1>4, <1>6, <2>1, <2>2, <2>3, Zenon DEF Closed, l, o
<1> QED BY <1>5, <1>6

\* What has been read of "str", the options in "base" being there before.
Reading(s, base, number, str, n) ==
    s = Reader(base \o OptsOf(number, Done(str, DelimitersOf(number), n)),
               Open(str, DelimitersOf(number), n), number)

LEMMA ReadStep ==
    ASSUME NEW base \in Seq(Option), NEW number \in UriNumbers,
           \A k \in 1 .. Len(base) : base[k].Number <= number,
           NEW str \in Seq(Byte), NEW n \in 0 .. Len(str) - 1,
           ~(number = OPT_NUM_URI_PATH /\ str[n + 1] = Question),
           NEW s \in UriState, Reading(s, base, number, str, n)
    PROVE  Reading(UriRead(s, str[n + 1]), base, number, str, n + 1)
<1> DEFINE d == DelimitersOf(number)
           done == Done(str, d, n)
           open == Open(str, d, n)
           c == str[n + 1]
<1>1. n \in 0 .. Len(str) /\ done \in Seq(Seq(Byte)) /\ open \in Seq(Byte)
  <2>1. n \in 0 .. Len(str)
    OBVIOUS
  <2> QED BY <2>1, PartsType
<1>2. s = Reader(base \o OptsOf(number, done), open, number)
  BY DEF Reading
<1>3. /\ c \in d => Open(str, d, n + 1) = <<>> /\ Done(str, d, n + 1) = Closed(done, open)
      /\ c \notin d => Open(str, d, n + 1) = Append(open, c) /\ Done(str, d, n + 1) = done
  BY PartsStep
<1>4. ListWith(s) = base \o OptsOf(number, Closed(done, open))
  <2> HIDE DEF done, open
  <2> QED BY <1>1, <1>2, ListWithOpen
<1>5. s.number = number /\ s.list = base \o OptsOf(number, done) /\ s.part = open
  <2> HIDE DEF done, open
  <2> QED BY <1>2 DEF Reader
<1>6. UriRead(s, c) = IF c \in d THEN Reader(ListWith(s), <<>>, number)
                      ELSE Reader(s.list, Append(s.part, c), number)
  BY <1>5, UriReadIs, Zenon DEF DelimitersOf
<1> HIDE DEF d, done, open, c
<1>7. CASE c \in d
  BY <1>3, <1>4, <1>6, <1>7, Zenon DEF Reading, d, c
<1>8. CASE c \notin d
  BY <1>3, <1>5, <1>6, <1>8, Zenon DEF Reading, d, c
<1> QED BY <1>7, <1>8

\* A stretch of the string, and one in which the kind of option does not change.
Stretch(str, string, m) ==
    /\ str \in Seq(Byte) /\ m \in 0 .. Len(string) /\ m + Len(str) <= Len(string)
    /\ \A k \in 1 .. Len(str) : str[k] = string[m + k]
Plain(str, number) == number = OPT_NUM_URI_PATH => \A k \in 1 .. Len(str) : str[k] # Question
AtMost(base, number) == \A k \in 1 .. Len(base) : base[k].Number <= number
ReadTo(g, m, str, base, number) ==
    /\ ListWith(g[m + Len(str)]) = base \o OptsOf(number, Parts(str, DelimitersOf(number)))
    /\ g[m + Len(str)].number = number

LEMMA ReadStretch ==
    ASSUME NEW string \in Seq(Byte), NEW g, Reads(g, string),
           NEW m, NEW str, Stretch(str, string, m),
           NEW base \in Seq(Option), NEW number \in UriNumbers, AtMost(base, number),
           Plain(str, number), g[m] = Reader(base, <<>>, number)
    PROVE  ReadTo(g, m, str, base, number)
<1> DEFINE l == Len(str)
           d == DelimitersOf(number)
           Q == {n \in 0 .. l : Reading(g[m + n], base, number, str, n)}
<1>0. /\ str \in Seq(Byte) /\ m \in 0 .. Len(string) /\ m + Len(str) <= Len(string)
      /\ \A k \in 1 .. Len(str) : str[k] = string[m + k]
      /\ \A k \in 1 .. Len(base) : base[k].Number <= number
      /\ number = OPT_NUM_URI_PATH => \A k \in 1 .. Len(str) : str[k] # Question
  BY Zenon DEF Stretch, AtMost, Plain
<1>1. l \in Nat /\ m \in Nat /\ Len(string) \in Nat
  BY <1>0
<1>2. /\ \A k \in 0 .. Len(string) : g[k] \in UriState
      /\ \A k \in 0 .. Len(string) - 1 : g[k + 1] = UriRead(g[k], string[k + 1])
  BY DEF Reads
<1>3. 0 \in Q
  <2>1. Done(str, d, 0) = <<>> /\ Open(str, d, 0) = <<>>
    BY <1>0, PartsBegin
  <2>2. OptsOf(number, <<>>) = <<>>
    BY DEF OptsOf
  <2>3. base \o <<>> = base /\ m + 0 = m /\ 0 \in 0 .. l
    BY <1>1
  <2>4. Reading(g[m + 0], base, number, str, 0)
    BY <2>1, <2>2, <2>3, Zenon DEF Reading
  <2> QED BY <2>3, <2>4
<1>4. ASSUME NEW n \in 0 .. l - 1, n \in Q PROVE n + 1 \in Q
  <2>1. /\ n + 1 \in 0 .. l /\ n + 1 \in 1 .. l /\ m + n \in 0 .. Len(string) - 1
        /\ m + n \in 0 .. Len(string) /\ (m + n) + 1 = m + (n + 1)
    BY <1>0, <1>1
  <2>2. g[m + (n + 1)] = UriRead(g[m + n], str[n + 1])
    <3>1. g[(m + n) + 1] = UriRead(g[m + n], string[(m + n) + 1])
      BY <1>2, <2>1
    <3>2. str[n + 1] = string[m + (n + 1)]
      BY <1>0, <2>1
    <3> QED BY <2>1, <3>1, <3>2, Zenon
  <2>3. ~(number = OPT_NUM_URI_PATH /\ str[n + 1] = Question)
    BY <1>0, <2>1
  <2>4. g[m + n] \in UriState /\ Reading(g[m + n], base, number, str, n)
    BY <1>2, <1>4, <2>1
  <2>5. Reading(g[m + (n + 1)], base, number, str, n + 1)
    BY <1>0, <2>2, <2>3, <2>4, ReadStep
  <2> QED BY <2>1, <2>5
<1>5. Reading(g[m + l], base, number, str, l)
  <2> HIDE DEF Q, l
  <2>1. l \in Q
    <3>1. \A n \in 0 .. l : n \in Q
      BY <1>1, <1>3, <1>4, UpTo
    <3>2. l \in 0 .. l
      BY <1>1
    <3> QED BY <3>1, <3>2
  <2> QED BY <2>1 DEF Q
<1> HIDE DEF Q
<1>6. l \in 0 .. Len(str) /\ m + l \in 0 .. Len(string)
  BY <1>0, <1>1
<1>7. Done(str, d, l) \in Seq(Seq(Byte)) /\ Open(str, d, l) \in Seq(Byte)
  BY <1>0, <1>6, PartsType
<1>8. g[m + l] = Reader(base \o OptsOf(number, Done(str, d, l)), Open(str, d, l), number)
  BY <1>5, Zenon DEF Reading
<1>9. ListWith(g[m + l]) = base \o OptsOf(number, Closed(Done(str, d, l), Open(str, d, l)))
  BY <1>0, <1>7, <1>8, ListWithOpen
<1>10. g[m + l].number = number
  <2> HIDE DEF d, l
  <2> QED BY <1>8 DEF Reader
<1>11. Parts(str, d) = Closed(Done(str, d, l), Open(str, d, l))
  BY <1>0, PartsEnd
<1> QED BY <1>9, <1>10, <1>11, Zenon DEF ReadTo

LEMMA PartsAreStrings ==
    ASSUME NEW str \in Seq(Byte), NEW delims
    PROVE  Parts(str, delims) \in Seq(Seq(Byte))
BY PartsIs, PiecesType, FlattenType

LEMMA MarkIs ==
    ASSUME NEW string \in Seq(Byte)
    PROVE  /\ QueryMark(string) \in 0 .. Len(string)
           /\ QueryMark(string) = 0 => \A k \in 1 .. Len(string) : string[k] # Question
           /\ QueryMark(string) # 0 => /\ string[QueryMark(string)] = Question
                                       /\ \A k \in 1 .. QueryMark(string) - 1 : string[k] # Question
<1> DEFINE I == {i \in 1 .. Len(string) : string[i] = Question}
<1>1. QueryMark(string) = IF I # {} THEN Min(I) ELSE 0
  BY Zenon DEF QueryMark, SelectInSeq
<1>2. CASE I = {}
  <2>1. QueryMark(string) = 0 /\ 0 \in 0 .. Len(string)
    BY <1>1, <1>2
  <2> QED BY <1>2, <2>1
<1>3. CASE I # {}
  <2>1. I \in SUBSET Nat
    OBVIOUS
  <2> HIDE DEF I
  <2>2. Min(I) \in I /\ \A y \in I : Min(I) <= y
    BY <1>3, <2>1, MinIs
  <2> DEFINE m == Min(I)
  <2>3. QueryMark(string) = m /\ m \in 1 .. Len(string) /\ string[m] = Question /\ \A y \in I : m <= y
    BY <1>1, <1>3, <2>2 DEF I
  <2> HIDE DEF m
  <2>4. \A k \in 1 .. m - 1 : string[k] # Question
    <3> SUFFICES ASSUME NEW k \in 1 .. m - 1, string[k] = Question PROVE FALSE
      OBVIOUS
    <3>1. k \in 1 .. Len(string) /\ ~(m <= k)
      BY <2>3
    <3>2. k \in I
      BY <3>1 DEF I
    <3> QED BY <2>3, <3>1, <3>2
  <2>5. m \in 0 .. Len(string) /\ m # 0
    BY <2>3
  <2> QED BY <2>3, <2>4, <2>5
<1> QED BY <1>2, <1>3

\* The two halves of a string.
PathString(string) ==
    IF QueryMark(string) = 0 THEN string ELSE SubSeq(string, 1, QueryMark(string) - 1)
QueryString(string) == SubSeq(string, QueryMark(string) + 1, Len(string))

LEMMA HalvesAre ==
    ASSUME NEW string \in Seq(Byte)
    PROVE  /\ Path(string) = Parts(PathString(string), DelimitersOf(OPT_NUM_URI_PATH))
           /\ Query(string) = IF QueryMark(string) = 0 THEN <<>>
                              ELSE Parts(QueryString(string), DelimitersOf(OPT_NUM_URI_QUERY))
           /\ PathString(string) \in Seq(Byte) /\ QueryString(string) \in Seq(Byte)
           /\ Path(string) \in Seq(Seq(Byte)) /\ Query(string) \in Seq(Seq(Byte))
<1>0. OPT_NUM_URI_PATH # OPT_NUM_URI_QUERY
  BY SMT DEF OPT_NUM_URI_PATH, OPT_NUM_URI_QUERY
<1>1. Path(string) = Parts(PathString(string), DelimitersOf(OPT_NUM_URI_PATH))
  BY Zenon DEF Path, PathString, DelimitersOf
<1>2. Query(string) = IF QueryMark(string) = 0 THEN <<>>
                      ELSE Parts(QueryString(string), DelimitersOf(OPT_NUM_URI_QUERY))
  BY <1>0, Zenon DEF Query, QueryString, DelimitersOf
<1>3. PathString(string) \in Seq(Byte) /\ QueryString(string) \in Seq(Byte)
  <2> DEFINE m == QueryMark(string)
  <2>1. m \in 0 .. Len(string)
    BY MarkIs
  <2> HIDE DEF m
  <2>2. /\ m # 0 => SubSeq(string, 1, m - 1) \in Seq(Byte)
        /\ SubSeq(string, m + 1, Len(string)) \in Seq(Byte)
    BY <2>1
  <2> QED BY <2>2, Zenon DEF PathString, QueryString, m
<1>4. Path(string) \in Seq(Seq(Byte)) /\ Query(string) \in Seq(Seq(Byte))
  <2>1. <<>> \in Seq(Seq(Byte))
    OBVIOUS
  <2> QED BY <1>1, <1>2, <1>3, <2>1, PartsAreStrings, Zenon
<1> QED BY <1>1, <1>2, <1>3, <1>4

\* A string becomes one option for each part of its path and of its query.
LEMMA UriIs ==
    ASSUME NEW string \in Seq(Byte)
    PROVE  UriOptionsFromString(string) = OptsOf(OPT_NUM_URI_PATH, Path(string))
                                          \o OptsOf(OPT_NUM_URI_QUERY, Query(string))
<1> DEFINE m == QueryMark(string)
           a == PathString(string)
           b == QueryString(string)
           path == OptsOf(OPT_NUM_URI_PATH, Path(string))
           query == OptsOf(OPT_NUM_URI_QUERY, Query(string))
<1>0. /\ OPT_NUM_URI_PATH \in UriNumbers /\ OPT_NUM_URI_QUERY \in UriNumbers
      /\ OPT_NUM_URI_PATH # OPT_NUM_URI_QUERY
      /\ OPT_NUM_URI_PATH <= OPT_NUM_URI_QUERY
  <2>1. OPT_NUM_URI_PATH # OPT_NUM_URI_QUERY /\ OPT_NUM_URI_PATH <= OPT_NUM_URI_QUERY
    BY SMT DEF OPT_NUM_URI_PATH, OPT_NUM_URI_QUERY
  <2> QED BY <2>1, Zenon DEF UriNumbers
<1>1. PICK g : Reads(g, string) /\ UriOptionsFromString(string) = WithPart(g[Len(string)]).list
  BY StringIsRead
<1>2. /\ m \in 0 .. Len(string) /\ Len(string) \in Nat
      /\ m = 0 => \A k \in 1 .. Len(string) : string[k] # Question
      /\ m # 0 => string[m] = Question /\ \A k \in 1 .. m - 1 : string[k] # Question
  <2>1. Len(string) \in Nat
    OBVIOUS
  <2> QED BY <2>1, MarkIs
<1>3. /\ a \in Seq(Byte) /\ b \in Seq(Byte)
      /\ path \in Seq(Option) /\ query \in Seq(Option)
      /\ \A k \in 1 .. Len(path) : path[k].Number = OPT_NUM_URI_PATH
  <2>1. a \in Seq(Byte) /\ b \in Seq(Byte) /\ Path(string) \in Seq(Seq(Byte)) /\ Query(string) \in Seq(Seq(Byte))
    BY HalvesAre
  <2>2. path \in Seq(Option) /\ query \in Seq(Option) /\ Len(path) = Len(Path(string))
        /\ \A k \in 1 .. Len(Path(string)) : path[k] = Opt(OPT_NUM_URI_PATH, Path(string)[k])
    BY <1>0, <2>1, OptsOfType
  <2>3. \A k \in 1 .. Len(path) : path[k].Number = OPT_NUM_URI_PATH
    <3> TAKE k \in 1 .. Len(path)
    <3>1. path[k] = Opt(OPT_NUM_URI_PATH, Path(string)[k])
      BY <2>2
    <3> QED BY <3>1 DEF Opt
  <2> QED BY <2>1, <2>2, <2>3
<1> HIDE DEF m, a, b, path, query
<1>4. /\ \A k \in 0 .. Len(string) : g[k] \in UriState
      /\ \A k \in 0 .. Len(string) - 1 : g[k + 1] = UriRead(g[k], string[k + 1])
      /\ g[0] = Reader(<<>>, <<>>, OPT_NUM_URI_PATH)
  BY <1>1 DEF Reads
<1>5. ASSUME NEW s \in UriState PROVE WithPart(s).list = ListWith(s)
  BY UriReadIs DEF Reader
<1>6. ASSUME Stretch(a, string, 0), Plain(a, OPT_NUM_URI_PATH)
      PROVE  ListWith(g[Len(a)]) = path /\ g[Len(a)].number = OPT_NUM_URI_PATH
  <2>1. <<>> \in Seq(Option) /\ AtMost(<<>>, OPT_NUM_URI_PATH) /\ 0 + Len(a) = Len(a)
    BY <1>3 DEF AtMost
  <2>2. /\ ListWith(g[0 + Len(a)]) = <<>> \o OptsOf(OPT_NUM_URI_PATH, Parts(a, DelimitersOf(OPT_NUM_URI_PATH)))
        /\ g[0 + Len(a)].number = OPT_NUM_URI_PATH
    <3>1. ReadTo(g, 0, a, <<>>, OPT_NUM_URI_PATH)
      BY <1>0, <1>1, <1>4, <1>6, <2>1, ReadStretch
    <3> QED BY <3>1, Zenon DEF ReadTo
  <2>3. path = OptsOf(OPT_NUM_URI_PATH, Parts(a, DelimitersOf(OPT_NUM_URI_PATH)))
    BY HalvesAre, Zenon DEF path, a
  <2>4. <<>> \o path = path
    BY <1>3
  <2> QED BY <2>1, <2>2, <2>3, <2>4, Zenon
<1>7. CASE m = 0
  <2>1. a = string /\ Query(string) = <<>>
    BY <1>7, HalvesAre, Zenon DEF a, m, PathString
  <2>2. Stretch(a, string, 0) /\ Plain(a, OPT_NUM_URI_PATH)
    <3>1. 0 \in 0 .. Len(string) /\ 0 + Len(string) <= Len(string)
          /\ \A k \in 1 .. Len(string) : string[k] = string[0 + k]
      BY <1>2
    <3> QED BY <1>2, <1>7, <2>1, <3>1, Zenon DEF Stretch, Plain
  <2>3. ListWith(g[Len(string)]) = path
    BY <1>6, <2>1, <2>2, Zenon
  <2>4. query = <<>>
    BY <2>1 DEF query, OptsOf
  <2>5. path \o <<>> = path
    BY <1>3
  <2>6. g[Len(string)] \in UriState
    BY <1>2, <1>4
  <2>7. UriOptionsFromString(string) = path
    BY <1>1, <1>5, <2>3, <2>6, Zenon
  <2> QED BY <2>4, <2>5, <2>7, Zenon DEF path, query
<1>8. CASE m # 0
  <2>1. a = SubSeq(string, 1, m - 1) /\ b = SubSeq(string, m + 1, Len(string))
        /\ Query(string) = Parts(b, DelimitersOf(OPT_NUM_URI_QUERY))
    BY <1>8, HalvesAre, Zenon DEF a, b, m, PathString, QueryString
  <2>0. m \in 1 .. Len(string)
    BY <1>2, <1>8
  <2>2. /\ Len(a) = m - 1 /\ m + Len(b) = Len(string) /\ (m - 1) + 1 = m
        /\ m - 1 \in 0 .. Len(string) - 1 /\ m - 1 \in 0 .. Len(string) /\ Len(string) \in 0 .. Len(string)
    BY <1>2, <2>0, <2>1
  <2>3. Stretch(a, string, 0) /\ Plain(a, OPT_NUM_URI_PATH)
    <3>1. \A k \in 1 .. Len(a) : a[k] = string[0 + k]
      BY <1>2, <2>0, <2>1
    <3>2. 0 \in 0 .. Len(string) /\ 0 + Len(a) <= Len(string)
      BY <1>2, <2>2
    <3>3. \A k \in 1 .. Len(a) : a[k] # Question
      <4> TAKE k \in 1 .. Len(a)
      <4>1. k \in 1 .. m - 1 /\ 0 + k = k
        BY <2>2
      <4> QED BY <1>2, <1>8, <3>1, <4>1, Zenon
    <3> QED BY <1>3, <3>1, <3>2, <3>3, Zenon DEF Stretch, Plain
  <2>10. Stretch(b, string, m) /\ Plain(b, OPT_NUM_URI_QUERY)
    <3>1. ASSUME NEW k \in 1 .. Len(b) PROVE b[k] = string[m + k]
      <4>1. b[k] = string[(m + 1) + k - 1] /\ (m + 1) + k - 1 = m + k
        BY <1>2, <2>0, <2>1
      <4> QED BY <4>1, Zenon
    <3>2. m + Len(b) <= Len(string)
      BY <1>2, <2>2
    <3> QED BY <1>0, <1>2, <1>3, <3>1, <3>2, Zenon DEF Stretch, Plain
  <2>11. ListWith(g[m - 1]) = path /\ g[m - 1].number = OPT_NUM_URI_PATH
    BY <1>6, <2>2, <2>3, Zenon
  <2>4. g[m] = Reader(path, <<>>, OPT_NUM_URI_QUERY)
    <3>1. g[(m - 1) + 1] = UriRead(g[m - 1], string[(m - 1) + 1]) /\ g[m - 1] \in UriState
      BY <1>4, <2>2
    <3>2. g[m] = UriRead(g[m - 1], Question)
      BY <1>2, <1>8, <2>2, <3>1, Zenon
    <3> QED BY <2>11, <3>1, <3>2, UriReadIs, Zenon
  <2>5. AtMost(path, OPT_NUM_URI_QUERY)
    BY <1>0, <1>3, Zenon DEF AtMost
  <2>6. ListWith(g[m + Len(b)]) = path \o OptsOf(OPT_NUM_URI_QUERY, Parts(b, DelimitersOf(OPT_NUM_URI_QUERY)))
    <3>1. ReadTo(g, m, b, path, OPT_NUM_URI_QUERY)
      BY <1>0, <1>1, <1>3, <2>10, <2>4, <2>5, ReadStretch
    <3> QED BY <3>1, Zenon DEF ReadTo
  <2>7. g[Len(string)] \in UriState /\ ListWith(g[Len(string)]) = path \o query
    <3>1. g[m + Len(b)] \in UriState
      BY <1>4, <2>2, Zenon
    <3> QED BY <2>1, <2>2, <2>6, <3>1, Zenon DEF query
  <2> QED BY <1>1, <1>5, <2>7, Zenon DEF path, query
<1> QED BY <1>7, <1>8

LEMMA AmongAll ==
    ASSUME NEW list \in Seq(Option), NEW numbers,
           \A k \in 1 .. Len(list) : list[k].Number \in numbers
    PROVE  OptionsAmong(list, numbers) = list
<1> DEFINE n == Len(list)
           u(k) == SubSeq(list, 1, k)
           Q == {k \in 0 .. n : OptionsAmong(u(k), numbers) = u(k)}
<1>1. n \in Nat /\ u(0) = <<>> /\ u(n) = list
  OBVIOUS
<1>2. 0 \in Q
  <2> HIDE DEF u, n
  <2> QED BY <1>1, AmongNil
<1>3. ASSUME NEW k \in 0 .. n - 1, k \in Q PROVE k + 1 \in Q
  <2>1. /\ u(k) \in Seq(Option) /\ list[k + 1] \in Option
        /\ u(k + 1) = Append(u(k), list[k + 1]) /\ k + 1 \in 0 .. n /\ k + 1 \in 1 .. n
    OBVIOUS
  <2>2. OptionsAmong(u(k), numbers) = u(k)
    BY <1>3
  <2> DEFINE v == u(k)
             x == list[k + 1]
  <2>3. v \in Seq(Option) /\ x \in Option /\ Append(v, x) = v \o << x >>
    BY <2>1
  <2> HIDE DEF u, n
  <2>4. Kept(x, numbers) = << x >>
    BY <2>1, Zenon DEF Kept, n
  <2>5. OptionsAmong(Append(v, x), numbers) = OptionsAmong(v, numbers) \o Kept(x, numbers)
    BY <2>3, AmongAppend
  <2> QED BY <2>1, <2>2, <2>3, <2>4, <2>5, Zenon
<1>4. n \in Q
  <2> HIDE DEF Q, n, u
  <2>1. \A k \in 0 .. n : k \in Q
    BY <1>1, <1>2, <1>3, UpTo
  <2> QED BY <1>1, <2>1
<1> QED BY <1>1, <1>4

\* The options of either number are the parts of either half.
LEMMA UriOptions ==
    ASSUME NEW string \in Seq(Byte)
    PROVE  /\ OptionsByNumber(UriOptionsFromString(string), OPT_NUM_URI_PATH)
                = OptsOf(OPT_NUM_URI_PATH, Path(string))
           /\ OptionsByNumber(UriOptionsFromString(string), OPT_NUM_URI_QUERY)
                = OptsOf(OPT_NUM_URI_QUERY, Query(string))
           /\ UriOptionsFromString(string) \in Seq(Option)
<1> DEFINE path == OptsOf(OPT_NUM_URI_PATH, Path(string))
           query == OptsOf(OPT_NUM_URI_QUERY, Query(string))
<1>0. OPT_NUM_URI_PATH \in UriNumbers /\ OPT_NUM_URI_QUERY \in UriNumbers
      /\ OPT_NUM_URI_PATH # OPT_NUM_URI_QUERY
  BY SMT DEF OPT_NUM_URI_PATH, OPT_NUM_URI_QUERY, UriNumbers
<1>1. ASSUME NEW number \in UriNumbers, NEW parts \in Seq(Seq(Byte)), NEW other \in UriNumbers
      PROVE  /\ OptsOf(number, parts) \in Seq(Option)
             /\ OptionsAmong(OptsOf(number, parts), {other})
                  = IF number = other THEN OptsOf(number, parts) ELSE <<>>
  <2> DEFINE o == OptsOf(number, parts)
  <2>1. o \in Seq(Option) /\ Len(o) = Len(parts)
        /\ \A k \in 1 .. Len(parts) : o[k] = Opt(number, parts[k])
    BY OptsOfType
  <2> HIDE DEF o
  <2>2. \A k \in 1 .. Len(o) : o[k].Number = number
    <3> TAKE k \in 1 .. Len(o)
    <3>1. k \in 1 .. Len(parts) /\ o[k] = Opt(number, parts[k])
      BY <2>1, Zenon
    <3>2. Opt(number, parts[k]).Number = number
      BY DEF Opt
    <3> QED BY <3>1, <3>2, Zenon
  <2>3. CASE number = other
    <3>1. \A k \in 1 .. Len(o) : o[k].Number \in {other}
      BY <2>2, <2>3
    <3>2. OptionsAmong(o, {other}) = o
      BY <2>1, <3>1, AmongAll
    <3> QED BY <2>1, <2>3, <3>2, Zenon DEF o
  <2>4. CASE number # other
    <3>1. \A k \in 1 .. Len(o) : o[k].Number \notin {other}
      BY <2>2, <2>4
    <3>2. OptionsAmong(o, {other}) = <<>>
      BY <2>1, <3>1, AmongNone
    <3> QED BY <2>1, <2>4, <3>2, Zenon DEF o
  <2> QED BY <2>3, <2>4
<1>2. Path(string) \in Seq(Seq(Byte)) /\ Query(string) \in Seq(Seq(Byte))
  BY HalvesAre
<1>3. /\ path \in Seq(Option) /\ query \in Seq(Option)
      /\ OptionsAmong(path, {OPT_NUM_URI_PATH}) = path
      /\ OptionsAmong(query, {OPT_NUM_URI_PATH}) = <<>>
      /\ OptionsAmong(path, {OPT_NUM_URI_QUERY}) = <<>>
      /\ OptionsAmong(query, {OPT_NUM_URI_QUERY}) = query
  BY <1>0, <1>1, <1>2, Zenon
<1>4. UriOptionsFromString(string) = path \o query
  BY UriIs
<1> HIDE DEF path, query
<1>5. \A numbers : OptionsAmong(path \o query, numbers)
                   = OptionsAmong(path, numbers) \o OptionsAmong(query, numbers)
  BY <1>3, AmongConcat
<1>6. path \o <<>> = path /\ <<>> \o query = query /\ path \o query \in Seq(Option)
  BY <1>3
<1> QED BY <1>3, <1>4, <1>5, <1>6, Zenon DEF OptionsByNumber, path, query

\* Parts can be told from their options.
LEMMA OptsOfInjective ==
    ASSUME NEW number \in UriNumbers, NEW a \in Seq(Seq(Byte)), NEW b \in Seq(Seq(Byte)),
           OptsOf(number, a) = OptsOf(number, b)
    PROVE  a = b
<1> DEFINE T == Seq(Byte)
<1>1. Len(a) = Len(b)
  BY OptsOfType
<1>2. ASSUME NEW k \in 1 .. Len(a) PROVE a[k] = b[k]
  <2>1. Opt(number, a[k]) = Opt(number, b[k])
    BY <1>1, OptsOfType
  <2>2. Opt(number, a[k]).Value = a[k] /\ Opt(number, b[k]).Value = b[k]
    BY DEF Opt
  <2> QED BY <2>1, <2>2, Zenon
<1>3. a \in Seq(T) /\ b \in Seq(T)
  OBVIOUS
<1> HIDE DEF T
<1> QED BY <1>1, <1>2, <1>3, SeqEqual

-----------------------------------------------------------------------------
(* The table *)

OfferedCall(k) == IF Application[k].methods = {} THEN <<>> ELSE << Application[k].Uri >>
OfferedAfter(n) == <<CoreUri>> \o FlattenSeq([k \in 1 .. n |-> OfferedCall(k)])

\* A table whose resources have the options of these strings; what its observers
\* are does not matter.
TableOf(table, strings) ==
    /\ \E S : table \in Seq([uri : Seq(Option), notifier : BOOLEAN, observers : S])
    /\ Len(table) = Len(strings)
    /\ \A k \in 1 .. Len(strings) : table[k].uri = UriOptionsFromString(strings[k])

TableInv == created \in 0 .. Len(Application) /\ TableOf(resources, OfferedAfter(created))

LEMMA OfferedIs == Offered = OfferedAfter(created)
BY Zenon DEF Offered, OfferedAfter, OfferedCall

LEMMA CoreUriType == CoreUri \in Seq(Byte)
<1>1. Slash \in Byte /\ 46 \in Byte /\ 99 \in Byte
  BY SMT DEF Slash, Byte
<1> QED BY <1>1 DEF CoreUri

LEMMA OfferedCallType ==
    ASSUME NEW k \in 1 .. Len(Application)
    PROVE  OfferedCall(k) \in Seq(Seq(Byte)) /\ Application[k].Uri \in Seq(Byte)
           /\ Application[k].notifier \in BOOLEAN
<1> DEFINE R == [Uri : Seq(Byte), methods : SUBSET STRING, notifier : BOOLEAN]
<1>1. Application[k] \in R
  <2>1. Application \in Seq(R)
    BY ApplicationAssumption
  <2> HIDE DEF R
  <2> QED BY <2>1
<1>2. Application[k].Uri \in Seq(Byte) /\ Application[k].notifier \in BOOLEAN
  BY <1>1
<1> DEFINE u == Application[k].Uri
<1> HIDE DEF u
<1>3. << u >> \in Seq(Seq(Byte)) /\ <<>> \in Seq(Seq(Byte))
  BY <1>2 DEF u
<1> QED BY <1>2, <1>3, Zenon DEF OfferedCall, u

LEMMA OfferedType ==
    ASSUME NEW n \in 0 .. Len(Application)
    PROVE  /\ [k \in 1 .. n |-> OfferedCall(k)] \in Seq(Seq(Seq(Byte)))
           /\ OfferedAfter(n) \in Seq(Seq(Byte))
<1>0. Len(Application) \in Nat /\ n \in Nat
  BY ApplicationAssumption
<1>1. ASSUME NEW k \in 1 .. n PROVE OfferedCall(k) \in Seq(Seq(Byte))
  <2>1. k \in 1 .. Len(Application)
    BY <1>0
  <2> QED BY <2>1, OfferedCallType
<1> DEFINE T == Seq(Byte)
           f == [k \in 1 .. n |-> OfferedCall(k)]
<1>2. f \in Seq(Seq(T))
  <2>1. f \in [1 .. n -> Seq(T)]
    BY <1>1, Zenon
  <2> HIDE DEF f
  <2> QED BY <1>0, <2>1
<1> HIDE DEF f
<1>3. FlattenSeq(f) \in Seq(T) /\ CoreUri \in T
  <2> HIDE DEF T
  <2>1. FlattenSeq(f) \in Seq(T)
    BY <1>2, FlattenType
  <2> QED BY <2>1, CoreUriType DEF T
<1>4. OfferedAfter(n) = <<CoreUri>> \o FlattenSeq(f)
  BY Zenon DEF OfferedAfter, f
<1> DEFINE c == CoreUri
<1> HIDE DEF T, c
<1>5. << c >> \o FlattenSeq(f) \in Seq(T)
  BY <1>3 DEF c
<1> QED BY <1>2, <1>4, <1>5, Zenon DEF T, f, c

LEMMA OfferedBegin == OfferedAfter(0) = << CoreUri >>
<1>1. [k \in 1 .. 0 |-> OfferedCall(k)] = <<>>
  OBVIOUS
<1> DEFINE c == CoreUri
<1> HIDE DEF c
<1>2. << c >> \o <<>> = << c >>
  OBVIOUS
<1> QED BY <1>1, <1>2, FlattenEmpty, Zenon DEF OfferedAfter, c

\* A call that is refused adds nothing.
LEMMA OfferedStep ==
    ASSUME NEW n \in 0 .. Len(Application) - 1
    PROVE  OfferedAfter(n + 1) = IF Application[n + 1].methods = {} THEN OfferedAfter(n)
                                 ELSE Append(OfferedAfter(n), Application[n + 1].Uri)
<1> DEFINE T == Seq(Byte)
           f == [k \in 1 .. n |-> OfferedCall(k)]
           g == [k \in 1 .. n + 1 |-> OfferedCall(k)]
           x == OfferedCall(n + 1)
           u == Application[n + 1].Uri
<1>0. /\ Len(Application) \in Nat /\ n \in Nat /\ n \in 0 .. Len(Application)
      /\ n + 1 \in 1 .. Len(Application) /\ n + 1 \in 0 .. Len(Application)
  BY ApplicationAssumption
<1>1. f \in Seq(Seq(T)) /\ g \in Seq(Seq(T)) /\ x \in Seq(T) /\ u \in T /\ CoreUri \in T
  BY <1>0, OfferedType, OfferedCallType, CoreUriType
<1>2. /\ Len(f) = n /\ Len(g) = n + 1 /\ g[n + 1] = x /\ \A k \in 1 .. n : g[k] = f[k]
  BY <1>0
<1> DEFINE c == CoreUri
<1>3. /\ OfferedAfter(n) = << c >> \o FlattenSeq(f)
      /\ OfferedAfter(n + 1) = << c >> \o FlattenSeq(g)
      /\ x = IF Application[n + 1].methods = {} THEN <<>> ELSE << u >>
  BY Zenon DEF OfferedAfter, OfferedCall
<1> HIDE DEF T, f, g, x, u, c
<1>4. g = Append(f, x)
  <2> DEFINE U == Seq(T)
  <2>1. f \in Seq(U) /\ g \in Seq(U) /\ x \in U
    BY <1>1
  <2> HIDE DEF U
  <2> QED BY <1>0, <1>2, <2>1
<1>5. FlattenSeq(g) = FlattenSeq(f) \o x /\ FlattenSeq(f) \in Seq(T)
  BY <1>1, <1>4, FlattenAppend, FlattenType
<1> DEFINE s == FlattenSeq(f)
<1>6. s \in Seq(T) /\ c \in T
  BY <1>1, <1>5 DEF c
<1> HIDE DEF s
<1>7. /\ << c >> \o (s \o <<>>) = << c >> \o s
      /\ << c >> \o (s \o << u >>) = Append(<< c >> \o s, u)
  <2>1. << c >> \in Seq(T) /\ << u >> \in Seq(T) /\ << c >> \o s \in Seq(T) /\ s \o <<>> = s
    BY <1>1, <1>6
  <2>2. (<< c >> \o s) \o << u >> = << c >> \o (s \o << u >>)
    BY <1>6, <2>1, ConcatAssociative
  <2>3. Append(<< c >> \o s, u) = (<< c >> \o s) \o << u >>
    BY <1>1, <2>1, AppendIsConcat
  <2> QED BY <2>1, <2>2, <2>3, Zenon
<1> QED BY <1>3, <1>5, <1>7, Zenon DEF s, u

TableOver(S) == [uri : Seq(Option), notifier : BOOLEAN, observers : S]

LEMMA NewResourceType ==
    ASSUME NEW string \in Seq(Byte), NEW notifier \in BOOLEAN, NEW S, <<>> \in S
    PROVE  /\ NewResource(string, notifier) \in TableOver(S)
           /\ NewResource(string, notifier).uri = UriOptionsFromString(string)
<1> DEFINE uri == UriOptionsFromString(string)
<1>1. uri \in Seq(Option)
  BY UriOptions
<1> HIDE DEF uri
<1>2. NewResource(string, notifier) = [uri |-> uri, notifier |-> notifier, observers |-> <<>>]
  BY Zenon DEF NewResource, uri
<1> QED BY <1>1, <1>2 DEF TableOver, uri

LEMMA TableBegin == TableOf(<< WellKnown >>, << CoreUri >>)
<1> DEFINE S == {<<>>}
           w == WellKnown
<1>1. w \in TableOver(S) /\ w.uri = UriOptionsFromString(CoreUri)
  <2>1. <<>> \in S /\ FALSE \in BOOLEAN
    OBVIOUS
  <2> HIDE DEF S
  <2> QED BY <2>1, CoreUriType, NewResourceType DEF WellKnown
<1> DEFINE T == TableOver(S)
           c == CoreUri
<1> HIDE DEF T, w, c
<1>2. << w >> \in Seq(T)
  BY <1>1 DEF T
<1>3. Len(<< w >>) = Len(<< c >>) /\ \A k \in 1 .. Len(<< c >>) : << w >>[k] = w /\ << c >>[k] = c
  OBVIOUS
<1>4. << w >> \in Seq([uri : Seq(Option), notifier : BOOLEAN, observers : S])
  BY <1>2, Zenon DEF T, TableOver
<1>5. \A k \in 1 .. Len(<< c >>) : << w >>[k].uri = UriOptionsFromString(<< c >>[k])
  BY <1>1, <1>3, Zenon DEF c
<1> QED BY <1>3, <1>4, <1>5, Zenon DEF TableOf, w, c

LEMMA TableAppend ==
    ASSUME NEW table, NEW strings \in Seq(Seq(Byte)), TableOf(table, strings),
           NEW string \in Seq(Byte), NEW notifier \in BOOLEAN
    PROVE  TableOf(Append(table, NewResource(string, notifier)), Append(strings, string))
<1> DEFINE r == NewResource(string, notifier)
           B == Seq(Byte)
<1>1. PICK S : table \in Seq([uri : Seq(Option), notifier : BOOLEAN, observers : S])
  BY Zenon DEF TableOf
<1> DEFINE U == S \cup {<<>>}
           T == TableOver(U)
<1>2. r \in T /\ r.uri = UriOptionsFromString(string)
  <2>1. <<>> \in U
    OBVIOUS
  <2> HIDE DEF U
  <2> QED BY <2>1, NewResourceType
<1>3. table \in Seq(T)
  <2>1. \A x \in [uri : Seq(Option), notifier : BOOLEAN, observers : S] : x \in T
    BY DEF TableOver
  <2> DEFINE R == [uri : Seq(Option), notifier : BOOLEAN, observers : S]
  <2>2. table \in Seq(R) /\ \A x \in R : x \in T
    BY <1>1, <2>1
  <2> HIDE DEF R, T
  <2> QED BY <2>2
<1>4. strings \in Seq(B) /\ string \in B /\ Len(table) = Len(strings)
      /\ \A k \in 1 .. Len(strings) : table[k].uri = UriOptionsFromString(strings[k])
  BY Zenon DEF TableOf
<1> HIDE DEF r, B, T, U
<1> DEFINE t == Append(table, r)
           s == Append(strings, string)
<1>5. /\ t \in Seq(T) /\ Len(t) = Len(table) + 1 /\ t[Len(table) + 1] = r
      /\ \A k \in 1 .. Len(table) : t[k] = table[k]
  BY <1>2, <1>3
<1>6. /\ Len(s) = Len(strings) + 1 /\ s[Len(strings) + 1] = string
      /\ \A k \in 1 .. Len(strings) : s[k] = strings[k]
      /\ Len(strings) \in Nat
  BY <1>4
<1> HIDE DEF t, s
<1>7. ASSUME NEW k \in 1 .. Len(s) PROVE t[k].uri = UriOptionsFromString(s[k])
  <2>1. CASE k = Len(strings) + 1
    BY <1>2, <1>4, <1>5, <1>6, <2>1, Zenon
  <2>2. CASE k # Len(strings) + 1
    <3>1. k \in 1 .. Len(strings)
      BY <1>6, <2>2
    <3> QED BY <1>4, <1>5, <1>6, <3>1, Zenon
  <2> QED BY <2>1, <2>2
<1>8. t \in Seq([uri : Seq(Option), notifier : BOOLEAN, observers : U])
  BY <1>5, Zenon DEF T, TableOver
<1>9. Len(t) = Len(s)
  BY <1>4, <1>5, <1>6
<1>10. TableOf(t, s)
  BY <1>7, <1>8, <1>9, Zenon DEF TableOf
<1> QED BY <1>10, Zenon DEF t, s, r

\* Observers come and go, the paths stay.
LEMMA TableObservers ==
    ASSUME NEW table, NEW strings, TableOf(table, strings), NEW f,
           NEW new, new = [k \in DOMAIN table |-> [table[k] EXCEPT !.observers = f[k]]]
    PROVE  TableOf(new, strings)
<1>1. PICK S : table \in Seq([uri : Seq(Option), notifier : BOOLEAN, observers : S])
  BY Zenon DEF TableOf
<1> DEFINE R == [uri : Seq(Option), notifier : BOOLEAN, observers : S]
           U == {f[k] : k \in DOMAIN table}
           T == [uri : Seq(Option), notifier : BOOLEAN, observers : U]
           n == Len(table)
<1>2. DOMAIN table = 1 .. n /\ n \in Nat /\ \A k \in 1 .. n : table[k] \in R
  <2>1. table \in Seq(R)
    BY <1>1
  <2> HIDE DEF R
  <2> QED BY <2>1
<1>3. ASSUME NEW k \in 1 .. n PROVE new[k] \in T /\ new[k].uri = table[k].uri
  <2> DEFINE x == table[k]
             v == f[k]
  <2>1. x \in R /\ v \in U /\ new[k] = [x EXCEPT !.observers = v]
    BY <1>2, <1>3
  <2> HIDE DEF x, v, U
  <2>2. [x EXCEPT !.observers = v] \in T /\ [x EXCEPT !.observers = v].uri = x.uri
    BY <2>1
  <2> QED BY <2>1, <2>2, Zenon DEF x
<1>4. new \in Seq(T) /\ Len(new) = n
  <2>1. new = [k \in 1 .. n |-> new[k]]
    BY <1>2
  <2> HIDE DEF T
  <2>2. new \in [1 .. n -> T]
    BY <1>3, <2>1, Zenon
  <2> QED BY <1>2, <2>2
<1>5. Len(table) = Len(strings) /\ \A k \in 1 .. Len(strings) : table[k].uri = UriOptionsFromString(strings[k])
  BY Zenon DEF TableOf
<1> HIDE DEF U
<1>6. \A k \in 1 .. Len(strings) : new[k].uri = UriOptionsFromString(strings[k])
  BY <1>3, <1>5, Zenon
<1> QED BY <1>4, <1>5, <1>6, Zenon DEF TableOf

LEMMA TableObserversOf ==
    ASSUME NEW table, NEW strings, TableOf(table, strings), NEW i \in DOMAIN table, NEW v,
           NEW new, new = [table EXCEPT ![i].observers = v]
    PROVE  TableOf(new, strings)
<1> DEFINE f == [k \in DOMAIN table |-> IF k = i THEN v ELSE table[k].observers]
<1>1. PICK S : table \in Seq([uri : Seq(Option), notifier : BOOLEAN, observers : S])
  BY Zenon DEF TableOf
<1> DEFINE R == [uri : Seq(Option), notifier : BOOLEAN, observers : S]
<1>2. ASSUME NEW k \in DOMAIN table PROVE new[k] = [table[k] EXCEPT !.observers = f[k]]
  <2>1. CASE k = i
    BY <1>2, <2>1, Zenon
  <2>2. CASE k # i
    <3> DEFINE x == table[k]
    <3>1. x \in R
      <4>1. table \in Seq(R)
        BY <1>1
      <4> HIDE DEF R
      <4> QED BY <4>1
    <3>2. new[k] = x /\ f[k] = x.observers
      BY <2>2
    <3> HIDE DEF x, f
    <3>3. [x EXCEPT !.observers = x.observers] = x
      BY <3>1
    <3> QED BY <3>2, <3>3, Zenon DEF x
  <2> QED BY <2>1, <2>2
<1>3. new = [k \in DOMAIN table |-> new[k]]
  BY Zenon
<1> HIDE DEF f
<1>4. new = [k \in DOMAIN table |-> [table[k] EXCEPT !.observers = f[k]]]
  BY <1>2, <1>3, Zenon
<1>5. ASSUME NEW w, w = [k \in DOMAIN table |-> [table[k] EXCEPT !.observers = f[k]]]
      PROVE  TableOf(w, strings)
  BY <1>5, TableObservers, Zenon
<1> QED BY <1>4, <1>5, Zenon

LEMMA TableInit == Init => TableInv
<1> SUFFICES ASSUME Init PROVE TableInv
  OBVIOUS
<1>1. resources = << WellKnown >> /\ created = 0
  BY DEF Init
<1>2. 0 \in 0 .. Len(Application)
  BY ApplicationAssumption
<1> QED BY <1>1, <1>2, TableBegin, OfferedBegin, Zenon DEF TableInv

LEMMA TableStep == TableInv /\ [Next]_vars => TableInv'
<1> SUFFICES ASSUME TableInv, [Next]_vars PROVE TableInv'
  OBVIOUS
<1>1. created \in 0 .. Len(Application) /\ TableOf(resources, OfferedAfter(created))
  BY DEF TableInv
<1>2. ASSUME created' = created, TableOf(resources', OfferedAfter(created)) PROVE TableInv'
  BY <1>1, <1>2, Zenon DEF TableInv
<1>3. CASE CreateResource
  <2> DEFINE call == Application[created + 1]
  <2>1. /\ created' = created + 1 /\ created \in 0 .. Len(Application) - 1
        /\ created + 1 \in 0 .. Len(Application) /\ created + 1 \in 1 .. Len(Application)
    <3>1. created < Len(Application) /\ created' = created + 1
      BY <1>3 DEF CreateResource
    <3>2. Len(Application) \in Nat
      BY ApplicationAssumption
    <3> QED BY <1>1, <3>1, <3>2
  <2>2. resources' = IF call.methods = {} THEN resources
                     ELSE Append(resources, NewResource(call.Uri, call.notifier))
    BY <1>3, Zenon DEF CreateResource
  <2>3. call.Uri \in Seq(Byte) /\ call.notifier \in BOOLEAN
        /\ OfferedAfter(created) \in Seq(Seq(Byte))
    BY <1>1, <2>1, OfferedCallType, OfferedType
  <2>4. OfferedAfter(created + 1) = IF call.methods = {} THEN OfferedAfter(created)
                                    ELSE Append(OfferedAfter(created), call.Uri)
    BY <2>1, OfferedStep
  <2>5. TableOf(Append(resources, NewResource(call.Uri, call.notifier)),
                Append(OfferedAfter(created), call.Uri))
    <3> HIDE DEF call
    <3> QED BY <1>1, <2>3, TableAppend
  <2> HIDE DEF call
  <2>6. TableOf(resources', OfferedAfter(created + 1))
    BY <1>1, <2>2, <2>4, <2>5, Zenon
  <2> QED BY <2>1, <2>6, Zenon DEF TableInv
<1>4. ASSUME NEW client \in Clients, NEW uri \in Uris,
             HandleObservationInReq(client, UriOptionsFromString(uri))
      PROVE  TableInv'
  <2> DEFINE o == [Ep |-> client.Ep, socketHandle |-> client.socketHandle, Token |-> client.Token,
                   pOptList |-> <<Opt(OPT_NUM_OBSERVE, <<>>)>>
                       \o OptionsByNumber(UriOptionsFromString(uri), OPT_NUM_URI_QUERY)]
             v(k) == Append(OthersThan(o, resources[k].observers), o)
  <2>1. created' = created
    BY <1>4, Zenon DEF HandleObservationInReq, serving
  <2>2. PICK k \in FindResourceByUri(resources, UriOptionsFromString(uri)) :
            resources' = [resources EXCEPT ![k].observers = v(k)]
    BY <1>4, Zenon DEF HandleObservationInReq
  <2>3. k \in DOMAIN resources
    BY <2>2, Zenon DEF FindResourceByUri
  <2> HIDE DEF v
  <2>4. TableOf(resources', OfferedAfter(created))
    BY <1>1, <2>2, <2>3, TableObserversOf, Zenon
  <2> QED BY <1>2, <2>1, <2>4
<1>5. ASSUME NEW k \in DOMAIN resources, NEW j \in DOMAIN resources[k].observers, RemoveObserver(k, j)
      PROVE  TableInv'
  <2> DEFINE v == RemoveAt(resources[k].observers, j)
  <2>1. created' = created /\ resources' = [resources EXCEPT ![k].observers = v]
    BY <1>5, Zenon DEF RemoveObserver, serving
  <2> HIDE DEF v
  <2>2. TableOf(resources', OfferedAfter(created))
    BY <1>1, <2>1, TableObserversOf, Zenon
  <2> QED BY <1>2, <2>1, <2>2
<1>6. CASE NVsaveObservers
  <2>1. created' = created /\ resources' = resources
    BY <1>6, Zenon DEF NVsaveObservers
  <2> QED BY <1>1, <1>2, <2>1, Zenon
<1>7. CASE Restart
  <2>1. resources' = << WellKnown >> /\ created' = 0
    BY <1>7, Zenon DEF Restart
  <2>2. 0 \in 0 .. Len(Application)
    BY ApplicationAssumption
  <2> QED BY <2>1, <2>2, TableBegin, OfferedBegin, Zenon DEF TableInv
<1>8. CASE NVloadObservers
  <2>1. created' = created
    BY <1>8, Zenon DEF NVloadObservers
  <2>2. PICK lists : resources' = [k \in DOMAIN resources |->
                        [resources[k] EXCEPT !.observers = @ \o ObserversFrom(lists, k)]]
    BY <1>8, Zenon DEF NVloadObservers
  <2> DEFINE f == [k \in DOMAIN resources |-> resources[k].observers \o ObserversFrom(lists, k)]
  <2>3. resources' = [k \in DOMAIN resources |-> [resources[k] EXCEPT !.observers = f[k]]]
    BY <2>2, Zenon
  <2> HIDE DEF f
  <2>4. TableOf(resources', OfferedAfter(created))
    BY <1>1, <2>3, TableObservers, Zenon
  <2> QED BY <1>2, <2>1, <2>4
<1>9. CASE UNCHANGED vars
  <2>1. created' = created /\ resources' = resources
    BY <1>9 DEF vars
  <2> QED BY <1>1, <1>2, <2>1, Zenon
<1>10. CASE Next
  BY <1>3, <1>4, <1>5, <1>6, <1>7, <1>8, <1>10, Zenon DEF Next
<1> QED BY <1>9, <1>10

\* What a request finds.
LEMMA TableFinds ==
    ASSUME TableInv, NEW uri \in Seq(Byte)
    PROVE  /\ FindResourceByUri(resources, UriOptionsFromString(uri))
                = {k \in DOMAIN Offered :
                      /\ Path(Offered[k]) = Path(uri)
                      /\ \A j \in 1 .. k - 1 : Path(Offered[j]) # Path(uri)}
           /\ LET found == OptionsByNumber(UriOptionsFromString(uri), OPT_NUM_URI_QUERY)
              IN  [k \in DOMAIN found |-> found[k].Value] = Query(uri)
<1> DEFINE options == UriOptionsFromString(uri)
           strings == Offered
           n == Len(strings)
           M == {k \in 1 .. n : Path(strings[k]) = Path(uri)}
<1>0. OPT_NUM_URI_PATH \in UriNumbers /\ OPT_NUM_URI_QUERY \in UriNumbers
  BY DEF UriNumbers
<1>1. strings \in Seq(Seq(Byte)) /\ TableOf(resources, strings)
  BY OfferedIs, OfferedType, Zenon DEF TableInv
<1>2. /\ DOMAIN strings = 1 .. n /\ n \in Nat /\ \A k \in 1 .. n : strings[k] \in Seq(Byte)
  BY <1>1
<1>3. DOMAIN resources = 1 .. n /\ \A k \in 1 .. n : resources[k].uri = UriOptionsFromString(strings[k])
  <2>1. PICK S : resources \in Seq([uri : Seq(Option), notifier : BOOLEAN, observers : S])
    BY <1>1, Zenon DEF TableOf
  <2> DEFINE R == [uri : Seq(Option), notifier : BOOLEAN, observers : S]
  <2>2. DOMAIN resources = 1 .. Len(resources)
    <3>1. resources \in Seq(R)
      BY <2>1
    <3> HIDE DEF R
    <3> QED BY <3>1
  <2> QED BY <1>1, <2>2, Zenon DEF TableOf
<1> HIDE DEF strings, n
<1>4. ASSUME NEW k \in 1 .. n
      PROVE  UriOptionsAreEqual(resources[k].uri, options) <=> Path(strings[k]) = Path(uri)
  <2> DEFINE a == Path(strings[k])
             b == Path(uri)
  <2>1. a \in Seq(Seq(Byte)) /\ b \in Seq(Seq(Byte))
    BY <1>2, HalvesAre
  <2>2. /\ OptionsByNumber(resources[k].uri, OPT_NUM_URI_PATH) = OptsOf(OPT_NUM_URI_PATH, a)
        /\ OptionsByNumber(options, OPT_NUM_URI_PATH) = OptsOf(OPT_NUM_URI_PATH, b)
    BY <1>2, <1>3, UriOptions, Zenon
  <2> HIDE DEF a, b, options
  <2>3. OptsOf(OPT_NUM_URI_PATH, a) = OptsOf(OPT_NUM_URI_PATH, b) => a = b
    BY <1>0, <2>1, OptsOfInjective
  <2> QED BY <2>2, <2>3, Zenon DEF UriOptionsAreEqual, a, b
<1>5. FindResourceByUri(resources, options) = {k \in M : \A j \in M : k <= j}
  <2>1. {k \in DOMAIN resources : UriOptionsAreEqual(resources[k].uri, options)} = M
    BY <1>3, <1>4, Zenon
  <2> HIDE DEF M, options
  <2> QED BY <2>1, Zenon DEF FindResourceByUri
<1>6. {k \in M : \A j \in M : k <= j}
        = {k \in 1 .. n : Path(strings[k]) = Path(uri)
                          /\ \A j \in 1 .. k - 1 : Path(strings[j]) # Path(uri)}
  <2>1. \A k \in 1 .. n : (\A j \in M : k <= j) <=> \A j \in 1 .. k - 1 : Path(strings[j]) # Path(uri)
    <3> TAKE k \in 1 .. n
    <3>1. ASSUME \A j \in M : k <= j, NEW j \in 1 .. k - 1 PROVE Path(strings[j]) # Path(uri)
      <4>1. j \in 1 .. n /\ ~(k <= j)
        BY <1>2
      <4>2. j \notin M
        BY <3>1, <4>1, Zenon
      <4> QED BY <4>1, <4>2
    <3>2. ASSUME \A j \in 1 .. k - 1 : Path(strings[j]) # Path(uri), NEW j \in M PROVE k <= j
      <4>1. j \in 1 .. n /\ Path(strings[j]) = Path(uri)
        OBVIOUS
      <4>2. j \notin 1 .. k - 1
        BY <3>2, <4>1, Zenon
      <4> QED BY <1>2, <4>1, <4>2
    <3> QED BY <3>1, <3>2, Zenon
  <2> QED BY <2>1, Zenon
<1> DEFINE q == Query(uri)
           found == OptionsByNumber(options, OPT_NUM_URI_QUERY)
<1>7. found = OptsOf(OPT_NUM_URI_QUERY, q) /\ q \in Seq(Seq(Byte))
  BY UriOptions, HalvesAre
<1>8. [k \in DOMAIN found |-> found[k].Value] = q
  <2> HIDE DEF found, q
  <2>1. found \in Seq(Option) /\ Len(found) = Len(q)
        /\ \A k \in 1 .. Len(q) : found[k] = Opt(OPT_NUM_URI_QUERY, q[k])
    BY <1>0, <1>7, OptsOfType
  <2>2. DOMAIN found = 1 .. Len(q)
    BY <2>1
  <2>3. \A k \in 1 .. Len(q) : found[k].Value = q[k]
    <3> TAKE k \in 1 .. Len(q)
    <3>1. Opt(OPT_NUM_URI_QUERY, q[k]).Value = q[k]
      BY DEF Opt
    <3> QED BY <2>1, <3>1, Zenon
  <2>4. q = [k \in 1 .. Len(q) |-> q[k]]
    <3> DEFINE T == Seq(Byte)
    <3>1. q \in Seq(T)
      BY <1>7
    <3> HIDE DEF T
    <3> QED BY <3>1
  <2> QED BY <2>2, <2>3, <2>4, Zenon
<1> QED BY <1>2, <1>5, <1>6, <1>8, Zenon DEF options, strings, found, q

\* A request finds the resource that was created under its path, and no other,
\* however either side spells the path (coap_resource.c, CoAP_CreateResource and
\* CoAP_FindResourceByUri; CoAP_AppendUriOptionsFromString): for any strings, of
\* any length, in any state of the table, loads and restarts included.
THEOREM UriFinds == Spec => []UriFindsItsResource
<1>1. TableInv => UriFindsItsResource
  <2> SUFFICES ASSUME TableInv, NEW uri \in Uris
               PROVE  LET options == UriOptionsFromString(uri)
                      IN  /\ FindResourceByUri(resources, options)
                                = {k \in DOMAIN Offered :
                                      /\ Path(Offered[k]) = Path(uri)
                                      /\ \A j \in 1 .. k - 1 : Path(Offered[j]) # Path(uri)}
                          /\ [k \in DOMAIN OptionsByNumber(options, OPT_NUM_URI_QUERY) |->
                                  OptionsByNumber(options, OPT_NUM_URI_QUERY)[k].Value] = Query(uri)
    BY Zenon DEF UriFindsItsResource
  <2>1. uri \in Seq(Byte)
    BY UriAssumption
  <2> QED BY <2>1, TableFinds, Zenon
<1> QED BY <1>1, TableInit, TableStep, PTL DEF Spec

-----------------------------------------------------------------------------
(* Rows and their elements *)

Has(s, x) == \E i \in 1 .. Len(s) : s[i] = x

LEMMA HasConcat ==
    ASSUME NEW T, NEW s \in Seq(T), NEW t \in Seq(T), NEW x
    PROVE  Has(s \o t, x) <=> Has(s, x) \/ Has(t, x)
<1> DEFINE c == s \o t
           m == Len(s)
           n == Len(t)
<1>1. m \in Nat /\ n \in Nat
  OBVIOUS
<1>2. Follows(c, s, t, m, n, T)
  BY <1>1, ConcatFollows
<1>3. /\ Len(c) = m + n
      /\ \A k \in 1 .. m : c[k] = s[k]
      /\ \A k \in 1 .. n : c[m + k] = t[k]
  BY <1>2, Zenon DEF Follows
<1> HIDE DEF c, m, n
<1>4. ASSUME NEW i \in 1 .. m + n PROVE i \in 1 .. m \/ \E k \in 1 .. n : i = m + k
  <2>1. CASE i <= m
    BY <1>1, <2>1
  <2>2. CASE ~(i <= m)
    <3>1. i - m \in 1 .. n /\ i = m + (i - m)
      BY <1>1, <2>2
    <3> QED BY <3>1
  <2> QED BY <2>1, <2>2
<1>5. \A k \in 1 .. m : k \in 1 .. m + n
  BY <1>1
<1>6. \A k \in 1 .. n : m + k \in 1 .. m + n
  BY <1>1
<1>7. ASSUME Has(c, x) PROVE Has(s, x) \/ Has(t, x)
  <2>1. PICK i \in 1 .. m + n : c[i] = x
    BY <1>3, <1>7, Zenon DEF Has
  <2>2. CASE i \in 1 .. m
    BY <1>3, <2>1, <2>2, Zenon DEF Has, m
  <2>3. ASSUME NEW k \in 1 .. n, i = m + k PROVE Has(t, x)
    BY <1>3, <2>1, <2>3, Zenon DEF Has, n
  <2> QED BY <1>4, <2>1, <2>2, <2>3
<1>8. ASSUME Has(s, x) \/ Has(t, x) PROVE Has(c, x)
  BY <1>3, <1>5, <1>6, <1>8, Zenon DEF Has, m, n
<1> QED BY <1>7, <1>8 DEF c

\* The elements of a flattened sequence are those of its rows.
LEMMA FlattenHas ==
    ASSUME NEW T, NEW rows \in Seq(Seq(T)), NEW x
    PROVE  Has(FlattenSeq(rows), x) <=> \E k \in 1 .. Len(rows) : Has(rows[k], x)
<1> DEFINE n == Len(rows)
           u(k) == SubSeq(rows, 1, k)
           Q == {k \in 0 .. n : Has(FlattenSeq(u(k)), x) <=> \E i \in 1 .. k : Has(rows[i], x)}
           U == Seq(T)
<1>1. n \in Nat /\ u(0) = <<>> /\ u(n) = rows
  <2>1. rows \in Seq(U)
    OBVIOUS
  <2> HIDE DEF U
  <2> QED BY <2>1
<1>2. 0 \in Q
  <2>1. ~Has(<<>>, x)
    BY DEF Has
  <2>2. ~\E i \in 1 .. 0 : Has(rows[i], x)
    OBVIOUS
  <2>3. 0 \in 0 .. n
    BY <1>1
  <2> HIDE DEF u, n
  <2> QED BY <1>1, <2>1, <2>2, <2>3, FlattenEmpty, Zenon
<1>3. ASSUME NEW k \in 0 .. n - 1, k \in Q PROVE k + 1 \in Q
  <2>1. /\ u(k) \in Seq(U) /\ rows[k + 1] \in U
        /\ u(k + 1) = Append(u(k), rows[k + 1]) /\ k + 1 \in 0 .. n
    <3>1. rows \in Seq(U)
      OBVIOUS
    <3> HIDE DEF U
    <3> QED BY <3>1
  <2>2. Has(FlattenSeq(u(k)), x) <=> \E i \in 1 .. k : Has(rows[i], x)
    BY <1>3
  <2> DEFINE v == u(k)
             r == rows[k + 1]
  <2>3. v \in Seq(U) /\ r \in U
    BY <2>1
  <2> HIDE DEF u, v, r
  <2>4. FlattenSeq(Append(v, r)) = FlattenSeq(v) \o r /\ FlattenSeq(v) \in Seq(T)
    BY <2>3, FlattenAppend, FlattenType
  <2>5. Has(FlattenSeq(v) \o r, x) <=> Has(FlattenSeq(v), x) \/ Has(r, x)
    BY <2>3, <2>4, HasConcat
  <2>6. (\E i \in 1 .. k + 1 : Has(rows[i], x)) <=> (\E i \in 1 .. k : Has(rows[i], x)) \/ Has(r, x)
    <3>1. \A i : i \in 1 .. k + 1 <=> i \in 1 .. k \/ i = k + 1
      BY <1>1
    <3> QED BY <3>1, Zenon DEF r
  <2>7. Has(FlattenSeq(u(k + 1)), x) <=> \E i \in 1 .. k + 1 : Has(rows[i], x)
    BY <2>1, <2>2, <2>4, <2>5, <2>6, Zenon DEF v, r
  <2> QED BY <2>1, <2>7
<1>4. n \in Q
  <2> HIDE DEF Q, n, u
  <2>1. \A k \in 0 .. n : k \in Q
    BY <1>1, <1>2, <1>3, UpTo
  <2> QED BY <1>1, <2>1
<1> QED BY <1>1, <1>4, Zenon

\* What lies before a row, the row, and what lies behind it.
LEMMA FlattenSplit ==
    ASSUME NEW T, NEW rows \in Seq(Seq(T)), NEW k \in 1 .. Len(rows)
    PROVE  LET a == SubSeq(rows, 1, k - 1)
               b == SubSeq(rows, k + 1, Len(rows))
           IN  /\ a \in Seq(Seq(T)) /\ Len(a) = k - 1 /\ \A i \in 1 .. k - 1 : a[i] = rows[i]
               /\ b \in Seq(Seq(T))
               /\ rows[k] \in Seq(T) /\ FlattenSeq(a) \in Seq(T) /\ FlattenSeq(b) \in Seq(T)
               /\ FlattenSeq(rows) = (FlattenSeq(a) \o rows[k]) \o FlattenSeq(b)
<1> DEFINE U == Seq(T)
           n == Len(rows)
           a == SubSeq(rows, 1, k - 1)
           c == SubSeq(rows, 1, k)
           b == SubSeq(rows, k + 1, n)
           r == rows[k]
<1>1. /\ a \in Seq(U) /\ b \in Seq(U) /\ c \in Seq(U) /\ r \in U /\ n \in Nat
      /\ Len(a) = k - 1 /\ (\A i \in 1 .. k - 1 : a[i] = rows[i]) /\ c = Append(a, r) /\ k \in 0 .. n
  <2>1. rows \in Seq(U)
    OBVIOUS
  <2> HIDE DEF U
  <2> QED BY <2>1
<1>2. rows = c \o b
  <2>1. rows \in Seq(U)
    OBVIOUS
  <2> HIDE DEF U
  <2> QED BY <1>1, <2>1, SplitAt
<1> HIDE DEF a, b, c, r, n
<1>3. FlattenSeq(rows) = FlattenSeq(c) \o FlattenSeq(b)
  BY <1>1, <1>2, FlattenConcat
<1>4. FlattenSeq(c) = FlattenSeq(a) \o r
  BY <1>1, FlattenAppend
<1>5. FlattenSeq(a) \in U /\ FlattenSeq(b) \in U
  BY <1>1, FlattenType
<1> QED BY <1>1, <1>3, <1>4, <1>5, Zenon DEF a, b, r, n

LEMMA FlattenNone ==
    ASSUME NEW T, NEW rows \in Seq(Seq(T)), \A k \in 1 .. Len(rows) : rows[k] = <<>>
    PROVE  FlattenSeq(rows) = <<>>
<1> DEFINE f == FlattenSeq(rows)
<1>1. f \in Seq(T)
  BY FlattenType
<1>2. \A x : ~Has(f, x)
  <2> SUFFICES ASSUME NEW x, Has(f, x) PROVE FALSE
    OBVIOUS
  <2>1. PICK k \in 1 .. Len(rows) : Has(rows[k], x)
    BY FlattenHas
  <2>2. Has(<<>>, x)
    BY <2>1
  <2> QED BY <2>2 DEF Has
<1> HIDE DEF f
<1>3. f # <<>> => Has(f, f[1])
  BY <1>1 DEF Has
<1> QED BY <1>2, <1>3 DEF f

\* Rows as long as others are as long together.
LEMMA FlattenLens ==
    ASSUME NEW S, NEW T, NEW rows \in Seq(Seq(S)), NEW other \in Seq(Seq(T)),
           Len(rows) = Len(other), \A k \in 1 .. Len(rows) : Len(rows[k]) = Len(other[k])
    PROVE  Len(FlattenSeq(rows)) = Len(FlattenSeq(other))
<1> DEFINE n == Len(rows)
           u(k) == SubSeq(rows, 1, k)
           w(k) == SubSeq(other, 1, k)
           Q == {k \in 0 .. n : Len(FlattenSeq(u(k))) = Len(FlattenSeq(w(k)))}
           U == Seq(S)
           W == Seq(T)
<1>0. rows \in Seq(U) /\ other \in Seq(W)
  OBVIOUS
<1>1. n \in Nat /\ u(0) = <<>> /\ u(n) = rows /\ w(0) = <<>> /\ w(n) = other
  <2> HIDE DEF U, W
  <2> QED BY <1>0
<1>2. 0 \in Q
  <2>1. 0 \in 0 .. n
    BY <1>1
  <2> HIDE DEF u, w, n
  <2> QED BY <1>1, <2>1, FlattenEmpty, Zenon
<1>3. ASSUME NEW k \in 0 .. n - 1, k \in Q PROVE k + 1 \in Q
  <2>1. /\ u(k) \in Seq(U) /\ rows[k + 1] \in U /\ w(k) \in Seq(W) /\ other[k + 1] \in W
        /\ u(k + 1) = Append(u(k), rows[k + 1]) /\ w(k + 1) = Append(w(k), other[k + 1])
        /\ k + 1 \in 0 .. n /\ k + 1 \in 1 .. n
    <3> HIDE DEF U, W
    <3> QED BY <1>0
  <2>2. Len(FlattenSeq(u(k))) = Len(FlattenSeq(w(k)))
    BY <1>3
  <2> DEFINE v == u(k)
             r == rows[k + 1]
             v2 == w(k)
             r2 == other[k + 1]
  <2>3. v \in Seq(U) /\ r \in U /\ v2 \in Seq(W) /\ r2 \in W /\ Len(r) = Len(r2)
    BY <2>1
  <2> HIDE DEF u, v, r, w, v2, r2
  <2>4. FlattenSeq(Append(v, r)) = FlattenSeq(v) \o r /\ FlattenSeq(v) \in Seq(S)
    BY <2>3, FlattenAppend, FlattenType
  <2>5. FlattenSeq(Append(v2, r2)) = FlattenSeq(v2) \o r2 /\ FlattenSeq(v2) \in Seq(T)
    BY <2>3, FlattenAppend, FlattenType
  <2>6. Len(FlattenSeq(v) \o r) = Len(FlattenSeq(v)) + Len(r)
        /\ Len(FlattenSeq(v2) \o r2) = Len(FlattenSeq(v2)) + Len(r2)
    <3>1. r \in Seq(S) /\ r2 \in Seq(T)
      BY <2>3
    <3> QED BY <2>4, <2>5, <3>1
  <2>7. Len(FlattenSeq(u(k + 1))) = Len(FlattenSeq(w(k + 1)))
    BY <2>1, <2>2, <2>3, <2>4, <2>5, <2>6, Zenon DEF v, r, v2, r2
  <2> QED BY <2>1, <2>7
<1>4. n \in Q
  <2> HIDE DEF Q, n, u, w
  <2>1. \A k \in 0 .. n : k \in Q
    BY <1>1, <1>2, <1>3, UpTo
  <2> QED BY <1>1, <2>1
<1> QED BY <1>1, <1>4, Zenon

-----------------------------------------------------------------------------
(* The options of a record, sorted *)

SortedLists == {list \in Seq(Option) : Ascending(list)}
Add(list, o) == AppendOptionToList(list, o, TRUE)

Adds(g, opts) ==
    /\ g \in [0 .. Len(opts) -> SortedLists]
    /\ g[0] = <<>>
    /\ \A k \in 0 .. Len(opts) - 1 : g[k + 1] = Add(g[k], opts[k + 1])

LEMMA AddType ==
    ASSUME NEW list \in SortedLists, NEW o \in Option
    PROVE  Add(list, o) \in SortedLists
BY AppendOptionType DEF SortedLists, Add

LEMMA OptionsAreAdded ==
    ASSUME NEW opts \in Seq(Option)
    PROVE  \E g : Adds(g, opts) /\ FoldLeft(Add, <<>>, opts) = g[Len(opts)]
<1> DEFINE n == Len(opts)
           S == SortedLists
           base == <<>>
           step == [k \in 1 .. n |-> [s \in S |-> Add(s, opts[k])]]
           Def(g) == g = [s \in SUBSET (DOMAIN opts) |->
                            IF s = {} THEN base ELSE Add(g[s \ {Max(s)}], opts[Max(s)])]
           iter == CHOOSE g : Def(g)
<1>1. FoldLeft(Add, <<>>, opts) = iter[DOMAIN opts]
  BY Zenon DEF FoldLeft, MapThenFoldSet
<1>2. n \in Nat /\ DOMAIN opts = 1 .. n /\ \A k \in 1 .. n : opts[k] \in Option
  OBVIOUS
<1>3. base \in S
  BY DEF SortedLists, Ascending
<1>4. step \in [1 .. n -> [S -> S]]
      /\ \A k \in 1 .. n, s \in S : step[k][s] = Add(s, opts[k])
  <2>1. ASSUME NEW k \in 1 .. n, NEW s \in S PROVE Add(s, opts[k]) \in S
    BY <1>2, AddType
  <2>2. ASSUME NEW k \in 1 .. n
        PROVE  [s \in S |-> Add(s, opts[k])] \in [S -> S]
    BY <2>1, Zenon
  <2>3. step \in [1 .. n -> [S -> S]]
    BY <2>2, Zenon
  <2> QED BY <2>3, Zenon
<1> HIDE DEF step, base, S
<1>5. PICK h : Folds(h, n, S, base, step)
  <2> HIDE DEF n
  <2> QED BY <1>2, <1>3, <1>4, FoldExists
<1>6. ASSUME NEW s \in SUBSET (1 .. n), s # {} PROVE Max(s) \in 1 .. n
  BY <1>2, <1>6, MaxIs
<1>7. Def(h)
  <2>1. h \in [SUBSET (1 .. n) -> S]
    BY <1>5 DEF Folds
  <2>2. ASSUME NEW s \in SUBSET (1 .. n)
        PROVE  h[s] = IF s = {} THEN base ELSE Add(h[s \ {Max(s)}], opts[Max(s)])
    <3>1. h[s] = IF s = {} THEN base ELSE step[Max(s)][h[s \ {Max(s)}]]
      BY <1>5 DEF Folds
    <3>2. h[s \ {Max(s)}] \in S
      BY <2>1
    <3>3. CASE s = {}
      BY <3>1, <3>3, Zenon
    <3>4. CASE s # {}
      BY <1>4, <1>6, <3>1, <3>2, <3>4, Zenon
    <3> QED BY <3>3, <3>4
  <2>3. h = [s \in SUBSET (1 .. n) |-> h[s]]
    BY <2>1
  <2> HIDE DEF n
  <2>4. h = [s \in SUBSET (1 .. n) |-> IF s = {} THEN base ELSE Add(h[s \ {Max(s)}], opts[Max(s)])]
    BY <2>2, <2>3, Zenon
  <2> QED BY <1>2, <2>4, Zenon
<1>8. Def(iter)
  <2> HIDE DEF Def
  <2> QED BY <1>7, Zenon
<1> HIDE DEF iter
<1>9. ASSUME NEW s \in SUBSET (1 .. n)
      PROVE  iter[s] = IF s = {} THEN base ELSE Add(iter[s \ {Max(s)}], opts[Max(s)])
  <2> HIDE DEF n
  <2> QED BY <1>2, <1>8, Zenon
<1> DEFINE g == [k \in 0 .. n |-> iter[1 .. k]]
<1>10. g[0] = base
  <2>1. 1 .. 0 = {} /\ 0 \in 0 .. n /\ {} \in SUBSET (1 .. n)
    BY <1>2
  <2> QED BY <1>9, <2>1
<1>11. ASSUME NEW k \in 0 .. n - 1 PROVE g[k + 1] = Add(g[k], opts[k + 1])
  <2>1. 1 .. k + 1 \in SUBSET (1 .. n) /\ 1 .. k + 1 # {}
    <3>1. k + 1 \in 1 .. k + 1
      BY <1>2
    <3>2. \A x \in 1 .. k + 1 : x \in 1 .. n
      BY <1>2
    <3> QED BY <3>1, <3>2
  <2>2. Max(1 .. k + 1) = k + 1 /\ (1 .. k + 1) \ {k + 1} = 1 .. k
    <3>1. k \in Nat
      BY <1>2
    <3> QED BY <3>1, MaxUpTo
  <2>3. iter[1 .. k + 1] = Add(iter[1 .. k], opts[k + 1])
    BY <1>9, <2>1, <2>2, Zenon
  <2>4. k \in 0 .. n /\ k + 1 \in 0 .. n
    BY <1>2
  <2> QED BY <2>3, <2>4, Zenon
<1> HIDE DEF g
<1>12. \A k \in 0 .. n : g[k] \in S
  <2> DEFINE Q == {k \in 0 .. n : g[k] \in S}
  <2>1. 0 \in Q
    BY <1>2, <1>3, <1>10
  <2>2. ASSUME NEW k \in 0 .. n - 1, k \in Q PROVE k + 1 \in Q
    <3>1. k + 1 \in 0 .. n /\ opts[k + 1] \in Option
      BY <1>2
    <3>2. g[k] \in S
      BY <2>2
    <3> QED BY <1>11, <3>1, <3>2, AddType DEF S
  <2> HIDE DEF Q, n
  <2>3. \A k \in 0 .. n : k \in Q
    BY <1>2, <2>1, <2>2, UpTo
  <2> QED BY <2>3 DEF Q
<1>13. Adds(g, opts)
  <2>1. g \in [0 .. n -> S]
    <3>1. g = [k \in 0 .. n |-> g[k]]
      BY DEF g
    <3> HIDE DEF n
    <3> QED BY <1>12, <3>1, Zenon
  <2> QED BY <1>10, <1>11, <2>1 DEF Adds, base, S
<1>14. g[n] = iter[DOMAIN opts]
  BY <1>2 DEF g
<1> QED BY <1>1, <1>13, <1>14

\* Options of one number, which the parser takes.
Of(list, number) ==
    /\ list \in Seq(Option)
    /\ \A k \in 1 .. Len(list) :
          list[k].Number = number /\ Len(list[k].Value) <= MAX_OPTION_VALUE_SIZE

RunAt(opts, m, list) ==
    /\ m \in 0 .. Len(opts) /\ m + Len(list) <= Len(opts)
    /\ \A k \in 1 .. Len(list) : opts[m + k] = list[k]

RunFits(g, opts, m, list, number) ==
    /\ opts \in Seq(Option) /\ Adds(g, opts) /\ Of(list, number)
    /\ RunAt(opts, m, list) /\ AtMost(g[m], number)
RunAdded(g, m, list) == g[m + Len(list)] = g[m] \o list

\* Options that are not before any that is there go to the end, as they come.
LEMMA RunIsAdded ==
    ASSUME NEW g, NEW opts, NEW m, NEW list, NEW number, RunFits(g, opts, m, list, number)
    PROVE  RunAdded(g, m, list)
<1>0. /\ opts \in Seq(Option) /\ Adds(g, opts) /\ Of(list, number)
      /\ RunAt(opts, m, list) /\ AtMost(g[m], number)
  BY DEF RunFits
<1> DEFINE n == Len(list)
           u(k) == SubSeq(list, 1, k)
           b == g[m]
           Q == {k \in 0 .. n : g[m + k] = b \o u(k)}
<1>1. /\ n \in Nat /\ m \in Nat /\ m + n <= Len(opts) /\ Len(opts) \in Nat
      /\ list \in Seq(Option) /\ \A k \in 1 .. n : opts[m + k] = list[k] /\ list[k].Number = number
  BY <1>0 DEF Of, RunAt
<1>2. b \in Seq(Option) /\ \A k \in 1 .. Len(b) : b[k].Number <= number
  <2>1. m \in 0 .. Len(opts)
    BY <1>0 DEF RunAt
  <2>2. b \in SortedLists
    BY <1>0, <2>1 DEF Adds
  <2> QED BY <1>0, <2>2 DEF AtMost, SortedLists
<1>3. u(0) = <<>> /\ u(n) = list
  BY <1>1
<1> HIDE DEF b
<1>4. 0 \in Q
  <2>1. m + 0 = m /\ b \o <<>> = b /\ 0 \in 0 .. n
    BY <1>1, <1>2
  <2> HIDE DEF u, n
  <2> QED BY <1>3, <2>1, Zenon DEF b
<1>5. ASSUME NEW k \in 0 .. n - 1, k \in Q PROVE k + 1 \in Q
  <2>1. /\ u(k) \in Seq(Option) /\ Len(u(k)) = k /\ \A j \in 1 .. k : u(k)[j] = list[j]
    BY <1>1
  <2>2. u(k + 1) = Append(u(k), list[k + 1]) /\ list[k + 1] \in Option
    BY <1>1
  <2>3. k \in Nat /\ k + 1 \in 0 .. n /\ k + 1 \in 1 .. n /\ \A j \in 1 .. k : j \in 1 .. n
    BY <1>1
  <2>4. m + k \in 0 .. Len(opts) - 1 /\ m + (k + 1) = (m + k) + 1
    BY <1>1
  <2>5. g[m + k] = b \o u(k)
    BY <1>5
  <2> DEFINE v == u(k)
             x == list[k + 1]
             c == b \o v
  <2> HIDE DEF u, v, x, n, Q
  <2>6. g[m + (k + 1)] = Add(c, x)
    <3>1. opts[m + (k + 1)] = x
      BY <1>1, <2>3, Zenon DEF x
    <3>2. g[(m + k) + 1] = Add(g[m + k], opts[(m + k) + 1])
      BY <1>0, <2>4, Zenon DEF Adds
    <3> QED BY <2>4, <2>5, <3>1, <3>2, Zenon DEF c, v
  <2>7. v \in Seq(Option) /\ Len(v) = k /\ x \in Option /\ x.Number = number
        /\ \A j \in 1 .. k : v[j].Number = number
    BY <1>1, <2>1, <2>2, <2>3, Zenon DEF v, x
  <2>8. c \in Seq(Option) /\ \A j \in 1 .. Len(c) : c[j].Number <= number
    <3>1. Len(b) \in Nat
      BY <1>2
    <3> DEFINE l == Len(b)
    <3>2. Follows(c, b, v, l, k, Option)
      BY <1>2, <2>3, <2>7, <3>1, ConcatFollows DEF c
    <3>3. c \in Seq(Option) /\ Len(c) = l + k /\ (\A j \in 1 .. l : c[j] = b[j])
          /\ \A j \in 1 .. k : c[l + j] = v[j]
      BY <3>2, Zenon DEF Follows
    <3>4. number \in Nat
      BY <2>7, OptionType
    <3> HIDE DEF c, l
    <3>5. ASSUME NEW j \in 1 .. l + k PROVE c[j].Number <= number
      <4>1. CASE j <= l
        <5>1. j \in 1 .. l
          BY <3>1, <4>1 DEF l
        <5> QED BY <1>2, <3>3, <5>1 DEF l
      <4>2. CASE ~(j <= l)
        <5>1. j - l \in 1 .. k /\ j = l + (j - l)
          BY <2>3, <3>1, <4>2 DEF l
        <5>2. c[j].Number = number
          BY <2>7, <3>3, <5>1
        <5> QED BY <3>4, <5>2
      <4> QED BY <4>1, <4>2
    <3> QED BY <3>3, <3>5
  <2>9. Add(c, x) = Append(c, x)
    BY <2>7, <2>8, AppendAtEnd DEF Add
  <2>10. Append(c, x) = b \o Append(v, x)
    <3> DEFINE t == << x >>
    <3>1. t \in Seq(Option)
      BY <2>7
    <3> HIDE DEF t
    <3>2. (b \o v) \o t = b \o (v \o t)
      BY <1>2, <2>7, <3>1, Concat3
    <3>3. Append(c, x) = c \o t /\ Append(v, x) = v \o t
      BY <2>7, <2>8 DEF t
    <3> QED BY <3>2, <3>3, Zenon DEF c
  <2>11. g[m + (k + 1)] = b \o u(k + 1)
    BY <2>2, <2>6, <2>9, <2>10, Zenon DEF v, x
  <2> QED BY <2>3, <2>11 DEF Q
<1>6. n \in Q
  <2> HIDE DEF Q, n, u
  <2>1. \A k \in 0 .. n : k \in Q
    BY <1>1, <1>4, <1>5, UpTo
  <2> QED BY <1>1, <2>1
<1>7. g[m + n] = b \o u(n)
  <2> HIDE DEF u, n
  <2> QED BY <1>6 DEF Q
<1> QED BY <1>3, <1>7, Zenon DEF b, RunAdded

LEMMA SubSeqIs ==
    ASSUME NEW T, NEW s \in Seq(T), NEW a \in 1 .. Len(s), NEW b \in a .. Len(s)
    PROVE  /\ SubSeq(s, a, b) \in Seq(T) /\ Len(SubSeq(s, a, b)) = b - a + 1
           /\ \A k \in 1 .. b - a + 1 : SubSeq(s, a, b)[k] = s[a + k - 1]
OBVIOUS

LEMMA AtMostConcat ==
    ASSUME NEW a \in Seq(Option), NEW b \in Seq(Option), NEW number,
           AtMost(a, number), AtMost(b, number)
    PROVE  AtMost(a \o b, number)
<1> DEFINE c == a \o b
           m == Len(a)
           n == Len(b)
<1>1. m \in Nat /\ n \in Nat
  OBVIOUS
<1>2. Follows(c, a, b, m, n, Option)
  BY <1>1, ConcatFollows
<1>3. /\ Len(c) = m + n
      /\ \A k \in 1 .. m : c[k] = a[k]
      /\ \A k \in 1 .. n : c[m + k] = b[k]
  BY <1>2, Zenon DEF Follows
<1>4. /\ \A k \in 1 .. m : a[k].Number <= number
      /\ \A k \in 1 .. n : b[k].Number <= number
  BY DEF AtMost
<1> HIDE DEF c, m, n
<1>5. ASSUME NEW k \in 1 .. m + n PROVE c[k].Number <= number
  <2>1. CASE k <= m
    <3>1. k \in 1 .. m
      BY <1>1, <2>1
    <3> QED BY <1>3, <1>4, <3>1
  <2>2. CASE ~(k <= m)
    <3>1. k - m \in 1 .. n /\ k = m + (k - m)
      BY <1>1, <2>2
    <3> QED BY <1>3, <1>4, <3>1
  <2> QED BY <2>1, <2>2
<1> QED BY <1>3, <1>5 DEF AtMost, c

LEMMA OfAtMost ==
    ASSUME NEW list, NEW number \in Nat, NEW bound \in Nat, Of(list, number), number <= bound
    PROVE  AtMost(list, bound)
BY DEF Of, AtMost

LEMMA OneOf ==
    ASSUME NEW number \in Nat, number < Word, NEW value \in Seq(Byte), Len(value) <= 8
    PROVE  /\ Opt(number, value) \in Option
           /\ Of(<< Opt(number, value) >>, number)
           /\ Opt(number, value).Number = number /\ Opt(number, value).Value = value
<1> DEFINE x == Opt(number, value)
<1>0. number \in 0 .. Word - 1
  BY WordType
<1>1. x.Number = number /\ x.Value = value
  BY DEF Opt
<1>2. x \in Option
  BY <1>0 DEF Opt, Option
<1> HIDE DEF x
<1>3. Len(x.Value) <= MAX_OPTION_VALUE_SIZE
  BY <1>1 DEF MAX_OPTION_VALUE_SIZE
<1>4. << x >> \in Seq(Option) /\ Len(<< x >>) = 1 /\ << x >>[1] = x
  BY <1>2
<1>5. \A k \in 1 .. 1 : k = 1
  OBVIOUS
<1>6. Of(<< x >>, number)
  BY <1>1, <1>3, <1>4, <1>5, Zenon DEF Of
<1> QED BY <1>1, <1>2, <1>6, Zenon DEF x

HostOf(o) == Opt(OPT_NUM_URI_HOST, << o.Ep >>)
PortOf(o) == Opt(OPT_NUM_URI_PORT, << o.socketHandle >>)
ObserveOption == Opt(OPT_NUM_OBSERVE, <<>>)
TokenOf(o) == Opt(OPT_NUM_LOBARO_TOKEN_SAVE, SavedToken(o.Token))

\* An observer as a registration makes it, whose token a record has room for.
Saveable(o, query) ==
    /\ o \in Observer /\ Len(o.Token) <= 7
    /\ Of(query, OPT_NUM_URI_QUERY)
    /\ o.pOptList = << ObserveOption >> \o query

RecordOptions(o, path) ==
    << HostOf(o), PortOf(o) >> \o path \o o.pOptList \o << TokenOf(o) >>

\* The same options in the order of their numbers.
Layout(o, path, query) ==
    ((<< HostOf(o), ObserveOption, PortOf(o) >> \o path) \o query) \o << TokenOf(o) >>

LEMMA TokenStructIs ==
    ASSUME NEW token \in Seq(Byte), Len(token) <= 7
    PROVE  /\ SavedToken(token) \in Seq(Byte) /\ Len(SavedToken(token)) = 8
           /\ (SavedToken(token) \o << 0 >>)[1] = Len(token)
           /\ SubSeq(SavedToken(token) \o << 0 >>, 2, 1 + Len(token)) = token
<1> DEFINE n == Len(token)
           h == << n >>
           z == [i \in 1 .. 8 - n |-> 0]
           a == h \o token
           s == a \o z
           v == SubSeq(s, 1, 8)
           w == v \o << 0 >>
           r == SubSeq(w, 2, 1 + n)
<1>1. n \in 0 .. 7 /\ n \in Byte /\ 0 \in Byte
  <2>1. n \in Nat /\ n <= 7
    OBVIOUS
  <2> HIDE DEF n
  <2> QED BY <2>1 DEF Byte
<1>2. h \in Seq(Byte) /\ Len(h) = 1 /\ h[1] = n
  BY <1>1
<1>3. z \in Seq(Byte) /\ Len(z) = 8 - n
  BY <1>1
<1> HIDE DEF n, h, z
<1>4. Follows(a, h, token, 1, n, Byte)
  <2>1. 1 \in Nat /\ n \in Nat /\ Len(token) = n
    BY <1>1 DEF n
  <2> QED BY <1>2, <2>1, ConcatFollows, Zenon DEF a
<1>5. a \in Seq(Byte) /\ Len(a) = 1 + n /\ a[1] = n /\ \A k \in 1 .. n : a[1 + k] = token[k]
  <2>1. a \in Seq(Byte) /\ Len(a) = 1 + n /\ (\A k \in 1 .. 1 : a[k] = h[k])
        /\ \A k \in 1 .. n : a[1 + k] = token[k]
    BY <1>4, Zenon DEF Follows
  <2> HIDE DEF a
  <2> QED BY <1>2, <2>1
<1> HIDE DEF a
<1>6. s \in Seq(Byte) /\ Len(s) = 9 /\ \A k \in 1 .. 1 + n : s[k] = a[k]
  BY <1>1, <1>3, <1>5
<1> HIDE DEF s
<1>7. v \in Seq(Byte) /\ Len(v) = 8 /\ \A k \in 1 .. 8 : v[k] = s[k]
  <2>1. 1 \in 1 .. Len(s) /\ 8 \in 1 .. Len(s) /\ 8 - 1 + 1 = 8 /\ \A k \in 1 .. 8 : 1 + k - 1 = k
    BY <1>6
  <2>2. v \in Seq(Byte) /\ Len(v) = 8 - 1 + 1 /\ \A k \in 1 .. 8 - 1 + 1 : v[k] = s[1 + k - 1]
    <3> DEFINE lo == 1
               hi == 8
    <3>1. s \in Seq(Byte) /\ lo \in 1 .. Len(s) /\ hi \in lo .. Len(s)
      BY <1>6
    <3> HIDE DEF lo, hi
    <3>2. /\ SubSeq(s, lo, hi) \in Seq(Byte) /\ Len(SubSeq(s, lo, hi)) = hi - lo + 1
          /\ \A k \in 1 .. hi - lo + 1 : SubSeq(s, lo, hi)[k] = s[lo + k - 1]
      BY <3>1, SubSeqIs
    <3> QED BY <3>2, Zenon DEF lo, hi, v
  <2> HIDE DEF v
  <2> QED BY <2>1, <2>2
<1> HIDE DEF v
<1>8. w \in Seq(Byte) /\ Len(w) = 9 /\ \A k \in 1 .. 8 : w[k] = v[k]
  <2> DEFINE t == << 0 >>
  <2>1. t \in Seq(Byte) /\ Len(t) = 1
    BY <1>1
  <2> HIDE DEF t
  <2>2. Follows(v \o t, v, t, 8, 1, Byte)
    BY <1>7, <2>1, ConcatFollows
  <2>3. w = v \o t
    BY DEF w, t
  <2>4. w \in Seq(Byte) /\ Len(w) = 8 + 1 /\ \A k \in 1 .. 8 : w[k] = v[k]
    BY <2>2, <2>3, Zenon DEF Follows
  <2> QED BY <2>4
<1> HIDE DEF w
<1>9. w[1] = n /\ \A k \in 1 .. n : w[1 + k] = token[k]
  BY <1>1, <1>5, <1>6, <1>7, <1>8
<1>10. r \in Seq(Byte) /\ Len(r) = n /\ \A k \in 1 .. n : r[k] = w[k + 1]
  <2>1. CASE n = 0
    BY <1>8, <2>1
  <2>2. CASE n # 0
    <3>1. 2 \in 1 .. Len(w) /\ 1 + n \in 2 .. Len(w) /\ (1 + n) - 2 + 1 = n /\ \A k \in 1 .. n : 2 + k - 1 = k + 1
      BY <1>1, <1>8, <2>2
    <3>2. r \in Seq(Byte) /\ Len(r) = (1 + n) - 2 + 1
          /\ \A k \in 1 .. (1 + n) - 2 + 1 : r[k] = w[2 + k - 1]
      <4> DEFINE lo == 2
                 hi == 1 + n
      <4>1. w \in Seq(Byte) /\ lo \in 1 .. Len(w) /\ hi \in lo .. Len(w)
        BY <1>8, <3>1
      <4> HIDE DEF lo, hi
      <4>2. /\ SubSeq(w, lo, hi) \in Seq(Byte) /\ Len(SubSeq(w, lo, hi)) = hi - lo + 1
            /\ \A k \in 1 .. hi - lo + 1 : SubSeq(w, lo, hi)[k] = w[lo + k - 1]
        BY <4>1, SubSeqIs
      <4> QED BY <4>2, Zenon DEF lo, hi, r
    <3> HIDE DEF r
    <3> QED BY <3>1, <3>2
  <2> QED BY <2>1, <2>2
<1> HIDE DEF r
<1>11. Len(token) = n /\ \A k \in 1 .. n : r[k] = token[k]
  BY <1>1, <1>9, <1>10 DEF n
<1>12. r = token
  BY <1>10, <1>11
<1>13. SavedToken(token) = v
  BY Zenon DEF SavedToken, TokenStruct, v, s, a, h, z, n
<1> QED BY <1>7, <1>9, <1>12, <1>13, Zenon DEF w, r, n

LEMMA SaveableIs ==
    ASSUME NEW o, NEW query, Saveable(o, query)
    PROVE  /\ o.Ep \in Byte /\ o.socketHandle \in Byte /\ o.Token \in Seq(Byte) /\ Len(o.Token) <= 7
           /\ Of(<< HostOf(o) >>, OPT_NUM_URI_HOST) /\ HostOf(o) \in Option
           /\ HostOf(o).Number = OPT_NUM_URI_HOST
           /\ Of(<< PortOf(o) >>, OPT_NUM_URI_PORT) /\ PortOf(o) \in Option
           /\ PortOf(o).Number = OPT_NUM_URI_PORT
           /\ Of(<< ObserveOption >>, OPT_NUM_OBSERVE) /\ ObserveOption \in Option
           /\ ObserveOption.Number = OPT_NUM_OBSERVE
           /\ Of(<< TokenOf(o) >>, OPT_NUM_LOBARO_TOKEN_SAVE) /\ TokenOf(o) \in Option
           /\ TokenOf(o).Number = OPT_NUM_LOBARO_TOKEN_SAVE
           /\ query \in Seq(Option)
           /\ o = [Ep |-> o.Ep, socketHandle |-> o.socketHandle, Token |-> o.Token,
                   pOptList |-> o.pOptList]
<1>1. /\ o.Ep \in Byte /\ o.socketHandle \in Byte /\ o.Token \in Seq(Byte) /\ Len(o.Token) <= 7
      /\ query \in Seq(Option)
      /\ o = [Ep |-> o.Ep, socketHandle |-> o.socketHandle, Token |-> o.Token,
              pOptList |-> o.pOptList]
  BY DEF Saveable, Observer, Of
<1>2. \A b \in Byte : << b >> \in Seq(Byte) /\ Len(<< b >>) <= 8
  OBVIOUS
<1>3. <<>> \in Seq(Byte) /\ Len(<<>>) <= 8
  OBVIOUS
<1>4. SavedToken(o.Token) \in Seq(Byte) /\ Len(SavedToken(o.Token)) <= 8
  <2>1. SavedToken(o.Token) \in Seq(Byte) /\ Len(SavedToken(o.Token)) = 8
    BY <1>1, TokenStructIs, Zenon
  <2> QED BY <2>1
<1>5. /\ OPT_NUM_URI_HOST \in Nat /\ OPT_NUM_URI_HOST < Word
      /\ OPT_NUM_URI_PORT \in Nat /\ OPT_NUM_URI_PORT < Word
      /\ OPT_NUM_OBSERVE \in Nat /\ OPT_NUM_OBSERVE < Word
      /\ OPT_NUM_LOBARO_TOKEN_SAVE \in Nat /\ OPT_NUM_LOBARO_TOKEN_SAVE < Word
  BY DEF OPT_NUM_URI_HOST, OPT_NUM_URI_PORT, OPT_NUM_OBSERVE, OPT_NUM_LOBARO_TOKEN_SAVE, Word
<1>6. /\ Of(<< HostOf(o) >>, OPT_NUM_URI_HOST) /\ HostOf(o) \in Option
      /\ HostOf(o).Number = OPT_NUM_URI_HOST
  BY <1>1, <1>2, <1>5, OneOf, Zenon DEF HostOf
<1>7. /\ Of(<< PortOf(o) >>, OPT_NUM_URI_PORT) /\ PortOf(o) \in Option
      /\ PortOf(o).Number = OPT_NUM_URI_PORT
  BY <1>1, <1>2, <1>5, OneOf, Zenon DEF PortOf
<1>8. /\ Of(<< ObserveOption >>, OPT_NUM_OBSERVE) /\ ObserveOption \in Option
      /\ ObserveOption.Number = OPT_NUM_OBSERVE
  BY <1>3, <1>5, OneOf, Zenon DEF ObserveOption
<1>9. /\ Of(<< TokenOf(o) >>, OPT_NUM_LOBARO_TOKEN_SAVE) /\ TokenOf(o) \in Option
      /\ TokenOf(o).Number = OPT_NUM_LOBARO_TOKEN_SAVE
  BY <1>4, <1>5, OneOf, Zenon DEF TokenOf
<1> QED BY <1>1, <1>6, <1>7, <1>8, <1>9

LEMMA ConcatParts ==
    ASSUME NEW T, NEW s \in Seq(T), NEW t \in Seq(T)
    PROVE  SubSeq(s \o t, 1, Len(s)) = s /\ SubSeq(s \o t, Len(s) + 1, Len(s \o t)) = t
OBVIOUS

LEMMA Tuples ==
    ASSUME NEW T, NEW x \in T, NEW y \in T, NEW z \in T
    PROVE  << x >> \o << y >> = << x, y >> /\ << x, y >> \o << z >> = << x, y, z >>
<1> DEFINE a == << x >>
           b == << y >>
           c == << z >>
           d == << x, y >>
           e == a \o b
           f == d \o c
<1>1. a \in Seq(T) /\ Len(a) = 1 /\ a[1] = x /\ b \in Seq(T) /\ Len(b) = 1 /\ b[1] = y
      /\ c \in Seq(T) /\ Len(c) = 1 /\ c[1] = z
      /\ d \in Seq(T) /\ Len(d) = 2 /\ d[1] = x /\ d[2] = y
  OBVIOUS
<1> HIDE DEF a, b, c, d
<1>2. e \in Seq(T) /\ Len(e) = 2 /\ e[1] = x /\ e[2] = y
  <2>1. Follows(e, a, b, 1, 1, T)
    BY <1>1, ConcatFollows DEF e
  <2> HIDE DEF e
  <2>2. e \in Seq(T) /\ Len(e) = 1 + 1 /\ (\A k \in 1 .. 1 : e[k] = a[k]) /\ \A k \in 1 .. 1 : e[1 + k] = b[k]
    BY <2>1, Zenon DEF Follows
  <2> QED BY <1>1, <2>2
<1>3. f \in Seq(T) /\ Len(f) = 3 /\ f[1] = x /\ f[2] = y /\ f[3] = z
  <2>1. Follows(f, d, c, 2, 1, T)
    BY <1>1, ConcatFollows DEF f
  <2> HIDE DEF f
  <2>2. f \in Seq(T) /\ Len(f) = 2 + 1 /\ (\A k \in 1 .. 2 : f[k] = d[k]) /\ \A k \in 1 .. 1 : f[2 + k] = c[k]
    BY <2>1, Zenon DEF Follows
  <2> QED BY <1>1, <2>2
<1> HIDE DEF e, f
<1>4. e = << x, y >>
  BY <1>2
<1>5. f = << x, y, z >>
  BY <1>3
<1> QED BY <1>4, <1>5 DEF e, f, a, b, c, d

LEMMA RecordRuns ==
    ASSUME NEW o, NEW query, Saveable(o, query), NEW path, Of(path, OPT_NUM_URI_PATH),
           NEW opts, opts = RecordOptions(o, path), NEW n, n = Len(path), NEW m, m = Len(query)
    PROVE  /\ opts \in Seq(Option) /\ n \in Nat /\ m \in Nat /\ Len(opts) = 4 + n + m
           /\ RunAt(opts, 0, << HostOf(o) >>)
           /\ RunAt(opts, 1, << PortOf(o) >>)
           /\ RunAt(opts, 2, path)
           /\ opts[3 + n] = ObserveOption
           /\ RunAt(opts, 3 + n, query)
           /\ RunAt(opts, 3 + n + m, << TokenOf(o) >>)
<1> DEFINE H == HostOf(o)
           P == PortOf(o)
           O == ObserveOption
           T == TokenOf(o)
           hp == << H, P >>
           a == hp \o path
           ob == << O >>
           pl == ob \o query
           b == a \o pl
           t == << T >>
           c == b \o t
<1>1. H \in Option /\ P \in Option /\ O \in Option /\ T \in Option /\ query \in Seq(Option)
  BY SaveableIs, Zenon
<1>2. path \in Seq(Option) /\ n \in Nat /\ m \in Nat /\ Len(path) = n /\ Len(query) = m
  BY <1>1 DEF Of
<1> HIDE DEF H, P, O, T
<1>3. hp \in Seq(Option) /\ Len(hp) = 2 /\ hp[1] = H /\ hp[2] = P
  BY <1>1
<1>4. ob \in Seq(Option) /\ Len(ob) = 1 /\ ob[1] = O
  BY <1>1
<1>5. t \in Seq(Option) /\ Len(t) = 1 /\ t[1] = T
  BY <1>1
<1> HIDE DEF hp, ob, t
<1>6. Follows(a, hp, path, 2, n, Option)
  BY <1>2, <1>3, ConcatFollows, Zenon DEF a
<1>7. Follows(pl, ob, query, 1, m, Option)
  BY <1>1, <1>2, <1>4, ConcatFollows, Zenon DEF pl
<1>8. a \in Seq(Option) /\ Len(a) = 2 + n /\ (\A k \in 1 .. 2 : a[k] = hp[k]) /\ \A k \in 1 .. n : a[2 + k] = path[k]
  BY <1>6, Zenon DEF Follows
<1>9. pl \in Seq(Option) /\ Len(pl) = 1 + m /\ (\A k \in 1 .. 1 : pl[k] = ob[k]) /\ \A k \in 1 .. m : pl[1 + k] = query[k]
  BY <1>7, Zenon DEF Follows
<1> HIDE DEF a, pl
<1>10. 2 + n \in Nat /\ 1 + m \in Nat /\ (2 + n) + (1 + m) \in Nat
  BY <1>2
<1>11. Follows(b, a, pl, 2 + n, 1 + m, Option)
  BY <1>8, <1>9, <1>10, ConcatFollows, Zenon DEF b
<1>12. b \in Seq(Option) /\ Len(b) = (2 + n) + (1 + m) /\ (\A k \in 1 .. 2 + n : b[k] = a[k])
       /\ \A k \in 1 .. 1 + m : b[(2 + n) + k] = pl[k]
  BY <1>11, Zenon DEF Follows
<1> HIDE DEF b
<1>13. Follows(c, b, t, (2 + n) + (1 + m), 1, Option)
  BY <1>5, <1>10, <1>12, ConcatFollows, Zenon DEF c
<1>14. c \in Seq(Option) /\ Len(c) = ((2 + n) + (1 + m)) + 1 /\ (\A k \in 1 .. (2 + n) + (1 + m) : c[k] = b[k])
       /\ \A k \in 1 .. 1 : c[((2 + n) + (1 + m)) + k] = t[k]
  BY <1>13, Zenon DEF Follows
<1> HIDE DEF c
<1>15. c = opts
  BY Zenon DEF RecordOptions, Saveable, c, b, a, pl, t, ob, hp, H, P, O, T
<1>16. Len(c) = 4 + n + m
  BY <1>2, <1>14
<1>17. c[1] = H /\ c[2] = P
  <2>1. 1 \in 1 .. 2 + n /\ 2 \in 1 .. 2 + n /\ 1 \in 1 .. 2 /\ 2 \in 1 .. 2
        /\ 1 \in 1 .. (2 + n) + (1 + m) /\ 2 \in 1 .. (2 + n) + (1 + m)
    BY <1>2
  <2>2. c[1] = b[1] /\ c[2] = b[2]
    BY <1>14, <2>1, Zenon
  <2>3. b[1] = a[1] /\ b[2] = a[2]
    BY <1>12, <2>1, Zenon
  <2>4. a[1] = hp[1] /\ a[2] = hp[2]
    BY <1>8, <2>1, Zenon
  <2> QED BY <1>3, <2>2, <2>3, <2>4, Zenon
<1>18. ASSUME NEW k \in 1 .. n PROVE c[2 + k] = path[k]
  <2>1. 2 + k \in 1 .. 2 + n /\ 2 + k \in 1 .. (2 + n) + (1 + m)
    BY <1>2
  <2> QED BY <1>8, <1>12, <1>14, <2>1, SMTT(90)
<1>19. c[3 + n] = O
  <2>1. 1 \in 1 .. 1 /\ 1 \in 1 .. 1 + m /\ (2 + n) + 1 \in 1 .. (2 + n) + (1 + m) /\ (2 + n) + 1 = 3 + n
    BY <1>2
  <2>2. c[(2 + n) + 1] = O
    BY <1>4, <1>9, <1>12, <1>14, <2>1, Zenon
  <2> QED BY <2>1, <2>2
<1>20. ASSUME NEW k \in 1 .. m PROVE c[(3 + n) + k] = query[k]
  <2>1. 1 + k \in 1 .. 1 + m /\ (2 + n) + (1 + k) \in 1 .. (2 + n) + (1 + m) /\ (2 + n) + (1 + k) = (3 + n) + k
    BY <1>2
  <2>2. c[(2 + n) + (1 + k)] = query[k]
    BY <1>9, <1>12, <1>14, <2>1, SMTT(90)
  <2> QED BY <2>1, <2>2
<1>21. c[(3 + n + m) + 1] = T
  <2>1. 1 \in 1 .. 1 /\ ((2 + n) + (1 + m)) + 1 = (3 + n + m) + 1
    BY <1>2
  <2>2. c[((2 + n) + (1 + m)) + 1] = T
    BY <1>5, <1>14, <2>1, Zenon
  <2> QED BY <2>1, <2>2
<1>22. ASSUME NEW k \in 1 .. 1 PROVE k = 1
  OBVIOUS
<1>23. RunAt(c, 0, << H >>)
  <2>1. Len(<< H >>) = 1 /\ << H >>[1] = H /\ 0 \in 0 .. Len(c) /\ 0 + 1 <= Len(c) /\ 0 + 1 = 1
    BY <1>2, <1>16
  <2> QED BY <1>17, <1>22, <2>1 DEF RunAt
<1>24. RunAt(c, 1, << P >>)
  <2>1. Len(<< P >>) = 1 /\ << P >>[1] = P /\ 1 \in 0 .. Len(c) /\ 1 + 1 <= Len(c) /\ 1 + 1 = 2
    BY <1>2, <1>16
  <2> QED BY <1>17, <1>22, <2>1 DEF RunAt
<1>25. RunAt(c, 2, path)
  BY <1>2, <1>16, <1>18 DEF RunAt
<1>26. RunAt(c, 3 + n, query)
  BY <1>2, <1>16, <1>20 DEF RunAt
<1>27. RunAt(c, 3 + n + m, << T >>)
  <2>1. Len(<< T >>) = 1 /\ << T >>[1] = T /\ 3 + n + m \in 0 .. Len(c) /\ 3 + n + m + 1 <= Len(c)
    BY <1>2, <1>16
  <2> QED BY <1>21, <1>22, <2>1 DEF RunAt
<1> QED BY <1>2, <1>14, <1>15, <1>16, <1>19, <1>23, <1>24, <1>25, <1>26, <1>27, Zenon DEF H, P, O, T

LEMMA LayoutIs ==
    ASSUME NEW o, NEW query, Saveable(o, query), NEW path, Of(path, OPT_NUM_URI_PATH)
    PROVE  /\ FoldLeft(Add, <<>>, RecordOptions(o, path)) = Layout(o, path, query)
           /\ Layout(o, path, query) \in SortedLists
<1> DEFINE H == HostOf(o)
           P == PortOf(o)
           O == ObserveOption
           T == TokenOf(o)
           opts == RecordOptions(o, path)
           n == Len(path)
           m == Len(query)
<1>1. /\ Of(<< H >>, OPT_NUM_URI_HOST) /\ H \in Option /\ H.Number = OPT_NUM_URI_HOST
      /\ Of(<< P >>, OPT_NUM_URI_PORT) /\ P \in Option /\ P.Number = OPT_NUM_URI_PORT
      /\ O \in Option /\ O.Number = OPT_NUM_OBSERVE
      /\ Of(<< T >>, OPT_NUM_LOBARO_TOKEN_SAVE) /\ T \in Option
      /\ Of(query, OPT_NUM_URI_QUERY) /\ query \in Seq(Option)
      /\ Of(<< O >>, OPT_NUM_OBSERVE)
  BY SaveableIs, Zenon DEF Saveable
<1>2. path \in Seq(Option)
  BY DEF Of
<1>3. /\ opts \in Seq(Option) /\ n \in Nat /\ m \in Nat /\ Len(opts) = 4 + n + m
      /\ RunAt(opts, 0, << H >>)
      /\ RunAt(opts, 1, << P >>)
      /\ RunAt(opts, 2, path)
      /\ opts[3 + n] = O
      /\ RunAt(opts, 3 + n, query)
      /\ RunAt(opts, 3 + n + m, << T >>)
  BY RecordRuns, Zenon
<1> HIDE DEF H, P, O, T, opts, n, m
<1>4. PICK g : Adds(g, opts) /\ FoldLeft(Add, <<>>, opts) = g[Len(opts)]
  BY <1>3, OptionsAreAdded
<1>5. /\ OPT_NUM_URI_HOST \in Nat /\ OPT_NUM_URI_PORT \in Nat /\ OPT_NUM_URI_PATH \in Nat
      /\ OPT_NUM_OBSERVE \in Nat /\ OPT_NUM_URI_QUERY \in Nat /\ OPT_NUM_LOBARO_TOKEN_SAVE \in Nat
      /\ OPT_NUM_URI_HOST <= OPT_NUM_OBSERVE /\ OPT_NUM_URI_PORT > OPT_NUM_OBSERVE
      /\ OPT_NUM_URI_HOST <= OPT_NUM_URI_PORT /\ OPT_NUM_URI_PORT <= OPT_NUM_URI_PATH
      /\ OPT_NUM_OBSERVE <= OPT_NUM_URI_QUERY /\ OPT_NUM_URI_PATH <= OPT_NUM_URI_QUERY
      /\ OPT_NUM_URI_QUERY <= OPT_NUM_LOBARO_TOKEN_SAVE
      /\ OPT_NUM_URI_HOST <= OPT_NUM_URI_PATH /\ OPT_NUM_URI_HOST <= OPT_NUM_URI_QUERY
      /\ OPT_NUM_URI_PORT <= OPT_NUM_URI_QUERY /\ OPT_NUM_URI_HOST <= OPT_NUM_LOBARO_TOKEN_SAVE
      /\ OPT_NUM_URI_PORT <= OPT_NUM_LOBARO_TOKEN_SAVE /\ OPT_NUM_URI_PATH <= OPT_NUM_LOBARO_TOKEN_SAVE
      /\ OPT_NUM_OBSERVE <= OPT_NUM_LOBARO_TOKEN_SAVE
  BY DEF OPT_NUM_URI_HOST, OPT_NUM_URI_PORT, OPT_NUM_OBSERVE, OPT_NUM_LOBARO_TOKEN_SAVE,
         OPT_NUM_URI_PATH, OPT_NUM_URI_QUERY
<1> DEFINE h == << H >>
           p == << P >>
           ob == << O >>
           t == << T >>
           g2 == h \o p
           g3 == g2 \o path
           ho == h \o ob
           hop == ho \o p
           g4 == hop \o path
           g5 == g4 \o query
           g6 == g5 \o t
<1>6. h \in Seq(Option) /\ p \in Seq(Option) /\ ob \in Seq(Option) /\ t \in Seq(Option)
      /\ Len(h) = 1 /\ Len(p) = 1 /\ Len(t) = 1
  BY <1>1
<1>7. /\ Of(h, OPT_NUM_URI_HOST) /\ Of(p, OPT_NUM_URI_PORT) /\ Of(ob, OPT_NUM_OBSERVE)
      /\ Of(t, OPT_NUM_LOBARO_TOKEN_SAVE)
  BY <1>1, Zenon
<1> HIDE DEF h, p, ob, t
<1>8. g2 \in Seq(Option) /\ ho \in Seq(Option)
  BY <1>6
<1> HIDE DEF g2, ho
<1>9. g3 \in Seq(Option) /\ hop \in Seq(Option)
  BY <1>2, <1>6, <1>8
<1> HIDE DEF g3, hop
<1>10. g4 \in Seq(Option)
  BY <1>2, <1>9
<1> HIDE DEF g4
<1>11. g5 \in Seq(Option)
  BY <1>1, <1>10
<1> HIDE DEF g5
<1>12. g[1] = h
  <2>1. AtMost(g[0], OPT_NUM_URI_HOST) /\ g[0] = <<>>
    BY <1>4 DEF Adds, AtMost
  <2>2. g[0 + Len(h)] = g[0] \o h
    <3>1. opts \in Seq(Option) /\ Adds(g, opts) /\ RunAt(opts, 0, h) /\ Of(h, OPT_NUM_URI_HOST)
      BY <1>3, <1>4, <1>7, Zenon DEF h
    <3>2. RunFits(g, opts, 0, h, OPT_NUM_URI_HOST)
      BY <2>1, <3>1, Zenon DEF RunFits
    <3>3. RunAdded(g, 0, h)
      BY <3>2, RunIsAdded, Zenon
    <3> QED BY <3>3 DEF RunAdded
  <2>3. 0 + Len(h) = 1 /\ <<>> \o h = h
    BY <1>6
  <2> QED BY <2>1, <2>2, <2>3, Zenon
<1>13. g[2] = g2
  <2>1. AtMost(g[1], OPT_NUM_URI_PORT)
    BY <1>5, <1>7, <1>12, OfAtMost
  <2>2. g[1 + Len(p)] = g[1] \o p
    <3>1. opts \in Seq(Option) /\ Adds(g, opts) /\ RunAt(opts, 1, p) /\ Of(p, OPT_NUM_URI_PORT)
      BY <1>3, <1>4, <1>7, Zenon DEF p
    <3>2. RunFits(g, opts, 1, p, OPT_NUM_URI_PORT)
      BY <2>1, <3>1, Zenon DEF RunFits
    <3>3. RunAdded(g, 1, p)
      BY <3>2, RunIsAdded, Zenon
    <3> QED BY <3>3 DEF RunAdded
  <2>3. 1 + Len(p) = 2
    BY <1>6
  <2> QED BY <1>12, <2>2, <2>3, Zenon DEF g2
<1>14. g[2 + n] = g3
  <2>1. AtMost(h, OPT_NUM_URI_PATH) /\ AtMost(p, OPT_NUM_URI_PATH)
    BY <1>5, <1>7, OfAtMost
  <2>2. AtMost(g2, OPT_NUM_URI_PATH)
    BY <1>6, <2>1, AtMostConcat DEF g2
  <2>3. g[2 + Len(path)] = g[2] \o path
    <3>1. opts \in Seq(Option) /\ Adds(g, opts) /\ RunAt(opts, 2, path) /\ AtMost(g[2], OPT_NUM_URI_PATH)
      BY <1>3, <1>4, <1>13, <2>2, Zenon
    <3>2. RunFits(g, opts, 2, path, OPT_NUM_URI_PATH)
      BY <3>1, Zenon DEF RunFits
    <3>3. RunAdded(g, 2, path)
      BY <3>2, RunIsAdded, Zenon
    <3> QED BY <3>3 DEF RunAdded
  <2> QED BY <1>13, <2>3, Zenon DEF n, g3
<1>15. g[3 + n] = g4
  <2>1. g[(2 + n) + 1] = Add(g[2 + n], opts[(2 + n) + 1])
    <3>1. 2 + n \in 0 .. Len(opts) - 1
      BY <1>3
    <3> QED BY <1>4, <3>1, Zenon DEF Adds
  <2>2. (2 + n) + 1 = 3 + n
    BY <1>3
  <2>3. g[3 + n] = AppendOptionToList(g3, O, TRUE)
    BY <1>3, <1>14, <2>1, <2>2, Zenon DEF Add
  <2>4. PICK i \in 0 .. Len(g3) : InsertedAt(i, g3, O, AppendOptionToList(g3, O, TRUE))
    BY <1>1, <1>9, Inserted
  <2> DEFINE q == p \o path
  <2>5. g3 = h \o q
    <3>1. path \in Seq(Option) /\ h \in Seq(Option) /\ p \in Seq(Option)
      BY <1>2, <1>6
    <3>2. (h \o p) \o path = h \o (p \o path)
      BY <3>1, Concat3
    <3> QED BY <3>2, Zenon DEF g3, g2, q
  <2>6. q \in Seq(Option) /\ Len(q) = 1 + n /\ q[1] = P
    BY <1>2, <1>6 DEF p, n
  <2> HIDE DEF q
  <2>7. Len(g3) = 2 + n /\ g3[1] = H /\ g3[2] = P
    <3>1. Follows(g3, h, q, 1, 1 + n, Option)
      <4>1. 1 + n \in Nat /\ 1 \in Nat
        BY <1>3
      <4> QED BY <1>6, <2>5, <2>6, <4>1, ConcatFollows, Zenon
    <3>2. Len(g3) = 1 + (1 + n) /\ (\A k \in 1 .. 1 : g3[k] = h[k]) /\ \A k \in 1 .. 1 + n : g3[1 + k] = q[k]
      BY <3>1, Zenon DEF Follows
    <3>3. 1 \in 1 .. 1 /\ 1 \in 1 .. 1 + n /\ 1 + 1 = 2 /\ 1 + (1 + n) = 2 + n
      BY <1>3
    <3>4. g3[1] = h[1] /\ g3[1 + 1] = q[1]
      BY <3>2, <3>3, Zenon
    <3>5. h[1] = H
      BY DEF h
    <3> QED BY <2>6, <3>2, <3>3, <3>4, <3>5
  <2>8. i = 1
    <3>1. /\ \A k \in 1 .. i : g3[k].Number <= O.Number
          /\ i < Len(g3) => g3[i + 1].Number > O.Number
      BY <2>4, Zenon DEF InsertedAt
    <3>2. g3[1].Number = OPT_NUM_URI_HOST /\ g3[2].Number = OPT_NUM_URI_PORT
      BY <1>1, <2>7
    <3>3. i # 0
      <4> SUFFICES ASSUME i = 0 PROVE FALSE
        OBVIOUS
      <4>1. i < Len(g3) /\ i + 1 = 1
        BY <1>3, <2>7
      <4>2. OPT_NUM_URI_HOST > OPT_NUM_OBSERVE
        BY <1>1, <3>1, <3>2, <4>1
      <4> QED BY <1>5, <4>2
    <3>4. ~(i >= 2)
      <4> SUFFICES ASSUME i >= 2 PROVE FALSE
        OBVIOUS
      <4>1. 2 \in 1 .. i
        BY <1>3, <2>7
      <4>2. OPT_NUM_URI_PORT <= OPT_NUM_OBSERVE
        BY <1>1, <3>1, <3>2, <4>1
      <4> QED BY <1>5, <4>2
    <3> QED BY <3>3, <3>4, <1>3, <2>7
  <2>9. g[3 + n] = (SubSeq(g3, 1, 1) \o << O >>) \o SubSeq(g3, 1 + 1, Len(g3))
    BY <2>3, <2>4, <2>8, Zenon DEF InsertedAt
  <2>10. SubSeq(g3, 1, 1) = h /\ SubSeq(g3, 1 + 1, Len(g3)) = q
    <3>1. SubSeq(h \o q, 1, Len(h)) = h /\ SubSeq(h \o q, Len(h) + 1, Len(h \o q)) = q
      BY <1>6, <2>6, ConcatParts
    <3> QED BY <1>6, <2>5, <3>1, Zenon
  <2>11. (ho \o p) \o path = ho \o (p \o path)
    <3>1. path \in Seq(Option) /\ ho \in Seq(Option) /\ p \in Seq(Option)
      BY <1>2, <1>6, <1>8
    <3> QED BY <3>1, Concat3
  <2> QED BY <2>9, <2>10, <2>11, Zenon DEF ob, ho, hop, g4, q
<1>16. AtMost(hop, OPT_NUM_URI_QUERY) /\ AtMost(hop, OPT_NUM_LOBARO_TOKEN_SAVE)
  <2>1. /\ AtMost(h, OPT_NUM_URI_QUERY) /\ AtMost(ob, OPT_NUM_URI_QUERY) /\ AtMost(p, OPT_NUM_URI_QUERY)
        /\ AtMost(h, OPT_NUM_LOBARO_TOKEN_SAVE) /\ AtMost(ob, OPT_NUM_LOBARO_TOKEN_SAVE)
        /\ AtMost(p, OPT_NUM_LOBARO_TOKEN_SAVE)
    BY <1>5, <1>7, OfAtMost
  <2>2. AtMost(ho, OPT_NUM_URI_QUERY) /\ AtMost(ho, OPT_NUM_LOBARO_TOKEN_SAVE)
    BY <1>6, <2>1, AtMostConcat DEF ho
  <2> QED BY <1>6, <1>8, <2>1, <2>2, AtMostConcat DEF hop
<1>17. AtMost(path, OPT_NUM_URI_QUERY) /\ AtMost(path, OPT_NUM_LOBARO_TOKEN_SAVE)
       /\ AtMost(query, OPT_NUM_LOBARO_TOKEN_SAVE)
  BY <1>1, <1>5, OfAtMost
<1>18. AtMost(g4, OPT_NUM_URI_QUERY) /\ AtMost(g4, OPT_NUM_LOBARO_TOKEN_SAVE)
  BY <1>2, <1>9, <1>16, <1>17, AtMostConcat DEF g4
<1>19. g[3 + n + m] = g5
  <2>1. g[(3 + n) + m] = g[3 + n] \o query
    <3>1. /\ opts \in Seq(Option) /\ Adds(g, opts) /\ RunAt(opts, 3 + n, query)
          /\ AtMost(g[3 + n], OPT_NUM_URI_QUERY) /\ Of(query, OPT_NUM_URI_QUERY)
      BY <1>1, <1>3, <1>4, <1>15, <1>18, Zenon
    <3>2. RunFits(g, opts, 3 + n, query, OPT_NUM_URI_QUERY)
      BY <3>1, Zenon DEF RunFits
    <3>3. RunAdded(g, 3 + n, query)
      BY <3>2, RunIsAdded, Zenon
    <3> QED BY <3>3 DEF RunAdded, m
  <2> QED BY <1>15, <2>1, Zenon DEF g5
<1>20. g[4 + n + m] = g6
  <2>1. AtMost(g5, OPT_NUM_LOBARO_TOKEN_SAVE)
    BY <1>1, <1>10, <1>17, <1>18, AtMostConcat DEF g5
  <2>2. g[(3 + n + m) + Len(t)] = g[3 + n + m] \o t
    <3>1. /\ opts \in Seq(Option) /\ Adds(g, opts) /\ RunAt(opts, 3 + n + m, t)
          /\ AtMost(g[3 + n + m], OPT_NUM_LOBARO_TOKEN_SAVE) /\ Of(t, OPT_NUM_LOBARO_TOKEN_SAVE)
      BY <1>3, <1>4, <1>7, <1>19, <2>1, Zenon DEF t
    <3>2. RunFits(g, opts, 3 + n + m, t, OPT_NUM_LOBARO_TOKEN_SAVE)
      BY <3>1, Zenon DEF RunFits
    <3>3. RunAdded(g, 3 + n + m, t)
      BY <3>2, RunIsAdded, Zenon
    <3> QED BY <3>3 DEF RunAdded
  <2>3. (3 + n + m) + Len(t) = 4 + n + m
    BY <1>3, <1>6
  <2> QED BY <1>19, <2>2, <2>3, Zenon DEF g6
<1>21. hop = << H, O, P >>
  <2>1. h \o ob = << H, O >>
    BY <1>1, Tuples, Zenon DEF h, ob
  <2>2. << H, O >> \o p = << H, O, P >>
    BY <1>1, Tuples, Zenon DEF p
  <2> QED BY <2>1, <2>2, Zenon DEF hop, ho
<1>22. g6 = Layout(o, path, query)
  BY <1>21, Zenon DEF Layout, g6, g5, g4, t, H, O, P, T
<1>23. g[Len(opts)] \in SortedLists
  <2>1. Len(opts) \in 0 .. Len(opts)
    BY <1>3
  <2> QED BY <1>4, <2>1, Zenon DEF Adds
<1> QED BY <1>3, <1>4, <1>20, <1>22, <1>23, Zenon DEF opts

Picked(list, number, numbers) == IF number \in numbers THEN list ELSE <<>>

LEMMA AmongOf ==
    ASSUME NEW list, NEW number, Of(list, number), NEW numbers
    PROVE  /\ OptionsAmong(list, numbers) = Picked(list, number, numbers)
           /\ Picked(list, number, numbers) \in Seq(Option)
<1>1. list \in Seq(Option) /\ \A k \in 1 .. Len(list) : list[k].Number = number
  BY DEF Of
<1>2. CASE number \in numbers
  <2>1. \A k \in 1 .. Len(list) : list[k].Number \in numbers
    BY <1>1, <1>2, Zenon
  <2> QED BY <1>1, <1>2, <2>1, AmongAll DEF Picked
<1>3. CASE number \notin numbers
  <2>1. \A k \in 1 .. Len(list) : list[k].Number \notin numbers
    BY <1>1, <1>3, Zenon
  <2> QED BY <1>1, <1>3, <2>1, AmongNone DEF Picked
<1> QED BY <1>2, <1>3

LEMMA LayoutAmong ==
    ASSUME NEW o, NEW query, Saveable(o, query), NEW path, Of(path, OPT_NUM_URI_PATH), NEW numbers
    PROVE  OptionsAmong(Layout(o, path, query), numbers)
             = ((((Picked(<< HostOf(o) >>, OPT_NUM_URI_HOST, numbers)
                   \o Picked(<< ObserveOption >>, OPT_NUM_OBSERVE, numbers))
                  \o Picked(<< PortOf(o) >>, OPT_NUM_URI_PORT, numbers))
                 \o Picked(path, OPT_NUM_URI_PATH, numbers))
                \o Picked(query, OPT_NUM_URI_QUERY, numbers))
               \o Picked(<< TokenOf(o) >>, OPT_NUM_LOBARO_TOKEN_SAVE, numbers)
<1> DEFINE H == HostOf(o)
           P == PortOf(o)
           O == ObserveOption
           T == TokenOf(o)
           h == << H >>
           p == << P >>
           ob == << O >>
           t == << T >>
           ho == h \o ob
           hop == ho \o p
           g4 == hop \o path
           g5 == g4 \o query
           g6 == g5 \o t
           Among(list) == OptionsAmong(list, numbers)
<1>1. /\ Of(h, OPT_NUM_URI_HOST) /\ H \in Option
      /\ Of(p, OPT_NUM_URI_PORT) /\ P \in Option
      /\ Of(ob, OPT_NUM_OBSERVE) /\ O \in Option
      /\ Of(t, OPT_NUM_LOBARO_TOKEN_SAVE) /\ T \in Option
      /\ Of(query, OPT_NUM_URI_QUERY)
  BY SaveableIs, Zenon DEF Saveable
<1> HIDE DEF H, P, O, T
<1>2. << H, O, P >> = hop
  BY <1>1, Tuples, Zenon DEF hop, ho, h, p, ob
<1>3. /\ h \in Seq(Option) /\ p \in Seq(Option) /\ ob \in Seq(Option) /\ t \in Seq(Option)
      /\ path \in Seq(Option) /\ query \in Seq(Option)
  BY <1>1, Zenon DEF Of
<1>4. Layout(o, path, query) = g6
  BY <1>2, Zenon DEF Layout, g6, g5, g4, t, H, O, P, T
<1>5. /\ Among(h) = Picked(h, OPT_NUM_URI_HOST, numbers)
      /\ Among(ob) = Picked(ob, OPT_NUM_OBSERVE, numbers)
      /\ Among(p) = Picked(p, OPT_NUM_URI_PORT, numbers)
      /\ Among(path) = Picked(path, OPT_NUM_URI_PATH, numbers)
      /\ Among(query) = Picked(query, OPT_NUM_URI_QUERY, numbers)
      /\ Among(t) = Picked(t, OPT_NUM_LOBARO_TOKEN_SAVE, numbers)
  BY <1>1, AmongOf, Zenon
<1> HIDE DEF h, p, ob, t
<1>6. ho \in Seq(Option) /\ Among(ho) = Among(h) \o Among(ob)
  <2>1. ho \in Seq(Option)
    BY <1>3
  <2>2. OptionsAmong(h \o ob, numbers) = OptionsAmong(h, numbers) \o OptionsAmong(ob, numbers)
    <3>1. h \in Seq(Option) /\ ob \in Seq(Option)
      BY <1>3
    <3> QED BY <3>1, AmongConcat
  <2> QED BY <2>1, <2>2, Zenon DEF ho
<1> HIDE DEF ho
<1>7. hop \in Seq(Option) /\ Among(hop) = Among(ho) \o Among(p)
  <2>1. hop \in Seq(Option)
    BY <1>3, <1>6
  <2>2. OptionsAmong(ho \o p, numbers) = OptionsAmong(ho, numbers) \o OptionsAmong(p, numbers)
    BY <1>3, <1>6, AmongConcat, Zenon
  <2> QED BY <2>1, <2>2, Zenon DEF hop
<1> HIDE DEF hop
<1>8. g4 \in Seq(Option) /\ Among(g4) = Among(hop) \o Among(path)
  <2>1. g4 \in Seq(Option)
    BY <1>3, <1>7
  <2>2. OptionsAmong(hop \o path, numbers) = OptionsAmong(hop, numbers) \o OptionsAmong(path, numbers)
    BY <1>3, <1>7, AmongConcat, ZenonT(90)
  <2> QED BY <2>1, <2>2, Zenon DEF g4
<1> HIDE DEF g4
<1>9. g5 \in Seq(Option) /\ Among(g5) = Among(g4) \o Among(query)
  <2>1. g5 \in Seq(Option)
    BY <1>3, <1>8
  <2>2. OptionsAmong(g4 \o query, numbers) = OptionsAmong(g4, numbers) \o OptionsAmong(query, numbers)
    BY <1>3, <1>8, AmongConcat, ZenonT(90)
  <2> QED BY <2>1, <2>2, Zenon DEF g5
<1> HIDE DEF g5
<1>10. Among(g6) = Among(g5) \o Among(t)
  BY <1>3, <1>9, AmongConcat
<1> QED BY <1>4, <1>5, <1>6, <1>7, <1>8, <1>9, <1>10, Zenon DEF h, p, ob, t, H, P, O, T

LEMMA Nothing ==
    ASSUME NEW s \in Seq(Option)
    PROVE  s \o <<>> = s /\ <<>> \o s = s
OBVIOUS

\* What is found in a record.
LEMMA LayoutHas ==
    ASSUME NEW o, NEW query, Saveable(o, query), NEW path, Of(path, OPT_NUM_URI_PATH)
    PROVE  LET list == Layout(o, path, query) IN
           /\ OptionsByNumber(list, OPT_NUM_URI_HOST) = << HostOf(o) >>
           /\ OptionsByNumber(list, OPT_NUM_URI_PORT) = << PortOf(o) >>
           /\ OptionsByNumber(list, OPT_NUM_LOBARO_TOKEN_SAVE) = << TokenOf(o) >>
           /\ OptionsByNumber(list, OPT_NUM_URI_PATH) = path
           /\ OptionsAmong(list, Nat \ {OPT_NUM_URI_HOST, OPT_NUM_URI_PORT, OPT_NUM_URI_PATH,
                                        OPT_NUM_LOBARO_TOKEN_SAVE}) = o.pOptList
<1> DEFINE list == Layout(o, path, query)
           h == << HostOf(o) >>
           p == << PortOf(o) >>
           ob == << ObserveOption >>
           t == << TokenOf(o) >>
           Six(a, b, c, d, e, f) == ((((a \o b) \o c) \o d) \o e) \o f
           Split(numbers) ==
               Six(Picked(h, OPT_NUM_URI_HOST, numbers), Picked(ob, OPT_NUM_OBSERVE, numbers),
                   Picked(p, OPT_NUM_URI_PORT, numbers), Picked(path, OPT_NUM_URI_PATH, numbers),
                   Picked(query, OPT_NUM_URI_QUERY, numbers),
                   Picked(t, OPT_NUM_LOBARO_TOKEN_SAVE, numbers))
           e == <<>>
<1>1. /\ h \in Seq(Option) /\ p \in Seq(Option) /\ ob \in Seq(Option) /\ t \in Seq(Option)
      /\ path \in Seq(Option) /\ query \in Seq(Option) /\ o.pOptList = ob \o query
  BY SaveableIs DEF Saveable, Of
<1>2. \A numbers : OptionsAmong(list, numbers) = Split(numbers)
  BY LayoutAmong, Zenon
<1> HIDE DEF h, p, ob, t
<1>3. /\ Split({OPT_NUM_URI_HOST}) = Six(h, e, e, e, e, e)
      /\ Split({OPT_NUM_URI_PORT}) = Six(e, e, p, e, e, e)
      /\ Split({OPT_NUM_URI_PATH}) = Six(e, e, e, path, e, e)
      /\ Split({OPT_NUM_LOBARO_TOKEN_SAVE}) = Six(e, e, e, e, e, t)
      /\ Split(Nat \ {OPT_NUM_URI_HOST, OPT_NUM_URI_PORT, OPT_NUM_URI_PATH,
                      OPT_NUM_LOBARO_TOKEN_SAVE}) = Six(e, ob, e, e, query, e)
  <2> HIDE DEF Six
  <2> QED BY DEF Picked, OPT_NUM_URI_HOST, OPT_NUM_URI_PORT, OPT_NUM_OBSERVE, OPT_NUM_URI_PATH,
                 OPT_NUM_URI_QUERY, OPT_NUM_LOBARO_TOKEN_SAVE
<1>4. \A x \in Seq(Option) : x \o e = x /\ e \o x = x
  BY Nothing, Zenon
<1>5. e \in Seq(Option)
  OBVIOUS
<1> HIDE DEF e
<1>6. Six(h, e, e, e, e, e) = h
  <2>1. h \o e = h
    BY <1>1, <1>4, Zenon
  <2> QED BY <2>1, Zenon
<1>7. Six(e, e, p, e, e, e) = p
  <2>1. e \o e = e /\ e \o p = p /\ p \o e = p
    BY <1>1, <1>4, <1>5, Zenon
  <2> QED BY <2>1, Zenon
<1>8. Six(e, e, e, path, e, e) = path
  <2>1. e \o e = e /\ e \o path = path /\ path \o e = path
    BY <1>1, <1>4, <1>5, Zenon
  <2> QED BY <2>1, Zenon
<1>9. Six(e, e, e, e, e, t) = t
  <2>1. e \o e = e /\ e \o t = t
    BY <1>1, <1>4, <1>5, Zenon
  <2> QED BY <2>1, Zenon
<1>10. Six(e, ob, e, e, query, e) = ob \o query
  <2>1. ob \o query \in Seq(Option)
    BY <1>1
  <2>2. e \o ob = ob /\ ob \o e = ob /\ (ob \o query) \o e = ob \o query
    BY <1>1, <1>4, <2>1, Zenon
  <2> QED BY <2>2, Zenon
<1> HIDE DEF Six, Split
<1> QED BY <1>1, <1>2, <1>3, <1>6, <1>7, <1>8, <1>9, <1>10, Zenon DEF OptionsByNumber, h, p, t

LEMMA LayoutSorted ==
    ASSUME NEW o, NEW query, Saveable(o, query), NEW path, Of(path, OPT_NUM_URI_PATH)
    PROVE  Sorted(Layout(o, path, query)) /\ Layout(o, path, query) # <<>>
<1> DEFINE Short == {x \in Option : Len(x.Value) <= MAX_OPTION_VALUE_SIZE}
           H == HostOf(o)
           P == PortOf(o)
           O == ObserveOption
           T == TokenOf(o)
           h == << H >>
           p == << P >>
           ob == << O >>
           t == << T >>
           ho == h \o ob
           hop == ho \o p
           g4 == hop \o path
           g5 == g4 \o query
           g6 == g5 \o t
<1>1. /\ Of(h, OPT_NUM_URI_HOST) /\ H \in Option
      /\ Of(p, OPT_NUM_URI_PORT) /\ P \in Option
      /\ Of(ob, OPT_NUM_OBSERVE) /\ O \in Option
      /\ Of(t, OPT_NUM_LOBARO_TOKEN_SAVE) /\ T \in Option
      /\ Of(query, OPT_NUM_URI_QUERY)
  BY SaveableIs, Zenon DEF Saveable
<1>2. ASSUME NEW list, NEW number, Of(list, number) PROVE list \in Seq(Short)
  <2>1. list \in Seq(Option) /\ \A k \in 1 .. Len(list) : Len(list[k].Value) <= MAX_OPTION_VALUE_SIZE
    BY <1>2 DEF Of
  <2>2. \A k \in 1 .. Len(list) : list[k] \in Short
    BY <2>1
  <2> HIDE DEF Short
  <2> QED BY <2>1, <2>2
<1> HIDE DEF Short
<1>3. /\ h \in Seq(Short) /\ p \in Seq(Short) /\ ob \in Seq(Short) /\ t \in Seq(Short)
      /\ path \in Seq(Short) /\ query \in Seq(Short)
  BY <1>1, <1>2, Zenon
<1> HIDE DEF H, P, O, T
<1>4. << H, O, P >> = hop
  BY <1>1, Tuples, Zenon DEF hop, ho, h, p, ob
<1>5. Layout(o, path, query) = g6
  BY <1>4, Zenon DEF Layout, g6, g5, g4, t, H, O, P, T
<1>6. Len(t) = 1
  OBVIOUS
<1> HIDE DEF h, p, ob, t
<1>7. ho \in Seq(Short)
  BY <1>3
<1> HIDE DEF ho
<1>8. hop \in Seq(Short)
  BY <1>3, <1>7
<1> HIDE DEF hop
<1>9. g4 \in Seq(Short)
  BY <1>3, <1>8
<1> HIDE DEF g4
<1>10. g5 \in Seq(Short)
  BY <1>3, <1>9
<1> HIDE DEF g5
<1>11. g6 \in Seq(Short) /\ g6 # <<>>
  <2>1. g6 \in Seq(Short) /\ Len(g6) = Len(g5) + Len(t)
    BY <1>3, <1>10
  <2>2. Len(g6) # 0
    BY <1>6, <1>10, <2>1
  <2> HIDE DEF g6
  <2> QED BY <2>1, <2>2
<1> HIDE DEF g6
<1>12. \A k \in 1 .. Len(g6) : Len(g6[k].Value) <= MAX_OPTION_VALUE_SIZE
  <2>1. \A k \in 1 .. Len(g6) : g6[k] \in Short
    BY <1>11
  <2> QED BY <2>1, Zenon DEF Short
<1>13. g6 \in Seq(Option) /\ Ascending(g6)
  BY <1>5, LayoutIs DEF SortedLists
<1> QED BY <1>5, <1>11, <1>12, <1>13, Zenon DEF Sorted

\* The observer that is made of a record.
LEMMA LayoutLoaded ==
    ASSUME NEW o, NEW query, Saveable(o, query), NEW path, Of(path, OPT_NUM_URI_PATH)
    PROVE  LoadedObserver(Layout(o, path, query)) = o
<1> DEFINE list == Layout(o, path, query)
           x == LoadedObserver(list)
<1>1. /\ OptionsByNumber(list, OPT_NUM_URI_HOST) = << HostOf(o) >>
      /\ OptionsByNumber(list, OPT_NUM_URI_PORT) = << PortOf(o) >>
      /\ OptionsByNumber(list, OPT_NUM_LOBARO_TOKEN_SAVE) = << TokenOf(o) >>
      /\ OptionsAmong(list, Nat \ {OPT_NUM_URI_HOST, OPT_NUM_URI_PORT, OPT_NUM_URI_PATH,
                                   OPT_NUM_LOBARO_TOKEN_SAVE}) = o.pOptList
  BY LayoutHas, Zenon
<1> HIDE DEF list
<1>2. ASSUME NEW y, NEW number, NEW default, OptionsByNumber(list, number) = << y >>
      PROVE  ValueOf(list, number, default) = y.Value
  <2>1. << y >> # <<>> /\ Len(<< y >>) = 1 /\ << y >>[1] = y
    OBVIOUS
  <2> QED BY <1>2, <2>1, Zenon DEF ValueOf
<1>3. HostOf(o).Value = << o.Ep >> /\ PortOf(o).Value = << o.socketHandle >>
      /\ TokenOf(o).Value = SavedToken(o.Token)
  BY DEF HostOf, PortOf, TokenOf, Opt
<1>4. /\ ValueOf(list, OPT_NUM_URI_HOST, << 0 >>) = << o.Ep >>
      /\ ValueOf(list, OPT_NUM_URI_PORT, << 0 >>) = << o.socketHandle >>
      /\ ValueOf(list, OPT_NUM_LOBARO_TOKEN_SAVE, TokenStruct(<<>>)) = SavedToken(o.Token)
  BY <1>1, <1>2, <1>3, Zenon
<1>5. << o.Ep >>[1] = o.Ep /\ << o.socketHandle >>[1] = o.socketHandle
  OBVIOUS
<1> DEFINE token == SavedToken(o.Token) \o << 0 >>
<1>6. token[1] = Len(o.Token) /\ SubSeq(token, 2, 1 + Len(o.Token)) = o.Token
  BY SaveableIs, TokenStructIs
<1> HIDE DEF token
<1>7. SubSeq(token, 2, 1 + token[1]) = o.Token
  BY <1>6, Zenon
<1>8. x = [Ep |-> o.Ep, socketHandle |-> o.socketHandle, Token |-> o.Token, pOptList |-> o.pOptList]
  BY <1>1, <1>4, <1>5, <1>7, Zenon DEF LoadedObserver, x, token
<1>9. o = [Ep |-> o.Ep, socketHandle |-> o.socketHandle, Token |-> o.Token, pOptList |-> o.pOptList]
  BY SaveableIs, Zenon
<1> QED BY <1>8, <1>9, Zenon DEF x, list

LEMMA RecordIs ==
    ASSUME NEW o, NEW query, Saveable(o, query), NEW path, Of(path, OPT_NUM_URI_PATH)
    PROVE  /\ ObserverRecord(o, path)
                = Append(PackOptionsFromList(Layout(o, path, query)), OPTION_PAYLOAD_MARKER)
           /\ ObserverRecord(o, path) \in Seq(Byte)
           /\ PackOptionsFromList(Layout(o, path, query)) \in Seq(Byte)
<1>1. ObserverRecord(o, path)
        = Append(PackOptionsFromList(FoldLeft(Add, <<>>, RecordOptions(o, path))), OPTION_PAYLOAD_MARKER)
  BY Zenon DEF ObserverRecord, RecordOptions, HostOf, PortOf, TokenOf, FoldLeft, MapThenFoldSet, Add
<1>2. FoldLeft(Add, <<>>, RecordOptions(o, path)) = Layout(o, path, query)
  BY LayoutIs, Zenon
<1>3. PackOptionsFromList(Layout(o, path, query)) \in Seq(Byte)
  BY LayoutIs, PackType DEF SortedLists
<1>4. OPTION_PAYLOAD_MARKER \in Byte
  BY DEF OPTION_PAYLOAD_MARKER, Byte
<1> DEFINE raw == PackOptionsFromList(Layout(o, path, query))
<1>5. Append(raw, OPTION_PAYLOAD_MARKER) \in Seq(Byte)
  <2> HIDE DEF raw
  <2> QED BY <1>3, <1>4 DEF raw
<1> QED BY <1>1, <1>2, <1>3, <1>5, Zenon

\* An observer is read back from its record, whatever follows the record
\* (coap_resource.c: CoAP_NVsaveObservers, CoAP_NVloadObservers): its endpoint,
\* socket, token and options, and the path; what follows is the next record.
\* Something has to follow, and the token may have up to seven bytes.
THEOREM RecordReadBack ==
    ASSUME NEW o, NEW query, Saveable(o, query), NEW path, Of(path, OPT_NUM_URI_PATH),
           NEW rest \in Seq(Byte), rest # <<>>, NEW stray \in Byte,
           NEW read, read = ParseOptionsFromRaw(ObserverRecord(o, path) \o rest, stray)
    PROVE  /\ read.res = "OK" /\ read.payload = rest
           /\ read.list = Layout(o, path, query)
           /\ LoadedObserver(read.list) = o
           /\ OptionsByNumber(read.list, OPT_NUM_URI_PATH) = path
<1> DEFINE list == Layout(o, path, query)
           packed == PackOptionsFromList(list)
           raw == ObserverRecord(o, path) \o rest
           w == packed \o Tail255(rest)
<1>1. packed \in Seq(Byte) /\ ObserverRecord(o, path) = Append(packed, OPTION_PAYLOAD_MARKER)
  BY RecordIs, Zenon
<1>2. Sorted(list)
  BY LayoutSorted
<1>3. raw = w /\ raw \in Seq(Byte) /\ Leads(raw, raw)
  <2> HIDE DEF packed
  <2> DEFINE marker == << OPTION_PAYLOAD_MARKER >>
  <2>1. marker \in Seq(Byte)
    BY DEF OPTION_PAYLOAD_MARKER, Byte
  <2>2. Append(packed, OPTION_PAYLOAD_MARKER) = packed \o marker
    BY <1>1 DEF OPTION_PAYLOAD_MARKER
  <2> HIDE DEF marker
  <2>3. (packed \o marker) \o rest = packed \o (marker \o rest)
    BY <1>1, <2>1, Concat3
  <2>4. raw = w
    BY <1>1, <2>2, <2>3, Zenon DEF Tail255, marker
  <2>5. (packed \o marker) \o rest \in Seq(Byte)
    BY <1>1, <2>1
  <2>6. raw \in Seq(Byte)
    BY <1>1, <2>2, <2>5, Zenon
  <2> HIDE DEF raw, w
  <2>7. Leads(raw, raw)
    BY <2>6 DEF Leads
  <2> QED BY <2>4, <2>6, <2>7
<1> HIDE DEF raw, w
<1>4. ReadBack(ParseOptionsFromRaw(raw, stray), raw, w, list, rest)
  BY <1>2, <1>3, ParseOptionsBack, Zenon DEF w, packed
<1>5. read.res = "OK" /\ read.list = list /\ read.payload = rest
  BY <1>3, <1>4, Zenon DEF ReadBack, raw
<1>6. LoadedObserver(list) = o
  BY LayoutLoaded, Zenon
<1>7. OptionsByNumber(list, OPT_NUM_URI_PATH) = path
  <2> HIDE DEF w, raw, packed
  <2> QED BY LayoutHas
<1> QED BY <1>5, <1>6, <1>7, Zenon DEF list

\* A string of which every part fits into an option.
Fits(string) == Len(string) <= MAX_OPTION_VALUE_SIZE

\* The string of a resource that can be found again: it has a path and no query.
PlainUri(string) ==
    /\ Fits(string) /\ Path(string) # <<>>
    /\ \A k \in 1 .. Len(string) : string[k] # Question

LEMMA PieceFits ==
    ASSUME NEW str \in Seq(Byte), NEW delims, NEW j \in 1 .. Len(str), NEW x,
           Has(Piece(str, delims, j), x)
    PROVE  Len(x) <= Len(str)
<1>1. ~Has(<<>>, x)
  BY DEF Has
<1>2. At(str, delims, j) /\ Piece(str, delims, j) = << SubSeq(str, Begin(str, delims, j), j) >>
  BY <1>1, Zenon DEF Piece
<1>3. Begin(str, delims, j) \in 1 .. j
  BY <1>2, BeginIs
<1> DEFINE b == Begin(str, delims, j)
           s == SubSeq(str, b, j)
<1> HIDE DEF b
<1>4. s \in Seq(Byte) /\ Len(s) = j - b + 1
  <2>1. j \in b .. Len(str) /\ b \in 1 .. Len(str)
    BY <1>3 DEF b
  <2> QED BY <2>1, SubSeqIs
<1> HIDE DEF s
<1>5. x = s
  <2>1. Has(<< s >>, x)
    BY <1>2, Zenon DEF s, b
  <2> QED BY <2>1 DEF Has
<1> QED BY <1>3, <1>4, <1>5 DEF b

LEMMA PartsFit ==
    ASSUME NEW str \in Seq(Byte), NEW delims, NEW k \in 1 .. Len(Parts(str, delims))
    PROVE  Len(Parts(str, delims)[k]) <= Len(str)
<1> DEFINE rows == Pieces(str, delims)
           x == Parts(str, delims)[k]
           T == Seq(Byte)
<1>1. Has(Parts(str, delims), x)
  BY DEF Has
<1>2. rows \in Seq(Seq(T)) /\ Len(rows) = Len(str)
      /\ \A j \in 1 .. Len(str) : rows[j] = Piece(str, delims, j)
  BY PiecesType
<1>3. Has(FlattenSeq(rows), x)
  BY <1>1, PartsIs, Zenon
<1> HIDE DEF x, rows, T
<1>4. PICK j \in 1 .. Len(rows) : Has(rows[j], x)
  BY <1>2, <1>3, FlattenHas
<1>5. j \in 1 .. Len(str) /\ Has(Piece(str, delims, j), x)
  BY <1>2, <1>4, Zenon
<1>6. Len(x) <= Len(str)
  BY <1>5, PieceFits
<1> QED BY <1>6 DEF x

LEMMA OptsOfFit ==
    ASSUME NEW number \in UriNumbers, NEW parts \in Seq(Seq(Byte)),
           \A k \in 1 .. Len(parts) : Fits(parts[k])
    PROVE  Of(OptsOf(number, parts), number)
<1> DEFINE list == OptsOf(number, parts)
<1>1. list \in Seq(Option) /\ Len(list) = Len(parts)
      /\ \A k \in 1 .. Len(parts) : list[k] = Opt(number, parts[k])
  BY OptsOfType
<1> HIDE DEF list
<1>2. ASSUME NEW k \in 1 .. Len(list)
      PROVE  list[k].Number = number /\ Len(list[k].Value) <= MAX_OPTION_VALUE_SIZE
  <2>1. k \in 1 .. Len(parts) /\ list[k] = Opt(number, parts[k])
    BY <1>1, Zenon
  <2>2. Opt(number, parts[k]).Number = number /\ Opt(number, parts[k]).Value = parts[k]
    BY DEF Opt
  <2> QED BY <2>1, <2>2, Zenon DEF Fits
<1> QED BY <1>1, <1>2, Zenon DEF Of, list

LEMMA PathAndQueryFit ==
    ASSUME NEW string \in Seq(Byte), Fits(string)
    PROVE  /\ \A k \in 1 .. Len(Path(string)) : Fits(Path(string)[k])
           /\ \A k \in 1 .. Len(Query(string)) : Fits(Query(string)[k])
<1>1. ASSUME NEW str \in Seq(Byte), Len(str) <= Len(string), NEW delims,
             NEW k \in 1 .. Len(Parts(str, delims))
      PROVE  Fits(Parts(str, delims)[k])
  <2> DEFINE x == Parts(str, delims)[k]
  <2>1. Len(x) <= Len(str) /\ x \in Seq(Byte)
    <3> DEFINE p == Parts(str, delims)
    <3>1. p \in Seq(Seq(Byte))
      BY PartsAreStrings
    <3>2. k \in 1 .. Len(p)
      OBVIOUS
    <3> HIDE DEF p
    <3>3. p[k] \in Seq(Byte)
      BY <3>1, <3>2
    <3> QED BY <3>3, PartsFit DEF p
  <2> HIDE DEF x
  <2>2. Len(str) \in Nat /\ Len(string) \in Nat /\ Len(x) \in Nat
    BY <2>1
  <2>3. Len(string) <= 1034
    BY DEF Fits, MAX_OPTION_VALUE_SIZE
  <2>4. Len(x) <= 1034
    BY <1>1, <2>1, <2>2, <2>3
  <2> QED BY <2>4 DEF Fits, x, MAX_OPTION_VALUE_SIZE
<1>2. /\ PathString(string) \in Seq(Byte) /\ Len(PathString(string)) <= Len(string)
      /\ QueryString(string) \in Seq(Byte) /\ Len(QueryString(string)) <= Len(string)
  <2> DEFINE m == QueryMark(string)
  <2>1. m \in 0 .. Len(string)
    BY MarkIs
  <2> HIDE DEF m
  <2>2. m # 0 => Len(SubSeq(string, 1, m - 1)) <= Len(string)
    BY <2>1
  <2>3. Len(SubSeq(string, m + 1, Len(string))) <= Len(string)
    BY <2>1
  <2>4. Len(string) <= Len(string)
    OBVIOUS
  <2> QED BY <2>2, <2>3, <2>4, HalvesAre, Zenon DEF PathString, QueryString, m
<1>3. \A k \in 1 .. Len(Path(string)) : Fits(Path(string)[k])
  BY <1>1, <1>2, HalvesAre, Zenon
<1>4. \A k \in 1 .. Len(Query(string)) : Fits(Query(string)[k])
  <2>1. ASSUME QueryMark(string) = 0, NEW k \in 1 .. Len(Query(string)) PROVE FALSE
    <3>1. Query(string) = <<>>
      BY <2>1, HalvesAre, Zenon
    <3> QED BY <2>1, <3>1
  <2> QED BY <1>1, <1>2, <2>1, HalvesAre, Zenon
<1> QED BY <1>3, <1>4

\* The options of a resource: a path and nothing else.
LEMMA PlainUriIs ==
    ASSUME NEW string \in Seq(Byte), PlainUri(string)
    PROVE  /\ Of(UriOptionsFromString(string), OPT_NUM_URI_PATH)
           /\ UriOptionsFromString(string) # <<>>
<1> DEFINE path == OptsOf(OPT_NUM_URI_PATH, Path(string))
<1>0. OPT_NUM_URI_PATH \in UriNumbers /\ OPT_NUM_URI_QUERY \in UriNumbers
  BY DEF UriNumbers
<1>1. Fits(string) /\ Path(string) # <<>> /\ \A k \in 1 .. Len(string) : string[k] # Question
  BY DEF PlainUri
<1>2. Path(string) \in Seq(Seq(Byte))
  BY HalvesAre
<1>3. Of(path, OPT_NUM_URI_PATH) /\ Len(path) = Len(Path(string))
  BY <1>0, <1>1, <1>2, PathAndQueryFit, OptsOfFit, OptsOfType
<1>4. Query(string) = <<>>
  <2>1. QueryMark(string) = 0
    <3> SUFFICES ASSUME QueryMark(string) # 0 PROVE FALSE
      OBVIOUS
    <3> DEFINE m == QueryMark(string)
    <3>1. m \in 0 .. Len(string) /\ m # 0 /\ string[m] = Question
      BY MarkIs
    <3> HIDE DEF m
    <3>2. m \in 1 .. Len(string)
      BY <3>1
    <3> QED BY <1>1, <3>1, <3>2
  <2> QED BY <2>1, HalvesAre, Zenon
<1>5. UriOptionsFromString(string) = path \o OptsOf(OPT_NUM_URI_QUERY, <<>>)
  BY <1>4, UriIs
<1>6. OptsOf(OPT_NUM_URI_QUERY, <<>>) = <<>>
  <2> DEFINE e == OptsOf(OPT_NUM_URI_QUERY, <<>>)
  <2>1. <<>> \in Seq(Seq(Byte)) /\ Len(<<>>) = 0
    OBVIOUS
  <2>2. e \in Seq(Option) /\ Len(e) = 0
    BY <1>0, <2>1, OptsOfType
  <2> HIDE DEF e
  <2>3. e = <<>>
    BY <2>2
  <2> QED BY <2>3 DEF e
<1>7. path \in Seq(Option) /\ path \o <<>> = path
  <2>1. path \in Seq(Option)
    BY <1>3 DEF Of
  <2> QED BY <2>1, Nothing
<1>8. path # <<>>
  <2>1. Len(Path(string)) # 0
    <3> DEFINE p == Path(string)
               T == Seq(Byte)
    <3>1. p \in Seq(T) /\ p # <<>>
      BY <1>1, <1>2
    <3> HIDE DEF p, T
    <3> QED BY <3>1 DEF p
  <2> HIDE DEF path
  <2> QED BY <1>3, <2>1
<1> QED BY <1>3, <1>5, <1>6, <1>7, <1>8, Zenon

LEMMA CoreIsPlain == PlainUri(CoreUri)
<1> DEFINE c == CoreUri
           d == {Slash, Space}
           rows == Pieces(c, d)
           T == Seq(Byte)
<1>1. c \in Seq(Byte) /\ Len(c) = 4 /\ c[2] = 46 /\ c[3] = 47
      /\ \A k \in 1 .. 4 : c[k] # Question
  <2>1. c \in Seq(Byte)
    BY CoreUriType
  <2>2. Len(c) = 4 /\ c[1] = 47 /\ c[2] = 46 /\ c[3] = 47 /\ c[4] = 99
    BY DEF CoreUri, Slash
  <2> HIDE DEF c
  <2>3. \A k \in 1 .. 4 : k = 1 \/ k = 2 \/ k = 3 \/ k = 4
    OBVIOUS
  <2>4. \A k \in 1 .. 4 : c[k] # Question
    BY <2>2, <2>3 DEF Question
  <2> QED BY <2>1, <2>2, <2>4
<1> HIDE DEF c
<1>2. At(c, d, 2) /\ ~At(c, d, 3)
  BY <1>1 DEF At, Slash, Space
<1>3. QueryMark(c) = 0
  <2> SUFFICES ASSUME QueryMark(c) # 0 PROVE FALSE
    OBVIOUS
  <2> DEFINE m == QueryMark(c)
  <2>1. m \in 0 .. Len(c) /\ m # 0 /\ c[m] = Question
    BY <1>1, MarkIs
  <2> HIDE DEF m
  <2>2. m \in 1 .. 4
    BY <1>1, <2>1
  <2> QED BY <1>1, <2>1, <2>2
<1>4. Path(c) = FlattenSeq(rows)
  BY <1>3, PartsIs, Zenon DEF Path
<1>5. rows \in Seq(Seq(T)) /\ Len(rows) = 4 /\ rows[2] = Piece(c, d, 2)
  BY <1>1, PiecesType
<1> DEFINE x == SubSeq(c, Begin(c, d, 2), 2)
<1>6. Piece(c, d, 2) = << x >>
  <2>1. 2 + 1 = 3
    OBVIOUS
  <2> QED BY <1>2, <2>1, Zenon DEF Piece
<1> HIDE DEF x, rows, T
<1>7. Has(rows[2], x) /\ 2 \in 1 .. Len(rows)
  <2>1. Has(<< x >>, x)
    BY DEF Has
  <2>2. 2 \in 1 .. Len(rows)
    BY <1>5
  <2> QED BY <1>5, <1>6, <2>1, <2>2, Zenon
<1>8. Has(FlattenSeq(rows), x)
  BY <1>5, <1>7, FlattenHas
<1>9. ~Has(<<>>, x)
  BY DEF Has
<1>10. Path(c) # <<>>
  BY <1>4, <1>8, <1>9, Zenon
<1>11. Fits(c)
  BY <1>1 DEF Fits, MAX_OPTION_VALUE_SIZE
<1> QED BY <1>1, <1>10, <1>11 DEF PlainUri, c

Good == {o \in Observer : \E query : Saveable(o, query)}

\* What a record can hold, and what ends the reading.
Recordable ==
    /\ \A k \in 1 .. Len(Application) : PlainUri(Application[k].Uri)
    /\ \A uri \in Uris : Fits(uri)
    /\ \A client \in Clients : Len(client.Token) <= 7
    /\ ParseOptionsFromRaw(Behind, 0).res # "OK"

PathLists == {list \in Seq(Option) : Of(list, OPT_NUM_URI_PATH) /\ list # <<>>}
StoredResource == [uri : PathLists, notifier : BOOLEAN, observers : Seq(Good)]

LEMMA ObserverIs ==
    \A e \in Byte, h \in Byte, t \in Seq(Byte), l \in Seq(Option) :
        [Ep |-> e, socketHandle |-> h, Token |-> t, pOptList |-> l] \in Observer
BY DEF Observer

LEMMA RegisteredIsGood ==
    ASSUME Recordable, NEW client \in Clients, NEW uri \in Uris,
           NEW o, o = [Ep |-> client.Ep, socketHandle |-> client.socketHandle,
                       Token |-> client.Token,
                       pOptList |-> <<Opt(OPT_NUM_OBSERVE, <<>>)>>
                           \o OptionsByNumber(UriOptionsFromString(uri), OPT_NUM_URI_QUERY)]
    PROVE  o \in Good
<1> DEFINE query == OptionsByNumber(UriOptionsFromString(uri), OPT_NUM_URI_QUERY)
           ob == << ObserveOption >>
<1>0. OPT_NUM_URI_QUERY \in UriNumbers
  BY DEF UriNumbers
<1>1. uri \in Seq(Byte) /\ Fits(uri) /\ Len(client.Token) <= 7
      /\ client.Ep \in Byte /\ client.socketHandle \in Byte /\ client.Token \in Seq(Byte)
  BY UriAssumption, ClientsAssumption DEF Recordable
<1>2. Of(query, OPT_NUM_URI_QUERY)
  <2>1. query = OptsOf(OPT_NUM_URI_QUERY, Query(uri))
    BY <1>1, UriOptions
  <2>2. Query(uri) \in Seq(Seq(Byte))
    BY <1>1, HalvesAre
  <2> HIDE DEF query
  <2> QED BY <1>0, <1>1, <2>1, <2>2, PathAndQueryFit, OptsOfFit
<1>3. ObserveOption \in Option
  <2>1. <<>> \in Seq(Byte) /\ Len(<<>>) <= 8 /\ OPT_NUM_OBSERVE \in Nat /\ OPT_NUM_OBSERVE < Word
    BY DEF OPT_NUM_OBSERVE, Word
  <2> QED BY <2>1, OneOf, Zenon DEF ObserveOption
<1>4. ob \o query \in Seq(Option)
  <2>1. ob \in Seq(Option)
    <3> DEFINE x == ObserveOption
    <3> HIDE DEF x
    <3>1. << x >> \in Seq(Option)
      BY <1>3 DEF x
    <3> QED BY <3>1 DEF x
  <2>2. query \in Seq(Option)
    BY <1>2 DEF Of
  <2> HIDE DEF ob, query
  <2> QED BY <2>1, <2>2
<1>5. o = [Ep |-> client.Ep, socketHandle |-> client.socketHandle,
           Token |-> client.Token, pOptList |-> ob \o query]
  BY Zenon DEF ob, query, ObserveOption
<1> HIDE DEF ob, query
<1>6. o \in Observer /\ o.pOptList = ob \o query /\ o.Token = client.Token
  <2> DEFINE l == ob \o query
             t == client.Token
             e == client.Ep
             h == client.socketHandle
  <2>1. o = [Ep |-> e, socketHandle |-> h, Token |-> t, pOptList |-> l]
    BY <1>5
  <2>2. e \in Byte /\ h \in Byte /\ t \in Seq(Byte) /\ l \in Seq(Option)
    BY <1>1, <1>4
  <2> HIDE DEF l, t, e, h
  <2>3. o.pOptList = l /\ o.Token = t
    BY <2>1
  <2>4. o \in Observer
    BY <2>1, <2>2, ObserverIs, Zenon
  <2> QED BY <2>3, <2>4 DEF l, t
<1>7. Saveable(o, query)
  BY <1>1, <1>2, <1>6, Zenon DEF Saveable, ob
<1> QED BY <1>6, <1>7 DEF Good

LEMMA OthersThanType ==
    ASSUME NEW S, NEW observers \in Seq(S), NEW o
    PROVE  OthersThan(o, observers) \in Seq(S)
<1> DEFINE f == [j \in DOMAIN observers |->
                   IF SameObserver(o, observers[j]) THEN <<>> ELSE << observers[j] >>]
<1>1. ASSUME NEW x \in S PROVE << x >> \in Seq(S) /\ <<>> \in Seq(S)
  OBVIOUS
<1>2. <<>> \in Seq(S)
  OBVIOUS
<1>3. DOMAIN observers = 1 .. Len(observers) /\ Len(observers) \in Nat
      /\ \A j \in 1 .. Len(observers) : observers[j] \in S
  OBVIOUS
<1>4. f \in [1 .. Len(observers) -> Seq(S)]
  <2> DEFINE n == Len(observers)
  <2> HIDE DEF n
  <2>1. ASSUME NEW j \in 1 .. n
        PROVE  (IF SameObserver(o, observers[j]) THEN <<>> ELSE << observers[j] >>) \in Seq(S)
    BY <1>1, <1>2, <1>3, Zenon DEF n
  <2> QED BY <1>3, <2>1, Zenon DEF n
<1>5. OthersThan(o, observers) = FlattenSeq(f)
  BY Zenon DEF OthersThan
<1> HIDE DEF f
<1>6. f \in Seq(Seq(S))
  BY <1>3, <1>4
<1> QED BY <1>5, <1>6, FlattenType

-----------------------------------------------------------------------------
(* The records of a table *)

\* Bytes that are read as a list, whatever follows them.
IsReadAs(r, list) ==
    \A rest \in Seq(Byte) :
        rest # <<>> => /\ ParseOptionsFromRaw(r \o rest, 0).res = "OK"
                       /\ ParseOptionsFromRaw(r \o rest, 0).list = list
                       /\ ParseOptionsFromRaw(r \o rest, 0).payload = rest

\* A list from which the observer and its path are restored.
Restores(list, o, path) ==
    /\ list \in Seq(Option) /\ list # <<>>
    /\ LoadedObserver(list) = o /\ OptionsByNumber(list, OPT_NUM_URI_PATH) = path

RecordOf(r, o, path) ==
    r \in Seq(Byte) /\ \E list : IsReadAs(r, list) /\ Restores(list, o, path)

LEMMA RecordIsRead ==
    ASSUME NEW o \in Good, NEW path, Of(path, OPT_NUM_URI_PATH)
    PROVE  RecordOf(ObserverRecord(o, path), o, path)
<1>1. PICK query : Saveable(o, query)
  BY DEF Good
<1> DEFINE list == Layout(o, path, query)
           r == ObserverRecord(o, path)
<1>2. 0 \in Byte
  BY DEF Byte
<1>3. r \in Seq(Byte)
  BY <1>1, RecordIs
<1>4. list \in Seq(Option) /\ list # <<>>
  BY <1>1, LayoutIs, LayoutSorted DEF SortedLists
<1>5. LoadedObserver(list) = o
  BY <1>1, LayoutLoaded, Zenon
<1>6. OptionsByNumber(list, OPT_NUM_URI_PATH) = path
  <2> HIDE DEF r
  <2> QED BY <1>1, LayoutHas
<1>7. ASSUME NEW rest \in Seq(Byte), rest # <<>>
      PROVE  /\ ParseOptionsFromRaw(r \o rest, 0).res = "OK"
             /\ ParseOptionsFromRaw(r \o rest, 0).list = list
             /\ ParseOptionsFromRaw(r \o rest, 0).payload = rest
  <2> DEFINE read == ParseOptionsFromRaw(r \o rest, 0)
  <2>1. read = ParseOptionsFromRaw(ObserverRecord(o, path) \o rest, 0)
    OBVIOUS
  <2> HIDE DEF read
  <2>2. read.res = "OK" /\ read.payload = rest /\ read.list = Layout(o, path, query)
    BY <1>1, <1>2, <1>7, <2>1, RecordReadBack
  <2> QED BY <2>2 DEF read
<1>8. IsReadAs(r, list)
  BY <1>7, Zenon DEF IsReadAs
<1>9. Restores(list, o, path)
  BY <1>4, <1>5, <1>6, Zenon DEF Restores
<1> QED BY <1>3, <1>8, <1>9, Zenon DEF RecordOf, r

PathOf(r, j) == IF j = 1 THEN r.uri ELSE <<>>
Row(r) == [j \in DOMAIN r.observers |-> ObserverRecord(r.observers[j], PathOf(r, j))]
Rows(table) == [k \in DOMAIN table |-> Row(table[k])]

LEMMA RowType ==
    ASSUME NEW r \in StoredResource
    PROVE  /\ r.observers \in Seq(Good) /\ Of(r.uri, OPT_NUM_URI_PATH) /\ r.uri # <<>>
           /\ Row(r) \in Seq(Seq(Byte)) /\ Len(Row(r)) = Len(r.observers)
           /\ \A j \in 1 .. Len(r.observers) :
                /\ Row(r)[j] = ObserverRecord(r.observers[j], PathOf(r, j))
                /\ RecordOf(Row(r)[j], r.observers[j], PathOf(r, j))
<1> DEFINE os == r.observers
           n == Len(os)
           T == Seq(Byte)
<1>1. os \in Seq(Good) /\ Of(r.uri, OPT_NUM_URI_PATH) /\ r.uri # <<>>
  BY DEF StoredResource, PathLists
<1>2. DOMAIN os = 1 .. n /\ n \in Nat /\ \A j \in 1 .. n : os[j] \in Good
  <2> HIDE DEF os
  <2> QED BY <1>1
<1>3. \A j \in 1 .. n : Of(PathOf(r, j), OPT_NUM_URI_PATH)
  <2>1. Of(<<>>, OPT_NUM_URI_PATH)
    BY DEF Of
  <2> QED BY <1>1, <2>1, Zenon DEF PathOf
<1>4. \A j \in 1 .. n : Row(r)[j] = ObserverRecord(os[j], PathOf(r, j))
  BY <1>2, Zenon DEF Row
<1>5. \A j \in 1 .. n : RecordOf(Row(r)[j], os[j], PathOf(r, j))
  <2>1. \A j \in 1 .. n : RecordOf(ObserverRecord(os[j], PathOf(r, j)), os[j], PathOf(r, j))
    BY <1>2, <1>3, RecordIsRead, Zenon
  <2> QED BY <1>4, <2>1, Zenon
<1>6. Row(r) \in Seq(T) /\ Len(Row(r)) = n
  <2>1. \A j \in 1 .. n : ObserverRecord(os[j], PathOf(r, j)) \in T
    BY <1>4, <1>5, Zenon DEF RecordOf
  <2>2. Row(r) = [j \in 1 .. n |-> ObserverRecord(os[j], PathOf(r, j))]
    BY <1>2, Zenon DEF Row
  <2> HIDE DEF os, n, T
  <2>3. Row(r) \in [1 .. n -> T]
    BY <2>1, <2>2, Zenon
  <2> QED BY <1>2, <2>3
<1> QED BY <1>1, <1>4, <1>5, <1>6, Zenon

LEMMA RowsType ==
    ASSUME NEW table \in Seq(StoredResource)
    PROVE  /\ Records(table) = FlattenSeq(Rows(table))
           /\ Rows(table) \in Seq(Seq(Seq(Byte))) /\ Len(Rows(table)) = Len(table)
           /\ \A k \in 1 .. Len(table) : table[k] \in StoredResource /\ Rows(table)[k] = Row(table[k])
<1> DEFINE n == Len(table)
           T == Seq(Seq(Byte))
<1>1. DOMAIN table = 1 .. n /\ n \in Nat /\ \A k \in 1 .. n : table[k] \in StoredResource
  OBVIOUS
<1>2. Records(table) = FlattenSeq(Rows(table))
  BY Zenon DEF Records, Rows, Row, PathOf
<1>3. \A k \in 1 .. n : Rows(table)[k] = Row(table[k])
  BY <1>1, Zenon DEF Rows
<1>4. \A k \in 1 .. n : Row(table[k]) \in T
  BY <1>1, RowType, Zenon
<1>5. Rows(table) \in Seq(T) /\ Len(Rows(table)) = n
  <2>1. Rows(table) = [k \in 1 .. n |-> Row(table[k])]
    BY <1>1, Zenon DEF Rows
  <2> HIDE DEF n, T
  <2>2. Rows(table) \in [1 .. n -> T]
    BY <1>4, <2>1, Zenon
  <2> QED BY <1>1, <2>2
<1> QED BY <1>1, <1>2, <1>3, <1>5, Zenon

LEMMA RecordsCount ==
    ASSUME NEW table \in Seq(StoredResource)
    PROVE  Records(table) \in Seq(Seq(Byte)) /\ Len(Records(table)) = NumObservers(table)
<1> DEFINE n == Len(table)
           other == [k \in DOMAIN table |-> table[k].observers]
           T == Seq(Good)
<1>1. DOMAIN table = 1 .. n /\ n \in Nat /\ \A k \in 1 .. n : table[k] \in StoredResource
  OBVIOUS
<1>2. \A k \in 1 .. n : table[k].observers \in T
  BY <1>1, RowType, Zenon
<1>3. other \in Seq(T) /\ Len(other) = n /\ \A k \in 1 .. n : other[k] = table[k].observers
  <2>1. other = [k \in 1 .. n |-> table[k].observers]
    BY <1>1, Zenon
  <2> HIDE DEF n, T, other
  <2>2. other \in [1 .. n -> T]
    BY <1>2, <2>1, Zenon
  <2> QED BY <1>1, <2>1, <2>2
<1>4. NumObservers(table) = Len(FlattenSeq(other))
  BY Zenon DEF NumObservers
<1> HIDE DEF other
<1>5. \A k \in 1 .. Len(Rows(table)) : Len(Rows(table)[k]) = Len(other[k])
  BY <1>1, <1>3, RowsType, RowType, ZenonT(90)
<1>6. Len(Rows(table)) = Len(other) /\ Rows(table) \in Seq(Seq(Seq(Byte)))
  BY <1>3, RowsType
<1> DEFINE rows == Rows(table)
           B == Seq(Byte)
<1>7. Len(FlattenSeq(rows)) = Len(FlattenSeq(other)) /\ FlattenSeq(rows) \in Seq(B)
  <2>1. rows \in Seq(Seq(B)) /\ other \in Seq(Seq(Good)) /\ Len(rows) = Len(other)
        /\ \A k \in 1 .. Len(rows) : Len(rows[k]) = Len(other[k])
    BY <1>3, <1>5, <1>6
  <2> HIDE DEF rows, B
  <2> QED BY <2>1, FlattenLens, FlattenType
<1> QED BY <1>4, <1>7, RowsType, Zenon

\* Each record is that of an observer.
LEMMA RecordsHave ==
    ASSUME NEW table \in Seq(StoredResource), NEW r
    PROVE  Has(Records(table), r) <=>
             \E k \in 1 .. Len(table) : \E j \in 1 .. Len(table[k].observers) : r = Row(table[k])[j]
<1> DEFINE rows == Rows(table)
           T == Seq(Byte)
<1>1. rows \in Seq(Seq(T)) /\ Len(rows) = Len(table) /\ Records(table) = FlattenSeq(rows)
      /\ \A k \in 1 .. Len(table) : rows[k] = Row(table[k]) /\ table[k] \in StoredResource
  BY RowsType
<1> HIDE DEF rows, T
<1>2. Has(Records(table), r) <=> \E k \in 1 .. Len(rows) : Has(rows[k], r)
  BY <1>1, FlattenHas
<1>3. \A k \in 1 .. Len(table) : Len(Row(table[k])) = Len(table[k].observers)
  BY <1>1, RowType, Zenon
<1> QED BY <1>1, <1>2, <1>3, Zenon DEF Has

\* The first record is that of the first observer of its resource.
LEMMA FirstRecord ==
    ASSUME NEW table \in Seq(StoredResource), Records(table) # <<>>
    PROVE  \E k \in 1 .. Len(table) : /\ 1 \in 1 .. Len(table[k].observers)
                                      /\ Records(table)[1] = Row(table[k])[1]
<1> DEFINE rows == Rows(table)
           T == Seq(Byte)
           n == Len(table)
           I == {k \in 1 .. n : rows[k] # <<>>}
<1>1. rows \in Seq(Seq(T)) /\ Len(rows) = n /\ Records(table) = FlattenSeq(rows) /\ n \in Nat
      /\ \A k \in 1 .. n : rows[k] = Row(table[k]) /\ table[k] \in StoredResource
  BY RowsType
<1>2. \A k \in 1 .. n : Len(Row(table[k])) = Len(table[k].observers)
  BY <1>1, RowType, Zenon
<1> HIDE DEF rows, T, n
<1>3. I # {}
  <2> SUFFICES ASSUME I = {} PROVE FALSE
    OBVIOUS
  <2>1. \A k \in 1 .. Len(rows) : rows[k] = <<>>
    BY <1>1
  <2>2. FlattenSeq(rows) = <<>>
    BY <1>1, <2>1, FlattenNone
  <2> QED BY <1>1, <2>2
<1>4. I \in SUBSET Nat
  BY <1>1
<1>5. Min(I) \in I /\ \A y \in I : Min(I) <= y
  <2> HIDE DEF I
  <2> QED BY <1>3, <1>4, MinIs
<1> DEFINE k == Min(I)
           a == SubSeq(rows, 1, k - 1)
           b == SubSeq(rows, k + 1, Len(rows))
<1> HIDE DEF k
<1>6. k \in 1 .. n /\ rows[k] # <<>> /\ \A i \in 1 .. k - 1 : rows[i] = <<>>
  <2>1. k \in I /\ \A y \in I : k <= y
    BY <1>5 DEF k
  <2>2. ASSUME NEW i \in 1 .. k - 1 PROVE rows[i] = <<>>
    <3>1. i \in 1 .. n /\ ~(k <= i)
      BY <1>1, <2>1
    <3> QED BY <2>1, <3>1
  <2> QED BY <2>1, <2>2
<1>7. /\ a \in Seq(Seq(T)) /\ Len(a) = k - 1 /\ \A i \in 1 .. k - 1 : a[i] = rows[i]
      /\ rows[k] \in Seq(T) /\ FlattenSeq(b) \in Seq(T)
      /\ FlattenSeq(rows) = (FlattenSeq(a) \o rows[k]) \o FlattenSeq(b)
  <2>1. k \in 1 .. Len(rows)
    BY <1>1, <1>6
  <2> QED BY <1>1, <2>1, FlattenSplit
<1> HIDE DEF a, b
<1>8. FlattenSeq(a) = <<>>
  <2>1. \A i \in 1 .. Len(a) : a[i] = <<>>
    BY <1>6, <1>7
  <2> QED BY <1>7, <2>1, FlattenNone
<1> DEFINE x == rows[k]
           y == FlattenSeq(b)
<1>9. ((<<>> \o x) \o y)[1] = x[1] /\ 1 \in 1 .. Len(x)
  <2>1. x \in Seq(T) /\ y \in Seq(T) /\ x # <<>>
    BY <1>6, <1>7
  <2> HIDE DEF x, y
  <2> QED BY <2>1
<1>10. Records(table)[1] = rows[k][1] /\ 1 \in 1 .. Len(rows[k])
  BY <1>1, <1>7, <1>8, <1>9, Zenon
<1> QED BY <1>1, <1>2, <1>6, <1>10, Zenon DEF n

-----------------------------------------------------------------------------
(* The page *)

Erased(m) == [i \in 1 .. m |-> 255]
Keeps(page, records) == \E m \in Nat : page = FlattenSeq(records) \o Erased(m)

LEMMA ErasedIs ==
    ASSUME NEW m \in Nat
    PROVE  Erased(m) \in Seq(Byte) /\ Len(Erased(m)) = m /\ \A i \in 1 .. m : Erased(m)[i] = 255
<1>1. 255 \in Byte
  BY DEF Byte
<1> QED BY <1>1 DEF Erased

LEMMA FlattenFew ==
    ASSUME NEW T, NEW a \in Seq(T), NEW b \in Seq(T)
    PROVE  FlattenSeq(<< a >>) = a /\ FlattenSeq(<< a, b >>) = a \o b
<1> DEFINE U == Seq(T)
<1>1. a \in U /\ b \in U
  OBVIOUS
<1>2. <<>> \in Seq(U) /\ << a >> \in Seq(U) /\ << a >> = Append(<<>>, a) /\ << a, b >> = Append(<< a >>, b)
  <2> HIDE DEF U
  <2> QED BY <1>1
<1>3. FlattenSeq(<< a >>) = <<>> \o a
  BY <1>1, <1>2, FlattenAppend, FlattenEmpty
<1>4. <<>> \o a = a
  OBVIOUS
<1>5. FlattenSeq(<< a, b >>) = FlattenSeq(<< a >>) \o b
  BY <1>1, <1>2, FlattenAppend
<1> QED BY <1>3, <1>4, <1>5, Zenon

\* At most two records.
LEMMA FewAre ==
    ASSUME NEW T, NEW records \in Seq(T), Len(records) <= 2
    PROVE  /\ records = <<>>
              \/ (Len(records) = 1 /\ records = << records[1] >> /\ records[1] \in T)
              \/ (Len(records) = 2 /\ records = << records[1], records[2] >>
                  /\ records[1] \in T /\ records[2] \in T)
<1>2. Len(records) = 0 \/ Len(records) = 1 \/ Len(records) = 2
  <2> DEFINE n == Len(records)
  <2>1. n \in Nat /\ n <= 2
    OBVIOUS
  <2> HIDE DEF n
  <2>2. n = 0 \/ n = 1 \/ n = 2
    BY <2>1
  <2> QED BY <2>2 DEF n
<1>3. CASE Len(records) = 0
  BY <1>3
<1>4. CASE Len(records) = 1
  BY <1>4
<1>5. CASE Len(records) = 2
  BY <1>5
<1> QED BY <1>2, <1>3, <1>4, <1>5

StartOf(records, k) == IF k = 1 THEN 0 ELSE Len(records[1])

LEMMA StartsAre ==
    ASSUME NEW records \in Seq(Seq(Byte)), Len(records) <= 2, NEW k \in 1 .. Len(records)
    PROVE  RecordStart(records)[k] = StartOf(records, k)
<1> DEFINE D == DOMAIN records
           Def(f) == f = [i \in D |-> IF i = 1 THEN 0 ELSE f[i - 1] + TotalBytes(records, i - 1)]
           start == CHOOSE f : Def(f)
           g == [i \in D |-> IF i = 1 THEN 0 ELSE 0 + TotalBytes(records, 1)]
<1>1. RecordStart(records) = start
  BY Zenon DEF RecordStart
<1>2. D = 1 .. Len(records) /\ Len(records) \in Nat
  OBVIOUS
<1>3. ASSUME NEW i \in D, i # 1 PROVE i = 2 /\ i - 1 = 1 /\ 1 \in D
  BY <1>2, <1>3
<1>4. Def(g)
  <2>1. ASSUME NEW i \in D
        PROVE  g[i] = IF i = 1 THEN 0 ELSE g[i - 1] + TotalBytes(records, i - 1)
    <3>1. CASE i = 1
      BY <3>1, Zenon
    <3>2. CASE i # 1
      <4>1. i - 1 = 1 /\ 1 \in D
        BY <1>3, <3>2
      <4>2. g[1] = 0 /\ g[i] = 0 + TotalBytes(records, 1)
        BY <3>2, <4>1, Zenon
      <4> QED BY <3>2, <4>1, <4>2, Zenon
    <3> QED BY <3>1, <3>2
  <2>2. g = [i \in D |-> g[i]]
    BY Zenon
  <2> HIDE DEF g, D
  <2> QED BY <2>1, <2>2, Zenon
<1>5. Def(start)
  <2> HIDE DEF Def, g
  <2> QED BY <1>4, Zenon
<1> HIDE DEF start, g
<1>6. \A i \in D : start[i] = IF i = 1 THEN 0 ELSE start[i - 1] + TotalBytes(records, i - 1)
  <2> HIDE DEF D
  <2> QED BY <1>5, Zenon
<1>7. k \in D
  BY <1>2
<1>8. CASE k = 1
  BY <1>1, <1>6, <1>7, <1>8, Zenon DEF StartOf
<1>9. CASE k # 1
  <2>1. k - 1 = 1 /\ 1 \in D
    BY <1>3, <1>7, <1>9
  <2>2. start[k] = 0 + TotalBytes(records, 1)
    BY <1>6, <1>7, <1>9, <2>1, Zenon
  <2>3. TotalBytes(records, 1) = Len(records[1]) /\ Len(records[1]) \in Nat
    <3> DEFINE r == records[1]
               T == Seq(Byte)
    <3>1. r \in T /\ SubSeq(records, 1, 1) = << r >>
      <4>1. records \in Seq(T) /\ 1 \in 1 .. Len(records)
        BY <1>2, <2>1
      <4> HIDE DEF T
      <4> DEFINE u == SubSeq(records, 1, 1)
      <4>2. u \in Seq(T) /\ Len(u) = 1 /\ u[1] = records[1] /\ records[1] \in T
        BY <4>1
      <4> HIDE DEF u
      <4>3. u = << u[1] >>
        BY <4>2
      <4> QED BY <4>2, <4>3 DEF u
    <3>2. FlattenSeq(<< r >>) = r
      BY <3>1, FlattenFew
    <3>3. TotalBytes(records, 1) = Len(r)
      BY <3>1, <3>2, Zenon DEF TotalBytes
    <3> HIDE DEF r
    <3>4. Len(r) \in Nat
      BY <3>1
    <3> QED BY <3>3, <3>4 DEF r
  <2>4. start[k] = Len(records[1])
    BY <2>2, <2>3
  <2> QED BY <1>1, <1>9, <2>4, Zenon DEF StartOf
<1> QED BY <1>8, <1>9

\* Each byte of a record is where the record is written.
LEMMA PageIs ==
    ASSUME NEW records \in Seq(Seq(Byte)), Len(records) <= 2, NEW k \in 1 .. Len(records),
           NEW i \in 1 .. PageSize, i > StartOf(records, k),
           i <= StartOf(records, k) + Len(records[k])
    PROVE  PageFilled(records)[i] = records[k][i - StartOf(records, k)]
<1> DEFINE start == RecordStart(records)
           here == {j \in DOMAIN records : i > start[j] /\ i <= start[j] + Len(records[j])}
           n == Len(records)
<1>0. PageSize \in Nat
  BY PageAssumption
<1>1. DOMAIN records = 1 .. n /\ n \in Nat /\ \A j \in 1 .. n : records[j] \in Seq(Byte)
  <2> DEFINE T == Seq(Byte)
  <2>1. records \in Seq(T)
    OBVIOUS
  <2>2. DOMAIN records = 1 .. n /\ n \in Nat /\ \A j \in 1 .. n : records[j] \in T
    <3> HIDE DEF T
    <3> QED BY <2>1
  <2> QED BY <2>2
<1>2. \A j \in 1 .. n : start[j] = StartOf(records, j)
  BY StartsAre
<1>3. \A j \in 1 .. n : Len(records[j]) \in Nat /\ (j = 1 \/ (j = 2 /\ 1 \in 1 .. n))
  <2> TAKE j \in 1 .. n
  <2>1. Len(records[j]) \in Nat
    BY <1>1
  <2> QED BY <1>1, <2>1
<1> HIDE DEF start
<1>4. here = {k}
  <2>1. k \in here
    BY <1>1, <1>2
  <2>2. ASSUME NEW j \in here PROVE j = k
    <3>1. j \in 1 .. n /\ i > StartOf(records, j) /\ i <= StartOf(records, j) + Len(records[j])
      BY <1>1, <1>2
    <3>2. i \in Nat
      BY <1>0
    <3> DEFINE l == Len(records[1])
    <3>3. (j = 1 \/ j = 2) /\ (k = 1 \/ k = 2)
      BY <1>3, <3>1
    <3>4. ASSUME j = 1, k = 2 PROVE FALSE
      <4>1. i > l /\ i <= 0 + l /\ l \in Nat
        BY <1>3, <3>1, <3>4 DEF StartOf
      <4> HIDE DEF l
      <4> QED BY <3>2, <4>1
    <3>5. ASSUME j = 2, k = 1 PROVE FALSE
      <4>1. i > l /\ i <= 0 + l /\ l \in Nat
        BY <1>3, <3>1, <3>5 DEF StartOf
      <4> HIDE DEF l
      <4> QED BY <3>2, <4>1
    <3> QED BY <3>3, <3>4, <3>5
  <2> HIDE DEF here
  <2> QED BY <2>1, <2>2
<1>5. PageFilled(records)[i]
        = IF here = {} THEN tempPage[i]
          ELSE LET j == CHOOSE j \in here : TRUE IN records[j][i - start[j]]
  BY Zenon DEF PageFilled, here, start
<1> HIDE DEF here
<1>6. here # {} /\ (CHOOSE j \in here : TRUE) = k
  <2>1. (CHOOSE j \in here : TRUE) \in here
    BY <1>4
  <2> QED BY <1>4, <2>1
<1>7. PageFilled(records)[i] = records[k][i - start[k]]
  BY <1>5, <1>6, Zenon
<1> QED BY <1>2, <1>7, Zenon

\* What is written is the records, one behind the other, and erased memory.
LEMMA PageHolds ==
    ASSUME NEW records \in Seq(Seq(Byte)), Len(records) <= 2, FitsPage(records)
    PROVE  Keeps(FlashWritten(PageFilled(records), TotalBytes(records, Len(records))), records)
<1> DEFINE page == PageFilled(records)
           bytes == FlattenSeq(records)
           n == Len(bytes)
           f == FlashWritten(page, n)
           T == Seq(Byte)
<1>0. PageSize \in Nat
  BY PageAssumption
<1>1. bytes \in Seq(Byte) /\ n \in Nat
  BY FlattenType
<1>2. TotalBytes(records, Len(records)) = n
  <2>1. SubSeq(records, 1, Len(records)) = records
    <3>1. records \in Seq(T)
      OBVIOUS
    <3> HIDE DEF T
    <3> QED BY <3>1
  <2> QED BY <2>1, Zenon DEF TotalBytes
<1> HIDE DEF page
<1>3. n <= PageSize /\ \A i \in 1 .. n : i \in 1 .. PageSize => page[i] = bytes[i]
  <2>1. CASE records = <<>>
    <3>1. bytes = <<>>
      BY <2>1, FlattenEmpty, Zenon
    <3>2. n = 0
      BY <3>1
    <3> HIDE DEF n
    <3> QED BY <1>0, <3>2
  <2> DEFINE a == records[1]
             b == records[2]
  <2>2. ASSUME NEW k \in 1 .. Len(records)
        PROVE  /\ StartOf(records, k) + Len(records[k]) <= PageSize
               /\ \A i \in 1 .. PageSize :
                     i > StartOf(records, k) /\ i <= StartOf(records, k) + Len(records[k])
                     => page[i] = records[k][i - StartOf(records, k)]
    <3>1. RecordStart(records)[k] = StartOf(records, k)
      BY StartsAre
    <3>2. k \in DOMAIN records
      OBVIOUS
    <3> QED BY <3>1, <3>2, PageIs DEF FitsPage, page
  <2>3. CASE Len(records) = 1 /\ records = << a >> /\ a \in T
    <3>1. bytes = a /\ 1 \in 1 .. Len(records)
      <4>1. 1 \in 1 .. Len(records) /\ a \in Seq(Byte)
        BY <2>3
      <4> HIDE DEF a
      <4>2. FlattenSeq(<< a >>) = a
        BY <4>1, FlattenFew
      <4> QED BY <2>3, <4>1, <4>2, Zenon
    <3>2. StartOf(records, 1) = 0
      BY DEF StartOf
    <3> HIDE DEF a, bytes
    <3>3. Len(a) \in Nat
      BY <2>3
    <3>4. 0 + Len(a) <= PageSize
      BY <2>2, <3>1, <3>2 DEF a
    <3>5. ASSUME NEW i \in 1 .. Len(a), i \in 1 .. PageSize PROVE page[i] = a[i]
      <4>1. i > 0 /\ i <= 0 + Len(a) /\ i - 0 = i
        BY <3>3
      <4> QED BY <2>2, <3>1, <3>2, <3>5, <4>1, Zenon DEF a
    <3> QED BY <3>1, <3>3, <3>4, <3>5
  <2>4. CASE Len(records) = 2 /\ records = << a, b >> /\ a \in T /\ b \in T
    <3>1. bytes = a \o b /\ 1 \in 1 .. Len(records) /\ 2 \in 1 .. Len(records)
      <4>1. 1 \in 1 .. Len(records) /\ 2 \in 1 .. Len(records) /\ a \in Seq(Byte) /\ b \in Seq(Byte)
        BY <2>4
      <4> HIDE DEF a, b
      <4>2. FlattenSeq(<< a, b >>) = a \o b
        BY <4>1, FlattenFew
      <4> QED BY <2>4, <4>1, <4>2, Zenon
    <3>2. StartOf(records, 1) = 0 /\ StartOf(records, 2) = Len(a)
      BY DEF StartOf
    <3> HIDE DEF a, b, bytes
    <3>3. Len(a) \in Nat /\ Len(b) \in Nat
      BY <2>4
    <3>4. Follows(bytes, a, b, Len(a), Len(b), Byte)
      BY <2>4, <3>1, <3>3, ConcatFollows
    <3>5. /\ n = Len(a) + Len(b) /\ \A i \in 1 .. Len(a) : bytes[i] = a[i]
          /\ \A i \in 1 .. Len(b) : bytes[Len(a) + i] = b[i]
      BY <3>4, Zenon DEF Follows
    <3> HIDE DEF n
    <3>6. Len(a) + Len(b) <= PageSize
      BY <2>2, <3>1, <3>2, Zenon DEF b
    <3>7. ASSUME NEW i \in 1 .. n, i \in 1 .. PageSize PROVE page[i] = bytes[i]
      <4>1. CASE i <= Len(a)
        <5>1. i > 0 /\ i <= 0 + Len(a) /\ i - 0 = i /\ i \in 1 .. Len(a)
          BY <3>3, <3>5, <4>1
        <5>2. page[i] = a[i - 0]
          <6>1. \A x \in 1 .. PageSize : x > 0 /\ x <= 0 + Len(a) => page[x] = a[x - 0]
            BY <2>2, <3>1, <3>2, Zenon DEF a
          <6> QED BY <3>7, <5>1, <6>1
        <5> QED BY <3>5, <5>1, <5>2
      <4>2. CASE ~(i <= Len(a))
        <5>1. i > Len(a) /\ i <= Len(a) + Len(b) /\ i - Len(a) \in 1 .. Len(b)
              /\ Len(a) + (i - Len(a)) = i
          BY <3>3, <3>5, <4>2
        <5>2. page[i] = b[i - Len(a)]
          BY <2>2, <3>1, <3>2, <3>7, <5>1, Zenon DEF b
        <5>3. bytes[Len(a) + (i - Len(a))] = b[i - Len(a)]
          BY <3>5, <5>1, Zenon
        <5> QED BY <5>1, <5>2, <5>3
      <4> QED BY <4>1, <4>2
    <3> QED BY <3>5, <3>6, <3>7
  <2>5. records = <<>> \/ (Len(records) = 1 /\ records = << a >> /\ a \in T)
        \/ (Len(records) = 2 /\ records = << a, b >> /\ a \in T /\ b \in T)
    <3>1. records \in Seq(T)
      OBVIOUS
    <3> HIDE DEF T, a, b
    <3> QED BY <3>1, FewAre DEF a, b
  <2> HIDE DEF a, b, T, n, bytes
  <2> QED BY <2>1, <2>3, <2>4, <2>5
<1> DEFINE m == PageSize - n
           g == bytes \o Erased(m)
<1> HIDE DEF bytes, n
<1>4. m \in Nat /\ n + m = PageSize
  BY <1>0, <1>1, <1>3
<1> HIDE DEF m
<1>5. Follows(g, bytes, Erased(m), n, m, Byte)
  BY <1>1, <1>4, ErasedIs, ConcatFollows DEF n
<1>6. /\ g \in Seq(Byte) /\ Len(g) = n + m /\ \A i \in 1 .. n : g[i] = bytes[i]
      /\ \A i \in 1 .. m : g[n + i] = Erased(m)[i]
  BY <1>5, Zenon DEF Follows
<1> HIDE DEF g
<1>7. ASSUME NEW i \in 1 .. PageSize PROVE f[i] = g[i]
  <2>1. f[i] = IF i <= n THEN page[i] ELSE 255
    BY DEF FlashWritten
  <2>2. CASE i <= n
    <3>1. i \in 1 .. n
      BY <1>1, <2>2
    <3> QED BY <1>3, <1>6, <2>1, <2>2, <3>1, Zenon
  <2>3. CASE ~(i <= n)
    <3> DEFINE l == i - n
    <3>1. l \in 1 .. m /\ n + l = i
      BY <1>1, <1>4, <2>3
    <3> HIDE DEF l
    <3>2. g[n + l] = 255
      <4>1. Erased(m)[l] = 255
        BY <1>4, <3>1, ErasedIs
      <4>2. g[n + l] = Erased(m)[l]
        BY <1>6, <3>1
      <4> QED BY <4>1, <4>2
    <3> QED BY <2>1, <2>3, <3>1, <3>2
  <2> QED BY <2>2, <2>3
<1>8. f = g
  <2>1. f = [i \in 1 .. PageSize |-> f[i]]
    BY DEF FlashWritten
  <2>2. g = [i \in 1 .. PageSize |-> g[i]]
    BY <1>4, <1>6
  <2> HIDE DEF f
  <2> QED BY <1>7, <2>1, <2>2, Zenon
<1> QED BY <1>2, <1>4, <1>8, Zenon DEF Keeps, g, f, bytes, page

-----------------------------------------------------------------------------
(* The loop that loads *)

\* What the parser leaves is shorter than what it was given.
Leaves(raw, t) == t \in ParseState /\ (raw # <<>> => Len(t.payload) < Len(raw))

LEMMA PayloadIsShorter ==
    ASSUME NEW raw \in Seq(Byte), NEW stray \in Byte
    PROVE  Leaves(raw, ParseOptionsFromRaw(raw, stray))
<1>1. PICK f : Parses(f, raw, stray) /\ ParseOptionsFromRaw(raw, stray) = f[Start]
  BY ParseLoop
<1> DEFINE N == Len(raw)
           S == {s \in ParseState : s.payload = <<>>}
           Near(s, m) == Ended(raw, s) \/ s.offset >= N - m
           Q == {m \in 0 .. N : \A s \in S : Near(s, m) => Leaves(raw, f[s])}
<1>2. N \in Nat /\ (raw # <<>> => N > 0)
  OBVIOUS
<1>3. ASSUME NEW s \in S
      PROVE  /\ s \in ParseState /\ s.offset \in Nat /\ s.payload = <<>> /\ Leaves(raw, s)
             /\ f[s] = IF Ended(raw, s) THEN s
                       ELSE IF AtPayload(raw, s) THEN PayloadRead(raw, s)
                       ELSE f[ParseOption(raw, stray, s)]
  <2>1. s \in ParseState /\ s.offset \in Nat /\ s.payload = <<>>
    BY DEF ParseState
  <2>2. Len(<<>>) = 0
    OBVIOUS
  <2>3. Leaves(raw, s)
    BY <1>2, <2>1, <2>2 DEF Leaves
  <2> QED BY <1>1, <2>1, <2>3, Zenon DEF Parses
<1>4. ASSUME NEW s \in S PROVE ParseError(s).payload = <<>>
  BY <1>3 DEF ParseError, ParseState
<1>5. ASSUME NEW s \in S, ~Ended(raw, s), AtPayload(raw, s) PROVE Leaves(raw, PayloadRead(raw, s))
  <2>1. CASE N - s.offset < 2
    <3>1. PayloadRead(raw, s) = ParseError(s)
      BY <2>1 DEF PayloadRead
    <3>2. ParseError(s) \in ParseState /\ Len(ParseError(s).payload) = 0
      BY <1>3, <1>4, ParseErrorType
    <3> QED BY <1>2, <3>1, <3>2 DEF Leaves
  <2>2. CASE ~(N - s.offset < 2)
    <3> DEFINE p == SubSeq(raw, s.offset + 2, N)
    <3>1. PayloadRead(raw, s) = [s EXCEPT !.payload = p]
      BY <2>2 DEF PayloadRead
    <3>2. p \in Seq(Byte) /\ Len(p) < N
      <4>1. s.offset \in Nat /\ ~(N - s.offset < 2)
        BY <1>3, <2>2
      <4> DEFINE o == s.offset
      <4> HIDE DEF o
      <4>2. o + 2 \in 1 .. N /\ N \in o + 2 .. N
        BY <1>2, <4>1 DEF o
      <4>3. SubSeq(raw, o + 2, N) \in Seq(Byte) /\ Len(SubSeq(raw, o + 2, N)) = N - (o + 2) + 1
        <5>1. o + 2 \in 1 .. Len(raw) /\ N \in o + 2 .. Len(raw)
          BY <4>2
        <5> QED BY <5>1, SubSeqIs
      <4>4. N - (o + 2) + 1 < N
        BY <1>2, <4>1 DEF o
      <4> QED BY <4>3, <4>4 DEF o
    <3> HIDE DEF p
    <3>3. [s EXCEPT !.payload = p] \in ParseState /\ [s EXCEPT !.payload = p].payload = p
      BY <1>3, <3>2 DEF ParseState
    <3> QED BY <3>1, <3>2, <3>3 DEF Leaves
  <2> QED BY <2>1, <2>2
<1>6. ASSUME NEW s \in S, ~Ended(raw, s) PROVE ParseOption(raw, stray, s) \in S
  <2> DEFINE t == ParseOption(raw, stray, s)
  <2>1. t \in ParseState
    BY <1>3, ParseOptionType
  <2>2. t.payload = <<>>
    <3>1. CASE Refused(raw, stray, s)
      BY <1>3, <1>4, <3>1, ParseOptionIs
    <3>2. CASE ~Refused(raw, stray, s)
      <4> DEFINE o == ValueStart(raw, stray, s) + LengthRead(raw, stray, s)
                 l == (DeltaRead(raw, stray, s) + s.last) % Word
                 list == AppendOptionToList(s.list, OptionRead(raw, stray, s), TRUE)
      <4>1. t = [s EXCEPT !.offset = o, !.last = l, !.list = list]
        BY <3>2, ParseOptionIs, Zenon
      <4> HIDE DEF o, l, list, t
      <4>2. s \in [offset : Nat, last : 0 .. Word - 1, list : Seq(Option),
                   payload : Seq(Byte), res : {"OK", "FORMAT_ERROR"}]
        BY <1>3 DEF ParseState
      <4>3. t.payload = s.payload
        <5> DEFINE A == 0 .. Word - 1
                   B == Seq(Option)
        <5>1. s \in [offset : Nat, last : A, list : B,
                     payload : Seq(Byte), res : {"OK", "FORMAT_ERROR"}]
          BY <4>2
        <5> HIDE DEF A, B
        <5> QED BY <4>1, <5>1
      <4> QED BY <1>3, <4>3
    <3> QED BY <3>1, <3>2
  <2> QED BY <2>1, <2>2
<1>7. 0 \in Q
  <2>1. ASSUME NEW s \in S, Near(s, 0) PROVE Leaves(raw, f[s])
    <3>1. Ended(raw, s)
      BY <1>2, <2>1 DEF Ended
    <3> QED BY <1>3, <3>1
  <2> QED BY <1>2, <2>1
<1>8. ASSUME NEW m \in 0 .. N - 1, m \in Q PROVE m + 1 \in Q
  <2>1. ASSUME NEW s \in S, Near(s, m + 1) PROVE Leaves(raw, f[s])
    <3>1. CASE Ended(raw, s)
      BY <1>3, <3>1
    <3>2. CASE ~Ended(raw, s) /\ AtPayload(raw, s)
      BY <1>3, <1>5, <3>2
    <3>3. CASE ~Ended(raw, s) /\ ~AtPayload(raw, s)
      <4> DEFINE t == ParseOption(raw, stray, s)
      <4>1. t \in S /\ f[s] = f[t]
        BY <1>3, <1>6, <3>3, Zenon
      <4>2. t.res # "OK" \/ t.offset > s.offset
        BY <1>3, ParseOptionType
      <4> HIDE DEF t
      <4>3. Near(t, m)
        <5>1. CASE t.res # "OK"
          BY <5>1 DEF Ended
        <5>2. CASE t.offset > s.offset
          <6>1. s.offset >= N - (m + 1) /\ s.offset \in Nat /\ t.offset \in Nat
            BY <1>3, <2>1, <3>3, <4>1
          <6>2. t.offset >= N - m
            BY <1>2, <5>2, <6>1
          <6> QED BY <6>2
        <5> QED BY <4>2, <5>1, <5>2
      <4>4. \A u \in S : Near(u, m) => Leaves(raw, f[u])
        BY <1>8
      <4> HIDE DEF Near, S
      <4> QED BY <4>1, <4>3, <4>4, Zenon
    <3> QED BY <3>1, <3>2, <3>3
  <2>2. m + 1 \in 0 .. N
    BY <1>2
  <2> HIDE DEF S, Near
  <2> QED BY <2>1, <2>2
<1>9. N \in Q
  <2> HIDE DEF Q
  <2>1. \A m \in 0 .. N : m \in Q
    <3> HIDE DEF N
    <3> QED BY <1>2, <1>7, <1>8, UpTo
  <2> QED BY <1>2, <2>1
<1>10. Start \in S /\ Near(Start, N)
  <2>1. Start \in ParseState
    BY StartType
  <2>2. Start.payload = <<>> /\ Start.offset = 0
    BY DEF Start
  <2> QED BY <1>2, <2>1, <2>2
<1>11. \A s \in S : Near(s, N) => Leaves(raw, f[s])
  <2> HIDE DEF S, Near
  <2> QED BY <1>9
<1> HIDE DEF S, Near, Q, N
<1>12. Leaves(raw, f[Start])
  BY <1>10, <1>11, Zenon
<1> QED BY <1>1, <1>12

LEMMA NothingIsRead ==
    /\ ParseOptionsFromRaw(<<>>, 0).res = "OK" /\ ParseOptionsFromRaw(<<>>, 0).list = <<>>
    /\ ParseOptionsFromRaw(<<>>, 0).payload = <<>>
<1>1. PICK f : Parses(f, <<>>, 0) /\ ParseOptionsFromRaw(<<>>, 0) = f[Start]
  <2>1. <<>> \in Seq(Byte) /\ 0 \in Byte
    BY DEF Byte
  <2> QED BY <2>1, ParseLoop
<1>2. Ended(<<>>, Start)
  BY DEF Ended, Start
<1>3. f[Start] = Start
  BY <1>1, <1>2, StartType DEF Parses
<1> QED BY <1>1, <1>3 DEF Start

\* One turn of the loop that loads.
ReadAt(s) == ParseOptionsFromRaw(Unread(s.position), 0)
Stops(s) == s.pending # <<>> \/ ReadAt(s).res # "OK"
After(s) ==
    [LoadRecord(s, ReadAt(s).list) EXCEPT !.position = Len(Memory) - Len(ReadAt(s).payload)]
LoadStart == [position |-> 0, pending |-> <<>>, attached |-> <<>>]

Loads(f) == \A s \in LoadState : f[s] = IF Stops(s) THEN s ELSE f[After(s)]

Taken(list, n) ==
    /\ FindResourceByUri(resources, list) # {}
    /\ NumObservers(resources) + n < MaxObservers

LEMMA FindIs ==
    ASSUME NEW table \in Seq(StoredResource), NEW list
    PROVE  /\ FindResourceByUri(table, list) \subseteq 1 .. Len(table)
           /\ \A k \in FindResourceByUri(table, list) :
                table[k].uri = OptionsByNumber(list, OPT_NUM_URI_PATH)
           /\ \A k \in 1 .. Len(table) :
                table[k].uri = OptionsByNumber(list, OPT_NUM_URI_PATH)
                => FindResourceByUri(table, list) # {}
<1> DEFINE path == OptionsByNumber(list, OPT_NUM_URI_PATH)
           n == Len(table)
           M == {k \in 1 .. n : table[k].uri = path}
<1>1. DOMAIN table = 1 .. n /\ n \in Nat /\ \A k \in 1 .. n : table[k] \in StoredResource
  OBVIOUS
<1>2. ASSUME NEW k \in 1 .. n
      PROVE  OptionsByNumber(table[k].uri, OPT_NUM_URI_PATH) = table[k].uri
  <2> DEFINE uri == table[k].uri
  <2>1. Of(uri, OPT_NUM_URI_PATH)
    BY <1>1, RowType, Zenon
  <2> HIDE DEF uri
  <2>2. OptionsAmong(uri, {OPT_NUM_URI_PATH}) = Picked(uri, OPT_NUM_URI_PATH, {OPT_NUM_URI_PATH})
    BY <2>1, AmongOf
  <2> QED BY <2>2, Zenon DEF OptionsByNumber, Picked, uri
<1>3. {k \in DOMAIN table : UriOptionsAreEqual(table[k].uri, list)} = M
  <2> HIDE DEF n
  <2> QED BY <1>1, <1>2, Zenon DEF UriOptionsAreEqual, path
<1>4. FindResourceByUri(table, list) = {k \in M : \A j \in M : k <= j}
  <2> HIDE DEF M
  <2> QED BY <1>3, Zenon DEF FindResourceByUri
<1>5. ASSUME M # {} PROVE FindResourceByUri(table, list) # {}
  <2>1. M \in SUBSET Nat
    BY <1>1
  <2> HIDE DEF M
  <2>2. Min(M) \in M /\ \A y \in M : Min(M) <= y
    BY <1>5, <2>1, MinIs
  <2> QED BY <1>4, <2>2
<1> HIDE DEF path, n
<1> QED BY <1>4, <1>5, Zenon DEF path, n

LEMMA FindNone ==
    ASSUME NEW table \in Seq(StoredResource), NEW list,
           OptionsByNumber(list, OPT_NUM_URI_PATH) = <<>>
    PROVE  FindResourceByUri(table, list) = {}
<1> SUFFICES ASSUME NEW k \in FindResourceByUri(table, list) PROVE FALSE
  OBVIOUS
<1>1. k \in 1 .. Len(table) /\ table[k].uri = <<>>
  BY FindIs, Zenon
<1>2. table[k] \in StoredResource
  BY <1>1
<1>3. table[k].uri # <<>>
  BY <1>2, RowType, Zenon
<1> QED BY <1>1, <1>3

LEMMA MemoryIs ==
    ASSUME flash \in Seq(Byte)
    PROVE  /\ Memory \in Seq(Byte) /\ Len(Memory) \in Nat
           /\ \A p \in Nat : /\ Unread(p) \in Seq(Byte)
                             /\ p < Len(Memory) => Len(Unread(p)) = Len(Memory) - p
                             /\ p >= Len(Memory) => Unread(p) = <<>>
<1>1. Memory \in Seq(Byte)
  BY PageAssumption DEF Memory
<1> DEFINE m == Memory
           N == Len(m)
<1> HIDE DEF m
<1>2. m \in Seq(Byte) /\ N \in Nat
  BY <1>1 DEF m
<1>3. ASSUME NEW p \in Nat
      PROVE  /\ SubSeq(m, p + 1, N) \in Seq(Byte)
             /\ p < N => Len(SubSeq(m, p + 1, N)) = N - p
             /\ p >= N => SubSeq(m, p + 1, N) = <<>>
  <2>1. CASE p < N
    <3>1. p + 1 \in 1 .. N /\ N \in p + 1 .. N /\ N - (p + 1) + 1 = N - p
      BY <1>2, <2>1
    <3>2. SubSeq(m, p + 1, N) \in Seq(Byte) /\ Len(SubSeq(m, p + 1, N)) = N - (p + 1) + 1
      BY <1>2, <3>1, SubSeqIs
    <3> QED BY <1>2, <2>1, <3>1, <3>2
  <2>2. CASE p >= N
    <3>1. SubSeq(m, p + 1, N) = <<>>
      <4>1. p + 1 > N
        BY <1>2, <2>2
      <4> HIDE DEF N
      <4> QED BY <1>2, <4>1
    <3> QED BY <1>2, <2>2, <3>1
  <2> QED BY <1>2, <2>1, <2>2
<1> QED BY <1>2, <1>3, Zenon DEF Unread, m

LoadAt(p, l, a) == [position |-> p, pending |-> l, attached |-> a]

LEMMA LoadAtIs ==
    /\ \A p \in Nat, l \in Seq(Option), a \in Seq(Seq(Option)) : LoadAt(p, l, a) \in LoadState
    /\ \A p, l, a : /\ LoadAt(p, l, a).position = p /\ LoadAt(p, l, a).pending = l
                    /\ LoadAt(p, l, a).attached = a
    /\ \A s \in LoadState : /\ s.position \in Nat /\ s.pending \in Seq(Option)
                            /\ s.attached \in Seq(Seq(Option))
                            /\ s = LoadAt(s.position, s.pending, s.attached)
<1> DEFINE A == Seq(Option)
           B == Seq(A)
<1>1. LoadState = [position : Nat, pending : A, attached : B]
  BY DEF LoadState
<1> HIDE DEF A, B
<1>2. /\ \A p \in Nat, l \in A, a \in B : LoadAt(p, l, a) \in LoadState
      /\ \A p, l, a : /\ LoadAt(p, l, a).position = p /\ LoadAt(p, l, a).pending = l
                      /\ LoadAt(p, l, a).attached = a
      /\ \A s \in LoadState : /\ s.position \in Nat /\ s.pending \in A /\ s.attached \in B
                              /\ s = LoadAt(s.position, s.pending, s.attached)
  BY <1>1 DEF LoadAt
<1> QED BY <1>2 DEF A, B

\* Where the loop goes when it has read "list" and left "left" bytes.
Turned(s, list, left) ==
    IF Taken(list, Len(s.attached))
    THEN LoadAt(Len(Memory) - left, s.pending, Append(s.attached, list))
    ELSE LoadAt(Len(Memory) - left, list, s.attached)

LEMMA AfterIs ==
    ASSUME resources \in Seq(StoredResource), NEW s \in LoadState
    PROVE  After(s) = Turned(s, ReadAt(s).list, Len(ReadAt(s).payload))
<1> DEFINE list == ReadAt(s).list
           q == Len(Memory) - Len(ReadAt(s).payload)
           t == LoadRecord(s, list)
           n == Len(s.attached)
           c == NumObservers(resources)
<1>1. n \in Nat /\ s = LoadAt(s.position, s.pending, s.attached)
  BY LoadAtIs
<1>2. c \in Nat /\ MaxObservers \in Nat
  BY RecordsCount, BoundsAssumption
<1>3. After(s) = [t EXCEPT !.position = q]
  BY Zenon DEF After
<1> HIDE DEF list, q, c, n
<1>4. c + n >= MaxObservers <=> ~(c + n < MaxObservers)
  BY <1>1, <1>2
<1>5. CASE Taken(list, n)
  <2>1. t = [s EXCEPT !.attached = Append(s.attached, list)]
    BY <1>4, <1>5, Zenon DEF LoadRecord, Taken, c, n
  <2> DEFINE a == Append(s.attached, list)
  <2> HIDE DEF a, t
  <2>2. After(s) = LoadAt(q, s.pending, a)
    BY <1>1, <1>3, <2>1 DEF LoadAt, a
  <2> QED BY <1>5, <2>2, Zenon DEF Turned, a, list, n, q
<1>6. CASE ~Taken(list, n)
  <2>1. t = [s EXCEPT !.pending = list]
    BY <1>4, <1>6, Zenon DEF LoadRecord, Taken, c, n
  <2> HIDE DEF t
  <2>2. After(s) = LoadAt(q, list, s.attached)
    BY <1>1, <1>3, <2>1 DEF LoadAt
  <2> QED BY <1>6, <2>2, Zenon DEF Turned, list, n, q
<1> QED BY <1>5, <1>6

LEMMA TurnedType ==
    ASSUME flash \in Seq(Byte), NEW s \in LoadState, NEW list \in Seq(Option),
           NEW left \in 0 .. Len(Memory)
    PROVE  /\ Turned(s, list, left) \in LoadState
           /\ Turned(s, list, left).position = Len(Memory) - left
           /\ Turned(s, list, left).position \in 0 .. Len(Memory)
<1> DEFINE q == Len(Memory) - left
           a == Append(s.attached, list)
<1>1. q \in Nat /\ q \in 0 .. Len(Memory)
  BY MemoryIs
<1>2. s.attached \in Seq(Seq(Option)) /\ s.pending \in Seq(Option)
  BY LoadAtIs
<1>3. a \in Seq(Seq(Option))
  <2> DEFINE T == Seq(Option)
             b == s.attached
  <2>1. b \in Seq(T) /\ list \in T
    BY <1>2
  <2> HIDE DEF T, b
  <2>2. Append(b, list) \in Seq(T)
    BY <2>1
  <2> QED BY <2>2 DEF T, b
<1> HIDE DEF a, q
<1>4. Turned(s, list, left) \in {LoadAt(q, s.pending, a), LoadAt(q, list, s.attached)}
  BY Zenon DEF Turned, a, q
<1> DEFINE t == Turned(s, list, left)
<1> HIDE DEF t
<1>5. t = LoadAt(q, s.pending, a) \/ t = LoadAt(q, list, s.attached)
  BY <1>4 DEF t
<1>6. t \in LoadState
  BY <1>1, <1>2, <1>3, <1>5, LoadAtIs
<1>7. t.position = q
  <2>1. LoadAt(q, s.pending, a).position = q /\ LoadAt(q, list, s.attached).position = q
    BY DEF LoadAt
  <2> QED BY <1>5, <2>1, Zenon
<1> QED BY <1>1, <1>6, <1>7 DEF q, t

LEMMA ReadAtIs ==
    ASSUME flash \in Seq(Byte), NEW s \in LoadState
    PROVE  /\ ReadAt(s).list \in Seq(Option) /\ ReadAt(s).payload \in Seq(Byte)
           /\ Len(ReadAt(s).payload) \in 0 .. Len(Memory)
           /\ s.position < Len(Memory) => Len(Memory) - Len(ReadAt(s).payload) > s.position
           /\ s.position >= Len(Memory) => ReadAt(s).list = <<>> /\ ReadAt(s).payload = <<>>
<1> DEFINE raw == Unread(s.position)
           t == ReadAt(s)
           N == Len(Memory)
           p == s.position
<1>1. p \in Nat /\ N \in Nat
  BY LoadAtIs, MemoryIs
<1>2. /\ raw \in Seq(Byte) /\ (p < N => Len(raw) = N - p) /\ (p >= N => raw = <<>>)
  BY <1>1, MemoryIs
<1>3. t = ParseOptionsFromRaw(raw, 0)
  BY Zenon DEF ReadAt
<1>4. Leaves(raw, t)
  <2>1. 0 \in Byte
    BY DEF Byte
  <2> HIDE DEF raw, t
  <2> QED BY <1>2, <1>3, <2>1, PayloadIsShorter
<1>5. p >= N => t.list = <<>> /\ t.payload = <<>>
  <2> HIDE DEF raw, t, p, N
  <2> QED BY <1>2, <1>3, NothingIsRead
<1>6. t.list \in Seq(Option) /\ t.payload \in Seq(Byte) /\ Len(t.payload) \in Nat
      /\ (raw # <<>> => Len(t.payload) < Len(raw))
  <2> HIDE DEF raw, t
  <2> QED BY <1>4 DEF Leaves, ParseState
<1> DEFINE l == Len(t.payload)
<1>7. p < N => l < N - p
  <2>1. p < N => raw # <<>>
    <3> HIDE DEF raw, p, N
    <3>1. Len(<<>>) = 0
      OBVIOUS
    <3> QED BY <1>1, <1>2, <3>1
  <2> HIDE DEF raw, p, N, t
  <2> QED BY <1>2, <1>6, <2>1
<1>8. p >= N => l = 0
  <2>1. Len(<<>>) = 0
    OBVIOUS
  <2> HIDE DEF t, p, N
  <2> QED BY <1>5, <2>1
<1>9. l \in 0 .. N /\ (p < N => N - l > p)
  <2>1. l \in Nat
    BY <1>6
  <2> HIDE DEF l, p, N, t
  <2> QED BY <1>1, <1>7, <1>8, <2>1
<1> QED BY <1>5, <1>6, <1>9

LEMMA AfterType ==
    ASSUME resources \in Seq(StoredResource), flash \in Seq(Byte), NEW s \in LoadState
    PROVE  /\ After(s) \in LoadState /\ After(s).position \in 0 .. Len(Memory)
           /\ s.position < Len(Memory) => After(s).position > s.position
           /\ s.position >= Len(Memory) /\ ~Stops(s) =>
                After(s) = LoadAt(Len(Memory), s.pending, s.attached)
<1> DEFINE list == ReadAt(s).list
           l == Len(ReadAt(s).payload)
           N == Len(Memory)
           p == s.position
           t == After(s)
<1>1. list \in Seq(Option) /\ l \in 0 .. N /\ N \in Nat /\ p \in Nat /\ (p < N => N - l > p)
  BY ReadAtIs, MemoryIs, LoadAtIs
<1>2. t = Turned(s, list, l)
  BY AfterIs, Zenon
<1>3. Turned(s, list, l) \in LoadState /\ Turned(s, list, l).position = N - l
      /\ Turned(s, list, l).position \in 0 .. N
  BY <1>1, TurnedType
<1>4. ASSUME p >= N, ~Stops(s) PROVE t = LoadAt(N, s.pending, s.attached)
  <2>1. list = <<>> /\ l = 0
    BY <1>4, ReadAtIs
  <2>2. ~Taken(list, Len(s.attached))
    <3>1. OptionsByNumber(<<>>, OPT_NUM_URI_PATH) = <<>>
      <4>1. Of(<<>>, OPT_NUM_URI_PATH)
        BY DEF Of
      <4>2. OptionsAmong(<<>>, {OPT_NUM_URI_PATH}) = Picked(<<>>, OPT_NUM_URI_PATH, {OPT_NUM_URI_PATH})
        BY <4>1, AmongOf
      <4> QED BY <4>2, Zenon DEF OptionsByNumber, Picked
    <3>2. FindResourceByUri(resources, <<>>) = {}
      BY <3>1, FindNone, Zenon
    <3> QED BY <2>1, <3>2, Zenon DEF Taken
  <2>3. s.pending = list
    BY <1>4, <2>1, Zenon DEF Stops
  <2>4. N - l = N
    BY <1>1, <2>1
  <2> HIDE DEF list, l, N, t
  <2>5. t = LoadAt(N - l, list, s.attached)
    BY <1>2, <2>2, Zenon DEF Turned, N
  <2> QED BY <2>3, <2>4, <2>5
<1>5. p < N => t.position > p
  <2> HIDE DEF list, l, N, t, p
  <2> QED BY <1>1, <1>2, <1>3
<1> HIDE DEF list, l, t
<1> QED BY <1>2, <1>3, <1>4, <1>5 DEF t

LEMMA LoadLoop ==
    ASSUME resources \in Seq(StoredResource), flash \in Seq(Byte)
    PROVE  \E f : Loads(f) /\ Attached = f[LoadStart].attached
<1> DEFINE S == LoadState
           N == Len(Memory)
           End(s) == LoadAt(N, s.pending, s.attached)
           stop == {s \in S : Stops(s) \/ s.position >= N}
           out == [s \in S |-> IF Stops(s) THEN s ELSE End(s)]
           step == [s \in S |-> After(s)]
           rank == [s \in S |-> IF s.position >= N THEN 0 ELSE N - s.position]
           Def(f) == f = [s \in S |->
                            IF s.pending # <<>> \/ ParseOptionsFromRaw(Unread(s.position), 0).res # "OK"
                            THEN s
                            ELSE f[[LoadRecord(s, ParseOptionsFromRaw(Unread(s.position), 0).list) EXCEPT
                                      !.position = Len(Memory)
                                          - Len(ParseOptionsFromRaw(Unread(s.position), 0).payload)]]]
           load == CHOOSE f : Def(f)
<1>1. Attached = load[LoadStart].attached
  BY Zenon DEF Attached, LoadStart
<1>2. N \in Nat /\ \A s \in S : s.position \in Nat /\ s.pending \in Seq(Option)
                                /\ s.attached \in Seq(Seq(Option))
  BY MemoryIs, LoadAtIs
<1>3. \A s \in S : rank[s] \in 0 .. N
  <2> TAKE s \in S
  <2>1. s.position \in Nat /\ rank[s] = IF s.position >= N THEN 0 ELSE N - s.position
    BY <1>2
  <2> HIDE DEF rank, N
  <2>2. CASE s.position >= N
    BY <1>2, <2>1, <2>2
  <2>3. CASE ~(s.position >= N)
    BY <1>2, <2>1, <2>3
  <2> QED BY <2>2, <2>3
<1>4. ASSUME NEW s \in S
      PROVE  /\ After(s) \in S /\ After(s).position \in Nat
             /\ s.position < N => After(s).position > s.position
             /\ s.position >= N /\ ~Stops(s) => After(s) = End(s)
  BY <1>2, AfterType
<1>5. \A s \in S : s \notin stop => step[s] \in S /\ rank[step[s]] < rank[s]
  <2> TAKE s \in S
  <2> HAVE s \notin stop
  <2> DEFINE t == After(s)
  <2>1. ~(s.position >= N) /\ step[s] = t /\ s.position \in Nat
    BY <1>2
  <2>2. t \in S /\ t.position \in Nat /\ t.position > s.position
    <3>1. s.position < N
      BY <1>2, <2>1
    <3> QED BY <1>4, <3>1
  <2>3. rank[s] = N - s.position
    BY <2>1
  <2> HIDE DEF t, step
  <2>4. rank[t] = IF t.position >= N THEN 0 ELSE N - t.position
    BY <2>2
  <2> HIDE DEF S, N, rank
  <2> QED BY <1>2, <2>1, <2>2, <2>3, <2>4
<1>6. PICK f : Loops(f, S, stop, out, step)
  <2> HIDE DEF S, stop, out, step, rank, N
  <2> QED BY <1>2, <1>3, <1>5, LoopExists
<1>7. \A s \in S : /\ s \in stop <=> Stops(s) \/ s.position >= N
                   /\ out[s] = (IF Stops(s) THEN s ELSE End(s))
                   /\ step[s] = After(s)
  OBVIOUS
<1>8. f = [s \in S |-> IF s \in stop THEN out[s] ELSE f[step[s]]]
  BY <1>6, Zenon DEF Loops
<1> HIDE DEF stop, out, step, rank
<1>9. ASSUME NEW s \in S PROVE f[s] = IF Stops(s) THEN s ELSE f[After(s)]
  <2>1. f[s] = IF s \in stop THEN out[s] ELSE f[step[s]]
    BY <1>8, Zenon
  <2>2. CASE Stops(s)
    BY <1>7, <2>1, <2>2, Zenon
  <2>3. CASE ~Stops(s) /\ ~(s.position >= N)
    BY <1>7, <2>1, <2>3, Zenon
  <2>4. CASE ~Stops(s) /\ s.position >= N
    <3> DEFINE t == End(s)
    <3>1. After(s) = t /\ f[s] = t
      BY <1>4, <1>7, <2>1, <2>4, Zenon
    <3>2. t \in S /\ t.position = N /\ t.pending = s.pending /\ t.attached = s.attached
      <4>1. t \in S
        BY <1>2, LoadAtIs
      <4> QED BY <4>1 DEF LoadAt
    <3> HIDE DEF t
    <3>3. t.position >= N
      BY <1>2, <3>2
    <3>4. End(t) = t
      BY <3>2, Zenon DEF t
    <3>5. f[t] = t
      <4>1. t \in stop /\ out[t] = (IF Stops(t) THEN t ELSE End(t))
        BY <1>7, <3>2, <3>3, Zenon
      <4>2. f[t] = out[t]
        BY <1>8, <3>2, <4>1, Zenon
      <4> QED BY <3>4, <4>1, <4>2, Zenon
    <3> QED BY <2>4, <3>1, <3>5, Zenon
  <2> QED BY <2>2, <2>3, <2>4
<1>10. Def(f)
  <2> DEFINE L == [s \in S |-> IF Stops(s) THEN s ELSE f[After(s)]]
             R == [s \in S |->
                      IF s.pending # <<>> \/ ParseOptionsFromRaw(Unread(s.position), 0).res # "OK"
                      THEN s
                      ELSE f[[LoadRecord(s, ParseOptionsFromRaw(Unread(s.position), 0).list) EXCEPT
                                !.position = Len(Memory)
                                    - Len(ParseOptionsFromRaw(Unread(s.position), 0).payload)]]]
  <2>1. f = L
    <3>1. f = [s \in S |-> f[s]]
      BY <1>8, Zenon
    <3> QED BY <1>9, <3>1, Zenon
  <2>2. L = R
    BY Zenon DEF Stops, After, ReadAt
  <2> HIDE DEF L
  <2> QED BY <2>1, <2>2
<1>11. Def(load)
  <2> HIDE DEF Def
  <2> QED BY <1>10, Zenon
<1>12. Loads(load)
  <2> HIDE DEF load
  <2>1. load = [s \in S |-> IF Stops(s) THEN s ELSE load[After(s)]]
    BY <1>11, Zenon DEF Stops, After, ReadAt
  <2> QED BY <2>1, Zenon DEF Loads
<1> HIDE DEF load
<1> QED BY <1>1, <1>12

EndsWith(mem, rest) ==
    /\ Len(mem) - Len(rest) \in Nat
    /\ SubSeq(mem, Len(mem) - Len(rest) + 1, Len(mem)) = rest

LEMMA SuffixOf ==
    ASSUME NEW T, NEW mem \in Seq(T), NEW p \in Nat, NEW r \in Seq(T), NEW rest \in Seq(T),
           rest # <<>>, SubSeq(mem, p + 1, Len(mem)) = r \o rest
    PROVE  EndsWith(mem, rest)
<1> DEFINE N == Len(mem)
           m == Len(r)
           n == Len(rest)
           c == r \o rest
           q == N - n
<1>1. N \in Nat /\ m \in Nat /\ n \in Nat /\ n > 0
  OBVIOUS
<1>2. Follows(c, r, rest, m, n, T)
  BY <1>1, ConcatFollows
<1>3. c \in Seq(T) /\ Len(c) = m + n /\ \A k \in 1 .. n : c[m + k] = rest[k]
  BY <1>2, Zenon DEF Follows
<1>4. p < N
  <2> SUFFICES ASSUME ~(p < N) PROVE FALSE
    OBVIOUS
  <2>1. p + 1 > N
    BY <1>1
  <2> HIDE DEF N
  <2>2. SubSeq(mem, p + 1, N) = <<>>
    BY <1>1, <2>1
  <2>3. c = <<>>
    BY <2>2 DEF N
  <2>4. Len(c) = 0
    BY <2>3
  <2>5. m + n = 0
    BY <1>3, <2>4
  <2> HIDE DEF c, m, n
  <2> QED BY <1>1, <2>5
<1>5. p + 1 \in 1 .. N /\ N \in p + 1 .. N
  <2> HIDE DEF N
  <2> QED BY <1>1, <1>4
<1>6. Len(c) = N - (p + 1) + 1 /\ \A k \in 1 .. N - (p + 1) + 1 : c[k] = mem[p + 1 + k - 1]
  BY <1>5, SubSeqIs
<1> HIDE DEF c, m, n, N
<1>7. m + n = N - p /\ q = p + m /\ q \in Nat
  BY <1>1, <1>3, <1>5, <1>6
<1>8. q + 1 \in 1 .. N /\ N \in q + 1 .. N
  BY <1>1, <1>7
<1> DEFINE d == SubSeq(mem, q + 1, N)
<1>9. d \in Seq(T) /\ Len(d) = N - (q + 1) + 1
      /\ \A k \in 1 .. N - (q + 1) + 1 : d[k] = mem[q + 1 + k - 1]
  <2>1. q + 1 \in 1 .. Len(mem) /\ N \in q + 1 .. Len(mem)
    BY <1>8 DEF N
  <2> HIDE DEF q
  <2> QED BY <2>1, SubSeqIs
<1> HIDE DEF d
<1>10. ASSUME NEW k \in 1 .. n PROVE d[k] = rest[k]
  <2> DEFINE l == m + k
  <2>1. l \in 1 .. N - (p + 1) + 1 /\ k \in 1 .. N - (q + 1) + 1
        /\ q + 1 + k - 1 = p + 1 + l - 1
    BY <1>1, <1>7
  <2>2. d[k] = mem[q + 1 + k - 1] /\ c[l] = rest[k]
    BY <1>3, <1>9, <2>1
  <2> HIDE DEF l
  <2>3. c[l] = mem[p + 1 + l - 1]
    BY <1>6, <2>1
  <2> QED BY <2>1, <2>2, <2>3
<1>11. Len(d) = n
  BY <1>1, <1>7, <1>9
<1>12. d = rest
  <2>1. d \in Seq(T) /\ Len(d) = Len(rest) /\ \A k \in 1 .. Len(rest) : d[k] = rest[k]
    BY <1>9, <1>10, <1>11 DEF n
  <2> QED BY <2>1, SeqEqual
<1> QED BY <1>7, <1>12 DEF d, q, N, n, EndsWith

\* The loop runs over a table and a page that are what they should be.
Loading(f) ==
    resources \in Seq(StoredResource) /\ flash \in Seq(Byte) /\ Recordable /\ Loads(f)

Comes(s, rest) == s \in LoadState /\ s.pending = <<>> /\ Unread(s.position) = rest

\* Something that is read, and something behind it.
Faces(s, r, x, rest) ==
    /\ r \in Seq(Byte) /\ x \in Seq(Option) /\ IsReadAs(r, x)
    /\ rest \in Seq(Byte) /\ rest # <<>> /\ Comes(s, r \o rest)

Passes(f, s, x, rest) ==
    /\ After(s) \in LoadState /\ f[s] = f[After(s)] /\ Unread(After(s).position) = rest
    /\ Taken(x, Len(s.attached)) => /\ After(s).pending = <<>>
                                    /\ After(s).attached = Append(s.attached, x)
    /\ ~Taken(x, Len(s.attached)) => After(s).pending = x /\ After(s).attached = s.attached

LEMMA NextIs ==
    ASSUME NEW f, Loading(f), NEW s, NEW r, NEW x, NEW rest, Faces(s, r, x, rest)
    PROVE  Passes(f, s, x, rest)
<1>0. /\ resources \in Seq(StoredResource) /\ flash \in Seq(Byte) /\ Loads(f)
      /\ r \in Seq(Byte) /\ x \in Seq(Option) /\ IsReadAs(r, x)
      /\ rest \in Seq(Byte) /\ rest # <<>>
      /\ s \in LoadState /\ s.pending = <<>> /\ Unread(s.position) = r \o rest
  BY Zenon DEF Loading, Faces, Comes
<1> DEFINE t == After(s)
           n == Len(rest)
<1>1. ReadAt(s).res = "OK" /\ ReadAt(s).list = x /\ ReadAt(s).payload = rest
  BY <1>0, Zenon DEF ReadAt, IsReadAs
<1>2. f[s] = f[t]
  BY <1>0, <1>1, Zenon DEF Loads, Stops
<1>3. t = Turned(s, x, n)
  BY <1>0, <1>1, AfterIs, Zenon
<1>4. Memory \in Seq(Byte) /\ s.position \in Nat
  BY <1>0, MemoryIs, LoadAtIs
<1>5. Len(Memory) - n \in Nat /\ SubSeq(Memory, Len(Memory) - n + 1, Len(Memory)) = rest
  <2> DEFINE p == s.position
             mem == Memory
  <2>1. SubSeq(mem, p + 1, Len(mem)) = r \o rest
    BY <1>0, Zenon DEF Unread
  <2>2. mem \in Seq(Byte) /\ p \in Nat
    BY <1>4
  <2>4. r \in Seq(Byte) /\ rest \in Seq(Byte) /\ rest # <<>>
    BY <1>0
  <2> HIDE DEF mem, p
  <2>3. EndsWith(mem, rest)
    BY <2>1, <2>2, <2>4, SuffixOf
  <2> QED BY <2>3, Zenon DEF mem, EndsWith
<1>6. n \in 0 .. Len(Memory)
  <2> DEFINE N == Len(Memory)
  <2>1. n \in Nat /\ N \in Nat /\ N - n \in Nat
    BY <1>0, <1>4, <1>5
  <2> HIDE DEF N, n
  <2>2. n \in 0 .. N
    BY <2>1
  <2> QED BY <2>2 DEF N
<1>7. t \in LoadState /\ t.position = Len(Memory) - n
  <2> HIDE DEF n, t
  <2> QED BY <1>0, <1>3, <1>6, TurnedType
<1>8. Unread(t.position) = rest
  BY <1>5, <1>7, Zenon DEF Unread
<1>9. ASSUME Taken(x, Len(s.attached))
      PROVE  t.pending = <<>> /\ t.attached = Append(s.attached, x)
  <2>1. t = LoadAt(Len(Memory) - n, s.pending, Append(s.attached, x))
    BY <1>3, <1>9, Zenon DEF Turned
  <2> HIDE DEF t, n
  <2> QED BY <1>0, <2>1 DEF LoadAt
<1>10. ASSUME ~Taken(x, Len(s.attached)) PROVE t.pending = x /\ t.attached = s.attached
  <2>1. t = LoadAt(Len(Memory) - n, x, s.attached)
    BY <1>3, <1>10, Zenon DEF Turned
  <2> HIDE DEF t, n
  <2> QED BY <1>0, <2>1 DEF LoadAt
<1> QED BY <1>2, <1>7, <1>8, <1>9, <1>10, Zenon DEF Passes

LEMMA ErasedByteIsRead == IsReadAs(<< 255 >>, <<>>)
<1> SUFFICES ASSUME NEW rest \in Seq(Byte), rest # <<>>
             PROVE  /\ ParseOptionsFromRaw(<< 255 >> \o rest, 0).res = "OK"
                    /\ ParseOptionsFromRaw(<< 255 >> \o rest, 0).list = <<>>
                    /\ ParseOptionsFromRaw(<< 255 >> \o rest, 0).payload = rest
  BY Zenon DEF IsReadAs
<1> DEFINE a == << 255 >>
           raw == a \o rest
<1>1. 255 \in Byte /\ 0 \in Byte
  BY DEF Byte
<1>2. a \in Seq(Byte) /\ Len(a) = 1 /\ a[1] = 255
  BY <1>1
<1> HIDE DEF a
<1>3. raw \in Seq(Byte) /\ Len(raw) >= 2 /\ raw[1] = 255 /\ Len(raw) \in Nat
  <2> DEFINE n == Len(rest)
           l == Len(a)
  <2>1. n \in Nat /\ n > 0 /\ l \in Nat /\ l = 1 /\ Len(rest) = n /\ Len(a) = l
    BY <1>2
  <2> HIDE DEF n, l
  <2>2. Follows(raw, a, rest, l, n, Byte)
    <3>1. a \in Seq(Byte) /\ rest \in Seq(Byte) /\ l \in Nat /\ n \in Nat
      BY <1>2, <2>1
    <3>2. Len(a) = l /\ Len(rest) = n
      BY <2>1
    <3> QED BY <3>1, <3>2, ConcatFollows, Zenon
  <2> HIDE DEF raw
  <2>3. raw \in Seq(Byte) /\ Len(raw) = l + n /\ \A k \in 1 .. l : raw[k] = a[k]
    BY <2>2, Zenon DEF Follows
  <2>4. raw[1] = a[1]
    BY <2>1, <2>3
  <2> QED BY <1>2, <2>1, <2>3, <2>4
<1>4. SubSeq(raw, 2, Len(raw)) = rest
  <2>1. SubSeq(a \o rest, Len(a) + 1, Len(a \o rest)) = rest
    BY <1>2, ConcatParts
  <2>2. Len(a) + 1 = 2
    BY <1>2
  <2> QED BY <2>1, <2>2
<1> HIDE DEF raw
<1>5. PICK f : Parses(f, raw, 0) /\ ParseOptionsFromRaw(raw, 0) = f[Start]
  BY <1>1, <1>3, ParseLoop
<1>6. ~Ended(raw, Start) /\ AtPayload(raw, Start)
  BY <1>3 DEF Ended, AtPayload, Start, OPTION_PAYLOAD_MARKER
<1>7. f[Start] = PayloadRead(raw, Start)
  BY <1>5, <1>6, StartType, Zenon DEF Parses
<1>8. PayloadRead(raw, Start) = [Start EXCEPT !.payload = rest]
  <2>1. Start.offset = 0 /\ Start.offset + 2 = 2 /\ ~(Len(raw) - Start.offset < 2)
    BY <1>3 DEF Start
  <2> QED BY <1>4, <2>1, Zenon DEF PayloadRead
<1>9. /\ [Start EXCEPT !.payload = rest].res = "OK" /\ [Start EXCEPT !.payload = rest].list = <<>>
      /\ [Start EXCEPT !.payload = rest].payload = rest
  BY DEF Start
<1> QED BY <1>5, <1>7, <1>8, <1>9, ZenonT(90) DEF raw, a

\* What follows the records.
Beyond(m) == Erased(m) \o Behind

LEMMA TailIs ==
    ASSUME Recordable, NEW m \in Nat
    PROVE  /\ Beyond(m) \in Seq(Byte) /\ Beyond(m) # <<>>
           /\ Beyond(0) = Behind /\ Beyond(m + 1) = << 255 >> \o Beyond(m)
<1> DEFINE e == Erased(m)
           g == Erased(m + 1)
           a == << 255 >>
<1>1. Behind \in Seq(Byte) /\ Behind # <<>>
  <2>1. Behind # <<>>
    BY NothingIsRead, Zenon DEF Recordable
  <2> QED BY <2>1, PageAssumption
<1>2. e \in Seq(Byte) /\ Len(e) = m /\ \A i \in 1 .. m : e[i] = 255
  BY ErasedIs
<1>3. g \in Seq(Byte) /\ Len(g) = m + 1 /\ \A i \in 1 .. m + 1 : g[i] = 255
  <2>1. m + 1 \in Nat
    OBVIOUS
  <2> QED BY <2>1, ErasedIs
<1>4. a \in Seq(Byte) /\ Len(a) = 1 /\ a[1] = 255
  <2>1. 255 \in Byte
    BY DEF Byte
  <2> QED BY <2>1
<1> HIDE DEF e, g, a
<1>5. Follows(a \o e, a, e, 1, m, Byte)
  <2> DEFINE l == Len(a)
  <2>1. l \in Nat /\ l = 1
    BY <1>4
  <2>2. Follows(a \o e, a, e, l, m, Byte)
    BY <1>2, <1>4, <2>1, ConcatFollows
  <2> HIDE DEF l
  <2> QED BY <2>1, <2>2
<1>6. g = a \o e
  <2> DEFINE c == a \o e
  <2>1. c \in Seq(Byte) /\ Len(c) = 1 + m /\ c[1] = 255 /\ \A k \in 1 .. m : c[1 + k] = 255
    <3>1. c \in Seq(Byte) /\ Len(c) = 1 + m /\ (\A k \in 1 .. 1 : c[k] = a[k])
          /\ \A k \in 1 .. m : c[1 + k] = e[k]
      BY <1>5, Zenon DEF Follows
    <3> HIDE DEF c
    <3>2. c[1] = a[1]
      BY <3>1
    <3>3. c[1] = 255
      BY <1>4, <3>2, Zenon
    <3>4. ASSUME NEW k \in 1 .. m PROVE c[1 + k] = 255
      <4>1. c[1 + k] = e[k]
        BY <3>1
      <4>2. e[k] = 255
        BY <1>2
      <4> QED BY <4>1, <4>2
    <3> QED BY <3>1, <3>3, <3>4
  <2> HIDE DEF c
  <2>2. ASSUME NEW i \in 1 .. m + 1 PROVE c[i] = 255
    <3>1. CASE i = 1
      BY <2>1, <3>1
    <3>2. CASE i # 1
      <4> DEFINE k == i - 1
      <4>1. k \in 1 .. m /\ i = 1 + k
        BY <3>2
      <4> HIDE DEF k
      <4> QED BY <2>1, <4>1
    <3> QED BY <3>1, <3>2
  <2>3. Len(g) = Len(c) /\ \A i \in 1 .. Len(g) : g[i] = c[i]
    BY <1>3, <2>1, <2>2
  <2>4. g = c
    BY <1>3, <2>1, <2>3, SeqEqual
  <2> QED BY <2>4 DEF c
<1>7. Beyond(m + 1) = a \o Beyond(m)
  <2>1. (a \o e) \o Behind = a \o (e \o Behind)
    <3> DEFINE T == Byte
               b == Behind
    <3>1. a \in Seq(T) /\ e \in Seq(T) /\ b \in Seq(T)
      BY <1>1, <1>2, <1>4
    <3> HIDE DEF T, b
    <3>2. (a \o e) \o b = a \o (e \o b)
      BY <3>1, Concat3
    <3> QED BY <3>2 DEF b
  <2> QED BY <1>6, <2>1, Zenon DEF Beyond, g, e
<1>8. Beyond(0) = Behind
  <2>1. Erased(0) = <<>>
    <3>1. Erased(0) \in Seq(Byte) /\ Len(Erased(0)) = 0
      BY ErasedIs
    <3> QED BY <3>1
  <2> QED BY <1>1, <2>1 DEF Beyond
<1>9. Beyond(m) \in Seq(Byte) /\ Beyond(m) # <<>>
  <2>1. e \o Behind \in Seq(Byte) /\ e \o Behind # <<>>
    BY <1>1, <1>2
  <2> QED BY <2>1 DEF Beyond, e
<1> QED BY <1>7, <1>8, <1>9 DEF a

LEMMA ErasedEnds ==
    ASSUME NEW f, Loading(f), NEW m \in Nat, NEW s, Comes(s, Beyond(m))
    PROVE  f[s].attached = s.attached
<1> DEFINE Q == {k \in 0 .. m : \A t \in LoadState : Comes(t, Beyond(k)) => f[t].attached = t.attached}
<1>1. 0 \in Q
  <2>1. ASSUME NEW t \in LoadState, Comes(t, Beyond(0)) PROVE f[t].attached = t.attached
    <3>1. Unread(t.position) = Behind
      BY <2>1, TailIs DEF Comes, Loading
    <3>2. Stops(t)
      BY <3>1, Zenon DEF Loading, Recordable, Stops, ReadAt
    <3>3. f[t] = t
      BY <3>2, Zenon DEF Loading, Loads
    <3> QED BY <3>3
  <2> QED BY <2>1
<1>2. ASSUME NEW k \in 0 .. m - 1, k \in Q PROVE k + 1 \in Q
  <2>1. ASSUME NEW t \in LoadState, Comes(t, Beyond(k + 1)) PROVE f[t].attached = t.attached
    <3> DEFINE a == << 255 >>
               u == After(t)
               none == <<>>
    <3>1. Beyond(k) \in Seq(Byte) /\ Beyond(k) # <<>> /\ Beyond(k + 1) = a \o Beyond(k)
      <4>1. k \in Nat /\ Recordable
        BY DEF Loading
      <4> QED BY <4>1, TailIs
    <3>2. a \in Seq(Byte)
      <4>1. 255 \in Byte
        BY DEF Byte
      <4> QED BY <4>1
    <3>3. IsReadAs(a, none) /\ none \in Seq(Option)
      BY ErasedByteIsRead
    <3>4. ~Taken(none, Len(t.attached))
      <4>1. Of(<<>>, OPT_NUM_URI_PATH)
        BY DEF Of
      <4>2. OptionsAmong(<<>>, {OPT_NUM_URI_PATH}) = Picked(<<>>, OPT_NUM_URI_PATH, {OPT_NUM_URI_PATH})
        BY <4>1, AmongOf
      <4>3. OptionsByNumber(<<>>, OPT_NUM_URI_PATH) = <<>>
        BY <4>2, Zenon DEF OptionsByNumber, Picked
      <4>4. FindResourceByUri(resources, <<>>) = {}
        BY <4>3, FindNone, Zenon DEF Loading
      <4> QED BY <4>4, Zenon DEF Taken
    <3>5. t.pending = <<>> /\ Unread(t.position) = a \o Beyond(k)
      BY <2>1, <3>1, Zenon DEF Comes
    <3> HIDE DEF a, u, none
    <3>6. /\ u \in LoadState /\ f[t] = f[u] /\ Unread(u.position) = Beyond(k)
          /\ u.pending = none /\ u.attached = t.attached
      <4>1. Faces(t, a, none, Beyond(k))
        BY <3>1, <3>2, <3>3, <3>5, Zenon DEF Faces, Comes
      <4>2. Passes(f, t, none, Beyond(k))
        BY <4>1, NextIs
      <4> QED BY <3>4, <4>2, Zenon DEF Passes, u
    <3>7. Comes(u, Beyond(k))
      BY <3>6, Zenon DEF Comes, none
    <3>8. f[u].attached = u.attached
      BY <1>2, <3>6, <3>7
    <3> QED BY <3>6, <3>8
  <2>2. k + 1 \in 0 .. m
    OBVIOUS
  <2> QED BY <2>1, <2>2
<1>3. m \in Q
  <2> HIDE DEF Q
  <2>1. \A k \in 0 .. m : k \in Q
    BY <1>1, <1>2, UpTo
  <2> QED BY <2>1
<1> QED BY <1>3, Zenon DEF Comes

\* The list that is read from a record.
ListOf(r) == ParseOptionsFromRaw(r \o << 0 >>, 0).list
Readable(r) ==
    /\ r \in Seq(Byte) /\ IsReadAs(r, ListOf(r))
    /\ ListOf(r) \in Seq(Option) /\ ListOf(r) # <<>>

LEMMA ReadableIs ==
    ASSUME NEW r, NEW o, NEW path, RecordOf(r, o, path)
    PROVE  Readable(r) /\ Restores(ListOf(r), o, path)
<1>1. PICK list : IsReadAs(r, list) /\ Restores(list, o, path)
  BY Zenon DEF RecordOf
<1>2. << 0 >> \in Seq(Byte) /\ << 0 >> # <<>>
  BY DEF Byte
<1>3. ListOf(r) = list
  BY <1>1, <1>2, Zenon DEF IsReadAs, ListOf
<1>4. list \in Seq(Option) /\ list # <<>>
  BY <1>1, Zenon DEF Restores
<1>5. r \in Seq(Byte)
  BY Zenon DEF RecordOf
<1> QED BY <1>1, <1>3, <1>4, <1>5, Zenon DEF Readable

\* One record: the loop ends, or goes on to what lies behind it.
GoesOn(f, s, x, rest) ==
    \E t : Comes(t, rest) /\ t.attached = Append(s.attached, x) /\ f[s] = f[t]

LEMMA RecordAttached ==
    ASSUME NEW f, Loading(f), NEW r, Readable(r), NEW rest \in Seq(Byte), rest # <<>>,
           NEW s, Comes(s, r \o rest)
    PROVE  /\ ~Taken(ListOf(r), Len(s.attached)) => f[s].attached = s.attached
           /\ Taken(ListOf(r), Len(s.attached)) => GoesOn(f, s, ListOf(r), rest)
<1> DEFINE x == ListOf(r)
           t == After(s)
<1>1. Faces(s, r, x, rest)
  BY Zenon DEF Faces, Readable
<1>2. Passes(f, s, x, rest)
  BY <1>1, NextIs, Zenon
<1>3. /\ t \in LoadState /\ f[s] = f[t] /\ Unread(t.position) = rest
      /\ Taken(x, Len(s.attached)) => t.pending = <<>> /\ t.attached = Append(s.attached, x)
      /\ ~Taken(x, Len(s.attached)) => t.pending = x /\ t.attached = s.attached
  BY <1>2, Zenon DEF Passes
<1>4. x # <<>>
  BY Zenon DEF Readable
<1> HIDE DEF t
<1>5. ASSUME ~Taken(x, Len(s.attached)) PROVE f[s].attached = s.attached
  <2>1. Stops(t)
    BY <1>3, <1>4, <1>5, Zenon DEF Stops
  <2>2. f[t] = t
    BY <1>3, <2>1, Zenon DEF Loading, Loads
  <2> QED BY <1>3, <1>5, <2>2, Zenon
<1>6. ASSUME Taken(x, Len(s.attached)) PROVE GoesOn(f, s, x, rest)
  BY <1>3, <1>6, Zenon DEF GoesOn, Comes
<1> QED BY <1>5, <1>6

AllTaken(records, i) == \A j \in 1 .. i : Taken(ListOf(records[j]), j - 1)

\* There was memory for the last of the lists.
InMemory(lists) ==
    Len(lists) # 0 => NumObservers(resources) + (Len(lists) - 1) < MaxObservers

LEMMA InMemoryFew ==
    /\ InMemory(<<>>)
    /\ \A list, a : Taken(list, 0) => InMemory(<< a >>)
    /\ \A list, a, b : Taken(list, 1) => InMemory(<< a, b >>)
<1> DEFINE c == NumObservers(resources)
<1> HIDE DEF c
<1>1. \A list, n : Taken(list, n) => c + n < MaxObservers
  BY Zenon DEF Taken, c
<1>2. \A lists : InMemory(lists) <=> (Len(lists) # 0 => c + (Len(lists) - 1) < MaxObservers)
  BY Zenon DEF InMemory, c
<1>3. Len(<<>>) = 0 /\ (\A a : Len(<< a >>) = 1) /\ \A a, b : Len(<< a, b >>) = 2
  OBVIOUS
<1>4. 1 - 1 = 0 /\ 2 - 1 = 1
  OBVIOUS
<1> QED BY <1>1, <1>2, <1>3, <1>4, Zenon

\* Nothing is attached that is not in a record, and everything that memory and
\* resources allow, to the first record that they do not allow.
AttachedFrom(lists, records) ==
    /\ lists \in Seq(Seq(Option)) /\ InMemory(lists)
    /\ \A l : Has(lists, l) => \E i \in 1 .. Len(records) : l = ListOf(records[i])
    /\ \A i \in 1 .. Len(records) : AllTaken(records, i) => Has(lists, ListOf(records[i]))

LEMMA HasFew ==
    /\ \A l : ~Has(<<>>, l)
    /\ \A a, l : Has(<< a >>, l) <=> l = a
    /\ \A a, b, l : Has(<< a, b >>, l) <=> l = a \/ l = b
<1>1. \A l : ~Has(<<>>, l)
  BY DEF Has
<1>2. ASSUME NEW a, NEW l PROVE Has(<< a >>, l) <=> l = a
  <2>1. 1 \in 1 .. 1 /\ \A i \in 1 .. 1 : i = 1
    OBVIOUS
  <2> QED BY <2>1 DEF Has
<1>3. ASSUME NEW a, NEW b, NEW l PROVE Has(<< a, b >>, l) <=> l = a \/ l = b
  <2>1. 1 \in 1 .. 2 /\ 2 \in 1 .. 2 /\ \A i \in 1 .. 2 : i = 1 \/ i = 2
    OBVIOUS
  <2> QED BY <2>1 DEF Has
<1> QED BY <1>1, <1>2, <1>3

LEMMA AppendTwo ==
    ASSUME NEW S, NEW a \in S, NEW b \in S
    PROVE  Len(<< a >>) = 1 /\ Append(<< a >>, b) = << a, b >>
<1>1. << a >> \in Seq(S) /\ Len(<< a >>) = 1
  OBVIOUS
<1>2. << a >> \in Seq(S) /\ << a, b >> = Append(<< a >>, b)
  OBVIOUS
<1> QED BY <1>1, <1>2

LEMMA AttachedFew ==
    ASSUME NEW records, NEW n \in 0 .. 2, n = Len(records),
           \A i \in 1 .. n : ListOf(records[i]) \in Seq(Option)
    PROVE  /\ (n > 0 => ~Taken(ListOf(records[1]), 0)) => AttachedFrom(<<>>, records)
           /\ n > 0 /\ Taken(ListOf(records[1]), 0) /\ (n > 1 => ~Taken(ListOf(records[2]), 1)) =>
                AttachedFrom(<< ListOf(records[1]) >>, records)
           /\ n > 1 /\ Taken(ListOf(records[2]), 1) =>
                AttachedFrom(<< ListOf(records[1]), ListOf(records[2]) >>, records)
<1> DEFINE x(i) == ListOf(records[i])
           A == Seq(Option)
<1>1. ASSUME NEW i \in 1 .. n PROVE x(i) \in A
  OBVIOUS
<1>2. ASSUME NEW i \in 1 .. n, AllTaken(records, i)
      PROVE  /\ Taken(x(1), 0) /\ (i > 1 => Taken(x(2), 1))
  <2>1. 1 \in 1 .. i /\ 1 - 1 = 0 /\ (i > 1 => 2 \in 1 .. i) /\ 2 - 1 = 1
    OBVIOUS
  <2>2. Taken(x(1), 1 - 1)
    BY <1>2, <2>1 DEF AllTaken
  <2>3. ASSUME i > 1 PROVE Taken(x(2), 2 - 1)
    BY <1>2, <2>1, <2>3 DEF AllTaken
  <2> HIDE DEF x
  <2> QED BY <2>1, <2>2, <2>3
<1>3. ASSUME NEW i \in 1 .. n PROVE n > 0 /\ 1 \in 1 .. n /\ (i = 1 \/ (i = 2 /\ i > 1 /\ n > 1))
  OBVIOUS
<1> HIDE DEF x
<1>4. ASSUME n > 0 => ~Taken(x(1), 0) PROVE AttachedFrom(<<>>, records)
  <2>1. <<>> \in Seq(A)
    OBVIOUS
  <2>2. ASSUME NEW i \in 1 .. n PROVE ~AllTaken(records, i)
    BY <1>2, <1>3, <1>4, <2>2, Zenon
  <2> QED BY <2>1, <2>2, HasFew, InMemoryFew, Zenon DEF AttachedFrom
<1>5. ASSUME n > 0, Taken(x(1), 0), n > 1 => ~Taken(x(2), 1) PROVE AttachedFrom(<< x(1) >>, records)
  <2>0. 1 \in 1 .. n
    BY <1>5
  <2>1. << x(1) >> \in Seq(A)
    <3> DEFINE y == x(1)
    <3>1. y \in A
      BY <1>1, <2>0
    <3> HIDE DEF y, A
    <3>2. << y >> \in Seq(A)
      BY <3>1
    <3> QED BY <3>2 DEF y
  <2>2. ASSUME NEW i \in 1 .. n, AllTaken(records, i) PROVE i = 1
    BY <1>2, <1>3, <1>5, <2>2, Zenon
  <2>3. \A l : Has(<< x(1) >>, l) => \E i \in 1 .. n : l = x(i)
    BY <2>0, HasFew, Zenon
  <2>4. \A i \in 1 .. n : AllTaken(records, i) => Has(<< x(1) >>, x(i))
    BY <2>2, HasFew, Zenon
  <2>5. InMemory(<< x(1) >>)
    BY <1>5, InMemoryFew, Zenon
  <2> QED BY <2>1, <2>3, <2>4, <2>5, Zenon DEF AttachedFrom, x
<1>6. ASSUME n > 1, Taken(x(2), 1) PROVE AttachedFrom(<< x(1), x(2) >>, records)
  <2>0. 1 \in 1 .. n /\ 2 \in 1 .. n
    BY <1>6
  <2>1. << x(1), x(2) >> \in Seq(A)
    <3> DEFINE y == x(1)
               w == x(2)
    <3>1. y \in A /\ w \in A
      BY <1>1, <2>0
    <3> HIDE DEF y, w, A
    <3>2. << y, w >> \in Seq(A)
      BY <3>1
    <3> QED BY <3>2 DEF y, w
  <2> DEFINE p == << x(1), x(2) >>
  <2>4. \A l : Has(p, l) <=> l = x(1) \/ l = x(2)
    BY HasFew
  <2> HIDE DEF p
  <2>2. \A l : Has(p, l) => \E i \in 1 .. n : l = x(i)
    BY <2>0, <2>4, Zenon
  <2>3. \A i \in 1 .. n : Has(p, x(i))
    <3>1. \A i \in 1 .. n : i = 1 \/ i = 2
      BY <1>3
    <3> QED BY <2>4, <3>1, Zenon
  <2>5. InMemory(p)
    BY <1>6, InMemoryFew, Zenon DEF p
  <2> QED BY <2>1, <2>2, <2>3, <2>5, Zenon DEF AttachedFrom, x, p
<1> QED BY <1>4, <1>5, <1>6 DEF x

LEMMA AttachedAre ==
    ASSUME resources \in Seq(StoredResource), flash \in Seq(Byte), Recordable,
           NEW records \in Seq(Seq(Byte)), Len(records) <= 2, Keeps(flash, records),
           \A i \in 1 .. Len(records) : Readable(records[i])
    PROVE  AttachedFrom(Attached, records)
<1>1. PICK f : Loads(f) /\ Attached = f[LoadStart].attached
  BY LoadLoop
<1>2. Loading(f)
  BY <1>1, Zenon DEF Loading
<1>3. PICK m \in Nat : flash = FlattenSeq(records) \o Erased(m)
  BY Zenon DEF Keeps
<1> DEFINE T == Seq(Byte)
           bytes == FlattenSeq(records)
           e == Erased(m)
           z == Beyond(m)
           s == LoadStart
<1>4. z \in Seq(Byte) /\ z # <<>> /\ e \in Seq(Byte) /\ bytes \in Seq(Byte) /\ Behind \in Seq(Byte)
  <2>1. z \in Seq(Byte) /\ z # <<>>
    BY TailIs
  <2>2. e \in Seq(Byte)
    BY ErasedIs
  <2>3. bytes \in Seq(Byte)
    BY FlattenType
  <2> QED BY <2>1, <2>2, <2>3, PageAssumption
<1>5. s \in LoadState /\ s.position = 0 /\ s.pending = <<>> /\ s.attached = <<>>
  <2>1. s = LoadAt(0, <<>>, <<>>)
    BY Zenon DEF LoadStart, LoadAt
  <2>2. 0 \in Nat /\ <<>> \in Seq(Option) /\ <<>> \in Seq(Seq(Option))
    OBVIOUS
  <2>3. s \in LoadState
    BY <2>1, <2>2, LoadAtIs, Zenon
  <2> QED BY <2>3 DEF LoadStart
<1>6. Unread(0) = Memory
  <2> DEFINE mem == Memory
  <2>1. mem \in Seq(Byte)
    BY MemoryIs
  <2> HIDE DEF mem
  <2>2. SubSeq(mem, 0 + 1, Len(mem)) = mem
    BY <2>1
  <2> QED BY <2>2, Zenon DEF Unread, mem
<1>7. Memory = bytes \o z
  <2> DEFINE b == Behind
             B == Byte
  <2>1. bytes \in Seq(B) /\ e \in Seq(B) /\ b \in Seq(B)
    BY <1>4
  <2> HIDE DEF bytes, e, b, B
  <2>2. (bytes \o e) \o b = bytes \o (e \o b)
    BY <2>1, Concat3
  <2> QED BY <1>3, <2>2, Zenon DEF Memory, Beyond, bytes, e, b
<1> HIDE DEF bytes, e, z, s
<1>8. Comes(s, bytes \o z)
  BY <1>5, <1>6, <1>7, Zenon DEF Comes
<1> DEFINE n == Len(records)
           x(i) == ListOf(records[i])
<1>9. n \in 0 .. 2 /\ \A i \in 1 .. n : Readable(records[i]) /\ x(i) \in Seq(Option)
  <2>1. n \in Nat /\ n <= 2
    OBVIOUS
  <2>2. \A i \in 1 .. n : Readable(records[i]) /\ x(i) \in Seq(Option)
    BY Zenon DEF Readable
  <2> HIDE DEF n
  <2> QED BY <2>1, <2>2
<1>10. Len(s.attached) = 0 /\ \A y : Append(s.attached, y) = << y >>
  <2>1. Len(<<>>) = 0 /\ \A y : Append(<<>>, y) = << y >>
    OBVIOUS
  <2> QED BY <1>5, <2>1
<1>11. Attached = f[s].attached
  BY <1>1, Zenon DEF s
<1>12. \A t : Comes(t, z) => f[t].attached = t.attached
  BY <1>2, ErasedEnds, Zenon DEF z
<1>13. CASE records = <<>>
  <2>1. bytes \o z = z
    <3>1. bytes = <<>>
      BY <1>13, FlattenEmpty DEF bytes
    <3> QED BY <1>4, <3>1
  <2>2. Attached = <<>>
    BY <1>5, <1>8, <1>11, <1>12, <2>1, Zenon
  <2>3. n = 0
    BY <1>13
  <2>4. ~(n > 0)
    BY <2>3
  <2> HIDE DEF n
  <2>5. n = Len(records)
    BY DEF n
  <2> QED BY <1>9, <2>2, <2>4, <2>5, AttachedFew, Zenon DEF x
<1>14. CASE Len(records) = 1 /\ records = << records[1] >> /\ records[1] \in T
  <2> DEFINE r == records[1]
  <2>1. bytes = r
    BY <1>14, FlattenFew, Zenon DEF bytes, T
  <2>2. Comes(s, r \o z) /\ Readable(r)
    <3>1. 1 \in 1 .. n
      BY <1>14
    <3> QED BY <1>8, <1>9, <2>1, <3>1, Zenon
  <2>3. /\ ~Taken(x(1), 0) => f[s].attached = s.attached
        /\ Taken(x(1), 0) => GoesOn(f, s, x(1), z)
    <3>1. /\ ~Taken(ListOf(r), Len(s.attached)) => f[s].attached = s.attached
          /\ Taken(ListOf(r), Len(s.attached)) => GoesOn(f, s, ListOf(r), z)
      BY <1>2, <1>4, <2>2, RecordAttached, Zenon
    <3> QED BY <1>10, <3>1, Zenon
  <2>4. Attached = IF Taken(x(1), 0) THEN << x(1) >> ELSE <<>>
    BY <1>5, <1>10, <1>11, <1>12, <2>3, Zenon DEF GoesOn
  <2>5. n = 1
    BY <1>14
  <2>6. n > 0 /\ ~(n > 1)
    BY <2>5
  <2> HIDE DEF n
  <2>7. n = Len(records)
    BY DEF n
  <2> QED BY <1>9, <2>4, <2>6, <2>7, AttachedFew, Zenon DEF x
<1>15. CASE Len(records) = 2 /\ records = << records[1], records[2] >>
            /\ records[1] \in T /\ records[2] \in T
  <2> DEFINE r == records[1]
             r2 == records[2]
             rest == r2 \o z
  <2>1. bytes = r \o r2
    BY <1>15, FlattenFew, Zenon DEF bytes, T
  <2>2. bytes \o z = r \o rest /\ rest \in Seq(Byte) /\ rest # <<>>
    <3> DEFINE B == Byte
    <3>1. r \in Seq(B) /\ r2 \in Seq(B) /\ z \in Seq(B) /\ z # <<>>
      BY <1>4, <1>15
    <3> HIDE DEF r, r2, B
    <3>2. (r \o r2) \o z = r \o (r2 \o z)
      <4>1. \A a, b, c \in Seq(B) : (a \o b) \o c = a \o (b \o c)
        BY Concat3
      <4> QED BY <3>1, <4>1, Zenon
    <3>3. r2 \o z \in Seq(B) /\ r2 \o z # <<>>
      BY <3>1
    <3> QED BY <2>1, <3>2, <3>3 DEF B
  <2> HIDE DEF rest
  <2>3. Comes(s, r \o rest) /\ Readable(r) /\ Readable(r2)
    <3>1. 1 \in 1 .. n /\ 2 \in 1 .. n
      BY <1>15
    <3> QED BY <1>8, <1>9, <2>2, <3>1, Zenon
  <2>4. /\ ~Taken(x(1), 0) => f[s].attached = s.attached
        /\ Taken(x(1), 0) => GoesOn(f, s, x(1), rest)
    <3>1. /\ ~Taken(ListOf(r), Len(s.attached)) => f[s].attached = s.attached
          /\ Taken(ListOf(r), Len(s.attached)) => GoesOn(f, s, ListOf(r), rest)
      BY <1>2, <2>2, <2>3, RecordAttached, Zenon
    <3> QED BY <1>10, <3>1, Zenon
  <2>5. ASSUME NEW t, Comes(t, rest), t.attached = << x(1) >>
        PROVE  f[t].attached = IF Taken(x(2), 1) THEN << x(1), x(2) >> ELSE << x(1) >>
    <3> DEFINE a == x(1)
               b == x(2)
               A == Seq(Option)
    <3>0. a \in A /\ b \in A
      <4>1. 1 \in 1 .. n /\ 2 \in 1 .. n
        BY <1>15
      <4> QED BY <1>9, <4>1, Zenon
    <3> HIDE DEF a, b, A
    <3>1. Len(<< a >>) = 1 /\ Append(<< a >>, b) = << a, b >>
      BY <3>0, AppendTwo
    <3>2. Len(t.attached) = 1 /\ Append(t.attached, x(2)) = << x(1), x(2) >>
      BY <2>5, <3>1, Zenon DEF a, b
    <3>3. Comes(t, r2 \o z)
      BY <2>5, Zenon DEF rest
    <3>4. /\ ~Taken(x(2), 1) => f[t].attached = t.attached
          /\ Taken(x(2), 1) => GoesOn(f, t, x(2), z)
      BY <1>2, <1>4, <2>3, <3>2, <3>3, RecordAttached, ZenonT(90)
    <3> QED BY <1>12, <2>5, <3>2, <3>4, Zenon DEF GoesOn
  <2>6. Attached = IF ~Taken(x(1), 0) THEN <<>>
                   ELSE IF Taken(x(2), 1) THEN << x(1), x(2) >> ELSE << x(1) >>
    <3>1. ASSUME Taken(x(1), 0)
          PROVE  f[s].attached = IF Taken(x(2), 1) THEN << x(1), x(2) >> ELSE << x(1) >>
      BY <1>10, <2>4, <2>5, <3>1, Zenon DEF GoesOn
    <3> QED BY <1>5, <1>11, <2>4, <3>1, Zenon
  <2>7. n = 2
    BY <1>15
  <2>8. n > 0 /\ n > 1
    BY <2>7
  <2> HIDE DEF n
  <2>9. n = Len(records)
    BY DEF n
  <2> QED BY <1>9, <2>6, <2>8, <2>9, AttachedFew, Zenon DEF x
<1>16. records \in Seq(T)
  BY Zenon
<1> HIDE DEF T
<1> QED BY <1>13, <1>14, <1>15, <1>16, FewAre

-----------------------------------------------------------------------------
(* Tables whose observers can be saved *)

LEMMA StoredResourceIs ==
    /\ \A u \in PathLists, b \in BOOLEAN, v \in Seq(Good) :
          [uri |-> u, notifier |-> b, observers |-> v] \in StoredResource
    /\ \A r \in StoredResource, v \in Seq(Good) :
          /\ [r EXCEPT !.observers = v] \in StoredResource
          /\ [r EXCEPT !.observers = v].uri = r.uri /\ [r EXCEPT !.observers = v].observers = v
<1> DEFINE V == Seq(Good)
           P == PathLists
<1>1. StoredResource = [uri : P, notifier : BOOLEAN, observers : V]
  BY DEF StoredResource
<1> HIDE DEF V, P
<1>2. /\ \A u \in P, b \in BOOLEAN, v \in V :
            [uri |-> u, notifier |-> b, observers |-> v] \in StoredResource
      /\ \A r \in StoredResource, v \in V :
            /\ [r EXCEPT !.observers = v] \in StoredResource
            /\ [r EXCEPT !.observers = v].uri = r.uri /\ [r EXCEPT !.observers = v].observers = v
  BY <1>1
<1> QED BY <1>2 DEF V, P

LEMMA NewResourceIs ==
    ASSUME NEW string \in Seq(Byte), PlainUri(string), NEW notifier \in BOOLEAN
    PROVE  /\ NewResource(string, notifier) \in StoredResource
           /\ NewResource(string, notifier).observers = <<>>
<1> DEFINE u == UriOptionsFromString(string)
           v == <<>>
<1>1. u \in PathLists
  <2>1. Of(u, OPT_NUM_URI_PATH) /\ u # <<>>
    BY PlainUriIs
  <2> HIDE DEF u
  <2>2. u \in Seq(Option)
    BY <2>1, Zenon DEF Of
  <2> QED BY <2>1, <2>2 DEF PathLists
<1>2. v \in Seq(Good)
  OBVIOUS
<1>3. NewResource(string, notifier) = [uri |-> u, notifier |-> notifier, observers |-> v]
  BY Zenon DEF NewResource
<1> HIDE DEF u
<1>4. [uri |-> u, notifier |-> notifier, observers |-> v] \in StoredResource
  BY <1>1, <1>2, StoredResourceIs
<1> QED BY <1>3, <1>4

AllGood(table, f) == \A k \in 1 .. Len(table) : f[k] \in Seq(Good)
StoredAs(new, table, f) ==
    /\ new \in Seq(StoredResource) /\ Len(new) = Len(table)
    /\ \A k \in 1 .. Len(table) : new[k].uri = table[k].uri /\ new[k].observers = f[k]

LEMMA StoredAll ==
    ASSUME NEW table \in Seq(StoredResource), NEW f, AllGood(table, f),
           NEW new, new = [k \in DOMAIN table |-> [table[k] EXCEPT !.observers = f[k]]]
    PROVE  StoredAs(new, table, f)
<1> DEFINE n == Len(table)
           T == StoredResource
<1>1. DOMAIN table = 1 .. n /\ n \in Nat /\ \A k \in 1 .. n : table[k] \in T
  OBVIOUS
<1>2. ASSUME NEW k \in 1 .. n
      PROVE  new[k] \in T /\ new[k].uri = table[k].uri /\ new[k].observers = f[k]
  <2> DEFINE x == table[k]
             v == f[k]
  <2>1. x \in StoredResource /\ v \in Seq(Good) /\ new[k] = [x EXCEPT !.observers = v]
    BY <1>1, <1>2 DEF AllGood
  <2> HIDE DEF x, v
  <2>2. /\ [x EXCEPT !.observers = v] \in StoredResource
        /\ [x EXCEPT !.observers = v].uri = x.uri /\ [x EXCEPT !.observers = v].observers = v
    BY <2>1, StoredResourceIs
  <2> QED BY <2>1, <2>2, Zenon DEF x, v
<1>3. new \in Seq(T) /\ Len(new) = n
  <2>1. new = [k \in 1 .. n |-> new[k]]
    BY <1>1
  <2> HIDE DEF T, n
  <2>2. new \in [1 .. n -> T]
    BY <1>2, <2>1, Zenon
  <2> QED BY <1>1, <2>2
<1> QED BY <1>2, <1>3, Zenon DEF StoredAs

LEMMA StoredOne ==
    ASSUME NEW table \in Seq(StoredResource), NEW i \in DOMAIN table, NEW v \in Seq(Good),
           NEW new, new = [table EXCEPT ![i].observers = v]
    PROVE  new \in Seq(StoredResource)
<1> DEFINE T == StoredResource
           x == table[i]
           y == [x EXCEPT !.observers = v]
<1>1. x \in T
  OBVIOUS
<1>2. y \in T
  <2> HIDE DEF x
  <2> QED BY <1>1, StoredResourceIs
<1>3. new = [table EXCEPT ![i] = y]
  BY Zenon
<1> HIDE DEF T, y
<1>4. table \in Seq(T)
  BY DEF T
<1>5. [table EXCEPT ![i] = y] \in Seq(T)
  BY <1>2, <1>4
<1> QED BY <1>3, <1>5 DEF T

LEMMA StoredAppend ==
    ASSUME NEW table \in Seq(StoredResource), NEW r \in StoredResource
    PROVE  /\ Append(table, r) \in Seq(StoredResource) /\ Len(Append(table, r)) = Len(table) + 1
           /\ \A k \in 1 .. Len(table) : Append(table, r)[k] = table[k]
           /\ Append(table, r)[Len(table) + 1] = r
OBVIOUS

\* Somebody observes the resource with these options.
Observes(table, uri, o) ==
    \E k \in 1 .. Len(table) : table[k].uri = uri /\ Has(table[k].observers, o)

LEMMA ObserversAtIs ==
    ASSUME NEW table \in Seq(StoredResource), NEW uri, NEW o
    PROVE  o \in ObserversAt(table, uri) <=> Observes(table, uri, o)
<1>1. DOMAIN table = 1 .. Len(table) /\ \A k \in 1 .. Len(table) : table[k] \in StoredResource
  OBVIOUS
<1>2. ASSUME NEW k \in 1 .. Len(table)
      PROVE  o \in Range(table[k].observers) <=> Has(table[k].observers, o)
  <2> DEFINE os == table[k].observers
  <2>1. os \in Seq(Good)
    BY <1>1, RowType, Zenon
  <2> HIDE DEF os
  <2>2. DOMAIN os = 1 .. Len(os)
    BY <2>1
  <2>3. o \in Range(os) <=> Has(os, o)
    BY <2>2, Zenon DEF Range, Has
  <2> QED BY <2>3 DEF os
<1>3. o \in ObserversAt(table, uri) <=>
        \E k \in 1 .. Len(table) : table[k].uri = uri /\ o \in Range(table[k].observers)
  BY <1>1, Zenon DEF ObserversAt
<1> QED BY <1>2, <1>3, Zenon DEF Observes

LEMMA ObservedIsGood ==
    ASSUME NEW table \in Seq(StoredResource), NEW k \in 1 .. Len(table),
           NEW j \in 1 .. Len(table[k].observers)
    PROVE  table[k].observers[j] \in Good
<1> DEFINE os == table[k].observers
<1>1. os \in Seq(Good)
  <2>1. table[k] \in StoredResource
    OBVIOUS
  <2> QED BY <2>1, RowType, Zenon
<1>2. j \in 1 .. Len(os)
  OBVIOUS
<1> HIDE DEF os
<1>3. os[j] \in Good
  BY <1>1, <1>2
<1> QED BY <1>3 DEF os

Unobserved(table) == \A k \in 1 .. Len(table) : table[k].observers = <<>>

LEMMA UnobservedCount ==
    ASSUME NEW table \in Seq(StoredResource), Unobserved(table)
    PROVE  NumObservers(table) = 0
<1> DEFINE n == Len(table)
           f == [k \in DOMAIN table |-> table[k].observers]
           T == Seq(Good)
<1>1. DOMAIN table = 1 .. n /\ n \in Nat
  OBVIOUS
<1>2. \A k \in 1 .. n : f[k] = <<>>
  BY <1>1, Zenon DEF Unobserved
<1>3. f \in Seq(T) /\ Len(f) = n
  <2>1. <<>> \in T
    OBVIOUS
  <2>2. f = [k \in 1 .. n |-> f[k]]
    BY <1>1, Zenon
  <2> HIDE DEF f, n, T
  <2>3. f \in [1 .. n -> T]
    BY <1>2, <2>1, <2>2, Zenon
  <2> QED BY <1>1, <2>3
<1>4. NumObservers(table) = Len(FlattenSeq(f))
  BY Zenon DEF NumObservers
<1> HIDE DEF f
<1>5. FlattenSeq(f) = <<>>
  <2> HIDE DEF n
  <2>1. f \in Seq(Seq(Good)) /\ \A k \in 1 .. Len(f) : f[k] = <<>>
    BY <1>2, <1>3
  <2> QED BY <2>1, FlattenNone
<1>6. Len(<<>>) = 0
  OBVIOUS
<1> QED BY <1>4, <1>5, <1>6, Zenon

\* The observers that come from lists are those that the lists describe.
LEMMA ObserversFromHas ==
    ASSUME NEW lists \in Seq(Seq(Option)), NEW k, NEW o
    PROVE  /\ Has(ObserversFrom(lists, k), o) <=>
                \E list : /\ Has(lists, list) /\ k \in FindResourceByUri(resources, list)
                          /\ o = LoadedObserver(list)
           /\ \E S : ObserversFrom(lists, k) \in Seq(S)
<1> DEFINE n == Len(lists)
           Mine(j) == k \in FindResourceByUri(resources, lists[j])
           T == {LoadedObserver(lists[j]) : j \in 1 .. n}
           row(j) == IF Mine(j) THEN << LoadedObserver(lists[j]) >> ELSE <<>>
           f == [j \in DOMAIN lists |-> row(j)]
<1>1. DOMAIN lists = 1 .. n /\ n \in Nat
  OBVIOUS
<1>2. ObserversFrom(lists, k) = FlattenSeq(f)
  BY Zenon DEF ObserversFrom
<1>3. ASSUME NEW j \in 1 .. n
      PROVE  row(j) \in Seq(T) /\ (Has(row(j), o) <=> Mine(j) /\ o = LoadedObserver(lists[j]))
  <2> DEFINE x == LoadedObserver(lists[j])
             none == <<>>
  <2>1. x \in T
    OBVIOUS
  <2>2. row(j) = IF Mine(j) THEN << x >> ELSE none
    BY Zenon
  <2> HIDE DEF x, T, Mine
  <2>3. << x >> \in Seq(T) /\ none \in Seq(T)
    BY <2>1
  <2>4. Has(<< x >>, o) <=> o = x
    BY HasFew
  <2>5. ~Has(none, o)
    BY HasFew
  <2> HIDE DEF row, none
  <2>6. CASE Mine(j)
    BY <2>2, <2>3, <2>4, <2>6, Zenon DEF x
  <2>7. CASE ~Mine(j)
    BY <2>2, <2>3, <2>5, <2>7, Zenon
  <2> QED BY <2>6, <2>7
<1> HIDE DEF T, Mine
<1>4. f \in Seq(Seq(T)) /\ Len(f) = n /\ \A j \in 1 .. n : f[j] = row(j)
  <2> HIDE DEF row
  <2>1. f = [j \in 1 .. n |-> row(j)]
    BY <1>1, Zenon
  <2> DEFINE U == Seq(T)
  <2> HIDE DEF U, n, f
  <2>2. f \in [1 .. n -> U]
    BY <1>3, <2>1, Zenon DEF U
  <2>3. f \in Seq(U) /\ Len(f) = n
    BY <1>1, <2>2
  <2> QED BY <2>1, <2>3, Zenon DEF U
<1> HIDE DEF f, row
<1>5. Has(FlattenSeq(f), o) <=> \E j \in 1 .. Len(f) : Has(f[j], o)
  BY <1>4, FlattenHas
<1>6. Has(FlattenSeq(f), o) <=> \E j \in 1 .. n : Mine(j) /\ o = LoadedObserver(lists[j])
  BY <1>3, <1>4, <1>5, Zenon
<1>7. FlattenSeq(f) \in Seq(T)
  BY <1>4, FlattenType
<1>8. \E S : ObserversFrom(lists, k) \in Seq(S)
  BY <1>2, <1>7, Zenon
<1> QED BY <1>2, <1>6, <1>8, Zenon DEF Has, Mine

LEMMA ElementsIn ==
    ASSUME NEW S, NEW T, NEW s \in Seq(T), \A x : Has(s, x) => x \in S
    PROVE  s \in Seq(S)
<1> DEFINE n == Len(s)
<1>1. DOMAIN s = 1 .. n /\ n \in Nat /\ s = [i \in 1 .. n |-> s[i]]
  OBVIOUS
<1>2. \A i \in 1 .. n : s[i] \in S
  BY Zenon DEF Has
<1> HIDE DEF n
<1>3. s \in [1 .. n -> S]
  BY <1>1, <1>2, Zenon
<1> QED BY <1>1, <1>3

\* What the page holds is a record, with the observer it restores.
Describes(list, table, k, j) ==
    /\ k \in 1 .. Len(table) /\ j \in 1 .. Len(table[k].observers)
    /\ Restores(list, table[k].observers[j], PathOf(table[k], j))

LEMMA RecordsDescribe ==
    ASSUME NEW table \in Seq(StoredResource)
    PROVE  /\ \A r : Has(Records(table), r) =>
                /\ Readable(r)
                /\ \E k \in 1 .. Len(table) : \E j \in 1 .. Len(table[k].observers) :
                      Describes(ListOf(r), table, k, j)
           /\ \A k \in 1 .. Len(table) : 1 \in 1 .. Len(table[k].observers) =>
                /\ Has(Records(table), Row(table[k])[1])
                /\ Describes(ListOf(Row(table[k])[1]), table, k, 1)
<1>1. ASSUME NEW k \in 1 .. Len(table), NEW j \in 1 .. Len(table[k].observers)
      PROVE  Readable(Row(table[k])[j]) /\ Describes(ListOf(Row(table[k])[j]), table, k, j)
  <2> DEFINE r == Row(table[k])[j]
             o == table[k].observers[j]
             path == PathOf(table[k], j)
  <2>1. table[k] \in StoredResource
    OBVIOUS
  <2>2. RecordOf(r, o, path)
    BY <2>1, RowType, Zenon
  <2> HIDE DEF r, o, path
  <2>3. Readable(r) /\ Restores(ListOf(r), o, path)
    BY <2>2, ReadableIs
  <2> QED BY <2>3, Zenon DEF Describes, r, o, path
<1>2. \A r : Has(Records(table), r) <=>
        \E k \in 1 .. Len(table) : \E j \in 1 .. Len(table[k].observers) : r = Row(table[k])[j]
  BY RecordsHave
<1>3. ASSUME NEW r, Has(Records(table), r)
      PROVE  /\ Readable(r)
             /\ \E k \in 1 .. Len(table) : \E j \in 1 .. Len(table[k].observers) :
                   Describes(ListOf(r), table, k, j)
  <2>1. PICK k \in 1 .. Len(table) : \E j \in 1 .. Len(table[k].observers) : r = Row(table[k])[j]
    BY <1>2, <1>3
  <2>2. PICK j \in 1 .. Len(table[k].observers) : r = Row(table[k])[j]
    BY <2>1
  <2>3. Readable(r) /\ Describes(ListOf(r), table, k, j)
    BY <1>1, <2>2
  <2> QED BY <2>3
<1>4. ASSUME NEW k \in 1 .. Len(table), 1 \in 1 .. Len(table[k].observers)
      PROVE  /\ Has(Records(table), Row(table[k])[1])
             /\ Describes(ListOf(Row(table[k])[1]), table, k, 1)
  BY <1>1, <1>2, <1>4, Zenon
<1> QED BY <1>3, <1>4

LEMMA ListsAttached ==
    ASSUME Recordable, resources \in Seq(StoredResource), flash \in Seq(Byte),
           saved \in Seq(StoredResource), NumObservers(saved) <= 2, Keeps(flash, Records(saved))
    PROVE  AttachedFrom(Attached, Records(saved))
<1> DEFINE records == Records(saved)
<1>1. records \in Seq(Seq(Byte)) /\ Len(records) = NumObservers(saved)
  BY RecordsCount
<1>2. \A i \in 1 .. Len(records) : Readable(records[i])
  BY RecordsDescribe, Zenon DEF Has
<1> HIDE DEF records
<1>3. Len(records) <= 2 /\ Keeps(flash, records)
  BY <1>1 DEF records
<1>4. AttachedFrom(Attached, records)
  BY <1>1, <1>2, <1>3, AttachedAre
<1> QED BY <1>4 DEF records

\* What is loaded for a resource was saved for it.
LEMMA LoadedWasSaved ==
    ASSUME resources \in Seq(StoredResource), saved \in Seq(StoredResource),
           AttachedFrom(Attached, Records(saved)), NEW k, NEW o, Has(ObserversFrom(Attached, k), o)
    PROVE  Observes(saved, resources[k].uri, o) /\ o \in Good
<1> DEFINE lists == Attached
           records == Records(saved)
<1>1. lists \in Seq(Seq(Option)) /\ \A l : Has(lists, l) => \E i \in 1 .. Len(records) : l = ListOf(records[i])
  BY Zenon DEF AttachedFrom
<1> HIDE DEF lists, records
<1>2. Has(ObserversFrom(lists, k), o)
  BY DEF lists
<1>3. PICK list : Has(lists, list) /\ k \in FindResourceByUri(resources, list) /\ o = LoadedObserver(list)
  BY <1>1, <1>2, ObserversFromHas
<1>4. PICK i \in 1 .. Len(records) : list = ListOf(records[i])
  BY <1>1, <1>3, Zenon
<1>5. PICK k2 \in 1 .. Len(saved) : \E j \in 1 .. Len(saved[k2].observers) :
        Describes(list, saved, k2, j)
  <2>1. Has(records, records[i])
    BY Zenon DEF Has
  <2> QED BY <1>4, <2>1, RecordsDescribe, Zenon DEF records
<1>6. PICK j \in 1 .. Len(saved[k2].observers) : Describes(list, saved, k2, j)
  BY <1>5
<1>7. /\ o = saved[k2].observers[j]
      /\ OptionsByNumber(list, OPT_NUM_URI_PATH) = PathOf(saved[k2], j)
  BY <1>3, <1>6, Zenon DEF Describes, Restores
<1>8. k \in 1 .. Len(resources) /\ resources[k].uri = PathOf(saved[k2], j)
  BY <1>3, <1>7, FindIs, Zenon
<1>9. resources[k].uri # <<>>
  <2>1. resources[k] \in StoredResource
    BY <1>8
  <2> QED BY <2>1, RowType, Zenon
<1>10. resources[k].uri = saved[k2].uri
  BY <1>8, <1>9, Zenon DEF PathOf
<1>11. Has(saved[k2].observers, o)
  BY <1>7, Zenon DEF Has
<1>12. o \in Good
  BY <1>7, ObservedIsGood
<1> QED BY <1>10, <1>11, <1>12, Zenon DEF Observes

\* The first observer of a resource is loaded for it.
LEMMA FirstIsLoaded ==
    ASSUME resources \in Seq(StoredResource), saved \in Seq(StoredResource),
           Unobserved(resources), NumObservers(saved) <= 2, MaxObservers >= 2,
           AttachedFrom(Attached, Records(saved)),
           \A k \in 1 .. Len(saved) : \E i \in 1 .. Len(resources) : resources[i].uri = saved[k].uri,
           NEW k \in 1 .. Len(saved), saved[k].observers # <<>>
    PROVE  \E i \in 1 .. Len(resources) :
             resources[i].uri = saved[k].uri /\ Has(ObserversFrom(Attached, i), saved[k].observers[1])
<1> DEFINE lists == Attached
           records == Records(saved)
           r == Row(saved[k])[1]
           list == ListOf(r)
<1>1. lists \in Seq(Seq(Option))
      /\ \A i \in 1 .. Len(records) : AllTaken(records, i) => Has(lists, ListOf(records[i]))
  BY Zenon DEF AttachedFrom
<1>2. ASSUME NEW k2 \in 1 .. Len(saved), 1 \in 1 .. Len(saved[k2].observers)
      PROVE  /\ Has(records, Row(saved[k2])[1])
             /\ LoadedObserver(ListOf(Row(saved[k2])[1])) = saved[k2].observers[1]
             /\ OptionsByNumber(ListOf(Row(saved[k2])[1]), OPT_NUM_URI_PATH) = saved[k2].uri
             /\ FindResourceByUri(resources, ListOf(Row(saved[k2])[1])) # {}
  <2>1. Has(records, Row(saved[k2])[1]) /\ Describes(ListOf(Row(saved[k2])[1]), saved, k2, 1)
    BY <1>2, RecordsDescribe, Zenon
  <2> DEFINE x == ListOf(Row(saved[k2])[1])
  <2> HIDE DEF x
  <2>2. LoadedObserver(x) = saved[k2].observers[1]
        /\ OptionsByNumber(x, OPT_NUM_URI_PATH) = saved[k2].uri
    BY <2>1, Zenon DEF Describes, Restores, PathOf, x
  <2>3. FindResourceByUri(resources, x) # {}
    BY <2>2, FindIs, Zenon
  <2> QED BY <2>1, <2>2, <2>3 DEF x
<1>3. 1 \in 1 .. Len(saved[k].observers)
  <2> DEFINE os == saved[k].observers
  <2>1. os \in Seq(Good) /\ os # <<>>
    <3>1. saved[k] \in StoredResource
      OBVIOUS
    <3> QED BY <3>1, RowType, Zenon
  <2> HIDE DEF os
  <2>2. 1 \in 1 .. Len(os)
    BY <2>1
  <2> QED BY <2>2 DEF os
<1>4. Has(records, r) /\ LoadedObserver(list) = saved[k].observers[1]
      /\ OptionsByNumber(list, OPT_NUM_URI_PATH) = saved[k].uri /\ FindResourceByUri(resources, list) # {}
  BY <1>2, <1>3, Zenon
<1>5. PICK i \in 1 .. Len(records) : r = records[i]
  BY <1>4, Zenon DEF Has
<1>6. records \in Seq(Seq(Byte)) /\ Len(records) <= 2
  BY RecordsCount
<1> DEFINE n == Len(records)
<1>7. n \in Nat /\ n <= 2 /\ i \in 1 .. n
  BY <1>6
<1>8. FindResourceByUri(resources, ListOf(records[1])) # {}
  <2>1. records # <<>>
    <3>1. Len(<<>>) = 0
      OBVIOUS
    <3> HIDE DEF records
    <3> QED BY <1>7, <3>1
  <2>2. PICK k2 \in 1 .. Len(saved) :
          1 \in 1 .. Len(saved[k2].observers) /\ records[1] = Row(saved[k2])[1]
    BY <2>1, FirstRecord
  <2> QED BY <1>2, <2>2, Zenon
<1> HIDE DEF records, r
<1>9. AllTaken(records, i)
  <2> SUFFICES ASSUME NEW j \in 1 .. i PROVE Taken(ListOf(records[j]), j - 1)
    BY DEF AllTaken
  <2>1. NumObservers(resources) = 0
    BY UnobservedCount
  <2>2. (j = 1 \/ j = i) /\ 0 + (j - 1) < MaxObservers
    <3> HIDE DEF n
    <3> QED BY <1>7, BoundsAssumption
  <2>3. FindResourceByUri(resources, ListOf(records[j])) # {}
    BY <1>4, <1>5, <1>8, <2>2, Zenon
  <2> QED BY <2>1, <2>2, <2>3, Zenon DEF Taken
<1>10. Has(lists, list)
  BY <1>1, <1>5, <1>9, Zenon
<1>11. PICK m : m \in FindResourceByUri(resources, list)
  BY <1>4
<1>12. m \in 1 .. Len(resources) /\ resources[m].uri = saved[k].uri
  BY <1>4, <1>11, FindIs, Zenon
<1>13. Has(ObserversFrom(lists, m), saved[k].observers[1])
  <2> DEFINE o == saved[k].observers[1]
  <2> HIDE DEF o, lists, list
  <2>1. \E l : Has(lists, l) /\ m \in FindResourceByUri(resources, l) /\ o = LoadedObserver(l)
    BY <1>4, <1>10, <1>11, Zenon DEF o
  <2>2. Has(ObserversFrom(lists, m), o)
    BY <1>1, <2>1, ObserversFromHas
  <2> QED BY <2>2 DEF o
<1> QED BY <1>12, <1>13

-----------------------------------------------------------------------------
(* What survives a restart *)

AllSaved(table, before) ==
    \A k \in 1 .. Len(table) : \A o :
        Has(table[k].observers, o) => Observes(before, table[k].uri, o)
AllReturned(table, before) ==
    \A k \in 1 .. Len(before) :
        before[k].observers # <<>> => Observes(table, before[k].uri, before[k].observers[1])

Survived(table, before) ==
    AllSaved(table, before) /\ (MaxObservers >= 2 => AllReturned(table, before))

NVInv ==
    /\ TableInv
    /\ resources \in Seq(StoredResource) /\ saved \in Seq(StoredResource)
    /\ phase \in {"boot", "loaded", "run"}
    /\ phase = "boot" => Unobserved(resources)
    /\ phase # "boot" => created = Len(Application)
    /\ NumObservers(saved) <= 2
    /\ saved = <<>> \/ TableOf(saved, OfferedAfter(Len(Application)))
    /\ flash \in Seq(Byte) /\ Keeps(flash, Records(saved))
    /\ phase = "loaded" => Survived(resources, saved)

\* From the third record on, records are written behind the place where loading
\* looks for them (RecordStart).
AtMostTwo == NumObservers(resources) <= 2

LEMMA KeptIs ==
    ASSUME resources \in Seq(StoredResource), saved \in Seq(StoredResource), Survived(resources, saved)
    PROVE  /\ \A k \in DOMAIN resources :
                 Range(resources[k].observers) \subseteq ObserversAt(saved, resources[k].uri)
           /\ MaxObservers >= 2 => \A k \in DOMAIN saved : saved[k].observers # <<>> =>
                 saved[k].observers[1] \in ObserversAt(resources, saved[k].uri)
<1>1. /\ DOMAIN resources = 1 .. Len(resources) /\ DOMAIN saved = 1 .. Len(saved)
      /\ \A k \in 1 .. Len(resources) : resources[k] \in StoredResource
  OBVIOUS
<1>2. ASSUME NEW k \in 1 .. Len(resources), NEW o \in Range(resources[k].observers)
      PROVE  o \in ObserversAt(saved, resources[k].uri)
  <2> DEFINE os == resources[k].observers
  <2>1. os \in Seq(Good)
    BY <1>1, RowType, Zenon
  <2> HIDE DEF os
  <2>2. DOMAIN os = 1 .. Len(os)
    BY <2>1
  <2>3. o \in Range(os)
    BY DEF os
  <2>4. Has(os, o)
    BY <2>2, <2>3, Zenon DEF Range, Has
  <2>5. Observes(saved, resources[k].uri, o)
    BY <2>4, Zenon DEF Survived, AllSaved, os
  <2> QED BY <2>5, ObserversAtIs, Zenon
<1>3. ASSUME MaxObservers >= 2, NEW k \in 1 .. Len(saved), saved[k].observers # <<>>
      PROVE  saved[k].observers[1] \in ObserversAt(resources, saved[k].uri)
  <2>1. Observes(resources, saved[k].uri, saved[k].observers[1])
    BY <1>3, Zenon DEF Survived, AllReturned
  <2> QED BY <2>1, ObserversAtIs, Zenon
<1> QED BY <1>1, <1>2, <1>3, Zenon

\* A page that was just written holds what the table has.
LEMMA SavedIsKept ==
    ASSUME NEW table \in Seq(StoredResource)
    PROVE  Survived(table, table)
<1>1. AllSaved(table, table)
  BY Zenon DEF AllSaved, Observes
<1>2. ASSUME NEW k \in 1 .. Len(table), table[k].observers # <<>>
      PROVE  Observes(table, table[k].uri, table[k].observers[1])
  <2> DEFINE os == table[k].observers
  <2>1. os \in Seq(Good) /\ os # <<>>
    <3>1. table[k] \in StoredResource
      OBVIOUS
    <3> QED BY <1>2, <3>1, RowType, Zenon
  <2> HIDE DEF os
  <2>2. 1 \in 1 .. Len(os)
    BY <2>1
  <2>3. Has(os, os[1])
    BY <2>2, Zenon DEF Has
  <2> QED BY <2>3, Zenon DEF Observes, os
<1> QED BY <1>1, <1>2, Zenon DEF Survived, AllReturned

LEMMA LoadKeeps ==
    ASSUME Recordable, NVInv, phase = "boot", created = Len(Application),
           NEW new, new = [k \in DOMAIN resources |->
                             [resources[k] EXCEPT !.observers = @ \o ObserversFrom(Attached, k)]]
    PROVE  new \in Seq(StoredResource) /\ Survived(new, saved)
<1>1. /\ resources \in Seq(StoredResource) /\ saved \in Seq(StoredResource)
      /\ Unobserved(resources) /\ NumObservers(saved) <= 2
      /\ flash \in Seq(Byte) /\ Keeps(flash, Records(saved))
      /\ saved = <<>> \/ TableOf(saved, OfferedAfter(Len(Application)))
      /\ TableOf(resources, OfferedAfter(Len(Application)))
  BY Zenon DEF NVInv, TableInv
<1>2. AttachedFrom(Attached, Records(saved))
  BY <1>1, ListsAttached
<1> DEFINE lists == Attached
           n == Len(resources)
           f == [k \in 1 .. n |-> ObserversFrom(lists, k)]
<1>3. DOMAIN resources = 1 .. n /\ n \in Nat
  BY <1>1
<1>4. lists \in Seq(Seq(Option))
  BY <1>2, Zenon DEF AttachedFrom
<1>5. ASSUME NEW k, NEW o, Has(ObserversFrom(lists, k), o)
      PROVE  Observes(saved, resources[k].uri, o) /\ o \in Good
  BY <1>1, <1>2, <1>5, LoadedWasSaved
<1> HIDE DEF lists
<1>6. ASSUME NEW k PROVE ObserversFrom(lists, k) \in Seq(Good)
  <2>1. PICK S : ObserversFrom(lists, k) \in Seq(S)
    BY <1>4, ObserversFromHas
  <2> DEFINE os == ObserversFrom(lists, k)
  <2>2. \A o : Has(os, o) => o \in Good
    BY <1>5
  <2>3. os \in Seq(S)
    BY <2>1
  <2> HIDE DEF os
  <2>4. os \in Seq(Good)
    BY <2>2, <2>3, ElementsIn
  <2> QED BY <2>4 DEF os
<1>7. new = [k \in DOMAIN resources |-> [resources[k] EXCEPT !.observers = f[k]]]
  <2>1. ASSUME NEW k \in DOMAIN resources
        PROVE  resources[k].observers \o ObserversFrom(lists, k) = f[k]
    <3>1. resources[k].observers = <<>> /\ f[k] = ObserversFrom(lists, k)
      BY <1>1, <1>3, Zenon DEF Unobserved
    <3> DEFINE os == ObserversFrom(lists, k)
    <3>2. os \in Seq(Good)
      BY <1>6
    <3> HIDE DEF os
    <3>3. <<>> \o os = os
      BY <3>2
    <3> QED BY <3>1, <3>3, Zenon DEF os
  <2>2. new = [k \in DOMAIN resources |->
                 [resources[k] EXCEPT !.observers = resources[k].observers \o ObserversFrom(lists, k)]]
    BY Zenon DEF lists
  <2> HIDE DEF f
  <2> QED BY <2>1, <2>2, Zenon
<1>8. \A k \in 1 .. n : f[k] = ObserversFrom(lists, k)
  BY Zenon
<1> HIDE DEF f
<1>9. \A k \in 1 .. n : f[k] \in Seq(Good)
  BY <1>6, <1>8, Zenon
<1>10. /\ new \in Seq(StoredResource) /\ Len(new) = n
       /\ \A k \in 1 .. n : new[k].uri = resources[k].uri /\ new[k].observers = f[k]
  <2>1. AllGood(resources, f)
    BY <1>9, Zenon DEF AllGood
  <2>2. StoredAs(new, resources, f)
    BY <1>1, <1>7, <2>1, StoredAll, Zenon
  <2> QED BY <2>2, Zenon DEF StoredAs
<1>11. AllSaved(new, saved)
  BY <1>5, <1>8, <1>10, ZenonT(90) DEF AllSaved
<1>12. ASSUME MaxObservers >= 2 PROVE AllReturned(new, saved)
  <2> SUFFICES ASSUME NEW k \in 1 .. Len(saved), saved[k].observers # <<>>
               PROVE  Observes(new, saved[k].uri, saved[k].observers[1])
    BY Zenon DEF AllReturned
  <2>1. saved # <<>>
    <3>1. ~(k \in 1 .. Len(<<>>))
      OBVIOUS
    <3> QED BY <3>1, Zenon
  <2>2. \A k2 \in 1 .. Len(saved) : \E i \in 1 .. Len(resources) : resources[i].uri = saved[k2].uri
    <3> DEFINE strings == OfferedAfter(Len(Application))
    <3>1. TableOf(saved, strings) /\ TableOf(resources, strings)
      BY <1>1, <2>1
    <3> HIDE DEF strings
    <3> QED BY <3>1, Zenon DEF TableOf
  <2>3. PICK i \in 1 .. Len(resources) :
          resources[i].uri = saved[k].uri /\ Has(ObserversFrom(lists, i), saved[k].observers[1])
    BY <1>1, <1>2, <1>12, <2>2, FirstIsLoaded DEF lists
  <2> QED BY <1>8, <1>10, <2>3, ZenonT(90) DEF Observes
<1> QED BY <1>10, <1>11, <1>12, Zenon DEF Survived

\* What a save leaves, and only a save changes.
SavedOK ==
    /\ saved \in Seq(StoredResource) /\ NumObservers(saved) <= 2
    /\ saved = <<>> \/ TableOf(saved, OfferedAfter(Len(Application)))
    /\ flash \in Seq(Byte) /\ Keeps(flash, Records(saved))

LEMMA SavedUnchanged == SavedOK /\ UNCHANGED <<saved, flash>> => SavedOK'
BY Zenon DEF SavedOK

LEMMA NVInvIs ==
    NVInv <=> /\ TableInv /\ SavedOK /\ resources \in Seq(StoredResource)
              /\ phase \in {"boot", "loaded", "run"}
              /\ phase = "boot" => Unobserved(resources)
              /\ phase # "boot" => created = Len(Application)
              /\ phase = "loaded" => Survived(resources, saved)
BY Zenon DEF NVInv, SavedOK

LEMMA WellKnownStored == << WellKnown >> \in Seq(StoredResource) /\ Unobserved(<< WellKnown >>)
<1> DEFINE w == WellKnown
           T == StoredResource
<1>1. w \in T /\ w.observers = <<>>
  <2>1. FALSE \in BOOLEAN
    OBVIOUS
  <2> QED BY <2>1, CoreUriType, CoreIsPlain, NewResourceIs DEF WellKnown
<1> HIDE DEF w, T
<1>2. << w >> \in Seq(T) /\ Len(<< w >>) = 1 /\ << w >>[1] = w
  BY <1>1
<1>3. \A k \in 1 .. Len(<< w >>) : << w >>[k] = w
  BY <1>2
<1>4. Unobserved(<< w >>)
  BY <1>1, <1>3, Zenon DEF Unobserved
<1> QED BY <1>2, <1>4 DEF w, T

LEMMA NVInit == Init => NVInv
<1> SUFFICES ASSUME Init PROVE NVInv
  OBVIOUS
<1>1. /\ resources = << WellKnown >> /\ phase = "boot" /\ saved = <<>>
      /\ flash = Erased(PageSize)
  BY Zenon DEF Init, Erased
<1>2. TableInv
  BY TableInit
<1>3. saved \in Seq(StoredResource)
  BY <1>1
<1>4. NumObservers(saved) = 0
  <2>1. Unobserved(saved)
    <3>1. \A k \in 1 .. Len(<<>>) : FALSE
      OBVIOUS
    <3> QED BY <1>1, <3>1, Zenon DEF Unobserved
  <2> QED BY <1>3, <2>1, UnobservedCount
<1>5. flash \in Seq(Byte) /\ Keeps(flash, Records(saved))
  <2>1. Records(saved) = <<>>
    <3>1. Records(saved) \in Seq(Seq(Byte)) /\ Len(Records(saved)) = 0
      BY <1>3, <1>4, RecordsCount
    <3> DEFINE r == Records(saved)
               T == Seq(Byte)
    <3>2. r \in Seq(T) /\ Len(r) = 0
      BY <3>1
    <3> HIDE DEF r, T
    <3>3. r = <<>>
      BY <3>2
    <3> QED BY <3>3 DEF r
  <2>2. PageSize \in Nat
    BY PageAssumption
  <2> DEFINE e == Erased(PageSize)
  <2>3. e \in Seq(Byte)
    BY <2>2, ErasedIs
  <2> HIDE DEF e
  <2>4. e = <<>> \o e
    BY <2>3
  <2>5. flash = FlattenSeq(Records(saved)) \o Erased(PageSize)
    BY <1>1, <2>1, <2>4, FlattenEmpty, Zenon DEF e
  <2>6. Keeps(flash, Records(saved))
    BY <2>2, <2>5, Zenon DEF Keeps
  <2> QED BY <1>1, <2>3, <2>6, Zenon DEF e
<1>6. SavedOK
  BY <1>1, <1>3, <1>4, <1>5 DEF SavedOK
<1>7. phase \in {"boot", "loaded", "run"} /\ phase # "loaded"
  BY <1>1
<1> QED BY <1>1, <1>2, <1>6, <1>7, WellKnownStored, NVInvIs, Zenon

LEMMA NVStep == Recordable /\ NVInv /\ AtMostTwo /\ [Next]_vars => NVInv'
<1> SUFFICES ASSUME Recordable, NVInv, AtMostTwo, [Next]_vars PROVE NVInv'
  OBVIOUS
<1>1. TableInv'
  BY TableStep DEF NVInv
<1>2. /\ TableInv /\ SavedOK /\ resources \in Seq(StoredResource)
      /\ phase \in {"boot", "loaded", "run"}
      /\ phase = "boot" => Unobserved(resources)
      /\ phase # "boot" => created = Len(Application)
      /\ phase = "loaded" => Survived(resources, saved)
  BY NVInvIs, Zenon
<1>3. NVInv' <=> /\ TableInv' /\ SavedOK' /\ resources' \in Seq(StoredResource)
                 /\ phase' \in {"boot", "loaded", "run"}
                 /\ phase' = "boot" => Unobserved(resources')
                 /\ phase' # "boot" => created' = Len(Application)
                 /\ phase' = "loaded" => Survived(resources', saved')
  BY Zenon DEF NVInv, SavedOK
<1>4. "boot" # "loaded" /\ "run" # "loaded" /\ "run" # "boot" /\ "loaded" # "boot"
  OBVIOUS
<1>5. CASE CreateResource
  <2> DEFINE call == Application[created + 1]
  <2>1. phase = "boot" /\ phase' = phase /\ saved' = saved /\ flash' = flash
    BY <1>5, Zenon DEF CreateResource
  <2>2. resources' = IF call.methods = {} THEN resources
                     ELSE Append(resources, NewResource(call.Uri, call.notifier))
    BY <1>5, Zenon DEF CreateResource
  <2>3. created + 1 \in 1 .. Len(Application)
    <3>1. created < Len(Application) /\ created \in 0 .. Len(Application) /\ Len(Application) \in Nat
      BY <1>2, <1>5, ApplicationAssumption DEF CreateResource, TableInv
    <3> QED BY <3>1
  <2>4. call.Uri \in Seq(Byte) /\ call.notifier \in BOOLEAN /\ PlainUri(call.Uri)
    BY <2>3, OfferedCallType DEF Recordable
  <2> DEFINE new == NewResource(call.Uri, call.notifier)
  <2>5. new \in StoredResource /\ new.observers = <<>>
    <3> HIDE DEF call
    <3> QED BY <2>4, NewResourceIs
  <2> HIDE DEF call, new
  <2>6. /\ Append(resources, new) \in Seq(StoredResource)
        /\ Len(Append(resources, new)) = Len(resources) + 1
        /\ \A k \in 1 .. Len(resources) : Append(resources, new)[k] = resources[k]
        /\ Append(resources, new)[Len(resources) + 1] = new
    BY <1>2, <2>5, StoredAppend
  <2>7. Unobserved(Append(resources, new))
    <3> DEFINE n == Len(resources)
               table == Append(resources, new)
    <3>1. n \in Nat
      BY <1>2
    <3> HIDE DEF n, table
    <3>2. ASSUME NEW k \in 1 .. Len(table) PROVE table[k].observers = <<>>
      <4>1. k \in 1 .. n \/ k = n + 1
        BY <2>6, <3>1 DEF table, n
      <4>2. CASE k \in 1 .. n
        BY <1>2, <2>1, <2>6, <4>2, Zenon DEF Unobserved, table, n
      <4>3. CASE k = n + 1
        BY <2>5, <2>6, <4>3, Zenon DEF table, n
      <4> QED BY <4>1, <4>2, <4>3
    <3> QED BY <3>2, Zenon DEF Unobserved, table
  <2>8. resources' \in Seq(StoredResource) /\ Unobserved(resources')
    BY <1>2, <2>1, <2>2, <2>6, <2>7, Zenon DEF new
  <2>9. SavedOK'
    BY <1>2, <2>1, SavedUnchanged
  <2> QED BY <1>1, <1>2, <1>3, <1>4, <2>1, <2>8, <2>9, Zenon
<1>6. ASSUME Running, phase' = "run", created' = created, saved' = saved, flash' = flash,
             resources' \in Seq(StoredResource)
      PROVE  NVInv'
  <2>1. SavedOK'
    BY <1>2, <1>6, SavedUnchanged
  <2>2. phase # "boot"
    BY <1>6 DEF Running
  <2>3. phase' \in {"boot", "loaded", "run"}
    BY <1>6
  <2> QED BY <1>1, <1>2, <1>3, <1>4, <1>6, <2>1, <2>2, <2>3, Zenon
<1>7. ASSUME NEW client \in Clients, NEW uri \in Uris,
             HandleObservationInReq(client, UriOptionsFromString(uri))
      PROVE  NVInv'
  <2> DEFINE o == [Ep |-> client.Ep, socketHandle |-> client.socketHandle, Token |-> client.Token,
                   pOptList |-> <<Opt(OPT_NUM_OBSERVE, <<>>)>>
                       \o OptionsByNumber(UriOptionsFromString(uri), OPT_NUM_URI_QUERY)]
  <2>1. o \in Good
    BY RegisteredIsGood, Zenon
  <2>2. PICK k \in FindResourceByUri(resources, UriOptionsFromString(uri)) :
            resources' = [resources EXCEPT ![k].observers =
                            Append(OthersThan(o, resources[k].observers), o)]
    BY <1>7, Zenon DEF HandleObservationInReq
  <2> HIDE DEF o
  <2>3. k \in DOMAIN resources
    BY <2>2, Zenon DEF FindResourceByUri
  <2> DEFINE os == resources[k].observers
             v == Append(OthersThan(o, os), o)
  <2>4. os \in Seq(Good)
    <3>1. resources[k] \in StoredResource
      BY <1>2, <2>3
    <3> QED BY <3>1, RowType, Zenon
  <2>5. v \in Seq(Good)
    <3> HIDE DEF os
    <3>1. OthersThan(o, os) \in Seq(Good)
      BY <2>4, OthersThanType
    <3> QED BY <2>1, <3>1
  <2> HIDE DEF os
  <2>6. resources' = [resources EXCEPT ![k].observers = v]
    BY <2>2, Zenon DEF os
  <2> HIDE DEF v
  <2>7. resources' \in Seq(StoredResource)
    BY <1>2, <2>3, <2>5, <2>6, StoredOne, Zenon
  <2>8. Running /\ phase' = "run" /\ created' = created /\ saved' = saved /\ flash' = flash
    BY <1>7, Zenon DEF HandleObservationInReq, serving
  <2> QED BY <1>6, <2>7, <2>8, Zenon
<1>8. ASSUME NEW k \in DOMAIN resources, NEW j \in DOMAIN resources[k].observers, RemoveObserver(k, j)
      PROVE  NVInv'
  <2> DEFINE os == resources[k].observers
             v == RemoveAt(os, j)
  <2>1. os \in Seq(Good)
    <3>1. resources[k] \in StoredResource
      BY <1>2
    <3> QED BY <3>1, RowType, Zenon
  <2>2. v \in Seq(Good)
    <3>1. j \in DOMAIN os
      OBVIOUS
    <3> HIDE DEF os
    <3> QED BY <2>1, <3>1 DEF RemoveAt
  <2>3. resources' = [resources EXCEPT ![k].observers = v]
    BY <1>8, Zenon DEF RemoveObserver
  <2> HIDE DEF v
  <2>4. resources' \in Seq(StoredResource)
    BY <1>2, <2>2, <2>3, StoredOne, Zenon
  <2>5. Running /\ phase' = "run" /\ created' = created /\ saved' = saved /\ flash' = flash
    BY <1>8, Zenon DEF RemoveObserver, serving
  <2> QED BY <1>6, <2>4, <2>5, Zenon
<1>9. CASE NVsaveObservers
  <2> DEFINE records == Records(resources)
             page == PageFilled(records)
  <2>1. /\ Running /\ FitsPage(records) /\ saved' = resources
        /\ flash' = FlashWritten(page, TotalBytes(records, Len(records)))
        /\ resources' = resources /\ created' = created /\ phase' = phase
    BY <1>9, Zenon DEF NVsaveObservers
  <2>2. records \in Seq(Seq(Byte)) /\ Len(records) = NumObservers(resources)
    BY <1>2, RecordsCount
  <2>3. Keeps(flash', records)
    <3> HIDE DEF records
    <3>1. Len(records) <= 2
      BY <2>2 DEF AtMostTwo
    <3>2. Keeps(FlashWritten(page, TotalBytes(records, Len(records))), records)
      BY <2>1, <2>2, <3>1, PageHolds
    <3> QED BY <2>1, <3>2, Zenon
  <2>4. flash' \in Seq(Byte)
    <3> HIDE DEF records
    <3>1. PICK m \in Nat : flash' = FlattenSeq(records) \o Erased(m)
      BY <2>3, Zenon DEF Keeps
    <3> DEFINE a == FlattenSeq(records)
               e == Erased(m)
    <3>2. a \in Seq(Byte) /\ e \in Seq(Byte)
      BY <2>2, FlattenType, ErasedIs
    <3> HIDE DEF a, e
    <3>3. a \o e \in Seq(Byte)
      BY <3>2
    <3> QED BY <3>1, <3>3, Zenon DEF a, e
  <2>5. phase # "boot"
    BY <2>1 DEF Running
  <2>6. TableOf(resources, OfferedAfter(Len(Application)))
    BY <1>2, <2>5, Zenon DEF TableInv
  <2>7. SavedOK'
    BY <1>2, <2>1, <2>3, <2>4, <2>6, Zenon DEF SavedOK, AtMostTwo
  <2>8. Survived(resources', saved')
    BY <1>2, <2>1, SavedIsKept, Zenon
  <2> QED BY <1>1, <1>2, <1>3, <2>1, <2>7, <2>8, Zenon
<1>10. CASE Restart
  <2>1. resources' = << WellKnown >> /\ phase' = "boot" /\ saved' = saved /\ flash' = flash
    BY <1>10, Zenon DEF Restart
  <2>2. SavedOK'
    BY <1>2, <2>1, SavedUnchanged
  <2>3. phase' \in {"boot", "loaded", "run"}
    BY <2>1
  <2> QED BY <1>1, <1>3, <1>4, <2>1, <2>2, <2>3, WellKnownStored, Zenon
<1>11. CASE NVloadObservers
  <2>1. /\ phase = "boot" /\ created = Len(Application) /\ phase' = "loaded"
        /\ created' = created /\ saved' = saved /\ flash' = flash
        /\ resources' = [k \in DOMAIN resources |->
                           [resources[k] EXCEPT !.observers = @ \o ObserversFrom(Attached, k)]]
    BY <1>11, Zenon DEF NVloadObservers
  <2>2. resources' \in Seq(StoredResource) /\ Survived(resources', saved)
    BY <2>1, LoadKeeps, Zenon
  <2>3. SavedOK'
    BY <1>2, <2>1, SavedUnchanged
  <2>4. phase' \in {"boot", "loaded", "run"}
    BY <2>1
  <2> QED BY <1>1, <1>3, <1>4, <2>1, <2>2, <2>3, <2>4, Zenon
<1>12. CASE UNCHANGED vars
  <2>1. /\ resources' = resources /\ created' = created /\ phase' = phase
        /\ saved' = saved /\ flash' = flash
    BY <1>12 DEF vars
  <2>2. SavedOK'
    BY <1>2, <2>1, SavedUnchanged
  <2> QED BY <1>1, <1>2, <1>3, <2>1, <2>2, Zenon
<1>13. CASE Next
  BY <1>5, <1>7, <1>8, <1>9, <1>10, <1>11, <1>13, Zenon DEF Next
<1> QED BY <1>12, <1>13

LEMMA NVInvHolds == Recordable => (Spec /\ []AtMostTwo => []NVInv)
<1> SUFFICES ASSUME Recordable PROVE Spec /\ []AtMostTwo => []NVInv
  OBVIOUS
<1>1. NVInv /\ AtMostTwo /\ [Next]_vars => NVInv'
  BY NVStep
<1> QED BY <1>1, NVInit, PTL DEF Spec

\* What CoAP_NVloadObservers attaches was saved by CoAP_NVsaveObservers, for every
\* application whose resources have a path, all the clients and URIs whose
\* registrations a record can hold, and any page, if there are at most two
\* observers at a time.
THEOREM LoadInventsNothing == Recordable => (Spec /\ []AtMostTwo => []RestoredWasSaved)
<1> SUFFICES ASSUME Recordable PROVE Spec /\ []AtMostTwo => []RestoredWasSaved
  OBVIOUS
<1>1. NVInv => RestoredWasSaved
  <2> SUFFICES ASSUME NVInv, phase = "loaded"
               PROVE  \A k \in DOMAIN resources :
                        Range(resources[k].observers) \subseteq ObserversAt(saved, resources[k].uri)
    BY Zenon DEF RestoredWasSaved
  <2>1. resources \in Seq(StoredResource) /\ saved \in Seq(StoredResource) /\ Survived(resources, saved)
    BY Zenon DEF NVInv
  <2> QED BY <2>1, KeptIs
<1> QED BY <1>1, NVInvHolds, PTL

\* And with memory for two observers, the first observer of each resource is
\* attached to it again.
THEOREM LoadReturnsFirst ==
    Recordable /\ MaxObservers >= 2 => (Spec /\ []AtMostTwo => []FirstObserversReturn)
<1> SUFFICES ASSUME Recordable, MaxObservers >= 2
             PROVE  Spec /\ []AtMostTwo => []FirstObserversReturn
  OBVIOUS
<1>1. NVInv => FirstObserversReturn
  <2> SUFFICES ASSUME NVInv, phase = "loaded", NEW k \in DOMAIN saved, saved[k].observers # <<>>
               PROVE  saved[k].observers[1] \in ObserversAt(resources, saved[k].uri)
    BY Zenon DEF FirstObserversReturn
  <2>1. resources \in Seq(StoredResource) /\ saved \in Seq(StoredResource) /\ Survived(resources, saved)
    BY Zenon DEF NVInv
  <2> QED BY <2>1, KeptIs
<1> QED BY <1>1, NVInvHolds, PTL

-----------------------------------------------------------------------------
(* Memory for observers *)

\* One row may be longer by one, the others are not longer.
Grown(k, i) == IF i <= k THEN 1 ELSE 0

LEMMA GrowsBy ==
    ASSUME NEW k \in Nat, NEW i \in Nat, NEW x \in Nat, NEW y \in Nat, NEW r \in Nat, NEW q \in Nat,
           x <= y + Grown(k, i), k + 1 # i => r <= q, k + 1 = i => r <= q + 1
    PROVE  x + r <= y + q + Grown(k + 1, i)
BY DEF Grown

LEMMA FlattenGrows ==
    ASSUME NEW S, NEW rows \in Seq(Seq(S)), NEW other \in Seq(Seq(S)), NEW i \in Nat,
           Len(rows) = Len(other), i # 0,
           \A k \in 1 .. Len(rows) : k # i => Len(rows[k]) <= Len(other[k]),
           \A k \in 1 .. Len(rows) : k = i => Len(rows[k]) <= Len(other[k]) + 1
    PROVE  Len(FlattenSeq(rows)) <= Len(FlattenSeq(other)) + Grown(Len(rows), i)
<1> DEFINE n == Len(rows)
           u(k) == SubSeq(rows, 1, k)
           w(k) == SubSeq(other, 1, k)
           a(k) == Len(FlattenSeq(u(k)))
           b(k) == Len(FlattenSeq(w(k)))
           Q == {k \in 0 .. n : a(k) <= b(k) + Grown(k, i)}
           U == Seq(S)
<1>0. rows \in Seq(U) /\ other \in Seq(U)
  OBVIOUS
<1>1. n \in Nat /\ u(0) = <<>> /\ u(n) = rows /\ w(0) = <<>> /\ w(n) = other
  <2> HIDE DEF U
  <2> QED BY <1>0
<1>2. 0 \in Q
  <2>1. 0 \in 0 .. n
    BY <1>1
  <2>2. FlattenSeq(u(0)) = <<>> /\ FlattenSeq(w(0)) = <<>>
    BY <1>1, FlattenEmpty, Zenon
  <2>3. a(0) = 0 /\ b(0) = 0
    <3>1. Len(<<>>) = 0
      OBVIOUS
    <3> QED BY <2>2, <3>1, Zenon
  <2> HIDE DEF a, b
  <2>4. a(0) <= b(0) + Grown(0, i)
    BY <2>3 DEF Grown
  <2> QED BY <2>1, <2>4
<1>3. ASSUME NEW k \in 0 .. n - 1, k \in Q PROVE k + 1 \in Q
  <2>1. /\ u(k) \in Seq(U) /\ rows[k + 1] \in U /\ w(k) \in Seq(U) /\ other[k + 1] \in U
        /\ u(k + 1) = Append(u(k), rows[k + 1]) /\ w(k + 1) = Append(w(k), other[k + 1])
        /\ k + 1 \in 0 .. n /\ k + 1 \in 1 .. n /\ k \in Nat
    <3> HIDE DEF U
    <3> QED BY <1>0
  <2>2. a(k) <= b(k) + Grown(k, i)
    BY <1>3
  <2> DEFINE v == u(k)
             r == rows[k + 1]
             v2 == w(k)
             r2 == other[k + 1]
  <2>3. v \in Seq(U) /\ r \in U /\ v2 \in Seq(U) /\ r2 \in U
        /\ (k + 1 # i => Len(r) <= Len(r2)) /\ (k + 1 = i => Len(r) <= Len(r2) + 1)
    BY <2>1
  <2> HIDE DEF u, v, r, w, v2, r2
  <2>4. FlattenSeq(Append(v, r)) = FlattenSeq(v) \o r /\ FlattenSeq(v) \in Seq(S)
    BY <2>3, FlattenAppend, FlattenType
  <2>5. FlattenSeq(Append(v2, r2)) = FlattenSeq(v2) \o r2 /\ FlattenSeq(v2) \in Seq(S)
    BY <2>3, FlattenAppend, FlattenType
  <2>6. /\ Len(FlattenSeq(v) \o r) = Len(FlattenSeq(v)) + Len(r)
        /\ Len(FlattenSeq(v2) \o r2) = Len(FlattenSeq(v2)) + Len(r2)
        /\ Len(FlattenSeq(v)) \in Nat /\ Len(r) \in Nat /\ Len(FlattenSeq(v2)) \in Nat /\ Len(r2) \in Nat
    <3>1. r \in Seq(S) /\ r2 \in Seq(S)
      BY <2>3
    <3> QED BY <2>4, <2>5, <3>1
  <2>7. a(k + 1) = a(k) + Len(r) /\ b(k + 1) = b(k) + Len(r2) /\ a(k) \in Nat /\ b(k) \in Nat
    BY <2>1, <2>4, <2>5, <2>6, Zenon DEF v, r, v2, r2
  <2> HIDE DEF a, b
  <2>8. a(k + 1) <= b(k + 1) + Grown(k + 1, i)
    <3>1. Len(r) \in Nat /\ Len(r2) \in Nat
      BY <2>6
    <3>2. /\ a(k) \in Nat /\ b(k) \in Nat /\ a(k) <= b(k) + Grown(k, i)
          /\ (k + 1 # i => Len(r) <= Len(r2)) /\ (k + 1 = i => Len(r) <= Len(r2) + 1)
      BY <2>2, <2>3, <2>7
    <3>3. a(k) + Len(r) <= b(k) + Len(r2) + Grown(k + 1, i)
      BY <2>1, <3>1, <3>2, GrowsBy
    <3> QED BY <2>7, <3>3
  <2> QED BY <2>1, <2>8
<1>4. n \in Q
  <2> HIDE DEF Q, n, u, w, a, b
  <2>1. \A k \in 0 .. n : k \in Q
    BY <1>1, <1>2, <1>3, UpTo
  <2> QED BY <1>1, <2>1
<1> QED BY <1>1, <1>4, Zenon

\* Rows of at most one element.
LEMMA FlattenShort ==
    ASSUME NEW S, NEW rows \in Seq(Seq(S)), \A k \in 1 .. Len(rows) : Len(rows[k]) <= 1
    PROVE  Len(FlattenSeq(rows)) <= Len(rows)
<1> DEFINE n == Len(rows)
           u(k) == SubSeq(rows, 1, k)
           a(k) == Len(FlattenSeq(u(k)))
           Q == {k \in 0 .. n : a(k) <= k}
           U == Seq(S)
<1>0. rows \in Seq(U)
  OBVIOUS
<1>1. n \in Nat /\ u(0) = <<>> /\ u(n) = rows
  <2> HIDE DEF U
  <2> QED BY <1>0
<1>2. 0 \in Q
  <2>1. 0 \in 0 .. n
    BY <1>1
  <2>2. FlattenSeq(u(0)) = <<>>
    BY <1>1, FlattenEmpty, Zenon
  <2>3. a(0) = 0
    <3>1. Len(<<>>) = 0
      OBVIOUS
    <3> QED BY <2>2, <3>1, Zenon
  <2> HIDE DEF a
  <2> QED BY <2>1, <2>3
<1>3. ASSUME NEW k \in 0 .. n - 1, k \in Q PROVE k + 1 \in Q
  <2>1. /\ u(k) \in Seq(U) /\ rows[k + 1] \in U
        /\ u(k + 1) = Append(u(k), rows[k + 1])
        /\ k + 1 \in 0 .. n /\ k + 1 \in 1 .. n /\ k \in Nat
    <3> HIDE DEF U
    <3> QED BY <1>0
  <2>2. a(k) <= k
    BY <1>3
  <2> DEFINE v == u(k)
             r == rows[k + 1]
  <2>3. v \in Seq(U) /\ r \in U /\ Len(r) <= 1
    BY <2>1
  <2> HIDE DEF u, v, r
  <2>4. FlattenSeq(Append(v, r)) = FlattenSeq(v) \o r /\ FlattenSeq(v) \in Seq(S)
    BY <2>3, FlattenAppend, FlattenType
  <2>6. /\ Len(FlattenSeq(v) \o r) = Len(FlattenSeq(v)) + Len(r)
        /\ Len(FlattenSeq(v)) \in Nat /\ Len(r) \in Nat
    <3>1. r \in Seq(S)
      BY <2>3
    <3> QED BY <2>4, <3>1
  <2>7. a(k + 1) = a(k) + Len(r) /\ a(k) \in Nat
    BY <2>1, <2>4, <2>6, Zenon DEF v, r
  <2> HIDE DEF a
  <2>8. a(k + 1) <= k + 1
    <3>1. Len(r) \in Nat
      BY <2>6
    <3> QED BY <2>1, <2>2, <2>3, <2>7, <3>1
  <2> QED BY <2>1, <2>8
<1>4. n \in Q
  <2> HIDE DEF Q, n, u, a
  <2>1. \A k \in 0 .. n : k \in Q
    BY <1>1, <1>2, <1>3, UpTo
  <2> QED BY <1>1, <2>1
<1> QED BY <1>1, <1>4, Zenon

LEMMA OthersThanFewer ==
    ASSUME NEW S, NEW observers \in Seq(S), NEW o
    PROVE  Len(OthersThan(o, observers)) <= Len(observers)
<1> DEFINE f == [j \in DOMAIN observers |->
                   IF SameObserver(o, observers[j]) THEN <<>> ELSE << observers[j] >>]
           n == Len(observers)
<1>1. ASSUME NEW x \in S PROVE << x >> \in Seq(S) /\ Len(<< x >>) <= 1
  OBVIOUS
<1>2. <<>> \in Seq(S) /\ Len(<<>>) <= 1
  OBVIOUS
<1>3. DOMAIN observers = 1 .. n /\ n \in Nat /\ \A j \in 1 .. n : observers[j] \in S
  OBVIOUS
<1>4. f \in [1 .. n -> Seq(S)] /\ \A j \in 1 .. n : Len(f[j]) <= 1
  <2> HIDE DEF n
  <2>1. ASSUME NEW j \in 1 .. n
        PROVE  f[j] \in Seq(S) /\ Len(f[j]) <= 1
    BY <1>1, <1>2, <1>3, <2>1, Zenon
  <2>2. f = [j \in 1 .. n |-> f[j]]
    BY <1>3, Zenon
  <2> HIDE DEF f
  <2> QED BY <2>1, <2>2, Zenon
<1>5. OthersThan(o, observers) = FlattenSeq(f)
  BY Zenon DEF OthersThan
<1> HIDE DEF f
<1>6. f \in Seq(Seq(S)) /\ Len(f) = n
  BY <1>3, <1>4
<1>7. \A j \in 1 .. Len(f) : Len(f[j]) <= 1
  BY <1>4, <1>6
<1> QED BY <1>5, <1>6, <1>7, FlattenShort

\* What a list gives the resource k.
LoadedRow(list, k) ==
    IF k \in FindResourceByUri(resources, list) THEN << LoadedObserver(list) >> ELSE <<>>
Loaded == {LoadedObserver(list) : list \in Seq(Option)}

LEMMA LoadedRowIs ==
    ASSUME NEW list \in Seq(Option), NEW k
    PROVE  /\ LoadedRow(list, k) \in Seq(Loaded)
           /\ Len(LoadedRow(list, k)) <= 1 /\ Len(LoadedRow(list, k)) \in Nat
           /\ k \notin FindResourceByUri(resources, list) => Len(LoadedRow(list, k)) = 0
<1> DEFINE x == LoadedObserver(list)
<1>1. x \in Loaded
  BY DEF Loaded
<1> HIDE DEF x
<1>2. << x >> \in Seq(Loaded) /\ Len(<< x >>) = 1 /\ <<>> \in Seq(Loaded) /\ Len(<<>>) = 0
  BY <1>1
<1>3. LoadedRow(list, k) = IF k \in FindResourceByUri(resources, list) THEN << x >> ELSE <<>>
  BY DEF LoadedRow, x
<1> DEFINE r == LoadedRow(list, k)
<1> HIDE DEF r
<1>4. /\ r \in Seq(Loaded) /\ (Len(r) = 0 \/ Len(r) = 1)
      /\ k \notin FindResourceByUri(resources, list) => Len(r) = 0
  BY <1>2, <1>3, Zenon DEF r
<1>5. Len(r) <= 1 /\ Len(r) \in Nat
  <2> DEFINE l == Len(r)
  <2>1. l = 0 \/ l = 1
    BY <1>4, Zenon
  <2> HIDE DEF l
  <2>2. l <= 1 /\ l \in Nat
    BY <2>1
  <2> QED BY <2>2 DEF l
<1> QED BY <1>4, <1>5 DEF r

LEMMA ObserversFromIs ==
    ASSUME NEW lists \in Seq(Seq(Option)), NEW k
    PROVE  /\ ObserversFrom(lists, k) = FlattenSeq([j \in 1 .. Len(lists) |-> LoadedRow(lists[j], k)])
           /\ [j \in 1 .. Len(lists) |-> LoadedRow(lists[j], k)] \in Seq(Seq(Loaded))
           /\ ObserversFrom(lists, k) \in Seq(Loaded)
<1> DEFINE n == Len(lists)
           f == [j \in 1 .. n |-> LoadedRow(lists[j], k)]
           T == Seq(Loaded)
<1>1. DOMAIN lists = 1 .. n /\ n \in Nat /\ \A j \in 1 .. n : lists[j] \in Seq(Option)
  OBVIOUS
<1>2. ObserversFrom(lists, k) = FlattenSeq(f)
  BY <1>1, Zenon DEF ObserversFrom, LoadedRow
<1>3. \A j \in 1 .. n : LoadedRow(lists[j], k) \in T
  BY <1>1, LoadedRowIs, Zenon
<1>4. f \in Seq(T)
  <2> HIDE DEF n, T
  <2>1. f \in [1 .. n -> T]
    BY <1>3, Zenon
  <2> HIDE DEF f
  <2> QED BY <1>1, <2>1
<1> HIDE DEF f
<1>5. FlattenSeq(f) \in Seq(Loaded)
  BY <1>4, FlattenType
<1> QED BY <1>2, <1>4, <1>5, Zenon DEF f

LEMMA ObserversFromAppend ==
    ASSUME NEW lists \in Seq(Seq(Option)), NEW list \in Seq(Option), NEW k
    PROVE  ObserversFrom(Append(lists, list), k) = ObserversFrom(lists, k) \o LoadedRow(list, k)
<1> DEFINE n == Len(lists)
           more == Append(lists, list)
           f == [j \in 1 .. n |-> LoadedRow(lists[j], k)]
           g == [j \in 1 .. Len(more) |-> LoadedRow(more[j], k)]
           r == LoadedRow(list, k)
           A == Seq(Option)
           T == Seq(Loaded)
<1>1. /\ n \in Nat /\ more \in Seq(A) /\ Len(more) = n + 1 /\ more[n + 1] = list
      /\ \A j \in 1 .. n : more[j] = lists[j]
  <2> HIDE DEF A
  <2>1. lists \in Seq(A) /\ list \in A
    BY DEF A
  <2> QED BY <2>1
<1>2. f \in Seq(T) /\ Len(f) = n /\ ObserversFrom(lists, k) = FlattenSeq(f)
  <2>1. f \in Seq(T) /\ ObserversFrom(lists, k) = FlattenSeq(f)
    BY ObserversFromIs
  <2> QED BY <1>1, <2>1
<1> HIDE DEF more
<1>3. g \in Seq(T) /\ Len(g) = n + 1 /\ ObserversFrom(more, k) = FlattenSeq(g)
  <2>1. g \in Seq(T) /\ ObserversFrom(more, k) = FlattenSeq(g)
    BY <1>1, ObserversFromIs
  <2> QED BY <1>1, <2>1
<1>4. r \in T
  BY LoadedRowIs
<1>5. \A j \in 1 .. n + 1 : g[j] = LoadedRow(more[j], k)
  BY <1>1, Zenon
<1>6. \A j \in 1 .. n : f[j] = LoadedRow(lists[j], k)
  BY Zenon
<1> HIDE DEF f, g, r, T, n
<1>7. g = Append(f, r)
  <2>1. Append(f, r) \in Seq(T) /\ Len(Append(f, r)) = n + 1 /\ Append(f, r)[n + 1] = r
        /\ \A j \in 1 .. n : Append(f, r)[j] = f[j]
    BY <1>2, <1>4
  <2>2. g[n + 1] = r
    <3>1. n + 1 \in 1 .. n + 1
      BY <1>1
    <3> QED BY <1>1, <1>5, <3>1, Zenon DEF r
  <2>3. ASSUME NEW j \in 1 .. n PROVE g[j] = f[j]
    <3>1. j \in 1 .. n + 1
      BY <1>1
    <3> QED BY <1>1, <1>5, <1>6, <3>1, Zenon
  <2>4. \A j \in 1 .. n + 1 : j \in 1 .. n \/ j = n + 1
    BY <1>1
  <2> DEFINE a == Append(f, r)
  <2>5. \A j \in 1 .. n + 1 : g[j] = a[j]
    BY <2>1, <2>2, <2>3, <2>4, Zenon
  <2>6. a \in Seq(T) /\ Len(a) = n + 1
    BY <2>1
  <2> HIDE DEF a
  <2> QED BY <1>3, <2>5, <2>6, SeqEqual DEF a
<1>8. FlattenSeq(Append(f, r)) = FlattenSeq(f) \o r
  BY <1>2, <1>4, FlattenAppend DEF T
<1> QED BY <1>2, <1>3, <1>7, <1>8, Zenon DEF more, r

\* What the lists give each resource.
LoadedRows(lists) == [k \in 1 .. Len(resources) |-> ObserversFrom(lists, k)]

LEMMA LoadedRowsType ==
    ASSUME resources \in Seq(StoredResource), NEW lists \in Seq(Seq(Option))
    PROVE  /\ LoadedRows(lists) \in Seq(Seq(Loaded)) /\ Len(LoadedRows(lists)) = Len(resources)
           /\ \A k \in 1 .. Len(resources) : LoadedRows(lists)[k] = ObserversFrom(lists, k)
<1> DEFINE n == Len(resources)
           T == Seq(Loaded)
           f == LoadedRows(lists)
<1>1. n \in Nat
  OBVIOUS
<1>2. \A k \in 1 .. n : ObserversFrom(lists, k) \in T
  BY ObserversFromIs
<1>3. \A k \in 1 .. n : f[k] = ObserversFrom(lists, k)
  BY DEF LoadedRows
<1> HIDE DEF n, T
<1>4. f \in [1 .. n -> T]
  BY <1>2, Zenon DEF LoadedRows, n
<1> HIDE DEF f
<1>5. f \in Seq(T) /\ Len(f) = n
  BY <1>1, <1>4
<1> QED BY <1>3, <1>5 DEF f, n, T

\* One more list: one more observer at most.
LEMMA LoadedOneMore ==
    ASSUME resources \in Seq(StoredResource), NEW lists \in Seq(Seq(Option)), NEW list \in Seq(Option)
    PROVE  Len(FlattenSeq(LoadedRows(Append(lists, list)))) <= Len(FlattenSeq(LoadedRows(lists))) + 1
<1> DEFINE n == Len(resources)
           more == Append(lists, list)
           rows == LoadedRows(more)
           other == LoadedRows(lists)
           found == FindResourceByUri(resources, list)
<1>0. n \in Nat
  OBVIOUS
<1>1. more \in Seq(Seq(Option))
  <2> DEFINE A == Seq(Option)
  <2>1. lists \in Seq(A) /\ list \in A
    OBVIOUS
  <2> HIDE DEF A
  <2>2. Append(lists, list) \in Seq(A)
    BY <2>1
  <2> QED BY <2>2 DEF A
<1>2. /\ other \in Seq(Seq(Loaded)) /\ Len(other) = n
      /\ \A k \in 1 .. n : other[k] = ObserversFrom(lists, k)
  BY LoadedRowsType
<1>3. \A k \in 1 .. n : ObserversFrom(more, k) = ObserversFrom(lists, k) \o LoadedRow(list, k)
  BY ObserversFromAppend
<1> HIDE DEF more
<1>4. /\ rows \in Seq(Seq(Loaded)) /\ Len(rows) = n
      /\ \A k \in 1 .. n : rows[k] = ObserversFrom(more, k)
  BY <1>1, LoadedRowsType
<1>5. ASSUME NEW k \in 1 .. n
      PROVE  /\ Len(rows[k]) <= Len(other[k]) + 1
             /\ k \notin found => Len(rows[k]) <= Len(other[k])
  <2> DEFINE a == other[k]
             r == LoadedRow(list, k)
  <2>1. a \in Seq(Loaded)
    BY <1>2
  <2>2. r \in Seq(Loaded) /\ Len(r) <= 1 /\ Len(r) \in Nat /\ (k \notin found => Len(r) = 0)
    BY LoadedRowIs
  <2>3. rows[k] = a \o r
    BY <1>2, <1>3, <1>4, Zenon
  <2> HIDE DEF a, r, rows, found
  <2>4. Len(a \o r) = Len(a) + Len(r) /\ Len(a) \in Nat
    BY <2>1, <2>2
  <2> QED BY <2>2, <2>3, <2>4 DEF a
<1>6. \A j \in found : \A k \in found : j = k
  <2>1. found \subseteq 1 .. n
    BY FindIs
  <2>2. \A j \in found : \A k \in found : j <= k
    BY Zenon DEF FindResourceByUri
  <2> HIDE DEF found
  <2> QED BY <1>0, <2>1, <2>2
<1>7. found \subseteq 1 .. n
  BY FindIs
<1>8. \E i \in 1 .. n + 1 : \A k \in 1 .. n : k # i => k \notin found
  <2>1. CASE found = {}
    <3>1. n + 1 \in 1 .. n + 1
      BY <1>0
    <3> HIDE DEF found
    <3> QED BY <2>1, <3>1
  <2>2. CASE found # {}
    <3> HIDE DEF found
    <3>1. PICK i : i \in found
      BY <2>2
    <3>2. i \in 1 .. n + 1
      BY <1>0, <1>7, <3>1
    <3> QED BY <1>6, <3>1, <3>2, Zenon
  <2> QED BY <2>1, <2>2
<1>9. PICK i \in 1 .. n + 1 : \A k \in 1 .. n : k # i => k \notin found
  BY <1>8
<1> HIDE DEF rows, other, found, n
<1>10. i \in Nat /\ i # 0
  BY <1>0, <1>9
<1>11. Len(FlattenSeq(rows)) <= Len(FlattenSeq(other)) + Grown(Len(rows), i)
  <2>1. \A k \in 1 .. Len(rows) : k # i => Len(rows[k]) <= Len(other[k])
    BY <1>4, <1>5, <1>9
  <2>2. \A k \in 1 .. Len(rows) : k = i => Len(rows[k]) <= Len(other[k]) + 1
    BY <1>4, <1>5
  <2> QED BY <1>2, <1>4, <1>10, <2>1, <2>2, FlattenGrows
<1>12. Len(FlattenSeq(rows)) \in Nat /\ Len(FlattenSeq(other)) \in Nat
  <2>1. FlattenSeq(rows) \in Seq(Loaded) /\ FlattenSeq(other) \in Seq(Loaded)
    BY <1>2, <1>4, FlattenType
  <2> QED BY <2>1
<1> QED BY <1>11, <1>12 DEF Grown, rows, other, more

\* As many observers as lists, at most.
LEMMA LoadedCount ==
    ASSUME resources \in Seq(StoredResource), NEW lists \in Seq(Seq(Option))
    PROVE  Len(FlattenSeq(LoadedRows(lists))) <= Len(lists)
<1> DEFINE A == Seq(Option)
           m == Len(lists)
           u(j) == SubSeq(lists, 1, j)
           a(j) == Len(FlattenSeq(LoadedRows(u(j))))
           Q == {j \in 0 .. m : a(j) <= j}
<1>0. lists \in Seq(A)
  OBVIOUS
<1>1. m \in Nat /\ u(0) = <<>> /\ u(m) = lists
  <2> HIDE DEF A
  <2> QED BY <1>0
<1>2. 0 \in Q
  <2>1. 0 \in 0 .. m
    BY <1>1
  <2> DEFINE none == <<>>
             rows == LoadedRows(none)
  <2>2. none \in Seq(A)
    OBVIOUS
  <2>3. rows \in Seq(Seq(Loaded)) /\ \A k \in 1 .. Len(rows) : rows[k] = ObserversFrom(none, k)
    BY <2>2, LoadedRowsType
  <2>4. ASSUME NEW k PROVE ObserversFrom(none, k) = <<>>
    <3>1. [j \in 1 .. Len(none) |-> LoadedRow(none[j], k)] = <<>>
      OBVIOUS
    <3>2. ObserversFrom(none, k) = FlattenSeq([j \in 1 .. Len(none) |-> LoadedRow(none[j], k)])
      BY <2>2, ObserversFromIs
    <3> QED BY <3>1, <3>2, FlattenEmpty, Zenon
  <2>5. FlattenSeq(rows) = <<>>
    <3>1. \A k \in 1 .. Len(rows) : rows[k] = <<>>
      BY <2>3, <2>4, Zenon
    <3> HIDE DEF rows
    <3> QED BY <2>3, <3>1, FlattenNone
  <2>6. a(0) = 0
    <3>1. Len(<<>>) = 0
      OBVIOUS
    <3> QED BY <1>1, <2>5, <3>1, Zenon
  <2> HIDE DEF a
  <2> QED BY <2>1, <2>6
<1>3. ASSUME NEW j \in 0 .. m - 1, j \in Q PROVE j + 1 \in Q
  <2>1. /\ u(j) \in Seq(A) /\ lists[j + 1] \in A /\ u(j + 1) = Append(u(j), lists[j + 1])
        /\ u(j + 1) \in Seq(A) /\ j + 1 \in 0 .. m /\ j \in Nat
    <3> HIDE DEF A
    <3> QED BY <1>0
  <2>2. a(j) <= j
    BY <1>3
  <2> DEFINE v == u(j)
             x == lists[j + 1]
  <2>3. v \in Seq(A) /\ x \in A /\ u(j + 1) = Append(v, x)
    BY <2>1
  <2>4. a(j) \in Nat /\ a(j + 1) \in Nat
    <3> DEFINE p == LoadedRows(u(j))
               q == LoadedRows(u(j + 1))
    <3> HIDE DEF u
    <3>1. p \in Seq(Seq(Loaded)) /\ q \in Seq(Seq(Loaded))
      BY <2>1, LoadedRowsType
    <3> HIDE DEF p, q
    <3>2. FlattenSeq(p) \in Seq(Loaded) /\ FlattenSeq(q) \in Seq(Loaded)
      BY <3>1, FlattenType
    <3>3. Len(FlattenSeq(p)) \in Nat /\ Len(FlattenSeq(q)) \in Nat
      BY <3>2
    <3> QED BY <3>3 DEF p, q
  <2> HIDE DEF u, v, x
  <2>5. Len(FlattenSeq(LoadedRows(Append(v, x)))) <= Len(FlattenSeq(LoadedRows(v))) + 1
    BY <2>3, LoadedOneMore
  <2>6. a(j + 1) <= a(j) + 1
    BY <2>3, <2>5, Zenon DEF v
  <2> HIDE DEF a
  <2>7. a(j + 1) <= j + 1
    BY <2>1, <2>2, <2>4, <2>6
  <2> QED BY <2>1, <2>7
<1>4. m \in Q
  <2> HIDE DEF Q, m, u, a
  <2>1. \A j \in 0 .. m : j \in Q
    BY <1>1, <1>2, <1>3, UpTo
  <2> QED BY <1>1, <2>1
<1> QED BY <1>1, <1>4, Zenon

ObserverLists(table) == [k \in 1 .. Len(table) |-> table[k].observers]

LEMMA NumObserversIs ==
    ASSUME NEW table \in Seq(StoredResource)
    PROVE  /\ NumObservers(table) = Len(FlattenSeq(ObserverLists(table))) /\ NumObservers(table) \in Nat
           /\ ObserverLists(table) \in Seq(Seq(Good)) /\ Len(ObserverLists(table)) = Len(table)
           /\ \A k \in 1 .. Len(table) : ObserverLists(table)[k] = table[k].observers
<1> DEFINE n == Len(table)
           f == ObserverLists(table)
           T == Seq(Good)
<1>1. DOMAIN table = 1 .. n /\ n \in Nat /\ \A k \in 1 .. n : table[k] \in StoredResource
  OBVIOUS
<1>2. \A k \in 1 .. n : table[k].observers \in T
  BY <1>1, RowType, Zenon
<1>3. \A k \in 1 .. n : f[k] = table[k].observers
  BY Zenon DEF ObserverLists
<1>4. NumObservers(table) = Len(FlattenSeq(f))
  BY <1>1, Zenon DEF NumObservers, ObserverLists
<1>5. f \in Seq(T) /\ Len(f) = n
  <2> HIDE DEF n, T
  <2>1. f \in [1 .. n -> T]
    BY <1>2, Zenon DEF ObserverLists, n
  <2> HIDE DEF f
  <2> QED BY <1>1, <2>1
<1> HIDE DEF f
<1>6. FlattenSeq(f) \in Seq(Good)
  BY <1>5, FlattenType
<1>7. Len(FlattenSeq(f)) \in Nat
  BY <1>6
<1> QED BY <1>3, <1>4, <1>5, <1>7, Zenon DEF f

\* One resource gets other observers.
LEMMA CountOne ==
    ASSUME NEW table \in Seq(StoredResource), NEW i \in DOMAIN table, NEW v \in Seq(Good),
           NEW new, new = [table EXCEPT ![i].observers = v],
           NEW old, old = table[i].observers
    PROVE  /\ Len(v) <= Len(old) + 1 => NumObservers(new) <= NumObservers(table) + 1
           /\ Len(v) <= Len(old) => NumObservers(new) <= NumObservers(table)
<1> DEFINE n == Len(table)
           rows == ObserverLists(new)
           other == ObserverLists(table)
<1>1. n \in Nat /\ i \in 1 .. n /\ DOMAIN table = 1 .. n
  OBVIOUS
<1>2. new \in Seq(StoredResource)
  BY StoredOne
<1>3. Len(new) = n /\ \A k \in 1 .. n : new[k].observers = IF k = i THEN v ELSE table[k].observers
  <2> DEFINE y == [table[i] EXCEPT !.observers = v]
  <2>1. y.observers = v
    <3> DEFINE x == table[i]
    <3>1. x \in StoredResource
      OBVIOUS
    <3> HIDE DEF x
    <3>2. [x EXCEPT !.observers = v].observers = v
      BY <3>1, StoredResourceIs
    <3> QED BY <3>2 DEF x
  <2>2. new = [table EXCEPT ![i] = y]
    BY Zenon
  <2> HIDE DEF y
  <2>3. \A k \in 1 .. n : new[k] = IF k = i THEN y ELSE table[k]
    BY <1>1, <2>2, Zenon
  <2>4. DOMAIN new = 1 .. n
    BY <1>1, <2>2, Zenon
  <2> HIDE DEF n
  <2> DEFINE T == StoredResource
  <2>5. Len(new) = n
    <3>1. new \in Seq(T) /\ DOMAIN new = 1 .. n /\ n \in Nat
      BY <1>1, <1>2, <2>4, Zenon
    <3> HIDE DEF T
    <3> QED BY <3>1
  <2> HIDE DEF T
  <2>6. ASSUME NEW k \in 1 .. n
        PROVE  new[k].observers = IF k = i THEN v ELSE table[k].observers
    <3>1. CASE k = i
      <4>1. new[k] = y
        BY <2>3, <3>1
      <4>2. new[k].observers = v
        BY <2>1, <4>1, Zenon
      <4> QED BY <3>1, <4>2, Zenon
    <3>2. CASE k # i
      <4>1. new[k] = table[k]
        BY <2>3, <3>2
      <4>2. new[k].observers = table[k].observers
        BY <4>1, Zenon
      <4> QED BY <3>2, <4>2, Zenon
    <3> QED BY <3>1, <3>2
  <2> QED BY <2>5, <2>6, Zenon
<1>4. /\ NumObservers(new) = Len(FlattenSeq(rows)) /\ NumObservers(new) \in Nat
      /\ rows \in Seq(Seq(Good)) /\ Len(rows) = n
      /\ \A k \in 1 .. n : rows[k] = new[k].observers
  BY <1>2, <1>3, NumObserversIs
<1>5. /\ NumObservers(table) = Len(FlattenSeq(other)) /\ NumObservers(table) \in Nat
      /\ other \in Seq(Seq(Good)) /\ Len(other) = n
      /\ \A k \in 1 .. n : other[k] = table[k].observers
  BY NumObserversIs
<1>6. \A k \in 1 .. n : rows[k] = IF k = i THEN v ELSE other[k]
  BY <1>3, <1>4, <1>5, Zenon
<1>7. other[i] = old
  BY <1>1, <1>5, Zenon
<1> DEFINE c == NumObservers(new)
           d == NumObservers(table)
<1> HIDE DEF rows, other, n, c, d
<1>8. \A k \in 1 .. n : Len(other[k]) \in Nat
  BY <1>5
<1>9. ASSUME Len(v) <= Len(old) + 1 PROVE c <= d + 1
  <2>1. \A k \in 1 .. Len(rows) : k # i => Len(rows[k]) <= Len(other[k])
    BY <1>4, <1>6, <1>8
  <2>2. \A k \in 1 .. Len(rows) : k = i => Len(rows[k]) <= Len(other[k]) + 1
    BY <1>4, <1>6, <1>7, <1>9
  <2>3. i \in Nat /\ i # 0 /\ Len(rows) = Len(other)
    BY <1>1, <1>4, <1>5
  <2>4. Len(FlattenSeq(rows)) <= Len(FlattenSeq(other)) + Grown(Len(rows), i)
    BY <1>4, <1>5, <2>1, <2>2, <2>3, FlattenGrows
  <2> QED BY <1>1, <1>4, <1>5, <2>4 DEF Grown, c, d
<1>10. ASSUME Len(v) <= Len(old) PROVE c <= d
  <2>1. \A k \in 1 .. Len(rows) : Len(rows[k]) <= Len(other[k])
    <3> SUFFICES ASSUME NEW k \in 1 .. n PROVE Len(rows[k]) <= Len(other[k])
      BY <1>4
    <3>1. CASE k = i
      <4>1. rows[k] = v /\ other[k] = old
        BY <1>6, <1>7, <3>1, Zenon
      <4> QED BY <1>10, <4>1
    <3>2. CASE k # i
      <4>1. rows[k] = other[k]
        BY <1>6, <3>2, Zenon
      <4> QED BY <1>8, <4>1
    <3> QED BY <3>1, <3>2
  <2> DEFINE z == n + 1
  <2>2. z \in Nat /\ z # 0 /\ Len(rows) = Len(other)
        /\ \A k \in 1 .. Len(rows) : k # z
    BY <1>1, <1>4, <1>5
  <2>3. Grown(n, z) = 0
    BY <1>1 DEF Grown
  <2> HIDE DEF z
  <2>4. Len(FlattenSeq(rows)) <= Len(FlattenSeq(other)) + Grown(Len(rows), z)
    BY <1>4, <1>5, <2>1, <2>2, FlattenGrows
  <2>5. c <= d + 0 /\ d \in Nat
    BY <1>4, <1>5, <2>3, <2>4, Zenon DEF c, d
  <2> QED BY <2>5
<1> QED BY <1>9, <1>10 DEF c, d

\* Loading attaches no more than there is memory for.
LEMMA LoadFits ==
    ASSUME Recordable, NVInv, phase = "boot", created = Len(Application),
           NEW new, new = [k \in DOMAIN resources |->
                             [resources[k] EXCEPT !.observers = @ \o ObserversFrom(Attached, k)]]
    PROVE  NumObservers(new) <= MaxObservers
<1> DEFINE lists == Attached
           n == Len(resources)
           rows == LoadedRows(lists)
           other == ObserverLists(new)
<1>1. /\ resources \in Seq(StoredResource) /\ saved \in Seq(StoredResource)
      /\ Unobserved(resources) /\ NumObservers(saved) <= 2
      /\ flash \in Seq(Byte) /\ Keeps(flash, Records(saved))
  BY Zenon DEF NVInv
<1>2. new \in Seq(StoredResource)
  BY LoadKeeps
<1>3. AttachedFrom(lists, Records(saved))
  BY <1>1, ListsAttached
<1>4. lists \in Seq(Seq(Option)) /\ InMemory(lists)
  BY <1>3, Zenon DEF AttachedFrom
<1> HIDE DEF lists
<1>5. DOMAIN resources = 1 .. n /\ n \in Nat /\ \A k \in 1 .. n : resources[k] \in StoredResource
  BY <1>1
<1>6. ASSUME NEW k \in 1 .. n PROVE new[k].observers = ObserversFrom(lists, k)
  <2> DEFINE x == resources[k]
             os == ObserversFrom(lists, k)
             e == x.observers
  <2>1. new[k] = [x EXCEPT !.observers = e \o os]
    BY <1>5, Zenon DEF lists
  <2>2. e = <<>>
    BY <1>1, <1>6, Zenon DEF Unobserved
  <2>3. os \in Seq(Loaded)
    BY <1>4, ObserversFromIs
  <2>4. x \in StoredResource
    BY <1>5
  <2> HIDE DEF os, x
  <2>5. e \o os = os
    BY <2>2, <2>3
  <2>6. new[k] = [x EXCEPT !.observers = os]
    BY <2>1, <2>5, Zenon
  <2> HIDE DEF e
  <2>7. [x EXCEPT !.observers = os].observers = os
    BY <2>4 DEF StoredResource
  <2> QED BY <2>6, <2>7, Zenon DEF os
<1>7. Len(new) = n
  <2>1. DOMAIN new = 1 .. n
    BY <1>5
  <2> HIDE DEF n
  <2> QED BY <1>2, <1>5, <2>1
<1>8. /\ rows \in Seq(Seq(Loaded)) /\ Len(rows) = n
      /\ \A k \in 1 .. n : rows[k] = ObserversFrom(lists, k)
  BY <1>1, <1>4, LoadedRowsType
<1>9. /\ NumObservers(new) = Len(FlattenSeq(other)) /\ NumObservers(new) \in Nat
      /\ other \in Seq(Seq(Good)) /\ Len(other) = n
      /\ \A k \in 1 .. n : other[k] = new[k].observers
  BY <1>2, <1>7, NumObserversIs
<1> HIDE DEF n, rows, other
<1>10. Len(FlattenSeq(rows)) = Len(FlattenSeq(other))
  <2>1. Len(rows) = Len(other) /\ \A k \in 1 .. Len(rows) : Len(rows[k]) = Len(other[k])
    BY <1>6, <1>8, <1>9, Zenon
  <2>2. rows \in Seq(Seq(Loaded)) /\ other \in Seq(Seq(Good))
    BY <1>8, <1>9, Zenon
  <2> DEFINE S == Loaded
             T == Good
  <2> HIDE DEF S, T
  <2>3. rows \in Seq(Seq(S)) /\ other \in Seq(Seq(T))
    BY <2>2, Zenon DEF S, T
  <2> QED BY <2>1, <2>3, FlattenLens
<1>11. Len(FlattenSeq(rows)) <= Len(lists)
  BY <1>1, <1>4, LoadedCount DEF rows
<1> DEFINE l == Len(lists)
           c == NumObservers(resources)
<1>12. c = 0
  BY <1>1, UnobservedCount
<1>13. l # 0 => c + (l - 1) < MaxObservers
  BY <1>4, Zenon DEF InMemory
<1>14. l \in Nat
  BY <1>4
<1> HIDE DEF l, c
<1>15. l <= MaxObservers
  BY <1>12, <1>13, <1>14, BoundsAssumption
<1>16. NumObservers(new) <= l
  BY <1>9, <1>10, <1>11, Zenon DEF l
<1> DEFINE d == NumObservers(new)
<1>17. d \in Nat
  BY <1>9
<1> HIDE DEF d
<1>18. d <= l
  BY <1>16 DEF d
<1>19. d <= MaxObservers
  BY <1>14, <1>15, <1>17, <1>18, BoundsAssumption
<1> QED BY <1>19 DEF d

FitsMemory == NumObservers(resources) <= MaxObservers

LEMMA FewFit ==
    ASSUME MaxObservers <= 2, resources \in Seq(StoredResource), FitsMemory
    PROVE  AtMostTwo
<1>1. NumObservers(resources) \in Nat
  BY NumObserversIs
<1> DEFINE c == NumObservers(resources)
<1>2. c \in Nat /\ c <= MaxObservers
  BY <1>1 DEF FitsMemory
<1> HIDE DEF c
<1>3. c <= 2
  BY <1>2, BoundsAssumption
<1> QED BY <1>3 DEF AtMostTwo, c

LEMMA FitsStep ==
    ASSUME Recordable, NVInv, NVInv', FitsMemory, [Next]_vars
    PROVE  FitsMemory'
<1>1. /\ resources \in Seq(StoredResource) /\ resources' \in Seq(StoredResource)
      /\ phase' = "boot" => Unobserved(resources')
  BY Zenon DEF NVInv
<1>2. NumObservers(resources) \in Nat /\ NumObservers(resources') \in Nat
  BY <1>1, NumObserversIs
<1> DEFINE c == NumObservers(resources)
           d == NumObservers(resources')
<1>3. c \in Nat /\ d \in Nat /\ c <= MaxObservers
  BY <1>2 DEF FitsMemory
<1>4. FitsMemory' <=> d <= MaxObservers
  BY Zenon DEF FitsMemory
<1> HIDE DEF c, d
<1>5. ASSUME phase' = "boot" PROVE FitsMemory'
  <2>1. NumObservers(resources') = 0
    BY <1>1, <1>5, UnobservedCount
  <2>2. d = 0
    BY <2>1 DEF d
  <2> QED BY <1>4, <2>2, BoundsAssumption
<1>6. ASSUME resources' = resources PROVE FitsMemory'
  <2>1. d = c
    BY <1>6, Zenon DEF c, d
  <2> QED BY <1>3, <1>4, <2>1
<1>7. CASE CreateResource
  <2>1. phase' = "boot"
    BY <1>7 DEF CreateResource
  <2> QED BY <1>5, <2>1
<1>8. ASSUME NEW client \in Clients, NEW uri \in Uris,
             HandleObservationInReq(client, UriOptionsFromString(uri))
      PROVE  FitsMemory'
  <2> DEFINE o == [Ep |-> client.Ep, socketHandle |-> client.socketHandle, Token |-> client.Token,
                   pOptList |-> <<Opt(OPT_NUM_OBSERVE, <<>>)>>
                       \o OptionsByNumber(UriOptionsFromString(uri), OPT_NUM_URI_QUERY)]
  <2>1. o \in Good
    BY RegisteredIsGood, Zenon
  <2>2. PICK k \in FindResourceByUri(resources, UriOptionsFromString(uri)) :
            resources' = [resources EXCEPT ![k].observers =
                            Append(OthersThan(o, resources[k].observers), o)]
    BY <1>8, Zenon DEF HandleObservationInReq
  <2> HIDE DEF o
  <2>3. k \in DOMAIN resources
    BY <2>2, Zenon DEF FindResourceByUri
  <2> DEFINE os == resources[k].observers
             others == OthersThan(o, os)
             v == Append(others, o)
  <2>4. os \in Seq(Good)
    <3>1. resources[k] \in StoredResource
      BY <1>1, <2>3
    <3> QED BY <3>1, RowType, Zenon
  <2> HIDE DEF os
  <2>5. others \in Seq(Good) /\ Len(others) <= Len(os)
    BY <2>4, OthersThanType, OthersThanFewer
  <2> HIDE DEF others
  <2>6. v \in Seq(Good) /\ Len(v) = Len(others) + 1
    BY <2>1, <2>5
  <2>7. resources' = [resources EXCEPT ![k].observers = v]
    BY <2>2, Zenon DEF os, others
  <2> HIDE DEF v
  <2>8. Len(v) <= Len(os) + 1
    BY <2>4, <2>5, <2>6
  <2>9. NumObservers(resources') <= NumObservers(resources) + 1
    BY <1>1, <2>3, <2>6, <2>7, <2>8, CountOne DEF os
  <2>10. NumObservers(resources) < MaxObservers
    BY <1>8, Zenon DEF HandleObservationInReq
  <2>11. d <= c + 1 /\ c < MaxObservers
    BY <2>9, <2>10 DEF c, d
  <2> QED BY <1>3, <1>4, <2>11, BoundsAssumption
<1>9. ASSUME NEW k \in DOMAIN resources, NEW j \in DOMAIN resources[k].observers, RemoveObserver(k, j)
      PROVE  FitsMemory'
  <2> DEFINE os == resources[k].observers
             v == RemoveAt(os, j)
  <2>1. os \in Seq(Good)
    <3>1. resources[k] \in StoredResource
      BY <1>1
    <3> QED BY <3>1, RowType, Zenon
  <2>2. v \in Seq(Good) /\ Len(v) <= Len(os)
    <3>1. j \in DOMAIN os
      OBVIOUS
    <3> HIDE DEF os
    <3>2. v \in Seq(Good)
      BY <2>1, <3>1 DEF RemoveAt
    <3> DEFINE a == SubSeq(os, 1, j - 1)
               b == SubSeq(os, j + 1, Len(os))
    <3>3. a \in Seq(Good) /\ b \in Seq(Good) /\ Len(a) = j - 1 /\ Len(b) = Len(os) - j
      BY <2>1, <3>1
    <3>4. v = a \o b
      BY Zenon DEF RemoveAt
    <3>5. j \in Nat /\ Len(os) \in Nat
      BY <2>1, <3>1
    <3> HIDE DEF a, b, v
    <3>6. Len(v) = Len(a) + Len(b)
      <4>1. Len(a \o b) = Len(a) + Len(b)
        BY <3>3
      <4> QED BY <3>4, <4>1, Zenon
    <3> QED BY <3>2, <3>3, <3>5, <3>6
  <2>3. resources' = [resources EXCEPT ![k].observers = v]
    BY <1>9, Zenon DEF RemoveObserver
  <2> HIDE DEF v
  <2>4. NumObservers(resources') <= NumObservers(resources)
    BY <1>1, <2>2, <2>3, CountOne
  <2>5. d <= c
    BY <2>4 DEF c, d
  <2> QED BY <1>3, <1>4, <2>5, BoundsAssumption
<1>10. CASE NVsaveObservers
  <2>1. resources' = resources
    BY <1>10, Zenon DEF NVsaveObservers
  <2> QED BY <1>6, <2>1
<1>11. CASE Restart
  <2>1. phase' = "boot"
    BY <1>11 DEF Restart
  <2> QED BY <1>5, <2>1
<1>12. CASE NVloadObservers
  <2>1. /\ phase = "boot" /\ created = Len(Application)
        /\ resources' = [k \in DOMAIN resources |->
                           [resources[k] EXCEPT !.observers = @ \o ObserversFrom(Attached, k)]]
    BY <1>12, Zenon DEF NVloadObservers
  <2>2. NumObservers(resources') <= MaxObservers
    BY <2>1, LoadFits, Zenon
  <2> QED BY <2>2, Zenon DEF FitsMemory
<1>13. CASE UNCHANGED vars
  <2>1. resources' = resources
    BY <1>13 DEF vars
  <2> QED BY <1>6, <2>1
<1>14. CASE Next
  BY <1>7, <1>8, <1>9, <1>10, <1>11, <1>12, <1>14, Zenon DEF Next
<1> QED BY <1>13, <1>14

\* With memory for two observers there are never more, whatever registers, leaves
\* and is loaded (CoAP_AllocNewObserver is asked before the old one is freed).
THEOREM MemoryForTwo == Recordable /\ MaxObservers <= 2 => (Spec => []AtMostTwo)
<1> SUFFICES ASSUME Recordable, MaxObservers <= 2 PROVE Spec => []AtMostTwo
  OBVIOUS
<1>1. Init => NVInv /\ FitsMemory
  <2> SUFFICES ASSUME Init PROVE NVInv /\ FitsMemory
    OBVIOUS
  <2>1. NVInv
    BY NVInit
  <2>2. resources \in Seq(StoredResource) /\ (phase = "boot" => Unobserved(resources))
    BY <2>1, Zenon DEF NVInv
  <2>3. phase = "boot"
    BY DEF Init
  <2>4. NumObservers(resources) = 0
    BY <2>2, <2>3, UnobservedCount
  <2> QED BY <2>1, <2>4, BoundsAssumption DEF FitsMemory
<1>2. NVInv /\ FitsMemory => AtMostTwo
  <2> SUFFICES ASSUME NVInv, FitsMemory PROVE AtMostTwo
    OBVIOUS
  <2>1. resources \in Seq(StoredResource)
    BY Zenon DEF NVInv
  <2> QED BY <2>1, FewFit
<1>3. NVInv /\ FitsMemory /\ [Next]_vars => (NVInv /\ FitsMemory)'
  <2> SUFFICES ASSUME NVInv, FitsMemory, [Next]_vars PROVE NVInv' /\ FitsMemory'
    OBVIOUS
  <2>1. AtMostTwo
    BY <1>2
  <2>2. NVInv'
    BY <2>1, NVStep
  <2> QED BY <2>2, FitsStep
<1> QED BY <1>1, <1>2, <1>3, PTL DEF Spec

\* So with memory for two, the observers that a restart brings back are those
\* that were saved, the first of each resource among them.
COROLLARY SavedObserversReturn ==
    Recordable /\ MaxObservers = 2 => (Spec => [](RestoredWasSaved /\ FirstObserversReturn))
<1> SUFFICES ASSUME Recordable, MaxObservers = 2
             PROVE  Spec => [](RestoredWasSaved /\ FirstObserversReturn)
  OBVIOUS
<1>1. Spec => []AtMostTwo
  <2>1. MaxObservers <= 2
    OBVIOUS
  <2> QED BY <2>1, MemoryForTwo
<1>2. Spec /\ []AtMostTwo => []RestoredWasSaved
  BY LoadInventsNothing
<1>3. Spec /\ []AtMostTwo => []FirstObserversReturn
  <2>1. MaxObservers >= 2
    OBVIOUS
  <2> QED BY <2>1, LoadReturnsFirst
<1> QED BY <1>1, <1>2, <1>3, PTL
=============================================================================
