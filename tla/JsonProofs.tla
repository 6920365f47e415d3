------------------------------- MODULE JsonProofs -------------------------------
(***************************************************************************)
(* Of the texts: the parser accepts the grammar, no more and no less,      *)
(* refuses what was cut off, loses no item, says where it stopped, and     *)
(* reads back what was printed; and printing fits the room it asks for.    *)
(* Of the strings in them: they survive being printed and parsed, the room *)
(* counted beforehand suffices, and units become the UTF-8 of their code   *)
(* points.  All of it for texts of any length.                             *)
(***************************************************************************)
EXTENDS JsonTextProperties, JsonStringProperties, Prefixes

Bytes == 1..255
Codes == {u \in Nat : u < 65536}
Highs == {u \in Codes : High(u)}
Points == {p \in Nat : 0 < p /\ p < 1114112}
AnyPiece == [kind : {"byte", "escaped"}, code : Bytes] \union [kind : {"unit"}, code : Codes]

(* Texts hold bytes other than 0 and units of four digits.                 *)
LEMMA PiecesTyped == SpecPieces => [](pieces \in Seq(AnyPiece))
<1>1. InitPieces => pieces \in Seq(AnyPiece)
  BY DEF InitPieces
<1>2. pieces \in Seq(AnyPiece) /\ [NextPiece]_pieces => (pieces \in Seq(AnyPiece))'
  <2> SUFFICES ASSUME pieces \in Seq(AnyPiece), NextPiece PROVE pieces' \in Seq(AnyPiece)
    OBVIOUS
  <2>1. ASSUME NEW p \in AnyPiece, Piece(p) PROVE pieces' \in Seq(AnyPiece)
    BY <2>1, AppendProperties DEF Piece
  <2>2. ASSUME NEW c \in Plain PROVE Byte(c) \in AnyPiece /\ Escaped(c) \in AnyPiece
    BY PlainAssumption DEF Byte, Escaped, AnyPiece, Bytes
  <2>3. ASSUME NEW u \in Units PROVE Unit(u) \in AnyPiece
    BY UnitsAssumption DEF Unit, AnyPiece, Codes
  <2> QED
    BY <2>1, <2>2, <2>3 DEF NextPiece
<1> QED
  BY <1>1, <1>2, PTL DEF SpecPieces

-----------------------------------------------------------------------------
(* What pieces are decoded to.                                             *)

(* The number of a piece is one of 16 bits.                                *)
LEMMA CodeTyped ==
    ASSUME NEW piece \in AnyPiece
    PROVE  piece.code \in Codes
<1>1. piece.code \in Bytes \/ piece.code \in Codes
  BY DEF AnyPiece
<1>2. \A b \in Bytes : b \in Codes
  BY DEF Bytes, Codes
<1> QED
  BY <1>1, <1>2

(* A code point has up to four bytes, up to three if it is a unit.         *)
LEMMA EncodedTyped ==
    ASSUME NEW uc \in Points
    PROVE  /\ Encoded(uc) \in Seq(Bytes) /\ Len(Encoded(uc)) <= 4
           /\ uc < 65536 => Len(Encoded(uc)) <= 3
<1> DEFINE tail(k) == 128 + ((uc \div k) % 64)
<1>1. tail(1) \in Bytes /\ tail(64) \in Bytes /\ tail(4096) \in Bytes
  BY DEF Bytes, Points
<1>2. CASE uc < 128
  <2>1. Encoded(uc) = <<uc>> /\ uc \in Bytes
    BY <1>2 DEF Encoded, Bytes, Points
  <2> QED
    BY <2>1
<1>3. CASE uc >= 128 /\ uc < 2048
  <2> DEFINE a == 192 + (uc \div 64)
  <2>1. Encoded(uc) = <<a, tail(1)>> /\ a \in Bytes
    BY <1>3 DEF Encoded, Bytes, Points
  <2> HIDE DEF tail, a
  <2> QED
    BY <1>1, <2>1
<1>4. CASE uc >= 2048 /\ uc < 65536
  <2> DEFINE a == 224 + (uc \div 4096)
  <2>1. Encoded(uc) = <<a, tail(64), tail(1)>> /\ a \in Bytes
    BY <1>4 DEF Encoded, Bytes, Points
  <2> HIDE DEF tail, a
  <2> QED
    BY <1>1, <2>1
<1>5. CASE uc >= 65536
  <2> DEFINE a == 240 + (uc \div 262144)
  <2>1. Encoded(uc) = <<a, tail(4096), tail(64), tail(1)>> /\ a \in Bytes
    BY <1>5 DEF Encoded, Bytes, Points
  <2>2. ~(uc < 65536)
    BY <1>5 DEF Points
  <2> HIDE DEF tail, a
  <2> QED
    BY <1>1, <2>1, <2>2
<1> QED
  BY <1>2, <1>3, <1>4, <1>5 DEF Points

(* A pair stands for a code point above 16 bits.                           *)
LEMMA CombinedIs ==
    ASSUME NEW h \in Highs, NEW u \in Codes, Low(u)
    PROVE  /\ Combined(h, u) = 65536 + (h - 55296) * 1024 + (u - 56320)
           /\ Combined(h, u) \in Points /\ Combined(h, u) >= 65536
BY DEF Combined, Codes, Highs, High, Low, Points

Room(piece) == IF piece.kind = "unit" THEN 5 ELSE 1

(* A piece writes no more bytes than it counts for in the first pass.      *)
LEMMA PieceTyped ==
    ASSUME NEW piece \in AnyPiece
    PROVE  OfPiece(piece) \in Seq(Bytes) /\ Len(OfPiece(piece)) <= Room(piece)
<1>1. CASE piece.kind = "byte"
  <2>1. OfPiece(piece) = <<piece.code>> /\ piece.code \in Bytes /\ Room(piece) = 1
    BY <1>1 DEF OfPiece, AnyPiece, Room
  <2> QED
    BY <2>1
<1>2. CASE piece.kind = "escaped"
  <2>1. \A l \in Letters : l[2] \in Bytes
    BY DEF Letters, Bytes
  <2>2. piece.code \in Bytes /\ Room(piece) = 1
    BY <1>2 DEF AnyPiece, Room
  <2>3. PICK c \in Bytes : OfPiece(piece) = <<c>>
    BY <1>2, <2>1, <2>2 DEF OfPiece
  <2> QED
    BY <2>2, <2>3
<1>3. CASE piece.kind = "unit"
  <2>1. piece.code \in Codes /\ Room(piece) = 5
    BY <1>3 DEF AnyPiece, Room
  <2>2. CASE Low(piece.code) \/ piece.code = 0
    BY <1>3, <2>1, <2>2 DEF OfPiece
  <2>3. CASE ~(Low(piece.code) \/ piece.code = 0)
    <3>1. OfPiece(piece) = Encoded(piece.code) /\ piece.code \in Points
      BY <1>3, <2>1, <2>3 DEF OfPiece, Codes, Points
    <3>2. Encoded(piece.code) \in Seq(Bytes) /\ Len(Encoded(piece.code)) <= 4
      BY <3>1, EncodedTyped
    <3> DEFINE e == Encoded(piece.code)
    <3>3. OfPiece(piece) = e /\ e \in Seq(Bytes) /\ Len(e) <= 4 /\ Len(e) \in Nat
      BY <3>1, <3>2, LenProperties
    <3>4. Room(piece) = 5
      BY <2>1
    <3> HIDE DEF e
    <3>5. Len(e) <= 5
      BY <3>3
    <3> QED
      BY <3>3, <3>4, <3>5
  <2> QED
    BY <2>2, <2>3
<1> QED
  BY <1>1, <1>2, <1>3 DEF AnyPiece

Done == [out : Seq(Bytes), high : {0} \union Highs]

(* One piece more.                                                         *)
LEMMA DecodeTyped ==
    ASSUME NEW d \in Done, NEW piece \in AnyPiece
    PROVE  /\ Decode(d, piece) \in Done
           /\ Len(Decode(d, piece).out) <= Len(d.out) + Room(piece)
<1>1. d.out \in Seq(Bytes) /\ d.high \in {0} \union Highs /\ Len(d.out) \in Nat
  BY DEF Done
<1>2. CASE d.high # 0 /\ piece.kind = "unit" /\ Low(piece.code)
  <2> DEFINE e == Encoded(Combined(d.high, piece.code))
  <2>1. piece.code \in Codes /\ d.high \in Highs /\ Room(piece) = 5
    BY <1>1, <1>2 DEF AnyPiece, Room
  <2>2. Combined(d.high, piece.code) \in Points
    BY <1>2, <2>1, CombinedIs
  <2>3. e \in Seq(Bytes) /\ Len(e) <= 4 /\ Len(e) \in Nat
    BY <2>2, EncodedTyped, LenProperties
  <2>4. Decode(d, piece) = [out |-> d.out \o e, high |-> 0]
    BY <1>2 DEF Decode
  <2> HIDE DEF e
  <2>5. d.out \o e \in Seq(Bytes) /\ Len(d.out \o e) = Len(d.out) + Len(e)
    BY <1>1, <2>3, ConcatProperties
  <2>6. Room(piece) = 5
    BY <2>1
  <2>7. Decode(d, piece) \in Done
    BY <2>4, <2>5 DEF Done
  <2>8. Len(d.out \o e) <= Len(d.out) + 5
    BY <1>1, <2>3, <2>5
  <2> QED
    BY <2>4, <2>6, <2>7, <2>8
<1>3. CASE d.high # 0 /\ piece.kind = "unit" /\ ~Low(piece.code)
  <2>1. Decode(d, piece) = [out |-> d.out, high |-> 0] /\ Room(piece) = 5
    BY <1>3 DEF Decode, Room
  <2> QED
    BY <1>1, <2>1 DEF Done
<1>4. CASE ~(d.high # 0 /\ piece.kind = "unit") /\ piece.kind = "unit" /\ High(piece.code)
  <2>1. Decode(d, piece) = [out |-> d.out, high |-> piece.code] /\ Room(piece) = 5
    BY <1>4 DEF Decode, Room
  <2>2. piece.code \in Highs
    BY <1>4 DEF Highs, AnyPiece
  <2> QED
    BY <1>1, <2>1, <2>2 DEF Done
<1>5. CASE ~(d.high # 0 /\ piece.kind = "unit") /\ ~(piece.kind = "unit" /\ High(piece.code))
  <2> DEFINE e == OfPiece(piece)
  <2>1. Decode(d, piece) = [out |-> d.out \o e, high |-> 0]
    BY <1>5 DEF Decode
  <2>2. e \in Seq(Bytes) /\ Len(e) <= Room(piece) /\ Room(piece) \in Nat
    BY PieceTyped DEF Room
  <2> HIDE DEF e
  <2>3. d.out \o e \in Seq(Bytes) /\ Len(d.out \o e) = Len(d.out) + Len(e) /\ Len(e) \in Nat
    BY <1>1, <2>2, ConcatProperties, LenProperties
  <2> QED
    BY <1>1, <2>1, <2>2, <2>3 DEF Done
<1> QED
  BY <1>2, <1>3, <1>4, <1>5

(* A text is decoded piece by piece.                                       *)
LEMMA DecodedDefined ==
    ASSUME NEW t \in Seq(AnyPiece)
    PROVE  /\ Decoded(t)[0] = [out |-> <<>>, high |-> 0]
           /\ \A i \in 0..Len(t) : Decoded(t)[i] \in Done
           /\ \A i \in 1..Len(t) : Decoded(t)[i] = Decode(Decoded(t)[i - 1], t[i])
<1> DEFINE n == Len(t)
           first == [out |-> <<>>, high |-> 0]
           next == [i \in 1..n |-> [d \in Done |-> Decode(d, t[i])]]
           R(f) == [i \in 0..n |-> IF i = 0 THEN first ELSE Decode(f[i - 1], t[i])]
           done == Decoded(t)
<1>1. n \in Nat /\ \A i \in 1..n : t[i] \in AnyPiece
  BY LenProperties, ElementOfSeq
<1>2. first \in Done
  BY DEF Done
<1>3. next \in [1..n -> [Done -> Done]]
  <2>1. \A i \in 1..n : \A d \in Done : Decode(d, t[i]) \in Done
    BY <1>1, DecodeTyped
  <2> HIDE DEF n
  <2> QED
    BY <2>1
<1>4. PICK f : Follows(n, Done, first, next, f)
  <2>1. Steps(n, Done, first, next)
    BY <1>1, <1>2, <1>3 DEF Steps
  <2> HIDE DEF next, first, n
  <2> QED
    BY <2>1, Recursion
<1> HIDE DEF n, first
<1>5. f \in [0..n -> Done] /\ f[0] = first /\ \A i \in 1..n : f[i] = Decode(f[i - 1], t[i])
  <2>1. f \in [0..n -> Done] /\ f[0] = first /\ \A i \in 1..n : f[i] = next[i][f[i - 1]]
    BY <1>4 DEF Follows
  <2>2. ASSUME NEW i \in 1..n PROVE f[i] = Decode(f[i - 1], t[i])
    <3>1. i - 1 \in 0..n
      BY <1>1
    <3>2. f[i - 1] \in Done /\ next[i] = [d \in Done |-> Decode(d, t[i])]
      BY <2>1, <3>1
    <3>3. f[i] = next[i][f[i - 1]]
      BY <2>1
    <3> QED
      BY <3>2, <3>3
  <2> QED
    BY <2>1, <2>2
<1>6. f = R(f)
  BY <1>1, <1>5
<1>7. done = R(done)
  <2>1. done = CHOOSE g : g = R(g)
    BY DEF Decoded, n, first
  <2> HIDE DEF R, done
  <2> QED
    BY <1>6, <2>1
<1> HIDE DEF done
<1>8. done[0] = first /\ \A i \in 1..n : done[i] = Decode(done[i - 1], t[i])
  BY <1>1, <1>7
<1> DEFINE I == {i \in 0..n : done[i] \in Done}
<1>9. 0 \in I
  BY <1>1, <1>2, <1>8
<1>10. ASSUME NEW i \in 1..n, i - 1 \in I PROVE i \in I
  <2>1. done[i - 1] \in Done /\ t[i] \in AnyPiece /\ i \in 0..n
    BY <1>1, <1>10
  <2> QED
    BY <1>8, <2>1, DecodeTyped
<1> HIDE DEF I
<1>11. \A i \in 0..n : i \in I
  BY <1>1, <1>9, <1>10, UpTo
<1> QED
  BY <1>8, <1>11 DEF I, done, n, first

(* What a text is decoded to is a string of bytes other than 0.           *)
LEMMA StringTyped ==
    ASSUME NEW t \in Seq(AnyPiece)
    PROVE  valuestring(t) \in Seq(Bytes)
<1>1. Len(t) \in 0..Len(t)
  BY LenProperties
<1>2. Decoded(t)[Len(t)] \in Done
  BY <1>1, DecodedDefined
<1> QED
  BY <1>2 DEF valuestring, Done

-----------------------------------------------------------------------------
(* Printing and parsing again.                                             *)

(* The letter behind the backslash and the byte determine each other.      *)
LEMMA LettersUnique ==
    /\ \A l \in Letters : l[1] \in 98..116 /\ l[2] \in 8..13
    /\ \A l, m \in Letters : l[1] = m[1] <=> l[2] = m[2]
    /\ \A l, m \in Letters : l[1] = m[1] => l = m
BY DEF Letters

\* The characters a piece is written with.
Width(piece) ==
    CASE piece.kind = "byte" -> 1
      [] piece.kind = "escaped" -> 2
      [] piece.kind = "unit" -> 6

(* A byte is printed as a piece that is decoded to that byte, and counts   *)
(* as many characters as are written.                                      *)
LEMMA BytePrinted ==
    ASSUME NEW c \in Bytes
    PROVE  /\ PrintedAs(c) \in AnyPiece
           /\ OfPiece(PrintedAs(c)) = <<c>>
           /\ ~(PrintedAs(c).kind = "unit" /\ High(PrintedAs(c).code))
           /\ Width(PrintedAs(c)) = LengthOf(c)
           /\ PrintedAs(c).kind = "byte" => PrintedAs(c).code \notin 0..31 \union {Quote, Backslash}
<1> USE DEF Bytes
<1>1. CASE StandsAsIs(c)
  <2>1. PrintedAs(c) = [kind |-> "byte", code |-> c]
    BY <1>1 DEF PrintedAs, Byte
  <2>2. c > 31 /\ c # Quote /\ c # Backslash /\ ~\E l \in Letters : l[2] = c
    BY <1>1, LettersUnique DEF StandsAsIs
  <2>3. LengthOf(c) = 1
    BY <2>2 DEF LengthOf
  <2> QED
    BY <2>1, <2>2, <2>3 DEF OfPiece, AnyPiece, Width
<1>2. CASE c \in {Quote, Backslash}
  <2>1. PrintedAs(c) = [kind |-> "escaped", code |-> c]
    BY <1>2 DEF PrintedAs, Escaped, StandsAsIs
  <2>2. ~\E l \in Letters : l[1] = c
    BY <1>2, LettersUnique DEF Quote, Backslash
  <2>3. LengthOf(c) = 2
    BY <1>2 DEF LengthOf
  <2>4. OfPiece(PrintedAs(c)) = <<c>>
    BY <2>1, <2>2 DEF OfPiece
  <2> QED
    BY <2>1, <2>3, <2>4 DEF AnyPiece, Width
<1>3. CASE ~StandsAsIs(c) /\ c \notin {Quote, Backslash} /\ \E l \in Letters : l[2] = c
  <2> DEFINE l == CHOOSE m \in Letters : m[2] = c
             k == CHOOSE m \in Letters : m[1] = l[1]
  <2>1. l \in Letters /\ l[2] = c
    BY <1>3
  <2>2. PrintedAs(c) = [kind |-> "escaped", code |-> l[1]]
    BY <1>3 DEF PrintedAs, Escaped
  <2>3. LengthOf(c) = 2
    BY <1>3 DEF LengthOf
  <2> HIDE DEF l
  <2>4. k \in Letters /\ k[1] = l[1]
    BY <2>1
  <2>5. k[2] = c
    BY <2>1, <2>4, LettersUnique
  <2>6. OfPiece(PrintedAs(c)) = <<k[2]>>
    BY <2>1, <2>2 DEF OfPiece
  <2>7. l[1] \in Bytes
    BY <2>1, LettersUnique
  <2> QED
    BY <2>2, <2>3, <2>5, <2>6, <2>7 DEF AnyPiece, Width
<1>4. CASE ~StandsAsIs(c) /\ c \notin {Quote, Backslash} /\ ~\E l \in Letters : l[2] = c
  <2>1. PrintedAs(c) = [kind |-> "unit", code |-> c] /\ c < 32
    BY <1>4 DEF PrintedAs, Unit, StandsAsIs
  <2>2. LengthOf(c) = 6
    BY <1>4, <2>1 DEF LengthOf
  <2>3. ~Low(c) /\ ~High(c) /\ c # 0 /\ Encoded(c) = <<c>> /\ c \in Codes
    BY <2>1 DEF Low, High, Encoded, Codes
  <2>4. OfPiece(PrintedAs(c)) = <<c>>
    BY <2>1, <2>3 DEF OfPiece
  <2> QED
    BY <2>1, <2>2, <2>3, <2>4 DEF AnyPiece, Width
<1> QED
  BY <1>1, <1>2, <1>3, <1>4

(* A string is printed byte by byte.                                      *)
LEMMA PrintedTyped ==
    ASSUME NEW s \in Seq(Bytes)
    PROVE  /\ print_string_ptr(s) \in Seq(AnyPiece) /\ Len(print_string_ptr(s)) = Len(s)
           /\ \A i \in 1..Len(s) : print_string_ptr(s)[i] = PrintedAs(s[i]) /\ s[i] \in Bytes
<1>1. Len(s) \in Nat /\ DOMAIN s = 1..Len(s) /\ \A i \in 1..Len(s) : s[i] \in Bytes
  BY LenProperties, ElementOfSeq
<1>2. print_string_ptr(s) \in [1..Len(s) -> AnyPiece]
  BY <1>1, BytePrinted DEF print_string_ptr
<1>3. \A i \in 1..Len(s) : print_string_ptr(s)[i] = PrintedAs(s[i])
  BY <1>1 DEF print_string_ptr
<1> QED
  BY <1>1, <1>2, <1>3, FunSeq

(* After i printed bytes, the first i bytes are back.                      *)
LEMMA PrintedDecoded ==
    ASSUME NEW s \in Seq(Bytes)
    PROVE  valuestring(print_string_ptr(s)) = s
<1> DEFINE t == print_string_ptr(s)
           n == Len(s)
           I == {i \in 0..n : Decoded(t)[i] = [out |-> SubSeq(s, 1, i), high |-> 0]}
<1>1. n \in Nat /\ t \in Seq(AnyPiece) /\ Len(t) = n
      /\ \A i \in 1..n : t[i] = PrintedAs(s[i]) /\ s[i] \in Bytes
  BY PrintedTyped, LenProperties
<1> HIDE DEF t
<1>2. /\ Decoded(t)[0] = [out |-> <<>>, high |-> 0]
      /\ \A i \in 1..n : Decoded(t)[i] = Decode(Decoded(t)[i - 1], t[i])
  BY <1>1, DecodedDefined
<1>3. 0 \in I
  <2>1. SubSeq(s, 1, 0) = <<>>
    BY SubSeqEmpty
  <2> QED
    BY <1>1, <1>2, <2>1
<1>4. ASSUME NEW i \in 1..n, i - 1 \in I PROVE i \in I
  <2> DEFINE o == SubSeq(s, 1, i - 1)
             d == Decoded(t)[i - 1]
  <2>1. d = [out |-> o, high |-> 0]
    BY <1>4
  <2>2. /\ OfPiece(t[i]) = <<s[i]>> /\ ~(t[i].kind = "unit" /\ High(t[i].code))
    BY <1>1, BytePrinted
  <2>3. Decode(d, t[i]) = [out |-> o \o <<s[i]>>, high |-> 0]
    <3> HIDE DEF o, d
    <3> QED
      BY <2>1, <2>2 DEF Decode
  <2>4. o \o <<s[i]>> = SubSeq(s, 1, i)
    <3>1. o \in Seq(Bytes) /\ Len(o) = i - 1 /\ \A k \in 1..(i - 1) : o[k] = s[k]
      BY <1>1
    <3>2. SubSeq(s, 1, i) \in Seq(Bytes) /\ Len(SubSeq(s, 1, i)) = i /\ \A k \in 1..i : SubSeq(s, 1, i)[k] = s[k]
      BY <1>1
    <3>3. s[i] \in Bytes
      BY <1>1
    <3> HIDE DEF o
    <3>4. Append(o, s[i]) = o \o <<s[i]>>
      BY <3>1, <3>3, AppendIsConcat
    <3>5. /\ Append(o, s[i]) \in Seq(Bytes) /\ Len(Append(o, s[i])) = i
          /\ \A k \in 1..i : Append(o, s[i])[k] = IF k <= i - 1 THEN o[k] ELSE s[i]
      BY <3>1, <3>3, AppendProperties
    <3>6. \A k \in 1..i : Append(o, s[i])[k] = s[k]
      BY <3>1, <3>5
    <3> DEFINE a == Append(o, s[i])
               z == SubSeq(s, 1, i)
    <3>7. a \in Seq(Bytes) /\ z \in Seq(Bytes) /\ Len(a) = i /\ Len(z) = i /\ \A k \in 1..i : a[k] = z[k]
      BY <3>2, <3>5, <3>6
    <3> HIDE DEF a, z
    <3>8. a = z
      BY <3>7, SeqEqual
    <3> QED
      BY <3>4, <3>8 DEF a, z
  <2> QED
    BY SMTT(30), <1>1, <1>2, <2>3, <2>4
<1> HIDE DEF I
<1>5. \A i \in 0..n : i \in I
  BY <1>1, <1>3, <1>4, UpTo
<1>6. n \in I
  BY <1>1, <1>5
<1>7. Decoded(t)[n].out = SubSeq(s, 1, n)
  BY <1>6 DEF I
<1> QED
  BY <1>1, <1>7, SubSeqFull DEF valuestring, t

(* A string that is printed and parsed is the same string, control         *)
(* characters, quotes and bytes above 127 included; nothing in the printed *)
(* text ends it early or begins an escape.                                 *)
THEOREM WhatIsPrintedIsRead == SpecPieces => []StringsSurvive
<1>1. pieces \in Seq(AnyPiece) => StringsSurvive
  <2> SUFFICES ASSUME pieces \in Seq(AnyPiece) PROVE StringsSurvive
    OBVIOUS
  <2>1. String \in Seq(Bytes)
    BY StringTyped DEF String
  <2>2. valuestring(print_string_ptr(String)) = String
    BY <2>1, PrintedDecoded
  <2> DEFINE printed == print_string_ptr(String)
  <2>3. /\ printed \in Seq(AnyPiece) /\ Len(printed) = Len(String)
        /\ \A i \in 1..Len(String) : printed[i] = PrintedAs(String[i]) /\ String[i] \in Bytes
    BY <2>1, PrintedTyped
  <2> HIDE DEF printed
  <2>4. DOMAIN printed = 1..Len(String)
    BY <2>3, LenProperties
  <2>5. \A i \in DOMAIN printed :
            printed[i].kind = "byte" => printed[i].code \notin 0..31 \union {Quote, Backslash}
    BY <2>3, <2>4, BytePrinted
  <2> QED
    BY <2>2, <2>5 DEF StringsSurvive, printed
<1> QED
  BY <1>1, PiecesTyped, PTL

(* What parse_string counts in its first pass over a text of whole escapes *)
(* is room enough for what its second pass writes, and what                *)
(* print_string_ptr counts is exactly what it writes.                      *)
THEOREM RoomIsEnough == SpecPieces => []RoomSuffices
<1>1. pieces \in Seq(AnyPiece) => RoomSuffices
  <2> SUFFICES ASSUME pieces \in Seq(AnyPiece) PROVE RoomSuffices
    OBVIOUS
  <2> DEFINE n == Len(pieces)
             rooms == [i \in DOMAIN pieces |-> Room(pieces[i])]
             I == {i \in 0..n : Len(Decoded(pieces)[i].out) <= Sums(rooms)[i]}
  <2>1. n \in Nat /\ DOMAIN pieces = 1..n /\ \A i \in 1..n : pieces[i] \in AnyPiece
    BY LenProperties, ElementOfSeq
  <2>2. rooms \in Seq(Nat) /\ Len(rooms) = n
    <3>1. rooms \in [1..n -> Nat]
      BY <2>1 DEF Room
    <3> HIDE DEF rooms, n
    <3> QED
      BY <2>1, <3>1, FunSeq
  <2>3. \A i \in 1..n : rooms[i] = Room(pieces[i])
    BY <2>1
  <2>4. RoomOf(pieces) = 1 + Total(rooms)
    BY DEF RoomOf, Room
  <2> HIDE DEF rooms, n
  <2>5. /\ Decoded(pieces)[0] = [out |-> <<>>, high |-> 0]
        /\ \A i \in 0..n : Decoded(pieces)[i] \in Done
        /\ \A i \in 1..n : Decoded(pieces)[i] = Decode(Decoded(pieces)[i - 1], pieces[i])
    BY DecodedDefined DEF n
  <2>6. /\ Sums(rooms) \in [0..n -> Nat] /\ Sums(rooms)[0] = 0
        /\ \A i \in 1..n : Sums(rooms)[i] = Sums(rooms)[i - 1] + rooms[i]
    BY <2>2, SumsDefined
  <2>7. 0 \in I
    <3>1. Len(Decoded(pieces)[0].out) = 0
      BY <2>5
    <3> QED
      BY <2>1, <2>6, <3>1
  <2>8. ASSUME NEW i \in 1..n, i - 1 \in I PROVE i \in I
    <3> DEFINE d == Decoded(pieces)[i - 1]
               e == Decoded(pieces)[i]
    <3>1. i - 1 \in 0..n /\ i \in 0..n
      BY <2>1
    <3>2. d \in Done /\ e \in Done /\ e = Decode(d, pieces[i]) /\ Len(d.out) <= Sums(rooms)[i - 1]
      BY <2>5, <2>8, <3>1
    <3> HIDE DEF d, e
    <3>3. Len(e.out) <= Len(d.out) + Room(pieces[i])
      BY <2>1, <3>2, DecodeTyped
    <3>4. Len(d.out) \in Nat /\ Len(e.out) \in Nat
      BY <3>2, LenProperties DEF Done
    <3>5. Sums(rooms)[i] = Sums(rooms)[i - 1] + Room(pieces[i]) /\ Sums(rooms)[i - 1] \in Nat
          /\ Room(pieces[i]) \in Nat
      BY <2>3, <2>6, <3>1 DEF Room
    <3>6. Len(e.out) <= Sums(rooms)[i]
      BY <3>2, <3>3, <3>4, <3>5
    <3> QED
      BY <3>1, <3>6 DEF e
  <2> HIDE DEF I
  <2>9. \A i \in 0..n : i \in I
    BY <2>1, <2>7, <2>8, UpTo
  <2>10. n \in I /\ n \in 0..n
    BY <2>1, <2>9
  <2>11. Len(String) <= Total(rooms)
    BY <2>2, <2>10 DEF I, String, valuestring, n, Total
  <2>12. String \in Seq(Bytes) /\ Len(String) \in Nat /\ Total(rooms) \in Nat
    BY <2>2, StringTyped, LenProperties, SumsDefined DEF String
  <2> DEFINE printed == print_string_ptr(String)
  <2>13. /\ printed \in Seq(AnyPiece) /\ Len(printed) = Len(String)
         /\ \A i \in 1..Len(String) : printed[i] = PrintedAs(String[i]) /\ String[i] \in Bytes
    BY <2>12, PrintedTyped
  <2> HIDE DEF printed
  <2>14. DOMAIN printed = 1..Len(String) /\ DOMAIN String = 1..Len(String)
    BY <2>12, <2>13, LenProperties
  <2>15. [i \in DOMAIN printed |-> Width(printed[i])] = [i \in DOMAIN String |-> LengthOf(String[i])]
    BY <2>13, <2>14, BytePrinted
  <2>16. Characters(printed) = Total([i \in DOMAIN printed |-> Width(printed[i])])
    BY DEF Characters, Width
  <2>17. Total([i \in DOMAIN String |-> LengthOf(String[i])]) \in Nat
    <3> DEFINE widths == [i \in DOMAIN String |-> LengthOf(String[i])]
    <3>1. widths \in [1..Len(String) -> Nat]
      BY <2>14 DEF LengthOf
    <3> HIDE DEF widths
    <3>2. widths \in Seq(Nat)
      BY <2>12, <3>1, FunSeq
    <3> QED
      BY <3>2, SumsDefined DEF widths
  <2>18. Characters(printed) + 3 = RoomToPrint(String)
    BY <2>15, <2>16, <2>17 DEF RoomToPrint
  <2> QED
    BY <2>4, <2>11, <2>12, <2>18 DEF RoomSuffices, printed
<1> QED
  BY <1>1, PiecesTyped, PTL

-----------------------------------------------------------------------------
(* Reading the bytes back.                                                 *)

Reading == [points : Seq(Int), more : Int]
Read(s) == ReadBack(s)[Len(s)]

(* The last point is replaced, and nothing else.                           *)
LEMMA ToLastTyped ==
    ASSUME NEW points \in Seq(Int), NEW x, points # <<>> => x \in Int
    PROVE  ToLast(points, x) \in Seq(Int)
<1>1. CASE points = <<>>
  <2>1. ToLast(points, x) = points
    BY <1>1 DEF ToLast
  <2> QED
    BY <2>1
<1>2. CASE points # <<>>
  BY <1>2 DEF ToLast
<1> QED
  BY <1>1, <1>2

(* The point that was written last is the one that is replaced.            *)
LEMMA ToLastAppend ==
    ASSUME NEW points \in Seq(Int), NEW x \in Int, NEW y \in Int
    PROVE  /\ ToLast(Append(points, x), y) = Append(points, y)
           /\ Append(points, x) \in Seq(Int)
           /\ Append(points, x)[Len(Append(points, x))] = x
<1> DEFINE a == Append(points, x)
           b == Append(points, y)
           c == ToLast(a, y)
           n == Len(points) + 1
<1>1. /\ a \in Seq(Int) /\ Len(a) = n /\ a[n] = x
      /\ b \in Seq(Int) /\ Len(b) = n /\ b[n] = y
      /\ n \in Nat /\ \A i \in 1..(n - 1) : a[i] = points[i] /\ b[i] = points[i]
  OBVIOUS
<1>2. c = [a EXCEPT ![n] = y]
  BY <1>1 DEF ToLast
<1> HIDE DEF a, b, c, n
<1>3. c \in Seq(Int) /\ Len(c) = n /\ \A i \in 1..n : c[i] = b[i]
  <2>1. a \in [1..n -> Int] /\ n \in Nat
    BY <1>1
  <2>2. c \in [1..n -> Int] /\ \A i \in 1..n : c[i] = IF i = n THEN y ELSE a[i]
    BY <1>2, <2>1
  <2>3. \A i \in 1..n : i = n \/ i \in 1..(n - 1)
    BY <2>1
  <2> QED
    BY <1>1, <2>2, <2>3, FunSeq
<1>4. c = b
  BY <1>1, <1>3, SeqEqual
<1> QED
  BY <1>1, <1>4 DEF a, b, c

(* One byte more.                                                          *)
LEMMA ReadByteTyped ==
    ASSUME NEW d \in Reading, NEW b \in Bytes
    PROVE  ReadByte(d, b) \in Reading
<1> DEFINE point == d.points[Len(d.points)]
<1>1. d.points \in Seq(Int) /\ d.more \in Int /\ b \in Int
  BY DEF Reading, Bytes
<1>2. [d EXCEPT !.more = -1] \in Reading
  BY DEF Reading
<1>3. ASSUME NEW x \in Int, NEW m \in Int
      PROVE  [points |-> Append(d.points, x), more |-> m] \in Reading
  BY <1>1, AppendProperties DEF Reading
<1>4. [points |-> ToLast(d.points, point * 64 + (b - 128)), more |-> d.more - 1] \in Reading
  <2>1. d.points # <<>> => point * 64 + (b - 128) \in Int
    BY <1>1
  <2> DEFINE p == ToLast(d.points, point * 64 + (b - 128))
  <2>2. p \in Seq(Int)
    BY <1>1, <2>1, ToLastTyped
  <2> HIDE DEF p
  <2>3. [points |-> p, more |-> d.more - 1] \in Reading
    BY <1>1, <2>2 DEF Reading
  <2> QED
    BY <2>3 DEF p
<1>5. /\ [points |-> Append(d.points, b), more |-> 0] \in Reading
      /\ [points |-> Append(d.points, b - 192), more |-> 1] \in Reading
      /\ [points |-> Append(d.points, b - 224), more |-> 2] \in Reading
      /\ [points |-> Append(d.points, b - 240), more |-> 3] \in Reading
  <2>1. b \in Int /\ b - 192 \in Int /\ b - 224 \in Int /\ b - 240 \in Int
    BY <1>1
  <2>2. 0 \in Int /\ 1 \in Int /\ 2 \in Int /\ 3 \in Int
    OBVIOUS
  <2> QED
    BY <2>1, <2>2, <1>3, ZenonT(60)
<1> QED
  BY <1>2, <1>4, <1>5, ZenonT(60) DEF ReadByte

(* Bytes are read one by one.                                              *)
LEMMA ReadDefined ==
    ASSUME NEW s \in Seq(Bytes)
    PROVE  /\ ReadBack(s)[0] = [points |-> <<>>, more |-> 0]
           /\ \A i \in 0..Len(s) : ReadBack(s)[i] \in Reading
           /\ \A i \in 1..Len(s) : ReadBack(s)[i] = ReadByte(ReadBack(s)[i - 1], s[i])
<1> DEFINE n == Len(s)
           first == [points |-> <<>>, more |-> 0]
           next == [i \in 1..n |-> [d \in Reading |-> ReadByte(d, s[i])]]
           R(f) == [i \in 0..n |-> IF i = 0 THEN first ELSE ReadByte(f[i - 1], s[i])]
           done == ReadBack(s)
<1>1. n \in Nat /\ \A i \in 1..n : s[i] \in Bytes
  BY LenProperties, ElementOfSeq
<1>2. first \in Reading
  BY DEF Reading
<1>3. next \in [1..n -> [Reading -> Reading]]
  <2>1. \A i \in 1..n : \A d \in Reading : ReadByte(d, s[i]) \in Reading
    BY <1>1, ReadByteTyped
  <2> HIDE DEF n
  <2> QED
    BY <2>1
<1>4. PICK f : Follows(n, Reading, first, next, f)
  <2>1. Steps(n, Reading, first, next)
    BY <1>1, <1>2, <1>3 DEF Steps
  <2> HIDE DEF next, first, n
  <2> QED
    BY <2>1, Recursion
<1> HIDE DEF n, first
<1>5. f \in [0..n -> Reading] /\ f[0] = first /\ \A i \in 1..n : f[i] = ReadByte(f[i - 1], s[i])
  <2>1. f \in [0..n -> Reading] /\ f[0] = first /\ \A i \in 1..n : f[i] = next[i][f[i - 1]]
    BY <1>4 DEF Follows
  <2>2. ASSUME NEW i \in 1..n PROVE f[i] = ReadByte(f[i - 1], s[i])
    <3>1. i - 1 \in 0..n
      BY <1>1
    <3>2. f[i - 1] \in Reading /\ next[i] = [d \in Reading |-> ReadByte(d, s[i])]
      BY <2>1, <3>1
    <3>3. f[i] = next[i][f[i - 1]]
      BY <2>1
    <3> QED
      BY <3>2, <3>3
  <2> QED
    BY <2>1, <2>2
<1>6. f = R(f)
  BY <1>1, <1>5
<1>7. done = R(done)
  <2>1. done = CHOOSE g : g = R(g)
    BY DEF ReadBack, n, first
  <2> HIDE DEF R, done
  <2> QED
    BY <1>6, <2>1
<1> HIDE DEF done
<1>8. done[0] = first /\ \A i \in 1..n : done[i] = ReadByte(done[i - 1], s[i])
  BY <1>1, <1>7
<1> DEFINE I == {i \in 0..n : done[i] \in Reading}
<1>9. 0 \in I
  BY <1>1, <1>2, <1>8
<1>10. ASSUME NEW i \in 1..n, i - 1 \in I PROVE i \in I
  <2>1. done[i - 1] \in Reading /\ s[i] \in Bytes /\ i \in 0..n
    BY <1>1, <1>10
  <2> QED
    BY <1>8, <2>1, ReadByteTyped
<1> HIDE DEF I
<1>11. \A i \in 0..n : i \in I
  BY <1>1, <1>9, <1>10, UpTo
<1> QED
  BY <1>8, <1>11 DEF I, done, n, first

(* A byte behind a string is read after all of the string.                 *)
LEMMA ReadAppend ==
    ASSUME NEW s \in Seq(Bytes), NEW b \in Bytes
    PROVE  /\ Read(s) \in Reading
           /\ Append(s, b) \in Seq(Bytes)
           /\ Read(Append(s, b)) = ReadByte(Read(s), b)
<1> DEFINE n == Len(s)
           a == Append(s, b)
           I == {i \in 0..n : ReadBack(a)[i] = ReadBack(s)[i]}
<1>1. /\ n \in Nat /\ a \in Seq(Bytes) /\ Len(a) = n + 1 /\ a[n + 1] = b
      /\ \A i \in 1..n : a[i] = s[i]
  BY AppendProperties, LenProperties
<1> HIDE DEF a
<1>2. /\ ReadBack(s)[0] = [points |-> <<>>, more |-> 0]
      /\ \A i \in 0..n : ReadBack(s)[i] \in Reading
      /\ \A i \in 1..n : ReadBack(s)[i] = ReadByte(ReadBack(s)[i - 1], s[i])
  BY ReadDefined
<1>3. /\ ReadBack(a)[0] = [points |-> <<>>, more |-> 0]
      /\ \A i \in 1..(n + 1) : ReadBack(a)[i] = ReadByte(ReadBack(a)[i - 1], a[i])
  BY <1>1, ReadDefined
<1> HIDE DEF n
<1>4. 0 \in I
  BY <1>1, <1>2, <1>3
<1>5. ASSUME NEW i \in 1..n, i - 1 \in I PROVE i \in I
  <2>1. i \in 1..(n + 1) /\ i \in 0..n
    BY <1>1
  <2> QED
    BY <1>1, <1>2, <1>3, <1>5, <2>1
<1> HIDE DEF I
<1>6. \A i \in 0..n : i \in I
  BY <1>1, <1>4, <1>5, UpTo
<1>7. n \in 0..n /\ n + 1 \in 1..(n + 1) /\ (n + 1) - 1 = n
  BY <1>1
<1>8. ReadBack(a)[n] = ReadBack(s)[n]
  BY <1>6, <1>7 DEF I
<1>9. ReadBack(a)[n + 1] = ReadByte(ReadBack(s)[n], b)
  BY <1>1, <1>3, <1>7, <1>8
<1> QED
  BY <1>1, <1>2, <1>7, <1>9 DEF Read, n, a

(* A first byte begins a point.                                            *)
LEMMA ReadFirst ==
    ASSUME NEW d \in Reading, d.more = 0, NEW b \in Bytes
    PROVE  /\ b < 128 => ReadByte(d, b) = [points |-> Append(d.points, b), more |-> 0]
           /\ b \in 194..223 => ReadByte(d, b) = [points |-> Append(d.points, b - 192), more |-> 1]
           /\ b \in 224..239 => ReadByte(d, b) = [points |-> Append(d.points, b - 224), more |-> 2]
           /\ b \in 240..244 => ReadByte(d, b) = [points |-> Append(d.points, b - 240), more |-> 3]
<1>1. b < 128 => b \notin 128..191
  BY DEF Bytes
<1>2. b \in 194..223 => b \notin 128..191 /\ ~(b < 128)
  OBVIOUS
<1>3. b \in 224..239 => b \notin 128..191 /\ ~(b < 128) /\ b \notin 194..223
  OBVIOUS
<1>4. b \in 240..244 => b \notin 128..191 /\ ~(b < 128) /\ b \notin 194..223 /\ b \notin 224..239
  OBVIOUS
<1>5. ~(d.more # 0)
  OBVIOUS
<1>6. b < 128 => ReadByte(d, b) = [points |-> Append(d.points, b), more |-> 0]
  BY <1>1, <1>5 DEF ReadByte
<1>7. b \in 194..223 => ReadByte(d, b) = [points |-> Append(d.points, b - 192), more |-> 1]
  BY <1>2, <1>5 DEF ReadByte
<1>8. b \in 224..239 => ReadByte(d, b) = [points |-> Append(d.points, b - 224), more |-> 2]
  BY <1>3, <1>5 DEF ReadByte
<1>9. b \in 240..244 => ReadByte(d, b) = [points |-> Append(d.points, b - 240), more |-> 3]
  BY <1>4, <1>5 DEF ReadByte
<1> QED
  BY <1>6, <1>7, <1>8, <1>9, Zenon

\* The last point so far is x, and m bytes of it are missing.
Partly(points, x, m) == [points |-> Append(points, x), more |-> m]

\* r, six bits, behind x, which misses m bytes, makes y, which misses k.
Continues(x, m, r, y, k) ==
    /\ x \in Nat /\ m \in 1..3 /\ r \in 0..63
    /\ y = x * 64 + r /\ k = m - 1
    /\ x # 0 \/ r >= IF m = 2 THEN 32 ELSE 16

(* Each further byte adds six bits to it.                                  *)
LEMMA ReadNext ==
    ASSUME NEW P \in Seq(Int), NEW x, NEW m, NEW r, NEW y, NEW k, Continues(x, m, r, y, k)
    PROVE  ReadByte(Partly(P, x, m), 128 + r) = Partly(P, y, k)
<1> USE DEF Continues
<1> DEFINE b == 128 + r
           a == Append(P, x)
           d == [points |-> a, more |-> m]
<1>1. b \in 128..191 /\ b - 128 = r /\ x * 64 + r \in Int /\ m > 0
  OBVIOUS
<1>2. x # 0 \/ b >= IF m = 2 THEN 160 ELSE 144
  OBVIOUS
<1>3. a[Len(a)] = x /\ ToLast(a, x * 64 + r) = Append(P, x * 64 + r)
  BY <1>1, ToLastAppend
<1> HIDE DEF a, b
<1>4. ReadByte(d, b) = [points |-> ToLast(a, x * 64 + r), more |-> m - 1]
  BY SMTT(30), <1>1, <1>2, <1>3 DEF ReadByte
<1> QED
  BY <1>3, <1>4 DEF a, b, Partly

(* A tuple behind a string is its members one by one.                      *)
LEMMA TupleAppended ==
    ASSUME NEW s \in Seq(Bytes), NEW a \in Bytes, NEW b \in Bytes, NEW c \in Bytes, NEW e \in Bytes
    PROVE  /\ s \o <<a>> = Append(s, a)
           /\ s \o <<a, b>> = Append(Append(s, a), b)
           /\ s \o <<a, b, c>> = Append(Append(Append(s, a), b), c)
           /\ s \o <<a, b, c, e>> = Append(Append(Append(Append(s, a), b), c), e)
BY SMTT(30)

(* The bytes of a code point are read as that code point.                  *)
LEMMA ReadEncoded ==
    ASSUME NEW s \in Seq(Bytes), Read(s).more = 0, NEW uc \in Points
    PROVE  Read(s \o Encoded(uc)) = [points |-> Append(Read(s).points, uc), more |-> 0]
<1> DEFINE d == Read(s)
           P == d.points
           t1 == uc % 64
           t2 == (uc \div 64) % 64
           t3 == (uc \div 4096) % 64
<1>1. d \in Reading /\ P \in Seq(Int)
  <2>1. 1 \in Bytes
    BY DEF Bytes
  <2>2. d \in Reading
    BY <2>1, ReadAppend
  <2> QED
    BY <2>2 DEF Reading
<1>2. uc \in Nat /\ uc > 0 /\ uc < 1114112
  BY DEF Points
<1>3. t1 \in 0..63 /\ t2 \in 0..63 /\ t3 \in 0..63
  BY <1>2
<1>4. /\ uc = (uc \div 64) * 64 + t1
      /\ uc \div 64 = (uc \div 4096) * 64 + t2
      /\ uc \div 4096 = (uc \div 262144) * 64 + t3
      /\ uc \div 64 \in Nat /\ uc \div 4096 \in Nat /\ uc \div 262144 \in Nat
  BY <1>2
<1> HIDE DEF t1, t2, t3
<1>5. 128 + t1 \in Bytes /\ 128 + t2 \in Bytes /\ 128 + t3 \in Bytes
  BY <1>3 DEF Bytes
<1> HIDE DEF d
<1>6. CASE uc < 128
  <2>1. Encoded(uc) = <<uc>> /\ uc \in Bytes
    BY <1>2, <1>6 DEF Encoded, Bytes
  <2>2. s \o Encoded(uc) = Append(s, uc)
    BY <2>1, TupleAppended
  <2>3. Read(Append(s, uc)) = ReadByte(d, uc)
    BY <2>1, ReadAppend DEF d
  <2> QED
    BY ZenonT(60), <1>1, <1>6, <2>1, <2>2, <2>3, ReadFirst DEF d
<1>7. CASE uc >= 128 /\ uc < 2048
  <2> DEFINE x == uc \div 64
             b == 192 + x
  <2>1. Encoded(uc) = <<b, 128 + t1>> /\ b \in Bytes /\ b \in 194..223 /\ x \in Nat /\ x # 0 /\ b - 192 = x
    BY <1>2, <1>7 DEF Encoded, Bytes, t1
  <2>2. x * 64 + t1 = uc
    BY <1>2, <1>4
  <2> HIDE DEF x, b
  <2>3. s \o Encoded(uc) = Append(Append(s, b), 128 + t1)
    BY <1>5, <2>1, TupleAppended
  <2>4. Read(Append(s, b)) = Partly(P, x, 1)
    <3>1. Read(Append(s, b)) = ReadByte(d, b)
      BY <2>1, ReadAppend DEF d
    <3>2. d.more = 0
      BY DEF d
    <3> QED
      BY SMTT(30), <1>1, <2>1, <3>1, <3>2, ReadFirst DEF Partly
  <2>5. Read(Append(Append(s, b), 128 + t1)) = ReadByte(Read(Append(s, b)), 128 + t1)
    BY ZenonT(60), <1>5, <2>1, ReadAppend
  <2>6. ReadByte(Partly(P, x, 1), 128 + t1) = Partly(P, uc, 0)
    <3>1. Continues(x, 1, t1, uc, 0)
      BY <1>1, <1>3, <2>1, <2>2 DEF Continues
    <3> HIDE DEF P
    <3> QED
      BY <1>1, <3>1, ReadNext
  <2> QED
    BY <2>2, <2>3, <2>4, <2>5, <2>6 DEF d, Partly
<1>8. CASE uc >= 2048 /\ uc < 65536
  <2> DEFINE x == uc \div 4096
             y == uc \div 64
             b == 224 + x
  <2>1. Encoded(uc) = <<b, 128 + t2, 128 + t1>>
    BY <1>2, <1>8 DEF Encoded, t1, t2
  <2>2. b \in Bytes /\ b \in 224..239 /\ x \in Nat /\ b - 224 = x
    BY <1>2, <1>8 DEF Bytes
  <2>3. x * 64 + t2 = y /\ y * 64 + t1 = uc /\ y \in Nat /\ y # 0 /\ (x # 0 \/ t2 >= 32)
    BY <1>2, <1>3, <1>4, <1>8
  <2> HIDE DEF x, y, b
  <2> DEFINE s1 == Append(s, b)
             s2 == Append(s1, 128 + t2)
  <2>4. s \o Encoded(uc) = Append(s2, 128 + t1)
    BY <1>5, <2>1, <2>2, TupleAppended
  <2>5. s1 \in Seq(Bytes) /\ Read(s1) = Partly(P, x, 2)
    <3>1. s1 \in Seq(Bytes) /\ Read(s1) = ReadByte(d, b)
      BY <2>2, ReadAppend DEF d
    <3>2. d.more = 0
      BY DEF d
    <3> QED
      BY ZenonT(60), <1>1, <2>2, <3>1, <3>2, ReadFirst DEF Partly
  <2>6. s2 \in Seq(Bytes) /\ Read(s2) = ReadByte(Read(s1), 128 + t2)
    BY ZenonT(60), <1>5, <2>5, ReadAppend
  <2>7. Read(Append(s2, 128 + t1)) = ReadByte(Read(s2), 128 + t1)
    BY ZenonT(60), <1>5, <2>6, ReadAppend
  <2>8. ReadByte(Partly(P, x, 2), 128 + t2) = Partly(P, y, 1)
    <3>1. Continues(x, 2, t2, y, 1)
      BY <1>1, <1>3, <2>2, <2>3 DEF Continues
    <3> HIDE DEF P
    <3> QED
      BY <1>1, <3>1, ReadNext
  <2>9. ReadByte(Partly(P, y, 1), 128 + t1) = Partly(P, uc, 0)
    <3>1. Continues(y, 1, t1, uc, 0)
      BY <1>1, <1>3, <2>3 DEF Continues
    <3> HIDE DEF P
    <3> QED
      BY <1>1, <3>1, ReadNext
  <2> QED
    BY <2>4, <2>5, <2>6, <2>7, <2>8, <2>9 DEF d, Partly
<1>9. CASE uc >= 65536
  <2> DEFINE w == uc \div 262144
             x == uc \div 4096
             y == uc \div 64
             b == 240 + w
  <2>1. Encoded(uc) = <<b, 128 + t3, 128 + t2, 128 + t1>>
    BY <1>2, <1>9 DEF Encoded, t1, t2, t3
  <2>2. b \in Bytes /\ b \in 240..244 /\ w \in Nat /\ b - 240 = w
    BY <1>2, <1>9 DEF Bytes
  <2>3. /\ w * 64 + t3 = x /\ x \in Nat /\ x # 0 /\ (w # 0 \/ t3 >= 16)
        /\ x * 64 + t2 = y /\ y * 64 + t1 = uc /\ y \in Nat /\ y # 0
    BY <1>2, <1>3, <1>4, <1>9
  <2> HIDE DEF w, x, y, b
  <2> DEFINE s1 == Append(s, b)
             s2 == Append(s1, 128 + t3)
             s3 == Append(s2, 128 + t2)
  <2>4. s \o Encoded(uc) = Append(s3, 128 + t1)
    BY SMTT(30), <1>5, <2>1, <2>2, TupleAppended
  <2>5. s1 \in Seq(Bytes) /\ Read(s1) = Partly(P, w, 3)
    <3>1. s1 \in Seq(Bytes) /\ Read(s1) = ReadByte(d, b)
      BY <2>2, ReadAppend DEF d
    <3>2. d.more = 0
      BY DEF d
    <3> QED
      BY <1>1, <2>2, <3>1, <3>2, ReadFirst DEF Partly
  <2>6. s2 \in Seq(Bytes) /\ Read(s2) = ReadByte(Read(s1), 128 + t3)
    BY ZenonT(60), <1>5, <2>5, ReadAppend
  <2>7. s3 \in Seq(Bytes) /\ Read(s3) = ReadByte(Read(s2), 128 + t2)
    BY ZenonT(60), <1>5, <2>6, ReadAppend
  <2> HIDE DEF s3
  <2>8. Read(Append(s3, 128 + t1)) = ReadByte(Read(s3), 128 + t1)
    BY <1>5, <2>7, ReadAppend
  <2>9. ReadByte(Partly(P, w, 3), 128 + t3) = Partly(P, x, 2)
    <3>1. Continues(w, 3, t3, x, 2)
      BY <1>1, <1>3, <2>2, <2>3 DEF Continues
    <3> HIDE DEF P
    <3> QED
      BY <1>1, <3>1, ReadNext
  <2>10. ReadByte(Partly(P, x, 2), 128 + t2) = Partly(P, y, 1)
    <3>1. Continues(x, 2, t2, y, 1)
      BY <1>1, <1>3, <2>3 DEF Continues
    <3> HIDE DEF P
    <3> QED
      BY <1>1, <3>1, ReadNext
  <2>11. ReadByte(Partly(P, y, 1), 128 + t1) = Partly(P, uc, 0)
    <3>1. Continues(y, 1, t1, uc, 0)
      BY <1>1, <1>3, <2>3 DEF Continues
    <3> HIDE DEF P
    <3> QED
      BY <1>1, <3>1, ReadNext
  <2> QED
    BY <2>4, <2>5, <2>6, <2>7, <2>8, <2>9, <2>10, <2>11 DEF d, Partly
<1> QED
  BY <1>2, <1>6, <1>7, <1>8, <1>9

-----------------------------------------------------------------------------
(* The code points of a text.                                              *)

(* One unit more.                                                          *)
LEMMA CodePointTyped ==
    ASSUME NEW points \in Seq(Int), NEW u \in Codes
    PROVE  CodePoint(points, u) \in Seq(Int)
<1> DEFINE x == 65536 + (points[Len(points)] - 55296) * 1024 + (u - 56320)
<1>1. u \in Int
  BY DEF Codes
<1>2. points # <<>> => x \in Int
  BY <1>1
<1> HIDE DEF x
<1>3. ToLast(points, x) \in Seq(Int) /\ Append(points, u) \in Seq(Int)
  BY <1>1, <1>2, ToLastTyped, AppendProperties
<1> QED
  BY <1>3 DEF CodePoint, x

(* Units are read one by one.                                              *)
LEMMA CodePointsDefined ==
    ASSUME NEW t \in Seq(AnyPiece)
    PROVE  /\ CodePoints(t)[0] = <<>>
           /\ \A i \in 0..Len(t) : CodePoints(t)[i] \in Seq(Int)
           /\ \A i \in 1..Len(t) : CodePoints(t)[i] = CodePoint(CodePoints(t)[i - 1], t[i].code)
<1> DEFINE n == Len(t)
           V == Seq(Int)
           first == <<>>
           next == [i \in 1..n |-> [p \in V |-> CodePoint(p, t[i].code)]]
           R(f) == [i \in 0..n |-> IF i = 0 THEN first ELSE CodePoint(f[i - 1], t[i].code)]
           points == CodePoints(t)
<1>1. n \in Nat /\ \A i \in 1..n : t[i].code \in Codes
  <2>1. n \in Nat /\ \A i \in 1..n : t[i] \in AnyPiece
    BY LenProperties, ElementOfSeq
  <2> QED
    BY <2>1, CodeTyped
<1>2. first \in V
  OBVIOUS
<1>3. next \in [1..n -> [V -> V]]
  <2>1. \A i \in 1..n : \A p \in V : CodePoint(p, t[i].code) \in V
    BY <1>1, CodePointTyped
  <2> HIDE DEF n, V
  <2> QED
    BY <2>1
<1>4. PICK f : Follows(n, V, first, next, f)
  <2>1. Steps(n, V, first, next)
    BY <1>1, <1>2, <1>3 DEF Steps
  <2> HIDE DEF next, first, n, V
  <2> QED
    BY <2>1, Recursion
<1> HIDE DEF n, first, V
<1>5. f \in [0..n -> V] /\ f[0] = first /\ \A i \in 1..n : f[i] = CodePoint(f[i - 1], t[i].code)
  <2>1. f \in [0..n -> V] /\ f[0] = first /\ \A i \in 1..n : f[i] = next[i][f[i - 1]]
    BY <1>4 DEF Follows
  <2>2. ASSUME NEW i \in 1..n PROVE f[i] = CodePoint(f[i - 1], t[i].code)
    <3>1. i - 1 \in 0..n
      BY <1>1
    <3>2. f[i - 1] \in V /\ next[i] = [p \in V |-> CodePoint(p, t[i].code)]
      BY <2>1, <3>1
    <3>3. f[i] = next[i][f[i - 1]]
      BY <2>1
    <3> QED
      BY <3>2, <3>3
  <2> QED
    BY <2>1, <2>2
<1>6. f = R(f)
  BY <1>1, <1>5
<1>7. points = R(points)
  <2>1. points = CHOOSE g : g = R(g)
    BY DEF CodePoints, n, first
  <2> HIDE DEF R, points
  <2> QED
    BY <1>6, <2>1
<1> HIDE DEF points
<1>8. points[0] = first /\ \A i \in 1..n : points[i] = CodePoint(points[i - 1], t[i].code)
  BY <1>1, <1>7
<1> DEFINE I == {i \in 0..n : points[i] \in V}
<1>9. 0 \in I
  BY <1>1, <1>2, <1>8
<1>10. ASSUME NEW i \in 1..n, i - 1 \in I PROVE i \in I
  <2>1. points[i - 1] \in V /\ i \in 0..n /\ t[i].code \in Codes
    BY <1>1, <1>10
  <2>2. points[i] = CodePoint(points[i - 1], t[i].code)
    BY <1>8
  <2> QED
    BY <2>1, <2>2, CodePointTyped DEF V
<1> HIDE DEF I
<1>11. \A i \in 0..n : i \in I
  BY <1>1, <1>9, <1>10, UpTo
<1> QED
  BY <1>8, <1>11 DEF I, points, n, first, V

\* What has been written of the first i units is what their code points
\* read, but for a first half, which has not been written.
Meets(t, i) ==
    LET d == Decoded(t)[i]
        r == Read(d.out)
        p == CodePoints(t)[i]
    IN  /\ r.more = 0
        /\ IF i > 0 /\ High(t[i].code) THEN d.high = t[i].code /\ p = Append(r.points, d.high)
           ELSE d.high = 0 /\ p = r.points

(* One unit of a text of pairs.                                            *)
LEMMA UnitDecoded ==
    ASSUME NEW t \in Seq(AnyPiece), Paired(t), NEW i \in 1..Len(t), Meets(t, i - 1),
           t[i].kind = "unit", t[i].code # 0
    PROVE  Meets(t, i)
<1> DEFINE u == t[i].code
           d == Decoded(t)[i - 1]
           e == Decoded(t)[i]
           p == CodePoints(t)[i - 1]
           q == CodePoints(t)[i]
           h == t[i - 1].code
<1>1. Len(t) \in Nat /\ i - 1 \in 0..Len(t) /\ i \in 1..Len(t) /\ i - 1 > 0 <=> i > 1
  BY LenProperties
<1>2. t[i] \in AnyPiece /\ u \in Codes
  <2>1. t[i] \in AnyPiece
    BY ElementOfSeq
  <2> QED
    BY <2>1, CodeTyped
<1>3. d \in Done /\ e = Decode(d, t[i]) /\ p \in Seq(Int) /\ q = CodePoint(p, u)
  BY <1>1, DecodedDefined, CodePointsDefined
<1>4. d.out \in Seq(Bytes)
  BY <1>3 DEF Done
<1>5. Read(d.out) \in Reading
  <2>1. 1 \in Bytes
    BY DEF Bytes
  <2> QED
    BY <1>4, <2>1, ReadAppend
<1>6. Read(d.out).more = 0 /\ Read(d.out).points \in Seq(Int)
  BY <1>5 DEF Meets, Reading
<1>7. CASE i > 1 /\ High(h)
  <2>1. Low(u) /\ ~High(u)
    <3>1. i - 1 \in DOMAIN t
      BY <1>1, <1>7, LenProperties
    <3>2. (i - 1) + 1 = i
      BY <1>1
    <3>3. Low(u)
      BY <1>7, <3>1, <3>2 DEF Paired
    <3> QED
      BY <1>2, <3>3 DEF Low, High, Codes
  <2>2. d.high = h /\ p = Append(Read(d.out).points, h) /\ h \in Highs
    <3>1. d.high = h /\ p = Append(Read(d.out).points, h)
      BY <1>1, <1>7 DEF Meets
    <3>2. t[i - 1] \in AnyPiece
      BY <1>1, <1>7, ElementOfSeq
    <3>3. h \in Codes
      BY <3>2, CodeTyped
    <3> QED
      BY <1>7, <3>1, <3>3 DEF Highs
  <2> DEFINE c == Combined(h, u)
             P == Read(d.out).points
  <2>3. c = 65536 + (h - 55296) * 1024 + (u - 56320) /\ c \in Points
    BY <1>2, <2>1, <2>2, CombinedIs
  <2>4. h \in Int /\ c \in Int /\ h # 0
    BY <2>2, <2>3 DEF Highs, High, Codes, Points
  <2>5. e = [out |-> d.out \o Encoded(c), high |-> 0]
    BY <1>3, <2>1, <2>2, <2>4 DEF Decode
  <2>6. q = Append(P, c)
    <3>1. p[Len(p)] = h /\ ToLast(p, c) = Append(P, c)
      BY SMTT(30), <1>6, <2>2, <2>4, ToLastAppend
    <3>2. q = ToLast(p, 65536 + (h - 55296) * 1024 + (u - 56320))
      BY <1>3, <2>1, <3>1 DEF CodePoint
    <3> QED
      BY SMTT(30), <2>3, <3>1, <3>2
  <2>7. Read(e.out) = [points |-> Append(P, c), more |-> 0]
    <3> HIDE DEF c, d, e
    <3>1. e.out = d.out \o Encoded(c)
      BY <2>5
    <3>2. c \in Points
      BY <2>3
    <3>3. Read(d.out \o Encoded(c)) = [points |-> Append(P, c), more |-> 0]
      BY <1>4, <1>6, <3>2, ReadEncoded
    <3> QED
      BY <3>1, <3>3
  <2> HIDE DEF c, P
  <2> QED
    BY <2>1, <2>5, <2>6, <2>7 DEF Meets
<1>8. CASE ~(i > 1 /\ High(h))
  <2>1. ~Low(u)
    <3>1. i \in DOMAIN t
      BY LenProperties
    <3> QED
      BY <1>8, <3>1 DEF Paired
  <2>2. d.high = 0 /\ p = Read(d.out).points
    BY <1>1, <1>8 DEF Meets
  <2>3. q = Append(p, u)
    BY <1>3, <2>1 DEF CodePoint
  <2>4. CASE High(u)
    <3>1. e = [out |-> d.out, high |-> u]
      BY <1>3, <2>2, <2>4 DEF Decode
    <3> QED
      <4>1. e.out = d.out /\ e.high = u
        BY <3>1
      <4>2. i > 0 /\ High(t[i].code)
        BY <1>1, <2>4
      <4>3. Read(e.out).more = 0 /\ q = Append(Read(e.out).points, e.high)
        <5> HIDE DEF d, e, u, p, q
        <5> QED
          BY <1>6, <2>2, <2>3, <4>1
      <4> QED
        BY <4>1, <4>2, <4>3 DEF Meets
  <2>5. CASE ~High(u)
    <3>1. OfPiece(t[i]) = Encoded(u) /\ u \in Points
      BY <1>2, <2>1 DEF OfPiece, Codes, Points
    <3>2. e = [out |-> d.out \o Encoded(u), high |-> 0]
      BY <1>3, <2>2, <2>5, <3>1 DEF Decode
    <3>3. Read(e.out) = [points |-> Append(p, u), more |-> 0]
      <4> HIDE DEF d, e, u, p
      <4>1. e.out = d.out \o Encoded(u)
        BY <3>2
      <4> QED
        BY <1>4, <1>6, <2>2, <3>1, <4>1, ReadEncoded
    <3> QED
      <4>1. e.high = 0 /\ ~High(t[i].code)
        BY <2>5, <3>2
      <4>2. Read(e.out).more = 0 /\ q = Read(e.out).points
        <5> HIDE DEF d, e, u, p, q
        <5> QED
          BY <2>3, <3>3
      <4> QED
        BY <4>1, <4>2 DEF Meets
  <2> QED
    BY <2>4, <2>5
<1> QED
  BY <1>7, <1>8

(* A text of \u whose surrogates come in pairs is decoded to the UTF-8 of  *)
(* its code points, no byte more or less.                                  *)
THEOREM UnitsAreDecoded == SpecPieces => []UnitsDecoded
<1>1. pieces \in Seq(AnyPiece) => UnitsDecoded
  <2> SUFFICES ASSUME pieces \in Seq(AnyPiece), OnlyUnits, Paired(pieces)
               PROVE  ReadBack(String)[Len(String)]
                          = [points |-> CodePoints(pieces)[Len(pieces)], more |-> 0]
    BY DEF UnitsDecoded
  <2> DEFINE n == Len(pieces)
             I == {i \in 0..n : Meets(pieces, i)}
  <2>1. n \in Nat /\ DOMAIN pieces = 1..n
    BY LenProperties
  <2>2. 0 \in I
    <3>1. Decoded(pieces)[0] = [out |-> <<>>, high |-> 0] /\ CodePoints(pieces)[0] = <<>>
      BY DecodedDefined, CodePointsDefined
    <3>2. <<>> \in Seq(Bytes) /\ Len(<<>>) = 0
      OBVIOUS
    <3>3. Read(<<>>) = [points |-> <<>>, more |-> 0]
      BY <3>2, ReadDefined DEF Read
    <3>4. Meets(pieces, 0)
      BY <3>1, <3>3 DEF Meets
    <3> QED
      BY <2>1, <3>4
  <2>3. ASSUME NEW i \in 1..n, i - 1 \in I PROVE i \in I
    <3>1. pieces[i].kind = "unit" /\ pieces[i].code # 0 /\ i \in 0..n
      BY <2>1 DEF OnlyUnits
    <3>2. Meets(pieces, i)
      BY <2>3, <3>1, UnitDecoded
    <3> QED
      BY <3>1, <3>2
  <2> HIDE DEF I
  <2>4. \A i \in 0..n : i \in I
    BY <2>1, <2>2, <2>3, UpTo
  <2>5. n \in 0..n /\ Meets(pieces, n)
    BY <2>1, <2>4 DEF I
  <2>6. ~(n > 0 /\ High(pieces[n].code))
    BY <2>1 DEF Paired
  <2>7. Read(String).more = 0 /\ Read(String).points = CodePoints(pieces)[n]
    BY <2>5, <2>6 DEF Meets, String, valuestring
  <2>8. Read(String) \in Reading
    <3>1. String \in Seq(Bytes) /\ 1 \in Bytes
      BY StringTyped DEF String, Bytes
    <3> QED
      BY <3>1, ReadAppend
  <2> QED
    BY <2>7, <2>8 DEF Reading, Read
<1> QED
  BY <1>1, PiecesTyped, PTL

-----------------------------------------------------------------------------
(* Texts: where the parser looks.                                          *)

Texts == Seq(Tokens)
Lists == {"array", "object"}

(* A place of a text, and what is there.                                   *)
LEMMA AtType ==
    ASSUME NEW t \in Texts, NEW i \in Int
    PROVE  /\ At(t, i) \in Tokens \cup {"end"}
           /\ At(t, i) # "end" <=> i \in 1..Len(t)
           /\ Len(t) \in Nat
<1>1. Len(t) \in Nat /\ \A k \in 1..Len(t) : t[k] \in Tokens
  BY DEF Texts
<1>2. "end" \notin Tokens
  BY DEF Tokens
<1> QED
  BY <1>1, <1>2 DEF At

(* The places of a text are the numbers up to one behind its end.          *)
LEMMA PlaceType ==
    ASSUME NEW t \in Texts
    PROVE  /\ Len(t) \in Nat
           /\ \A i \in Places(t) : i \in Nat /\ 1 <= i /\ i <= Len(t) + 1
           /\ \A i \in Int : 1 <= i /\ i <= Len(t) + 1 => i \in Places(t)
<1>1. Len(t) \in Nat
  BY DEF Texts
<1> QED
  BY <1>1 DEF Places

(* A place has a token and a next place, or is the end.                    *)
LEMMA PlaceEnd ==
    ASSUME NEW t \in Texts, NEW i \in Places(t)
    PROVE  /\ At(t, i) # "end" => i \in 1..Len(t) /\ i + 1 \in Places(t)
           /\ At(t, i) = "end" => i = Len(t) + 1
<1>1. Len(t) \in Nat /\ i \in Int /\ 1 <= i /\ i <= Len(t) + 1
  BY PlaceType
<1>2. At(t, i) # "end" <=> i \in 1..Len(t)
  BY <1>1, AtType
<1>3. i \in 1..Len(t) => i + 1 \in Places(t)
  BY <1>1, PlaceType
<1> QED
  BY <1>1, <1>2, <1>3

(* skip stops at the first place that is not white space.                  *)
LEMMA SkipStops ==
    ASSUME NEW t \in Texts, NEW i \in Places(t)
    PROVE  /\ skip(t, i) \in i..(Len(t) + 1)
           /\ At(t, skip(t, i)) # "white"
           /\ \A k \in i..(skip(t, i) - 1) : At(t, k) = "white"
<1> DEFINE n == Len(t)
           I == {j \in i..(n + 1) : At(t, j) # "white"}
<1>1. n \in Nat /\ i \in Nat /\ 1 <= i /\ i <= n + 1
  BY PlaceType
<1>2. n + 1 \in I
  <2>1. At(t, n + 1) = "end"
    BY <1>1 DEF At
  <2> QED
    BY <1>1, <2>1
<1>3. I \in SUBSET Nat /\ I # {}
  BY <1>1, <1>2
<1>4. PICK j \in I : \A k \in I : j <= k
  <2> HIDE DEF I
  <2> QED
    BY <1>3, LeastNumber
<1>5. j \in i..(n + 1) /\ At(t, j) # "white"
  BY <1>4
<1>6. \A k \in i..(j - 1) : At(t, k) = "white"
  BY <1>1, <1>4, <1>5
<1> QED
  BY <1>5, <1>6 DEF skip

(* A place that is not white space, with only white space before it, is    *)
(* where skip stops.                                                       *)
LEMMA SkipIs ==
    ASSUME NEW t \in Texts, NEW i \in Places(t), NEW j \in i..(Len(t) + 1),
           At(t, j) # "white", \A k \in i..(j - 1) : At(t, k) = "white"
    PROVE  skip(t, i) = j
<1> DEFINE s == skip(t, i)
<1>1. s \in i..(Len(t) + 1) /\ At(t, s) # "white" /\ \A k \in i..(s - 1) : At(t, k) = "white"
  BY SkipStops
<1> HIDE DEF s
<1>2. Len(t) \in Nat /\ i \in Nat /\ j \in Nat /\ s \in Nat
  BY <1>1, PlaceType
<1>3. ~(s < j)
  <2>1. s < j => s \in i..(j - 1)
    BY <1>1, <1>2
  <2> QED
    BY <1>1, <2>1
<1>4. ~(j < s)
  <2>1. j < s => j \in i..(s - 1)
    BY <1>1, <1>2
  <2> QED
    BY <1>1, <2>1
<1>5. s = j
  BY <1>2, <1>3, <1>4
<1> QED
  BY <1>5 DEF s

(* Skipping again changes nothing.                                         *)
LEMMA SkipTwice ==
    ASSUME NEW t \in Texts, NEW i \in Places(t)
    PROVE  skip(t, i) \in Places(t) /\ skip(t, skip(t, i)) = skip(t, i)
<1> DEFINE s == skip(t, i)
<1>1. s \in i..(Len(t) + 1) /\ At(t, s) # "white"
  BY SkipStops
<1> HIDE DEF s
<1>2. s \in Places(t) /\ s \in s..(Len(t) + 1) /\ s \in Nat
  BY <1>1, PlaceType
<1>3. \A k \in s..(s - 1) : At(t, k) = "white"
  BY <1>2
<1>4. skip(t, s) = s
  BY <1>1, <1>2, <1>3, SkipIs
<1> QED
  BY <1>2, <1>4 DEF s

-----------------------------------------------------------------------------
(* Whether a member begins at i that has a value, and where.               *)
Key(t, i) == parse_string(t, skip(t, i))
Colon(t, i) == skip(t, Key(t, i))
Reaches(t, i, type) ==
    type = "array" \/ (Key(t, i) # 0 /\ At(t, Colon(t, i)) = "colon")
ValuePlace(t, i, type) ==
    IF type = "array" THEN skip(t, i) ELSE skip(t, Colon(t, i) + 1)

(* The key and the colon of a member are behind the place it starts at.    *)
LEMMA KeyPlace ==
    ASSUME NEW t \in Texts, NEW i \in Places(t), Key(t, i) # 0
    PROVE  /\ Key(t, i) \in (i + 1)..(Len(t) + 1)
           /\ Colon(t, i) \in Key(t, i)..(Len(t) + 1)
<1> DEFINE s == skip(t, i)
<1>1. s \in i..(Len(t) + 1) /\ i \in Nat /\ Len(t) \in Nat
  BY SkipStops, PlaceType
<1> DEFINE k == Key(t, i)
<1>2. k = parse_string(t, s)
  BY DEF Key
<1> HIDE DEF s
<1>3. k \in (i + 1)..(Len(t) + 1)
  BY <1>1, <1>2, AtType DEF parse_string
<1> HIDE DEF k
<1>4. k \in Places(t)
  BY <1>1, <1>3 DEF Places
<1>5. skip(t, k) \in k..(Len(t) + 1)
  BY <1>4, SkipStops
<1> QED
  BY <1>3, <1>5 DEF Colon, k

(* The value of a member is not before the place the member starts at.     *)
LEMMA ValuePlaceRange ==
    ASSUME NEW t \in Texts, NEW i \in Places(t), NEW type \in Lists, Reaches(t, i, type)
    PROVE  ValuePlace(t, i, type) \in i..(Len(t) + 1) /\ ValuePlace(t, i, type) \in Places(t)
<1>0. i \in Nat /\ i >= 1 /\ Len(t) \in Nat
  BY PlaceType
<1>1. CASE type = "array"
  <2> DEFINE s == skip(t, i)
  <2>1. s \in i..(Len(t) + 1)
    BY SkipStops
  <2>2. ValuePlace(t, i, type) = s
    BY <1>1 DEF ValuePlace
  <2> HIDE DEF s
  <2> QED
    BY <1>0, <2>1, <2>2, PlaceType
<1>2. CASE type = "object"
  <2> DEFINE c == Colon(t, i)
  <2>1. Key(t, i) # 0 /\ At(t, c) = "colon"
    BY <1>2 DEF Reaches
  <2>2. Key(t, i) \in (i + 1)..(Len(t) + 1) /\ c \in Key(t, i)..(Len(t) + 1)
    BY <2>1, KeyPlace
  <2> DEFINE d == c + 1
  <2>3. ValuePlace(t, i, type) = skip(t, d)
    BY <1>2 DEF ValuePlace
  <2> HIDE DEF c
  <2>4. c \in Int
    BY <2>2
  <2>5. c \in 1..Len(t)
    BY <2>1, <2>4, AtType
  <2>6. d \in Places(t) /\ d > i
    BY <1>0, <2>2, <2>5 DEF Places
  <2> HIDE DEF d
  <2>7. skip(t, d) \in d..(Len(t) + 1)
    BY <2>6, SkipStops
  <2> QED
    BY <1>0, <2>3, <2>6, <2>7 DEF Places
<1> QED
  BY <1>1, <1>2 DEF Lists

(* What Members makes of the place it starts at.                           *)
LEMMA MembersIs ==
    ASSUME NEW p, NEW t, NEW i, NEW type \in Lists
    PROVE  Members(p, t, i, type) =
               IF Reaches(t, i, type)
               THEN Behind(p, t, type, p[<<"value", ValuePlace(t, i, type)>>])
               ELSE IF Key(t, i) = 0 THEN NotAString(skip(t, i))
               ELSE Refused(Colon(t, i), <<Blank>>, 1)
<1>1. CASE type = "array"
  BY <1>1 DEF Members, Reaches, ValuePlace
<1>2. CASE type = "object"
  BY <1>2 DEF Members, Reaches, ValuePlace, Key, Colon
<1> QED
  BY <1>1, <1>2 DEF Lists

-----------------------------------------------------------------------------
(* A query is answered with queries that have less of the text left.       *)
Left(t, q) == 2 * (Len(t) + 1 - q[2]) + IF q[1] = "value" THEN 0 ELSE 1
Body(p, t, q) ==
    IF q[1] = "value" THEN Value(p, t, q[2]) ELSE Members(p, t, q[2], q[1])
EndOf(t, q) == {0} \cup (q[2] + 1)..(Len(t) + 1)
EndsBelow(p, t, q) ==
    \A u \in Queries(t) : Left(t, u) < Left(t, q) => p[u].end \in EndOf(t, u)

(* A query is a kind and a place, and less is left of the text for a       *)
(* value than for a list.                                                  *)
LEMMA QueryType ==
    ASSUME NEW t \in Texts
    PROVE  /\ \A q \in Queries(t) :
                 /\ q = <<q[1], q[2]>> /\ q[2] \in Places(t) /\ Left(t, q) \in Nat
                 /\ q[1] = "value" \/ q[1] \in Lists
           /\ \A i \in Places(t) : \A k \in {"value", "array", "object"} :
                 /\ <<k, i>> \in Queries(t)
                 /\ EndOf(t, <<k, i>>) = {0} \cup (i + 1)..(Len(t) + 1)
           /\ \A i \in Places(t) : Left(t, <<"value", i>>) = 2 * (Len(t) + 1 - i)
           /\ \A i \in Places(t) : \A k \in Lists : Left(t, <<k, i>>) = 2 * (Len(t) + 1 - i) + 1
<1>1. Len(t) \in Nat
  BY DEF Texts
<1> QED
  BY <1>1 DEF Queries, Left, Places, Lists, EndOf

(* A bracket leaves less text for the members behind it.                   *)
LEMMA ContainerUses ==
    ASSUME NEW t \in Texts, NEW i \in Places(t), At(t, i) \in {"lbrack", "lbrace"}, NEW type \in Lists
    PROVE  /\ skip(t, i + 1) \in (i + 1)..(Len(t) + 1)
           /\ <<type, skip(t, i + 1)>> \in Queries(t)
           /\ Left(t, <<type, skip(t, i + 1)>>) < Left(t, <<"value", i>>)
           /\ i + 1 \in Places(t)
<1>1. Len(t) \in Nat /\ i \in Nat /\ 1 <= i /\ i <= Len(t) + 1
  BY PlaceType
<1> DEFINE j == i + 1
           s == skip(t, j)
<1>3. j \in Places(t)
  BY PlaceEnd
<1> HIDE DEF j
<1>4. s \in j..(Len(t) + 1)
  BY <1>3, SkipStops
<1> HIDE DEF s
<1>5. s \in Nat /\ s > i /\ s \in Places(t)
  <2>1. j \in Int /\ j > i /\ j >= 1
    BY <1>1 DEF j
  <2>2. s \in Int /\ s >= j /\ s <= Len(t) + 1
    BY <1>1, <1>4, <2>1
  <2> QED
    BY <1>1, <2>1, <2>2, PlaceType
<1>6. Left(t, <<type, s>>) = 2 * (Len(t) + 1 - s) + 1 /\ Left(t, <<"value", i>>) = 2 * (Len(t) + 1 - i)
  BY <1>5, QueryType
<1>7. <<type, s>> \in Queries(t)
  BY <1>5, QueryType DEF Lists
<1>8. Left(t, <<type, s>>) < Left(t, <<"value", i>>)
  BY <1>1, <1>5, <1>6
<1> QED
  BY <1>3, <1>4, <1>7, <1>8 DEF s, j

(* So does the value of a member, and a comma behind it.                   *)
LEMMA MembersUses ==
    ASSUME NEW t \in Texts, NEW i \in Places(t), NEW type \in Lists, Reaches(t, i, type),
           NEW j, j = ValuePlace(t, i, type)
    PROVE  /\ j \in i..(Len(t) + 1)
           /\ <<"value", j>> \in Queries(t)
           /\ Left(t, <<"value", j>>) < Left(t, <<type, i>>)
<1>1. Len(t) \in Nat /\ i \in Nat /\ 1 <= i /\ i <= Len(t) + 1
  BY PlaceType
<1>2. j \in i..(Len(t) + 1) /\ j \in Places(t)
  BY ValuePlaceRange
<1>3. Left(t, <<"value", j>>) = 2 * (Len(t) + 1 - j) /\ Left(t, <<type, i>>) = 2 * (Len(t) + 1 - i) + 1
  BY <1>2, QueryType
<1>4. <<"value", j>> \in Queries(t)
  BY <1>2, QueryType
<1> QED
  BY <1>1, <1>2, <1>3, <1>4

(* Behind asks for a list that has less of the text left.                  *)
LEMMA BehindUses ==
    ASSUME NEW t \in Texts, NEW i \in Places(t), NEW type \in Lists,
           NEW e \in (i + 1)..(Len(t) + 1)
    PROVE  /\ e \in Places(t)
           /\ skip(t, e) \in e..(Len(t) + 1)
           /\ skip(t, e) \in (i + 1)..(Len(t) + 1)
           /\ At(t, skip(t, e)) # "end" =>
                 /\ skip(t, e) + 1 \in (i + 2)..(Len(t) + 1)
                 /\ <<type, skip(t, e) + 1>> \in Queries(t)
                 /\ Left(t, <<type, skip(t, e) + 1>>) < Left(t, <<type, i>>)
<1>1. Len(t) \in Nat /\ i \in Nat /\ 1 <= i /\ i <= Len(t) + 1
  BY PlaceType
<1>2. e \in Places(t) /\ e \in Nat
  BY <1>1, PlaceType
<1> DEFINE a == skip(t, e)
<1>3. a \in e..(Len(t) + 1)
  BY <1>2, SkipStops
<1> HIDE DEF a
<1>4. a \in (i + 1)..(Len(t) + 1)
  BY <1>1, <1>2, <1>3
<1>5. ASSUME At(t, a) # "end"
      PROVE  /\ a + 1 \in (i + 2)..(Len(t) + 1)
             /\ <<type, a + 1>> \in Queries(t)
             /\ Left(t, <<type, a + 1>>) < Left(t, <<type, i>>)
  <2>1. a \in 1..Len(t)
    BY <1>4, <1>5, AtType
  <2> DEFINE b == a + 1
  <2>2. b \in (i + 2)..(Len(t) + 1) /\ b \in Places(t)
    BY <1>1, <1>4, <2>1, PlaceType
  <2> HIDE DEF b
  <2>3. Left(t, <<type, b>>) = 2 * (Len(t) + 1 - b) + 1 /\ Left(t, <<type, i>>) = 2 * (Len(t) + 1 - i) + 1
    BY <2>2, QueryType
  <2>4. <<type, b>> \in Queries(t)
    BY <2>2, QueryType DEF Lists
  <2>5. Left(t, <<type, b>>) < Left(t, <<type, i>>)
    BY <1>1, <2>2, <2>3
  <2> QED
    BY <2>2, <2>4, <2>5 DEF b
<1> QED
  BY <1>2, <1>3, <1>4, <1>5 DEF a

-----------------------------------------------------------------------------
(* Parsing goes on from behind what was parsed.                            *)
LEMMA BodyRange ==
    ASSUME NEW t \in Texts, NEW f, NEW q \in Queries(t), EndsBelow(f, t, q)
    PROVE  Body(f, t, q).end \in EndOf(t, q)
<1> DEFINE i == q[2]
           n == Len(t)
<1>1. i \in Places(t) /\ q = <<q[1], i>> /\ EndOf(t, q) = {0} \cup (i + 1)..(n + 1)
  BY QueryType DEF EndOf
<1>2. n \in Nat /\ i \in Nat /\ 1 <= i /\ i <= n + 1
  BY <1>1, PlaceType
<1>3. CASE q[1] = "value"
  <2>1. q = <<"value", i>> /\ Body(f, t, q) = Value(f, t, i)
    BY <1>1, <1>3 DEF Body
  <2> HIDE DEF i
  <2>2. CASE At(t, i) \in Values \cup {"s", "u"}
    <3>1. i \in 1..n
      BY <1>2, <2>2, AtType DEF Values
    <3>2. Value(f, t, i).end \in {i + 1, n + 1}
      BY <2>2 DEF Value, Values, Result, parse_string
    <3> QED
      BY <1>1, <1>2, <2>1, <3>1, <3>2
  <2>3. ASSUME NEW type \in Lists, NEW close \in {"rbrack", "rbrace"}, At(t, i) \in {"lbrack", "lbrace"},
               Value(f, t, i) = Container(f, t, i, type, close)
        PROVE  Value(f, t, i).end \in {0} \cup (i + 1)..(n + 1)
    <3> DEFINE first == skip(t, i + 1)
    <3>1. first \in (i + 1)..(n + 1) /\ <<type, first>> \in Queries(t)
          /\ Left(t, <<type, first>>) < Left(t, <<"value", i>>)
      BY <1>1, <2>3, ContainerUses
    <3>2. Value(f, t, i).end = IF At(t, first) = close THEN first + 1 ELSE f[<<type, first>>].end
      BY <2>3 DEF Container, Result
    <3> HIDE DEF first
    <3>3. f[<<type, first>>].end \in EndOf(t, <<type, first>>)
      BY <2>1, <3>1 DEF EndsBelow
    <3>4. EndOf(t, <<type, first>>) = {0} \cup (first + 1)..(n + 1)
      BY DEF EndOf
    <3>5. At(t, first) = close => first \in 1..n
      <4>1. first \in Int
        BY <1>2, <3>1
      <4> QED
        BY <2>3, <4>1, AtType
    <3> QED
      BY <1>2, <3>1, <3>2, <3>3, <3>4, <3>5
  <2>4. CASE At(t, i) = "lbrack"
    <3>1. Value(f, t, i) = Container(f, t, i, "array", "rbrack")
      BY <2>4 DEF Value, Values
    <3> QED
      BY <1>1, <2>1, <2>3, <2>4, <3>1 DEF Lists
  <2>5. CASE At(t, i) = "lbrace"
    <3>1. Value(f, t, i) = Container(f, t, i, "object", "rbrace")
      BY <2>5 DEF Value, Values
    <3> QED
      BY <1>1, <2>1, <2>3, <2>5, <3>1 DEF Lists
  <2>6. CASE At(t, i) \notin Values \cup {"s", "u", "lbrack", "lbrace"}
    BY <1>1, <2>1, <2>6 DEF Value, Refused, Result
  <2> QED
    BY <2>2, <2>4, <2>5, <2>6
<1>4. CASE q[1] # "value"
  <2> DEFINE type == q[1]
  <2>1. type \in Lists /\ Body(f, t, q) = Members(f, t, i, type)
    BY <1>4, QueryType DEF Body
  <2>2. q = <<type, i>>
    BY <1>1
  <2> HIDE DEF i, type
  <2>3. CASE ~Reaches(t, i, type)
    <3>1. Members(f, t, i, type).end = 0
      <4>1. \/ Members(f, t, i, type) = NotAString(skip(t, i))
            \/ Members(f, t, i, type) = Refused(Colon(t, i), <<Blank>>, 1)
        BY <2>1, <2>3, MembersIs
      <4> QED
        BY <4>1 DEF NotAString, Refused, Result
    <3> QED
      BY <1>1, <2>1, <3>1
  <2>4. CASE Reaches(t, i, type)
    <3> DEFINE j == ValuePlace(t, i, type)
               v == f[<<"value", j>>]
               a == skip(t, v.end)
    <3>1. Members(f, t, i, type) = Behind(f, t, type, v)
      BY <2>1, <2>4, MembersIs
    <3>2. j \in i..(n + 1) /\ <<"value", j>> \in Queries(t) /\ Left(t, <<"value", j>>) < Left(t, <<type, i>>)
      BY <1>1, <2>1, <2>4, MembersUses
    <3> HIDE DEF j
    <3>3. v.end \in {0} \cup (j + 1)..(n + 1)
      BY <2>2, <3>2 DEF EndsBelow, EndOf
    <3>4. Behind(f, t, type, v).end \in
              {0} \cup (IF v.end # 0 /\ At(t, a) # "end" THEN {a + 1} ELSE {})
                  \cup (IF v.end # 0 /\ At(t, a) = "comma" THEN {f[<<type, a + 1>>].end} ELSE {})
      BY DEF Behind, Result, Refused, Closed
    <3>5. CASE v.end = 0
      BY <1>1, <2>1, <3>1, <3>4, <3>5
    <3>6. CASE v.end # 0
      <4>1. v.end \in (i + 1)..(n + 1)
        BY <1>2, <3>2, <3>3, <3>6
      <4> HIDE DEF v
      <4>2. At(t, a) # "end" =>
               /\ a + 1 \in (i + 2)..(n + 1)
               /\ <<type, a + 1>> \in Queries(t)
               /\ Left(t, <<type, a + 1>>) < Left(t, <<type, i>>)
        BY <1>1, <2>1, <4>1, BehindUses
      <4>4. a \in (i + 1)..(n + 1)
        BY <1>1, <2>1, <4>1, BehindUses
      <4> HIDE DEF a
      <4>3. At(t, a) = "comma" => f[<<type, a + 1>>].end \in {0} \cup (a + 2)..(n + 1)
        <5> SUFFICES ASSUME At(t, a) = "comma" PROVE f[<<type, a + 1>>].end \in {0} \cup (a + 2)..(n + 1)
          OBVIOUS
        <5>1. f[<<type, a + 1>>].end \in EndOf(t, <<type, a + 1>>)
          BY <2>2, <4>2 DEF EndsBelow
        <5>2. EndOf(t, <<type, a + 1>>) = {0} \cup ((a + 1) + 1)..(n + 1)
          BY DEF EndOf
        <5> QED
          BY <1>2, <4>4, <5>1, <5>2
      <4>5. At(t, a) = "comma" => f[<<type, a + 1>>].end \in {0} \cup (i + 1)..(n + 1)
        BY <1>2, <4>3, <4>4
      <4>6. v.end # 0 /\ At(t, a) # "end" => a + 1 \in (i + 1)..(n + 1)
        BY <1>2, <4>2
      <4>7. Behind(f, t, type, v).end \in {0} \cup (i + 1)..(n + 1)
        BY <3>4, <4>5, <4>6
      <4> QED
        BY <1>1, <2>1, <3>1, <4>7
    <3> QED
      BY <3>5, <3>6
  <2> QED
    BY <2>3, <2>4
<1> QED
  BY <1>3, <1>4

(* What is parsed depends only on what is parsed behind it.                *)
AgreesBelow(f, g, t, q) == \A u \in Queries(t) : Left(t, u) < Left(t, q) => g[u] = f[u]

(* Functions that agree where less is left give the same answer.           *)
LEMMA BodyAgrees ==
    ASSUME NEW t \in Texts, NEW f, NEW g, NEW q \in Queries(t),
           EndsBelow(f, t, q), AgreesBelow(f, g, t, q)
    PROVE  Body(g, t, q) = Body(f, t, q)
<1> DEFINE i == q[2]
           n == Len(t)
<1>1. i \in Places(t) /\ q = <<q[1], i>>
  BY QueryType
<1>2. n \in Nat /\ i \in Nat /\ 1 <= i /\ i <= n + 1
  BY <1>1, PlaceType
<1>3. CASE q[1] = "value"
  <2>1. q = <<"value", i>> /\ Body(f, t, q) = Value(f, t, i) /\ Body(g, t, q) = Value(g, t, i)
    BY <1>1, <1>3 DEF Body
  <2> HIDE DEF i
  <2>2. ASSUME NEW type \in Lists, NEW close, At(t, i) \in {"lbrack", "lbrace"}
        PROVE  Container(g, t, i, type, close) = Container(f, t, i, type, close)
    <3> DEFINE first == skip(t, i + 1)
    <3>1. <<type, first>> \in Queries(t) /\ Left(t, <<type, first>>) < Left(t, <<"value", i>>)
      BY <1>1, <2>2, ContainerUses
    <3>2. g[<<type, first>>] = f[<<type, first>>]
      BY <2>1, <3>1 DEF AgreesBelow
    <3> QED
      BY <3>2 DEF Container
  <2>3. CASE At(t, i) = "lbrack"
    BY <2>1, <2>2, <2>3 DEF Value, Lists
  <2>4. CASE At(t, i) = "lbrace"
    BY <2>1, <2>2, <2>4 DEF Value, Lists
  <2>5. CASE At(t, i) \notin {"lbrack", "lbrace"}
    BY <2>1, <2>5 DEF Value
  <2> QED
    BY <2>3, <2>4, <2>5
<1>4. CASE q[1] # "value"
  <2> DEFINE type == q[1]
  <2>1. type \in Lists /\ Body(f, t, q) = Members(f, t, i, type) /\ Body(g, t, q) = Members(g, t, i, type)
    BY <1>4, QueryType DEF Body
  <2>2. q = <<type, i>>
    BY <1>1
  <2> HIDE DEF i, type
  <2>3. CASE ~Reaches(t, i, type)
    <3> DEFINE r == IF Key(t, i) = 0 THEN NotAString(skip(t, i)) ELSE Refused(Colon(t, i), <<Blank>>, 1)
    <3>1. Members(f, t, i, type) = r
      BY <2>1, <2>3, MembersIs
    <3>2. Members(g, t, i, type) = r
      BY <2>1, <2>3, MembersIs
    <3> QED
      BY <2>1, <3>1, <3>2
  <2>4. CASE Reaches(t, i, type)
    <3> DEFINE j == ValuePlace(t, i, type)
               v == f[<<"value", j>>]
               a == skip(t, v.end)
    <3>1. /\ Members(f, t, i, type) = Behind(f, t, type, v)
          /\ Members(g, t, i, type) = Behind(g, t, type, g[<<"value", j>>])
      BY <2>1, <2>4, MembersIs
    <3>2. j \in i..(n + 1) /\ <<"value", j>> \in Queries(t) /\ Left(t, <<"value", j>>) < Left(t, <<type, i>>)
      BY <1>1, <2>1, <2>4, MembersUses
    <3> HIDE DEF j
    <3>3. v.end \in {0} \cup (j + 1)..(n + 1)
      BY <2>2, <3>2 DEF EndsBelow, EndOf
    <3>4. g[<<"value", j>>] = v
      BY <2>2, <3>2 DEF AgreesBelow
    <3> HIDE DEF v
    <3>5. v.end # 0 /\ At(t, a) = "comma" => g[<<type, a + 1>>] = f[<<type, a + 1>>]
      <4> SUFFICES ASSUME v.end # 0, At(t, a) = "comma" PROVE g[<<type, a + 1>>] = f[<<type, a + 1>>]
        OBVIOUS
      <4>1. v.end \in (i + 1)..(n + 1)
        BY <1>2, <3>2, <3>3
      <4>2. <<type, a + 1>> \in Queries(t) /\ Left(t, <<type, a + 1>>) < Left(t, <<type, i>>)
        BY <1>1, <2>1, <4>1, BehindUses
      <4> QED
        BY <2>2, <4>2 DEF AgreesBelow
    <3>6. Behind(g, t, type, v) = Behind(f, t, type, v)
      <4>1. CASE v.end = 0
        BY <4>1 DEF Behind
      <4>2. CASE v.end # 0 /\ At(t, a) = "comma"
        BY <3>5, <4>2 DEF Behind
      <4>3. CASE At(t, a) # "comma"
        BY <4>3 DEF Behind
      <4> QED
        BY <4>1, <4>2, <4>3
    <3> QED
      BY <2>1, <3>1, <3>4, <3>6
  <2> QED
    BY <2>3, <2>4
<1> QED
  BY <1>3, <1>4

(* What holds of a query when it holds of those with less text left holds  *)
(* of all.                                                                 *)
Inherits(t, G) ==
    \A q \in Queries(t) : (\A u \in Queries(t) : Left(t, u) < Left(t, q) => u \in G) => q \in G

(* What is inherited from the queries with less left holds for all         *)
(* queries.                                                                *)
LEMMA QueryInduction ==
    ASSUME NEW t \in Texts, NEW G, Inherits(t, G)
    PROVE  \A q \in Queries(t) : q \in G
<1> SUFFICES ASSUME NEW q \in Queries(t), q \notin G PROVE FALSE
  OBVIOUS
<1> DEFINE I == {Left(t, u) : u \in {u \in Queries(t) : u \notin G}}
<1>1. I \in SUBSET Nat /\ I # {}
  BY QueryType
<1>2. PICK m \in I : \A k \in I : m <= k
  <2> HIDE DEF I
  <2> QED
    BY <1>1, LeastNumber
<1>3. PICK u \in Queries(t) : u \notin G /\ Left(t, u) = m
  BY <1>2
<1>4. \A w \in Queries(t) : Left(t, w) < Left(t, u) => w \in G
  <2> SUFFICES ASSUME NEW w \in Queries(t), Left(t, w) < Left(t, u), w \notin G PROVE FALSE
    OBVIOUS
  <2>1. Left(t, w) \in I
    OBVIOUS
  <2>2. m <= Left(t, w)
    BY <1>2, <2>1
  <2>3. m \in Nat /\ Left(t, w) \in Nat
    BY <1>3, QueryType
  <2> QED
    BY <1>3, <2>2, <2>3
<1> QED
  BY <1>3, <1>4 DEF Inherits

(* The recursive function of parse exists: each query asks only those      *)
(* with less left.                                                         *)
LEMMA ParserExists ==
    ASSUME NEW t \in Texts
    PROVE  \E p : p = [q \in Queries(t) |-> Body(p, t, q)]
<1> DEFINE Okay(f, m) ==
               \A q \in Queries(t) :
                   Left(t, q) < m => f[q] = Body(f, t, q) /\ f[q].end \in EndOf(t, q)
           N == 2 * (Len(t) + 1) + 2
           I == {m \in 0..N : \E f : f = [q \in Queries(t) |-> f[q]] /\ Okay(f, m)}
<1>1. Len(t) \in Nat /\ N \in Nat
  BY PlaceType
<1>2. 0 \in I
  <2>1. \A q \in Queries(t) : ~(Left(t, q) < 0)
    <3>1. \A q \in Queries(t) : Left(t, q) \in Nat
      BY QueryType
    <3> QED
      BY <3>1
  <2> DEFINE f == [q \in Queries(t) |-> 0]
  <2>2. f = [q \in Queries(t) |-> f[q]]
    OBVIOUS
  <2>3. Okay(f, 0)
    BY <2>1
  <2> HIDE DEF f, Okay
  <2> QED
    BY <1>1, <2>2, <2>3
<1>3. ASSUME NEW m \in 1..N, m - 1 \in I PROVE m \in I
  <2>1. PICK f : Okay(f, m - 1)
    BY <1>3
  <2> DEFINE g == [q \in Queries(t) |-> Body(f, t, q)]
  <2>2. ASSUME NEW q \in Queries(t), Left(t, q) < m
        PROVE  g[q] = Body(g, t, q) /\ g[q].end \in EndOf(t, q)
    <3>1. ASSUME NEW u \in Queries(t), Left(t, u) < Left(t, q)
          PROVE  g[u] = f[u] /\ f[u].end \in EndOf(t, u)
      <4>1. Left(t, u) \in Nat /\ Left(t, q) \in Nat /\ m \in Nat
        BY QueryType
      <4>2. Left(t, u) < m - 1
        BY <2>2, <3>1, <4>1
      <4> QED
        BY <2>1, <4>2
    <3>2. g[q] = Body(f, t, q)
      OBVIOUS
    <3> HIDE DEF g, Okay
    <3>3. EndsBelow(f, t, q) /\ AgreesBelow(f, g, t, q)
      BY <3>1 DEF EndsBelow, AgreesBelow
    <3>4. Body(g, t, q) = Body(f, t, q) /\ Body(f, t, q).end \in EndOf(t, q)
      BY <3>3, BodyAgrees, BodyRange
    <3> QED
      BY <3>2, <3>4
  <2>3. g = [q \in Queries(t) |-> g[q]]
    OBVIOUS
  <2> HIDE DEF g
  <2>4. Okay(g, m)
    BY <2>2
  <2> HIDE DEF Okay
  <2> QED
    BY <1>1, <2>3, <2>4
<1> HIDE DEF I
<1>4. N \in I
  <2>1. \A m \in 0..N : m \in I
    BY <1>1, <1>2, <1>3, UpTo
  <2> QED
    BY <1>1, <2>1
<1>5. PICK f : f = [q \in Queries(t) |-> f[q]] /\ Okay(f, N)
  BY <1>4 DEF I
<1>6. \A q \in Queries(t) : Left(t, q) < N
  <2> SUFFICES ASSUME NEW q \in Queries(t) PROVE Left(t, q) < N
    OBVIOUS
  <2>1. q[2] \in Places(t)
    BY QueryType
  <2>2. q[2] \in Nat /\ 1 <= q[2]
    BY <2>1, PlaceType
  <2>3. Left(t, q) <= 2 * (Len(t) + 1 - q[2]) + 1
    BY <1>1, <2>2 DEF Left
  <2>4. Left(t, q) \in Nat
    BY QueryType
  <2> QED
    BY <1>1, <2>2, <2>3, <2>4
<1>7. \A q \in Queries(t) : f[q] = Body(f, t, q)
  BY <1>5, <1>6
<1>8. f = [q \in Queries(t) |-> Body(f, t, q)]
  BY <1>5, <1>7
<1> QED
  BY <1>8

(* The parse of a text.                                                    *)
LEMMA ParseIs ==
    ASSUME NEW t \in Texts, NEW q \in Queries(t)
    PROVE  parse(t)[q] = Body(parse(t), t, q) /\ parse(t)[q].end \in EndOf(t, q)
<1> DEFINE p == parse(t)
           R(f) == [u \in Queries(t) |-> Body(f, t, u)]
<1>1. p = R(p)
  <2>1. p = CHOOSE f : f = R(f)
    BY DEF parse, Body
  <2>2. \E f : f = R(f)
    BY ParserExists
  <2> HIDE DEF p, R
  <2> QED
    BY <2>1, <2>2
<1> HIDE DEF p
<1>2. \A u \in Queries(t) : p[u] = Body(p, t, u)
  BY <1>1
<1> DEFINE G == {u \in Queries(t) : p[u].end \in EndOf(t, u)}
<1>3. Inherits(t, G)
  <2> SUFFICES ASSUME NEW u \in Queries(t), \A w \in Queries(t) : Left(t, w) < Left(t, u) => w \in G
               PROVE  u \in G
    BY DEF Inherits
  <2>1. EndsBelow(p, t, u)
    BY DEF EndsBelow
  <2>2. Body(p, t, u).end \in EndOf(t, u)
    BY <2>1, BodyRange
  <2> QED
    BY <1>2, <2>2
<1> HIDE DEF G
<1>4. \A u \in Queries(t) : u \in G
  BY <1>3, QueryInduction
<1> QED
  BY <1>2, <1>4 DEF G, p

Open(type) == IF type = "array" THEN "lbrack" ELSE "lbrace"
Close(type) == IF type = "array" THEN "rbrack" ELSE "rbrace"

(* What a value is parsed to, by the token it begins with.                 *)
LEMMA ValueCases ==
    ASSUME NEW t \in Texts, NEW i \in Places(t)
    PROVE  LET r == parse(t)[<<"value", i>>]
               first == skip(t, i + 1)
           IN  /\ At(t, i) \in Values => r = Result(i + 1, 0, Item(At(t, i), <<>>), 1)
               /\ At(t, i) = "s" => r = Result(i + 1, 0, Item("string", <<>>), 1)
               /\ At(t, i) = "u" => r = Result(Len(t) + 1, 0, Item("string", <<>>), 1)
               /\ \A type \in Lists : At(t, i) = Open(type) =>
                     LET m == parse(t)[<<type, first>>]
                     IN  /\ first \in (i + 1)..(Len(t) + 1)
                         /\ first \in Places(t) /\ i + 1 \in Places(t)
                         /\ At(t, first) = Close(type) =>
                                r = Result(first + 1, 0, Item(type, <<>>), 1)
                         /\ At(t, first) # Close(type) =>
                                r = Result(m.end, m.ep, Item(type, m.item), m.made + 1)
               /\ At(t, i) \notin Values \cup {"s", "u", "lbrack", "lbrace"} => r = Refused(i, Blank, 1)
<1> DEFINE p == parse(t)
           r == p[<<"value", i>>]
           first == skip(t, i + 1)
<1>1. <<"value", i>> \in Queries(t)
  BY QueryType
<1>2. r = Value(p, t, i)
  BY <1>1, ParseIs DEF Body
<1> HIDE DEF p
<1>3. At(t, i) \in Values => r = Result(i + 1, 0, Item(At(t, i), <<>>), 1)
  BY <1>2 DEF Value, Values
<1>4. At(t, i) = "s" => r = Result(i + 1, 0, Item("string", <<>>), 1)
  BY <1>2 DEF Value, Values, parse_string
<1>5. At(t, i) = "u" => r = Result(Len(t) + 1, 0, Item("string", <<>>), 1)
  BY <1>2 DEF Value, Values, parse_string
<1>6. At(t, i) \notin Values \cup {"s", "u", "lbrack", "lbrace"} => r = Refused(i, Blank, 1)
  BY <1>2 DEF Value
<1>7. ASSUME NEW type \in Lists, At(t, i) = Open(type)
      PROVE  /\ first \in (i + 1)..(Len(t) + 1)
             /\ first \in Places(t) /\ i + 1 \in Places(t)
             /\ At(t, first) = Close(type) => r = Result(first + 1, 0, Item(type, <<>>), 1)
             /\ At(t, first) # Close(type) =>
                   r = Result(p[<<type, first>>].end, p[<<type, first>>].ep,
                              Item(type, p[<<type, first>>].item), p[<<type, first>>].made + 1)
  <2>1. At(t, i) \in {"lbrack", "lbrace"}
    BY <1>7 DEF Open
  <2>2. first \in (i + 1)..(Len(t) + 1) /\ <<type, first>> \in Queries(t) /\ i + 1 \in Places(t)
    BY <2>1, ContainerUses
  <2>3. first \in Places(t)
    BY <2>2 DEF Queries
  <2>4. r = Container(p, t, i, type, Close(type))
    BY <1>2, <1>7 DEF Value, Open, Close, Lists
  <2>5. /\ At(t, first) = Close(type) => r = Result(first + 1, 0, Item(type, <<>>), 1)
        /\ At(t, first) # Close(type) =>
              r = Result(p[<<type, first>>].end, p[<<type, first>>].ep,
                         Item(type, p[<<type, first>>].item), p[<<type, first>>].made + 1)
    BY <2>4 DEF Container
  <2> QED
    BY <2>2, <2>3, <2>5
<1> QED
  BY <1>3, <1>4, <1>5, <1>6, <1>7 DEF p

(* What the members from a place on are parsed to.                         *)
LEMMA MembersCases ==
    ASSUME NEW t \in Texts, NEW i \in Places(t), NEW type \in Lists
    PROVE  LET r == parse(t)[<<type, i>>]
               j == ValuePlace(t, i, type)
               v == parse(t)[<<"value", j>>]
               a == skip(t, v.end)
               rest == parse(t)[<<type, a + 1>>]
           IN  /\ ~Reaches(t, i, type) =>
                     \E e \in i..(Len(t) + 1) : r = Refused(e, <<Blank>>, 1)
               /\ Reaches(t, i, type) =>
                     /\ j \in i..(Len(t) + 1)
                     /\ j \in Places(t)
                     /\ v.end \in {0} \cup (j + 1)..(Len(t) + 1)
                     /\ v.end = 0 => r = Refused(v.ep, <<v.item>>, v.made)
                     /\ v.end # 0 =>
                           /\ v.end \in Places(t)
                           /\ a \in v.end..(Len(t) + 1)
                           /\ a \in (i + 1)..(Len(t) + 1)
                           /\ At(t, a) # "end" => a + 1 \in Places(t)
                           /\ At(t, a) = "comma" =>
                                 r = Result(rest.end, rest.ep, <<v.item>> \o rest.item,
                                            v.made + rest.made)
                           /\ At(t, a) = Close(type) =>
                                 r = Result(a + 1, 0, <<v.item>>, v.made)
                           /\ At(t, a) \notin {"comma", Close(type)} =>
                                 r = Refused(a, <<v.item>>, v.made)
<1> DEFINE p == parse(t)
           r == p[<<type, i>>]
           n == Len(t)
           j == ValuePlace(t, i, type)
           v == p[<<"value", j>>]
           a == skip(t, v.end)
           rest == p[<<type, a + 1>>]
<1>1. <<type, i>> \in Queries(t) /\ type # "value"
  BY QueryType DEF Lists
<1>2. r = Members(p, t, i, type)
  BY <1>1, ParseIs DEF Body
<1>3. n \in Nat /\ i \in Nat /\ 1 <= i /\ i <= n + 1
  BY PlaceType
<1>4. ASSUME Reaches(t, i, type)
      PROVE  j \in i..(n + 1) /\ j \in Places(t) /\ v.end \in {0} \cup (j + 1)..(n + 1)
  <2>1. j \in i..(n + 1) /\ <<"value", j>> \in Queries(t)
    BY <1>4, MembersUses
  <2>2. v.end \in EndOf(t, <<"value", j>>)
    BY <2>1, ParseIs
  <2>3. j \in Places(t)
    BY <2>1 DEF Queries
  <2> QED
    BY <2>1, <2>2, <2>3 DEF EndOf
<1> HIDE DEF p
<1>5. ASSUME ~Reaches(t, i, type)
      PROVE  \E e \in i..(n + 1) : r = Refused(e, <<Blank>>, 1)
  <2>1. CASE Key(t, i) = 0
    <3>1. r = Refused(skip(t, i), <<Blank>>, 1)
      BY <1>2, <1>5, <2>1, MembersIs DEF NotAString
    <3>2. skip(t, i) \in i..(n + 1)
      BY SkipStops
    <3> QED
      BY <3>1, <3>2
  <2>2. CASE Key(t, i) # 0
    <3>1. r = Refused(Colon(t, i), <<Blank>>, 1)
      BY <1>2, <1>5, <2>2, MembersIs
    <3>2. Key(t, i) \in (i + 1)..(n + 1) /\ Colon(t, i) \in Key(t, i)..(n + 1)
      BY <2>2, KeyPlace
    <3>3. Colon(t, i) \in i..(n + 1)
      BY <1>3, <3>2
    <3> QED
      BY <3>1, <3>3
  <2> QED
    BY <2>1, <2>2
<1>6. ASSUME Reaches(t, i, type)
      PROVE  r = Behind(p, t, type, v)
  BY <1>2, <1>6, MembersIs
<1> HIDE DEF r, j
<1>7. ASSUME Reaches(t, i, type), v.end # 0
      PROVE  /\ v.end \in Places(t)
             /\ a \in v.end..(n + 1)
             /\ a \in (i + 1)..(n + 1)
             /\ At(t, a) # "end" => a + 1 \in Places(t)
  <2>1. v.end \in (i + 1)..(n + 1)
    BY <1>3, <1>4, <1>7
  <2> HIDE DEF v
  <2>2. /\ v.end \in Places(t) /\ a \in v.end..(n + 1) /\ a \in (i + 1)..(n + 1)
        /\ At(t, a) # "end" => <<type, a + 1>> \in Queries(t)
    BY <2>1, BehindUses
  <2> QED
    BY <2>2 DEF Queries
<1> HIDE DEF v
<1>8. <<v.item>> \o <<>> = <<v.item>>
  OBVIOUS
<1>9. ASSUME Reaches(t, i, type), v.end = 0
      PROVE  r = Refused(v.ep, <<v.item>>, v.made)
  BY <1>6, <1>8, <1>9 DEF Behind, Linked
<1> HIDE DEF a
<1>10. ASSUME Reaches(t, i, type), v.end # 0
      PROVE  /\ At(t, a) = "comma" =>
                   r = Result(rest.end, rest.ep, <<v.item>> \o rest.item, v.made + rest.made)
             /\ At(t, a) = Close(type) => r = Result(a + 1, 0, <<v.item>>, v.made)
             /\ At(t, a) \notin {"comma", Close(type)} => r = Refused(a, <<v.item>>, v.made)
  <2>1. Close(type) # "comma"
    BY DEF Close
  <2>2. Behind(p, t, type, v) =
            IF At(t, a) = "comma" THEN
               Result(rest.end, rest.ep, <<v.item>> \o rest.item, v.made + rest.made)
            ELSE IF At(t, a) = Close(type) THEN Result(a + 1, 0, <<v.item>>, v.made)
            ELSE Refused(a, <<v.item>>, v.made)
    BY <1>8, <1>10 DEF Behind, Linked, Closed, Close, a
  <2> QED
    BY <1>6, <1>10, <2>1, <2>2
<1> QED
  BY <1>4, <1>5, <1>7, <1>9, <1>10 DEF p, r, j, v, a

-----------------------------------------------------------------------------
(* To show something of all that is parsed of a text, it is enough to show *)
(* it of a value and of members when it holds of what they are made from.  *)
Kept(t, G) ==
    /\ \A i \in Places(t) : At(t, i) \notin {"lbrack", "lbrace"} => <<"value", i>> \in G
    /\ \A i \in Places(t), type \in Lists :
           At(t, i) = Open(type) /\ <<type, skip(t, i + 1)>> \in G => <<"value", i>> \in G
    /\ \A i \in Places(t), type \in Lists : ~Reaches(t, i, type) => <<type, i>> \in G
    /\ \A i \in Places(t), type \in Lists :
           LET j == ValuePlace(t, i, type)
               v == parse(t)[<<"value", j>>]
               a == skip(t, v.end)
           IN  /\ Reaches(t, i, type)
               /\ <<"value", j>> \in G
               /\ v.end # 0 /\ At(t, a) = "comma" => <<type, a + 1>> \in G
               => <<type, i>> \in G

(* What the results of a value, a list and a member keep is kept by every  *)
(* result.                                                                 *)
LEMMA ParseInduction ==
    ASSUME NEW t \in Texts, NEW G, Kept(t, G)
    PROVE  \A i \in Places(t) : \A kind \in {"value", "array", "object"} : <<kind, i>> \in G
<1>1. Inherits(t, G)
  <2> SUFFICES ASSUME NEW q \in Queries(t), \A u \in Queries(t) : Left(t, u) < Left(t, q) => u \in G
               PROVE  q \in G
    BY DEF Inherits
  <2> DEFINE i == q[2]
  <2>1. i \in Places(t) /\ q = <<q[1], i>>
    BY QueryType
  <2>2. CASE q[1] = "value"
    <3>1. q = <<"value", i>>
      BY <2>1, <2>2
    <3> HIDE DEF i
    <3>2. CASE At(t, i) \notin {"lbrack", "lbrace"}
      BY <2>1, <3>1, <3>2 DEF Kept
    <3>3. ASSUME NEW type \in Lists, At(t, i) = Open(type) PROVE q \in G
      <4>1. At(t, i) \in {"lbrack", "lbrace"}
        BY <3>3 DEF Open
      <4>2. <<type, skip(t, i + 1)>> \in Queries(t)
            /\ Left(t, <<type, skip(t, i + 1)>>) < Left(t, <<"value", i>>)
        BY <2>1, <4>1, ContainerUses
      <4>3. <<type, skip(t, i + 1)>> \in G
        BY <3>1, <4>2
      <4> QED
        BY <2>1, <3>1, <3>3, <4>3 DEF Kept
    <3>4. At(t, i) \in {"lbrack", "lbrace"} => \E type \in Lists : At(t, i) = Open(type)
      BY DEF Lists, Open
    <3> QED
      BY <3>2, <3>3, <3>4
  <2>3. CASE q[1] # "value"
    <3> DEFINE type == q[1]
    <3>1. type \in Lists
      BY <2>3, QueryType
    <3>2. q = <<type, i>>
      BY <2>1
    <3> HIDE DEF i, type
    <3>3. CASE ~Reaches(t, i, type)
      BY <2>1, <3>1, <3>2, <3>3 DEF Kept
    <3>4. CASE Reaches(t, i, type)
      <4> DEFINE j == ValuePlace(t, i, type)
                 v == parse(t)[<<"value", j>>]
                 a == skip(t, v.end)
      <4>1. j \in i..(Len(t) + 1) /\ <<"value", j>> \in Queries(t) /\ Left(t, <<"value", j>>) < Left(t, <<type, i>>)
        BY <2>1, <3>1, <3>4, MembersUses
      <4>2. <<"value", j>> \in G
        BY <3>2, <4>1
      <4>3. ASSUME v.end # 0, At(t, a) = "comma" PROVE <<type, a + 1>> \in G
        <5>1. v.end \in EndOf(t, <<"value", j>>)
          BY <4>1, ParseIs
        <5>2. v.end \in (i + 1)..(Len(t) + 1)
          <6>1. v.end \in {0} \cup (j + 1)..(Len(t) + 1)
            BY <5>1 DEF EndOf
          <6>2. i \in Nat /\ Len(t) \in Nat
            BY <2>1, PlaceType
          <6> HIDE DEF v, j
          <6> QED
            BY <4>1, <4>3, <6>1, <6>2
        <5> HIDE DEF v
        <5>3. <<type, a + 1>> \in Queries(t) /\ Left(t, <<type, a + 1>>) < Left(t, <<type, i>>)
          BY <2>1, <3>1, <4>3, <5>2, BehindUses
        <5> QED
          BY <3>2, <5>3
      <4> QED
        BY <2>1, <3>1, <3>2, <3>4, <4>2, <4>3 DEF Kept
    <3> QED
      BY <3>3, <3>4
  <2> QED
    BY <2>2, <2>3
<1>2. \A q \in Queries(t) : q \in G
  BY <1>1, QueryInduction
<1> QED
  BY <1>2, QueryType

(* What the text holds: a sequence of tokens, no more of them than there   *)
(* may be.                                                                 *)
TextType == text \in Seq(Tokens) /\ Len(text) <= MaxTokens

(* A text is a sequence of tokens, never longer than the bound.            *)
LEMMA TextTypeKept == Spec => []TextType
<1>1. Init => TextType
  <2> SUFFICES ASSUME Init PROVE TextType
    OBVIOUS
  <2>1. text = <<>> /\ MaxTokens \in Nat
    BY MaxTokensAssumption DEF Init
  <2>2. <<>> \in Seq(Tokens) /\ Len(<<>>) = 0
    OBVIOUS
  <2> QED
    BY <2>1, <2>2 DEF TextType
<1>2. TextType /\ [Next]_text => TextType'
  <2> SUFFICES ASSUME TextType, [Next]_text PROVE TextType'
    OBVIOUS
  <2>1. CASE UNCHANGED text
    BY <2>1 DEF TextType
  <2>2. CASE Next
    <3>1. PICK c \in Tokens : Arrive(c)
      BY <2>2 DEF Next
    <3> DEFINE t == Append(text, c)
               w == [i \in 1..Len(t) |-> IF t[i] = "white" THEN 3 ELSE 1]
    <3>2. text' = t /\ Total(w) <= MaxTokens
      BY <3>1 DEF Arrive
    <3>3. t \in Seq(Tokens) /\ Len(t) \in Nat
      BY DEF TextType
    <3> HIDE DEF t
    <3>4. w \in [1..Len(t) -> 1..3]
      OBVIOUS
    <3> HIDE DEF w
    <3>5. w \in Seq(1..3) /\ Len(w) = Len(t)
      BY <3>3, <3>4, FunSeq
    <3>6. Len(w) <= Total(w) /\ Total(w) \in Nat
      <4>1. w \in Seq(Nat)
        BY <3>5
      <4> QED
        BY <3>5, <4>1, TotalBounds, SumsDefined
    <3>7. Len(t) <= MaxTokens
      BY <3>2, <3>3, <3>5, <3>6, MaxTokensAssumption
    <3> QED
      BY <3>2, <3>3, <3>7 DEF TextType
  <2> QED
    BY <2>1, <2>2
<1> QED
  BY <1>1, <1>2, PTL DEF Spec

-----------------------------------------------------------------------------
(* A parse sets ep exactly when it fails, and to a place of the text.      *)
EpRight(t, r) == r.ep \in 0..(Len(t) + 1) /\ (r.end = 0 <=> r.ep # 0)

(* Every result has the error pointer that its end tells.                  *)
LEMMA EpOfParse ==
    ASSUME NEW t \in Texts
    PROVE  \A i \in Places(t) : \A kind \in {"value", "array", "object"} : EpRight(t, parse(t)[<<kind, i>>])
<1> DEFINE p == parse(t)
           n == Len(t)
           G == {q \in Queries(t) : EpRight(t, p[q])}
<1>0. n \in Nat /\ (\A i \in Places(t) : i \in Int /\ 1 <= i /\ i <= n + 1)
  BY PlaceType
<1>1. ASSUME NEW e \in Places(t), NEW item, NEW made PROVE EpRight(t, Refused(e, item, made))
  BY <1>0 DEF EpRight, Refused, Result
<1>2. ASSUME NEW e \in Places(t), NEW item, NEW made PROVE EpRight(t, Result(e, 0, item, made))
  BY <1>0 DEF EpRight, Result
<1>3. \A i \in Places(t) : At(t, i) \notin {"lbrack", "lbrace"} => <<"value", i>> \in G
  <2> SUFFICES ASSUME NEW i \in Places(t), At(t, i) \notin {"lbrack", "lbrace"} PROVE <<"value", i>> \in G
    OBVIOUS
  <2> DEFINE r == p[<<"value", i>>]
  <2>1. \/ At(t, i) \in Values \cup {"s"} /\ \E item : r = Result(i + 1, 0, item, 1)
        \/ At(t, i) = "u" /\ \E item : r = Result(n + 1, 0, item, 1)
        \/ r = Refused(i, Blank, 1)
    BY ValueCases
  <2>2. At(t, i) \in Values \cup {"s"} => i + 1 \in Places(t)
    BY PlaceEnd DEF Values
  <2>3. n + 1 \in Places(t)
    BY <1>0, PlaceType
  <2> HIDE DEF p
  <2>4. EpRight(t, r)
    BY <1>1, <1>2, <2>1, <2>2, <2>3
  <2>5. <<"value", i>> \in Queries(t)
    BY QueryType
  <2> QED
    BY <2>4, <2>5
<1>4. ASSUME NEW i \in Places(t), NEW type \in Lists,
             At(t, i) = Open(type), <<type, skip(t, i + 1)>> \in G
      PROVE  <<"value", i>> \in G
  <2> DEFINE r == p[<<"value", i>>]
             first == skip(t, i + 1)
             m == p[<<type, first>>]
  <2>1. /\ first \in Places(t)
        /\ At(t, first) = Close(type) => r = Result(first + 1, 0, Item(type, <<>>), 1)
        /\ At(t, first) # Close(type) => r = Result(m.end, m.ep, Item(type, m.item), m.made + 1)
    BY <1>4, ValueCases
  <2>2. EpRight(t, m)
    BY <1>4
  <2>3. EpRight(t, Result(m.end, m.ep, Item(type, m.item), m.made + 1))
    BY <2>2 DEF EpRight, Result
  <2> HIDE DEF p
  <2>4. At(t, first) = Close(type) => first + 1 \in Places(t)
    BY <2>1, PlaceEnd DEF Close
  <2>5. EpRight(t, r)
    BY <1>2, <2>1, <2>3, <2>4
  <2>6. <<"value", i>> \in Queries(t)
    BY QueryType
  <2> QED
    BY <2>5, <2>6
<1>5. ASSUME NEW i \in Places(t), NEW type \in Lists, ~Reaches(t, i, type)
      PROVE  <<type, i>> \in G
  <2>1. PICK e \in i..(n + 1) : p[<<type, i>>] = Refused(e, <<Blank>>, 1)
    BY <1>5, MembersCases
  <2>2. e \in Places(t)
    BY <1>0, <2>1, PlaceType
  <2>3. <<type, i>> \in Queries(t)
    BY QueryType DEF Lists
  <2> QED
    BY <1>1, <2>1, <2>2, <2>3
<1>6. ASSUME NEW i \in Places(t), NEW type \in Lists, Reaches(t, i, type),
             NEW j, j = ValuePlace(t, i, type), <<"value", j>> \in G,
             NEW v, v = p[<<"value", j>>], NEW a, a = skip(t, v.end),
             v.end # 0 /\ At(t, a) = "comma" => <<type, a + 1>> \in G
      PROVE  <<type, i>> \in G
  <2> DEFINE r == p[<<type, i>>]
             rest == p[<<type, a + 1>>]
  <2>1. /\ v.end = 0 => r = Refused(v.ep, <<v.item>>, v.made)
        /\ v.end # 0 =>
              /\ a \in (i + 1)..(n + 1)
              /\ At(t, a) # "end" => a + 1 \in Places(t)
              /\ At(t, a) = "comma" =>
                    r = Result(rest.end, rest.ep, <<v.item>> \o rest.item, v.made + rest.made)
              /\ At(t, a) = Close(type) => r = Result(a + 1, 0, <<v.item>>, v.made)
              /\ At(t, a) \notin {"comma", Close(type)} => r = Refused(a, <<v.item>>, v.made)
    BY <1>6, MembersCases
  <2>2. EpRight(t, v)
    BY <1>6
  <2>3. v.end # 0 /\ At(t, a) = "comma" => EpRight(t, rest)
    BY <1>6
  <2> HIDE DEF r, rest, p
  <2>4. ASSUME v.end = 0
        PROVE  EpRight(t, r)
    <3>1. EpRight(t, Refused(v.ep, <<v.item>>, v.made))
      BY <2>2, <2>4 DEF EpRight, Refused, Result
    <3> QED
      BY <2>1, <2>4, <3>1
  <2>5. ASSUME v.end # 0 /\ At(t, a) = "comma"
        PROVE  EpRight(t, r)
    <3>1. EpRight(t, Result(rest.end, rest.ep, <<v.item>> \o rest.item, v.made + rest.made))
      BY <2>3, <2>5 DEF EpRight, Result
    <3> QED
      BY <2>1, <2>5, <3>1
  <2>6. ASSUME v.end # 0 /\ At(t, a) = Close(type)
        PROVE  EpRight(t, r)
    <3>1. a + 1 \in Places(t)
      BY <2>1, <2>6 DEF Close
    <3> QED
      BY <1>2, <2>1, <2>6, <3>1
  <2>7. ASSUME v.end # 0 /\ At(t, a) \notin {"comma", Close(type)}
        PROVE  EpRight(t, r)
    <3>1. a \in Places(t)
      BY <1>0, <2>1, <2>7, PlaceType
    <3> QED
      BY <1>1, <2>1, <2>7, <3>1
  <2>8. EpRight(t, r)
    BY <2>4, <2>5, <2>6, <2>7
  <2>9. <<type, i>> \in Queries(t)
    BY QueryType DEF Lists
  <2> QED
    BY <2>8, <2>9 DEF r
<1> HIDE DEF G
<1>7. Kept(t, G)
  BY <1>3, <1>4, <1>5, <1>6 DEF Kept
<1>8. \A i \in Places(t) : \A kind \in {"value", "array", "object"} : <<kind, i>> \in G
  BY <1>7, ParseInduction
<1> QED
  BY <1>8 DEF G

(* How cJSON_ParseWithOpts uses the parse of a text.                       *)
LEMMA OptsCases ==
    ASSUME NEW t \in Texts, NEW opt \in BOOLEAN
    PROVE  LET r == parse(t)[<<"value", skip(t, 1)>>]
               e == skip(t, r.end)
               o == cJSON_ParseWithOpts(t, opt)
           IN  /\ skip(t, 1) \in Places(t)
               /\ r.end \in {0} \cup (skip(t, 1) + 1)..(Len(t) + 1)
               /\ r.end # 0 => r.end \in Places(t) /\ e \in Places(t)
               /\ o = r \/ (opt /\ r.end # 0 /\ e <= Len(t) /\ o = Refused(e, r.item, r.made))
               /\ ~opt => o = r
               /\ opt /\ r.end # 0 /\ e <= Len(t) => o = Refused(e, r.item, r.made)
<1> DEFINE s == skip(t, 1)
           r == parse(t)[<<"value", s>>]
<1>1. 1 \in Places(t) /\ Len(t) \in Nat
  BY PlaceType
<1>2. s \in Places(t)
  BY <1>1, SkipTwice
<1>3. r.end \in EndOf(t, <<"value", s>>)
  <2>1. <<"value", s>> \in Queries(t)
    BY <1>2, QueryType
  <2> QED
    BY <2>1, ParseIs
<1>4. cJSON_ParseWithOpts(t, opt) = IF opt THEN NothingBehind(t, r) ELSE r
  BY DEF cJSON_ParseWithOpts, parse_value
<1> HIDE DEF r, s
<1>5. r.end \in {0} \cup (s + 1)..(Len(t) + 1)
  BY <1>3 DEF EndOf
<1>6. r.end # 0 => r.end \in Places(t)
  <2>1. s \in Int /\ 1 <= s
    BY <1>2, PlaceType
  <2> QED
    BY <1>1, <1>5, <2>1, PlaceType
<1>7. r.end # 0 => skip(t, r.end) \in Places(t)
  BY <1>6, SkipTwice
<1> QED
  BY <1>2, <1>4, <1>5, <1>6, <1>7 DEF NothingBehind, r, s

(* The error pointer is set when parsing failed, and then into the text.   *)
THEOREM ErrorPointerTheorem == Spec => []ErrorPointer
<1>1. TextType => ErrorPointer
  <2> SUFFICES ASSUME TextType, NEW opt \in BOOLEAN
               PROVE  EpRight(text, cJSON_ParseWithOpts(text, opt))
    BY DEF ErrorPointer, EpRight
  <2> DEFINE t == text
             s == skip(t, 1)
             r == parse(t)[<<"value", s>>]
             e == skip(t, r.end)
             o == cJSON_ParseWithOpts(t, opt)
  <2>1. t \in Texts
    BY DEF TextType, Texts
  <2>2. /\ s \in Places(t)
        /\ r.end # 0 => e \in Places(t)
        /\ o = r \/ (r.end # 0 /\ o = Refused(e, r.item, r.made))
    BY <2>1, OptsCases
  <2>3. EpRight(t, r)
    BY <2>1, <2>2, EpOfParse
  <2> HIDE DEF r, e, o, s
  <2>4. r.end # 0 => EpRight(t, Refused(e, r.item, r.made))
    <3>1. r.end # 0 => e \in Int /\ 1 <= e /\ e <= Len(t) + 1
      BY <2>1, <2>2, PlaceType
    <3> QED
      BY <3>1 DEF EpRight, Refused, Result
  <2>5. EpRight(t, o)
    BY <2>2, <2>3, <2>4
  <2> QED
    BY <2>5 DEF o
<1> QED
  BY <1>1, TextTypeKept, PTL

(* The trees of each depth.                                                *)
TreeStep(leaves, below) ==
    [type : leaves, kids : {<<>>}] \cup [type : {"array", "object"}, kids : Seq(below)]

(* The trees of a level have lists of trees of the level below as kids.    *)
LEMMA TreesAre ==
    ASSUME NEW leaves
    PROVE  /\ Levels \in Nat \ {0}
           /\ Trees(leaves)[0] = {}
           /\ \A d \in 1..Levels : Trees(leaves)[d] = TreeStep(leaves, Trees(leaves)[d - 1])
<1> DEFINE T == Trees(leaves)
           N == Levels
           R(f) == [d \in 0..N |-> IF d = 0 THEN {} ELSE TreeStep(leaves, f[d - 1])]
           I == {m \in 0..N : \E f : \A d \in 0..m : f[d] = IF d = 0 THEN {} ELSE TreeStep(leaves, f[d - 1])}
<1>1. N \in Nat \ {0}
  BY MaxTokensAssumption DEF Levels
<1>2. 0 \in I
  <2> DEFINE f == [d \in 0..0 |-> {}]
  <2>1. \A d \in 0..0 : f[d] = IF d = 0 THEN {} ELSE TreeStep(leaves, f[d - 1])
    OBVIOUS
  <2> HIDE DEF f
  <2> QED
    BY <1>1, <2>1
<1>3. ASSUME NEW m \in 1..N, m - 1 \in I PROVE m \in I
  <2>1. PICK f : \A d \in 0..(m - 1) : f[d] = IF d = 0 THEN {} ELSE TreeStep(leaves, f[d - 1])
    BY <1>3
  <2> DEFINE g == [d \in 0..m |-> IF d = 0 THEN {} ELSE TreeStep(leaves, f[d - 1])]
  <2>2. \A d \in 0..m : g[d] = IF d = 0 THEN {} ELSE TreeStep(leaves, g[d - 1])
    <3> SUFFICES ASSUME NEW d \in 0..m PROVE g[d] = IF d = 0 THEN {} ELSE TreeStep(leaves, g[d - 1])
      OBVIOUS
    <3>1. CASE d = 0
      BY <3>1
    <3>2. CASE d # 0
      <4>1. d - 1 \in 0..(m - 1) /\ d - 1 \in 0..m
        BY <3>2
      <4>2. g[d - 1] = f[d - 1]
        BY <2>1, <4>1
      <4> QED
        BY <3>2, <4>2
    <3> QED
      BY <3>1, <3>2
  <2> HIDE DEF g
  <2> QED
    BY <2>2
<1> HIDE DEF I
<1>4. N \in I
  <2>1. N \in Nat /\ \A m \in 0..N : m \in I
    BY <1>1, <1>2, <1>3, UpTo
  <2> QED
    BY <2>1
<1>5. \E f : f = R(f)
  <2>1. PICK f : \A d \in 0..N : f[d] = IF d = 0 THEN {} ELSE TreeStep(leaves, f[d - 1])
    BY <1>4 DEF I
  <2> DEFINE g == [d \in 0..N |-> f[d]]
  <2>2. \A d \in 0..N : g[d] = IF d = 0 THEN {} ELSE TreeStep(leaves, g[d - 1])
    <3> SUFFICES ASSUME NEW d \in 0..N PROVE g[d] = IF d = 0 THEN {} ELSE TreeStep(leaves, g[d - 1])
      OBVIOUS
    <3>1. d # 0 => d - 1 \in 0..N
      BY <1>1
    <3> QED
      BY <2>1, <3>1
  <2>3. g = [d \in 0..N |-> g[d]]
    OBVIOUS
  <2> HIDE DEF g
  <2>4. g = R(g)
    BY <2>2, <2>3
  <2> HIDE DEF R
  <2> QED
    BY <2>4
<1>6. T = R(T)
  <2>1. T = CHOOSE f : f = R(f)
    BY DEF Trees, TreeStep
  <2> HIDE DEF T, R
  <2> QED
    BY <1>5, <2>1
<1> HIDE DEF T
<1>7. T[0] = {} /\ \A d \in 1..N : T[d] = TreeStep(leaves, T[d - 1])
  BY SMTT(30), <1>1, <1>6
<1> QED
  BY <1>1, <1>7 DEF T

(* A tree is one of each greater depth too.                                *)
LEMMA TreesGrow ==
    ASSUME NEW leaves, NEW d \in 0..Levels, NEW e \in 0..Levels, d <= e
    PROVE  Trees(leaves)[d] \subseteq Trees(leaves)[e] /\ Seq(Trees(leaves)[d]) \subseteq Seq(Trees(leaves)[e])
<1> DEFINE T == Trees(leaves)
           N == Levels
           I == {m \in 0..N : m > 0 => T[m - 1] \subseteq T[m]}
<1>1. N \in Nat /\ T[0] = {} /\ \A m \in 1..N : T[m] = TreeStep(leaves, T[m - 1])
  BY TreesAre
<1> HIDE DEF T, N
<1>2. 0 \in I
  BY <1>1
<1>3. ASSUME NEW m \in 1..N, m - 1 \in I PROVE m \in I
  <2>1. CASE m = 1
    BY <1>1, <2>1
  <2>2. CASE m # 1
    <3>1. m - 1 \in 1..N /\ m \in 0..N
      BY <1>1, <2>2
    <3>2. T[(m - 1) - 1] \subseteq T[m - 1]
      BY <1>3, <3>1
    <3>3. Seq(T[(m - 1) - 1]) \subseteq Seq(T[m - 1])
      BY <3>2
    <3>4. T[m - 1] = TreeStep(leaves, T[(m - 1) - 1]) /\ T[m] = TreeStep(leaves, T[m - 1])
      BY <1>1, <3>1
    <3> DEFINE A == T[(m - 1) - 1]
               B == T[m - 1]
    <3>5. TreeStep(leaves, A) \subseteq TreeStep(leaves, B)
      <4>1. Seq(A) \subseteq Seq(B)
        BY <3>3
      <4> HIDE DEF A, B
      <4> QED
        BY <4>1 DEF TreeStep
    <3>6. T[m - 1] \subseteq T[m]
      BY <3>4, <3>5
    <3> QED
      BY <3>1, <3>6
  <2> QED
    BY <2>1, <2>2
<1>4. \A m \in 0..N : m \in I
  <2> HIDE DEF I
  <2> QED
    BY <1>1, <1>2, <1>3, UpTo
<1> DEFINE J == {k \in 0..(e - d) : T[d] \subseteq T[d + k]}
<1>5. d \in 0..N /\ e \in 0..N
  BY DEF N
<1>6. \A k \in 0..(e - d) : k \in J
  <2>1. 0 \in J
    BY <1>5
  <2>2. ASSUME NEW k \in 1..(e - d), k - 1 \in J PROVE k \in J
    <3>1. d + k \in 1..N /\ (d + k) - 1 = d + (k - 1) /\ k \in 0..(e - d)
      BY <1>1, <1>5
    <3>2. T[(d + k) - 1] \subseteq T[d + k]
      <4> DEFINE m == d + k
      <4>1. m \in 0..N /\ m > 0
        BY <3>1
      <4> HIDE DEF m
      <4>2. m \in I
        BY <1>4, <4>1
      <4>3. T[m - 1] \subseteq T[m]
        BY <4>1, <4>2
      <4> QED
        BY <4>3 DEF m
    <3>3. T[d] \subseteq T[d + (k - 1)]
      BY <2>2
    <3>4. T[d] \subseteq T[d + k]
      BY <3>1, <3>2, <3>3
    <3> QED
      BY <3>1, <3>4
  <2>3. e - d \in Nat
    BY <1>5
  <2> HIDE DEF J
  <2> DEFINE n == e - d
  <2>4. n \in Nat /\ 0 \in J /\ \A k \in 1..n : k - 1 \in J => k \in J
    BY <2>1, <2>2, <2>3
  <2> HIDE DEF n
  <2>5. \A k \in 0..n : k \in J
    BY <2>4, UpTo
  <2> QED
    BY <2>5 DEF n
<1>7. T[d] \subseteq T[e]
  <2>1. e - d \in 0..(e - d) /\ d + (e - d) = e
    BY <1>5
  <2>2. e - d \in J
    BY <1>6, <2>1
  <2> QED
    BY <2>1, <2>2
<1>8. Seq(T[d]) \subseteq Seq(T[e])
  BY <1>7
<1> QED
  BY <1>7, <1>8 DEF T

(* What a tree is made of.                                                 *)
LEMMA TreeParts ==
    ASSUME NEW leaves, NEW d \in 1..Levels, NEW item \in Trees(leaves)[d]
    PROVE  /\ item = [type |-> item.type, kids |-> item.kids]
           /\ \/ item.type \in leaves /\ item.kids = <<>>
              \/ item.type \in Lists
           /\ item.kids \in Seq(Trees(leaves)[d - 1])
           /\ Len(item.kids) \in Nat
           /\ \A i \in 1..Len(item.kids) : item.kids[i] \in Trees(leaves)[d - 1]
<1> DEFINE T == Trees(leaves)[d - 1]
<1>1. item \in TreeStep(leaves, T)
  BY TreesAre
<1> HIDE DEF T
<1>2. /\ item = [type |-> item.type, kids |-> item.kids]
      /\ (item.type \in leaves /\ item.kids = <<>>) \/ (item.type \in Lists /\ item.kids \in Seq(T))
  BY <1>1 DEF TreeStep, Lists
<1>3. item.kids \in Seq(T)
  <2>1. <<>> \in Seq(T)
    OBVIOUS
  <2> QED
    BY <1>2, <2>1
<1>4. Len(item.kids) \in Nat /\ \A i \in 1..Len(item.kids) : item.kids[i] \in T
  BY <1>3
<1> QED
  BY <1>2, <1>3, <1>4 DEF T

(* A tree is a type and kids that are trees, none for a leaf.              *)
LEMMA ItemParts ==
    ASSUME NEW leaves, NEW item \in Trees(leaves)[Levels]
    PROVE  /\ item = [type |-> item.type, kids |-> item.kids]
           /\ \/ item.type \in leaves /\ item.kids = <<>>
              \/ item.type \in Lists
           /\ item.kids \in Seq(Trees(leaves)[Levels])
           /\ Len(item.kids) \in Nat
           /\ \A i \in 1..Len(item.kids) : item.kids[i] \in Trees(leaves)[Levels]
<1>1. Levels \in Nat \ {0}
  BY TreesAre
<1> DEFINE d == Levels
           e == Levels - 1
<1>2. d \in 1..Levels /\ e \in 0..Levels /\ d \in 0..Levels /\ e <= d /\ d - 1 = e
  BY <1>1
<1>3. Trees(leaves)[e] \subseteq Trees(leaves)[d] /\ Seq(Trees(leaves)[e]) \subseteq Seq(Trees(leaves)[d])
  <2> HIDE DEF d, e
  <2> QED
    BY <1>2, TreesGrow
<1>4. /\ item = [type |-> item.type, kids |-> item.kids]
      /\ \/ item.type \in leaves /\ item.kids = <<>>
         \/ item.type \in Lists
      /\ item.kids \in Seq(Trees(leaves)[e])
      /\ Len(item.kids) \in Nat
      /\ \A i \in 1..Len(item.kids) : item.kids[i] \in Trees(leaves)[e]
  BY <1>2, TreeParts
<1> QED
  BY <1>3, <1>4

(* What holds of a tree when it holds of its kids holds of all trees.      *)
LEMMA TreeInduction ==
    ASSUME NEW leaves, NEW G,
           \A item \in Trees(leaves)[Levels] :
               (\A i \in 1..Len(item.kids) : item.kids[i] \in G) => item \in G
    PROVE  \A item \in Trees(leaves)[Levels] : item \in G
<1> DEFINE T == Trees(leaves)
           N == Levels
           I == {d \in 0..N : \A item \in T[d] : item \in G}
<1>1. N \in Nat \ {0} /\ T[0] = {}
  BY TreesAre
<1>2. 0 \in I
  BY <1>1
<1>3. ASSUME NEW d \in 1..N, d - 1 \in I PROVE d \in I
  <2>1. \A item \in T[d - 1] : item \in G
    BY <1>3
  <2>2. d \in 0..N /\ N \in 0..N /\ d <= N
    BY <1>1
  <2>3. T[d] \subseteq T[N]
    BY <2>2, TreesGrow
  <2>4. ASSUME NEW item \in T[d] PROVE item \in G
    <3>1. \A i \in 1..Len(item.kids) : item.kids[i] \in T[d - 1]
      BY TreeParts
    <3> QED
      BY <2>1, <2>3, <3>1
  <2> QED
    BY <2>2, <2>4
<1> HIDE DEF I
<1>4. \A d \in 0..N : d \in I
  <2>1. N \in Nat
    BY <1>1
  <2> HIDE DEF N
  <2> QED
    BY <2>1, <1>2, <1>3, UpTo
<1>5. N \in 0..N
  BY <1>1
<1> QED
  BY <1>4, <1>5 DEF I

(* A function may be defined of a tree by what it says of the kids.        *)
Map(f, s) == [i \in 1..Len(s) |-> f[s[i]]]

(* Map says of each element of a sequence what the function says of it.    *)
LEMMA MapLen ==
    ASSUME NEW f, NEW s, Len(s) \in Nat
    PROVE  /\ Len(Map(f, s)) = Len(s)
           /\ \A i \in 1..Len(s) : Map(f, s)[i] = f[s[i]]
<1> DEFINE n == Len(s)
           m == Map(f, s)
           V == {f[s[i]] : i \in 1..n}
<1>1. m \in [1..n -> V]
  BY DEF Map
<1> HIDE DEF n, m, V
<1>2. m \in Seq(V) /\ Len(m) = n
  <2>1. n \in Nat
    BY DEF n
  <2> QED
    BY <1>1, <2>1, FunSeq
<1> QED
  BY <1>2 DEF m, n, Map

(* Map makes a sequence of what the function gives.                        *)
LEMMA MapType ==
    ASSUME NEW S, NEW V, NEW f, \A x \in S : f[x] \in V, NEW s \in Seq(S)
    PROVE  Map(f, s) \in Seq(V) /\ Len(Map(f, s)) = Len(s)
<1>1. Len(s) \in Nat /\ \A i \in 1..Len(s) : s[i] \in S
  OBVIOUS
<1> DEFINE n == Len(s)
           m == Map(f, s)
<1>2. m \in [1..n -> V]
  BY <1>1 DEF Map
<1> HIDE DEF n, m
<1>3. m \in Seq(V) /\ Len(m) = n
  <2>1. n \in Nat
    BY <1>1 DEF n
  <2> QED
    BY <1>2, <2>1, FunSeq
<1> QED
  BY <1>3 DEF n, m

TreeSteps(T, V, step) == step \in [T -> [Seq(V) -> V]]
OfKids(T, V, step, f) == f \in [T -> V] /\ \A item \in T : f[item] = step[item][Map(f, item.kids)]

(* A function that is said of a tree by what it says of its kids exists.   *)
LEMMA TreeRecursion ==
    ASSUME NEW leaves, NEW V, NEW step, TreeSteps(Trees(leaves)[Levels], V, step)
    PROVE  \E f : OfKids(Trees(leaves)[Levels], V, step, f)
<1> USE DEF TreeSteps
<1> DEFINE T == Trees(leaves)
           N == Levels
           I == {d \in 0..N : \E f \in [T[d] -> V] : \A item \in T[d] : f[item] = step[item][Map(f, item.kids)]}
<1>1. N \in Nat \ {0} /\ T[0] = {}
  BY TreesAre
<1>2. 0 \in I
  <2> DEFINE f == [item \in {} |-> 0]
  <2>1. f \in [T[0] -> V]
    BY <1>1
  <2>2. \A item \in T[0] : f[item] = step[item][Map(f, item.kids)]
    BY <1>1
  <2>3. 0 \in 0..N
    BY <1>1
  <2> HIDE DEF f
  <2> QED
    BY <2>1, <2>2, <2>3
<1>3. ASSUME NEW d \in 1..N, d - 1 \in I PROVE d \in I
  <2> DEFINE e == d - 1
  <2>1. PICK f \in [T[e] -> V] : \A item \in T[e] : f[item] = step[item][Map(f, item.kids)]
    BY <1>3
  <2>2. d \in 0..N /\ N \in 0..N /\ e \in 0..N /\ e <= d /\ d <= N
    BY <1>1
  <2> DEFINE g == [item \in T[d] |-> step[item][Map(f, item.kids)]]
  <2>3. T[d] \subseteq T[N] /\ T[e] \subseteq T[d]
    <3> HIDE DEF e
    <3> QED
      BY <2>2, TreesGrow
  <2>4. ASSUME NEW item \in T[d] PROVE Map(f, item.kids) \in Seq(V)
    <3>1. item.kids \in Seq(T[e])
      BY TreeParts
    <3>2. \A x \in T[e] : f[x] \in V
      BY <2>1
    <3> QED
      BY <3>1, <3>2, MapType
  <2>5. g \in [T[d] -> V]
    <3> SUFFICES ASSUME NEW item \in T[d] PROVE step[item][Map(f, item.kids)] \in V
      OBVIOUS
    <3> QED
      BY <2>3, <2>4
  <2>6. ASSUME NEW item \in T[d] PROVE g[item] = step[item][Map(g, item.kids)]
    <3>1. item.kids \in Seq(T[e])
      BY TreeParts
    <3>2. \A x \in T[e] : g[x] = f[x]
      BY <2>1, <2>3
    <3>3. g[item] = step[item][Map(f, item.kids)]
      OBVIOUS
    <3> HIDE DEF g, e
    <3>4. Map(g, item.kids) = Map(f, item.kids)
      BY <3>1, <3>2 DEF Map
    <3> QED
      BY <3>3, <3>4
  <2> HIDE DEF g, e
  <2>7. \E h \in [T[d] -> V] : \A item \in T[d] : h[item] = step[item][Map(h, item.kids)]
    BY <2>5, <2>6
  <2> QED
    BY <2>2, <2>7
<1> HIDE DEF I
<1>4. N \in I
  <2>1. N \in Nat
    BY <1>1
  <2> HIDE DEF N
  <2>2. \A d \in 0..N : d \in I
    BY <2>1, <1>2, <1>3, UpTo
  <2> QED
    BY <2>1, <2>2
<1> QED
  BY <1>4 DEF I, OfKids

(* The sum of one number, and of one in front of others.                   *)
LEMMA TotalOne ==
    ASSUME NEW a \in Nat
    PROVE  <<a>> \in Seq(Nat) /\ Total(<<a>>) = a
<1> DEFINE s == <<a>>
<1>1. s \in Seq(Nat) /\ Len(s) = 1 /\ s[1] = a
  OBVIOUS
<1> HIDE DEF s
<1>2. /\ Sums(s) \in [0..Len(s) -> Nat]
      /\ Sums(s)[0] = 0
      /\ \A i \in 1..Len(s) : Sums(s)[i] = Sums(s)[i - 1] + s[i]
  BY <1>1, SumsDefined
<1>3. Sums(s)[1] = Sums(s)[1 - 1] + s[1]
  BY <1>1, <1>2
<1>4. Total(s) = a
  BY <1>1, <1>2, <1>3 DEF Total
<1> QED
  BY <1>1, <1>4 DEF s

(* The sum with one more number in front.                                  *)
LEMMA TotalCons ==
    ASSUME NEW a \in Nat, NEW s \in Seq(Nat)
    PROVE  Total(<<a>> \o s) = a + Total(s)
<1> DEFINE u == <<a>>
<1>1. u \in Seq(Nat) /\ Total(u) = a
  BY TotalOne
<1> HIDE DEF u
<1>2. Total(u \o s) = Total(u) + Total(s)
  BY <1>1, TotalConcat
<1> QED
  BY <1>1, <1>2 DEF u

(* What is said of each of a sequence is said in front, and behind.        *)
LEMMA MapOne ==
    ASSUME NEW f, NEW x
    PROVE  Map(f, <<x>>) = <<f[x]>>
BY DEF Map

(* Map with one more element in front.                                     *)
LEMMA MapCons ==
    ASSUME NEW S, NEW s \in Seq(S), NEW f, NEW x \in S
    PROVE  Map(f, <<x>> \o s) = <<f[x]>> \o Map(f, s)
<1> DEFINE u == <<x>> \o s
           n == Len(s)
           m == Map(f, s)
           w == <<f[x]>> \o m
<1>1. n \in Nat /\ u \in Seq(S) /\ Len(u) = n + 1 /\ u[1] = x /\ \A i \in 2..(n + 1) : u[i] = s[i - 1]
  OBVIOUS
<1>2. m \in Seq({f[y] : y \in S}) /\ Len(m) = n
  <2> DEFINE V == {f[y] : y \in S}
  <2>1. \A y \in S : f[y] \in V
    OBVIOUS
  <2> HIDE DEF V
  <2>2. Map(f, s) \in Seq(V)
    BY <2>1, MapType
  <2>3. Len(Map(f, s)) = Len(s)
    BY <1>1, MapLen DEF n
  <2> QED
    BY <2>2, <2>3 DEF V
<1>3. \A i \in 1..n : m[i] = f[s[i]]
  BY DEF Map
<1> HIDE DEF m, n
<1>4. Len(w) = n + 1 /\ w[1] = f[x] /\ (\A i \in 2..(n + 1) : w[i] = m[i - 1]) /\ DOMAIN w = 1..(n + 1)
  <2>1. <<f[x]>> \in Seq({f[y] : y \in S}) /\ Len(<<f[x]>>) = 1
    OBVIOUS
  <2> QED
    BY <1>1, <1>2, <2>1, ConcatProperties
<1> HIDE DEF u, w
<1>5. Map(f, u) = [i \in 1..(n + 1) |-> f[u[i]]]
  BY <1>1 DEF Map
<1>6. \A i \in 1..(n + 1) : w[i] = f[u[i]]
  <2> SUFFICES ASSUME NEW i \in 1..(n + 1) PROVE w[i] = f[u[i]]
    OBVIOUS
  <2>1. CASE i = 1
    BY <1>1, <1>4, <2>1
  <2>2. CASE i # 1
    <3>1. i \in 2..(n + 1) /\ i - 1 \in 1..n
      BY <1>1, <2>2
    <3> QED
      BY <1>1, <1>3, <1>4, <3>1
  <2> QED
    BY <2>1, <2>2
<1>7. w = [i \in DOMAIN w |-> w[i]]
  <2>1. w \in Seq({f[y] : y \in S})
    BY <1>2 DEF w
  <2> QED
    BY <2>1
<1>8. Map(f, u) = w
  BY <1>4, <1>5, <1>6, <1>7
<1> QED
  BY <1>1, <1>8 DEF u, w, m

-----------------------------------------------------------------------------
(* The items of a tree that is being built, counted.                       *)
Built == Trees(Leaves \cup {"blank"})

(* The size of an item is one more than the sizes of its kids.             *)
LEMMA SizesAre ==
    ASSUME NEW item \in Built[Levels]
    PROVE  AllSizes[item] \in Nat /\ AllSizes[item] = 1 + Total(Map(AllSizes, item.kids))
<1> DEFINE T == Built[Levels]
           step == [i \in T |-> [s \in Seq(Nat) |-> 1 + Total(s)]]
           R(f) == [i \in T |-> 1 + Total(Map(f, i.kids))]
           g == AllSizes
<1>1. \A s \in Seq(Nat) : Total(s) \in Nat
  BY SumsDefined
<1>2. step \in [T -> [Seq(Nat) -> Nat]]
  BY <1>1
<1>3. \E f \in [T -> Nat] : \A i \in T : f[i] = step[i][Map(f, i.kids)]
  <2> DEFINE leaves == Leaves \cup {"blank"}
  <2>1. T = Trees(leaves)[Levels]
    BY DEF Built
  <2> HIDE DEF step, leaves, T
  <2>2. TreeSteps(Trees(leaves)[Levels], Nat, step)
    BY <1>2, <2>1 DEF TreeSteps
  <2>3. \E f : OfKids(Trees(leaves)[Levels], Nat, step, f)
    BY <2>2, TreeRecursion
  <2> QED
    BY <2>1, <2>3 DEF OfKids
<1>4. PICK f \in [T -> Nat] : \A i \in T : f[i] = step[i][Map(f, i.kids)]
  BY <1>3
<1>5. \A i \in T : f[i] = 1 + Total(Map(f, i.kids))
  <2> SUFFICES ASSUME NEW i \in T PROVE f[i] = 1 + Total(Map(f, i.kids))
    OBVIOUS
  <2>1. i.kids \in Seq(T)
    BY ItemParts DEF Built
  <2>2. \A x \in T : f[x] \in Nat
    OBVIOUS
  <2>3. Map(f, i.kids) \in Seq(Nat)
    <3> HIDE DEF T
    <3> QED
      BY <2>1, <2>2, MapType
  <2> QED
    BY <1>4, <2>3
<1>6. f = R(f)
  BY <1>5
<1>7. g = R(g)
  <2>1. g = CHOOSE h : h = R(h)
    BY DEF AllSizes, Map, Built
  <2> HIDE DEF g, R
  <2> QED
    BY <1>6, <2>1
<1> HIDE DEF g
<1>8. \A i \in T : g[i] = 1 + Total(Map(g, i.kids))
  BY <1>7
<1> DEFINE G == {i \in T : g[i] \in Nat}
<1>9. ASSUME NEW i \in T, \A k \in 1..Len(i.kids) : i.kids[k] \in G PROVE i \in G
  <2>1. i.kids \in Seq(T)
    BY ItemParts DEF Built
  <2>2. i.kids \in Seq(G)
    <3> HIDE DEF T, G
    <3> DEFINE kids == i.kids
    <3>1. kids \in Seq(T) /\ \A k \in 1..Len(kids) : kids[k] \in G
      BY <1>9, <2>1
    <3> HIDE DEF kids
    <3>2. kids \in Seq(G)
      BY <3>1
    <3> QED
      BY <3>2 DEF kids
  <2>3. \A x \in G : g[x] \in Nat
    OBVIOUS
  <2>4. Map(g, i.kids) \in Seq(Nat)
    <3> HIDE DEF G
    <3> QED
      BY <2>2, <2>3, MapType
  <2> QED
    BY <1>1, <1>8, <2>4
<1> HIDE DEF G
<1>10. \A i \in T : i \in G
  BY <1>9, TreeInduction DEF Built
<1> QED
  BY <1>8, <1>10 DEF G, g

Finished == Trees(Leaves)

(* An item is one level higher than its kids.                              *)
LEMMA ItemIn ==
    ASSUME NEW leaves, NEW d \in 1..Levels
    PROVE  /\ \A type \in leaves : Item(type, <<>>) \in Trees(leaves)[d]
           /\ \A e \in 0..(d - 1) : \A type \in Lists : \A kids \in Seq(Trees(leaves)[e]) :
                 Item(type, kids) \in Trees(leaves)[d]
<1> DEFINE T == Trees(leaves)
           c == d - 1
<1>1. T[d] = TreeStep(leaves, T[c]) /\ c \in 0..Levels /\ d \in Nat /\ Levels \in Nat
  BY TreesAre
<1>2. ASSUME NEW e \in 0..c PROVE Seq(T[e]) \subseteq Seq(T[c])
  <2>1. e \in 0..Levels /\ e <= c
    BY <1>1
  <2> HIDE DEF c
  <2> QED
    BY <1>1, <2>1, TreesGrow
<1> HIDE DEF T, c
<1>3. \A type \in leaves : Item(type, <<>>) \in T[d]
  BY <1>1 DEF TreeStep, Item
<1>4. \A type \in Lists : \A kids \in Seq(T[c]) : Item(type, kids) \in T[d]
  BY <1>1 DEF TreeStep, Item, Lists
<1> QED
  BY <1>2, <1>3, <1>4 DEF T, c

(* An item without kids has size 1.                                        *)
LEMMA SizeOfItem ==
    ASSUME NEW item \in Built[Levels]
    PROVE  /\ AllSizes[item] \in Nat
           /\ item.kids = <<>> => AllSizes[item] = 1
<1>1. AllSizes[item] \in Nat /\ AllSizes[item] = 1 + Total(Map(AllSizes, item.kids))
  BY SizesAre
<1>2. Total(Map(AllSizes, <<>>)) = 0
  <2> DEFINE m == Map(AllSizes, <<>>)
  <2>1. m = <<>>
    BY DEF Map
  <2>2. <<>> \in Seq(Nat) /\ Len(<<>>) = 0
    OBVIOUS
  <2>3. Sums(<<>>)[0] = 0
    BY <2>2, SumsDefined
  <2> QED
    BY <2>1, <2>2, <2>3 DEF Total
<1> QED
  BY <1>1, <1>2

(* What was built of a value, or of members, is counted.                   *)
ValueGrown(d, r) ==
    /\ r.item \in Built[d]
    /\ r.made = AllSizes[r.item]
    /\ r.end # 0 => r.item \in Finished[d]
MembersGrown(d, r) ==
    /\ r.item \in Seq(Built[d])
    /\ r.made = Total(Map(AllSizes, r.item))
    /\ r.end # 0 => r.item \in Seq(Finished[d])

(* The items of a level are items, and their sizes are numbers.            *)
LEMMA GrownTypes ==
    ASSUME NEW d \in 0..Levels
    PROVE  /\ Built[d] \subseteq Built[Levels] /\ Seq(Built[d]) \subseteq Seq(Built[Levels])
           /\ Finished[d] \subseteq Items /\ Finished[d] \subseteq Built[d]
           /\ \A s \in Seq(Built[d]) : Map(AllSizes, s) \in Seq(Nat) /\ Total(Map(AllSizes, s)) \in Nat
<1>1. Levels \in Nat /\ Levels \in 0..Levels /\ d <= Levels
  BY TreesAre
<1> DEFINE N == Levels
<1>2. N \in Nat /\ N \in 0..Levels /\ d <= N
  BY <1>1
<1> HIDE DEF N
<1>3. Built[d] \subseteq Built[N] /\ Seq(Built[d]) \subseteq Seq(Built[N]) /\ Finished[d] \subseteq Finished[N]
  BY <1>2, TreesGrow DEF Built, Finished
<1>4. Finished[d] \subseteq Built[d]
  <2> DEFINE I == {k \in 0..N : Finished[k] \subseteq Built[k]}
  <2>1. Finished[0] = {} /\ \A k \in 1..N : /\ Finished[k] = TreeStep(Leaves, Finished[k - 1])
                                            /\ Built[k] = TreeStep(Leaves \cup {"blank"}, Built[k - 1])
    BY TreesAre DEF Finished, Built, N
  <2>2. 0 \in I
    BY <1>2, <2>1
  <2>3. ASSUME NEW k \in 1..N, k - 1 \in I PROVE k \in I
    <3> DEFINE A == Finished[k - 1]
               B == Built[k - 1]
    <3>1. A \subseteq B
      BY <2>3
    <3>2. TreeStep(Leaves, A) \subseteq TreeStep(Leaves \cup {"blank"}, B)
      <4> HIDE DEF A, B
      <4>1. Seq(A) \subseteq Seq(B)
        BY <3>1
      <4> QED
        BY <4>1 DEF TreeStep
    <3>3. k \in 0..N
      BY <1>2
    <3> QED
      BY <2>1, <3>2, <3>3
  <2> HIDE DEF I
  <2>4. \A k \in 0..N : k \in I
    BY <1>2, <2>2, <2>3, UpTo
  <2> QED
    BY <1>2, <2>4 DEF I, N
<1>5. ASSUME NEW s \in Seq(Built[d])
      PROVE  Map(AllSizes, s) \in Seq(Nat) /\ Total(Map(AllSizes, s)) \in Nat
  <2>1. s \in Seq(Built[N])
    BY <1>3
  <2>2. \A x \in Built[N] : AllSizes[x] \in Nat
    BY SizesAre DEF N
  <2>3. Map(AllSizes, s) \in Seq(Nat)
    BY <2>1, <2>2, MapType
  <2> QED
    BY <2>3, SumsDefined
<1> QED
  BY <1>3, <1>4, <1>5 DEF N, Items, Finished

(* A kid in front of the rest of a list: the items made are those in the   *)
(* list.                                                                   *)
LEMMA MembersGrow ==
    ASSUME NEW d \in 0..Levels, NEW v, ValueGrown(d, v), NEW rest, MembersGrown(d, rest)
    PROVE  /\ <<v.item>> \in Seq(Built[d])
           /\ v.made = Total(Map(AllSizes, <<v.item>>))
           /\ v.end # 0 => <<v.item>> \in Seq(Finished[d])
           /\ <<v.item>> \o rest.item \in Seq(Built[d])
           /\ v.made + rest.made = Total(Map(AllSizes, <<v.item>> \o rest.item))
           /\ v.end # 0 /\ rest.end # 0 => <<v.item>> \o rest.item \in Seq(Finished[d])
<1> DEFINE x == v.item
           s == rest.item
           B == Built[d]
<1>1. x \in B /\ s \in Seq(B) /\ v.made = AllSizes[x] /\ rest.made = Total(Map(AllSizes, s))
  BY DEF ValueGrown, MembersGrown
<1>2. v.end # 0 => x \in Finished[d]
  BY DEF ValueGrown
<1>3. rest.end # 0 => s \in Seq(Finished[d])
  BY DEF MembersGrown
<1>4. AllSizes[x] \in Nat
  BY <1>1, GrownTypes, SizesAre
<1>5. Map(AllSizes, s) \in Seq(Nat)
  BY <1>1, GrownTypes
<1> HIDE DEF x, s, B
<1>6. Total(Map(AllSizes, <<x>>)) = AllSizes[x]
  BY <1>4, MapOne, TotalOne
<1>7. Map(AllSizes, <<x>> \o s) = <<AllSizes[x]>> \o Map(AllSizes, s) /\ <<x>> \o s \in Seq(B)
  <2> DEFINE f == AllSizes
  <2> HIDE DEF f
  <2>1. Map(f, <<x>> \o s) = <<f[x]>> \o Map(f, s)
    <3>1. x \in B /\ s \in Seq(B)
      BY <1>1
    <3> QED
      BY <3>1, MapCons
  <2>2. <<x>> \o s \in Seq(B)
    BY <1>1
  <2> QED
    BY <2>1, <2>2 DEF f
<1>8. Total(<<AllSizes[x]>> \o Map(AllSizes, s)) = AllSizes[x] + Total(Map(AllSizes, s))
  <2> DEFINE a == AllSizes[x]
             m == Map(AllSizes, s)
  <2>1. a \in Nat /\ m \in Seq(Nat)
    BY <1>4, <1>5
  <2> HIDE DEF a, m
  <2>2. Total(<<a>> \o m) = a + Total(m)
    BY <2>1, TotalCons
  <2> QED
    BY <2>2 DEF a, m
<1>9. v.end # 0 /\ rest.end # 0 => <<x>> \o s \in Seq(Finished[d])
  <2> DEFINE F == Finished[d]
  <2> HIDE DEF F
  <2>1. v.end # 0 /\ rest.end # 0 => x \in F /\ s \in Seq(F)
    BY <1>2, <1>3 DEF F
  <2>2. x \in F /\ s \in Seq(F) => <<x>> \o s \in Seq(F)
    OBVIOUS
  <2> QED
    BY <2>1, <2>2 DEF F
<1>10. v.end # 0 => <<x>> \in Seq(Finished[d])
  <2> DEFINE F == Finished[d]
  <2> HIDE DEF F
  <2>1. x \in F => <<x>> \in Seq(F)
    OBVIOUS
  <2> QED
    BY <1>2, <2>1 DEF F
<1>11. <<x>> \in Seq(B)
  BY <1>1
<1> QED
  BY <1>1, <1>10, <1>11, <1>6, <1>7, <1>8, <1>9 DEF x, s, B

(* A kid that no other follows: the items made are those in the list.      *)
LEMMA MembersStart ==
    ASSUME NEW d \in 0..Levels, NEW v, ValueGrown(d, v)
    PROVE  /\ <<v.item>> \in Seq(Built[d])
           /\ v.made = Total(Map(AllSizes, <<v.item>>))
           /\ v.end # 0 => <<v.item>> \in Seq(Finished[d])
<1> DEFINE rest == Result(0, 0, <<>>, 0)
<1>1. MembersGrown(d, rest)
  <2>1. <<>> \in Seq(Built[d]) /\ Map(AllSizes, <<>>) = <<>>
    BY DEF Map
  <2>2. Total(<<>>) = 0
    <3>1. <<>> \in Seq(Nat) /\ Len(<<>>) = 0
      OBVIOUS
    <3>2. Sums(<<>>)[0] = 0
      BY <3>1, SumsDefined
    <3> QED
      BY <3>1, <3>2 DEF Total
  <2> QED
    BY <2>1, <2>2 DEF MembersGrown, Result
<1> HIDE DEF rest
<1> QED
  BY <1>1, MembersGrow

(* What is grown at a level is grown at a higher one.                      *)
LEMMA GrownMore ==
    ASSUME NEW d \in 0..Levels, NEW e \in 0..Levels, d <= e, NEW r
    PROVE  (ValueGrown(d, r) => ValueGrown(e, r)) /\ (MembersGrown(d, r) => MembersGrown(e, r))
<1>1. /\ Built[d] \subseteq Built[e] /\ Seq(Built[d]) \subseteq Seq(Built[e])
      /\ Finished[d] \subseteq Finished[e] /\ Seq(Finished[d]) \subseteq Seq(Finished[e])
  BY TreesGrow DEF Built, Finished
<1> QED
  BY <1>1 DEF ValueGrown, MembersGrown

(* One item without kids is grown.                                         *)
LEMMA LeafGrown ==
    ASSUME NEW d \in 1..Levels, NEW type \in Leaves \cup {"blank"}, NEW r,
           r.item = Item(type, <<>>), r.made = 1, r.end # 0 => type # "blank"
    PROVE  ValueGrown(d, r)
<1> DEFINE x == Item(type, <<>>)
<1>1. x \in Built[d]
  BY ItemIn DEF Built
<1>2. type # "blank" => x \in Finished[d]
  BY ItemIn DEF Finished
<1>3. d \in 0..Levels
  BY TreesAre
<1>4. x \in Built[Levels] /\ x.kids = <<>>
  BY <1>1, <1>3, GrownTypes DEF Item
<1>5. AllSizes[x] = 1
  BY <1>4, SizeOfItem
<1> QED
  BY <1>1, <1>2, <1>5 DEF ValueGrown

(* A list with the kids of what was parsed of its members is grown.        *)
LEMMA ContainerGrown ==
    ASSUME NEW d \in 1..Levels, NEW e \in 0..(d - 1), NEW type \in Lists, NEW m, MembersGrown(e, m),
           NEW r, r.item = Item(type, m.item), r.made = m.made + 1, r.end = m.end
    PROVE  ValueGrown(d, r)
<1> DEFINE x == Item(type, m.item)
<1>1. e \in 0..Levels /\ d \in 0..Levels
  BY TreesAre
<1>2. m.item \in Seq(Built[e]) /\ m.made = Total(Map(AllSizes, m.item))
      /\ (m.end # 0 => m.item \in Seq(Finished[e]))
  BY DEF MembersGrown
<1>3. x \in Built[d]
  BY <1>2, ItemIn DEF Built
<1>4. m.end # 0 => x \in Finished[d]
  BY <1>2, ItemIn DEF Finished
<1>5. x \in Built[Levels] /\ x.kids = m.item
  BY <1>1, <1>3, GrownTypes DEF Item
<1>6. AllSizes[x] = 1 + m.made
  BY <1>2, <1>5, SizesAre
<1>7. m.made \in Nat
  BY <1>1, <1>2, GrownTypes
<1> QED
  BY <1>3, <1>4, <1>6, <1>7 DEF ValueGrown

(* An empty list of kids is grown.                                         *)
LEMMA NoMembersGrown ==
    ASSUME NEW e \in 0..Levels
    PROVE  MembersGrown(e, Result(1, 0, <<>>, 0))
<1>1. <<>> \in Seq(Built[e]) /\ <<>> \in Seq(Finished[e]) /\ Map(AllSizes, <<>>) = <<>>
  BY DEF Map
<1>2. Total(<<>>) = 0
  <2>1. <<>> \in Seq(Nat) /\ Len(<<>>) = 0
    OBVIOUS
  <2>2. Sums(<<>>)[0] = 0
    BY <2>1, SumsDefined
  <2> QED
    BY <2>1, <2>2 DEF Total
<1> QED
  BY <1>1, <1>2 DEF MembersGrown, Result

(* What is parsed from place i has at most as many levels as there are     *)
(* tokens from there on, and the end; and nothing allocated is missing.    *)
Height(t, i) == Len(t) + 2 - i
Grown(t, q) ==
    IF q[1] = "value" THEN ValueGrown(Height(t, q[2]), parse(t)[q])
    ELSE MembersGrown(Height(t, q[2]), parse(t)[q])

(* Whatever a place of a text is parsed to, the items made are those in    *)
(* the tree.                                                               *)
LEMMA ParseGrown ==
    ASSUME NEW t \in Texts, Len(t) <= MaxTokens
    PROVE  /\ \A i \in Places(t) : /\ ValueGrown(Height(t, i), parse(t)[<<"value", i>>])
                                   /\ \A type \in Lists : MembersGrown(Height(t, i), parse(t)[<<type, i>>])
           /\ \A i \in Places(t) : Height(t, i) \in 1..Levels
<1> DEFINE p == parse(t)
           n == Len(t)
           G == {q \in Queries(t) : Grown(t, q)}
           h(i) == Height(t, i)
<1>1. n \in Nat /\ (\A i \in Places(t) : i \in Int /\ 1 <= i /\ i <= n + 1) /\ Levels = MaxTokens + 1 /\ MaxTokens \in Nat
  BY PlaceType, MaxTokensAssumption DEF Levels
<1>2. \A i \in Places(t) : h(i) \in 1..Levels
  BY <1>1 DEF Height
<1>3. \A i, j \in Places(t) : /\ i <= j => h(j) <= h(i) /\ h(j) \in 0..Levels /\ h(i) \in 0..Levels
                              /\ i < j => h(j) \in 0..(h(i) - 1)
  BY <1>1 DEF Height
<1>4. \A i \in Places(t) : /\ <<"value", i>> \in G <=> ValueGrown(h(i), p[<<"value", i>>])
                           /\ \A type \in Lists : <<type, i>> \in G <=> MembersGrown(h(i), p[<<type, i>>])
  BY QueryType DEF Grown, Lists
<1> HIDE DEF G
<1>5. ASSUME NEW i \in Places(t), At(t, i) \notin {"lbrack", "lbrace"}
      PROVE  <<"value", i>> \in G
  <2> DEFINE r == p[<<"value", i>>]
  <2>1. \/ \E e \in {i + 1, n + 1}, type \in Leaves : r = Result(e, 0, Item(type, <<>>), 1)
        \/ r = Refused(i, Blank, 1)
    BY <1>5, ValueCases DEF Leaves
  <2> HIDE DEF p
  <2>2. h(i) \in 1..Levels
    BY <1>2
  <2>3. CASE r = Refused(i, Blank, 1)
    <3>1. r.item = Item("blank", <<>>) /\ r.made = 1 /\ r.end = 0
      BY <2>3 DEF Refused, Result, Blank
    <3> HIDE DEF h, r
    <3>2. ValueGrown(h(i), r)
      BY <2>2, <3>1, LeafGrown
    <3> QED
      BY <1>4, <3>2 DEF r
  <2>4. CASE \E e \in {i + 1, n + 1}, type \in Leaves : r = Result(e, 0, Item(type, <<>>), 1)
    <3>1. PICK e \in {i + 1, n + 1}, type \in Leaves : r = Result(e, 0, Item(type, <<>>), 1)
      BY <2>4
    <3>2. r.item = Item(type, <<>>) /\ r.made = 1
      BY <3>1 DEF Result
    <3> HIDE DEF h, r
    <3>3. ValueGrown(h(i), r)
      BY <2>2, <3>2, LeafGrown DEF Leaves, Values
    <3> QED
      BY <1>4, <3>3 DEF r
  <2> QED
    BY <2>1, <2>3, <2>4
<1>6. ASSUME NEW i \in Places(t), NEW type \in Lists,
             At(t, i) = Open(type), <<type, skip(t, i + 1)>> \in G
      PROVE  <<"value", i>> \in G
  <2> DEFINE r == p[<<"value", i>>]
             first == skip(t, i + 1)
             m == p[<<type, first>>]
  <2>1. /\ first \in Places(t) /\ first \in (i + 1)..(n + 1)
        /\ At(t, first) = Close(type) => r = Result(first + 1, 0, Item(type, <<>>), 1)
        /\ At(t, first) # Close(type) => r = Result(m.end, m.ep, Item(type, m.item), m.made + 1)
    BY <1>6, ValueCases
  <2> HIDE DEF p, first
  <2>9. i \in Int /\ first \in Int /\ n \in Int /\ i < first /\ first \in Places(t)
    <3>1. i \in Int /\ n \in Int
      BY <1>1
    <3> HIDE DEF n
    <3>2. first \in Int
      BY <2>1, <3>1
    <3> QED
      BY <2>1, <3>1, <3>2
  <2>2. h(i) \in 1..Levels /\ h(first) \in 0..(h(i) - 1) /\ h(first) \in 0..Levels
    <3>1. h(i) \in 1..Levels
      BY <1>2
    <3>2. h(first) \in 0..(h(i) - 1) /\ h(first) \in 0..Levels
      BY <1>3, <2>9
    <3> QED
      BY <3>1, <3>2
  <2>3. MembersGrown(h(first), m)
    BY <1>4, <1>6, <2>1 DEF first
  <2> HIDE DEF h
  <2>4. CASE At(t, first) = Close(type)
    <3> DEFINE z == Result(1, 0, <<>>, 0)
               y == Result(1, 0, Item(type, <<>>), 1)
    <3>1. MembersGrown(h(first), z)
      BY <2>2, NoMembersGrown
    <3>2. y.item = Item(type, z.item) /\ y.made = z.made + 1 /\ y.end = z.end /\ y.end # 0
      BY DEF Result
    <3>3. r.item = y.item /\ r.made = y.made
      BY <2>1, <2>4 DEF Result
    <3> HIDE DEF z, y, r
    <3>4. ValueGrown(h(i), y)
      BY <2>2, <3>1, <3>2, ContainerGrown
    <3>5. ValueGrown(h(i), r)
      BY <3>2, <3>3, <3>4 DEF ValueGrown
    <3> QED
      BY <1>4, <3>5 DEF r
  <2>5. CASE At(t, first) # Close(type)
    <3>1. r.item = Item(type, m.item) /\ r.made = m.made + 1 /\ r.end = m.end
      BY <2>1, <2>5 DEF Result
    <3> HIDE DEF r, m
    <3>2. ValueGrown(h(i), r)
      BY <2>2, <2>3, <3>1, ContainerGrown
    <3> QED
      BY <1>4, <3>2 DEF r
  <2> QED
    BY <2>4, <2>5
<1>7. ASSUME NEW i \in Places(t), NEW type \in Lists, NEW v, ValueGrown(h(i), v), NEW r,
             r.item = <<v.item>>, r.made = v.made, r.end # 0 => v.end # 0
      PROVE  MembersGrown(h(i), r)
  <2>1. h(i) \in 0..Levels
    BY <1>3, <1>1
  <2> HIDE DEF h
  <2> QED
    BY <1>7, <2>1, MembersStart DEF MembersGrown
<1>8. ASSUME NEW i \in Places(t), NEW type \in Lists, ~Reaches(t, i, type)
      PROVE  <<type, i>> \in G
  <2>1. PICK e \in i..(n + 1) : p[<<type, i>>] = Refused(e, <<Blank>>, 1)
    BY <1>8, MembersCases
  <2> DEFINE v == Refused(1, Blank, 1)
             r == p[<<type, i>>]
  <2>2. v.item = Item("blank", <<>>) /\ v.made = 1 /\ v.end = 0
    BY DEF Refused, Result, Blank
  <2>3. r.item = <<v.item>> /\ r.made = v.made /\ r.end = v.end
    BY <2>1 DEF Refused, Result
  <2> HIDE DEF v, r
  <2>4. ValueGrown(h(i), v)
    BY <1>2, <2>2, LeafGrown
  <2>5. MembersGrown(h(i), r)
    BY <1>7, <2>3, <2>4
  <2> QED
    BY <1>4, <2>5 DEF r
<1>9. ASSUME NEW i \in Places(t), NEW type \in Lists, Reaches(t, i, type),
             NEW j, j = ValuePlace(t, i, type), <<"value", j>> \in G,
             NEW v, v = p[<<"value", j>>], NEW a, a = skip(t, v.end),
             v.end # 0 /\ At(t, a) = "comma" => <<type, a + 1>> \in G
      PROVE  <<type, i>> \in G
  <2> DEFINE r == p[<<type, i>>]
             rest == p[<<type, a + 1>>]
  <2>1. /\ j \in i..(n + 1) /\ j \in Places(t)
        /\ v.end = 0 => r = Refused(v.ep, <<v.item>>, v.made)
        /\ v.end # 0 =>
              /\ a \in (i + 1)..(n + 1)
              /\ At(t, a) # "end" => a + 1 \in Places(t)
              /\ At(t, a) = "comma" =>
                    r = Result(rest.end, rest.ep, <<v.item>> \o rest.item, v.made + rest.made)
              /\ At(t, a) = Close(type) => r = Result(a + 1, 0, <<v.item>>, v.made)
              /\ At(t, a) \notin {"comma", Close(type)} => r = Refused(a, <<v.item>>, v.made)
    BY <1>9, MembersCases
  <2>2. ValueGrown(h(i), v)
    <3>1. ValueGrown(h(j), v)
      BY <1>4, <1>9, <2>1
    <3>2. i <= j
      BY <1>1, <2>1
    <3>3. h(j) \in 0..Levels /\ h(i) \in 0..Levels /\ h(j) <= h(i)
      <4> HIDE DEF h, p, n
      <4> QED
        BY <1>3, <2>1, <3>2
    <3> HIDE DEF h
    <3> QED
      BY <3>1, <3>3, GrownMore
  <2>3. v.end # 0 /\ At(t, a) = "comma" => MembersGrown(h(a + 1), rest) /\ a + 1 \in Places(t)
    BY <1>4, <1>9, <2>1
  <2> HIDE DEF p, rest, r
  <2>4. ASSUME v.end # 0, At(t, a) = "comma"
        PROVE  MembersGrown(h(i), r)
    <3>1. h(a + 1) \in 0..Levels /\ h(i) \in 0..Levels /\ h(a + 1) <= h(i)
      BY <1>1, <1>3, <2>1, <2>3, <2>4
    <3>2. MembersGrown(h(a + 1), rest)
      BY <2>3, <2>4
    <3> DEFINE g == h(a + 1)
    <3> HIDE DEF g
    <3>3. MembersGrown(h(i), rest)
      <4>1. g \in 0..Levels /\ h(i) \in 0..Levels /\ g <= h(i) /\ MembersGrown(g, rest)
        BY <3>1, <3>2 DEF g
      <4> HIDE DEF h
      <4> QED
        BY <4>1, GrownMore
    <3> HIDE DEF h
    <3>4. /\ <<v.item>> \o rest.item \in Seq(Built[h(i)])
          /\ v.made + rest.made = Total(Map(AllSizes, <<v.item>> \o rest.item))
          /\ v.end # 0 /\ rest.end # 0 => <<v.item>> \o rest.item \in Seq(Finished[h(i)])
      BY <2>2, <3>1, <3>3, MembersGrow
    <3>5. r.item = <<v.item>> \o rest.item /\ r.made = v.made + rest.made /\ r.end = rest.end
      BY <2>1, <2>4 DEF Result
    <3> QED
      BY <2>4, <3>4, <3>5 DEF MembersGrown
  <2>5. ASSUME ~(v.end # 0 /\ At(t, a) = "comma")
        PROVE  MembersGrown(h(i), r)
    <3>1. r.item = <<v.item>> /\ r.made = v.made /\ (r.end # 0 => v.end # 0)
      BY <2>1, <2>5 DEF Refused, Result
    <3> QED
      BY <1>7, <2>2, <3>1
  <2> QED
    BY <1>4, <2>4, <2>5 DEF r
<1>10. Kept(t, G)
  BY <1>5, <1>6, <1>8, <1>9 DEF Kept
<1>11. \A i \in Places(t) : \A kind \in {"value", "array", "object"} : <<kind, i>> \in G
  BY <1>10, ParseInduction
<1> QED
  BY <1>2, <1>4, <1>11 DEF Lists

(* When parsing fails, every item allocated is in the tree under the root. *)
THEOREM NothingLostTheorem == Spec => []NothingLostParsing
<1>1. TextType => NothingLostParsing
  <2> SUFFICES ASSUME TextType, NEW opt \in BOOLEAN
               PROVE  cJSON_ParseWithOpts(text, opt).made = Size(cJSON_ParseWithOpts(text, opt).item)
    BY DEF NothingLostParsing
  <2> DEFINE s == skip(text, 1)
             r == parse(text)[<<"value", s>>]
             e == skip(text, r.end)
             o == cJSON_ParseWithOpts(text, opt)
  <2>1. text \in Texts /\ Len(text) <= MaxTokens
    BY DEF TextType, Texts
  <2>2. s \in Places(text) /\ (o = r \/ o = Refused(e, r.item, r.made))
    BY <2>1, OptsCases
  <2>3. ValueGrown(Height(text, s), r)
    BY <2>1, <2>2, ParseGrown
  <2> HIDE DEF r, e, o, s
  <2>4. r.made = AllSizes[r.item]
    BY <2>3 DEF ValueGrown
  <2>5. o.item = r.item /\ o.made = r.made
    BY <2>2 DEF Refused, Result
  <2>6. o.made = Size(o.item)
    BY <2>4, <2>5 DEF Size
  <2> QED
    BY <2>6 DEF o
<1> QED
  BY <1>1, TextTypeKept, PTL

(* An item is a type and kids that are items, none for a leaf.             *)
LEMMA ItemsAre ==
    ASSUME NEW item \in Items
    PROVE  /\ item.type \in Leaves \cup Lists
           /\ item.type \in Leaves => item.kids = <<>>
           /\ item = [type |-> item.type, kids |-> item.kids]
           /\ item.kids \in Seq(Items) /\ Len(item.kids) \in Nat
           /\ \A i \in 1..Len(item.kids) : item.kids[i] \in Items
  BY ItemParts DEF Items, Lists, Leaves, Values

(* What an item inherits from its kids holds for all items.                *)
LEMMA ItemInduction ==
    ASSUME NEW G,
           \A item \in Items : (\A i \in 1..Len(item.kids) : item.kids[i] \in G) => item \in G
    PROVE  \A item \in Items : item \in G
<1> DEFINE leaves == Leaves
<1>1. Items = Trees(leaves)[Levels]
  BY DEF Items
<1> HIDE DEF leaves
<1> QED
  BY <1>1, TreeInduction

(* A function that is said of an item by what it says of its kids exists.  *)
LEMMA ItemRecursion ==
    ASSUME NEW V, NEW step, step \in [Items -> [Seq(V) -> V]]
    PROVE  \E f \in [Items -> V] : \A item \in Items : f[item] = step[item][Map(f, item.kids)]
<1> DEFINE leaves == Leaves
<1>1. Items = Trees(leaves)[Levels]
  BY DEF Items
<1> HIDE DEF leaves
<1>2. TreeSteps(Trees(leaves)[Levels], V, step)
  BY <1>1 DEF TreeSteps
<1>3. \E f : OfKids(Trees(leaves)[Levels], V, step, f)
  BY <1>2, TreeRecursion
<1> QED
  BY <1>1, <1>3 DEF OfKids

(* What is written for an item, in terms of its kids.                      *)
LEMMA WritesType ==
    ASSUME NEW item \in Items, NEW depth \in Nat, NEW fmt \in {0, 1}, NEW len \in Nat
    PROVE  Writes(item, depth, fmt, len) \in Nat
<1> DEFINE n == Len(item.kids)
<1>1. n \in Nat /\ item.type \in Leaves \cup Lists /\
      (item.type \in Leaves => n = 0)
  BY ItemsAre
<1>2. ValueLen \in Nat /\ StringLen \in Nat /\ Tabs(depth) \in Nat
  BY LeafAssumption DEF Tabs
<1> HIDE DEF n
<1>3. \A a, b \in Nat : a * b \in Nat
  OBVIOUS
<1>4. n > 0 => n - 1 \in Nat
  BY <1>1
<1>5. n > 0 => (n - 1) * (1 + fmt) \in Nat /\ n * (StringLen + 1) \in Nat /\ n * (depth + 3) \in Nat
  <2>1. 1 + fmt \in Nat /\ StringLen + 1 \in Nat /\ depth + 3 \in Nat
    BY <1>2
  <2> QED
    BY <1>1, <1>3, <1>4, <2>1
<1> DEFINE a == (n - 1) * (1 + fmt)
           b == n * (StringLen + 1)
           c == n * (depth + 3)
<1>6. Writes(item, depth, fmt, len) =
          CASE item.type \in Values -> ValueLen
            [] item.type = "string" -> StringLen
            [] item.type = "array" /\ n = 0 -> 2
            [] item.type = "array" /\ n > 0 -> 2 + len + a
            [] item.type = "object" /\ n = 0 -> IF fmt = 1 THEN 3 + Tabs(depth) ELSE 2
            [] item.type = "object" /\ n > 0 ->
                  2 + len + b + (n - 1) + IF fmt = 1 THEN 1 + c + depth ELSE 0
  BY DEF Writes, n
<1> HIDE DEF a, b, c
<1>7. n > 0 => a \in Nat /\ b \in Nat /\ c \in Nat
  BY <1>5 DEF a, b, c
<1> QED
  BY <1>1, <1>2, <1>4, <1>6, <1>7 DEF Leaves, Values, Lists

(* What is written for an item is a number, told by what its kids take.    *)
LEMMA WrittenIs ==
    ASSUME NEW fmt \in {0, 1}, NEW item \in Items, NEW depth \in Nat
    PROVE  /\ Written(item, depth, fmt) \in Nat
           /\ KidsLen(AllWritten(fmt), item, depth) \in Nat
           /\ Written(item, depth, fmt) =
                  Writes(item, depth, fmt, KidsLen(AllWritten(fmt), item, depth))
<1> DEFINE T == Items
           V == [Nat -> Nat]
           lens(s, d) == [i \in 1..Len(s) |-> s[i][d + 1]]
           step == [x \in T |-> [s \in Seq(V) |-> [d \in Nat |-> Writes(x, d, fmt, Total(lens(s, d)))]]]
           R(f) == [x \in T |-> [d \in Nat |-> Writes(x, d, fmt, KidsLen(f, x, d))]]
           g == AllWritten(fmt)
<1>1. \A s \in Seq(Nat) : Total(s) \in Nat
  BY SumsDefined
<1>2. ASSUME NEW s \in Seq(V), NEW d \in Nat PROVE Total(lens(s, d)) \in Nat
  <2>1. Len(s) \in Nat /\ \A i \in 1..Len(s) : s[i] \in V
    <3> HIDE DEF V
    <3> QED
      OBVIOUS
  <2>2. ASSUME NEW i \in 1..Len(s) PROVE s[i][d + 1] \in Nat
    <3>1. s[i] \in V
      <4> HIDE DEF V
      <4> QED
        BY <2>1
    <3> DEFINE k == s[i]
    <3>2. k \in [Nat -> Nat]
      BY <3>1 DEF V
    <3> HIDE DEF k, V
    <3>3. d + 1 \in Nat
      OBVIOUS
    <3>4. k[d + 1] \in Nat
      BY <3>2, <3>3
    <3> QED
      BY <3>4 DEF k
  <2>3. lens(s, d) \in Seq(Nat)
    BY <2>1, <2>2
  <2> QED
    BY <1>1, <2>3
<1>3. step \in [T -> [Seq(V) -> V]]
  <2> SUFFICES ASSUME NEW x \in T, NEW s \in Seq(V), NEW d \in Nat
               PROVE  Writes(x, d, fmt, Total(lens(s, d))) \in Nat
    BY DEF V
  <2>1. Total(lens(s, d)) \in Nat
    BY <1>2
  <2> HIDE DEF lens
  <2> QED
    BY <2>1, WritesType
<1>4. PICK f \in [T -> V] : \A x \in T : f[x] = step[x][Map(f, x.kids)]
  <2> HIDE DEF step, V
  <2> QED
    BY <1>3, ItemRecursion
<1>5. ASSUME NEW h, NEW x \in T, \A i \in 1..Len(x.kids) : h[x.kids[i]] \in V
      PROVE  Map(h, x.kids) \in Seq(V) /\ \A d \in Nat : Total(lens(Map(h, x.kids), d)) = KidsLen(h, x, d)
  <2>1. Len(x.kids) \in Nat
    BY ItemsAre
  <2> DEFINE kids == x.kids
  <2>2. Map(h, kids) = [i \in 1..Len(kids) |-> h[kids[i]]]
    BY DEF Map
  <2> HIDE DEF V
  <2>3. Map(h, kids) \in Seq(V) /\ Len(Map(h, kids)) = Len(kids)
    BY <2>1, <2>2, <1>5
  <2>4. ASSUME NEW d \in Nat
        PROVE  lens(Map(h, kids), d) = [i \in 1..Len(kids) |-> h[kids[i]][d + 1]]
    BY <2>2, <2>3
  <2> QED
    BY <2>3, <2>4 DEF KidsLen
<1>6. f = R(f)
  <2> SUFFICES ASSUME NEW x \in T PROVE f[x] = [d \in Nat |-> Writes(x, d, fmt, KidsLen(f, x, d))]
    BY <1>4
  <2>1. \A i \in 1..Len(x.kids) : f[x.kids[i]] \in V
    BY <1>4, ItemsAre
  <2>2. Map(f, x.kids) \in Seq(V) /\ \A d \in Nat : Total(lens(Map(f, x.kids), d)) = KidsLen(f, x, d)
    BY <1>5, <2>1
  <2> HIDE DEF V, lens
  <2> QED
    BY <1>4, <2>2
<1>7. g = R(g)
  <2>1. g = CHOOSE h : h = R(h)
    BY DEF AllWritten
  <2> HIDE DEF g, R
  <2> QED
    BY <1>6, <2>1
<1> HIDE DEF g
<1>8. \A x \in T : g[x] = [d \in Nat |-> Writes(x, d, fmt, KidsLen(g, x, d))]
  BY <1>7
<1> DEFINE G == {x \in T : g[x] \in V}
<1>9. ASSUME NEW x \in T, \A i \in 1..Len(x.kids) : x.kids[i] \in G
      PROVE  x \in G /\ \A d \in Nat : KidsLen(g, x, d) \in Nat
  <2>1. \A i \in 1..Len(x.kids) : g[x.kids[i]] \in V
    BY <1>9
  <2>2. Map(g, x.kids) \in Seq(V) /\ \A d \in Nat : Total(lens(Map(g, x.kids), d)) = KidsLen(g, x, d)
    BY <1>5, <2>1
  <2>3. \A d \in Nat : KidsLen(g, x, d) \in Nat
    <3> HIDE DEF V, lens
    <3> QED
      BY <1>2, <2>2
  <2>4. \A d \in Nat : Writes(x, d, fmt, KidsLen(g, x, d)) \in Nat
    BY <2>3, WritesType
  <2>5. g[x] \in V
    BY <1>8, <2>4
  <2> HIDE DEF V
  <2> QED
    BY <2>3, <2>5
<1> HIDE DEF G
<1>10. \A x \in T : x \in G
  BY <1>9, ItemInduction
<1>11. KidsLen(g, item, depth) \in Nat
  BY <1>9, <1>10, ItemsAre
<1>12. g[item] \in V
  BY <1>10 DEF G
<1> QED
  BY ZenonT(60), <1>8, <1>11, <1>12 DEF Written, g

(* What print_array and print_object allocate is more than they write.     *)
LEMMA AllocatedMore ==
    ASSUME NEW fmt \in {0, 1}, NEW item \in Items, NEW depth \in Nat
    PROVE  Written(item, depth, fmt) < Allocated(item, depth, fmt)
<1> DEFINE n == Len(item.kids)
           len == KidsLen(AllWritten(fmt), item, depth)
           w == Written(item, depth, fmt)
           m == Allocated(item, depth, fmt)
<1>1. /\ n \in Nat /\ len \in Nat /\ ValueLen \in Nat /\ ValueRoom \in Nat /\ StringLen \in Nat
      /\ ValueLen < ValueRoom
      /\ item.type \in Leaves \cup Lists
  BY ItemsAre, WrittenIs, LeafAssumption
<1>2. w = Writes(item, depth, fmt, len)
  BY WrittenIs
<1> DEFINE a == n * StringLen
           b == n * depth
<1>3. a \in Int /\ b \in Int /\ n * (StringLen + 1) = a + n /\ n * (depth + 3) = b + 3 * n
      /\ n * (StringLen + 2) = a + 2 * n /\ n * (StringLen + (2 + (2 + (depth + 1)))) = a + b + 5 * n
  <2>1. n \in Int /\ StringLen \in Int /\ depth \in Int
    BY <1>1
  <2> HIDE DEF n
  <2> QED
    BY <2>1
<1>4. CASE item.type \in Leaves
  BY <1>1, <1>2, <1>4 DEF Writes, Allocated, Leaves, Values
<1>5. CASE item.type = "array"
  <2>1. n = 0 => w = 2 /\ m = 3
    BY <1>2, <1>5 DEF Writes, Allocated
  <2>2. n > 0 => w = 2 + len + (n - 1) * (1 + fmt) /\ m = 5 + len + n * (2 + fmt)
    BY <1>1, <1>2, <1>5 DEF Writes, Allocated
  <2>3. CASE fmt = 0
    <3>1. n > 0 => w = 2 + len + (n - 1) /\ m = 5 + len + 2 * n
      BY <1>1, <2>2, <2>3
    <3> HIDE DEF n, len, w, m
    <3>2. w < m
      BY <1>1, <2>1, <3>1
    <3> QED
      BY <3>2 DEF w, m
  <2>4. CASE fmt = 1
    <3>1. n > 0 => w = 2 + len + 2 * (n - 1) /\ m = 5 + len + 3 * n
      BY <1>1, <2>2, <2>4
    <3> HIDE DEF n, len, w, m
    <3>2. w < m
      BY <1>1, <2>1, <3>1
    <3> QED
      BY <3>2 DEF w, m
  <2> QED
    BY <2>3, <2>4
<1>6. CASE item.type = "object"
  <2>1. n = 0 => /\ w = IF fmt = 1 THEN 3 + Tabs(depth) ELSE 2
                 /\ m = IF fmt = 1 THEN depth + 4 ELSE 3
    BY <1>2, <1>6 DEF Writes, Allocated
  <2>2. n > 0 => /\ w = 2 + len + n * (StringLen + 1) + (n - 1)
                           + IF fmt = 1 THEN 1 + n * (depth + 3) + depth ELSE 0
                 /\ m = 7 + (IF fmt = 1 THEN depth + 1 ELSE 0)
                           + len + n * (StringLen + RoomOfMember(depth + 1, fmt))
    BY SMTT(30), <1>1, <1>2, <1>6 DEF Writes, Allocated
  <2>3. RoomOfMember(depth + 1, fmt) = IF fmt = 1 THEN 2 + (2 + (depth + 1)) ELSE 2
    BY DEF RoomOfMember
  <2>4. Tabs(depth) <= depth /\ Tabs(depth) \in Nat
    BY DEF Tabs
  <2> HIDE DEF n, len, w, m, a, b
  <2>5. CASE fmt = 1
    <3>1. n > 0 => w = 2 + len + (a + n) + (n - 1) + (1 + (b + 3 * n) + depth)
      BY <1>3, <2>2, <2>5
    <3>2. n > 0 => m = 7 + (depth + 1) + len + (a + b + 5 * n)
      BY <1>3, <2>2, <2>3, <2>5
    <3>3. n = 0 => w < m
      BY <2>1, <2>4, <2>5
    <3>4. n > 0 => w < m
      BY <1>1, <1>3, <3>1, <3>2
    <3>5. w < m
      BY <1>1, <3>3, <3>4
    <3> QED
      BY <3>5 DEF w, m
  <2>6. CASE fmt = 0
    <3>1. n > 0 => w = 2 + len + (a + n) + (n - 1) + 0
      BY <1>3, <2>2, <2>6
    <3>2. n > 0 => m = 7 + 0 + len + (a + 2 * n)
      BY <1>3, <2>2, <2>3, <2>6
    <3>3. n = 0 => w < m
      BY <2>1, <2>6
    <3>4. n > 0 => w < m
      BY <1>1, <1>3, <3>1, <3>2
    <3>5. w < m
      BY <1>1, <3>3, <3>4
    <3> QED
      BY <3>5 DEF w, m
  <2> QED
    BY <2>5, <2>6
<1> QED
  BY <1>1, <1>4, <1>5, <1>6 DEF Leaves, Lists

(* What is inside an item is an item, at some depth.                       *)
LEMMA InsideType ==
    ASSUME NEW item \in Items, NEW depth \in Nat
    PROVE  Inside[item][depth] \subseteq Items \X Nat
<1> DEFINE T == Items
           V == [Nat -> SUBSET (Items \X Nat)]
           step == [x \in T |-> [s \in Seq(V) |-> [d \in Nat |->
                      {<<x, d>>} \cup UNION {s[i][d + 1] : i \in 1..Len(s)}]]]
           R(f) == [x \in T |-> [d \in Nat |->
                      {<<x, d>>} \cup UNION {f[x.kids[i]][d + 1] : i \in 1..Len(x.kids)}]]
           g == Inside
<1>1. ASSUME NEW x \in T, NEW s \in Seq(V), NEW d \in Nat
      PROVE  {<<x, d>>} \cup UNION {s[i][d + 1] : i \in 1..Len(s)} \subseteq Items \X Nat
  <2>1. ASSUME NEW i \in 1..Len(s) PROVE s[i][d + 1] \subseteq Items \X Nat
    <3>1. s[i] \in V
      <4> HIDE DEF V
      <4> QED
        OBVIOUS
    <3> QED
      BY <3>1
  <2> QED
    BY <2>1
<1>2. step \in [T -> [Seq(V) -> V]]
  BY <1>1
<1>3. PICK f \in [T -> V] : \A x \in T : f[x] = step[x][Map(f, x.kids)]
  <2> HIDE DEF step, V
  <2> QED
    BY <1>2, ItemRecursion
<1>4. ASSUME NEW h, NEW x \in T, \A i \in 1..Len(x.kids) : h[x.kids[i]] \in V
      PROVE  /\ Map(h, x.kids) \in Seq(V) /\ Len(Map(h, x.kids)) = Len(x.kids)
             /\ \A i \in 1..Len(x.kids) : Map(h, x.kids)[i] = h[x.kids[i]]
  <2>1. Len(x.kids) \in Nat
    BY ItemsAre
  <2> DEFINE kids == x.kids
  <2>2. Map(h, kids) = [i \in 1..Len(kids) |-> h[kids[i]]]
    BY DEF Map
  <2> HIDE DEF V
  <2> QED
    BY <2>1, <2>2, <1>4
<1>5. f = R(f)
  <2> SUFFICES ASSUME NEW x \in T
               PROVE  f[x] = [d \in Nat |->
                        {<<x, d>>} \cup UNION {f[x.kids[i]][d + 1] : i \in 1..Len(x.kids)}]
    BY <1>3
  <2>1. \A i \in 1..Len(x.kids) : f[x.kids[i]] \in V
    BY <1>3, ItemsAre
  <2> DEFINE s == Map(f, x.kids)
  <2>2. s \in Seq(V) /\ Len(s) = Len(x.kids) /\ \A i \in 1..Len(x.kids) : s[i] = f[x.kids[i]]
    BY <1>4, <2>1
  <2>3. f[x] = step[x][s]
    BY <1>3
  <2> HIDE DEF V, s
  <2>4. f[x] = [d \in Nat |-> {<<x, d>>} \cup UNION {s[i][d + 1] : i \in 1..Len(s)}]
    BY <2>2, <2>3
  <2>5. ASSUME NEW d \in Nat
        PROVE  {s[i][d + 1] : i \in 1..Len(s)} = {f[x.kids[i]][d + 1] : i \in 1..Len(x.kids)}
    BY <2>2
  <2>6. \A d \in Nat : {<<x, d>>} \cup UNION {s[i][d + 1] : i \in 1..Len(s)}
                        = {<<x, d>>} \cup UNION {f[x.kids[i]][d + 1] : i \in 1..Len(x.kids)}
    BY <2>5
  <2> QED
    BY <2>4, <2>6
<1>6. g = R(g)
  <2>1. g = CHOOSE h : h = R(h)
    BY DEF Inside
  <2> HIDE DEF g, R
  <2> QED
    BY <1>5, <2>1
<1> HIDE DEF g
<1>7. \A x \in T : g[x] = [d \in Nat |->
          {<<x, d>>} \cup UNION {g[x.kids[i]][d + 1] : i \in 1..Len(x.kids)}]
  BY <1>6
<1> DEFINE G == {x \in T : \A d \in Nat : g[x][d] \subseteq Items \X Nat}
<1>8. ASSUME NEW x \in T, \A i \in 1..Len(x.kids) : x.kids[i] \in G
      PROVE  x \in G
  <2> SUFFICES ASSUME NEW d \in Nat PROVE g[x][d] \subseteq Items \X Nat
    OBVIOUS
  <2>1. ASSUME NEW i \in 1..Len(x.kids) PROVE g[x.kids[i]][d + 1] \subseteq Items \X Nat
    <3>1. \A e \in Nat : g[x.kids[i]][e] \subseteq Items \X Nat
      BY <1>8
    <3> QED
      BY <3>1
  <2>2. g[x][d] = {<<x, d>>} \cup UNION {g[x.kids[i]][d + 1] : i \in 1..Len(x.kids)}
    BY <1>7
  <2> QED
    BY <2>1, <2>2
<1> HIDE DEF G
<1>9. \A x \in T : x \in G
  BY <1>8, ItemInduction
<1> QED
  BY <1>9 DEF G, g

(* What cJSON_Parse accepted is an item.                                   *)
LEMMA AcceptedItem ==
    ASSUME TextType, Accepted
    PROVE  Parse.item \in Items
<1> DEFINE s == skip(text, 1)
           r == parse(text)[<<"value", s>>]
<1>1. text \in Texts /\ Len(text) <= MaxTokens
  BY DEF TextType, Texts
<1>2. s \in Places(text) /\ Parse = r
  BY <1>1, OptsCases DEF Parse, cJSON_Parse
<1>3. ValueGrown(Height(text, s), r) /\ Height(text, s) \in 1..Levels
  BY <1>1, <1>2, ParseGrown
<1>4. r.item \in Finished[Height(text, s)]
  BY <1>2, <1>3 DEF ValueGrown, Accepted
<1> DEFINE h == Height(text, s)
<1>5. h \in 0..Levels /\ r.item \in Finished[h]
  BY <1>3, <1>4, TreesAre
<1> HIDE DEF h, r, s
<1> QED
  BY <1>2, <1>5, GrownTypes

(* cJSON_Print never writes past what it allocated, at any depth.          *)
THEOREM PrintFitsTheorem == Spec => []PrintFits
<1>1. TextType => PrintFits
  <2> SUFFICES ASSUME TextType, Accepted, NEW fmt \in {0, 1}, NEW depth \in {0, 1, 12},
                      NEW q \in Inside[Parse.item][depth]
               PROVE  Written(q[1], q[2], fmt) < Allocated(q[1], q[2], fmt)
    BY DEF PrintFits
  <2>1. Parse.item \in Items /\ depth \in Nat
    BY AcceptedItem
  <2>2. q \in Items \X Nat
    BY <2>1, InsideType
  <2> QED
    BY <2>2, AllocatedMore
<1> QED
  BY <1>1, TextTypeKept, PTL

(* s is what is left of t when it is cut off.                              *)
Begins(s, t) ==
    /\ s \in Texts /\ t \in Texts /\ Len(s) <= Len(t)
    /\ \A i \in 1..Len(s) : s[i] = t[i]

(* The places of a beginning are places of the text, with the same         *)
(* tokens.                                                                 *)
LEMMA BeginsPlaces ==
    ASSUME NEW s, NEW t, Begins(s, t)
    PROVE  /\ Len(s) \in Nat /\ Len(t) \in Nat /\ Len(s) <= Len(t)
           /\ \A i \in Places(s) : i \in Places(t) /\ i \in Nat /\ 1 <= i /\ i <= Len(s) + 1
           /\ \A i \in Int : 1 <= i /\ i <= Len(s) => i \in Places(s) /\ i \in Places(t) /\ i + 1 \in Places(s)
           /\ \A i \in Int : 1 <= i /\ i <= Len(s) => At(s, i) = At(t, i)
           /\ \A i \in Places(s) : At(s, i) # "end" => i <= Len(s)
<1>1. s \in Texts /\ t \in Texts /\ Len(s) <= Len(t) /\ \A i \in 1..Len(s) : s[i] = t[i]
  BY DEF Begins
<1>2. Len(s) \in Nat /\ Len(t) \in Nat
  BY <1>1, PlaceType
<1> QED
  BY <1>1, <1>2 DEF Places, At

(* Skipping inside a beginning is the same as in the text.                 *)
LEMMA BeginsSkip ==
    ASSUME NEW s, NEW t, Begins(s, t), NEW i \in Places(s), skip(s, i) <= Len(s)
    PROVE  skip(t, i) = skip(s, i) /\ At(t, skip(s, i)) = At(s, skip(s, i)) /\ i <= Len(s)
<1> DEFINE j == skip(s, i)
<1>1. s \in Texts /\ t \in Texts
  BY DEF Begins
<1>2. j \in i..(Len(s) + 1) /\ At(s, j) # "white" /\ \A k \in i..(j - 1) : At(s, k) = "white"
  BY <1>1, SkipStops
<1>3. i \in Int /\ 1 <= i /\ i \in Places(t) /\ Len(s) \in Nat /\ Len(t) \in Nat /\ Len(s) <= Len(t)
      /\ \A k \in Int : 1 <= k /\ k <= Len(s) => At(s, k) = At(t, k)
  BY BeginsPlaces
<1> HIDE DEF j
<1>4. j <= Len(s)
  BY DEF j
<1>5. j \in i..(Len(t) + 1) /\ j \in Int /\ 1 <= j
  BY <1>2, <1>3, <1>4
<1>6. At(t, j) = At(s, j)
  BY <1>3, <1>4, <1>5
<1>7. \A k \in i..(j - 1) : At(t, k) = "white"
  BY <1>2, <1>3, <1>4, <1>5
<1>8. skip(t, i) = j
  BY <1>1, <1>2, <1>3, <1>5, <1>6, <1>7, SkipIs
<1> QED
  BY <1>2, <1>3, <1>4, <1>5, <1>6, <1>8 DEF j

(* A member whose value is inside a beginning has it at the same place in  *)
(* the text.                                                               *)
LEMMA BeginsReaches ==
    ASSUME NEW s, NEW t, Begins(s, t), NEW i \in Places(s), NEW type \in Lists,
           Reaches(s, i, type), ValuePlace(s, i, type) <= Len(s)
    PROVE  Reaches(t, i, type) /\ ValuePlace(t, i, type) = ValuePlace(s, i, type)
<1>1. s \in Texts /\ t \in Texts
  BY DEF Begins
<1>2. i \in Int /\ 1 <= i /\ Len(s) \in Nat /\ i \in Places(t)
  BY BeginsPlaces
<1>3. CASE type = "array"
  BY <1>3, BeginsSkip DEF Reaches, ValuePlace
<1>4. CASE type # "array"
  <2> DEFINE k == skip(s, i)
             key == Key(s, i)
             c == Colon(s, i)
             j == skip(s, c + 1)
  <2>1. key # 0 /\ At(s, c) = "colon" /\ ValuePlace(s, i, type) = j /\ j <= Len(s)
    BY <1>4 DEF Reaches, ValuePlace
  <2>2. key \in (i + 1)..(Len(s) + 1) /\ c \in key..(Len(s) + 1)
    BY <1>1, <2>1, KeyPlace
  <2>3. key = CASE At(s, k) = "s" -> k + 1 [] At(s, k) = "u" -> Len(s) + 1 [] OTHER -> 0
    BY DEF Key, parse_string
  <2>4. c = skip(s, key)
    BY DEF Colon
  <2>5. k \in i..(Len(s) + 1)
    BY <1>1, SkipStops
  <2> HIDE DEF key, c, k
  <2>6. c \in Int /\ 1 <= c /\ c <= Len(s) + 1 /\ key \in Int /\ 1 <= key /\ key <= Len(s) + 1
    BY <1>2, <2>2
  <2>7. key \in Places(s) /\ c \in Places(s)
    BY <1>1, <2>6, PlaceType
  <2>8. c <= Len(s)
    BY <2>1, <2>7, BeginsPlaces
  <2>9. c + 1 \in Places(s) /\ c + 1 \in Places(t)
    BY <2>6, <2>8, BeginsPlaces
  <2>10. key <= Len(s)
    BY <1>2, <2>2, <2>6, <2>8
  <2>11. At(s, k) = "s" /\ key = k + 1
    BY <1>2, <2>1, <2>3, <2>10
  <2>12. k <= Len(s) /\ k \in Int
    BY <1>2, <2>5, <2>6, <2>10, <2>11
  <2>13. skip(t, i) = k /\ At(t, k) = "s"
    BY <2>11, <2>12, BeginsSkip DEF k
  <2>14. Key(t, i) = key
    BY <2>11, <2>13 DEF Key, parse_string
  <2>15. skip(t, key) = c /\ At(t, c) = "colon"
    BY <2>1, <2>4, <2>7, <2>8, BeginsSkip
  <2>16. Colon(t, i) = c
    BY <2>14, <2>15 DEF Colon
  <2>17. skip(t, c + 1) = j
    BY <2>1, <2>9, BeginsSkip
  <2>18. key # 0
    BY <2>1
  <2>19. Reaches(t, i, type)
    BY <2>14, <2>15, <2>16, <2>18 DEF Reaches
  <2>20. ValuePlace(t, i, type) = j
    BY <1>4, <2>16, <2>17 DEF ValuePlace
  <2> QED
    BY <2>1, <2>19, <2>20
<1> QED
  BY <1>3, <1>4

(* Where a literal, a number or a string ends.                             *)
LEMMA LeafEnds ==
    ASSUME NEW t \in Texts, NEW i \in Places(t)
    PROVE  /\ At(t, i) \in Values \cup {"s"} => parse(t)[<<"value", i>>].end = i + 1
           /\ At(t, i) = "u" => parse(t)[<<"value", i>>].end = Len(t) + 1
<1> DEFINE r == parse(t)[<<"value", i>>]
<1>1. /\ At(t, i) \in Values => r = Result(i + 1, 0, Item(At(t, i), <<>>), 1)
      /\ At(t, i) = "s" => r = Result(i + 1, 0, Item("string", <<>>), 1)
      /\ At(t, i) = "u" => r = Result(Len(t) + 1, 0, Item("string", <<>>), 1)
  BY ValueCases
<1> HIDE DEF r
<1>2. /\ At(t, i) \in Values \cup {"s"} => r.end = i + 1
      /\ At(t, i) = "u" => r.end = Len(t) + 1
  BY <1>1 DEF Result
<1> QED
  BY <1>2 DEF r

(* What is parsed of a text that was cut off ends where it ends in the     *)
(* whole, but for a string that is open.                                   *)
EndsSame(s, t, q) ==
    parse(s)[q].end # 0 =>
        parse(t)[q].end = parse(s)[q].end \/ (q[1] = "value" /\ At(s, q[2]) = "u")

(* A result that ends inside a beginning is the same in the text,          *)
(* whatever the kind.                                                      *)
LEMMA CutEnds ==
    ASSUME NEW s, NEW t, Begins(s, t)
    PROVE  \A i \in Places(s) : \A kind \in {"value", "array", "object"} : EndsSame(s, t, <<kind, i>>)
<1> DEFINE G == {q \in Queries(s) : EndsSame(s, t, q)}
           ps == parse(s)
           pt == parse(t)
           n == Len(s)
<1>0. s \in Texts /\ t \in Texts /\ n \in Nat
  BY BeginsPlaces DEF Begins
<1>1. ASSUME NEW i \in Places(s)
      PROVE  /\ <<"value", i>> \in G <=>
                  (ps[<<"value", i>>].end # 0 =>
                      pt[<<"value", i>>].end = ps[<<"value", i>>].end \/ At(s, i) = "u")
             /\ \A type \in Lists :
                  <<type, i>> \in G <=>
                  (ps[<<type, i>>].end # 0 => pt[<<type, i>>].end = ps[<<type, i>>].end)
  <2>1. \A k \in {"value", "array", "object"} : <<k, i>> \in Queries(s)
    BY <1>0, QueryType
  <2> HIDE DEF ps, pt
  <2> QED
    BY <2>1 DEF EndsSame, Lists, ps, pt
<1>2. \A i \in Places(s) : i \in Int /\ 1 <= i /\ i <= n + 1 /\ i \in Places(t)
  BY BeginsPlaces
<1>3. \A i \in Places(s) : At(s, i) # "end" => i <= n /\ At(t, i) = At(s, i)
  BY <1>0, <1>2, BeginsPlaces
<1> HIDE DEF G
<1>4. ASSUME NEW i \in Places(s), At(s, i) \notin {"lbrack", "lbrace"} PROVE <<"value", i>> \in G
  <2>1. At(s, i) \in Values \cup {"s", "u"} \/ ps[<<"value", i>>] = Refused(i, Blank, 1)
    BY <1>0, <1>4, ValueCases
  <2>2. i \in Places(t)
    BY <1>2
  <2>3. CASE At(s, i) \in Values \cup {"s"}
    <3>1. At(t, i) = At(s, i)
      BY <1>3, <2>3 DEF Values
    <3>2. ps[<<"value", i>>].end = i + 1
      BY <1>0, <2>3, LeafEnds
    <3>3. pt[<<"value", i>>].end = i + 1
      BY <1>0, <2>2, <2>3, <3>1, LeafEnds
    <3> QED
      BY <1>1, <3>2, <3>3
  <2>4. CASE At(s, i) = "u"
    BY <1>1, <2>4
  <2>5. CASE ps[<<"value", i>>] = Refused(i, Blank, 1)
    <3>1. ps[<<"value", i>>].end = 0
      BY <2>5 DEF Refused, Result
    <3> QED
      BY <1>1, <3>1
  <2> QED
    BY <2>1, <2>3, <2>4, <2>5
<1>5. ASSUME NEW i \in Places(s), NEW type \in Lists,
             At(s, i) = Open(type), <<type, skip(s, i + 1)>> \in G
      PROVE  <<"value", i>> \in G
  <2> DEFINE f == skip(s, i + 1)
             r == ps[<<"value", i>>]
             u == pt[<<"value", i>>]
             m == ps[<<type, f>>]
  <2>1. /\ f \in (i + 1)..(n + 1) /\ f \in Places(s) /\ i + 1 \in Places(s)
        /\ At(s, f) = Close(type) => r = Result(f + 1, 0, Item(type, <<>>), 1)
        /\ At(s, f) # Close(type) => r = Result(m.end, m.ep, Item(type, m.item), m.made + 1)
    BY <1>0, <1>5, ValueCases
  <2>2. At(t, i) = Open(type) /\ i \in Places(t)
    BY <1>2, <1>3, <1>5 DEF Open
  <2> SUFFICES ASSUME r.end # 0 PROVE u.end = r.end
    BY <1>1
  <2>3. f <= n
    <3>1. CASE At(s, f) = Close(type)
      BY <1>3, <2>1, <3>1 DEF Close
    <3>2. CASE At(s, f) # Close(type)
      <4>1. m.end # 0
        BY <2>1, <3>2 DEF Result
      <4>2. m.end \in EndOf(s, <<type, f>>)
        BY <1>0, <2>1, QueryType, ParseIs DEF Lists
      <4>3. m.end \in (f + 1)..(n + 1)
        BY <4>1, <4>2 DEF EndOf
      <4>4. f \in Int
        BY <1>2, <2>1
      <4> HIDE DEF m, f, n, r, u
      <4> QED
        BY <1>0, <4>3, <4>4
    <3> QED
      BY <3>1, <3>2
  <2>4. skip(t, i + 1) = f /\ At(t, f) = At(s, f)
    BY <2>1, <2>3, BeginsSkip
  <2>5. CASE At(s, f) = Close(type)
    <3>1. u = Result(f + 1, 0, Item(type, <<>>), 1)
      <4>1. At(t, f) = Close(type)
        BY <2>4, <2>5
      <4>2. At(t, skip(t, i + 1)) = Close(type) => u = Result(skip(t, i + 1) + 1, 0, Item(type, <<>>), 1)
        BY <1>0, <2>2, ValueCases
      <4> HIDE DEF u, f
      <4> QED
        BY <2>4, <4>1, <4>2
    <3>2. r.end = f + 1 /\ u.end = f + 1
      BY <2>1, <2>5, <3>1 DEF Result
    <3> QED
      BY <3>2
  <2>6. CASE At(s, f) # Close(type)
    <3> DEFINE w == pt[<<type, f>>]
    <3>1. u = Result(w.end, w.ep, Item(type, w.item), w.made + 1)
      BY <1>0, <2>2, <2>4, <2>6, ValueCases
    <3>2. r.end = m.end /\ u.end = w.end
      BY <2>1, <2>6, <3>1 DEF Result
    <3>3. m.end # 0 => w.end = m.end
      BY <1>1, <1>5, <2>1
    <3> HIDE DEF m, w, r, u
    <3>4. u.end = r.end
      BY <3>2, <3>3
    <3> QED
      BY <3>4
  <2> QED
    BY <2>5, <2>6
<1>6. ASSUME NEW i \in Places(s), NEW type \in Lists, ~Reaches(s, i, type) PROVE <<type, i>> \in G
  <2>1. PICK e \in i..(n + 1) : ps[<<type, i>>] = Refused(e, <<Blank>>, 1)
    BY <1>0, <1>6, MembersCases
  <2>2. ps[<<type, i>>].end = 0
    BY <2>1 DEF Refused, Result
  <2> QED
    BY <1>1, <2>2
<1>7. ASSUME NEW i \in Places(s), NEW type \in Lists, Reaches(s, i, type),
             NEW j, j = ValuePlace(s, i, type), <<"value", j>> \in G,
             NEW v, v = ps[<<"value", j>>], NEW a, a = skip(s, v.end),
             v.end # 0 /\ At(s, a) = "comma" => <<type, a + 1>> \in G
      PROVE  <<type, i>> \in G
  <2> DEFINE r == ps[<<type, i>>]
             u == pt[<<type, i>>]
             rest == ps[<<type, a + 1>>]
             x == pt[<<"value", j>>]
             after == pt[<<type, a + 1>>]
  <2>1. /\ j \in Places(s) /\ v.end \in {0} \cup (j + 1)..(n + 1)
        /\ v.end = 0 => r = Refused(v.ep, <<v.item>>, v.made)
        /\ v.end # 0 =>
              /\ v.end \in Places(s)
              /\ a \in v.end..(n + 1)
              /\ At(s, a) # "end" => a + 1 \in Places(s)
              /\ At(s, a) = "comma" =>
                    r = Result(rest.end, rest.ep, <<v.item>> \o rest.item, v.made + rest.made)
              /\ At(s, a) = Close(type) => r = Result(a + 1, 0, <<v.item>>, v.made)
              /\ At(s, a) \notin {"comma", Close(type)} => r = Refused(a, <<v.item>>, v.made)
    BY <1>0, <1>7, MembersCases
  <2> SUFFICES ASSUME r.end # 0 PROVE u.end = r.end
    BY <1>1
  <2>2. v.end # 0 /\ At(s, a) \in {"comma", Close(type)}
    BY <2>1 DEF Refused, Result
  <2>3. a \in Places(s) /\ a <= n /\ v.end <= n /\ j <= n
    <3>1. v.end \in Int /\ a \in Int /\ 1 <= a /\ a <= n + 1 /\ v.end <= a
      BY <1>0, <1>2, <2>1, <2>2
    <3>2. a \in Places(s)
      BY <1>0, <3>1, PlaceType
    <3>3. a <= n
      BY <1>3, <2>2, <3>2 DEF Close
    <3> HIDE DEF r, u, rest, x, after, n
    <3> QED
      BY <1>0, <1>2, <2>1, <2>2, <3>1, <3>2, <3>3
  <2>4. At(s, j) # "u"
    <3>1. At(s, j) = "u" => v.end = n + 1
      BY <1>0, <1>7, <2>1, LeafEnds
    <3> QED
      BY <1>0, <2>3, <3>1
  <2>5. x.end = v.end
    BY <1>1, <1>7, <2>1, <2>2, <2>4
  <2>6. Reaches(t, i, type) /\ ValuePlace(t, i, type) = j
    BY <1>7, <2>3, BeginsReaches
  <2>7. skip(t, x.end) = a /\ At(t, a) = At(s, a)
    BY <1>7, <2>1, <2>2, <2>3, <2>5, BeginsSkip
  <2>8. /\ At(t, a) = "comma" => u = Result(after.end, after.ep, <<x.item>> \o after.item, x.made + after.made)
        /\ At(t, a) = Close(type) => u = Result(a + 1, 0, <<x.item>>, x.made)
    <3>1. i \in Places(t) /\ x.end # 0
      BY <1>2, <2>2, <2>5
    <3> QED
      BY <1>0, <2>6, <2>7, <3>1, MembersCases
  <2>9. CASE At(s, a) = Close(type)
    <3>1. r.end = a + 1 /\ u.end = a + 1
      BY <2>1, <2>2, <2>7, <2>8, <2>9 DEF Result
    <3> QED
      BY <3>1
  <2>10. CASE At(s, a) = "comma"
    <3>1. r.end = rest.end /\ u.end = after.end
      BY <2>1, <2>2, <2>7, <2>8, <2>10 DEF Result
    <3>2. rest.end # 0 => after.end = rest.end
      BY <1>1, <1>7, <2>1, <2>2, <2>10
    <3> HIDE DEF r, u, rest, after
    <3>3. u.end = r.end
      BY <3>1, <3>2
    <3> QED
      BY <3>3
  <2> QED
    BY <2>2, <2>9, <2>10
<1>8. Kept(s, G)
  BY <1>4, <1>5, <1>6, <1>7 DEF Kept
<1>9. \A i \in Places(s) : \A kind \in {"value", "array", "object"} : <<kind, i>> \in G
  BY <1>0, <1>8, ParseInduction
<1> QED
  BY <1>9 DEF G

(* A list that was cut off is refused, wherever it was cut.                *)
THEOREM CutOffTheorem == Spec => []CutOffRefused
<1>1. TextType => CutOffRefused
  <2> SUFFICES ASSUME TextType, Accepted, Parse.item.type \in Lists, NEW k \in 0..(Parse.end - 2)
               PROVE  cJSON_Parse(SubSeq(text, 1, k)).end = 0
    BY DEF CutOffRefused, Lists
  <2> DEFINE t == text
             s == SubSeq(t, 1, k)
             i == skip(t, 1)
             r == parse(t)[<<"value", i>>]
             j == skip(s, 1)
             u == parse(s)[<<"value", j>>]
  <2>1. t \in Texts /\ t \in Seq(Tokens) /\ Len(t) \in Nat
    BY DEF TextType, Texts
  <2>2. i \in Places(t) /\ Parse = r /\ r.end \in {0} \cup (i + 1)..(Len(t) + 1)
    BY <2>1, OptsCases DEF Parse, cJSON_Parse
  <2>3. i \in Int /\ 1 <= i /\ i <= Len(t) + 1
    BY <2>1, <2>2, PlaceType
  <2>4. r.end # 0 /\ r.end \in (i + 1)..(Len(t) + 1)
    BY <2>2 DEF Accepted
  <2>5. k \in Nat /\ k <= Len(t) - 1 /\ k <= r.end - 2
    <3>1. k \in 0..(r.end - 2)
      BY <2>2
    <3> HIDE DEF r, i
    <3> QED
      BY <2>1, <2>3, <2>4, <3>1
  <2>6. Begins(s, t) /\ Len(s) = k
    <3> HIDE DEF r, i
    <3> QED
      BY <2>1, <2>5 DEF Begins, Texts
  <2>7. s \in Texts
    BY <2>6 DEF Begins
  <2>8. j \in Places(s) /\ cJSON_Parse(s) = u /\ 1 \in Places(s)
    <3>1. 1 \in Places(s)
      BY <2>7, PlaceType
    <3>2. skip(s, 1) \in Places(s) /\ cJSON_ParseWithOpts(s, FALSE) = parse(s)[<<"value", skip(s, 1)>>]
      <4> HIDE DEF s
      <4> QED
        BY <2>7, OptsCases
    <3> QED
      BY <3>1, <3>2 DEF cJSON_Parse
  <2> SUFFICES ASSUME u.end # 0 PROVE FALSE
    BY <2>8
  <2>9. u.end \in (j + 1)..(k + 1)
    <3>1. <<"value", j>> \in Queries(s) /\ EndOf(s, <<"value", j>>) = {0} \cup (j + 1)..(Len(s) + 1)
      BY <2>7, <2>8, QueryType
    <3> QED
      BY <2>6, <2>7, <3>1, ParseIs
  <2>10. j <= k /\ j \in Int
    <3>1. j \in Int
      BY <2>7, <2>8, PlaceType
    <3> HIDE DEF j, u
    <3> QED
      BY <2>5, <2>9, <3>1
  <2>11. i = j /\ At(t, i) = At(s, i)
    <3> DEFINE one == 1
    <3>1. one \in Places(s) /\ j = skip(s, one) /\ i = skip(t, one)
      BY <2>8
    <3> HIDE DEF one, j, i, s
    <3> QED
      BY <2>6, <2>10, <3>1, BeginsSkip
  <2>12. At(t, i) # "u"
    <3>1. ASSUME At(t, i) = "u" PROVE r.item.type = "string"
      <4>1. r = Result(Len(t) + 1, 0, Item("string", <<>>), 1)
        BY <2>1, <2>2, <3>1, ValueCases
      <4> QED
        BY <4>1 DEF Result, Item
    <3> QED
      BY <2>2, <3>1 DEF Lists
  <2>13. r.end = u.end
    <3>1. EndsSame(s, t, <<"value", j>>)
      BY <2>6, <2>8, CutEnds
    <3> HIDE DEF s, t, j
    <3> QED
      BY <2>11, <2>12, <3>1 DEF EndsSame
  <2> HIDE DEF r, u, i, j
  <2> QED
    BY <2>4, <2>5, <2>9, <2>10, <2>13, <2>3, <2>1
<1> QED
  BY <1>1, TextTypeKept, PTL

(* The grammar: what of the places behind a query is used.                 *)
Derived(ends, t, q) ==
    IF q[1] = "value" THEN Padded(ends, t, q[2]) ELSE Elements(ends, t, q[1], q[2])
BehindOf(t, q) == (q[2] + 1)..(Len(t) + 1)
BehindBelow(ends, t, q) ==
    \A u \in Queries(t) : Left(t, u) < Left(t, q) => ends[u] \subseteq BehindOf(t, u)

(* The places over white space are not before the one it starts at.        *)
LEMMA OverRange ==
    ASSUME NEW t \in Texts, NEW a \in Places(t)
    PROVE  /\ a \in Over(t, a)
           /\ \A b \in Over(t, a) : b \in a..(Len(t) + 1) /\ b \in Places(t) /\ b \in Int
<1>1. Len(t) \in Nat /\ a \in Nat /\ 1 <= a /\ a <= Len(t) + 1
  BY PlaceType
<1>2. a \in Over(t, a)
  BY <1>1 DEF Over
<1>3. ASSUME NEW b \in Over(t, a) PROVE b \in a..(Len(t) + 1) /\ b \in Places(t) /\ b \in Int
  <2>1. b \in a..(Len(t) + 1)
    BY DEF Over
  <2>2. b \in Int /\ 1 <= b /\ b <= Len(t) + 1
    BY <1>1, <2>1
  <2> QED
    BY <2>1, <2>2, PlaceType
<1> QED
  BY <1>2, <1>3

(* Behind a token there are places to ask for, with less of the text       *)
(* left.                                                                   *)
LEMMA QueriesBehind ==
    ASSUME NEW t \in Texts, NEW a \in Places(t)
    PROVE  /\ \A k \in Int : \A kind \in Lists : a <= k /\ k <= Len(t) =>
                 /\ <<kind, k + 1>> \in Queries(t) /\ <<"value", k + 1>> \in Queries(t)
                 /\ Left(t, <<kind, k + 1>>) < Left(t, <<"value", a>>)
                 /\ Left(t, <<kind, k + 1>>) < Left(t, <<kind, a>>)
                 /\ Left(t, <<"value", k + 1>>) < Left(t, <<kind, a>>)
           /\ \A kind \in Lists : /\ <<"value", a>> \in Queries(t) /\ <<kind, a>> \in Queries(t)
                                  /\ Left(t, <<"value", a>>) < Left(t, <<kind, a>>)
           /\ \A k \in {"value", "array", "object"} : BehindOf(t, <<k, a>>) = (a + 1)..(Len(t) + 1)
<1>1. Len(t) \in Nat /\ a \in Nat /\ 1 <= a /\ a <= Len(t) + 1
  BY PlaceType
<1>2. ASSUME NEW k \in Int, NEW kind \in Lists, a <= k, k <= Len(t)
      PROVE  /\ <<kind, k + 1>> \in Queries(t) /\ <<"value", k + 1>> \in Queries(t)
             /\ Left(t, <<kind, k + 1>>) < Left(t, <<"value", a>>)
             /\ Left(t, <<kind, k + 1>>) < Left(t, <<kind, a>>)
             /\ Left(t, <<"value", k + 1>>) < Left(t, <<kind, a>>)
  <2> DEFINE j == k + 1
  <2>1. j \in Int /\ 1 <= j /\ j <= Len(t) + 1
    BY <1>1, <1>2
  <2>2. j \in Places(t)
    BY <2>1, PlaceType
  <2>3. j >= a + 1
    BY <1>1, <1>2
  <2> HIDE DEF j
  <2>4. /\ <<kind, j>> \in Queries(t) /\ <<"value", j>> \in Queries(t)
        /\ Left(t, <<kind, j>>) = 2 * (Len(t) + 1 - j) + 1
        /\ Left(t, <<"value", j>>) = 2 * (Len(t) + 1 - j)
        /\ Left(t, <<"value", a>>) = 2 * (Len(t) + 1 - a)
        /\ Left(t, <<kind, a>>) = 2 * (Len(t) + 1 - a) + 1
    BY <2>2, QueryType DEF Lists
  <2>5. /\ <<kind, j>> \in Queries(t) /\ <<"value", j>> \in Queries(t)
        /\ Left(t, <<kind, j>>) < Left(t, <<"value", a>>)
        /\ Left(t, <<kind, j>>) < Left(t, <<kind, a>>)
        /\ Left(t, <<"value", j>>) < Left(t, <<kind, a>>)
    BY <1>1, <2>1, <2>3, <2>4
  <2> QED
    BY <2>5 DEF j
<1>3. ASSUME NEW kind \in Lists
      PROVE  /\ <<"value", a>> \in Queries(t) /\ <<kind, a>> \in Queries(t)
             /\ Left(t, <<"value", a>>) < Left(t, <<kind, a>>)
  <2>1. /\ <<"value", a>> \in Queries(t) /\ <<kind, a>> \in Queries(t)
        /\ Left(t, <<"value", a>>) = 2 * (Len(t) + 1 - a)
        /\ Left(t, <<kind, a>>) = 2 * (Len(t) + 1 - a) + 1
    BY QueryType DEF Lists
  <2> QED
    BY <1>1, <2>1
<1> QED
  BY <1>2, <1>3 DEF BehindOf

(* A place with a token has a next place.                                  *)
LEMMA InnerPlace ==
    ASSUME NEW t \in Texts, NEW a \in Places(t), NEW c \in a..(Len(t) + 1), At(t, c) # "end"
    PROVE  c \in Int /\ a <= c /\ 1 <= c /\ c <= Len(t) /\ c + 1 \in Places(t) /\ Len(t) \in Nat
<1>1. Len(t) \in Nat /\ a \in Nat /\ 1 <= a /\ a <= Len(t) + 1
  BY PlaceType
<1>2. c \in Int /\ a <= c /\ c <= Len(t) + 1
  BY <1>1
<1>3. c \in Places(t)
  BY <1>1, <1>2, PlaceType
<1>4. c \in 1..Len(t) /\ c + 1 \in Places(t)
  BY <1>3, PlaceEnd
<1> QED
  BY <1>1, <1>2, <1>4

(* A bare value ends behind its first token.                               *)
LEMMA BareRange ==
    ASSUME NEW t \in Texts, NEW ends, NEW c \in Places(t), BehindBelow(ends, t, <<"value", c>>)
    PROVE  Bare(ends, t, c) \subseteq (c + 1)..(Len(t) + 1)
<1>1. c \in c..(Len(t) + 1) /\ Len(t) \in Nat /\ c \in Int /\ 1 <= c
  BY PlaceType
<1>2. ASSUME NEW kind \in Lists, NEW close \in {"rbrack", "rbrace"}, At(t, c) # "end"
      PROVE  Bracketed(ends, t, c, kind, close) \subseteq (c + 1)..(Len(t) + 1)
  <2>1. c <= Len(t) /\ c + 1 \in Places(t)
    BY <1>1, <1>2, InnerPlace
  <2>2. Over(t, c + 1) \subseteq (c + 1)..(Len(t) + 1)
    BY <2>1, OverRange
  <2>3. ends[<<kind, c + 1>>] \subseteq (c + 1)..(Len(t) + 1)
    <3> DEFINE d == c + 1
    <3>1. <<kind, d>> \in Queries(t) /\ Left(t, <<kind, d>>) < Left(t, <<"value", c>>)
      <4>1. c \in Int /\ c <= c /\ c <= Len(t)
        BY <1>1, <2>1
      <4> QED
        BY <4>1, QueriesBehind
    <3>2. ends[<<kind, d>>] \subseteq BehindOf(t, <<kind, d>>)
      BY <3>1 DEF BehindBelow
    <3>3. BehindOf(t, <<kind, d>>) = (d + 1)..(Len(t) + 1)
      BY <2>1, QueriesBehind DEF Lists
    <3>4. d \in Int
      BY <1>1
    <3> HIDE DEF d
    <3>5. (d + 1)..(Len(t) + 1) \subseteq d..(Len(t) + 1)
      BY <1>1, <3>4
    <3> QED
      BY <3>2, <3>3, <3>5 DEF d
  <2>4. ASSUME NEW d \in (c + 1)..(Len(t) + 1), At(t, d) = close
        PROVE  d + 1 \in (c + 1)..(Len(t) + 1)
    <3>1. d \in Int /\ c + 1 <= d /\ d <= Len(t)
      BY <1>2, <2>1, <2>4, InnerPlace
    <3> QED
      BY <1>1, <3>1
  <2> QED
    BY <2>2, <2>3, <2>4 DEF Bracketed
<1>3. CASE At(t, c) \in Values \cup {"s"}
  <2>1. c <= Len(t)
    BY <1>1, <1>3, InnerPlace DEF Values
  <2>2. Bare(ends, t, c) = {c + 1}
    BY <1>3 DEF Bare, Values
  <2> QED
    BY <1>1, <2>1, <2>2
<1>4. CASE At(t, c) = "lbrack"
  BY <1>2, <1>4 DEF Bare, Lists
<1>5. CASE At(t, c) = "lbrace"
  BY <1>2, <1>5 DEF Bare, Lists
<1>6. CASE At(t, c) \notin Values \cup {"s", "lbrack", "lbrace"}
  BY <1>6 DEF Bare
<1> QED
  BY <1>3, <1>4, <1>5, <1>6

(* What has less left than a later place has less left than an earlier     *)
(* one.                                                                    *)
LEMMA LeftLess ==
    ASSUME NEW t \in Texts, NEW a \in Places(t), NEW c \in Places(t), a <= c, NEW u \in Queries(t),
           Left(t, u) < Left(t, <<"value", c>>)
    PROVE  Left(t, u) < Left(t, <<"value", a>>)
<1>1. Len(t) \in Nat /\ a \in Int /\ c \in Int /\ Left(t, u) \in Int
  BY PlaceType, QueryType
<1>2. Left(t, <<"value", a>>) = 2 * (Len(t) + 1 - a) /\ Left(t, <<"value", c>>) = 2 * (Len(t) + 1 - c)
  BY QueryType
<1> QED
  BY <1>1, <1>2

(* A value with white space around it ends behind its first token.         *)
LEMMA PaddedRange ==
    ASSUME NEW t \in Texts, NEW ends, NEW a \in Places(t), BehindBelow(ends, t, <<"value", a>>)
    PROVE  Padded(ends, t, a) \subseteq (a + 1)..(Len(t) + 1)
<1> SUFFICES ASSUME NEW c \in Over(t, a), NEW d \in Bare(ends, t, c), NEW b \in Over(t, d)
             PROVE  b \in (a + 1)..(Len(t) + 1)
  BY DEF Padded
<1>1. Len(t) \in Nat /\ a \in Int /\ 1 <= a
  BY PlaceType
<1>2. c \in a..(Len(t) + 1) /\ c \in Places(t) /\ c \in Int
  BY OverRange
<1>3. BehindBelow(ends, t, <<"value", c>>)
  BY <1>1, <1>2, LeftLess DEF BehindBelow
<1>4. d \in (c + 1)..(Len(t) + 1)
  BY <1>2, <1>3, BareRange
<1>5. d \in Int /\ 1 <= d /\ d <= Len(t) + 1
  BY <1>1, <1>2, <1>4
<1>6. d \in Places(t)
  BY <1>5, PlaceType
<1>7. b \in d..(Len(t) + 1)
  BY <1>6, OverRange
<1> QED
  BY <1>1, <1>2, <1>4, <1>5, <1>7

(* A colon of a member is in the text, with a place behind it.             *)
LEMMA ColonsRange ==
    ASSUME NEW t \in Texts, NEW a \in Places(t), NEW k \in Colons(t, a)
    PROVE  k \in Int /\ a <= k /\ k <= Len(t) /\ k + 1 \in Places(t)
<1>1. Len(t) \in Nat /\ a \in Int /\ 1 <= a
  BY PlaceType
<1>2. k \in a..Len(t)
  BY DEF Colons
<1>3. k \in Int /\ a <= k /\ k <= Len(t) /\ k + 1 \in Int /\ 1 <= k + 1 /\ k + 1 <= Len(t) + 1
  BY <1>1, <1>2
<1> QED
  BY <1>3, PlaceType

(* An element ends behind its first token.                                 *)
LEMMA PieceRange ==
    ASSUME NEW t \in Texts, NEW ends, NEW a \in Places(t), NEW kind \in Lists,
           BehindBelow(ends, t, <<kind, a>>)
    PROVE  Element(ends, t, kind, a) \subseteq (a + 1)..(Len(t) + 1)
<1>1. Len(t) \in Nat /\ a \in Int /\ 1 <= a
  BY PlaceType
<1>2. CASE kind = "array"
  <2>1. <<"value", a>> \in Queries(t) /\ Left(t, <<"value", a>>) < Left(t, <<kind, a>>)
    BY QueriesBehind
  <2>2. ends[<<"value", a>>] \subseteq BehindOf(t, <<"value", a>>)
    BY <2>1 DEF BehindBelow
  <2>3. BehindOf(t, <<"value", a>>) = (a + 1)..(Len(t) + 1)
    BY QueriesBehind
  <2> QED
    BY <1>2, <2>2, <2>3 DEF Element
<1>3. CASE kind = "object"
  <2> SUFFICES ASSUME NEW k \in Colons(t, a), NEW b \in ends[<<"value", k + 1>>]
               PROVE  b \in (a + 1)..(Len(t) + 1)
    BY <1>3 DEF Element
  <2> DEFINE j == k + 1
  <2>1. k \in Int /\ a <= k /\ k <= Len(t) /\ j \in Places(t)
    BY ColonsRange
  <2>2. <<"value", j>> \in Queries(t) /\ Left(t, <<"value", j>>) < Left(t, <<kind, a>>)
    BY <2>1, QueriesBehind
  <2>3. ends[<<"value", j>>] \subseteq BehindOf(t, <<"value", j>>)
    BY <2>2 DEF BehindBelow
  <2>4. BehindOf(t, <<"value", j>>) = (j + 1)..(Len(t) + 1)
    BY <2>1, QueriesBehind
  <2>5. b \in (j + 1)..(Len(t) + 1)
    BY <2>3, <2>4
  <2>6. j \in Int /\ j + 1 >= a + 1
    BY <1>1, <2>1
  <2> HIDE DEF j
  <2> QED
    BY <1>1, <2>5, <2>6
<1> QED
  BY <1>2, <1>3 DEF Lists

(* What the grammar derives ends behind its first token.                   *)
LEMMA DerivedRange ==
    ASSUME NEW t \in Texts, NEW ends, NEW q \in Queries(t), BehindBelow(ends, t, q)
    PROVE  Derived(ends, t, q) \subseteq BehindOf(t, q)
<1> DEFINE a == q[2]
           kind == q[1]
<1>1. a \in Places(t) /\ q = <<kind, a>> /\ (kind = "value" \/ kind \in Lists)
  BY QueryType
<1>2. BehindOf(t, q) = (a + 1)..(Len(t) + 1)
  BY DEF BehindOf
<1>3. Derived(ends, t, q) = IF kind = "value" THEN Padded(ends, t, a) ELSE Elements(ends, t, kind, a)
  BY DEF Derived
<1> HIDE DEF a, kind
<1>4. CASE kind = "value"
  BY <1>1, <1>2, <1>3, <1>4, PaddedRange
<1>5. CASE kind \in Lists
  <2> DEFINE piece == Element(ends, t, kind, a)
  <2>1. piece \subseteq (a + 1)..(Len(t) + 1)
    BY <1>1, <1>5, PieceRange
  <2>2. kind # "value"
    BY <1>5 DEF Lists
  <2>3. Len(t) \in Nat /\ a \in Int
    BY <1>1, PlaceType
  <2>4. ASSUME NEW k \in piece, At(t, k) = "comma", NEW b \in ends[<<kind, k + 1>>]
        PROVE  b \in (a + 1)..(Len(t) + 1)
    <3> DEFINE j == k + 1
    <3>1. k \in Int /\ a + 1 <= k /\ k <= Len(t) + 1
      <4> HIDE DEF piece
      <4> QED
        BY <2>1, <2>3
    <3>2. k \in a..(Len(t) + 1)
      BY <2>3, <3>1
    <3>3. k <= Len(t) /\ j \in Places(t)
      BY <1>1, <2>4, <3>2, InnerPlace
    <3>4. <<kind, j>> \in Queries(t) /\ Left(t, <<kind, j>>) < Left(t, <<kind, a>>)
      <4>1. k \in Int /\ a <= k /\ k <= Len(t)
        BY <2>3, <3>1, <3>3
      <4> QED
        BY <1>1, <1>5, <4>1, QueriesBehind
    <3>5. ends[<<kind, j>>] \subseteq BehindOf(t, <<kind, j>>)
      BY <1>1, <3>4 DEF BehindBelow
    <3>6. BehindOf(t, <<kind, j>>) = (j + 1)..(Len(t) + 1)
      BY <1>5, <3>3, QueriesBehind DEF Lists
    <3>7. b \in (j + 1)..(Len(t) + 1)
      BY <2>4, <3>5, <3>6
    <3>8. j \in Int /\ j + 1 >= a + 1
      BY <2>3, <3>1
    <3> HIDE DEF j
    <3> QED
      BY <2>3, <3>7, <3>8
  <2>5. Elements(ends, t, kind, a) =
            piece \cup UNION {ends[<<kind, k + 1>>] : k \in {k \in piece : At(t, k) = "comma"}}
    BY DEF Elements
  <2> HIDE DEF piece
  <2>6. Elements(ends, t, kind, a) \subseteq (a + 1)..(Len(t) + 1)
    BY <2>1, <2>4, <2>5
  <2> QED
    BY <1>2, <1>3, <2>2, <2>6
<1> QED
  BY <1>1, <1>4, <1>5

(* Functions that agree where less is left derive the same bare values.    *)
LEMMA BareAgrees ==
    ASSUME NEW t \in Texts, NEW f, NEW g, NEW c \in Places(t), AgreesBelow(f, g, t, <<"value", c>>)
    PROVE  Bare(g, t, c) = Bare(f, t, c)
<1>1. ASSUME NEW kind \in Lists, At(t, c) # "end" PROVE g[<<kind, c + 1>>] = f[<<kind, c + 1>>]
  <2>1. c \in Int /\ c <= c /\ c \in c..(Len(t) + 1) /\ Len(t) \in Nat
    BY PlaceType
  <2>2. c <= Len(t)
    BY <1>1, <2>1, InnerPlace
  <2>3. <<kind, c + 1>> \in Queries(t) /\ Left(t, <<kind, c + 1>>) < Left(t, <<"value", c>>)
    BY <2>1, <2>2, QueriesBehind
  <2> QED
    BY <2>3 DEF AgreesBelow
<1>2. CASE At(t, c) = "lbrack"
  BY <1>1, <1>2 DEF Bare, Bracketed, Lists
<1>3. CASE At(t, c) = "lbrace"
  BY <1>1, <1>3 DEF Bare, Bracketed, Lists
<1>4. CASE At(t, c) \notin {"lbrack", "lbrace"}
  BY <1>4 DEF Bare
<1> QED
  BY <1>2, <1>3, <1>4

(* Functions that agree where less is left derive the same.                *)
LEMMA DerivedAgrees ==
    ASSUME NEW t \in Texts, NEW f, NEW g, NEW q \in Queries(t),
           BehindBelow(f, t, q), AgreesBelow(f, g, t, q)
    PROVE  Derived(g, t, q) = Derived(f, t, q)
<1> DEFINE a == q[2]
           kind == q[1]
<1>1. a \in Places(t) /\ q = <<kind, a>> /\ (kind = "value" \/ kind \in Lists)
  BY QueryType
<1>2. /\ Derived(f, t, q) = IF kind = "value" THEN Padded(f, t, a) ELSE Elements(f, t, kind, a)
      /\ Derived(g, t, q) = IF kind = "value" THEN Padded(g, t, a) ELSE Elements(g, t, kind, a)
  BY DEF Derived
<1> HIDE DEF a, kind
<1>3. Len(t) \in Nat /\ a \in Int /\ 1 <= a
  BY <1>1, PlaceType
<1>4. CASE kind = "value"
  <2>1. ASSUME NEW c \in Over(t, a) PROVE Bare(g, t, c) = Bare(f, t, c)
    <3>1. c \in a..(Len(t) + 1) /\ c \in Places(t) /\ c \in Int
      BY <1>1, OverRange
    <3>2. AgreesBelow(f, g, t, <<"value", c>>)
      BY <1>1, <1>3, <1>4, <3>1, LeftLess DEF AgreesBelow
    <3> QED
      BY <3>1, <3>2, BareAgrees
  <2>2. {Bare(g, t, c) : c \in Over(t, a)} = {Bare(f, t, c) : c \in Over(t, a)}
    BY <2>1
  <2>3. Padded(g, t, a) = Padded(f, t, a)
    BY <2>2 DEF Padded
  <2> QED
    BY <1>2, <1>4, <2>3
<1>5. CASE kind \in Lists
  <2>1. Element(g, t, kind, a) = Element(f, t, kind, a)
    <3>1. CASE kind = "array"
      <4>1. <<"value", a>> \in Queries(t) /\ Left(t, <<"value", a>>) < Left(t, <<kind, a>>)
        BY <1>1, <1>5, QueriesBehind
      <4>2. g[<<"value", a>>] = f[<<"value", a>>]
        BY <1>1, <4>1 DEF AgreesBelow
      <4> QED
        BY <3>1, <4>2 DEF Element
    <3>2. CASE kind = "object"
      <4>1. ASSUME NEW k \in Colons(t, a) PROVE g[<<"value", k + 1>>] = f[<<"value", k + 1>>]
        <5>1. k \in Int /\ a <= k /\ k <= Len(t)
          BY <1>1, ColonsRange
        <5>2. <<"value", k + 1>> \in Queries(t) /\ Left(t, <<"value", k + 1>>) < Left(t, <<kind, a>>)
          BY <1>1, <1>5, <5>1, QueriesBehind
        <5> QED
          BY <1>1, <5>2 DEF AgreesBelow
      <4>2. {g[<<"value", k + 1>>] : k \in Colons(t, a)} = {f[<<"value", k + 1>>] : k \in Colons(t, a)}
        BY <4>1
      <4> QED
        BY <3>2, <4>2 DEF Element
    <3> QED
      BY <1>5, <3>1, <3>2 DEF Lists
  <2> DEFINE piece == Element(f, t, kind, a)
             commas == {k \in piece : At(t, k) = "comma"}
  <2>2. piece \subseteq (a + 1)..(Len(t) + 1)
    BY <1>1, <1>5, PieceRange
  <2>3. ASSUME NEW k \in commas PROVE g[<<kind, k + 1>>] = f[<<kind, k + 1>>]
    <3>1. k \in piece /\ At(t, k) = "comma"
      OBVIOUS
    <3> HIDE DEF piece, commas
    <3>2. k \in a..(Len(t) + 1)
      BY <1>3, <2>2, <3>1
    <3>3. k \in Int /\ a <= k /\ k <= Len(t)
      BY <1>1, <3>1, <3>2, InnerPlace
    <3>4. <<kind, k + 1>> \in Queries(t) /\ Left(t, <<kind, k + 1>>) < Left(t, <<kind, a>>)
      BY <1>1, <1>5, <3>3, QueriesBehind
    <3> QED
      BY <1>1, <3>4 DEF AgreesBelow
  <2>4. {g[<<kind, k + 1>>] : k \in commas} = {f[<<kind, k + 1>>] : k \in commas}
    BY <2>3
  <2>5. /\ Elements(f, t, kind, a) = piece \cup UNION {f[<<kind, k + 1>>] : k \in commas}
        /\ Elements(g, t, kind, a) = piece \cup UNION {g[<<kind, k + 1>>] : k \in commas}
    BY <2>1 DEF Elements
  <2>6. Elements(g, t, kind, a) = Elements(f, t, kind, a)
    BY <2>4, <2>5
  <2>7. kind # "value"
    BY <1>5 DEF Lists
  <2> QED
    BY <1>2, <2>6, <2>7
<1> QED
  BY <1>1, <1>4, <1>5

(* What is left of a text is at most twice its places and a bit.           *)
LEMMA LeftBound ==
    ASSUME NEW t \in Texts, NEW q \in Queries(t)
    PROVE  Left(t, q) \in Nat /\ Left(t, q) < 2 * (Len(t) + 1) + 2
<1>1. q[2] \in Places(t) /\ Left(t, q) \in Nat
  BY QueryType
<1>2. q[2] \in Nat /\ 1 <= q[2] /\ Len(t) \in Nat
  BY <1>1, PlaceType
<1>3. Left(t, q) <= 2 * (Len(t) + 1 - q[2]) + 1
  BY <1>2 DEF Left
<1> QED
  BY <1>1, <1>2, <1>3

(* The recursive function of Ends exists.                                  *)
LEMMA GrammarExists ==
    ASSUME NEW t \in Texts
    PROVE  \E e : e = [q \in Queries(t) |-> Derived(e, t, q)]
<1> DEFINE Okay(f, m) ==
               \A q \in Queries(t) :
                   Left(t, q) < m => f[q] = Derived(f, t, q) /\ f[q] \subseteq BehindOf(t, q)
           N == 2 * (Len(t) + 1) + 2
           I == {m \in 0..N : \E f : f = [q \in Queries(t) |-> f[q]] /\ Okay(f, m)}
<1>1. Len(t) \in Nat /\ N \in Nat
  BY PlaceType
<1>2. 0 \in I
  <2>1. \A q \in Queries(t) : ~(Left(t, q) < 0)
    <3>1. \A q \in Queries(t) : Left(t, q) \in Nat
      BY QueryType
    <3> QED
      BY <3>1
  <2> DEFINE f == [q \in Queries(t) |-> {}]
  <2>2. f = [q \in Queries(t) |-> f[q]]
    OBVIOUS
  <2>3. Okay(f, 0)
    BY <2>1
  <2> HIDE DEF f, Okay
  <2> QED
    BY <1>1, <2>2, <2>3
<1>3. ASSUME NEW m \in 1..N, m - 1 \in I PROVE m \in I
  <2>1. PICK f : Okay(f, m - 1)
    BY <1>3
  <2> DEFINE g == [q \in Queries(t) |-> Derived(f, t, q)]
  <2>2. ASSUME NEW q \in Queries(t), Left(t, q) < m
        PROVE  g[q] = Derived(g, t, q) /\ g[q] \subseteq BehindOf(t, q)
    <3>1. ASSUME NEW u \in Queries(t), Left(t, u) < Left(t, q)
          PROVE  g[u] = f[u] /\ f[u] \subseteq BehindOf(t, u)
      <4>1. Left(t, u) \in Nat /\ Left(t, q) \in Nat /\ m \in Nat
        BY QueryType
      <4>2. Left(t, u) < m - 1
        BY <2>2, <3>1, <4>1
      <4> QED
        BY <2>1, <4>2
    <3>2. g[q] = Derived(f, t, q)
      OBVIOUS
    <3> HIDE DEF g, Okay
    <3>3. BehindBelow(f, t, q) /\ AgreesBelow(f, g, t, q)
      BY <3>1 DEF BehindBelow, AgreesBelow
    <3>4. Derived(g, t, q) = Derived(f, t, q) /\ Derived(f, t, q) \subseteq BehindOf(t, q)
      BY <3>3, DerivedAgrees, DerivedRange
    <3> QED
      BY <3>2, <3>4
  <2>3. g = [q \in Queries(t) |-> g[q]]
    OBVIOUS
  <2> HIDE DEF g
  <2>4. Okay(g, m)
    BY <2>2
  <2> HIDE DEF Okay
  <2> QED
    BY <1>1, <2>3, <2>4
<1> HIDE DEF I
<1>4. N \in I
  <2>1. \A m \in 0..N : m \in I
    BY <1>1, <1>2, <1>3, UpTo
  <2> QED
    BY <1>1, <2>1
<1>5. PICK f : f = [q \in Queries(t) |-> f[q]] /\ Okay(f, N)
  BY <1>4 DEF I
<1>6. \A q \in Queries(t) : Left(t, q) < N
  BY LeftBound
<1>7. \A q \in Queries(t) : f[q] = Derived(f, t, q)
  BY <1>5, <1>6
<1>8. f = [q \in Queries(t) |-> Derived(f, t, q)]
  BY <1>5, <1>7
<1> QED
  BY <1>8

(* The grammar of a text.                                                  *)
LEMMA EndsAre ==
    ASSUME NEW t \in Texts, NEW q \in Queries(t)
    PROVE  Ends(t)[q] = Derived(Ends(t), t, q) /\ Ends(t)[q] \subseteq BehindOf(t, q)
<1> DEFINE p == Ends(t)
           R(f) == [u \in Queries(t) |-> Derived(f, t, u)]
<1>1. p = R(p)
  <2>1. p = CHOOSE f : f = R(f)
    BY DEF Ends, Derived
  <2>2. \E f : f = R(f)
    BY GrammarExists
  <2> HIDE DEF p, R
  <2> QED
    BY <2>1, <2>2
<1> HIDE DEF p
<1>2. \A u \in Queries(t) : p[u] = Derived(p, t, u)
  BY <1>1
<1> DEFINE G == {u \in Queries(t) : p[u] \subseteq BehindOf(t, u)}
<1>3. Inherits(t, G)
  <2> SUFFICES ASSUME NEW u \in Queries(t), \A w \in Queries(t) : Left(t, w) < Left(t, u) => w \in G
               PROVE  u \in G
    BY DEF Inherits
  <2>1. BehindBelow(p, t, u)
    BY DEF BehindBelow
  <2>2. Derived(p, t, u) \subseteq BehindOf(t, u)
    BY <2>1, DerivedRange
  <2> QED
    BY <1>2, <2>2
<1> HIDE DEF G
<1>4. \A u \in Queries(t) : u \in G
  BY <1>3, QueryInduction
<1> QED
  BY <1>2, <1>4 DEF G, p

(* Over white space skip is the first place with another token.            *)
LEMMA OverIs ==
    ASSUME NEW t \in Texts, NEW a \in Places(t)
    PROVE  /\ skip(t, a) \in Over(t, a) /\ skip(t, a) \in Places(t) /\ At(t, skip(t, a)) # "white"
           /\ \A b \in Over(t, a) : At(t, b) # "white" => b = skip(t, a)
<1>1. /\ skip(t, a) \in a..(Len(t) + 1) /\ At(t, skip(t, a)) # "white"
      /\ \A k \in a..(skip(t, a) - 1) : At(t, k) = "white"
  BY SkipStops
<1>2. skip(t, a) \in Over(t, a)
  BY <1>1 DEF Over
<1>3. ASSUME NEW b \in Over(t, a), At(t, b) # "white" PROVE b = skip(t, a)
  <2>1. b \in a..(Len(t) + 1) /\ \A k \in a..(b - 1) : At(t, k) = "white"
    BY DEF Over
  <2> QED
    BY <1>3, <2>1, SkipIs
<1> QED
  BY <1>1, <1>2, <1>3, SkipTwice

(* The ends of a value are those of the bare value behind the white        *)
(* space.                                                                  *)
LEMMA PaddedIs ==
    ASSUME NEW t \in Texts, NEW a \in Places(t)
    PROVE  \A b : b \in Ends(t)[<<"value", a>>] <=>
                      \E d \in Bare(Ends(t), t, skip(t, a)) : b \in Over(t, d)
<1> DEFINE E == Ends(t)
<1>1. E[<<"value", a>>] = Padded(E, t, a)
  <2>1. <<"value", a>> \in Queries(t)
    BY QueryType
  <2> QED
    BY <2>1, EndsAre DEF Derived
<1> HIDE DEF E
<1>2. \A c : At(t, c) = "white" => Bare(E, t, c) = {}
  BY DEF Bare, Values
<1>3. skip(t, a) \in Over(t, a) /\ \A c \in Over(t, a) : Bare(E, t, c) # {} => c = skip(t, a)
  BY <1>2, OverIs
<1>4. UNION {Bare(E, t, c) : c \in Over(t, a)} = Bare(E, t, skip(t, a))
  BY <1>3
<1>5. Padded(E, t, a) = UNION {Over(t, d) : d \in Bare(E, t, skip(t, a))}
  BY <1>4 DEF Padded
<1> QED
  BY <1>1, <1>5 DEF E

(* The colon of a member is the one parse_object finds, if it finds one.   *)
LEMMA ColonsAre ==
    ASSUME NEW t \in Texts, NEW i \in Places(t)
    PROVE  /\ Reaches(t, i, "object") =>
                  Colons(t, i) = {Colon(t, i)} /\ Colon(t, i) + 1 \in Places(t)
           /\ ~Reaches(t, i, "object") => Colons(t, i) = {}
<1> DEFINE s == skip(t, i)
           n == Len(t)
<1>1. n \in Nat /\ i \in Int /\ 1 <= i
  BY PlaceType
<1>2. s \in Over(t, i) /\ s \in Places(t) /\ s \in i..(n + 1)
  BY OverIs, SkipStops
<1>3. Reaches(t, i, "object") <=> (Key(t, i) # 0 /\ At(t, Colon(t, i)) = "colon")
  BY DEF Reaches
<1>4. Key(t, i) = CASE At(t, s) = "s" -> s + 1 [] At(t, s) = "u" -> n + 1 [] OTHER -> 0
  BY DEF Key, parse_string
<1>5. Colon(t, i) = skip(t, Key(t, i))
  BY DEF Colon
<1> HIDE DEF s, n
<1>6. s \in Int /\ 1 <= s /\ i <= s
  BY <1>1, <1>2
<1>7. ASSUME NEW k \in Colons(t, i)
      PROVE  At(t, s) = "s" /\ k = Colon(t, i) /\ Reaches(t, i, "object")
  <2>1. PICK c \in Over(t, i) : At(t, c) = "s" /\ k \in Over(t, c + 1) /\ At(t, k) = "colon"
    BY DEF Colons
  <2>2. c = s
    BY <2>1, OverIs DEF s
  <2>3. s + 1 \in Places(t)
    BY <1>2, <2>1, <2>2, PlaceEnd
  <2>4. k = skip(t, s + 1)
    BY <2>1, <2>2, <2>3, OverIs
  <2>5. Key(t, i) = s + 1 /\ Key(t, i) # 0
    BY <1>4, <1>6, <2>1, <2>2
  <2>6. k = Colon(t, i)
    BY <1>5, <2>4, <2>5
  <2> QED
    BY <1>3, <2>1, <2>2, <2>5, <2>6
<1>8. ASSUME Reaches(t, i, "object") PROVE Colon(t, i) \in Colons(t, i)
  <2> DEFINE c == Colon(t, i)
  <2>1. Key(t, i) # 0 /\ At(t, c) = "colon"
    BY <1>3, <1>8
  <2>2. Key(t, i) \in (i + 1)..(n + 1) /\ c \in Key(t, i)..(n + 1)
    BY <2>1, KeyPlace DEF n
  <2>3. c \in Int /\ i <= c /\ 1 <= c /\ c <= n + 1
    BY <1>1, <2>2
  <2>4. c \in Places(t)
    BY <2>3, PlaceType DEF n
  <2>5. c \in 1..n
    BY <2>1, <2>4, PlaceEnd DEF n
  <2> HIDE DEF c
  <2>6. c \in i..n
    BY <1>1, <2>3, <2>5
  <2>7. Key(t, i) # n + 1
    BY <1>1, <2>2, <2>3, <2>5
  <2>8. At(t, s) = "s" /\ Key(t, i) = s + 1
    BY <1>4, <2>1, <2>7
  <2>9. s + 1 \in Places(t)
    BY <1>2, <2>8, PlaceEnd
  <2>10. c \in Over(t, s + 1)
    BY <1>5, <2>8, <2>9, OverIs DEF c
  <2>11. c \in Colons(t, i)
    BY <1>2, <2>1, <2>6, <2>8, <2>10 DEF Colons, n
  <2> QED
    BY <2>11 DEF c
<1>9. ASSUME Reaches(t, i, "object") PROVE Colon(t, i) + 1 \in Places(t)
  BY <1>8, <1>9, ColonsRange
<1> QED
  BY <1>7, <1>8, <1>9

(* One element or member, and where it begins, as the parser has it.       *)
LEMMA PieceIs ==
    ASSUME NEW t \in Texts, NEW i \in Places(t), NEW type \in Lists
    PROVE  \A b : b \in Element(Ends(t), t, type, i) <=>
                      /\ Reaches(t, i, type)
                      /\ \E d \in Bare(Ends(t), t, ValuePlace(t, i, type)) : b \in Over(t, d)
<1> DEFINE E == Ends(t)
<1>1. CASE type = "array"
  <2>1. Element(E, t, type, i) = E[<<"value", i>>]
    BY <1>1 DEF Element
  <2>2. Reaches(t, i, type) /\ ValuePlace(t, i, type) = skip(t, i)
    BY <1>1 DEF Reaches, ValuePlace
  <2>3. \A b : b \in E[<<"value", i>>] <=> \E d \in Bare(E, t, skip(t, i)) : b \in Over(t, d)
    BY PaddedIs
  <2> HIDE DEF E
  <2> QED
    BY <2>1, <2>2, <2>3 DEF E
<1>2. CASE type = "object"
  <2> DEFINE c == Colon(t, i)
  <2>1. Element(E, t, type, i) = UNION {E[<<"value", k + 1>>] : k \in Colons(t, i)}
    BY <1>2 DEF Element
  <2>2. CASE Reaches(t, i, type)
    <3>1. Colons(t, i) = {c} /\ c + 1 \in Places(t)
      BY <1>2, <2>2, ColonsAre
    <3>2. ValuePlace(t, i, type) = skip(t, c + 1)
      BY <1>2 DEF ValuePlace
    <3>3. \A b : b \in E[<<"value", c + 1>>] <=> \E d \in Bare(E, t, skip(t, c + 1)) : b \in Over(t, d)
      BY <3>1, PaddedIs
    <3> HIDE DEF E, c
    <3>4. Element(E, t, type, i) = E[<<"value", c + 1>>]
      BY <2>1, <3>1
    <3> QED
      BY <2>2, <3>2, <3>3, <3>4 DEF E
  <2>3. CASE ~Reaches(t, i, type)
    <3>1. Colons(t, i) = {}
      BY <1>2, <2>3, ColonsAre
    <3> HIDE DEF E
    <3> QED
      BY <2>1, <2>3, <3>1 DEF E
  <2> QED
    BY <2>2, <2>3
<1> QED
  BY <1>1, <1>2 DEF Lists

(* The ends of a list are those of its elements, white space in front or   *)
(* not.                                                                    *)
LEMMA PiecesAre ==
    ASSUME NEW t \in Texts, NEW i \in Places(t), NEW type \in Lists
    PROVE  /\ Ends(t)[<<type, i>>] = Elements(Ends(t), t, type, i)
           /\ Ends(t)[<<type, i>>] \subseteq Places(t)
           /\ Ends(t)[<<type, i>>] = Ends(t)[<<type, skip(t, i)>>]
<1> DEFINE E == Ends(t)
           s == skip(t, i)
<1>1. s \in Places(t) /\ skip(t, s) = s
  BY SkipTwice
<1>2. ASSUME NEW a \in Places(t)
      PROVE  E[<<type, a>>] = Elements(E, t, type, a) /\ E[<<type, a>>] \subseteq BehindOf(t, <<type, a>>)
  <2>1. <<type, a>> \in Queries(t) /\ type # "value"
    BY QueryType DEF Lists
  <2> QED
    BY <2>1, EndsAre DEF Derived
<1>3. E[<<type, i>>] \subseteq Places(t)
  <2>1. Len(t) \in Nat /\ i \in Int /\ 1 <= i
    BY PlaceType
  <2>2. (i + 1)..(Len(t) + 1) \subseteq Places(t)
    BY <2>1 DEF Places
  <2> QED
    BY <1>2, <2>2 DEF BehindOf
<1>4. Element(E, t, type, i) = Element(E, t, type, s)
  <2>1. Key(t, s) = Key(t, i)
    BY <1>1 DEF Key
  <2>2. Colon(t, s) = Colon(t, i)
    BY <2>1 DEF Colon
  <2>3. (Reaches(t, s, type) <=> Reaches(t, i, type)) /\ ValuePlace(t, s, type) = ValuePlace(t, i, type)
    BY <1>1, <2>1, <2>2 DEF Reaches, ValuePlace
  <2> DEFINE j == ValuePlace(t, i, type)
             A == Element(E, t, type, i)
             B == Element(E, t, type, s)
  <2>4. \A b : b \in A <=> (Reaches(t, i, type) /\ \E d \in Bare(E, t, j) : b \in Over(t, d))
    BY PieceIs
  <2>5. \A b : b \in B <=> (Reaches(t, i, type) /\ \E d \in Bare(E, t, j) : b \in Over(t, d))
    BY <1>1, <2>3, PieceIs
  <2> HIDE DEF A, B
  <2>6. A = B
    BY <2>4, <2>5
  <2> QED
    BY <2>6 DEF A, B
<1>5. Elements(E, t, type, i) = Elements(E, t, type, s)
  BY <1>4 DEF Elements
<1> QED
  BY <1>1, <1>2, <1>3, <1>5

(* The parser and the grammar agree on where a value ends, and on which    *)
(* bracket closes a list.                                                  *)
SameValue(t, i) ==
    \A x : x \in Bare(Ends(t), t, i) <=>
               (x = parse(t)[<<"value", i>>].end /\ x # 0 /\ At(t, i) # "u")
SameList(t, i, type) ==
    \A d \in Places(t) :
        (d \in Ends(t)[<<type, i>>] /\ At(t, d) = Close(type)) <=> parse(t)[<<type, i>>].end = d + 1
Same(t, q) == IF q[1] = "value" THEN SameValue(t, q[2]) ELSE SameList(t, q[2], q[1])

(* Anything but a list: the parser ends where the grammar does.            *)
LEMMA LeafSame ==
    ASSUME NEW t \in Texts, NEW i \in Places(t), At(t, i) \notin {"lbrack", "lbrace"}
    PROVE  SameValue(t, i)
<1> DEFINE r == parse(t)[<<"value", i>>]
<1>1. i \in Nat /\ 1 <= i
  BY PlaceType
<1>2. CASE At(t, i) \in Values \cup {"s"}
  <2>1. r.end = i + 1
    BY <1>2, LeafEnds
  <2>2. Bare(Ends(t), t, i) = {i + 1}
    BY <1>2 DEF Bare
  <2> HIDE DEF r
  <2>3. i + 1 # 0 /\ At(t, i) # "u"
    BY <1>1, <1>2 DEF Values
  <2> QED
    BY <2>1, <2>2, <2>3 DEF SameValue, r
<1>3. CASE At(t, i) = "u"
  BY <1>3 DEF SameValue, Bare, Values
<1>4. CASE At(t, i) \notin Values \cup {"s", "u", "lbrack", "lbrace"}
  <2>1. r = Refused(i, Blank, 1)
    BY <1>4, ValueCases
  <2>2. r.end = 0
    BY <2>1 DEF Refused, Result
  <2>3. Bare(Ends(t), t, i) = {}
    BY <1>4 DEF Bare
  <2> HIDE DEF r
  <2> QED
    BY <2>2, <2>3 DEF SameValue, r
<1> QED
  BY <1>2, <1>3, <1>4

(* A list in brackets: the parser ends where the grammar does.             *)
LEMMA ContainerSame ==
    ASSUME NEW t \in Texts, NEW i \in Places(t), NEW type \in Lists, At(t, i) = Open(type),
           SameList(t, skip(t, i + 1), type)
    PROVE  SameValue(t, i)
<1> DEFINE E == Ends(t)
           f == skip(t, i + 1)
           close == Close(type)
           r == parse(t)[<<"value", i>>]
           m == parse(t)[<<type, f>>]
<1>1. /\ f \in Places(t) /\ i + 1 \in Places(t)
      /\ At(t, f) = close => r = Result(f + 1, 0, Item(type, <<>>), 1)
      /\ At(t, f) # close => r = Result(m.end, m.ep, Item(type, m.item), m.made + 1)
  BY ValueCases
<1>2. f \in Nat /\ At(t, i) # "u" /\ close # "white"
  BY <1>1, PlaceType DEF Open, Close
<1>3. Bare(E, t, i) = Bracketed(E, t, i, type, close)
  BY DEF Bare, Open, Close, Lists
<1>4. /\ E[<<type, i + 1>>] = E[<<type, f>>] /\ E[<<type, f>>] \subseteq Places(t)
      /\ E[<<type, f>>] = Elements(E, t, type, f)
  BY <1>1, PiecesAre
<1>5. \A d : d \in Over(t, i + 1) /\ At(t, d) = close <=> (d = f /\ At(t, f) = close)
  BY <1>1, <1>2, OverIs
<1>6. m.end # 0 => m.end \in Nat
  <2>1. <<type, f>> \in Queries(t)
    BY <1>1, QueryType DEF Lists
  <2>2. m.end \in EndOf(t, <<type, f>>)
    BY <2>1, ParseIs
  <2>3. EndOf(t, <<type, f>>) = {0} \cup (f + 1)..(Len(t) + 1)
    BY <1>1, QueryType DEF Lists
  <2>4. Len(t) \in Nat
    BY PlaceType
  <2> HIDE DEF m, f
  <2> QED
    BY <1>2, <2>2, <2>3, <2>4
<1>7. \A d \in Places(t) : (d \in E[<<type, f>>] /\ At(t, d) = close) <=> m.end = d + 1
  BY DEF SameList
<1> HIDE DEF E, f, close, m
<1>8. \A x : x \in Bare(E, t, i) <=>
               \E d : (d = f \/ d \in E[<<type, f>>]) /\ At(t, d) = close /\ x = d + 1
  <2>1. \A x : x \in Bare(E, t, i) <=>
               \E d : (d \in Over(t, i + 1) \/ d \in E[<<type, f>>]) /\ At(t, d) = close /\ x = d + 1
    BY <1>3, <1>4 DEF Bracketed
  <2> QED
    BY <1>5, <2>1
<1>9. CASE At(t, f) = close
  <2>1. E[<<type, f>>] = {}
    <3>1. skip(t, f) = f
      BY <1>1, SkipTwice DEF f
    <3>2. Element(E, t, type, f) = {}
      <4> SUFFICES ASSUME NEW b \in Element(E, t, type, f) PROVE FALSE
        OBVIOUS
      <4>1. Reaches(t, f, type) /\ \E d \in Bare(E, t, ValuePlace(t, f, type)) : b \in Over(t, d)
        BY <1>1, PieceIs DEF E
      <4>2. CASE type = "array"
        <5>1. ValuePlace(t, f, type) = f
          BY <3>1, <4>2 DEF ValuePlace
        <5>2. Bare(E, t, f) = {}
          BY <1>9, <4>2 DEF Bare, close, Close, Values
        <5> QED
          BY <4>1, <5>1, <5>2
      <4>3. CASE type = "object"
        <5>1. Key(t, f) = 0
          BY <1>9, <3>1, <4>3 DEF Key, parse_string, close, Close
        <5> QED
          BY <4>1, <4>3, <5>1 DEF Reaches
      <4> QED
        BY <4>2, <4>3 DEF Lists
    <3> QED
      BY <1>4, <3>2 DEF Elements
  <2>2. r.end = f + 1
    BY <1>1, <1>9 DEF Result
  <2>3. \A x : x \in Bare(E, t, i) <=> x = f + 1
    BY <1>8, <1>9, <2>1
  <2>4. f + 1 # 0
    BY <1>2
  <2> HIDE DEF r
  <2> QED
    BY <1>2, <2>2, <2>3, <2>4 DEF SameValue, E, r
<1>10. CASE At(t, f) # close
  <2>1. r.end = m.end
    BY <1>1, <1>10 DEF Result
  <2>2. \A x : x \in Bare(E, t, i) <=> \E d \in Places(t) : m.end = d + 1 /\ x = d + 1
    BY <1>4, <1>7, <1>8, <1>10
  <2>3. m.end # 0 => \E d \in Places(t) : m.end = d + 1
    <3> SUFFICES ASSUME m.end # 0 PROVE \E d \in Places(t) : m.end = d + 1
      OBVIOUS
    <3>1. <<type, f>> \in Queries(t)
      BY <1>1, QueryType DEF Lists
    <3>2. m.end \in EndOf(t, <<type, f>>)
      BY <3>1, ParseIs DEF m
    <3>3. EndOf(t, <<type, f>>) = {0} \cup (f + 1)..(Len(t) + 1)
      BY <1>1, QueryType DEF Lists
    <3>4. Len(t) \in Nat /\ 1 <= f
      BY <1>1, PlaceType
    <3> DEFINE d == m.end - 1
    <3>5. d \in Int /\ 1 <= d /\ d <= Len(t) + 1 /\ m.end = d + 1
      BY <1>2, <3>2, <3>3, <3>4
    <3>6. d \in Places(t)
      BY <3>5, PlaceType
    <3> QED
      BY <3>5, <3>6
  <2>4. \A d \in Places(t) : d + 1 # 0
    BY PlaceType
  <2>5. \A x : x \in Bare(E, t, i) <=> (x = m.end /\ x # 0)
    BY <2>2, <2>3, <2>4
  <2> HIDE DEF r
  <2> QED
    BY <1>2, <2>1, <2>5 DEF SameValue, E, r
<1> QED
  BY <1>9, <1>10

(* The members of a list: the parser ends where the grammar does.          *)
LEMMA MembersSame ==
    ASSUME NEW t \in Texts, NEW i \in Places(t), NEW type \in Lists, Reaches(t, i, type),
           NEW j, j = ValuePlace(t, i, type), SameValue(t, j),
           NEW v, v = parse(t)[<<"value", j>>], NEW a, a = skip(t, v.end),
           v.end # 0 /\ At(t, a) = "comma" => SameList(t, a + 1, type)
    PROVE  SameList(t, i, type)
<1> DEFINE E == Ends(t)
           close == Close(type)
           r == parse(t)[<<type, i>>]
           rest == parse(t)[<<type, a + 1>>]
           piece == Element(E, t, type, i)
           n == Len(t)
<1>1. /\ j \in Places(t) /\ v.end \in {0} \cup (j + 1)..(n + 1)
      /\ v.end = 0 => r = Refused(v.ep, <<v.item>>, v.made)
      /\ v.end # 0 =>
            /\ v.end \in Places(t)
            /\ a \in v.end..(n + 1)
            /\ At(t, a) # "end" => a + 1 \in Places(t)
            /\ At(t, a) = "comma" => r = Result(rest.end, rest.ep, <<v.item>> \o rest.item, v.made + rest.made)
            /\ At(t, a) = close => r = Result(a + 1, 0, <<v.item>>, v.made)
            /\ At(t, a) \notin {"comma", close} => r = Refused(a, <<v.item>>, v.made)
  BY MembersCases
<1>2. \A b : b \in piece <=> \E d \in Bare(E, t, j) : b \in Over(t, d)
  BY PieceIs
<1>3. E[<<type, i>>] = piece \cup UNION {E[<<type, k + 1>>] : k \in {k \in piece : At(t, k) = "comma"}}
  <2>1. E[<<type, i>>] = Elements(E, t, type, i)
    BY PiecesAre
  <2> QED
    BY <2>1 DEF Elements
<1>4. \A x : x \in Bare(E, t, j) <=> (x = v.end /\ x # 0 /\ At(t, j) # "u")
  BY DEF SameValue
<1>5. close \notin {"white", "end", "comma"}
  BY DEF Close
<1>6. r.end = IF v.end = 0 THEN 0
              ELSE IF At(t, a) = "comma" THEN rest.end
              ELSE IF At(t, a) = close THEN a + 1 ELSE 0
  BY <1>1, <1>5 DEF Result, Refused
<1>7. At(t, j) = "u" => v.end = n + 1
  BY <1>1, LeafEnds
<1>8. \A d \in Places(t) : d \in Nat /\ 1 <= d
  BY PlaceType
<1> HIDE DEF E, close, r, rest, piece, n
<1>9. CASE v.end = 0
  <2>1. piece = {}
    BY <1>2, <1>4, <1>9
  <2>2. E[<<type, i>>] = {}
    BY <1>3, <2>1
  <2>3. r.end = 0 /\ \A d \in Places(t) : d + 1 # 0
    BY <1>6, <1>8, <1>9
  <2> QED
    BY <2>2, <2>3 DEF SameList, E, r
<1>10. CASE v.end # 0 /\ At(t, j) = "u"
  <2>1. v.end = n + 1 /\ a = n + 1
    BY <1>1, <1>7, <1>10, PlaceType DEF n
  <2>2. At(t, a) = "end"
    BY <2>1, PlaceType DEF At, n
  <2>3. piece = {}
    BY <1>2, <1>4, <1>10
  <2>4. E[<<type, i>>] = {}
    BY <1>3, <2>3
  <2>5. r.end = 0 /\ \A d \in Places(t) : d + 1 # 0
    BY <1>5, <1>6, <1>8, <1>10, <2>2
  <2> QED
    BY <2>4, <2>5 DEF SameList, E, r
<1>11. CASE v.end # 0 /\ At(t, j) # "u"
  <2>1. \A b : b \in piece <=> b \in Over(t, v.end)
    BY <1>2, <1>4, <1>11
  <2>2. a \in piece /\ a \in Places(t) /\ \A b \in piece : At(t, b) # "white" => b = a
    BY <1>1, <1>11, <2>1, OverIs
  <2>3. \A d : d \in E[<<type, i>>] /\ At(t, d) = close <=>
                 \/ d = a /\ At(t, a) = close
                 \/ At(t, a) = "comma" /\ d \in E[<<type, a + 1>>] /\ At(t, d) = close
    BY <1>3, <1>5, <2>2
  <2>4. CASE At(t, a) = "comma"
    <3>1. \A d \in Places(t) : (d \in E[<<type, a + 1>>] /\ At(t, d) = close) <=> rest.end = d + 1
      BY <1>11, <2>4 DEF SameList, E, close, rest
    <3>2. r.end = rest.end
      BY <1>6, <1>11, <2>4
    <3>3. \A d : d \in E[<<type, i>>] /\ At(t, d) = close <=> d \in E[<<type, a + 1>>] /\ At(t, d) = close
      BY <1>5, <2>3, <2>4
    <3>4. \A d \in Places(t) : (d \in E[<<type, i>>] /\ At(t, d) = close) <=> r.end = d + 1
      BY <3>1, <3>2, <3>3
    <3> QED
      BY <3>4 DEF SameList, E, r, close
  <2>5. CASE At(t, a) = close
    <3>1. r.end = a + 1
      BY <1>5, <1>6, <1>11, <2>5
    <3>2. \A d : d \in E[<<type, i>>] /\ At(t, d) = close <=> d = a
      BY <1>5, <2>3, <2>5
    <3>3. \A d \in Places(t) : a + 1 = d + 1 <=> d = a
      BY <1>8, <2>2
    <3>4. \A d \in Places(t) : (d \in E[<<type, i>>] /\ At(t, d) = close) <=> r.end = d + 1
      BY <3>1, <3>2, <3>3
    <3> QED
      BY <3>4 DEF SameList, E, r, close
  <2>6. CASE At(t, a) \notin {"comma", close}
    <3>1. r.end = 0 /\ \A d \in Places(t) : d + 1 # 0
      BY <1>6, <1>8, <1>11, <2>6
    <3>2. \A d : ~(d \in E[<<type, i>>] /\ At(t, d) = close)
      BY <2>3, <2>6
    <3> QED
      BY <3>1, <3>2 DEF SameList, E, r, close
  <2> QED
    BY <2>4, <2>5, <2>6
<1> QED
  BY <1>9, <1>10, <1>11

(* The parser ends where the grammar does, at every place of every text.   *)
LEMMA ParserIsGrammar ==
    ASSUME NEW t \in Texts
    PROVE  \A i \in Places(t) : SameValue(t, i)
<1> DEFINE G == {q \in Queries(t) : Same(t, q)}
<1>1. ASSUME NEW i \in Places(t)
      PROVE  /\ <<"value", i>> \in G <=> SameValue(t, i)
             /\ \A type \in Lists : <<type, i>> \in G <=> SameList(t, i, type)
  BY QueryType DEF Same, Lists
<1> HIDE DEF G
<1>2. ASSUME NEW i \in Places(t), At(t, i) \notin {"lbrack", "lbrace"} PROVE <<"value", i>> \in G
  BY <1>1, <1>2, LeafSame
<1>3. ASSUME NEW i \in Places(t), NEW type \in Lists,
             At(t, i) = Open(type), <<type, skip(t, i + 1)>> \in G
      PROVE  <<"value", i>> \in G
  <2>1. skip(t, i + 1) \in Places(t)
    BY <1>3, ValueCases
  <2>2. SameList(t, skip(t, i + 1), type)
    BY <1>1, <1>3, <2>1
  <2> QED
    BY <1>1, <1>3, <2>2, ContainerSame
<1>4. ASSUME NEW i \in Places(t), NEW type \in Lists, ~Reaches(t, i, type) PROVE <<type, i>> \in G
  <2>1. PICK e \in i..(Len(t) + 1) : parse(t)[<<type, i>>] = Refused(e, <<Blank>>, 1)
    BY <1>4, MembersCases
  <2>2. parse(t)[<<type, i>>].end = 0
    BY <2>1 DEF Refused, Result
  <2>3. Element(Ends(t), t, type, i) = {}
    BY <1>4, PieceIs
  <2>4. Ends(t)[<<type, i>>] = {}
    <3> DEFINE E == Ends(t)
    <3>1. E[<<type, i>>] = Elements(E, t, type, i)
      BY PiecesAre
    <3> HIDE DEF E
    <3>2. Elements(E, t, type, i) = {}
      BY <2>3 DEF Elements, E
    <3> QED
      BY <3>1, <3>2 DEF E
  <2>5. \A d \in Places(t) : d + 1 # 0
    BY PlaceType
  <2> QED
    BY <1>1, <2>2, <2>4, <2>5 DEF SameList
<1>5. ASSUME NEW i \in Places(t), NEW type \in Lists, Reaches(t, i, type),
             NEW j, j = ValuePlace(t, i, type), <<"value", j>> \in G,
             NEW v, v = parse(t)[<<"value", j>>], NEW a, a = skip(t, v.end),
             v.end # 0 /\ At(t, a) = "comma" => <<type, a + 1>> \in G
      PROVE  <<type, i>> \in G
  <2>1. j \in Places(t) /\ (v.end # 0 /\ At(t, a) # "end" => a + 1 \in Places(t))
    BY <1>5, MembersCases
  <2>2. SameValue(t, j)
    BY <1>1, <1>5, <2>1
  <2>3. v.end # 0 /\ At(t, a) = "comma" => SameList(t, a + 1, type)
    BY <1>1, <1>5, <2>1
  <2>4. SameList(t, i, type)
    BY <1>5, <2>2, <2>3, MembersSame
  <2> QED
    BY <1>1, <2>4
<1>6. Kept(t, G)
  BY <1>2, <1>3, <1>4, <1>5 DEF Kept
<1>7. \A i \in Places(t) : \A kind \in {"value", "array", "object"} : <<kind, i>> \in G
  BY <1>6, ParseInduction
<1> QED
  BY <1>1, <1>7

(* The texts that are accepted are those of the grammar.                   *)
THEOREM GrammarTheorem == Spec => []AcceptsGrammar
<1>1. TextType => AcceptsGrammar
  <2> DEFINE t == text
             s == skip(t, 1)
             r == parse(t)[<<"value", s>>]
             e == skip(t, r.end)
             values == Ends(t)[<<"value", 1>>]
             n == Len(t)
             o == cJSON_ParseWithOpts(t, TRUE)
             w == cJSON_ParseWithOpts(t, FALSE)
  <2> SUFFICES ASSUME TextType
               PROVE  /\ o.end # 0 <=> (n + 1 \in values \/ At(t, s) = "u")
                      /\ w.end # 0 <=> (values # {} \/ At(t, s) = "u")
    BY DEF AcceptsGrammar, IsOpenString, Accepted, Parse, cJSON_Parse
  <2>1. t \in Texts /\ n \in Nat /\ 1 \in Places(t)
    BY PlaceType DEF TextType, Texts
  <2>2. /\ s \in Places(t) /\ r.end \in {0} \cup (s + 1)..(n + 1)
        /\ r.end # 0 => r.end \in Places(t) /\ e \in Places(t)
        /\ w = r
        /\ o = r \/ (r.end # 0 /\ e <= n /\ o = Refused(e, r.item, r.made))
        /\ r.end # 0 /\ e <= n => o = Refused(e, r.item, r.made)
    BY <2>1, OptsCases
  <2>3. \A x : x \in Bare(Ends(t), t, s) <=> (x = r.end /\ x # 0 /\ At(t, s) # "u")
    BY <2>1, <2>2, ParserIsGrammar DEF SameValue
  <2>4. \A b : b \in values <=> \E d \in Bare(Ends(t), t, s) : b \in Over(t, d)
    BY <2>1, PaddedIs
  <2>5. r.end # 0 => r.end \in Over(t, r.end) /\ e \in Over(t, r.end) /\ At(t, n + 1) # "white"
                       /\ \A b \in Over(t, r.end) : At(t, b) # "white" => b = e
    <3>1. r.end # 0 => r.end \in Places(t)
      BY <2>2
    <3>2. At(t, n + 1) = "end"
      BY <2>1 DEF At
    <3> HIDE DEF r, t
    <3> QED
      BY <2>1, <3>1, <3>2, OverIs, OverRange
  <2>6. At(t, s) = "u" => r.end = n + 1
    BY <2>1, <2>2, LeafEnds
  <2>7. r.end # 0 => e \in Int /\ e <= n + 1 /\ (r.end = n + 1 => e = n + 1)
    <3>1. r.end # 0 => e \in Int /\ 1 <= e /\ e <= n + 1
      BY <2>1, <2>2, PlaceType
    <3>2. r.end # 0 => e \in r.end..(n + 1)
      BY <2>1, <2>2, SkipStops
    <3> HIDE DEF r, e, n
    <3> QED
      BY <2>1, <3>1, <3>2
  <2>8. o.end # 0 <=> (r.end # 0 /\ e = n + 1)
    <3> HIDE DEF r, e, n, o, w
    <3>1. r.end # 0 /\ e <= n => o.end = 0
      BY <2>2 DEF Refused, Result
    <3>2. ~(r.end # 0 /\ e <= n) => o = r
      BY <2>2
    <3> QED
      BY <2>1, <2>7, <3>1, <3>2
  <2> DEFINE B == Bare(Ends(t), t, s)
  <2> HIDE DEF r, e, n, o, w, values, s, t, B
  <2>9. CASE At(t, s) = "u"
    BY <2>1, <2>2, <2>6, <2>7, <2>8, <2>9
  <2>10. CASE At(t, s) # "u"
    <3>1. \A b : b \in values <=> (r.end # 0 /\ b \in Over(t, r.end))
      BY <2>3, <2>4, <2>10
    <3>2. values # {} <=> r.end # 0
      BY <2>5, <3>1
    <3>3. n + 1 \in values <=> (r.end # 0 /\ e = n + 1)
      BY <2>5, <3>1
    <3> QED
      BY <2>2, <2>8, <2>10, <3>2, <3>3
  <2> QED
    BY <2>9, <2>10
<1> QED
  BY <1>1, TextTypeKept, PTL

(* The text s stands in t, from place i on.                                *)
StandsAt(t, i, s) ==
    /\ i \in Places(t) /\ i + Len(s) \in Places(t)
    /\ \A k \in 1..Len(s) : At(t, i + k - 1) = s[k]

(* Where two parts stand, the first stands and behind it the second.       *)
LEMMA StandsParts ==
    ASSUME NEW t \in Texts, NEW i, NEW a \in Texts, NEW b \in Texts, StandsAt(t, i, a \o b)
    PROVE  /\ StandsAt(t, i, a) /\ StandsAt(t, i + Len(a), b)
           /\ Len(a \o b) = Len(a) + Len(b) /\ Len(a) \in Nat /\ Len(b) \in Nat /\ i \in Nat
<1> DEFINE m == Len(a)
           n == Len(b)
           c == a \o b
<1>1. /\ m \in Nat /\ n \in Nat /\ Len(c) = m + n
      /\ \A k \in 1..m : c[k] = a[k]
      /\ \A k \in 1..n : c[m + k] = b[k]
  BY DEF Texts
<1> HIDE DEF m, n, c
<1>2. /\ i \in Places(t) /\ i + (m + n) \in Places(t)
      /\ \A k \in 1..(m + n) : At(t, i + k - 1) = c[k]
  BY <1>1 DEF StandsAt, c
<1>3. i \in Nat /\ 1 <= i /\ i + (m + n) <= Len(t) + 1 /\ Len(t) \in Nat
  BY <1>2, PlaceType
<1>4. i + m \in Nat /\ 1 <= i + m /\ i + m <= Len(t) + 1
  BY <1>1, <1>3
<1>5. i + m \in Places(t)
  BY <1>4, PlaceType
<1>6. \A k \in 1..m : At(t, i + k - 1) = a[k]
  BY <1>1, <1>2
<1>7. ASSUME NEW k \in 1..n PROVE At(t, (i + m) + k - 1) = b[k]
  <2> DEFINE l == m + k
  <2>1. l \in 1..(m + n) /\ (i + m) + k - 1 = i + l - 1
    BY <1>1, <1>3
  <2>2. At(t, i + l - 1) = c[l]
    BY <1>2, <2>1
  <2> QED
    BY <1>1, <2>1, <2>2
<1>8. (i + m) + n \in Places(t)
  <2>1. (i + m) + n = i + (m + n)
    BY <1>1, <1>3
  <2> QED
    BY <1>2, <2>1
<1> QED
  BY <1>1, <1>2, <1>3, <1>5, <1>6, <1>7, <1>8 DEF StandsAt, m, n, c

(* Where a text stands, its first token is.                                *)
LEMMA StandsFirst ==
    ASSUME NEW t \in Texts, NEW i, NEW s \in Texts, s # <<>>, StandsAt(t, i, s)
    PROVE  At(t, i) = s[1] /\ i \in Places(t) /\ i + Len(s) \in Places(t) /\ Len(s) >= 1
<1>1. Len(s) \in Nat /\ Len(s) # 0
  BY DEF Texts
<1>2. i \in Places(t) /\ i + Len(s) \in Places(t) /\ \A k \in 1..Len(s) : At(t, i + k - 1) = s[k]
  BY DEF StandsAt
<1>3. i \in Int /\ 1 \in 1..Len(s)
  BY <1>1, <1>2, PlaceType
<1>4. At(t, i + 1 - 1) = s[1] /\ i + 1 - 1 = i
  BY <1>2, <1>3
<1> QED
  BY <1>1, <1>2, <1>4

(* A single token.                                                         *)
LEMMA TokenText ==
    ASSUME NEW c \in Tokens
    PROVE  <<c>> \in Texts /\ Len(<<c>>) = 1 /\ <<c>> # <<>> /\ <<c>>[1] = c
  BY DEF Texts

(* Skipping stops where there is no white space.                           *)
LEMMA SkipNone ==
    ASSUME NEW t \in Texts, NEW i \in Places(t), At(t, i) # "white"
    PROVE  skip(t, i) = i
<1>1. i \in Int /\ i \in i..(Len(t) + 1) /\ \A k \in i..(i - 1) : At(t, k) = "white"
  BY PlaceType
<1> QED
  BY <1>1, SkipIs

(* Skipping one white space makes no difference to skipping.               *)
LEMMA SkipOne ==
    ASSUME NEW t \in Texts, NEW i \in Places(t), At(t, i) = "white"
    PROVE  i + 1 \in Places(t) /\ skip(t, i) = skip(t, i + 1)
<1> DEFINE n == Len(t)
           a == i + 1
           j == skip(t, a)
<1>1. n \in Nat /\ i \in Int /\ 1 <= i /\ a \in Places(t) /\ a \in Int /\ a = i + 1
  BY PlaceType, PlaceEnd
<1>2. j \in a..(n + 1) /\ At(t, j) # "white" /\ \A k \in a..(j - 1) : At(t, k) = "white"
  BY <1>1, SkipStops
<1> HIDE DEF a, n, j
<1>3. j \in i..(n + 1)
  BY <1>1, <1>2
<1>4. \A k \in i..(j - 1) : At(t, k) = "white"
  <2> SUFFICES ASSUME NEW k \in i..(j - 1) PROVE At(t, k) = "white"
    OBVIOUS
  <2>1. k = i \/ k \in a..(j - 1)
    BY <1>1, <1>2
  <2> QED
    BY <1>2, <2>1
<1>5. skip(t, i) = j
  BY <1>2, <1>3, <1>4, SkipIs DEF n
<1> QED
  BY <1>1, <1>5 DEF a, j

(* White space is printed only when formatted.                             *)
LEMMA WhiteType ==
    ASSUME NEW fmt \in {0, 1}
    PROVE  White(fmt) \in Texts /\ Len(White(fmt)) = fmt
<1>1. CASE fmt = 0
  BY <1>1 DEF White, Texts
<1>2. CASE fmt = 1
  <2>1. "white" \in Tokens
    BY DEF Tokens
  <2>2. <<"white">> \in Texts /\ Len(<<"white">>) = 1
    BY <2>1, TokenText
  <2> QED
    BY <1>2, <2>2 DEF White
<1> QED
  BY <1>1, <1>2

(* Skipping what is printed as white space makes no difference to          *)
(* skipping.                                                               *)
LEMMA SkipWhite ==
    ASSUME NEW t \in Texts, NEW i, NEW fmt \in {0, 1}, StandsAt(t, i, White(fmt))
    PROVE  /\ i \in Places(t) /\ i + fmt \in Places(t) /\ i \in Nat
           /\ skip(t, i) = skip(t, i + fmt)
<1>1. i \in Places(t) /\ i + fmt \in Places(t) /\ \A k \in 1..fmt : At(t, i + k - 1) = White(fmt)[k]
  BY WhiteType DEF StandsAt
<1>2. i \in Nat
  BY <1>1, PlaceType
<1>3. CASE fmt = 0
  <2>1. i + fmt = i
    BY <1>2, <1>3
  <2> QED
    BY <1>1, <1>2, <2>1
<1>4. CASE fmt = 1
  <2>1. At(t, i + 1 - 1) = White(fmt)[1] /\ i + 1 - 1 = i
    BY <1>1, <1>2, <1>4
  <2>2. At(t, i) = "white"
    BY <1>4, <2>1 DEF White
  <2> QED
    BY <1>1, <1>2, <1>4, <2>2, SkipOne
<1> QED
  BY <1>3, <1>4

(* A list is parsed alike from all places that skip to the same one.       *)
LEMMA ListFrom ==
    ASSUME NEW t \in Texts, NEW i \in Places(t), NEW j \in Places(t), skip(t, i) = skip(t, j),
           NEW type \in Lists
    PROVE  parse(t)[<<type, i>>] = parse(t)[<<type, j>>]
<1> DEFINE p == parse(t)
<1>1. Members(p, t, i, type) = Members(p, t, j, type)
  BY DEF Members
<1>2. \A k \in Places(t) : p[<<type, k>>] = Members(p, t, k, type)
  <2> SUFFICES ASSUME NEW k \in Places(t) PROVE p[<<type, k>>] = Members(p, t, k, type)
    OBVIOUS
  <2>1. <<type, k>> \in Queries(t) /\ type # "value"
    BY QueryType DEF Lists
  <2> QED
    BY <2>1, ParseIs DEF Body
<1> QED
  BY <1>1, <1>2

(* The last j parts, one before the other.                                 *)
LastParts(comma, parts, last) ==
    /\ last[0] = <<>>
    /\ \A j \in 1..Len(parts) :
           last[j] = parts[Len(parts) + 1 - j] \o (IF j = 1 THEN <<>> ELSE comma \o last[j - 1])
    /\ \A j \in 0..Len(parts) : last[j] \in Texts

(* The separated parts are made from the last one on.                      *)
LEMMA SeparatedIs ==
    ASSUME NEW comma \in Texts, NEW parts \in Seq(Texts)
    PROVE  /\ Separated(comma, parts) \in Texts
           /\ \E last : LastParts(comma, parts, last) /\ Separated(comma, parts) = last[Len(parts)]
<1> DEFINE n == Len(parts)
           put(j, s) == parts[n + 1 - j] \o (IF j = 1 THEN <<>> ELSE comma \o s)
           next == [j \in 1..n |-> [s \in Texts |-> put(j, s)]]
           R(f) == [j \in 0..n |->
                       IF j = 0 THEN <<>>
                       ELSE parts[n + 1 - j] \o (IF j = 1 THEN <<>> ELSE comma \o f[j - 1])]
           g == CHOOSE h : h = R(h)
<1>1. n \in Nat
  OBVIOUS
<1>2. ASSUME NEW j \in 1..n, NEW s \in Texts PROVE put(j, s) \in Texts
  <2> DEFINE k == n + 1 - j
             e == IF j = 1 THEN <<>> ELSE comma \o s
  <2>1. k \in 1..n
    BY <1>1
  <2>2. parts[k] \in Texts
    BY <2>1
  <2>3. e \in Texts
    BY DEF Texts
  <2> HIDE DEF k, e
  <2>4. parts[k] \o e \in Texts
    BY <2>2, <2>3 DEF Texts
  <2> QED
    BY <2>4 DEF k, e
<1> HIDE DEF put
<1>3. <<>> \in Texts
  BY DEF Texts
<1>4. \E f : Follows(n, Texts, <<>>, next, f)
  <2>1. next \in [1..n -> [Texts -> Texts]]
    BY <1>2
  <2>2. Steps(n, Texts, <<>>, next)
    BY <1>1, <1>3, <2>1 DEF Steps
  <2> HIDE DEF next, n
  <2> QED
    BY <2>2, Recursion
<1>5. PICK f : Follows(n, Texts, <<>>, next, f)
  BY <1>4
<1>6. f \in [0..n -> Texts] /\ f[0] = <<>> /\ \A j \in 1..n : f[j] = next[j][f[j - 1]]
  BY <1>5 DEF Follows
<1>7. \A j \in 1..n : f[j] = put(j, f[j - 1])
  <2> SUFFICES ASSUME NEW j \in 1..n PROVE f[j] = put(j, f[j - 1])
    OBVIOUS
  <2>1. j - 1 \in 0..n
    BY <1>1
  <2>2. f[j - 1] \in Texts
    BY <1>6, <2>1
  <2> QED
    BY <1>6, <2>2
<1>8. f = R(f)
  BY <1>1, <1>6, <1>7 DEF put
<1>9. g = R(g)
  <2> HIDE DEF R
  <2> QED
    BY <1>8
<1>10. Separated(comma, parts) = g[n]
  BY DEF Separated
<1> HIDE DEF g, next
<1>11. g[0] = <<>> /\ \A j \in 1..n : g[j] = put(j, g[j - 1])
  BY <1>1, <1>9 DEF put
<1> DEFINE I == {j \in 0..n : g[j] \in Texts}
<1>12. \A j \in 0..n : j \in I
  <2>1. 0 \in I
    BY <1>1, <1>3, <1>11
  <2>2. \A j \in 1..n : j - 1 \in I => j \in I
    BY <1>2, <1>11
  <2> HIDE DEF I
  <2> QED
    BY <1>1, <2>1, <2>2, UpTo
<1>13. LastParts(comma, parts, g)
  BY <1>11, <1>12 DEF LastParts, put
<1>14. g[n] \in Texts
  BY <1>1, <1>12
<1> QED
  BY <1>10, <1>13, <1>14

Comma(fmt) == <<"comma">> \o White(fmt)
Starts == {"v", "x", "s", "lbrack", "lbrace"}
Proper(s) == s \in Texts /\ s # <<>> /\ s[1] \in Starts

(* Two texts in a row.                                                     *)
LEMMA ConcatText ==
    ASSUME NEW a \in Texts, NEW b \in Texts
    PROVE  a \o b \in Texts /\ Len(a \o b) = Len(a) + Len(b) /\ Len(a) \in Nat /\ Len(b) \in Nat
  BY DEF Texts

(* A token in front of a text is its first one.                            *)
LEMMA ConcatFirst ==
    ASSUME NEW c \in Tokens, NEW a \in Texts
    PROVE  <<c>> \o a \in Texts /\ <<c>> \o a # <<>> /\ (<<c>> \o a)[1] = c
<1>1. <<c>> \in Texts /\ Len(<<c>>) = 1 /\ <<c>>[1] = c
  BY TokenText
<1> DEFINE s == <<c>>
<1>2. s \in Texts /\ Len(s) = 1 /\ s[1] = c
  BY <1>1
<1> HIDE DEF s
<1>3. s \o a \in Texts /\ Len(s \o a) = 1 + Len(a) /\ Len(a) \in Nat
  BY <1>2, ConcatText
<1>5. (s \o a)[1] = c
  <2>1. s \in Seq(Tokens) /\ a \in Seq(Tokens) /\ 1 \in 1..(Len(s) + Len(a)) /\ 1 <= Len(s)
    BY <1>2, <1>3 DEF Texts
  <2>2. (s \o a)[1] = s[1]
    BY <2>1
  <2> QED
    BY <1>2, <2>2
<1>4. s \o a # <<>>
  BY <1>3
<1> QED
  BY <1>3, <1>4, <1>5 DEF s

(* The comma and its white space are a text.                               *)
LEMMA CommaType ==
    ASSUME NEW fmt \in {0, 1}
    PROVE  Comma(fmt) \in Texts
<1>1. "comma" \in Tokens
  BY DEF Tokens
<1> QED
  BY <1>1, WhiteType, ConcatFirst DEF Comma

(* A member is a text.                                                     *)
LEMMA MemberType ==
    ASSUME NEW fmt \in {0, 1}, NEW part \in Texts, NEW type
    PROVE  Member(type, part, fmt) \in Texts
<1>1. <<"s", "colon">> \in Texts
  BY DEF Texts, Tokens
<1>2. White(fmt) \o <<"s", "colon">> \in Texts
  BY <1>1, WhiteType, ConcatText
<1>3. White(fmt) \o <<"s", "colon">> \o White(fmt) \in Texts
  BY <1>2, WhiteType, ConcatText
<1>4. White(fmt) \o <<"s", "colon">> \o White(fmt) \o part \in Texts
  BY <1>3, ConcatText
<1> QED
  BY <1>4 DEF Member

(* What is printed of an item is a text that starts with a token of a      *)
(* value.                                                                  *)
LEMMA FormProper ==
    ASSUME NEW fmt \in {0, 1}, NEW item \in Items, NEW kids \in Texts
    PROVE  Proper(Form(item, kids, fmt))
<1>1. item.type \in Leaves \cup Lists
  BY ItemsAre
<1>2. {"v", "x", "s", "lbrack", "rbrack", "lbrace", "rbrace"} \subseteq Tokens
  BY DEF Tokens
<1>3. CASE item.type \in {"v", "big"}
  <2> DEFINE c == IF item.type = "v" THEN "v" ELSE "x"
  <2>1. Form(item, kids, fmt) = <<c>>
    BY <1>3 DEF Form
  <2>2. c \in Tokens
    BY <1>2
  <2> QED
    BY <2>1, <2>2, TokenText DEF Proper, Starts
<1>7. CASE item.type = "-big"
  <2>1. Form(item, kids, fmt) = <<"v", "x">>
    BY <1>7 DEF Form
  <2>2. <<"v", "x">> \in Texts
    BY <1>2 DEF Texts
  <2> QED
    BY <2>1, <2>2 DEF Proper, Starts
<1>4. CASE item.type = "string"
  <2>1. Form(item, kids, fmt) = <<"s">>
    BY <1>4 DEF Form
  <2>2. "s" \in Tokens
    BY <1>2
  <2> QED
    BY <2>1, <2>2, TokenText DEF Proper, Starts
<1>5. CASE item.type = "array"
  <2> DEFINE a == <<"lbrack">>
             z == <<"rbrack">>
  <2>1. Form(item, kids, fmt) = (a \o kids) \o z
    BY <1>5 DEF Form
  <2>2. a \o kids \in Texts /\ a \o kids # <<>> /\ (a \o kids)[1] = "lbrack" /\ z \in Texts
    BY <1>2, TokenText, ConcatFirst
  <2> HIDE DEF a, z
  <2> DEFINE s == a \o kids
  <2>3. s \in Texts /\ s # <<>> /\ s[1] = "lbrack"
    BY <2>2
  <2> HIDE DEF s
  <2>4. s \o z \in Texts /\ s \o z # <<>> /\ (s \o z)[1] = "lbrack"
    BY <2>2, <2>3 DEF Texts
  <2> QED
    BY <2>1, <2>4 DEF s, Proper, Starts
<1>6. CASE item.type = "object"
  <2> DEFINE a == <<"lbrace">>
             w == White(fmt)
             z == <<"rbrace">>
             s == a \o w
             u == s \o kids
             v == u \o w
  <2>1. Form(item, kids, fmt) = v \o z
    BY <1>6 DEF Form
  <2>2. s \in Texts /\ s # <<>> /\ s[1] = "lbrace" /\ z \in Texts /\ w \in Texts
    BY <1>2, WhiteType, TokenText, ConcatFirst
  <2> HIDE DEF s, z, w
  <2>3. u \in Texts /\ u # <<>> /\ u[1] = "lbrace"
    BY <2>2 DEF Texts
  <2> HIDE DEF u
  <2>4. v \in Texts /\ v # <<>> /\ v[1] = "lbrace"
    BY <2>2, <2>3 DEF Texts
  <2> HIDE DEF v
  <2>5. v \o z \in Texts /\ v \o z # <<>> /\ (v \o z)[1] = "lbrace"
    BY <2>2, <2>4 DEF Texts
  <2> QED
    BY <2>1, <2>5 DEF Proper, Starts
<1> QED
  BY <1>1, <1>3, <1>4, <1>5, <1>6, <1>7 DEF Leaves, Values, Lists

(* What is printed for the elements or members of item.                    *)
Parts(type, texts, fmt) == [i \in 1..Len(texts) |-> Member(type, texts[i], fmt)]
KidsText(type, texts, fmt) == Separated(Comma(fmt), Parts(type, texts, fmt))

(* What is printed of the kids is a text.                                  *)
LEMMA KidsTextType ==
    ASSUME NEW fmt \in {0, 1}, NEW type, NEW texts \in Seq(Texts)
    PROVE  /\ Parts(type, texts, fmt) \in Seq(Texts) /\ Len(Parts(type, texts, fmt)) = Len(texts)
           /\ KidsText(type, texts, fmt) \in Texts
<1> DEFINE parts == Parts(type, texts, fmt)
<1>1. Len(texts) \in Nat /\ \A i \in 1..Len(texts) : Member(type, texts[i], fmt) \in Texts
  BY MemberType
<1>2. parts \in Seq(Texts) /\ Len(parts) = Len(texts)
  BY <1>1 DEF Parts
<1>3. KidsText(type, texts, fmt) \in Texts
  BY <1>2, CommaType, SeparatedIs DEF KidsText
<1> QED
  BY <1>2, <1>3

(* What is printed for an item, and that it is a text.                     *)
LEMMA PrintedIs ==
    ASSUME NEW fmt \in {0, 1}, NEW item \in Items
    PROVE  /\ Proper(Printed(item, fmt))
           /\ Map(AllPrinted(fmt), item.kids) \in Seq(Texts)
           /\ Printed(item, fmt) =
                  Form(item, KidsText(item.type, Map(AllPrinted(fmt), item.kids), fmt), fmt)
<1> DEFINE T == Items
           step == [x \in T |-> [s \in Seq(Texts) |-> Form(x, KidsText(x.type, s, fmt), fmt)]]
           body(h, x) == Form(x, KidsText(x.type, Map(h, x.kids), fmt), fmt)
           R(h) == [x \in T |-> body(h, x)]
           g == AllPrinted(fmt)
<1>1. ASSUME NEW x \in T, NEW s \in Seq(Texts) PROVE Proper(Form(x, KidsText(x.type, s, fmt), fmt))
  BY KidsTextType, FormProper
<1>2. step \in [T -> [Seq(Texts) -> Texts]]
  BY <1>1 DEF Proper
<1>3. PICK f \in [T -> Texts] : \A x \in T : f[x] = step[x][Map(f, x.kids)]
  <2> HIDE DEF step
  <2> QED
    BY <1>2, ItemRecursion
<1>4. ASSUME NEW h, NEW x \in T, \A i \in 1..Len(x.kids) : h[x.kids[i]] \in Texts
      PROVE  Map(h, x.kids) \in Seq(Texts)
  <2>1. Len(x.kids) \in Nat
    BY ItemsAre
  <2> DEFINE kids == x.kids
  <2>2. Map(h, kids) = [i \in 1..Len(kids) |-> h[kids[i]]]
    BY DEF Map
  <2> QED
    BY <2>1, <2>2, <1>4
<1>5. f = R(f)
  <2> SUFFICES ASSUME NEW x \in T PROVE f[x] = body(f, x)
    BY <1>3
  <2>1. \A i \in 1..Len(x.kids) : f[x.kids[i]] \in Texts
    BY <1>3, ItemsAre
  <2>2. Map(f, x.kids) \in Seq(Texts)
    BY <1>4, <2>1
  <2> QED
    BY <1>3, <2>2
<1>6. g = CHOOSE h : h = R(h)
  <2> DEFINE S(h) == [x \in T |-> Form(x, PrintedKids(h, x, fmt), fmt)]
  <2>1. g = CHOOSE h : h = S(h)
    BY DEF AllPrinted
  <2>2. ASSUME NEW h, NEW x \in T
        PROVE  PrintedKids(h, x, fmt) = KidsText(x.type, Map(h, x.kids), fmt)
    <3>1. Len(x.kids) \in Nat
      BY ItemsAre
    <3> DEFINE kids == x.kids
               m == Map(h, kids)
    <3>2. Len(m) = Len(kids) /\ \A i \in 1..Len(kids) : m[i] = h[kids[i]]
      BY <3>1, MapLen
    <3> HIDE DEF m
    <3>3. [i \in 1..Len(kids) |-> Member(x.type, h[kids[i]], fmt)]
              = [i \in 1..Len(m) |-> Member(x.type, m[i], fmt)]
      BY <3>2
    <3> QED
      BY <3>3 DEF PrintedKids, KidsText, Parts, Comma, m
  <2>3. ASSUME NEW h PROVE S(h) = R(h)
    <3>1. ASSUME NEW x \in T
          PROVE  Form(x, PrintedKids(h, x, fmt), fmt) = body(h, x)
      BY <2>2
    <3> QED
      BY <3>1
  <2> HIDE DEF S, R
  <2> QED
    BY <2>1, <2>3
<1>7. g = R(g)
  <2> HIDE DEF g, R
  <2> QED
    BY <1>5, <1>6
<1> HIDE DEF g
<1>8. \A x \in T : g[x] = body(g, x)
  BY <1>7
<1> DEFINE G == {x \in T : Proper(g[x])}
<1>9. ASSUME NEW x \in T, \A i \in 1..Len(x.kids) : x.kids[i] \in G
      PROVE  x \in G /\ Map(g, x.kids) \in Seq(Texts)
  <2>1. \A i \in 1..Len(x.kids) : g[x.kids[i]] \in Texts
    BY <1>9 DEF Proper
  <2>2. Map(g, x.kids) \in Seq(Texts)
    BY <1>4, <2>1
  <2>3. Proper(body(g, x))
    BY <1>1, <2>2
  <2> QED
    BY <1>8, <2>2, <2>3
<1> HIDE DEF G
<1>10. \A x \in T : x \in G
  BY <1>9, ItemInduction
<1>11. Map(g, item.kids) \in Seq(Texts)
  BY <1>9, <1>10, ItemsAre
<1> QED
  BY <1>8, <1>10, <1>11 DEF Printed, g, G

(* Where a member stands in t, its value is reached.                       *)
LEMMA ObjectMember ==
    ASSUME NEW t \in Texts, NEW fmt \in {0, 1}, NEW i, NEW part, Proper(part),
           StandsAt(t, i, Member("object", part, fmt))
    PROVE  /\ Reaches(t, i, "object") /\ i \in Places(t)
           /\ StandsAt(t, ValuePlace(t, i, "object"), part)
           /\ ValuePlace(t, i, "object") + Len(part) = i + Len(Member("object", part, fmt))
           /\ At(t, skip(t, i)) = "s"
<1> DEFINE w == White(fmt)
           sc == <<"s", "colon">>
           a == w \o sc
           b == a \o w
           c == b \o part
<1>0. sc \in Texts /\ Len(sc) = 2 /\ sc[1] = "s" /\ sc[2] = "colon"
  BY DEF Texts, Tokens
<1>1. Member("object", part, fmt) = c
  BY DEF Member
<1>2. w \in Texts /\ Len(w) = fmt /\ part \in Texts /\ part # <<>> /\ part[1] \in Starts
  BY WhiteType DEF Proper
<1>3. a \in Texts /\ Len(a) = fmt + 2
  <2>1. w \in Texts /\ sc \in Texts /\ Len(w) = fmt /\ Len(sc) = 2
    BY <1>0, <1>2
  <2> HIDE DEF w, sc
  <2>2. a \in Texts /\ Len(a) = Len(w) + Len(sc)
    BY <2>1, ConcatText
  <2> HIDE DEF a
  <2> QED
    BY <2>1, <2>2
<1>4. b \in Texts /\ Len(b) = fmt + 2 + fmt
  <2> HIDE DEF w, a
  <2> QED
    BY <1>2, <1>3, ConcatText
<1>5. StandsAt(t, i, b) /\ StandsAt(t, i + Len(b), part) /\ Len(c) = Len(b) + Len(part) /\ Len(part) \in Nat /\ i \in Nat
  <2> HIDE DEF b
  <2>1. StandsAt(t, i, b \o part)
    BY <1>1
  <2> QED
    BY <1>2, <1>4, <2>1, StandsParts
<1>6. StandsAt(t, i, a) /\ StandsAt(t, i + Len(a), w)
  <2> HIDE DEF a, w
  <2> QED
    BY <1>2, <1>3, <1>5, StandsParts DEF b
<1>7. StandsAt(t, i, w) /\ StandsAt(t, i + fmt, sc)
  <2> HIDE DEF w, sc
  <2> QED
    BY <1>0, <1>2, <1>6, StandsParts DEF a
<1> HIDE DEF a, b, c, sc, w
<1> DEFINE i1 == i + fmt
           i2 == i1 + 1
           i3 == i2 + 1
           i4 == i3 + fmt
<1>8. At(t, i1) = "s" /\ At(t, i2) = "colon" /\ i1 \in Places(t) /\ i2 \in Places(t) /\ i3 \in Places(t)
  <2>1. /\ i1 \in Places(t) /\ i1 + 2 \in Places(t)
        /\ \A k \in 1..2 : At(t, i1 + k - 1) = sc[k]
    BY <1>0, <1>7 DEF StandsAt
  <2>2. i1 + 1 - 1 = i1 /\ i1 + 2 - 1 = i2 /\ i1 + 2 = i3 /\ i1 \in Int
    BY <1>5
  <2>3. At(t, i1) = "s" /\ At(t, i2) = "colon"
    BY <1>0, <2>1, <2>2
  <2>4. i1 + 1 \in Places(t)
    BY <2>1, <2>3, PlaceEnd
  <2> QED
    BY <2>1, <2>2, <2>3, <2>4
<1>9. i3 \in Int /\ i4 \in Int /\ i3 = i + Len(a) /\ i4 = i + Len(b) /\ i1 \in Nat /\ i2 \in Nat
  BY <1>3, <1>4, <1>5
<1>10. i \in Places(t) /\ skip(t, i) = i1
  <2>1. i \in Places(t) /\ skip(t, i) = skip(t, i1)
    BY <1>7, SkipWhite DEF w
  <2> HIDE DEF i1
  <2>2. skip(t, i1) = i1
    BY <1>8, SkipNone
  <2> QED
    BY <2>1, <2>2
<1>11. skip(t, i2) = i2
  <2> HIDE DEF i2
  <2> QED
    BY <1>8, SkipNone
<1>12. StandsAt(t, i4, part) /\ At(t, i4) \in Starts /\ i4 \in Places(t)
  <2>1. StandsAt(t, i4, part)
    BY <1>5, <1>9
  <2> HIDE DEF i4
  <2> QED
    BY <1>2, <2>1, StandsFirst
<1>13. skip(t, i3) = i4
  <2>1. StandsAt(t, i3, White(fmt))
    BY <1>6, <1>9 DEF w
  <2>2. skip(t, i3) = skip(t, i4)
    <3> HIDE DEF i3
    <3> QED
      BY <2>1, SkipWhite
  <2>3. skip(t, i4) = i4
    <3> HIDE DEF i4
    <3> QED
      BY <1>12, SkipNone DEF Starts
  <2> QED
    BY <2>2, <2>3
<1>14. Key(t, i) = i2 /\ i2 # 0
  BY <1>8, <1>9, <1>10 DEF Key, parse_string
<1>15. Colon(t, i) = i2
  BY <1>11, <1>14 DEF Colon
<1>16. Reaches(t, i, "object") /\ ValuePlace(t, i, "object") = i4
  BY <1>8, <1>13, <1>14, <1>15 DEF Reaches, ValuePlace
<1>17. i4 + Len(part) = i + Len(c)
  BY <1>5, <1>9, <1>4
<1> QED
  BY <1>1, <1>8, <1>10, <1>12, <1>16, <1>17

(* Where a member stands, the parser finds its value where it stands.      *)
LEMMA MemberReached ==
    ASSUME NEW t \in Texts, NEW fmt \in {0, 1}, NEW type \in Lists, NEW i, NEW part, Proper(part),
           StandsAt(t, i, Member(type, part, fmt))
    PROVE  /\ Reaches(t, i, type) /\ i \in Places(t)
           /\ StandsAt(t, ValuePlace(t, i, type), part)
           /\ ValuePlace(t, i, type) + Len(part) = i + Len(Member(type, part, fmt))
           /\ At(t, skip(t, i)) # Close(type)
<1>1. CASE type = "array"
  <2>1. StandsAt(t, i, part) /\ Member(type, part, fmt) = part
    BY <1>1 DEF Member
  <2>2. i \in Places(t) /\ At(t, i) \in Starts
    BY <2>1, StandsFirst DEF Proper
  <2>3. skip(t, i) = i
    BY <2>2, SkipNone DEF Starts
  <2> QED
    BY <1>1, <2>1, <2>2, <2>3 DEF Reaches, ValuePlace, Close, Starts
<1>2. CASE type = "object"
  BY <1>2, ObjectMember DEF Close
<1> QED
  BY <1>1, <1>2 DEF Lists

-----------------------------------------------------------------------------
(* The text of x is parsed as x, wherever in t it stands.                  *)
Reads(t, fmt, x) ==
    \A i : StandsAt(t, i, Printed(x, fmt)) =>
        LET r == parse(t)[<<"value", i>>]
        IN  r.end = i + Len(Printed(x, fmt)) /\ r.item = x

(* From e on a list is closed, and parsing goes on at z.                   *)
Closes(t, e, z, type) ==
    e \in Places(t) /\ At(t, skip(t, e)) = Close(type) /\ z = skip(t, e) + 1

LastOf(kids, j) == [k \in 1..j |-> kids[Len(kids) - j + k]]

(* The last kid alone.                                                     *)
LEMMA LastOne ==
    ASSUME NEW kids \in Seq(Items), Len(kids) > 0
    PROVE  LastOf(kids, 1) = <<kids[Len(kids)]>>
  BY DEF LastOf

(* All kids are the last as many.                                          *)
LEMMA LastAll ==
    ASSUME NEW kids \in Seq(Items)
    PROVE  LastOf(kids, Len(kids)) = kids
  BY DEF LastOf

(* One more of the last kids.                                              *)
LEMMA LastNext ==
    ASSUME NEW kids \in Seq(Items), NEW j \in 2..Len(kids)
    PROVE  <<kids[Len(kids) + 1 - j]>> \o LastOf(kids, j - 1) = LastOf(kids, j)
<1> DEFINE n == Len(kids)
           x == kids[n + 1 - j]
           s == LastOf(kids, j - 1)
           u == LastOf(kids, j)
<1>1. n \in Nat /\ j \in Int /\ 2 <= j /\ j <= n
  OBVIOUS
<1>2. \A k \in 1..j : n - j + k \in 1..n
  BY <1>1
<1>3. u \in Seq(Items) /\ Len(u) = j
  BY <1>1, <1>2 DEF LastOf
<1>4. s \in Seq(Items) /\ Len(s) = j - 1 /\ \A k \in 1..(j - 1) : s[k] = kids[n - (j - 1) + k]
  BY <1>1 DEF LastOf
<1>5. x \in Items
  BY <1>1
<1>6. \A k \in 1..j : u[k] = kids[n - j + k]
  BY DEF LastOf
<1> HIDE DEF s, u, x
<1> DEFINE c == <<x>> \o s
<1>7. c \in Seq(Items) /\ Len(c) = j /\ c[1] = x /\ \A k \in 2..j : c[k] = s[k - 1]
  BY <1>1, <1>4, <1>5
<1> HIDE DEF c
<1>8. \A k \in 1..j : c[k] = u[k]
  <2> SUFFICES ASSUME NEW k \in 1..j PROVE c[k] = u[k]
    OBVIOUS
  <2>1. CASE k = 1
    <3>1. n - j + 1 = n + 1 - j
      BY <1>1
    <3> QED
      BY <1>6, <1>7, <2>1, <3>1 DEF x
  <2>2. CASE k # 1
    <3>1. k \in 2..j /\ k - 1 \in 1..(j - 1) /\ n - (j - 1) + (k - 1) = n - j + k
      BY <1>1, <2>2
    <3> QED
      BY <1>4, <1>6, <1>7, <3>1
  <2> QED
    BY <2>1, <2>2
<1>9. c = u
  BY <1>3, <1>7, <1>8
<1> QED
  BY <1>9 DEF c, s, u, x, n

(* The last j kids of a list, as printed and as parsed.                    *)
LastRead(t, fmt, type, kids, last, j) ==
    \A i, z : StandsAt(t, i, last[j]) /\ Closes(t, i + Len(last[j]), z, type) =>
        LET r == parse(t)[<<type, i>>] IN r.end = z /\ r.item = LastOf(kids, j)

(* Where a printed comma stands, the parser goes on behind its white       *)
(* space.                                                                  *)
LEMMA CommaStands ==
    ASSUME NEW t \in Texts, NEW fmt \in {0, 1}, NEW e, StandsAt(t, e, Comma(fmt))
    PROVE  /\ e \in Places(t) /\ At(t, e) = "comma" /\ skip(t, e) = e
           /\ e + 1 \in Places(t) /\ e + Len(Comma(fmt)) \in Places(t)
           /\ skip(t, e + 1) = skip(t, e + Len(Comma(fmt)))
<1> DEFINE c == <<"comma">>
           w == White(fmt)
           d == e + 1
<1>1. c \in Texts /\ Len(c) = 1 /\ c # <<>> /\ c[1] = "comma" /\ w \in Texts /\ Len(w) = fmt
  <2>1. "comma" \in Tokens
    BY DEF Tokens
  <2> QED
    BY <2>1, TokenText, WhiteType
<1>2. Comma(fmt) = c \o w
  BY DEF Comma
<1> HIDE DEF c
<1>3. /\ StandsAt(t, e, c) /\ StandsAt(t, e + Len(c), w)
      /\ Len(Comma(fmt)) = Len(c) + Len(w) /\ e \in Nat
  <2> HIDE DEF w
  <2>1. StandsAt(t, e, c \o w) /\ c \in Texts /\ w \in Texts
    BY <1>1, <1>2
  <2> QED
    BY <1>2, <2>1, StandsParts
<1>4. e \in Places(t) /\ At(t, e) = "comma"
  BY <1>1, <1>3, StandsFirst
<1>5. skip(t, e) = e
  BY <1>4, SkipNone
<1>6. StandsAt(t, d, White(fmt)) /\ d \in Nat /\ d + fmt = e + Len(Comma(fmt))
  BY <1>1, <1>3
<1> HIDE DEF d
<1>7. d \in Places(t) /\ d + fmt \in Places(t) /\ skip(t, d) = skip(t, d + fmt)
  BY <1>6, SkipWhite
<1> QED
  BY <1>4, <1>5, <1>6, <1>7 DEF d

(* Where a printed member stands, its value is parsed back.                *)
LEMMA LastStep ==
    ASSUME NEW t \in Texts, NEW fmt \in {0, 1}, NEW type \in Lists, NEW kids \in Seq(Items),
           NEW x \in Items, Reads(t, fmt, x), NEW part, part = Member(type, Printed(x, fmt), fmt),
           NEW i, StandsAt(t, i, part)
    PROVE  /\ Reaches(t, i, type) /\ i \in Places(t)
           /\ LET v == parse(t)[<<"value", ValuePlace(t, i, type)>>]
              IN  v.end = i + Len(part) /\ v.item = x /\ v.end # 0
<1> DEFINE p == Printed(x, fmt)
           j == ValuePlace(t, i, type)
           v == parse(t)[<<"value", j>>]
<1>1. Proper(p)
  BY PrintedIs
<1>2. Reaches(t, i, type) /\ i \in Places(t) /\ StandsAt(t, j, p) /\ j + Len(p) = i + Len(part)
  BY <1>1, MemberReached
<1>3. v.end = j + Len(p) /\ v.item = x
  BY <1>2 DEF Reads
<1>4. p \in Texts /\ Len(p) \in Nat /\ j \in Nat /\ 1 <= j
  <2>1. j \in Places(t) /\ p \in Texts
    BY <1>1, <1>2 DEF StandsAt, Proper
  <2> HIDE DEF j, p
  <2> QED
    BY <2>1, PlaceType
<1> HIDE DEF v, j, p
<1>5. v.end # 0
  BY <1>3, <1>4
<1> QED
  BY <1>2, <1>3, <1>5 DEF v, j

(* The last kids of a list are parsed back where they stand, however       *)
(* many.                                                                   *)
LEMMA KidsRead ==
    ASSUME NEW t \in Texts, NEW fmt \in {0, 1}, NEW type \in Lists, NEW kids \in Seq(Items),
           \A k \in 1..Len(kids) : Reads(t, fmt, kids[k]),
           NEW texts, texts = Map(AllPrinted(fmt), kids), texts \in Seq(Texts),
           NEW last, LastParts(Comma(fmt), Parts(type, texts, fmt), last)
    PROVE  \A j \in 1..Len(kids) : LastRead(t, fmt, type, kids, last, j)
<1> DEFINE n == Len(kids)
           parts == Parts(type, texts, fmt)
           comma == Comma(fmt)
           I == {j \in 0..n : j = 0 \/ LastRead(t, fmt, type, kids, last, j)}
<1>1. n \in Nat /\ \A k \in 1..n : kids[k] \in Items
  OBVIOUS
<1>2. Len(texts) = n /\ \A k \in 1..n : texts[k] = Printed(kids[k], fmt)
  <2>1. Len(Map(AllPrinted(fmt), kids)) = n /\ \A k \in 1..n : Map(AllPrinted(fmt), kids)[k] = AllPrinted(fmt)[kids[k]]
    BY <1>1, MapLen
  <2> QED
    BY <2>1 DEF Printed
<1>3. Len(parts) = n /\ parts \in Seq(Texts) /\ \A k \in 1..n : parts[k] = Member(type, Printed(kids[k], fmt), fmt)
  <2>1. Len(parts) = n /\ parts \in Seq(Texts)
    BY <1>2, KidsTextType
  <2>2. \A k \in 1..n : parts[k] = Member(type, texts[k], fmt)
    BY <1>2 DEF Parts
  <2> QED
    BY <1>2, <2>1, <2>2
<1>4. /\ \A j \in 1..n : last[j] = parts[n + 1 - j] \o (IF j = 1 THEN <<>> ELSE comma \o last[j - 1])
      /\ \A j \in 0..n : last[j] \in Texts
  BY <1>3 DEF LastParts
<1>5. comma \in Texts
  BY CommaType
<1> HIDE DEF parts, comma
<1>6. ASSUME NEW j \in 1..n, j - 1 \in I PROVE j \in I
  <2> SUFFICES ASSUME NEW i, NEW z, StandsAt(t, i, last[j]), Closes(t, i + Len(last[j]), z, type)
               PROVE  parse(t)[<<type, i>>].end = z /\ parse(t)[<<type, i>>].item = LastOf(kids, j)
    <3>1. LastRead(t, fmt, type, kids, last, j) => j \in I
      <4> DEFINE A == LastRead(t, fmt, type, kids, last, j)
      <4> HIDE DEF A
      <4>1. j \in 0..n /\ A => j \in I
        BY DEF A
      <4> QED
        BY <1>1, <4>1 DEF A
    <3> QED
      BY <3>1 DEF LastRead
  <2> DEFINE q == n + 1 - j
             x == kids[q]
             part == parts[q]
             vp == ValuePlace(t, i, type)
             v == parse(t)[<<"value", vp>>]
             a == skip(t, v.end)
             r == parse(t)[<<type, i>>]
  <2>1. q \in 1..n
    BY <1>1
  <2>2. x \in Items /\ Reads(t, fmt, x) /\ part = Member(type, Printed(x, fmt), fmt) /\ part \in Texts
    BY <1>1, <1>3, <2>1
  <2> HIDE DEF q, x, part
  <2>3. CASE j = 1
    <3>1. last[j] = part
      <4>1. last[j] = part \o <<>>
        BY <1>4, <2>3 DEF part, q
      <4> QED
        BY <2>2, <4>1 DEF Texts
    <3>2. Reaches(t, i, type) /\ i \in Places(t) /\ v.end = i + Len(part) /\ v.item = x /\ v.end # 0
      BY <2>2, <3>1, LastStep
    <3>3. At(t, a) = Close(type) /\ z = a + 1
      BY <3>1, <3>2 DEF Closes
    <3>4. r = Result(a + 1, 0, <<v.item>>, v.made)
      BY <3>2, <3>3, MembersCases
    <3>5. r.end = z /\ r.item = <<x>>
      BY <3>2, <3>3, <3>4 DEF Result
    <3>6. LastOf(kids, j) = <<x>>
      <4>1. n > 0 /\ q = n /\ x = kids[n]
        BY <1>1, <2>3 DEF q, x
      <4> QED
        BY <2>3, <4>1, LastOne
    <3> QED
      BY <3>5, <3>6
  <2>4. CASE j # 1
    <3> DEFINE k == j - 1
               l == last[k]
               e == i + Len(part)
               f == e + Len(comma)
               rest == parse(t)[<<type, e + 1>>]
    <3>1. j \in 2..n /\ k \in 0..n /\ k # 0 /\ k \in I /\ l \in Texts
      BY <1>1, <1>4, <1>6, <2>4
    <3>2. last[j] = part \o (comma \o l)
      BY <1>4, <2>4 DEF part, q
    <3> HIDE DEF l, k
    <3>3. comma \o l \in Texts
      BY <1>5, <3>1, ConcatText
    <3>4. /\ StandsAt(t, i, part) /\ StandsAt(t, e, comma \o l)
          /\ Len(last[j]) = Len(part) + Len(comma \o l) /\ i \in Nat /\ Len(part) \in Nat
      BY <2>2, <3>2, <3>3, StandsParts
    <3>5. /\ StandsAt(t, e, comma) /\ StandsAt(t, f, l)
          /\ Len(comma \o l) = Len(comma) + Len(l) /\ Len(comma) \in Nat /\ Len(l) \in Nat
      <4> HIDE DEF e
      <4> QED
        BY <1>5, <3>1, <3>4, StandsParts
    <3>6. Reaches(t, i, type) /\ i \in Places(t) /\ v.end = e /\ v.item = x /\ v.end # 0
      BY <2>2, <3>4, LastStep
    <3>7. /\ At(t, e) = "comma" /\ skip(t, e) = e /\ e + 1 \in Places(t) /\ f \in Places(t)
          /\ skip(t, e + 1) = skip(t, f)
      <4> HIDE DEF e
      <4> QED
        BY <3>5, CommaStands DEF comma
    <3>8. a = e /\ At(t, a) = "comma"
      BY <3>6, <3>7
    <3>9. r = Result(rest.end, rest.ep, <<v.item>> \o rest.item, v.made + rest.made)
      <4>1. LET s == parse(t)[<<type, a + 1>>]
            IN  r = Result(s.end, s.ep, <<v.item>> \o s.item, v.made + s.made)
        BY <3>6, <3>8, MembersCases
      <4> HIDE DEF r, v, a, e
      <4> QED
        BY <3>8, <4>1
    <3>10. rest = parse(t)[<<type, f>>]
      <4> DEFINE d == e + 1
      <4>1. d \in Places(t) /\ f \in Places(t) /\ skip(t, d) = skip(t, f) /\ rest = parse(t)[<<type, d>>]
        BY <3>7
      <4> HIDE DEF d, f
      <4> QED
        BY <4>1, ListFrom
    <3>11. i + Len(last[j]) = f + Len(l)
      BY <3>4, <3>5
    <3>12. parse(t)[<<type, f>>].end = z /\ parse(t)[<<type, f>>].item = LastOf(kids, k)
      <4>1. LastRead(t, fmt, type, kids, last, k)
        BY <3>1
      <4>2. StandsAt(t, f, last[k]) /\ Closes(t, f + Len(last[k]), z, type)
        BY <3>5, <3>11 DEF l
      <4> HIDE DEF f
      <4> QED
        BY <4>1, <4>2 DEF LastRead
    <3>13. r.end = z /\ r.item = <<x>> \o LastOf(kids, k)
      <4> HIDE DEF r, v, rest, f, e
      <4> QED
        BY <3>6, <3>9, <3>10, <3>12 DEF Result
    <3>14. <<x>> \o LastOf(kids, k) = LastOf(kids, j)
      BY <3>1, LastNext DEF x, q, k
    <3> QED
      BY <3>13, <3>14
  <2> QED
    BY <2>3, <2>4
<1>7. 0 \in I
  BY <1>1
<1> HIDE DEF I
<1>8. \A j \in 0..n : j \in I
  BY <1>1, <1>6, <1>7, UpTo
<1> QED
  BY <1>8, <1>1 DEF I

(* The kids of a list stand at b, between brackets at i and before z.      *)
LEMMA ListRead ==
    ASSUME NEW t \in Texts, NEW fmt \in {0, 1}, NEW x \in Items, x.type \in Lists,
           \A k \in 1..Len(x.kids) : Reads(t, fmt, x.kids[k]),
           NEW i \in Places(t), At(t, i) = Open(x.type),
           NEW kids, kids = KidsText(x.type, Map(AllPrinted(fmt), x.kids), fmt),
           NEW b, StandsAt(t, b, kids), skip(t, i + 1) = skip(t, b),
           NEW e, e = b + Len(kids), NEW z, Closes(t, e, z, x.type)
    PROVE  parse(t)[<<"value", i>>].end = z /\ parse(t)[<<"value", i>>].item = x
<1> DEFINE type == x.type
           n == Len(x.kids)
           texts == Map(AllPrinted(fmt), x.kids)
           parts == Parts(type, texts, fmt)
           f == skip(t, i + 1)
           r == parse(t)[<<"value", i>>]
           m == parse(t)[<<type, f>>]
<1>1. n \in Nat /\ x.kids \in Seq(Items) /\ x = [type |-> x.type, kids |-> x.kids]
      /\ \A k \in 1..n : x.kids[k] \in Items
  BY ItemsAre
<1>2. texts \in Seq(Texts) /\ Len(texts) = n
  BY <1>1, PrintedIs, MapLen
<1>3. parts \in Seq(Texts) /\ Len(parts) = n
  <2> HIDE DEF texts
  <2> QED
    BY <1>2, KidsTextType
<1>4. PICK last : LastParts(Comma(fmt), parts, last) /\ kids = last[Len(parts)]
  <2>1. kids = Separated(Comma(fmt), parts)
    BY DEF KidsText
  <2> HIDE DEF parts
  <2> QED
    BY <1>3, <2>1, CommaType, SeparatedIs
<1>5. /\ f \in Places(t) /\ i + 1 \in Places(t)
      /\ At(t, f) = Close(type) => r = Result(f + 1, 0, Item(type, <<>>), 1)
      /\ At(t, f) # Close(type) => r = Result(m.end, m.ep, Item(type, m.item), m.made + 1)
  BY ValueCases
<1>6. b \in Places(t) /\ b \in Int
  <2>1. b \in Places(t)
    BY DEF StandsAt
  <2> QED
    BY <2>1, PlaceType
<1>7. CASE n = 0
  <2>1. kids = <<>>
    BY <1>3, <1>4, <1>7 DEF LastParts
  <2>2. b + Len(kids) = b
    BY <1>6, <2>1
  <2>3. At(t, f) = Close(type) /\ z = f + 1
    BY <2>2 DEF Closes
  <2>4. x.kids = <<>>
    BY <1>1, <1>7
  <2>5. r.end = f + 1 /\ r.item = Item(type, <<>>)
    BY <1>5, <2>3 DEF Result
  <2> QED
    BY <1>1, <2>3, <2>4, <2>5 DEF Item
<1>8. CASE n # 0
  <2>1. n \in 1..n /\ kids = last[n]
    BY <1>1, <1>3, <1>4, <1>8
  <2>2. LastRead(t, fmt, type, x.kids, last, n)
    <3> DEFINE s == x.kids
    <3>1. \A j \in 1..Len(s) : LastRead(t, fmt, type, s, last, j)
      <4>1. s \in Seq(Items) /\ \A k \in 1..Len(s) : Reads(t, fmt, s[k])
        BY <1>1
      <4>2. texts = Map(AllPrinted(fmt), s) /\ LastParts(Comma(fmt), Parts(type, texts, fmt), last)
        BY <1>4
      <4>3. type \in Lists
        OBVIOUS
      <4> HIDE DEF s, texts, type
      <4> QED
        BY <1>2, <4>1, <4>2, <4>3, KidsRead
    <3> QED
      BY <2>1, <3>1
  <2>3. parse(t)[<<type, b>>].end = z /\ parse(t)[<<type, b>>].item = x.kids
    <3>1. parse(t)[<<type, b>>].end = z /\ parse(t)[<<type, b>>].item = LastOf(x.kids, n)
      BY <2>1, <2>2 DEF LastRead
    <3> QED
      BY <1>1, <3>1, LastAll
  <2>4. m = parse(t)[<<type, b>>]
    <3>1. skip(t, f) = skip(t, b)
      BY <1>5, SkipTwice
    <3> HIDE DEF f
    <3> QED
      BY <1>5, <1>6, <3>1, ListFrom
  <2>5. At(t, f) # Close(type)
    <3> DEFINE y == x.kids[1]
               p == Printed(y, fmt)
               part == Member(type, p, fmt)
               more == IF n = 1 THEN <<>> ELSE Comma(fmt) \o last[n - 1]
    <3>1. y \in Items
      BY <1>1, <1>8
    <3>2. Proper(p)
      BY <3>1, PrintedIs
    <3>3. part \in Texts
      BY <3>2, MemberType DEF Proper
    <3>4. parts[1] = part
      <4>1. texts[1] = AllPrinted(fmt)[y]
        BY <1>1, <1>8, MapLen
      <4>2. parts[1] = Member(type, texts[1], fmt)
        BY <1>1, <1>2, <1>8 DEF Parts
      <4> QED
        BY <4>1, <4>2 DEF Printed
    <3>5. last[n] = parts[1] \o more
      <4> DEFINE d == n + 1 - n
      <4>1. d = 1
        BY <1>1
      <4>2. last[n] = parts[d] \o more
        <5> HIDE DEF parts
        <5>1. n \in 1..Len(parts) /\ Len(parts) + 1 - n = d
          BY <1>3, <2>1
        <5> HIDE DEF d, n
        <5> QED
          BY <1>4, <5>1 DEF LastParts
      <4> QED
        BY <4>1, <4>2
    <3>6. more \in Texts
      <4>1. CASE n = 1
        BY <4>1 DEF Texts
      <4>2. CASE n # 1
        <5>1. last[n - 1] \in Texts
          BY <1>1, <1>3, <1>4, <1>8, <4>2 DEF LastParts
        <5> QED
          BY <4>2, <5>1, CommaType, ConcatText
      <4> QED
        BY <4>1, <4>2
    <3>7. StandsAt(t, b, part \o more)
      BY <2>1, <3>4, <3>5
    <3> HIDE DEF more
    <3>8. StandsAt(t, b, part)
      <4> HIDE DEF part
      <4> QED
        BY <3>3, <3>6, <3>7, StandsParts
    <3>9. At(t, skip(t, b)) # Close(type)
      <4> HIDE DEF p
      <4> QED
        BY <3>2, <3>8, MemberReached
    <3> QED
      BY <3>9
  <2>6. r.end = m.end /\ r.item = Item(type, m.item)
    BY <1>5, <2>5 DEF Result
  <2> QED
    BY <1>1, <2>3, <2>4, <2>6 DEF Item
<1> QED
  BY <1>7, <1>8

(* A printed bracket behind printed white space closes a list.             *)
LEMMA ClosesAfter ==
    ASSUME NEW t \in Texts, NEW fmt \in {0, 1}, NEW type \in Lists, NEW e, StandsAt(t, e, White(fmt)),
           StandsAt(t, e + fmt, <<Close(type)>>)
    PROVE  Closes(t, e, e + fmt + 1, type)
<1> DEFINE c == <<Close(type)>>
           f == e + fmt
<1>1. c \in Texts /\ c # <<>> /\ c[1] = Close(type)
  <2>1. Close(type) \in Tokens
    BY DEF Close, Tokens
  <2> QED
    BY <2>1, TokenText
<1> HIDE DEF c
<1>2. e \in Places(t) /\ e \in Nat /\ skip(t, e) = skip(t, f)
  BY SkipWhite
<1>3. StandsAt(t, f, c)
  BY DEF c
<1> HIDE DEF f
<1>4. f \in Places(t) /\ At(t, f) = Close(type)
  BY <1>1, <1>3, StandsFirst
<1>5. skip(t, f) = f
  BY <1>4, SkipNone DEF Close
<1> QED
  BY <1>2, <1>4, <1>5 DEF Closes, f

(* An array is parsed back where it stands, when its kids are.             *)
LEMMA ArrayRead ==
    ASSUME NEW t \in Texts, NEW fmt \in {0, 1}, NEW x \in Items, x.type = "array",
           \A k \in 1..Len(x.kids) : Reads(t, fmt, x.kids[k])
    PROVE  Reads(t, fmt, x)
<1> SUFFICES ASSUME NEW i, StandsAt(t, i, Printed(x, fmt))
             PROVE  /\ parse(t)[<<"value", i>>].end = i + Len(Printed(x, fmt))
                    /\ parse(t)[<<"value", i>>].item = x
  BY DEF Reads
<1> DEFINE kids == KidsText(x.type, Map(AllPrinted(fmt), x.kids), fmt)
           a == <<"lbrack">>
           z == <<"rbrack">>
           s == a \o kids
           b == i + 1
           e == b + Len(kids)
<1>1. Printed(x, fmt) = s \o z
  BY PrintedIs DEF Form
<1>2. kids \in Texts
  BY PrintedIs, KidsTextType
<1>3. /\ a \in Texts /\ Len(a) = 1 /\ a # <<>> /\ a[1] = "lbrack"
      /\ z \in Texts /\ Len(z) = 1 /\ z # <<>> /\ z[1] = "rbrack"
  <2>1. "lbrack" \in Tokens /\ "rbrack" \in Tokens
    BY DEF Tokens
  <2> QED
    BY <2>1, TokenText
<1> HIDE DEF kids, a
<1>4. s \in Texts /\ Len(s) = 1 + Len(kids) /\ Len(kids) \in Nat
  BY <1>2, <1>3, ConcatText
<1>5. StandsAt(t, i, s) /\ StandsAt(t, i + Len(s), z) /\ Len(s \o z) = Len(s) + 1 /\ i \in Nat
  <2>1. StandsAt(t, i, s \o z)
    BY <1>1
  <2> HIDE DEF s, z
  <2>2. StandsAt(t, i, s) /\ StandsAt(t, i + Len(s), z)
    BY <1>3, <1>4, <2>1, StandsParts
  <2>3. Len(s \o z) = Len(s) + 1
    <3>1. Len(s \o z) = Len(s) + Len(z)
      BY <1>3, <1>4, ConcatText
    <3> QED
      BY <1>3, <3>1
  <2>4. i \in Nat
    BY <2>2, PlaceType DEF StandsAt
  <2> QED
    BY <2>2, <2>3, <2>4
<1>6. StandsAt(t, i, a) /\ StandsAt(t, b, kids)
  BY <1>2, <1>3, <1>5, StandsParts
<1>7. i \in Places(t) /\ At(t, i) = Open(x.type)
  BY <1>3, <1>6, StandsFirst DEF Open
<1>8. StandsAt(t, e, z) /\ e = i + Len(s) /\ e \in Int
  BY <1>4, <1>5
<1>9. Closes(t, e, e + 1, x.type)
  <2>1. e \in Places(t) /\ At(t, e) = "rbrack"
    <3> HIDE DEF e, z
    <3> QED
      BY <1>3, <1>8, StandsFirst
  <2>2. skip(t, e) = e
    <3> HIDE DEF e
    <3> QED
      BY <2>1, SkipNone
  <2> QED
    BY <2>1, <2>2 DEF Closes, Close
<1>10. parse(t)[<<"value", i>>].end = e + 1 /\ parse(t)[<<"value", i>>].item = x
  <2> DEFINE c == e + 1
  <2>1. skip(t, i + 1) = skip(t, b) /\ x.type \in Lists
    BY DEF Lists
  <2>2. StandsAt(t, b, kids) /\ Closes(t, e, c, x.type) /\ e = b + Len(kids)
    BY <1>6, <1>9
  <2>3. kids = KidsText(x.type, Map(AllPrinted(fmt), x.kids), fmt)
    BY DEF kids
  <2> HIDE DEF b, c, e
  <2>4. parse(t)[<<"value", i>>].end = c /\ parse(t)[<<"value", i>>].item = x
    BY <1>7, <2>1, <2>2, <2>3, ListRead, ZenonT(120)
  <2> QED
    BY <2>4 DEF c
<1>11. i + Len(s \o z) = e + 1
  <2> DEFINE m == Len(s)
             l == Len(s \o z)
  <2>1. m \in Nat /\ l = m + 1 /\ e = i + m
    <3> HIDE DEF z, e
    <3> QED
      BY <1>4, <1>5, <1>8
  <2> HIDE DEF m, l, e
  <2>2. i + l = e + 1
    BY <1>5, <2>1
  <2> QED
    BY <2>2 DEF l
<1> HIDE DEF s, z, e
<1> QED
  BY <1>1, <1>10, <1>11

(* An object is parsed back where it stands, when its kids are.            *)
LEMMA ObjectRead ==
    ASSUME NEW t \in Texts, NEW fmt \in {0, 1}, NEW x \in Items, x.type = "object",
           \A k \in 1..Len(x.kids) : Reads(t, fmt, x.kids[k])
    PROVE  Reads(t, fmt, x)
<1> SUFFICES ASSUME NEW i, StandsAt(t, i, Printed(x, fmt))
             PROVE  /\ parse(t)[<<"value", i>>].end = i + Len(Printed(x, fmt))
                    /\ parse(t)[<<"value", i>>].item = x
  BY DEF Reads
<1> DEFINE kids == KidsText(x.type, Map(AllPrinted(fmt), x.kids), fmt)
           a == <<"lbrace">>
           w == White(fmt)
           z == <<"rbrace">>
           s == a \o w
           u == s \o kids
           v == u \o w
           b == i + Len(s)
           e == b + Len(kids)
<1>1. Printed(x, fmt) = v \o z
  BY PrintedIs DEF Form
<1>2. kids \in Texts
  BY PrintedIs, KidsTextType
<1>3. /\ a \in Texts /\ Len(a) = 1 /\ a # <<>> /\ a[1] = "lbrace"
      /\ z \in Texts /\ Len(z) = 1 /\ z # <<>> /\ z[1] = "rbrace"
      /\ w \in Texts /\ Len(w) = fmt
  <2>1. "lbrace" \in Tokens /\ "rbrace" \in Tokens
    BY DEF Tokens
  <2> QED
    BY <2>1, TokenText, WhiteType
<1> HIDE DEF kids, a, w, z
<1>4. s \in Texts /\ Len(s) = 1 + fmt
  BY <1>3, ConcatText
<1> HIDE DEF s
<1>5. u \in Texts /\ Len(u) = 1 + fmt + Len(kids) /\ Len(kids) \in Nat
  BY <1>2, <1>4, ConcatText
<1> HIDE DEF u
<1>6. v \in Texts /\ Len(v) = 1 + fmt + Len(kids) + fmt
  <2>1. v \in Texts /\ Len(v) = Len(u) + Len(w)
    BY <1>3, <1>5, ConcatText
  <2> HIDE DEF v
  <2> QED
    BY <1>3, <1>5, <2>1
<1> HIDE DEF v
<1>7. StandsAt(t, i, v) /\ StandsAt(t, i + Len(v), z) /\ Len(v \o z) = Len(v) + 1 /\ i \in Nat
  <2>1. StandsAt(t, i, v \o z)
    BY <1>1
  <2>2. StandsAt(t, i, v) /\ StandsAt(t, i + Len(v), z)
    BY <1>3, <1>6, <2>1, StandsParts
  <2>3. Len(v \o z) = Len(v) + 1
    BY <1>3, <1>6, ConcatText
  <2>4. i \in Nat
    BY <2>2, PlaceType DEF StandsAt
  <2> QED
    BY <2>2, <2>3, <2>4
<1>8. StandsAt(t, i, u) /\ StandsAt(t, i + Len(u), w)
  <2>1. StandsAt(t, i, u \o w)
    BY <1>7 DEF v
  <2> QED
    BY <1>3, <1>5, <2>1, StandsParts
<1>9. StandsAt(t, i, s) /\ StandsAt(t, b, kids)
  <2>1. StandsAt(t, i, s \o kids)
    BY <1>8 DEF u
  <2> QED
    BY <1>2, <1>4, <2>1, StandsParts
<1>10. StandsAt(t, i, a) /\ StandsAt(t, i + 1, w)
  <2>1. StandsAt(t, i, a \o w)
    BY <1>9 DEF s
  <2> QED
    BY <1>3, <2>1, StandsParts
<1>11. i \in Places(t) /\ At(t, i) = Open(x.type)
  BY <1>3, <1>10, StandsFirst DEF Open
<1>12. e \in Int /\ e = i + Len(u) /\ e + fmt = i + Len(v) /\ b = (i + 1) + fmt /\ e + fmt + 1 = i + Len(v \o z)
  BY <1>4, <1>5, <1>6, <1>7
<1>13. skip(t, i + 1) = skip(t, b)
  <2> DEFINE d == i + 1
  <2>1. StandsAt(t, d, White(fmt)) /\ b = d + fmt
    BY <1>10, <1>12 DEF w
  <2> HIDE DEF d, b
  <2>2. skip(t, d) = skip(t, b)
    BY <2>1, SkipWhite
  <2> QED
    BY <2>2 DEF d
<1>14. Closes(t, e, e + fmt + 1, x.type)
  <2>1. StandsAt(t, e, White(fmt)) /\ StandsAt(t, e + fmt, <<Close("object")>>)
    BY <1>7, <1>8, <1>12 DEF w, z, Close
  <2>2. "object" \in Lists
    BY DEF Lists
  <2> HIDE DEF e
  <2> QED
    BY <2>1, <2>2, ClosesAfter
<1>15. parse(t)[<<"value", i>>].end = e + fmt + 1 /\ parse(t)[<<"value", i>>].item = x
  <2> DEFINE c == e + fmt + 1
  <2>1. skip(t, i + 1) = skip(t, b) /\ x.type \in Lists
    BY <1>13 DEF Lists
  <2>2. StandsAt(t, b, kids) /\ Closes(t, e, c, x.type) /\ e = b + Len(kids)
    BY <1>9, <1>14
  <2>3. kids = KidsText(x.type, Map(AllPrinted(fmt), x.kids), fmt)
    BY DEF kids
  <2> HIDE DEF b, c, e
  <2>4. parse(t)[<<"value", i>>].end = c /\ parse(t)[<<"value", i>>].item = x
    BY <1>11, <2>1, <2>2, <2>3, ListRead, ZenonT(120)
  <2> QED
    BY <2>4 DEF c
<1> QED
  BY <1>1, <1>12, <1>15

(* A literal, a number or a string is parsed back where it stands.         *)
LEMMA LeafRead ==
    ASSUME NEW t \in Texts, NEW fmt \in {0, 1}, NEW x \in Items, x.type \in {"v", "string"}
    PROVE  Reads(t, fmt, x)
<1> SUFFICES ASSUME NEW i, StandsAt(t, i, Printed(x, fmt))
             PROVE  /\ parse(t)[<<"value", i>>].end = i + Len(Printed(x, fmt))
                    /\ parse(t)[<<"value", i>>].item = x
  BY DEF Reads
<1> DEFINE c == IF x.type = "v" THEN "v" ELSE "s"
           r == parse(t)[<<"value", i>>]
<1>1. Printed(x, fmt) = <<c>>
  BY PrintedIs DEF Form
<1>2. <<c>> \in Texts /\ Len(<<c>>) = 1 /\ <<c>> # <<>> /\ <<c>>[1] = c
  <2>1. c \in Tokens
    BY DEF Tokens
  <2> HIDE DEF c
  <2> QED
    BY <2>1, TokenText
<1>3. At(t, i) = c /\ i \in Places(t)
  <2> DEFINE s == <<c>>
  <2>1. StandsAt(t, i, s) /\ s \in Texts /\ s # <<>> /\ s[1] = c
    BY <1>1, <1>2
  <2> HIDE DEF s, c
  <2> QED
    BY <2>1, StandsFirst
<1>4. x = Item(x.type, <<>>)
  BY ItemsAre DEF Item, Leaves, Values
<1>5. r = Result(i + 1, 0, Item(x.type, <<>>), 1)
  BY <1>3, ValueCases DEF Values
<1> QED
  BY <1>1, <1>2, <1>4, <1>5 DEF Result

(* Every item whose numbers a double holds is parsed back where it stands. *)
LEMMA AllRead ==
    ASSUME NEW t \in Texts, NEW fmt \in {0, 1}
    PROVE  \A x \in Items : x \in Readable => Reads(t, fmt, x)
<1> DEFINE leaves == {"v", "string"}
           G == {x \in Items : x \in Readable => Reads(t, fmt, x)}
<1>1. ASSUME NEW x \in Items, \A k \in 1..Len(x.kids) : x.kids[k] \in G, x \in Readable
      PROVE  Reads(t, fmt, x)
  <2>1. Readable = Trees(leaves)[Levels]
    BY DEF Readable
  <2> HIDE DEF leaves
  <2>2. x.type \in leaves \cup Lists /\ \A k \in 1..Len(x.kids) : x.kids[k] \in Readable
    BY <1>1, <2>1, ItemParts
  <2>3. \A k \in 1..Len(x.kids) : Reads(t, fmt, x.kids[k])
    BY <1>1, <2>2
  <2>4. x.type \in leaves \/ x.type = "array" \/ x.type = "object"
    BY <2>2 DEF Lists
  <2> QED
    BY <2>3, <2>4, LeafRead, ArrayRead, ObjectRead DEF leaves
<1>2. \A x \in Items : (\A k \in 1..Len(x.kids) : x.kids[k] \in G) => x \in G
  BY <1>1
<1> HIDE DEF G
<1>3. \A x \in Items : x \in G
  BY <1>2, ItemInduction
<1> QED
  BY <1>3 DEF G

(* What is printed, formatted or not, of a tree whose numbers a double     *)
(* holds is parsed back to a tree of the same form.                        *)
THEOREM PrintParsesTheorem == Spec => []PrintParses
<1>1. TextType => PrintParses
  <2> SUFFICES ASSUME TextType, Accepted, Parse.item \in Readable, NEW fmt \in {0, 1}
               PROVE  ReadAs(cJSON_ParseWithOpts(Printed(Parse.item, fmt), TRUE), Parse.item)
    BY DEF PrintParses
  <2> DEFINE x == Parse.item
             t == Printed(x, fmt)
             r == parse(t)[<<"value", skip(t, 1)>>]
             n == Len(t)
             e == skip(t, r.end)
             o == cJSON_ParseWithOpts(t, TRUE)
  <2>1. x \in Items /\ x \in Readable
    BY AcceptedItem
  <2> HIDE DEF x
  <2>2. t \in Texts /\ t # <<>> /\ t[1] \in Starts
    BY <2>1, PrintedIs DEF Proper
  <2>3. Reads(t, fmt, x)
    BY <2>1, <2>2, AllRead
  <2> HIDE DEF t
  <2>4. n \in Nat /\ 1 \in Places(t) /\ n + 1 \in Places(t) /\ 1 + n = n + 1
    <3>1. n \in Nat
      BY <2>2, PlaceType
    <3>2. 1 \in Int /\ 1 <= n + 1 /\ n + 1 \in Int
      BY <3>1
    <3> HIDE DEF n
    <3> QED
      BY <2>2, <3>1, <3>2, PlaceType DEF n
  <2>5. StandsAt(t, 1, t)
    <3>1. \A k \in 1..n : At(t, 1 + k - 1) = t[k]
      BY <2>4 DEF At
    <3> QED
      BY <2>4, <3>1 DEF StandsAt
  <2>6. skip(t, 1) = 1
    <3> DEFINE one == 1
    <3>1. StandsAt(t, one, t) /\ one = 1
      BY <2>5
    <3> HIDE DEF one
    <3>2. At(t, one) \in Starts /\ one \in Places(t)
      BY <2>2, <3>1, StandsFirst
    <3>3. skip(t, one) = one
      BY <2>2, <3>2, SkipNone DEF Starts
    <3> QED
      BY <3>1, <3>3
  <2>7. r.end = n + 1 /\ r.item = x
    BY <2>3, <2>4, <2>5, <2>6 DEF Reads, t
  <2>8. /\ r.end # 0 => e \in Places(t)
        /\ o = r \/ (r.end # 0 /\ e <= n /\ o = Refused(e, r.item, r.made))
    BY <2>2, OptsCases
  <2>9. e = n + 1
    <3>1. e \in (n + 1)..(n + 1)
      <4> DEFINE m == n + 1
      <4>1. e = skip(t, m) /\ m \in Places(t)
        BY <2>4, <2>7
      <4> HIDE DEF m, e
      <4>2. e \in m..(n + 1)
        BY <2>2, <4>1, SkipStops
      <4> QED
        BY <4>2 DEF m
    <3> HIDE DEF e, n
    <3> QED
      BY <2>4, <3>1
  <2> HIDE DEF r, e, n, o
  <2>10. o = r
    BY <2>4, <2>8, <2>9
  <2>11. o.end # 0 /\ o.item = x
    BY <2>4, <2>7, <2>10
  <2> QED
    BY <2>11 DEF ReadAs, o, x, t
<1> QED
  BY <1>1, TextTypeKept, PTL

-----------------------------------------------------------------------------
(* The printbuffer.                                                        *)

(* The power of two that pow2gt returns is a number with room for x, and   *)
(* less than twice as much.                                                *)
LEMMA PowerFound ==
    ASSUME NEW x \in Nat, x > 0
    PROVE  pow2gt(x) \in Nat /\ pow2gt(x) >= x /\ pow2gt(x) < 2 * x
<1> DEFINE next == [k \in 1..x |-> [a \in Nat |-> 2 * a]]
           R(f) == [k \in 0..x |-> IF k = 0 THEN 1 ELSE 2 * f[k - 1]]
           g == CHOOSE f : f = R(f)
<1>1. Steps(x, Nat, 1, next)
  BY DEF Steps
<1>2. PICK f : Follows(x, Nat, 1, next, f)
  BY <1>1, Recursion
<1>3. f \in [0..x -> Nat] /\ f[0] = 1 /\ \A k \in 1..x : f[k] = 2 * f[k - 1]
  <2>1. f \in [0..x -> Nat] /\ f[0] = 1 /\ \A k \in 1..x : f[k] = next[k][f[k - 1]]
    <3> HIDE DEF next
    <3> QED
      BY <1>2 DEF Follows
  <2>2. ASSUME NEW k \in 1..x PROVE f[k] = 2 * f[k - 1]
    <3>1. f[k - 1] \in Nat
      BY <2>1
    <3>2. f[k] = next[k][f[k - 1]]
      BY <2>1
    <3> QED
      BY <3>1, <3>2
  <2> QED
    BY <2>1, <2>2
<1>4. f = R(f)
  <2>1. ASSUME NEW k \in 0..x PROVE f[k] = IF k = 0 THEN 1 ELSE 2 * f[k - 1]
    BY <1>3
  <2> QED
    BY <1>3, <2>1
<1>5. g = R(g)
  <2> HIDE DEF R
  <2> QED
    BY <1>4
<1> HIDE DEF g
<1>6. /\ g[0] = 1
      /\ \A k \in 1..x : g[k] = 2 * g[k - 1]
  BY <1>5
<1> DEFINE I == {k \in 0..x : g[k] \in Nat /\ g[k] > k}
<1>7. \A k \in 0..x : k \in I
  <2>1. 0 \in I
    BY <1>6
  <2>2. ASSUME NEW k \in 1..x, k - 1 \in I PROVE k \in I
    <3>1. g[k] = 2 * g[k - 1] /\ g[k - 1] \in Nat /\ g[k - 1] > k - 1
      BY <1>6, <2>2
    <3> QED
      BY <3>1
  <2> HIDE DEF I
  <2> QED
    BY <2>1, <2>2, UpTo
<1> DEFINE J == {k \in 0..x : g[k] >= x}
<1>8. PICK j \in J : \A k \in J : j <= k
  <2>1. x \in J
    BY <1>7
  <2>2. J \in SUBSET Nat /\ J # {}
    BY <2>1
  <2> HIDE DEF J
  <2> QED
    BY <2>2, LeastNumber
<1>9. j \in 0..x /\ g[j] >= x /\ g[j] < 2 * x
  <2>1. CASE j = 0
    BY <1>6, <1>8, <2>1
  <2>2. CASE j # 0
    <3>1. j \in 1..x /\ j - 1 \in 0..x /\ g[j - 1] \in Nat /\ g[j] = 2 * g[j - 1]
      BY <1>6, <1>7, <1>8, <2>2
    <3>2. ~(g[j - 1] >= x)
      BY <1>8, <3>1
    <3> QED
      BY <1>8, <3>1, <3>2
  <2> QED
    BY <2>1, <2>2
<1> DEFINE c == CHOOSE k \in 0..x : g[k] >= x /\ g[k] < 2 * x
<1>10. c \in 0..x /\ g[c] >= x /\ g[c] < 2 * x
  BY <1>9
<1>11. pow2gt(x) = g[c]
  BY DEF pow2gt, g
<1> HIDE DEF c
<1> QED
  BY <1>7, <1>10, <1>11

(* A buffer that was started with size bytes and never asked for more than *)
(* most, of which all bytes are final, or those before the tail.           *)
Sized(p, size, most) ==
    p \in Buffers /\ ~p.over /\ (p.length = size \/ p.length < 2 * most)
Ready(p, size, most, n) == Sized(p, size, most) /\ p.tail = 0 /\ p.offset = n
Ended(p, size, most, n) == Sized(p, size, most) /\ p.offset + p.tail = n

(* Every operation makes a buffer of a buffer.                             *)
LEMMA EnsureType ==
    ASSUME NEW p \in Buffers, NEW needed \in Nat
    PROVE  /\ ensure(p, needed) \in Buffers
           /\ ensure(p, needed).offset = p.offset /\ ensure(p, needed).tail = p.tail
           /\ ensure(p, needed).over = p.over
           /\ ensure(p, needed).length >= needed + p.offset
           /\ \/ ensure(p, needed).length = p.length
              \/ ensure(p, needed).length < 2 * (needed + p.offset)
<1> DEFINE x == needed + p.offset
<1>1. p.length \in Nat /\ p.offset \in Nat /\ x \in Nat
  BY DEF Buffers
<1>2. CASE x <= p.length
  <2>1. ensure(p, needed) = p
    BY <1>2 DEF ensure
  <2> QED
    BY <1>1, <1>2, <2>1
<1>3. CASE ~(x <= p.length)
  <2>1. ensure(p, needed) = [p EXCEPT !.length = pow2gt(x)]
    BY <1>3 DEF ensure
  <2>2. x > 0
    BY <1>1, <1>3
  <2> HIDE DEF x
  <2>3. pow2gt(x) \in Nat /\ pow2gt(x) >= x /\ pow2gt(x) < 2 * x
    BY <1>1, <2>2, PowerFound
  <2>4. [p EXCEPT !.length = pow2gt(x)] =
            [length |-> pow2gt(x), offset |-> p.offset, tail |-> p.tail, over |-> p.over]
    BY DEF Buffers
  <2>5. ensure(p, needed) \in Buffers
    BY <2>1, <2>3 DEF Buffers
  <2> QED
    BY <2>1, <2>3, <2>4, <2>5 DEF x
<1> QED
  BY <1>2, <1>3

(* Put makes a buffer of a buffer.                                         *)
LEMMA PutType ==
    ASSUME NEW p \in Buffers, NEW needed \in Nat, NEW written \in Nat, NEW final \in Nat
    PROVE  Put(p, needed, written, final) \in Buffers
<1> DEFINE q == ensure(p, needed)
<1>1. q \in Buffers
  BY EnsureType
<1> HIDE DEF q
<1>2. [q EXCEPT !.over = @ \/ q.offset + written > q.length, !.offset = @ + final] \in Buffers
  <2>1. (q.over \/ q.offset + written > q.length) \in BOOLEAN /\ q.offset + final \in Nat
    BY <1>1 DEF Buffers
  <2> QED
    BY <1>1, <2>1 DEF Buffers
<1> QED
  BY <1>2 DEF Put, q

(* PutLast makes a buffer of a buffer.                                     *)
LEMMA PutLastType ==
    ASSUME NEW p \in Buffers, NEW needed \in Nat, NEW n \in Nat
    PROVE  PutLast(p, needed, n) \in Buffers
<1> DEFINE q == Put(p, needed, n + 1, 0)
<1>1. q \in Buffers
  BY PutType
<1> HIDE DEF q
<1>2. [q EXCEPT !.tail = n] \in Buffers
  BY <1>1 DEF Buffers
<1> QED
  BY <1>2 DEF PutLast, q

(* update makes the tail final.                                            *)
LEMMA UpdateType ==
    ASSUME NEW p \in Buffers
    PROVE  update(p) \in Buffers /\ update(p).offset = p.offset + p.tail /\ update(p).tail = 0
           /\ update(p).length = p.length /\ update(p).over = p.over
<1> DEFINE m == p.offset + p.tail
<1>1. m \in Nat
  BY DEF Buffers
<1>2. update(p) = [p EXCEPT !.offset = m, !.tail = 0]
  BY DEF update
<1> HIDE DEF m
<1>3. update(p) \in Buffers
  <2>1. p.length \in Nat /\ p.over \in BOOLEAN
    BY DEF Buffers
  <2>2. update(p) = [length |-> p.length, offset |-> m, tail |-> 0, over |-> p.over]
    BY <1>2 DEF Buffers
  <2> QED
    BY <1>1, <2>1, <2>2 DEF Buffers
<1>4. /\ update(p).offset = m /\ update(p).tail = 0
      /\ update(p).length = p.length /\ update(p).over = p.over
  BY <1>2 DEF Buffers
<1> QED
  BY <1>3, <1>4 DEF m

(* What is asked for is enough for what is written.                        *)
LEMMA PutReady ==
    ASSUME NEW size \in Nat, NEW most \in Nat, NEW n \in Nat, NEW p, Ready(p, size, most, n),
           NEW needed \in Nat, NEW written \in Nat, NEW final \in Nat,
           written <= needed, n + needed <= most
    PROVE  Ready(Put(p, needed, written, final), size, most, n + final)
<1> DEFINE q == ensure(p, needed)
           r == Put(p, needed, written, final)
<1>1. p \in Buffers /\ ~p.over /\ (p.length = size \/ p.length < 2 * most) /\ p.tail = 0 /\ p.offset = n
  BY DEF Ready, Sized
<1>2. /\ q \in Buffers /\ q.offset = n /\ q.tail = 0 /\ ~q.over
      /\ q.length >= needed + n /\ (q.length = p.length \/ q.length < 2 * (needed + n))
  BY <1>1, EnsureType
<1>3. r = [q EXCEPT !.over = @ \/ q.offset + written > q.length, !.offset = @ + final]
  BY DEF Put
<1>4. r \in Buffers
  BY <1>1, PutType
<1> HIDE DEF q, r
<1>5. q.length \in Nat /\ p.length \in Nat
  BY <1>1, <1>2 DEF Buffers
<1>6. r.length = q.length /\ r.offset = n + final /\ r.tail = 0 /\ ~r.over
  BY <1>2, <1>3, <1>5 DEF Buffers
<1>7. r.length = size \/ r.length < 2 * most
  BY <1>1, <1>2, <1>5, <1>6
<1>8. Ready(r, size, most, n + final)
  BY <1>4, <1>6, <1>7 DEF Ready, Sized
<1> QED
  BY <1>8 DEF r

(* What is asked for is enough for the end of an item and its terminator.  *)
LEMMA PutLastEnds ==
    ASSUME NEW size \in Nat, NEW most \in Nat, NEW n \in Nat, NEW p, Ready(p, size, most, n),
           NEW needed \in Nat, NEW len \in Nat, len + 1 <= needed, n + needed <= most
    PROVE  Ended(PutLast(p, needed, len), size, most, n + len)
<1> DEFINE q == Put(p, needed, len + 1, 0)
           r == PutLast(p, needed, len)
<1>1. Ready(q, size, most, n)
  <2>1. len + 1 \in Nat /\ n + 0 = n
    OBVIOUS
  <2>2. Ready(Put(p, needed, len + 1, 0), size, most, n + 0)
    BY <2>1, PutReady
  <2> QED
    BY <2>1, <2>2
<1>2. r = [q EXCEPT !.tail = len]
  BY DEF PutLast
<1> HIDE DEF q, r
<1>3. r \in Buffers /\ r.length = q.length /\ r.offset = n /\ r.tail = len /\ r.over = q.over
  BY <1>1, <1>2 DEF Ready, Sized, Buffers
<1>4. Ended(r, size, most, n + len)
  BY <1>1, <1>3 DEF Ready, Ended, Sized
<1> QED
  BY <1>4 DEF r

(* After update all bytes are final.                                       *)
LEMMA UpdateReady ==
    ASSUME NEW size, NEW most, NEW n, NEW p, Ended(p, size, most, n)
    PROVE  Ready(update(p), size, most, n)
  BY UpdateType DEF Ended, Ready, Sized

(* What is written in front of a kid of a list, and behind it.             *)
Before(type, depth, fmt) ==
    IF type = "array" THEN 0 ELSE (IF fmt = 1 THEN depth ELSE 0) + StringLen + (1 + fmt)
After(type, i, n, fmt) ==
    IF type = "object" THEN fmt + (IF i = n THEN 0 ELSE 1) ELSE IF i = n THEN 0 ELSE 1 + fmt

(* What is written around a kid is a number of bytes.                      *)
LEMMA WidthType ==
    ASSUME NEW type \in Lists, NEW depth \in Nat, NEW fmt \in {0, 1}, NEW i, NEW n
    PROVE  Before(type, depth, fmt) \in Nat /\ After(type, i, n, fmt) \in Nat
<1>1. StringLen \in Nat
  BY LeafAssumption
<1> QED
  BY <1>1 DEF Before, After

(* The name of a member fits, in as much as is written in front of a kid.  *)
LEMMA NameReady ==
    ASSUME NEW type \in Lists, NEW depth \in Nat, NEW fmt \in {0, 1}, NEW p \in Buffers
    PROVE  /\ PutName(p, type, depth, fmt) \in Buffers
           /\ \A size, most, n \in Nat :
                  Ready(p, size, most, n) /\ n + Before(type, depth, fmt) <= most =>
                      Ready(PutName(p, type, depth, fmt), size, most, n + Before(type, depth, fmt))
<1>1. CASE type = "array"
  <2>1. PutName(p, type, depth, fmt) = p /\ Before(type, depth, fmt) = 0
    BY <1>1 DEF PutName, Before
  <2> QED
    BY <2>1
<1>2. CASE type # "array"
  <2> DEFINE tabs == IF fmt = 1 THEN depth ELSE 0
             q == IF fmt = 1 THEN Put(p, depth, depth, depth) ELSE p
             l == PutLast(q, StringLen + 1, StringLen)
             u == update(l)
             f == 1 + fmt
             r == Put(u, f, f, f)
  <2>1. PutName(p, type, depth, fmt) = r /\ Before(type, depth, fmt) = tabs + StringLen + f
    BY <1>2 DEF PutName, Before
  <2>2. StringLen \in Nat /\ StringLen + 1 \in Nat /\ f \in Nat /\ tabs \in Nat /\ 1 <= f
    BY LeafAssumption
  <2>3. q \in Buffers
    BY PutType
  <2> HIDE DEF q
  <2>4. l \in Buffers
    BY <2>2, <2>3, PutLastType
  <2> HIDE DEF l
  <2>5. u \in Buffers
    BY <2>4, UpdateType
  <2> HIDE DEF u, f, tabs
  <2>6. r \in Buffers
    BY <2>2, <2>5, PutType
  <2> HIDE DEF r
  <2>7. ASSUME NEW size \in Nat, NEW most \in Nat, NEW n \in Nat, Ready(p, size, most, n),
               n + (tabs + StringLen + f) <= most
        PROVE  Ready(r, size, most, n + (tabs + StringLen + f))
    <3> DEFINE m == n + tabs
               k == m + StringLen
    <3>1. Ready(q, size, most, m)
      <4>1. CASE fmt = 1
        <5>1. n + depth <= most /\ tabs = depth
          BY <2>2, <2>7, <4>1 DEF tabs
        <5>2. Ready(Put(p, depth, depth, depth), size, most, n + depth)
          BY <2>7, <5>1, PutReady
        <5> QED
          BY <4>1, <5>1, <5>2 DEF q
      <4>2. CASE fmt # 1
        <5>1. m = n /\ q = p
          BY <4>2 DEF q, tabs
        <5> QED
          BY <2>7, <5>1
      <4> QED
        BY <4>1, <4>2
    <3>2. m \in Nat /\ k \in Nat /\ m + (StringLen + 1) <= most /\ k + f <= most
          /\ k + f = n + (tabs + StringLen + f)
      BY <2>2, <2>7
    <3> HIDE DEF m, k
    <3>3. Ended(l, size, most, k)
      <4>1. Ended(PutLast(q, StringLen + 1, StringLen), size, most, m + StringLen)
        <5> DEFINE a == StringLen + 1
        <5>1. a \in Nat /\ m + a <= most /\ StringLen + 1 <= a
          BY <2>2, <3>2
        <5> HIDE DEF a
        <5>2. Ended(PutLast(q, a, StringLen), size, most, m + StringLen)
          BY <2>2, <3>1, <3>2, <5>1, PutLastEnds
        <5> QED
          BY <5>2 DEF a
      <4> QED
        BY <4>1 DEF l, k
    <3>4. Ready(u, size, most, k)
      BY <3>3, UpdateReady DEF u
    <3>5. Ready(r, size, most, k + f)
      <4>1. f <= f
        BY <2>2
      <4>2. Ready(Put(u, f, f, f), size, most, k + f)
        BY <2>2, <3>2, <3>4, <4>1, PutReady
      <4> QED
        BY <4>2 DEF r
    <3> QED
      BY <3>2, <3>5
  <2> QED
    BY <2>1, <2>6, <2>7
<1> QED
  BY <1>1, <1>2

(* The comma fits, in as much as is written behind a kid.                  *)
LEMMA CommaReady ==
    ASSUME NEW type \in Lists, NEW fmt \in {0, 1}, NEW i, NEW n, NEW p \in Buffers
    PROVE  /\ PutComma(p, type, i = n, fmt) \in Buffers
           /\ \A size, most, m \in Nat :
                  Ready(p, size, most, m) /\ m + After(type, i, n, fmt) + 1 <= most =>
                      Ready(PutComma(p, type, i = n, fmt), size, most, m + After(type, i, n, fmt))
<1>1. CASE type = "array" /\ i = n
  <2>1. PutComma(p, type, i = n, fmt) = p /\ After(type, i, n, fmt) = 0
    BY <1>1 DEF PutComma, After
  <2> QED
    BY <2>1
<1>2. CASE ~(type = "array" /\ i = n)
  <2> DEFINE a == After(type, i, n, fmt)
             b == a + 1
             r == Put(p, b, b, a)
  <2>1. PutComma(p, type, i = n, fmt) = r
    BY <1>2 DEF PutComma, After, Lists
  <2>2. a \in Nat
    BY DEF After
  <2> HIDE DEF a
  <2>3. b \in Nat /\ b <= b
    BY <2>2
  <2>4. \A m \in Nat : m + a + 1 = m + b
    BY <2>2
  <2> HIDE DEF b
  <2>5. r \in Buffers
    BY <2>2, <2>3, PutType
  <2>6. ASSUME NEW size \in Nat, NEW most \in Nat, NEW m \in Nat, Ready(p, size, most, m), m + a + 1 <= most
        PROVE  Ready(r, size, most, m + a)
    <3>1. m + b <= most
      BY <2>4, <2>6
    <3> QED
      BY <2>2, <2>3, <2>6, <3>1, PutReady
  <2> HIDE DEF r
  <2> QED
    BY <2>1, <2>5, <2>6 DEF a
<1> QED
  BY <1>1, <1>2

(* One kid: its name, the kid itself, which takes w, and the comma.        *)
Printers == [Nat -> [Buffers -> Buffers]]
KidStep(kid, type, depth, fmt, last, p) ==
    PutComma(update(kid[depth][PutName(p, type, depth, fmt)]), type, last, fmt)
PrintsIn(kid, depth, size, most, w) ==
    \A p : \A n \in Nat :
        Ready(p, size, most, n) /\ n + w + ValueRoom + 2 <= most =>
            Ended(kid[depth][p], size, most, n + w)

(* Printing a kid makes a buffer of a buffer.                              *)
LEMMA KidType ==
    ASSUME NEW type \in Lists, NEW depth \in Nat, NEW fmt \in {0, 1}, NEW i, NEW n,
           NEW kid \in Printers, NEW p \in Buffers
    PROVE  KidStep(kid, type, depth, fmt, i = n, p) \in Buffers
<1> DEFINE q == PutName(p, type, depth, fmt)
           r == kid[depth][q]
           u == update(r)
<1>1. q \in Buffers
  BY NameReady
<1> HIDE DEF q
<1>2. r \in Buffers
  BY <1>1 DEF Printers
<1> HIDE DEF r
<1>3. u \in Buffers
  BY <1>2, UpdateType
<1> HIDE DEF u
<1>4. PutComma(u, type, i = n, fmt) \in Buffers
  BY <1>3, CommaReady
<1> QED
  BY <1>4 DEF KidStep, q, r, u

(* A kid fits with all around it, when it fits alone.                      *)
LEMMA KidReady ==
    ASSUME NEW type \in Lists, NEW depth \in Nat, NEW fmt \in {0, 1}, NEW i, NEW n,
           NEW kid \in Printers, NEW size \in Nat, NEW most \in Nat, NEW w \in Nat,
           PrintsIn(kid, depth, size, most, w),
           NEW a \in Nat, NEW p, Ready(p, size, most, a),
           a + Before(type, depth, fmt) + w + After(type, i, n, fmt) + ValueRoom + 2 <= most
    PROVE  Ready(KidStep(kid, type, depth, fmt, i = n, p), size, most,
                 a + Before(type, depth, fmt) + w + After(type, i, n, fmt))
<1> DEFINE before == Before(type, depth, fmt)
           after == After(type, i, n, fmt)
           q == PutName(p, type, depth, fmt)
           r == kid[depth][q]
           u == update(r)
           v == PutComma(u, type, i = n, fmt)
           b == a + before
           c == b + w
<1>1. before \in Nat /\ after \in Nat /\ ValueRoom \in Nat
  BY WidthType, LeafAssumption
<1>2. a + before + w + after + ValueRoom + 2 <= most
  OBVIOUS
<1> HIDE DEF before, after
<1>3. /\ b \in Nat /\ c \in Nat /\ b <= most /\ b + w + ValueRoom + 2 <= most /\ c + after + 1 <= most
      /\ c + after = a + before + w + after
  BY <1>1, <1>2
<1> HIDE DEF b, c
<1>4. p \in Buffers
  BY DEF Ready, Sized
<1>5. Ready(q, size, most, b)
  BY <1>3, <1>4, NameReady DEF b, before
<1> HIDE DEF q
<1>6. Ended(r, size, most, c)
  BY <1>3, <1>5 DEF PrintsIn, c
<1> HIDE DEF r
<1>7. Ready(u, size, most, c)
  BY <1>6, UpdateReady
<1> HIDE DEF u
<1>8. u \in Buffers
  BY <1>7 DEF Ready, Sized
<1>9. Ready(v, size, most, c + after)
  BY <1>3, <1>7, <1>8, CommaReady DEF after
<1>10. v = KidStep(kid, type, depth, fmt, i = n, p)
  BY DEF KidStep, q, r, u
<1> HIDE DEF v
<1> QED
  BY <1>3, <1>9, <1>10 DEF before, after

(* The kids of a list are printed one after the other.                     *)
KidByKid(kids, type, depth, fmt, p, kid) ==
    /\ kid \in [0..Len(kids) -> Buffers] /\ kid[0] = p
    /\ \A i \in 1..Len(kids) : kid[i] = KidStep(kids[i], type, depth, fmt, i = Len(kids), kid[i - 1])

(* The recursive function of BufferedKids exists, and goes kid by kid.     *)
LEMMA KidsStep ==
    ASSUME NEW kids \in Seq(Printers), NEW type \in Lists, NEW depth \in Nat, NEW fmt \in {0, 1},
           NEW p \in Buffers
    PROVE  \E kid : /\ KidByKid(kids, type, depth, fmt, p, kid)
                    /\ BufferedKids(kids, type, depth, fmt, p) = kid[Len(kids)]
<1> DEFINE n == Len(kids)
           step(i, q) == KidStep(kids[i], type, depth, fmt, i = n, q)
           next == [i \in 1..n |-> [q \in Buffers |-> step(i, q)]]
           R(f) == [i \in 0..n |-> IF i = 0 THEN p ELSE step(i, f[i - 1])]
           g == CHOOSE f : f = R(f)
<1>1. n \in Nat /\ \A i \in 1..n : kids[i] \in Printers
  <2> HIDE DEF n
  <2>1. n \in Nat /\ \A i \in 1..Len(kids) : kids[i] \in Printers
    BY DEF n
  <2> QED
    BY <2>1 DEF n
<1>2. ASSUME NEW i \in 1..n, NEW q \in Buffers PROVE step(i, q) \in Buffers
  <2> DEFINE k == kids[i]
  <2>1. k \in Printers
    BY <1>1
  <2> HIDE DEF k, n
  <2>2. KidStep(k, type, depth, fmt, i = n, q) \in Buffers
    BY ZenonT(60), <2>1, KidType
  <2> QED
    BY <2>2 DEF k
<1> HIDE DEF n, step
<1>3. Steps(n, Buffers, p, next)
  BY <1>1, <1>2 DEF Steps
<1>4. PICK f : Follows(n, Buffers, p, next, f)
  BY <1>3, Recursion
<1>5. f \in [0..n -> Buffers] /\ f[0] = p /\ \A i \in 1..n : f[i] = step(i, f[i - 1])
  <2>1. f \in [0..n -> Buffers] /\ f[0] = p /\ \A i \in 1..n : f[i] = next[i][f[i - 1]]
    <3> HIDE DEF next
    <3> QED
      BY <1>4 DEF Follows
  <2>2. ASSUME NEW i \in 1..n PROVE f[i] = step(i, f[i - 1])
    <3>1. i - 1 \in 0..n
      BY <1>1
    <3>2. f[i - 1] \in Buffers
      BY <2>1, <3>1
    <3>3. f[i] = next[i][f[i - 1]]
      BY <2>1
    <3> QED
      BY <3>2, <3>3
  <2> QED
    BY <2>1, <2>2
<1>6. f = R(f)
  <2>1. ASSUME NEW i \in 0..n PROVE f[i] = IF i = 0 THEN p ELSE step(i, f[i - 1])
    BY <1>1, <1>5
  <2> QED
    BY <1>5, <2>1
<1>7. g = R(g)
  <2> HIDE DEF R
  <2> QED
    BY <1>6
<1>8. BufferedKids(kids, type, depth, fmt, p) = g[n]
  BY DEF BufferedKids, KidStep, g, n, step
<1> HIDE DEF g
<1>9. g[0] = p /\ \A i \in 1..n : g[i] = step(i, g[i - 1])
  BY <1>1, <1>7
<1> DEFINE I == {i \in 0..n : g[i] \in Buffers}
<1>10. \A i \in 0..n : i \in I
  <2>1. 0 \in I
    BY <1>1, <1>9
  <2>2. ASSUME NEW i \in 1..n, i - 1 \in I PROVE i \in I
    BY <1>1, <1>2, <1>9, <2>2
  <2> HIDE DEF I
  <2> QED
    BY <1>1, <2>1, <2>2, UpTo
<1>11. g \in [0..n -> Buffers]
  <2>1. g = [i \in 0..n |-> IF i = 0 THEN p ELSE step(i, g[i - 1])]
    BY <1>7
  <2>2. \A i \in 0..n : (IF i = 0 THEN p ELSE step(i, g[i - 1])) = g[i] /\ g[i] \in Buffers
    BY <1>9, <1>10, <1>1
  <2> QED
    BY <2>1, <2>2
<1>12. KidByKid(kids, type, depth, fmt, p, g)
  BY <1>9, <1>11 DEF KidByKid, n, step
<1> QED
  BY <1>8, <1>12 DEF n

(* What a kid and all around it takes, and how much less the last takes.   *)
Each(type, depth, fmt) ==
    Before(type, depth, fmt) + IF type = "object" THEN fmt + 1 ELSE 1 + fmt
Less(type, fmt) == IF type = "object" THEN 1 ELSE 1 + fmt
KidWidth(type, depth, i, n, fmt) ==
    Each(type, depth, fmt) - IF i = n THEN Less(type, fmt) ELSE 0

(* What is written around a kid, the last or another.                      *)
LEMMA EachIs ==
    ASSUME NEW type \in Lists, NEW depth \in Nat, NEW fmt \in {0, 1}, NEW i, NEW n
    PROVE  /\ Each(type, depth, fmt) \in Nat /\ Less(type, fmt) \in Nat
           /\ Less(type, fmt) <= Each(type, depth, fmt)
           /\ Before(type, depth, fmt) + After(type, i, n, fmt) = KidWidth(type, depth, i, n, fmt)
<1> DEFINE b == Before(type, depth, fmt)
<1>1. b \in Nat
  BY WidthType
<1> HIDE DEF b
<1>2. Each(type, depth, fmt) = b + 1 + fmt
  BY <1>1 DEF Each, b
<1>3. After(type, i, n, fmt) = 1 + fmt - IF i = n THEN Less(type, fmt) ELSE 0
  BY DEF After, Less, Lists
<1>4. Less(type, fmt) \in {1, 1 + fmt}
  BY DEF Less
<1> DEFINE each == Each(type, depth, fmt)
           less == Less(type, fmt)
<1>5. each \in Nat /\ less \in Nat /\ less <= each
  <2> HIDE DEF each, less
  <2>1. each = b + 1 + fmt /\ less \in {1, 1 + fmt}
    BY <1>2, <1>4 DEF each, less
  <2> QED
    BY <1>1, <2>1
<1>6. b + After(type, i, n, fmt) = each - IF i = n THEN less ELSE 0
  <2> DEFINE after == After(type, i, n, fmt)
             l == IF i = n THEN less ELSE 0
  <2>1. after = 1 + fmt - l
    BY <1>3
  <2>2. l \in Nat
    BY <1>5
  <2>3. each = b + 1 + fmt
    BY <1>2
  <2> HIDE DEF after, l, each, less
  <2>4. b + after = each - l
    BY <1>1, <2>1, <2>2, <2>3
  <2> QED
    BY <2>4 DEF after, l
<1> QED
  BY <1>5, <1>6 DEF b, KidWidth

(* All kids of a list fit with all around them, when each of them fits.    *)
LEMMA KidsReady ==
    ASSUME NEW kids \in Seq(Printers), NEW type \in Lists, NEW depth \in Nat, NEW fmt \in {0, 1},
           NEW size \in Nat, NEW most \in Nat, NEW w \in Seq(Nat), Len(w) = Len(kids), Len(kids) > 0,
           \A i \in 1..Len(kids) : PrintsIn(kids[i], depth, size, most, w[i]),
           NEW a \in Nat, NEW p, Ready(p, size, most, a), NEW m \in Nat,
           m = Total(w) + Len(kids) * Each(type, depth, fmt) - Less(type, fmt),
           a + m + ValueRoom + 2 <= most
    PROVE  Ready(BufferedKids(kids, type, depth, fmt, p), size, most, a + m)
<1> DEFINE n == Len(kids)
           sum == Sums(w)
           each == Each(type, depth, fmt)
           less == Less(type, fmt)
           before == Before(type, depth, fmt)
           after(i) == After(type, i, n, fmt)
           at(i) == sum[i] + i * each - IF i = n THEN less ELSE 0
<1>1. /\ n \in Nat /\ n > 0 /\ ValueRoom \in Nat
      /\ each \in Nat /\ less \in Nat /\ less <= each /\ before \in Nat
      /\ \A i : before + after(i) = each - IF i = n THEN less ELSE 0
      /\ \A i : after(i) \in Nat
  <2>1. n \in Nat /\ n > 0 /\ ValueRoom \in Nat
    BY LeafAssumption
  <2>2. each \in Nat /\ less \in Nat /\ less <= each
    BY EachIs
  <2>3. ASSUME NEW i PROVE before + after(i) = each - IF i = n THEN less ELSE 0
    <3> HIDE DEF n
    <3>1. Before(type, depth, fmt) + After(type, i, n, fmt) = KidWidth(type, depth, i, n, fmt)
      BY EachIs
    <3> QED
      BY <3>1 DEF KidWidth
  <2>4. before \in Nat /\ \A i : after(i) \in Nat
    BY WidthType
  <2> HIDE DEF n, each, less, before, after
  <2> QED
    BY <2>1, <2>2, <2>3, <2>4
<1>2. /\ \A i \in 0..n : sum[i] \in Nat /\ sum[i] <= sum[n]
      /\ sum[0] = 0
      /\ \A i \in 1..n : sum[i] = sum[i - 1] + w[i] /\ w[i] \in Nat
      /\ Total(w) = sum[n]
  <2>1. /\ sum \in [0..n -> Nat] /\ sum[0] = 0
        /\ \A i \in 1..n : sum[i] = sum[i - 1] + w[i]
    BY SumsDefined
  <2>2. \A i \in 0..n : sum[i] <= Total(w)
    BY SumsMonotone
  <2>3. \A i \in 1..n : w[i] \in Nat
    OBVIOUS
  <2>4. Total(w) = sum[n]
    BY DEF Total
  <2> QED
    BY <2>1, <2>2, <2>3, <2>4
<1>3. m = at(n)
  BY <1>2
<1>4. PICK kid : /\ KidByKid(kids, type, depth, fmt, p, kid)
                 /\ BufferedKids(kids, type, depth, fmt, p) = kid[n]
  <2>1. p \in Buffers
    BY DEF Ready, Sized
  <2> QED
    BY <2>1, KidsStep
<1>5. /\ kid[0] = p
      /\ \A i \in 1..n : kid[i] = KidStep(kids[i], type, depth, fmt, i = n, kid[i - 1])
      /\ \A i \in 1..n : kids[i] \in Printers
  BY <1>4 DEF KidByKid
<1>6. \A i \in 1..n : PrintsIn(kids[i], depth, size, most, w[i])
  OBVIOUS
<1> HIDE DEF n, sum, each, less, before, after
<1>7. ASSUME NEW i \in 0..n PROVE at(i) \in Int /\ (i < n => at(i) \in Nat) /\ at(i) <= at(n)
  <2> DEFINE b == i * each
             c == n * each
  <2>1. b \in Nat /\ c \in Nat
    BY <1>1
  <2>2. i < n => b + each <= c
    <3>1. i < n => (n - i - 1) * each \in Nat
      BY <1>1
    <3>2. (n - i - 1) * each = n * each - i * each - each
      BY <1>1
    <3> HIDE DEF b, c
    <3> QED
      BY <1>1, <3>1, <3>2, <2>1 DEF b, c
  <2>3. at(i) = sum[i] + b - (IF i = n THEN less ELSE 0) /\ at(n) = sum[n] + c - less
    OBVIOUS
  <2>4. i = n => b = c
    OBVIOUS
  <2> DEFINE s == sum[i]
             t == sum[n]
  <2>5. s \in Nat /\ t \in Nat /\ s <= t
    <3>1. n \in 0..n
      BY <1>1
    <3> QED
      BY <1>2, <3>1
  <2> DEFINE x == at(i)
             y == at(n)
  <2>6. x = s + b - (IF i = n THEN less ELSE 0) /\ y = t + c - less
    BY <2>3
  <2>7. (i = n => x = y) /\ i <= n /\ i \in Int
    BY <1>1
  <2> HIDE DEF b, c, s, t, x, y
  <2>8. i < n => x = s + b /\ x \in Nat /\ x <= y
    BY <1>1, <2>1, <2>2, <2>5, <2>6
  <2>9. i = n => x \in Int /\ x <= y
    BY <1>1, <2>1, <2>5, <2>6, <2>7
  <2>10. x \in Int /\ (i < n => x \in Nat) /\ x <= y
    BY <1>1, <2>7, <2>8, <2>9
  <2> QED
    BY <2>10 DEF x, y
<1>8. ASSUME NEW i \in 1..n
      PROVE  at(i) = at(i - 1) + before + w[i] + after(i) /\ at(i - 1) \in Nat
  <2> DEFINE b == (i - 1) * each
             h == i - 1
             s == sum[h]
             u == w[i]
             l == IF i = n THEN less ELSE 0
             x == at(h)
             y == at(i)
  <2>1. i * each = b + each /\ b \in Nat /\ h \in 0..n /\ h # n /\ i \in 0..n
    BY <1>1
  <2>2. x = s + b
    BY <2>1
  <2>3. sum[i] = s + u /\ s \in Nat /\ u \in Nat
    BY <1>2, <2>1
  <2>4. y = sum[i] + (b + each) - l
    BY <2>1
  <2>5. l \in Nat /\ before + after(i) = each - l /\ after(i) \in Nat
    BY <1>1
  <2> HIDE DEF b, s, u, l, x, y
  <2>6. y = x + before + u + after(i) /\ x \in Nat
    <3> DEFINE c == after(i)
    <3>1. before + c = each - l /\ c \in Nat
      BY <2>5
    <3> HIDE DEF c, h
    <3>2. y = x + before + u + c /\ x \in Nat
      BY <1>1, <2>1, <2>2, <2>3, <2>4, <2>5, <3>1
    <3> QED
      BY <3>2 DEF c
  <2> QED
    BY <2>6 DEF x, y, u, h
<1>9. at(0) = 0
  BY <1>1, <1>2
<1> HIDE DEF at
<1> DEFINE I == {i \in 0..n : Ready(kid[i], size, most, a + at(i))}
<1>10. 0 \in I
  <2>1. a + at(0) = a
    BY <1>9
  <2> QED
    BY <1>1, <1>5, <2>1
<1>11. ASSUME NEW i \in 1..n, i - 1 \in I PROVE i \in I
  <2> DEFINE b == a + at(i - 1)
             k == kids[i]
             u == w[i]
             q == kid[i - 1]
  <2>1. Ready(q, size, most, b)
    BY <1>11
  <2>2. i \in 0..n /\ i \in Int
    BY <1>1
  <2>3. b \in Nat /\ u \in Nat /\ b + before + u + after(i) = a + at(i)
    <3> DEFINE x == at(i - 1)
               y == at(i)
               c == after(i)
    <3>1. y = x + before + u + c /\ x \in Nat /\ c \in Nat /\ u \in Nat
      BY <1>1, <1>2, <1>8
    <3> HIDE DEF x, y, c, u
    <3>2. a + x \in Nat /\ (a + x) + before + u + c = a + y
      BY <1>1, <3>1
    <3> QED
      BY <3>1, <3>2 DEF x, y, c
  <2>4. a + at(i) + ValueRoom + 2 <= most
    <3> DEFINE y == at(i)
    <3>1. y \in Int /\ y <= m
      BY <1>3, <1>7, <2>2
    <3> HIDE DEF y
    <3>2. a + y + ValueRoom + 2 <= most
      BY <1>1, <3>1
    <3> QED
      BY <3>2 DEF y
  <2>5. k \in Printers /\ PrintsIn(k, depth, size, most, u)
    BY <1>5, <1>6
  <2>6. kid[i] = KidStep(k, type, depth, fmt, i = n, q)
    BY <1>5
  <2> DEFINE e == b + before + u + after(i)
  <2>7. e + ValueRoom + 2 <= most /\ e = a + at(i)
    BY <2>3, <2>4
  <2> HIDE DEF b, k, u, q, I
  <2>8. Ready(KidStep(k, type, depth, fmt, i = n, q), size, most, e)
    BY <2>1, <2>3, <2>5, <2>7, KidReady DEF before, after
  <2> HIDE DEF e
  <2>9. Ready(kid[i], size, most, a + at(i))
    BY <2>6, <2>7, <2>8
  <2> QED
    BY <2>2, <2>9 DEF I
<1> HIDE DEF I
<1>12. n \in I
  <2>1. \A i \in 0..n : i \in I
    BY <1>1, <1>10, <1>11, UpTo
  <2> QED
    BY <1>1, <2>1
<1> QED
  BY <1>3, <1>4, <1>12 DEF I

(* What is written for a list with kids: its kids between two ends.        *)
Opening(type, fmt) == IF type = "array" THEN 1 ELSE 1 + fmt
Closing(type, depth, fmt) == IF type = "object" /\ fmt = 1 THEN depth + 1 ELSE 1
Between(x, depth, fmt) ==
    KidsLen(AllWritten(fmt), x, depth) + Len(x.kids) * Each(x.type, depth + 1, fmt) - Less(x.type, fmt)

(* What print_array and print_object write: the kids and all around them,  *)
(* between two ends.                                                       *)
LEMMA ListWidth ==
    ASSUME NEW fmt \in {0, 1}, NEW x \in Items, x.type \in Lists, Len(x.kids) > 0, NEW depth \in Nat
    PROVE  /\ Between(x, depth, fmt) \in Nat
           /\ Written(x, depth, fmt) =
                  Opening(x.type, fmt) + Between(x, depth, fmt) + Closing(x.type, depth, fmt)
<1> DEFINE n == Len(x.kids)
           len == KidsLen(AllWritten(fmt), x, depth)
           w == Written(x, depth, fmt)
           m == Between(x, depth, fmt)
<1>1. n \in Nat /\ n > 0 /\ len \in Nat /\ StringLen \in Nat
  BY ItemsAre, WrittenIs, LeafAssumption
<1>2. w = Writes(x, depth, fmt, len)
  BY WrittenIs
<1>3. CASE x.type = "array"
  <2> DEFINE e == 1 + fmt
             a == n * e
  <2>1. Each(x.type, depth + 1, fmt) = e /\ Less(x.type, fmt) = e
    BY <1>3 DEF Each, Before, Less
  <2>2. m = len + a - e
    BY <2>1 DEF Between
  <2>3. w = 2 + len + (n - 1) * e
    BY <1>1, <1>2, <1>3 DEF Writes
  <2>4. (n - 1) * e = a - e /\ a \in Nat /\ (n - 1) * e \in Nat /\ e \in Nat
    <3>1. n \in Nat /\ n - 1 \in Nat /\ e \in Nat
      BY <1>1
    <3> HIDE DEF n, e
    <3>2. (n - 1) * e = n * e - e
      BY <3>1
    <3>3. n * e \in Nat /\ (n - 1) * e \in Nat
      BY <3>1
    <3> QED
      BY <3>1, <3>2, <3>3
  <2>5. Opening(x.type, fmt) = 1 /\ Closing(x.type, depth, fmt) = 1
    BY <1>3 DEF Opening, Closing
  <2> HIDE DEF n, len, w, m, e, a
  <2>6. m \in Nat /\ w = 1 + m + 1
    <3> DEFINE b == (n - 1) * e
    <3>1. b = a - e /\ b \in Nat /\ w = 2 + len + b
      BY <2>3, <2>4
    <3> HIDE DEF b
    <3> QED
      BY <1>1, <2>2, <2>4, <3>1
  <2> QED
    BY <2>5, <2>6 DEF w, m
<1>4. CASE x.type = "object"
  <2> DEFINE f == IF fmt = 1 THEN depth + 1 ELSE 0
             e == (f + StringLen + (1 + fmt)) + (fmt + 1)
  <2>1. Each(x.type, depth + 1, fmt) = e /\ Less(x.type, fmt) = 1
    BY <1>4 DEF Each, Before, Less
  <2>2. m = len + n * e - 1
    BY <2>1 DEF Between
  <2>3. w = 2 + len + n * (StringLen + 1) + (n - 1)
              + IF fmt = 1 THEN 1 + n * (depth + 3) + depth ELSE 0
    BY <1>1, <1>2, <1>4 DEF Writes
  <2>4. Opening(x.type, fmt) = 1 + fmt /\ Closing(x.type, depth, fmt) = IF fmt = 1 THEN depth + 1 ELSE 1
    BY <1>4 DEF Opening, Closing
  <2> DEFINE a == n * StringLen
             b == n * depth
             c == n * e
  <2>5. a \in Nat /\ b \in Nat /\ n * (StringLen + 1) = a + n /\ n * (depth + 3) = b + 3 * n
    <3>1. n \in Nat /\ StringLen \in Nat /\ depth \in Nat
      BY <1>1
    <3> HIDE DEF n
    <3> QED
      BY <3>1
  <2>6. CASE fmt = 1
    <3>1. c = b + a + 5 * n
      <4>1. e = depth + StringLen + 5
        BY <1>1, <2>6
      <4> HIDE DEF e, n
      <4> QED
        BY <1>1, <4>1
    <3>2. w = 2 + len + (a + n) + (n - 1) + (1 + (b + 3 * n) + depth)
      BY <2>3, <2>5, <2>6
    <3> HIDE DEF n, len, w, m, a, b, c
    <3>3. m \in Nat /\ w = 2 + m + (depth + 1)
      BY <1>1, <2>2, <2>5, <3>1, <3>2 DEF c
    <3>4. Opening(x.type, fmt) = 2 /\ Closing(x.type, depth, fmt) = depth + 1
      BY <2>4, <2>6
    <3> QED
      BY <3>3, <3>4 DEF w, m
  <2>7. CASE fmt = 0
    <3>1. c = a + 2 * n
      <4>1. e = StringLen + 2
        BY <1>1, <2>7
      <4> HIDE DEF e, n
      <4> QED
        BY <1>1, <4>1
    <3>2. w = 2 + len + (a + n) + (n - 1) + 0
      BY <2>3, <2>5, <2>7
    <3> HIDE DEF n, len, w, m, a, b, c
    <3>3. m \in Nat /\ w = 1 + m + 1
      BY <1>1, <2>2, <2>5, <3>1, <3>2 DEF c
    <3>4. Opening(x.type, fmt) = 1 /\ Closing(x.type, depth, fmt) = 1
      BY <2>4, <2>7
    <3> QED
      BY <3>3, <3>4 DEF w, m
  <2> QED
    BY <2>6, <2>7
<1> QED
  BY <1>3, <1>4 DEF Lists

(* Prints makes a buffer of a buffer.                                      *)
LEMMA KidsType ==
    ASSUME NEW kids \in Seq(Printers), NEW type \in Lists, NEW depth \in Nat, NEW fmt \in {0, 1},
           NEW p \in Buffers
    PROVE  BufferedKids(kids, type, depth, fmt, p) \in Buffers
<1>1. PICK kid : /\ KidByKid(kids, type, depth, fmt, p, kid)
                 /\ BufferedKids(kids, type, depth, fmt, p) = kid[Len(kids)]
  BY KidsStep
<1>2. Len(kids) \in 0..Len(kids)
  OBVIOUS
<1> QED
  BY <1>1, <1>2 DEF KidByKid

(* Printing an item makes a buffer of a buffer.                            *)
LEMMA PrintsType ==
    ASSUME NEW kids \in Seq(Printers), NEW type \in Leaves \cup Lists,
           NEW depth \in Nat, NEW fmt \in {0, 1}, NEW p \in Buffers
    PROVE  Prints(type, kids, depth, fmt, p) \in Buffers
<1> DEFINE n == Len(kids)
           r == Prints(type, kids, depth, fmt, p)
<1>1. n \in Nat
  OBVIOUS
<1>2. \A a, b \in Nat : PutLast(p, a, b) \in Buffers
  BY PutLastType
<1>3. ValueLen \in Nat /\ ValueRoom \in Nat /\ StringLen \in Nat /\ StringLen + 1 \in Nat
  BY LeafAssumption
<1>4. CASE type \in Leaves
  BY <1>2, <1>3, <1>4 DEF Prints, Leaves, Values
<1>5. CASE type \in Lists /\ n = 0
  <2> DEFINE a == IF fmt = 1 THEN depth + 4 ELSE 3
             b == IF fmt = 1 THEN 3 + Tabs(depth) ELSE 2
  <2>1. r = PutLast(p, 3, 2) \/ r = PutLast(p, a, b)
    BY <1>5 DEF Prints, Lists
  <2>2. a \in Nat /\ b \in Nat
    BY DEF Tabs
  <2> HIDE DEF a, b, r
  <2>3. PutLast(p, 3, 2) \in Buffers /\ PutLast(p, a, b) \in Buffers
    BY <1>2, <2>2
  <2>4. r \in Buffers
    BY <2>1, <2>3
  <2> QED
    BY <2>4 DEF r
<1>6. CASE type \in Lists /\ n > 0
  <2> DEFINE d == depth + 1
             a == IF type = "array" THEN 1 ELSE 2 + fmt
             b == Opening(type, fmt)
             q == Put(p, a, a, b)
             u == BufferedKids(kids, type, d, fmt, q)
             c == IF type = "object" /\ fmt = 1 THEN depth + 2 ELSE 2
             e == Closing(type, depth, fmt)
  <2>1. r = PutLast(u, c, e)
    BY <1>6 DEF Prints, Lists, Opening, Closing
  <2>2. a \in Nat /\ b \in Nat /\ c \in Nat /\ e \in Nat /\ d \in Nat
    BY DEF Opening, Closing
  <2> HIDE DEF a, b, c, d, e
  <2>3. q \in Buffers
    BY <2>2, PutType
  <2> HIDE DEF q
  <2>4. u \in Buffers
    BY <1>6, <2>2, <2>3, KidsType
  <2> HIDE DEF u
  <2> QED
    BY <2>1, <2>2, <2>4, PutLastType
<1> QED
  BY <1>1, <1>4, <1>5, <1>6 DEF Lists

(* The recursive function of Buffered exists, and prints an item by its    *)
(* kids.                                                                   *)
LEMMA BufferedIs ==
    ASSUME NEW fmt \in {0, 1}, NEW x \in Items
    PROVE  /\ Buffered(fmt)[x] \in Printers
           /\ Map(Buffered(fmt), x.kids) \in Seq(Printers)
           /\ \A depth \in Nat : \A p \in Buffers :
                  Buffered(fmt)[x][depth][p] =
                      Prints(x.type, Map(Buffered(fmt), x.kids), depth, fmt, p)
<1> DEFINE T == Items
           V == Printers
           Of(y, s) == [d \in Nat |-> [p \in Buffers |-> Prints(y.type, s, d, fmt, p)]]
           step == [y \in T |-> [s \in Seq(V) |-> Of(y, s)]]
           R(f) == [y \in T |-> Of(y, Map(f, y.kids))]
           g == Buffered(fmt)
<1>1. ASSUME NEW y \in T, NEW s \in Seq(V) PROVE Of(y, s) \in V
  <2>1. \A d \in Nat : \A p \in Buffers : Prints(y.type, s, d, fmt, p) \in Buffers
    BY ItemsAre, PrintsType
  <2> QED
    BY <2>1 DEF Printers
<1>2. g = CHOOSE f : f = R(f)
  BY DEF Buffered, Map
<1> HIDE DEF Of, V, g
<1>3. step \in [T -> [Seq(V) -> V]]
  BY <1>1
<1>4. PICK f \in [T -> V] : \A y \in T : f[y] = step[y][Map(f, y.kids)]
  <2> HIDE DEF step
  <2> QED
    BY <1>3, ItemRecursion
<1>5. ASSUME NEW h, NEW y \in T, \A i \in 1..Len(y.kids) : h[y.kids[i]] \in V
      PROVE  Map(h, y.kids) \in Seq(V)
  <2>1. Len(y.kids) \in Nat
    BY ItemsAre
  <2> DEFINE kids == y.kids
  <2>2. Map(h, kids) = [i \in 1..Len(kids) |-> h[kids[i]]]
    BY DEF Map
  <2> HIDE DEF V
  <2> QED
    BY <2>1, <2>2, <1>5
<1>6. f = R(f)
  <2>1. ASSUME NEW y \in T PROVE f[y] = Of(y, Map(f, y.kids))
    <3>1. \A i \in 1..Len(y.kids) : f[y.kids[i]] \in V
      BY <1>4, ItemsAre
    <3>2. Map(f, y.kids) \in Seq(V)
      BY <1>5, <3>1
    <3> QED
      BY <1>4, <3>2
  <2> QED
    BY <1>4, <2>1
<1>7. g = R(g)
  <2> HIDE DEF R
  <2> QED
    BY <1>2, <1>6
<1>8. \A y \in T : g[y] = Of(y, Map(g, y.kids))
  BY <1>7
<1> DEFINE G == {y \in T : g[y] \in V}
<1>9. ASSUME NEW y \in T, \A i \in 1..Len(y.kids) : y.kids[i] \in G
      PROVE  y \in G /\ Map(g, y.kids) \in Seq(V)
  <2>1. \A i \in 1..Len(y.kids) : g[y.kids[i]] \in V
    BY <1>9
  <2>2. Map(g, y.kids) \in Seq(V)
    BY <1>5, <2>1
  <2> QED
    BY <1>1, <1>8, <2>2
<1> HIDE DEF G
<1>10. \A y \in T : y \in G
  BY <1>9, ItemInduction
<1>11. Map(g, x.kids) \in Seq(V)
  BY <1>9, <1>10, ItemsAre
<1>12. g[x] \in V
  BY <1>10 DEF G
<1>13. \A d \in Nat : \A p \in Buffers : g[x][d][p] = Prints(x.type, Map(g, x.kids), d, fmt, p)
  <2> DEFINE s == Map(g, x.kids)
  <2>1. g[x] = Of(x, s)
    BY <1>8
  <2> HIDE DEF s
  <2>2. \A d \in Nat : \A p \in Buffers : Of(x, s)[d][p] = Prints(x.type, s, d, fmt, p)
    BY DEF Of
  <2> QED
    BY <2>1, <2>2 DEF s
<1> QED
  BY <1>11, <1>12, <1>13 DEF g, V

(* An item is printed into the buffer, in as much as print_value writes.   *)
Fits(x, fmt, size, most) ==
    \A depth \in Nat : PrintsIn(Buffered(fmt)[x], depth, size, most, Written(x, depth, fmt))

(* An item without kids fits.                                              *)
LEMMA LeafPrints ==
    ASSUME NEW fmt \in {0, 1}, NEW size \in Nat, NEW most \in Nat, NEW x \in Items,
           x.type \in Leaves \/ Len(x.kids) = 0
    PROVE  Fits(x, fmt, size, most)
<1> SUFFICES ASSUME NEW depth \in Nat, NEW p, NEW n \in Nat, Ready(p, size, most, n),
                    n + Written(x, depth, fmt) + ValueRoom + 2 <= most
             PROVE  Ended(Buffered(fmt)[x][depth][p], size, most, n + Written(x, depth, fmt))
  BY DEF Fits, PrintsIn
<1> DEFINE kids == Map(Buffered(fmt), x.kids)
           w == Written(x, depth, fmt)
           r == Prints(x.type, kids, depth, fmt, p)
           Put1(a) == Ended(PutLast(p, a, w), size, most, n + w)
<1>1. p \in Buffers
  BY DEF Ready, Sized
<1>2. Buffered(fmt)[x][depth][p] = r
  BY <1>1, BufferedIs
<1>3. w = Writes(x, depth, fmt, KidsLen(AllWritten(fmt), x, depth)) /\ w \in Nat
  BY WrittenIs
<1>4. Len(kids) = Len(x.kids)
  BY ItemsAre, MapLen
<1>5. ValueLen \in Nat /\ ValueRoom \in Nat /\ StringLen \in Nat /\ ValueLen < ValueRoom
  BY LeafAssumption
<1>6. n + w + ValueRoom + 2 <= most
  OBVIOUS
<1> HIDE DEF w
<1>7. ASSUME NEW a \in Nat, w + 1 <= a, a <= w + ValueRoom + 2 PROVE Put1(a)
  <2>1. n + a <= most
    <3>1. w \in Nat
      BY <1>3
    <3>2. n + a <= n + w + ValueRoom + 2
      BY <1>5, <1>7, <3>1
    <3> QED
      BY <1>5, <1>6, <3>1, <3>2
  <2> QED
    BY <1>3, <1>7, <2>1, PutLastEnds
<1> HIDE DEF Put1
<1>8. \E a \in Nat : r = PutLast(p, a, w) /\ w + 1 <= a /\ a <= w + ValueRoom + 2
  <2>1. CASE x.type \in Values
    <3>1. w = ValueLen /\ r = PutLast(p, ValueRoom, ValueLen)
      BY <1>3, <2>1 DEF Writes, Prints, Values
    <3> HIDE DEF r
    <3> QED
      BY <1>5, <3>1
  <2>2. CASE x.type = "string"
    <3> DEFINE a == StringLen + 1
    <3>1. w = StringLen /\ r = PutLast(p, a, StringLen)
      BY <1>3, <2>2 DEF Writes, Prints
    <3>2. a \in Nat /\ StringLen + 1 <= a /\ a <= StringLen + ValueRoom + 2
      BY <1>5
    <3> HIDE DEF r, a
    <3> QED
      BY <3>1, <3>2
  <2>3. CASE x.type = "array" /\ Len(x.kids) = 0
    <3>1. w = 2 /\ r = PutLast(p, 3, 2)
      BY <1>3, <1>4, <2>3 DEF Writes, Prints
    <3> HIDE DEF r
    <3> QED
      BY <1>5, <3>1
  <2>4. CASE x.type = "object" /\ Len(x.kids) = 0
    <3> DEFINE a == IF fmt = 1 THEN depth + 4 ELSE 3
               b == IF fmt = 1 THEN 3 + Tabs(depth) ELSE 2
    <3>1. w = b
      BY <1>3, <2>4 DEF Writes
    <3>2. r = PutLast(p, a, b)
      <4> HIDE DEF kids
      <4> QED
        BY <1>4, <2>4 DEF Prints
    <3>3. a \in Nat /\ b + 1 <= a /\ a <= b + ValueRoom + 2
      BY <1>5 DEF Tabs
    <3> HIDE DEF r, a, b
    <3> QED
      BY <3>1, <3>2, <3>3
  <2>5. x.type \in Leaves \cup Lists
    BY ItemsAre
  <2> QED
    BY <2>1, <2>2, <2>3, <2>4, <2>5 DEF Leaves, Values, Lists
<1>9. PICK a \in Nat : r = PutLast(p, a, w) /\ w + 1 <= a /\ a <= w + ValueRoom + 2
  BY <1>8
<1>10. Put1(a)
  BY <1>7, <1>9
<1>11. Ended(r, size, most, n + w)
  BY <1>9, <1>10 DEF Put1
<1> QED
  BY <1>2, <1>11 DEF w

(* A list fits when its kids do.                                           *)
LEMMA ListPrints ==
    ASSUME NEW fmt \in {0, 1}, NEW size \in Nat, NEW most \in Nat, NEW x \in Items,
           x.type \in Lists, Len(x.kids) > 0,
           \A i \in 1..Len(x.kids) : Fits(x.kids[i], fmt, size, most)
    PROVE  Fits(x, fmt, size, most)
<1> SUFFICES ASSUME NEW depth \in Nat, NEW p, NEW n \in Nat, Ready(p, size, most, n),
                    n + Written(x, depth, fmt) + ValueRoom + 2 <= most
             PROVE  Ended(Buffered(fmt)[x][depth][p], size, most, n + Written(x, depth, fmt))
  BY DEF Fits, PrintsIn
<1> DEFINE kids == Map(Buffered(fmt), x.kids)
           type == x.type
           d == depth + 1
           m == Between(x, depth, fmt)
           w == Written(x, depth, fmt)
           a == IF type = "array" THEN 1 ELSE 2 + fmt
           b == Opening(type, fmt)
           q == Put(p, a, a, b)
           u == BufferedKids(kids, type, d, fmt, q)
           c == IF type = "object" /\ fmt = 1 THEN depth + 2 ELSE 2
           e == Closing(type, depth, fmt)
           s == [i \in 1..Len(x.kids) |-> Written(x.kids[i], d, fmt)]
<1>1. p \in Buffers
  BY DEF Ready, Sized
<1>2. /\ kids \in Seq(Printers) /\ Len(kids) = Len(x.kids)
      /\ \A i \in 1..Len(x.kids) : kids[i] = Buffered(fmt)[x.kids[i]]
  <2>1. Len(x.kids) \in Nat
    BY ItemsAre
  <2> QED
    BY <2>1, BufferedIs DEF Map
<1>3. Buffered(fmt)[x][depth][p] = PutLast(u, c, e)
  <2>1. Buffered(fmt)[x][depth][p] = Prints(type, kids, depth, fmt, p)
    BY <1>1, BufferedIs
  <2> HIDE DEF kids
  <2>2. Prints(type, kids, depth, fmt, p) = PutLast(u, c, e)
    BY <1>2 DEF Prints, Lists, Opening, Closing
  <2> QED
    BY <2>1, <2>2
<1>4. /\ m \in Nat /\ w = b + m + e /\ a \in Nat /\ b \in Nat /\ c \in Nat /\ e \in Nat /\ d \in Nat
      /\ ValueRoom \in Nat /\ c <= e + 1 /\ e + 1 <= c /\ a <= b + 1
  <2>1. m \in Nat /\ w = b + m + e
    BY ListWidth
  <2>2. a \in Nat /\ b \in Nat /\ c \in Nat /\ e \in Nat /\ d \in Nat
        /\ c <= e + 1 /\ e + 1 <= c /\ a <= b + 1
    BY DEF Opening, Closing
  <2> QED
    BY <2>1, <2>2, LeafAssumption
<1>5. s \in Seq(Nat) /\ Len(s) = Len(kids) /\ Total(s) = KidsLen(AllWritten(fmt), x, depth)
      /\ \A i \in 1..Len(x.kids) : s[i] = Written(x.kids[i], d, fmt)
  <2>1. Len(x.kids) \in Nat /\ \A i \in 1..Len(x.kids) : x.kids[i] \in Items
    BY ItemsAre
  <2>2. \A i \in 1..Len(x.kids) : Written(x.kids[i], d, fmt) \in Nat
    BY <1>4, <2>1, WrittenIs
  <2>3. s \in Seq(Nat) /\ Len(s) = Len(x.kids)
    BY <2>1, <2>2
  <2>4. Total(s) = KidsLen(AllWritten(fmt), x, depth)
    BY DEF KidsLen, Written
  <2> QED
    BY <1>2, <2>3, <2>4
<1>6. m = Total(s) + Len(kids) * Each(type, d, fmt) - Less(type, fmt)
  BY <1>2, <1>5 DEF Between
<1>7. \A i \in 1..Len(kids) : PrintsIn(kids[i], d, size, most, s[i])
  BY <1>2, <1>4, <1>5 DEF Fits
<1>8. n + w + ValueRoom + 2 <= most /\ type \in Lists /\ Len(kids) > 0
  BY <1>2
<1> HIDE DEF kids, type, m, w, a, b, c, e, d, s
<1> DEFINE k == n + b
           l == k + m
<1>9. /\ k \in Nat /\ n + a <= most /\ a <= a
      /\ l \in Nat /\ l + ValueRoom + 2 <= most
      /\ l + c <= most /\ l + e = n + w
  <2> DEFINE v == ValueRoom
  <2>1. v \in Nat /\ n + w + v + 2 <= most
    BY <1>4, <1>8
  <2> HIDE DEF v
  <2>2. k \in Nat /\ l \in Nat /\ l + e = n + w /\ a <= a
    BY <1>4
  <2>3. n + a <= n + w + 1 /\ l + v + 2 <= n + w + v + 2 /\ l + c <= n + w + 1
    BY <1>4, <2>1
  <2>4. n + a <= most /\ l + v + 2 <= most /\ l + c <= most
    <3>1. n + w \in Nat /\ n + a \in Nat /\ l + c \in Nat
      BY <1>4, <2>2
    <3> HIDE DEF l, k
    <3> QED
      BY <2>1, <2>2, <2>3, <3>1
  <2> QED
    BY <2>2, <2>4 DEF v
<1>10. Ready(q, size, most, k)
  BY <1>4, <1>9, PutReady
<1> HIDE DEF q, k
<1>11. Ready(u, size, most, l)
  BY <1>2, <1>4, <1>5, <1>6, <1>7, <1>8, <1>9, <1>10, KidsReady
<1> HIDE DEF u, l
<1>12. Ended(PutLast(u, c, e), size, most, l + e)
  BY <1>4, <1>9, <1>11, PutLastEnds
<1> QED
  BY <1>3, <1>9, <1>12 DEF w

(* Every item fits.                                                        *)
LEMMA AllPrint ==
    ASSUME NEW fmt \in {0, 1}, NEW size \in Nat, NEW most \in Nat
    PROVE  \A x \in Items : Fits(x, fmt, size, most)
<1> DEFINE G == {x \in Items : Fits(x, fmt, size, most)}
<1>1. ASSUME NEW x \in Items, \A k \in 1..Len(x.kids) : x.kids[k] \in G
      PROVE  x \in G
  <2>1. \A k \in 1..Len(x.kids) : Fits(x.kids[k], fmt, size, most)
    BY <1>1
  <2>2. x.type \in Leaves \/ x.type \in Lists
    BY ItemsAre DEF Lists
  <2>3. Len(x.kids) = 0 \/ Len(x.kids) > 0
    BY ItemsAre
  <2>4. Fits(x, fmt, size, most)
    BY <2>1, <2>2, <2>3, LeafPrints, ListPrints
  <2> QED
    BY <2>4
<1> HIDE DEF G
<1>2. \A x \in Items : x \in G
  BY <1>1, ItemInduction
<1> QED
  BY <1>2 DEF G

(* cJSON_PrintBuffered stays inside its buffer, which is never twice as    *)
(* long as what was asked of it, and writes as much as cJSON_Print.        *)
THEOREM BufferedFitsTheorem == Spec => []BufferedFits
<1>1. TextType => BufferedFits
  <2> SUFFICES ASSUME TextType, Accepted, NEW fmt \in {0, 1}, NEW size \in Prebuffer
               PROVE  StaysInside(cJSON_PrintBuffered(Parse.item, size, fmt),
                                  size, Written(Parse.item, 0, fmt))
    BY DEF BufferedFits
  <2> DEFINE x == Parse.item
             w == Written(x, 0, fmt)
             most == w + ValueRoom + 2
             p == [length |-> size, offset |-> 0, tail |-> 0, over |-> FALSE]
             r == cJSON_PrintBuffered(x, size, fmt)
  <2>1. x \in Items /\ size \in Nat /\ ValueRoom \in Nat
    BY AcceptedItem, PrebufferAssumption, LeafAssumption
  <2> HIDE DEF x
  <2>2. w \in Nat
    BY <2>1, WrittenIs
  <2>3. r = Buffered(fmt)[x][0][p]
    BY DEF cJSON_PrintBuffered
  <2> HIDE DEF w
  <2>4. most \in Nat /\ 0 + w + ValueRoom + 2 <= most /\ 0 + w = w
    BY <2>1, <2>2
  <2>5. Ready(p, size, most, 0)
    <3>1. p \in Buffers
      BY <2>1 DEF Buffers
    <3> QED
      BY <3>1 DEF Ready, Sized
  <2> HIDE DEF p, r
  <2>6. Ended(r, size, most, w)
    <3> HIDE DEF most
    <3>1. Fits(x, fmt, size, most)
      BY <2>1, <2>4, AllPrint
    <3> DEFINE z == 0
    <3>2. z \in Nat /\ PrintsIn(Buffered(fmt)[x], z, size, most, w)
      BY <3>1 DEF Fits, w
    <3>3. Ended(Buffered(fmt)[x][z][p], size, most, z + w)
      <4>1. Ready(p, size, most, z) /\ z + w + ValueRoom + 2 <= most
        BY <2>4, <2>5
      <4> HIDE DEF z
      <4> QED
        BY <3>2, <4>1 DEF PrintsIn
    <3> QED
      BY <2>3, <2>4, <3>3
  <2> QED
    BY <2>6 DEF StaysInside, Ended, Sized, r, w, x
<1> QED
  BY <1>1, TextTypeKept, PTL
=============================================================================
