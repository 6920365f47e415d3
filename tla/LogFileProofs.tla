----------------------------- MODULE LogFileProofs -----------------------------
(***************************************************************************)
(* That the log file stays near its limit, that what a cut keeps fits its  *)
(* buffer, and that the newest log is kept, for all records, limits and    *)
(* kills.                                                                  *)
(***************************************************************************)
EXTENDS LogFile, Prefixes

-----------------------------------------------------------------------------
(* The inductive invariant.                                                *)

Kept == [n : Nat, size : 1..MaxPiece]
Limits == {log_init(v) : v \in Configured}

TypeOK ==
    /\ file \in Seq(Kept) /\ all_buff \in Seq(Kept)
    /\ logged \in Nat /\ torn \in BOOLEAN
    /\ step \in {"no", "cut", "emptied"}
    /\ log_limit_size \in Limits /\ largest \in Limits /\ log_limit_size <= largest
    /\ longest_record \in Nat /\ longest_left \in Nat

(* The buffer is in use only while a cut runs.                             *)
Idle == step = "no" => all_buff = <<>>

(* While the limits are roomy, a cut leaves what is in the file and in the *)
(* buffer below the limit, so that the record that follows is the only     *)
(* excess.                                                                 *)
Sizes == Roomy =>
    /\ step # "emptied" => SizeOf(file) <= largest + longest_record
    /\ step = "cut" => SizeOf(all_buff) < largest
    /\ step = "emptied" => SizeOf(file) + SizeOf(all_buff) < largest

(* Pieces s are an end of the l pieces logged behind leftovers, unbroken   *)
(* unless torn.                                                            *)
Ordered(s, l, t) ==
    /\ \A i, j \in DOMAIN s : i < j /\ s[i].n # 0 => s[i].n < s[j].n
    /\ \A i \in DOMAIN s : s[i].n <= l
    /\ ~t => /\ \A i \in DOMAIN s : s[i].n \in {0, l - Len(s) + i}
             /\ l > 0 => s # <<>> /\ s[Len(s)].n = l

Order ==
    /\ step # "emptied" => Ordered(file, logged, torn)
    /\ step = "cut" => Ordered(all_buff, logged, torn)
    /\ step = "emptied" => Ordered(file \o all_buff, logged, torn)

Inv == TypeOK /\ Idle /\ Sizes /\ Order

-----------------------------------------------------------------------------
(* Pieces and their sizes.                                                 *)

Sizes_(pieces) == [i \in DOMAIN pieces |-> pieces[i].size]

(* What the assumptions say of the numbers.                              *)
LEMMA Constants ==
    /\ MaxPiece \in Nat /\ MaxPiece > 0
    /\ Limits \subseteq Nat
<1>1. MaxPiece \in Nat /\ MaxPiece > 0
  BY MaxPieceAssumption
<1>2. ASSUME NEW v \in Configured PROVE log_init(v) \in Nat
  BY ConfiguredAssumption DEF log_init
<1> QED
  BY <1>1, <1>2 DEF Limits

(* The sizes are as many as the pieces.                                    *)
LEMMA SizesSeq ==
    ASSUME NEW p \in Seq(Kept)
    PROVE  /\ Sizes_(p) \in Seq(1..MaxPiece) /\ Sizes_(p) \in Seq(Nat)
           /\ Len(Sizes_(p)) = Len(p)
           /\ \A i \in 1..Len(p) : Sizes_(p)[i] = p[i].size
<1>1. Len(p) \in Nat /\ DOMAIN p = 1..Len(p) /\ \A i \in 1..Len(p) : p[i] \in Kept
  OBVIOUS
<1>2. Sizes_(p) \in [1..Len(p) -> 1..MaxPiece]
  BY <1>1 DEF Sizes_, Kept
<1>3. Sizes_(p) \in Seq(1..MaxPiece) /\ Len(Sizes_(p)) = Len(p)
  BY <1>1, <1>2, FunSeq
<1>4. Sizes_(p) \in Seq(Nat)
  <2>1. 1..MaxPiece \subseteq Nat
    BY MaxPieceAssumption
  <2> QED
    BY <1>3, <2>1, SeqMonotonic
<1> QED
  BY <1>1, <1>3, <1>4 DEF Sizes_

(* The size of pieces, one behind the other, is that of both parts.        *)
LEMMA SizeConcat ==
    ASSUME NEW p \in Seq(Kept), NEW q \in Seq(Kept)
    PROVE  /\ SizeOf(p) \in Nat
           /\ SizeOf(p \o q) = SizeOf(p) + SizeOf(q)
<1>1. Sizes_(p) \in Seq(Nat) /\ Sizes_(q) \in Seq(Nat)
  BY SizesSeq
<1>2. Sizes_(p \o q) = Sizes_(p) \o Sizes_(q)
  <2> DEFINE a == Sizes_(p)
             b == Sizes_(q)
             c == Sizes_(p \o q)
             m == Len(p)
             n == Len(q)
  <2>1. /\ p \o q \in Seq(Kept) /\ Len(p \o q) = m + n /\ m \in Nat /\ n \in Nat
        /\ \A i \in 1..(m + n) : (p \o q)[i] = IF i <= m THEN p[i] ELSE q[i - m]
    BY ConcatProperties
  <2>2. /\ a \in Seq(Nat) /\ Len(a) = m /\ \A i \in 1..m : a[i] = p[i].size
        /\ b \in Seq(Nat) /\ Len(b) = n /\ \A i \in 1..n : b[i] = q[i].size
        /\ c \in Seq(Nat) /\ Len(c) = m + n
        /\ \A i \in 1..(m + n) : c[i] = (p \o q)[i].size
    BY <2>1, SizesSeq
  <2> HIDE DEF a, b, c, m, n
  <2>3. /\ a \o b \in Seq(Nat) /\ Len(a \o b) = m + n
        /\ \A i \in 1..(m + n) : (a \o b)[i] = IF i <= m THEN a[i] ELSE b[i - m]
    BY ZenonT(60), <2>2, ConcatProperties
  <2>4. ASSUME NEW i \in 1..(m + n) PROVE c[i] = (a \o b)[i]
    <3>1. c[i] = (p \o q)[i].size
      BY <2>2
    <3>2. CASE i <= m
      <4>1. i \in 1..m
        BY <2>1, <3>2
      <4>2. (p \o q)[i] = p[i] /\ (a \o b)[i] = a[i]
        BY <2>1, <2>3, <3>2
      <4> QED
        BY <2>2, <3>1, <4>1, <4>2
    <3>3. CASE ~(i <= m)
      <4>1. i - m \in 1..n
        BY <2>1, <3>3
      <4>2. (p \o q)[i] = q[i - m] /\ (a \o b)[i] = b[i - m]
        BY <2>1, <2>3, <3>3
      <4> QED
        BY <2>2, <3>1, <4>1, <4>2
    <3> QED
      BY <3>2, <3>3
  <2>5. c = a \o b
    BY <2>2, <2>3, <2>4, SeqEqual
  <2> QED
    BY <2>5 DEF a, b, c
<1>3. Total(Sizes_(p \o q)) = Total(Sizes_(p)) + Total(Sizes_(q))
  BY <1>1, <1>2, TotalConcat
<1>4. Total(Sizes_(p)) \in Nat
  BY <1>1, SumsDefined
<1> QED
  BY <1>3, <1>4 DEF SizeOf, Sizes_

(* Each piece is of one character at least, of MaxPiece at most.           *)
LEMMA SizeBounds ==
    ASSUME NEW p \in Seq(Kept)
    PROVE  Len(p) <= SizeOf(p) /\ SizeOf(p) <= MaxPiece * Len(p)
<1>1. Sizes_(p) \in Seq(1..MaxPiece) /\ Len(Sizes_(p)) = Len(p)
  BY SizesSeq
<1>2. Len(p) <= Total(Sizes_(p)) /\ Total(Sizes_(p)) <= MaxPiece * Len(p)
  BY <1>1, Constants, TotalBounds
<1> QED
  BY <1>2 DEF SizeOf, Sizes_

(* Nothing has no size.                                                    *)
LEMMA SizeOfNothing == SizeOf(<<>>) = 0
<1>1. <<>> \in Seq(Kept) /\ Len(<<>>) = 0
  OBVIOUS
<1>2. 0 <= SizeOf(<<>>) /\ SizeOf(<<>>) <= MaxPiece * 0 /\ SizeOf(<<>>) \in Nat
  BY <1>1, SizeBounds, SizeConcat
<1> QED
  BY <1>2, Constants

(* Pieces numbered from l on have the size of what they are made of.       *)
Numbered(sizes, l) == [i \in DOMAIN sizes |-> [n |-> l + i, size |-> sizes[i]]]
Unnumbered(sizes) == [i \in DOMAIN sizes |-> [n |-> 0, size |-> sizes[i]]]
LEMMA SizeOfNumbered ==
    ASSUME NEW sizes \in Pieces, NEW l \in Nat
    PROVE  /\ Numbered(sizes, l) \in Seq(Kept) /\ SizeOf(Numbered(sizes, l)) = Total(sizes)
           /\ Unnumbered(sizes) \in Seq(Kept) /\ SizeOf(Unnumbered(sizes)) = Total(sizes)
<1>1. Sizes_(Numbered(sizes, l)) = sizes /\ Sizes_(Unnumbered(sizes)) = sizes
  BY DEF Sizes_, Numbered, Unnumbered, Pieces
<1>2. Numbered(sizes, l) \in Seq(Kept) /\ Unnumbered(sizes) \in Seq(Kept)
  <2>1. /\ Len(sizes) \in Nat /\ DOMAIN sizes = 1..Len(sizes)
        /\ \A i \in 1..Len(sizes) : sizes[i] \in 1..MaxPiece
    BY LenProperties, ElementOfSeq DEF Pieces
  <2>2. \A i \in 1..Len(sizes) : l + i \in Nat
    BY <2>1
  <2>3. /\ Numbered(sizes, l) \in [1..Len(sizes) -> Kept]
        /\ Unnumbered(sizes) \in [1..Len(sizes) -> Kept]
    BY <2>1, <2>2 DEF Numbered, Unnumbered, Kept
  <2> QED
    BY <2>1, <2>3, FunSeq
<1> QED
  BY <1>1, <1>2 DEF SizeOf, Sizes_

(* The two halves of the pieces.                                           *)
LEMMA Halves ==
    ASSUME NEW p \in Seq(Kept)
    PROVE  /\ EarlierHalf(p) \in Seq(Kept) /\ LaterHalf(p) \in Seq(Kept)
           /\ p = EarlierHalf(p) \o LaterHalf(p)
           /\ Len(EarlierHalf(p)) = Len(p) \div 2
           /\ Len(LaterHalf(p)) = Len(p) - (Len(p) \div 2)
           /\ \A i \in DOMAIN LaterHalf(p) : LaterHalf(p)[i] = p[i + (Len(p) \div 2)]
<1> DEFINE n == Len(p)
           h == n \div 2
<1>1. n \in Nat /\ h \in 0..n
  OBVIOUS
<1>2. EarlierHalf(p) = SubSeq(p, 1, h) /\ LaterHalf(p) = SubSeq(p, h + 1, n)
  BY DEF EarlierHalf, LaterHalf
<1> HIDE DEF h
<1>3. /\ SubSeq(p, 1, h) \in Seq(Kept) /\ Len(SubSeq(p, 1, h)) = h
      /\ \A i \in 1..h : SubSeq(p, 1, h)[i] = p[i]
  BY <1>1
<1>4. /\ SubSeq(p, h + 1, n) \in Seq(Kept) /\ Len(SubSeq(p, h + 1, n)) = n - h
      /\ \A i \in 1..(n - h) : SubSeq(p, h + 1, n)[i] = p[i + h]
  BY <1>1
<1>5. p = SubSeq(p, 1, h) \o SubSeq(p, h + 1, n)
  <2>1. 1 \in 1..Len(p) + 1 /\ h \in (1 - 1)..Len(p) /\ n \in h..Len(p)
    BY <1>1
  <2>2. SubSeq(p, 1, h) \o SubSeq(p, h + 1, n) = SubSeq(p, 1, n)
    BY <2>1, ConcatAdjacentSubSeq
  <2> QED
    BY <2>2, SubSeqFull
<1>6. DOMAIN SubSeq(p, h + 1, n) = 1..(n - h)
  BY <1>1, <1>4
<1>7. \A i \in DOMAIN SubSeq(p, h + 1, n) : SubSeq(p, h + 1, n)[i] = p[i + h]
  BY <1>4, <1>6
<1> QED
  BY <1>2, <1>3, <1>4, <1>5, <1>7 DEF h

(* A product grows by its first factor when the second grows.            *)
LEMMA TimesMore ==
    ASSUME NEW a \in Nat, NEW b \in Nat, NEW c \in Nat, b < c
    PROVE  a * b + a <= a * c
<1>1. PICK d \in Nat : c = (b + 1) + d
  <2>1. c - (b + 1) \in Nat /\ c = (b + 1) + (c - (b + 1))
    OBVIOUS
  <2> QED
    BY <2>1
<1>2. a * c = (a * b + a) + a * d /\ a * d \in Nat /\ a * b \in Nat
  BY <1>1
<1> QED
  BY <1>2

(* The cut of a file leaves less than a limit B the file is not a record   *)
(* of R longer than, when B is roomy for R and a leftover of l: log.h:54.  *)
LEMMA CutFits ==
    ASSUME NEW p \in Seq(Kept), NEW B \in Nat, NEW R \in Nat, NEW l \in Nat,
           MaxPiece * (R + l + 1) + l < B, SizeOf(p) <= B + R,
           NEW left \in Leftover, Total(left) <= l
    PROVE  SizeOf(Unnumbered(left) \o LaterHalf(p)) < B
<1> DEFINE n == Len(p)
           X == R + l + 1
           e == SizeOf(EarlierHalf(p))
           h == SizeOf(LaterHalf(p))
<1>1. /\ X \in Nat /\ X >= 1 /\ n \in Nat /\ SizeOf(p) \in Nat
      /\ MaxPiece * X + l < B /\ MaxPiece \in Nat /\ MaxPiece > 0
  BY Constants, SizeConcat
<1>2. e \in Nat /\ h \in Nat /\ SizeOf(p) = e + h /\ e >= n \div 2
  <2>1. EarlierHalf(p) \in Seq(Kept) /\ LaterHalf(p) \in Seq(Kept) /\ Len(EarlierHalf(p)) = n \div 2
        /\ p = EarlierHalf(p) \o LaterHalf(p)
    BY Halves
  <2>2. e \in Nat /\ h \in Nat /\ SizeOf(EarlierHalf(p) \o LaterHalf(p)) = e + h
    BY <2>1, SizeConcat
  <2>3. n \div 2 <= e
    BY <2>1, SizeBounds
  <2>4. n \div 2 \in Nat
    BY <1>1
  <2> HIDE DEF e, h, n
  <2> QED
    BY <2>1, <2>2, <2>3, <2>4
<1>3. /\ Unnumbered(left) \in Seq(Kept) /\ SizeOf(Unnumbered(left)) <= l
      /\ SizeOf(Unnumbered(left)) \in Nat
  <2>1. left \in Pieces /\ Total(left) <= l /\ 0 \in Nat
    BY LeftoverAssumption
  <2>2. Unnumbered(left) \in Seq(Kept) /\ SizeOf(Unnumbered(left)) = Total(left)
    BY <2>1, SizeOfNumbered
  <2>3. SizeOf(Unnumbered(left)) \in Nat
    BY <2>2, SizeConcat
  <2> QED
    BY <2>1, <2>2, <2>3
<1>4. SizeOf(Unnumbered(left) \o LaterHalf(p)) = SizeOf(Unnumbered(left)) + h
  BY <1>3, Halves, SizeConcat
<1>5. SizeOf(Unnumbered(left)) + h < B
  <2> DEFINE u == SizeOf(Unnumbered(left))
             k == n \div 2
  <2> SUFFICES u + h < B
    OBVIOUS
  <2>1. k \in Nat /\ u \in Nat /\ u <= l /\ e >= k /\ n - k <= k + 1 /\ n - k \in Nat
    <3>1. k \in Nat /\ n - k <= k + 1 /\ n - k \in Nat
      BY <1>1
    <3> QED
      BY <1>2, <1>3, <3>1
  <2> HIDE DEF u
  <2>2. CASE k >= X
    <3>1. e >= X /\ e + h <= B + R
      <4> HIDE DEF e, h, k
      <4> QED
        BY <1>1, <1>2, <2>1, <2>2
    <3> HIDE DEF e, h, k
    <3> QED
      BY <1>1, <1>2, <2>1, <3>1
  <2>3. CASE k < X
    <3>1. h <= MaxPiece * (n - k)
      BY Halves, SizeBounds
    <3>2. MaxPiece * (n - k) <= MaxPiece * X
      <4> HIDE DEF X, n, k
      <4>1. n - k <= X
        BY <1>1, <2>1, <2>3
      <4>2. CASE n - k = X
        BY <1>1, <4>2
      <4>3. CASE n - k < X
        <5> DEFINE m == n - k
        <5> HIDE DEF m
        <5>1. m \in Nat /\ m < X
          BY <2>1, <4>3 DEF m
        <5>2. MaxPiece * m + MaxPiece <= MaxPiece * X /\ MaxPiece * m \in Nat /\ MaxPiece * X \in Nat
          BY <1>1, <5>1, TimesMore
        <5>3. MaxPiece * m <= MaxPiece * X
          BY <1>1, <5>2
        <5> QED
          BY <5>3 DEF m
      <4> QED
        BY <1>1, <2>1, <4>1, <4>2, <4>3
    <3>3. MaxPiece * (n - k) \in Nat /\ MaxPiece * X \in Nat
      <4> HIDE DEF X, n, k
      <4> QED
        BY <1>1, <2>1
    <3> HIDE DEF e, h, k, X, n
    <3> QED
      BY <1>1, <1>2, <2>1, <3>1, <3>2, <3>3
  <2> QED
    BY <1>1, <2>1, <2>2, <2>3
<1> QED
  BY <1>4, <1>5

(* What is roomy for long records and leftovers is so for shorter ones.    *)
LEMMA RoomyForLess ==
    ASSUME NEW R \in Nat, NEW S \in Nat, NEW l \in Nat, NEW m \in Nat, R <= S, l <= m
    PROVE  MaxPiece * (R + l + 1) + l <= MaxPiece * (S + m + 1) + m
<1> DEFINE a == R + l + 1
           b == S + m + 1
<1>1. a \in Nat /\ b \in Nat /\ a <= b /\ MaxPiece \in Nat
  BY Constants
<1> HIDE DEF a, b
<1>2. MaxPiece * a \in Nat /\ MaxPiece * b \in Nat
  BY <1>1
<1>3. MaxPiece * a <= MaxPiece * b
  <2>1. CASE a = b
    BY <1>2, <2>1
  <2>2. CASE a < b
    <3>1. MaxPiece * a + MaxPiece <= MaxPiece * b
      BY <1>1, <2>2, TimesMore
    <3> QED
      BY <1>1, <1>2, <3>1
  <2> QED
    BY <1>1, <2>1, <2>2
<1>4. MaxPiece * a + l <= MaxPiece * b + m
  BY <1>2, <1>3
<1> QED
  BY <1>4 DEF a, b

(* Once they are not roomy, the limits never are again.                    *)
LEMMA RoomyBefore ==
    ASSUME longest_record \in Nat, longest_left \in Nat,
           longest_record' \in Nat, longest_left' \in Nat,
           longest_record <= longest_record', longest_left <= longest_left', Roomy'
    PROVE  Roomy
<1> SUFFICES ASSUME NEW v \in Configured
             PROVE  MaxPiece * (longest_record + longest_left + 1) + longest_left < log_init(v)
  BY DEF Roomy
<1> DEFINE x == MaxPiece * (longest_record + longest_left + 1) + longest_left
           y == MaxPiece * (longest_record' + longest_left' + 1) + longest_left'
<1>1. x <= y
  BY RoomyForLess
<1>2. y < log_init(v)
  BY DEF Roomy
<1>3. x \in Int /\ y \in Int
  BY Constants
<1>4. log_init(v) \in Nat
  BY Constants DEF Limits
<1> HIDE DEF x, y
<1>5. x < log_init(v)
  BY <1>1, <1>2, <1>3, <1>4
<1> QED
  BY <1>5 DEF x

(* The largest limit is one of those.                                      *)
LEMMA RoomyNow ==
    ASSUME largest \in Limits, Roomy
    PROVE  MaxPiece * (longest_record + longest_left + 1) + longest_left < largest
  BY DEF Roomy, Limits

-----------------------------------------------------------------------------
(* The order of pieces.                                                    *)

(* The pieces of two sequences, one behind the other, and their numbers.   *)
LEMMA Concat ==
    ASSUME NEW s \in Seq(Kept), NEW r \in Seq(Kept)
    PROVE  /\ DOMAIN (s \o r) = 1..(Len(s) + Len(r)) /\ Len(s \o r) = Len(s) + Len(r)
           /\ DOMAIN s = 1..Len(s) /\ Len(s) \in Nat /\ \A i \in 1..Len(s) : s[i].n \in Nat
           /\ \A i \in 1..(Len(s) + Len(r)) :
                  (s \o r)[i] = IF i <= Len(s) THEN s[i] ELSE r[i - Len(s)]
<1>1. s \o r \in Seq(Kept) /\ Len(s \o r) = Len(s) + Len(r)
  BY ConcatProperties
<1>2. DOMAIN (s \o r) = 1..(Len(s) + Len(r)) /\ DOMAIN s = 1..Len(s) /\ Len(s) \in Nat
  BY <1>1, LenProperties
<1>3. ASSUME NEW i \in 1..Len(s) PROVE s[i].n \in Nat
  <2>1. s[i] \in Kept
    BY ElementOfSeq
  <2> QED
    BY <2>1 DEF Kept
<1> QED
  BY <1>1, <1>2, <1>3, ConcatProperties

(* A record behind pieces continues them.                                  *)
LEMMA OrderedAppend ==
    ASSUME NEW s \in Seq(Kept), NEW l \in Nat, NEW t \in BOOLEAN, Ordered(s, l, t),
           NEW record \in Pieces, record # <<>>
    PROVE  Ordered(s \o Numbered(record, l), l + Len(record), t)
<1> DEFINE r == Numbered(record, l)
           m == Len(s)
           k == Len(record)
           u == s \o r
<1>1. r \in Seq(Kept) /\ Len(r) = k /\ k \in Nat /\ k > 0 /\ m \in Nat
      /\ \A i \in 1..k : r[i].n = l + i
  <2>1. r \in Seq(Kept)
    BY SizeOfNumbered
  <2>2. k \in Nat /\ k > 0 /\ DOMAIN record = 1..k
    BY EmptySeq, LenProperties DEF Pieces
  <2>3. DOMAIN r = 1..k /\ \A i \in 1..k : r[i].n = l + i
    BY <2>2 DEF Numbered
  <2>4. DOMAIN r = 1..Len(r) /\ Len(r) \in Nat
    BY <2>1, LenProperties
  <2>5. Len(r) = k
    <3> HIDE DEF r, k
    <3> QED
      BY <2>2, <2>3, <2>4
  <2> QED
    BY <2>1, <2>2, <2>3, <2>5
<1>2. /\ DOMAIN u = 1..(m + k) /\ Len(u) = m + k
      /\ \A i \in 1..(m + k) : u[i] = IF i <= m THEN s[i] ELSE r[i - m]
  BY ZenonT(60), <1>1, Concat
<1>3. DOMAIN s = 1..m /\ \A i \in 1..m : s[i].n \in Nat
  BY Concat
<1> HIDE DEF r, m, k, u
<1>4. ASSUME NEW i \in 1..(m + k)
      PROVE  \/ i \in 1..m /\ u[i].n = s[i].n
             \/ i \in (m + 1)..(m + k) /\ u[i].n = l + (i - m)
  <2>1. i > m => i - m \in 1..k
    BY <1>1
  <2> QED
    BY <1>1, <1>2, <2>1
<1>5. ASSUME NEW i \in 1..(m + k), NEW j \in 1..(m + k), i < j, u[i].n # 0 PROVE u[i].n < u[j].n
  <2>1. CASE i \in 1..m /\ j \in 1..m
    <3>1. u[i].n = s[i].n /\ u[j].n = s[j].n
      BY <1>1, <1>4, <2>1
    <3> QED
      BY <1>3, <1>5, <2>1, <3>1 DEF Ordered
  <2>2. CASE i \in 1..m /\ j \in (m + 1)..(m + k)
    <3>1. u[i].n = s[i].n /\ u[j].n = l + (j - m)
      BY <1>1, <1>4, <2>2
    <3>2. s[i].n \in Nat /\ s[i].n <= l
      BY <1>3, <2>2 DEF Ordered
    <3> QED
      BY <1>1, <2>2, <3>1, <3>2
  <2>3. CASE i \in (m + 1)..(m + k) /\ j \in (m + 1)..(m + k)
    BY <1>1, <1>4, <1>5, <2>3
  <2> QED
    BY <1>1, <1>5, <2>1, <2>2, <2>3
<1>6. ASSUME NEW i \in 1..(m + k) PROVE u[i].n <= l + k
  <2>1. i \in 1..m => s[i].n \in Nat /\ s[i].n <= l
    BY <1>3 DEF Ordered
  <2> QED
    BY <1>1, <1>4, <2>1
<1>7. ASSUME ~t, NEW i \in 1..(m + k) PROVE u[i].n \in {0, (l + k) - (m + k) + i}
  <2>1. i \in 1..m => s[i].n \in {0, l - m + i}
    BY <1>3, <1>7 DEF Ordered, m
  <2> QED
    BY <1>1, <1>3, <1>4, <2>1
<1>8. u # <<>> /\ u[m + k].n = l + k
  BY <1>1, <1>2, <1>4
<1> QED
  BY <1>1, <1>2, <1>5, <1>6, <1>7, <1>8 DEF Ordered, u, r, k

(* The later half of pieces is as good an end, also behind leftovers.      *)
LEMMA OrderedCut ==
    ASSUME NEW s \in Seq(Kept), NEW l \in Nat, NEW t \in BOOLEAN, Ordered(s, l, t),
           Len(s) >= 1, NEW left \in Pieces
    PROVE  Ordered(Unnumbered(left) \o LaterHalf(s), l, t)
<1> DEFINE r == Unnumbered(left)
           h == LaterHalf(s)
           m == Len(left)
           n == Len(s)
           k == n \div 2
           u == r \o h
<1>1. r \in Seq(Kept) /\ Len(r) = m /\ m \in Nat /\ \A i \in 1..m : r[i].n = 0
  <2>1. r \in Seq(Kept)
    BY SizeOfNumbered
  <2>2. m \in Nat /\ DOMAIN left = 1..m
    BY LenProperties DEF Pieces
  <2>3. DOMAIN r = 1..m /\ \A i \in 1..m : r[i].n = 0
    BY <2>2 DEF Unnumbered
  <2>4. DOMAIN r = 1..Len(r) /\ Len(r) \in Nat
    BY <2>1, LenProperties
  <2>5. Len(r) = m
    <3> HIDE DEF r, m
    <3> QED
      BY <2>2, <2>3, <2>4
  <2> QED
    BY <2>1, <2>2, <2>3, <2>5
<1>2. /\ h \in Seq(Kept) /\ Len(h) = n - k
      /\ n \in Nat /\ k \in Nat /\ k < n
  <2>1. h \in Seq(Kept) /\ Len(h) = n - k
    BY Halves
  <2>2. n \in Nat /\ n >= 1
    OBVIOUS
  <2>3. k \in Nat /\ k < n
    <3> HIDE DEF n
    <3> QED
      BY <2>2
  <2> QED
    BY <2>1, <2>2, <2>3
<1>3. DOMAIN h = 1..(n - k) /\ \A i \in 1..(n - k) : h[i] = s[i + k]
  <2>1. DOMAIN h = 1..(n - k)
    BY <1>2, LenProperties
  <2> QED
    BY <2>1, Halves
<1>4. /\ DOMAIN u = 1..(m + (n - k)) /\ Len(u) = m + (n - k)
      /\ \A i \in 1..(m + (n - k)) : u[i] = IF i <= m THEN r[i] ELSE h[i - m]
  <2> HIDE DEF r, h, m, n, k
  <2>1. /\ DOMAIN u = 1..(Len(r) + Len(h)) /\ Len(u) = Len(r) + Len(h)
        /\ \A i \in 1..(Len(r) + Len(h)) : u[i] = IF i <= Len(r) THEN r[i] ELSE h[i - Len(r)]
    BY <1>1, <1>2, Concat
  <2> QED
    BY <1>1, <1>2, <2>1
<1>5. DOMAIN s = 1..n /\ \A i \in 1..n : s[i].n \in Nat
  BY Concat
<1> HIDE DEF r, h, m, n, k, u
<1>6. ASSUME NEW i \in 1..(m + (n - k))
      PROVE  \/ i <= m /\ u[i].n = 0
             \/ (i - m) + k \in 1..n /\ i > m /\ u[i].n = s[(i - m) + k].n
  <2>1. i > m => i - m \in 1..(n - k) /\ (i - m) + k \in 1..n
    BY <1>1, <1>2
  <2>2. CASE i <= m
    BY <1>1, <1>4, <2>2
  <2>3. CASE ~(i <= m)
    BY <1>1, <1>2, <1>3, <1>4, <2>1, <2>3
  <2> QED
    BY <2>2, <2>3
<1>7. ASSUME NEW i \in 1..(m + (n - k)), NEW j \in 1..(m + (n - k)), i < j, u[i].n # 0
      PROVE  u[i].n < u[j].n
  <2>1. /\ (i - m) + k \in 1..n /\ i > m /\ u[i].n = s[(i - m) + k].n
        /\ (j - m) + k \in 1..n /\ u[j].n = s[(j - m) + k].n
        /\ (i - m) + k < (j - m) + k
    BY <1>1, <1>2, <1>6, <1>7
  <2> QED
    BY <1>5, <1>7, <2>1 DEF Ordered
<1>8. ASSUME NEW i \in 1..(m + (n - k)) PROVE u[i].n <= l
  BY <1>5, <1>6 DEF Ordered
<1>9. ASSUME ~t, NEW i \in 1..(m + (n - k)) PROVE u[i].n \in {0, l - (m + (n - k)) + i}
  <2>1. CASE i <= m /\ u[i].n = 0
    BY <2>1
  <2>2. CASE (i - m) + k \in 1..n /\ i > m /\ u[i].n = s[(i - m) + k].n
    <3>1. s[(i - m) + k].n \in {0, l - n + ((i - m) + k)}
      BY <1>5, <1>9, <2>2 DEF Ordered, n
    <3>2. l - n + ((i - m) + k) = l - (m + (n - k)) + i
      BY <1>1, <1>2
    <3> QED
      BY <2>2, <3>1, <3>2
  <2> QED
    BY <1>6, <2>1, <2>2
<1>10. ASSUME ~t, l > 0 PROVE u # <<>> /\ u[Len(u)].n = l
  <2>1. s[n].n = l
    BY <1>10 DEF Ordered, n
  <2>2. /\ m + (n - k) \in 1..(m + (n - k)) /\ ~(m + (n - k) <= m)
        /\ ((m + (n - k)) - m) + k = n
    BY <1>1, <1>2
  <2>3. u[m + (n - k)].n = s[n].n
    BY <1>6, <2>2
  <2> QED
    BY <1>4, <2>1, <2>2, <2>3
<1> QED
  BY <1>4, <1>7, <1>8, <1>9, <1>10 DEF Ordered, u, r, h

(* What a torn rewrite leaves is in order still, if not unbroken.          *)
LEMMA OrderedTorn ==
    ASSUME NEW s \in Seq(Kept), NEW r \in Seq(Kept), NEW l, NEW t,
           Ordered(s \o r, l, t)
    PROVE  Ordered(s, l, TRUE)
<1>1. Len(s) \in Nat /\ Len(r) \in Nat /\ DOMAIN s = 1..Len(s)
      /\ DOMAIN (s \o r) = 1..(Len(s) + Len(r))
      /\ \A i \in 1..(Len(s) + Len(r)) : (s \o r)[i] = IF i <= Len(s) THEN s[i] ELSE r[i - Len(s)]
  BY Concat, LenProperties
<1>2. \A i \in 1..Len(s) : i \in 1..(Len(s) + Len(r)) /\ (s \o r)[i] = s[i]
  BY <1>1
<1> QED
  BY <1>1, <1>2 DEF Ordered

-----------------------------------------------------------------------------
(* The steps.                                                              *)

(* Each step keeps the invariant.                                        *)
LEMMA InitInv == Init => Inv
<1> SUFFICES ASSUME Init PROVE Inv
  OBVIOUS
<1> USE DEF Init
<1>1. log_limit_size \in Limits /\ largest = log_limit_size
  BY DEF Limits
<1>2. largest \in Nat
  BY <1>1, Constants
<1>3. <<>> \in Seq(Kept) /\ Len(<<>>) = 0
  OBVIOUS
<1>4. TypeOK
  <2>1. log_limit_size <= largest
    BY <1>1, <1>2
  <2>2. file \in Seq(Kept) /\ all_buff \in Seq(Kept)
    BY <1>3
  <2>3. logged \in Nat /\ torn \in BOOLEAN /\ step \in {"no", "cut", "emptied"}
    OBVIOUS
  <2> QED
    BY <1>1, <2>1, <2>2, <2>3 DEF TypeOK
<1>5. Idle /\ Sizes
  BY <1>2, SizeOfNothing DEF Idle, Sizes
<1>6. Order
  BY <1>3 DEF Order, Ordered
<1> QED
  BY <1>4, <1>5, <1>6 DEF Inv

LEMMA LOGStep ==
    ASSUME Inv, NEW record \in Records, LOG(record) PROVE Inv'
<1> USE DEF LOG, Append_
<1>1. /\ record \in Pieces /\ record # <<>> /\ Len(record) \in Nat /\ Total(record) \in Nat
  <2>1. record \in Pieces /\ record # <<>>
    BY RecordsAssumption
  <2>2. Len(record) \in Nat
    BY <2>1 DEF Pieces
  <2>3. 1..MaxPiece \subseteq Nat
    BY Constants
  <2>4. record \in Seq(Nat)
    BY <2>1, <2>3, SeqMonotonic DEF Pieces
  <2> QED
    BY <2>1, <2>2, <2>4, SumsDefined
<1>2. TypeOK
  BY DEF Inv
<1>3. file \in Seq(Kept) /\ logged \in Nat
  BY <1>2 DEF TypeOK
<1>4. file' = file \o Numbered(record, logged)
  BY DEF Numbered
<1>5. /\ Numbered(record, logged) \in Seq(Kept)
      /\ SizeOf(Numbered(record, logged)) = Total(record)
  BY <1>1, <1>3, SizeOfNumbered
<1>6. /\ longest_record \in Nat /\ longest_record' \in Nat /\ longest_record <= longest_record'
      /\ Total(record) <= longest_record'
      /\ longest_left \in Nat /\ longest_left' = longest_left
  BY <1>1, <1>2 DEF TypeOK, Larger
<1>7. TypeOK'
  <2>1. file' \in Seq(Kept)
    BY <1>3, <1>4, <1>5, ConcatProperties
  <2> QED
    BY <1>1, <1>2, <1>3, <1>6, <2>1 DEF TypeOK, limits
<1>8. /\ SizeOf(file') = SizeOf(file) + Total(record) /\ SizeOf(file) \in Nat
      /\ largest \in Nat /\ log_limit_size \in Nat /\ log_limit_size <= largest
  BY <1>2, <1>3, <1>4, <1>5, SizeConcat, Constants DEF TypeOK
<1>9. Idle' /\ Sizes'
  <2>1. all_buff' = <<>> /\ step' = "no"
    BY DEF Inv, Idle
  <2>2. ASSUME Roomy' PROVE SizeOf(file') <= largest' + longest_record'
    <3>1. Roomy
      BY <1>6, <2>2, RoomyBefore
    <3>2. CASE step = "no" /\ ~Outsized
      BY <1>1, <1>6, <1>8, <3>2 DEF Outsized, limits
    <3>3. CASE step = "emptied" /\ all_buff = <<>>
      <4>1. SizeOf(file) < largest
        BY <1>8, <3>1, <3>3, SizeOfNothing DEF Inv, Sizes
      <4> QED
        BY <1>1, <1>6, <1>8, <4>1 DEF limits
    <3> QED
      BY <3>2, <3>3
  <2> QED
    BY <2>1, <2>2 DEF Idle, Sizes
<1>10. Order'
  <2>1. Ordered(file, logged, torn)
    <3>1. CASE step = "emptied" /\ all_buff = <<>>
      <4>1. file \o <<>> = file
        BY <1>3, ConcatEmptySeq
      <4> QED
        BY <3>1, <4>1 DEF Inv, Order
    <3> QED
      BY <3>1 DEF Inv, Order
  <2>2. Ordered(file', logged', torn')
    BY <1>1, <1>2, <1>3, <1>4, <2>1, OrderedAppend DEF TypeOK
  <2> QED
    BY <2>2 DEF Order
<1> QED
  BY <1>7, <1>9, <1>10 DEF Inv

LEMMA CutStep ==
    ASSUME Inv, NEW left \in Leftover, Cut(left) PROVE Inv'
<1> USE DEF Cut
<1>1. TypeOK /\ Sizes /\ Order
  BY DEF Inv
<1>2. /\ file \in Seq(Kept) /\ logged \in Nat /\ torn \in BOOLEAN
      /\ log_limit_size \in Limits /\ largest \in Limits /\ left \in Pieces
  BY <1>1, LeftoverAssumption DEF TypeOK
<1>3. all_buff' = Unnumbered(left) \o LaterHalf(file)
  BY DEF Unnumbered
<1>4. /\ longest_left \in Nat /\ longest_left' \in Nat /\ longest_left <= longest_left'
      /\ Total(left) <= longest_left'
      /\ longest_record \in Nat /\ longest_record' = longest_record
  <2>1. 1..MaxPiece \subseteq Nat
    BY Constants
  <2>2. left \in Seq(Nat)
    BY <1>2, <2>1, SeqMonotonic DEF Pieces
  <2>3. Total(left) \in Nat
    BY <2>2, SumsDefined
  <2> QED
    BY <1>1, <2>3 DEF TypeOK, Larger
<1>5. Len(file) >= 1 /\ Unnumbered(left) \in Seq(Kept)
  <2>1. log_limit_size < SizeOf(file) /\ log_limit_size \in Nat
    BY <1>2, Constants DEF Outsized
  <2>2. file # <<>>
    BY <2>1, SizeOfNothing
  <2>3. Len(file) >= 1
    BY <1>2, <2>2, EmptySeq
  <2>4. 0 \in Nat
    OBVIOUS
  <2>5. Unnumbered(left) \in Seq(Kept)
    BY <1>2, <2>4, SizeOfNumbered
  <2> QED
    BY <2>3, <2>5
<1>6. LaterHalf(file) \in Seq(Kept)
  BY <1>2, Halves
<1>7. TypeOK'
  <2>1. all_buff' \in Seq(Kept)
    BY <1>3, <1>5, <1>6, ConcatProperties
  <2> QED
    BY <1>1, <1>4, <2>1 DEF TypeOK, limits
<1>8. Idle' /\ Sizes'
  <2>1. ASSUME Roomy'
        PROVE  SizeOf(file) <= largest + longest_record /\ SizeOf(all_buff') < largest
    <3>1. Roomy
      BY <1>4, <2>1, RoomyBefore
    <3>2. SizeOf(file) <= largest + longest_record
      BY <1>1, <3>1 DEF Sizes
    <3>3. largest' = largest
      BY DEF limits
    <3>4. MaxPiece * (longest_record' + longest_left' + 1) + longest_left' < largest
      BY <1>2, <2>1, <3>3 DEF Roomy, Limits
    <3>5. largest \in Nat
      BY <1>2, Constants
    <3>6. SizeOf(Unnumbered(left) \o LaterHalf(file)) < largest
      BY <1>2, <1>4, <3>2, <3>4, <3>5, CutFits
    <3> QED
      BY <1>3, <3>2, <3>6
  <2> QED
    BY <1>4, <2>1 DEF Idle, Sizes, limits
<1>9. Order'
  <2>1. Ordered(file, logged, torn)
    BY <1>1 DEF Order
  <2>2. Ordered(all_buff', logged, torn)
    BY <1>2, <1>3, <1>5, <2>1, OrderedCut
  <2> QED
    BY <2>1, <2>2 DEF Order
<1> QED
  BY <1>7, <1>8, <1>9 DEF Inv

LEMMA EmptyStep ==
    ASSUME Inv, Empty PROVE Inv'
<1> USE DEF Empty
<1>1. TypeOK /\ Sizes /\ Order
  BY DEF Inv
<1>2. <<>> \in Seq(Kept) /\ all_buff \in Seq(Kept)
  BY <1>1 DEF TypeOK
<1>3. <<>> \o all_buff = all_buff /\ SizeOf(<<>>) = 0 /\ SizeOf(all_buff) \in Nat
  BY <1>2, ConcatEmptySeq, SizeOfNothing, SizeConcat
<1>4. TypeOK'
  BY <1>1, <1>2 DEF TypeOK, limits
<1>5. Roomy' => Roomy
  BY DEF Roomy
<1>6. Idle' /\ Sizes'
  BY <1>1, <1>3, <1>5 DEF Idle, Sizes, limits
<1>7. Order'
  BY <1>1, <1>3 DEF Order
<1> QED
  BY <1>4, <1>6, <1>7 DEF Inv

LEMMA WriteStep ==
    ASSUME Inv, Write PROVE Inv'
<1> USE DEF Write
<1>1. TypeOK /\ Sizes /\ Order
  BY DEF Inv
<1>2. file \in Seq(Kept) /\ all_buff \in Seq(Kept) /\ all_buff # <<>>
  BY <1>1 DEF TypeOK
<1>3. /\ file' \in Seq(Kept) /\ all_buff' \in Seq(Kept)
      /\ file' \o all_buff' = file \o all_buff
  <2> DEFINE h == Head(all_buff)
             t == Tail(all_buff)
  <2>1. h \in Kept /\ t \in Seq(Kept) /\ all_buff = <<h>> \o t
    <3>1. h \in Kept /\ t \in Seq(Kept) /\ h = all_buff[1] /\ t = SubSeq(all_buff, 2, Len(all_buff))
      BY <1>2, HeadTailProperties, TailIsSubSeq
    <3>2. 1 \in 1..Len(all_buff) /\ Len(all_buff) \in 1..Len(all_buff)
      BY <1>2, EmptySeq
    <3>3. SubSeq(all_buff, 1, Len(all_buff)) = <<all_buff[1]>> \o SubSeq(all_buff, 1 + 1, Len(all_buff))
      BY <1>2, <3>2, SubSeqRecursiveFirst
    <3>4. SubSeq(all_buff, 1, Len(all_buff)) = all_buff
      BY <1>2, SubSeqFull
    <3> QED
      BY <3>1, <3>3, <3>4
  <2>2. file' = file \o <<h>>
    BY <1>2, <2>1, AppendIsConcat
  <2> HIDE DEF h
  <2>3. <<h>> \in Seq(Kept)
    BY <2>1
  <2>4. (file \o <<h>>) \o t = file \o (<<h>> \o t)
    BY <1>2, <2>1, <2>3, ConcatAssociative
  <2>5. file \o <<h>> \in Seq(Kept)
    BY <1>2, <2>3, ConcatProperties
  <2> QED
    BY <2>1, <2>2, <2>4, <2>5
<1>4. TypeOK'
  BY <1>1, <1>3 DEF TypeOK, limits
<1>5. SizeOf(file') + SizeOf(all_buff') = SizeOf(file) + SizeOf(all_buff)
  <2>1. SizeOf(file \o all_buff) = SizeOf(file) + SizeOf(all_buff)
    BY <1>2, SizeConcat
  <2>2. SizeOf(file' \o all_buff') = SizeOf(file') + SizeOf(all_buff')
    BY <1>3, SizeConcat
  <2> QED
    BY <1>3, <2>1, <2>2
<1>6. Roomy' => Roomy
  BY DEF Roomy
<1>7. Idle' /\ Sizes'
  BY <1>1, <1>5, <1>6 DEF Idle, Sizes, limits
<1>8. Order'
  BY <1>1, <1>3 DEF Order
<1> QED
  BY <1>4, <1>7, <1>8 DEF Inv

LEMMA RestartStep ==
    ASSUME Inv, NEW v \in Configured, Restart(v) PROVE Inv'
<1> USE DEF Restart
<1>1. TypeOK /\ Sizes /\ Order
  BY DEF Inv
<1>2. /\ file \in Seq(Kept) /\ all_buff \in Seq(Kept) /\ logged \in Nat /\ torn \in BOOLEAN
      /\ largest \in Limits /\ log_init(v) \in Limits /\ <<>> \in Seq(Kept)
  BY <1>1 DEF TypeOK, Limits
<1>3. largest \in Nat /\ log_init(v) \in Nat
  BY <1>2, Constants
<1>4. TypeOK'
  BY <1>1, <1>2, <1>3 DEF TypeOK, Larger
<1>5. largest <= largest' /\ largest' \in Nat
  BY <1>3 DEF Larger
<1>6. ASSUME Roomy' PROVE SizeOf(file) <= largest' + longest_record
  <2>1. SizeOf(file) \in Nat /\ SizeOf(all_buff) \in Nat /\ longest_record \in Nat
    BY <1>1, <1>2, SizeConcat DEF TypeOK
  <2>2. Roomy
    BY <1>6 DEF Roomy
  <2>3. SizeOf(file) <= largest + longest_record
    <3>1. CASE step = "emptied"
      <4>1. SizeOf(file) + SizeOf(all_buff) < largest
        BY <1>1, <2>2, <3>1 DEF Sizes
      <4> QED
        BY <1>3, <2>1, <4>1
    <3>2. CASE step # "emptied"
      BY <1>1, <2>2, <3>2 DEF Sizes
    <3> QED
      BY <3>1, <3>2
  <2> QED
    BY <1>3, <1>5, <2>1, <2>3
<1>7. Idle' /\ Sizes'
  BY <1>6 DEF Idle, Sizes
<1>8. Ordered(file, logged, torn')
  <2>1. CASE step # "emptied"
    BY <1>1, <1>2, <2>1 DEF Order
  <2>2. CASE step = "emptied" /\ all_buff = <<>>
    <3>1. file \o <<>> = file
      BY <1>2, ConcatEmptySeq
    <3> QED
      BY <1>1, <1>2, <2>2, <3>1 DEF Order
  <2>3. CASE step = "emptied" /\ all_buff # <<>>
    <3>1. torn' = TRUE
      BY <2>3
    <3>2. Ordered(file \o all_buff, logged, torn)
      BY <1>1, <2>3 DEF Order
    <3> QED
      BY <1>2, <3>1, <3>2, OrderedTorn
  <2> QED
    BY <2>1, <2>2, <2>3
<1>9. Order'
  BY <1>8 DEF Order
<1> QED
  BY <1>4, <1>7, <1>9 DEF Inv

LEMMA Invariance == Spec => []Inv
<1>1. Inv /\ [Next]_vars => Inv'
  <2> SUFFICES ASSUME Inv, [Next]_vars PROVE Inv'
    OBVIOUS
  <2>1. CASE Next
    BY <2>1, LOGStep, CutStep, EmptyStep, WriteStep, RestartStep DEF Next
  <2>2. CASE UNCHANGED vars
    BY <2>2 DEF vars, limits, Inv, TypeOK, Idle, Sizes, Order, Roomy
  <2> QED
    BY <2>1, <2>2
<1> QED
  BY InitInv, <1>1, PTL DEF Spec

-----------------------------------------------------------------------------
(* The file does not outgrow the limits by more than one record, however   *)
(* many cuts kills interrupt, for as long as no record and no text left in *)
(* an uncleared buffer was long for the limits.                            *)
THEOREM FileStaysBounded == Spec => []FileBounded
<1>1. Inv => FileBounded
  <2> SUFFICES ASSUME Inv, Roomy PROVE SizeOf(file) <= largest + longest_record
    BY DEF FileBounded
  <2>1. /\ SizeOf(file) \in Nat /\ SizeOf(all_buff) \in Nat
        /\ largest \in Nat /\ longest_record \in Nat
    BY SizeConcat, Constants DEF Inv, TypeOK
  <2>2. CASE step = "emptied"
    <3>1. SizeOf(file) + SizeOf(all_buff) < largest
      BY <2>2 DEF Inv, Sizes
    <3> QED
      BY <2>1, <3>1
  <2>3. CASE step # "emptied"
    BY <2>3 DEF Inv, Sizes
  <2> QED
    BY <2>2, <2>3
<1> QED
  BY <1>1, Invariance, PTL

(* For as long, what a cut keeps fits, with its terminator, in the buffer  *)
(* of log_limit_size allocated for it, unless the limit was lowered.       *)
THEOREM WhatIsKeptFits == Spec => []KeptFits
<1>1. Inv => KeptFits
  <2> SUFFICES ASSUME Inv, Roomy PROVE SizeOf(all_buff) < largest
    BY DEF KeptFits
  <2>1. /\ SizeOf(file) \in Nat /\ SizeOf(all_buff) \in Nat /\ largest \in Limits
        /\ largest \in Nat /\ longest_record \in Nat /\ longest_left \in Nat
        /\ step \in {"no", "cut", "emptied"}
    BY SizeConcat, Constants DEF Inv, TypeOK
  <2>2. CASE step = "no"
    <3> DEFINE x == MaxPiece * (longest_record + longest_left + 1)
    <3>1. x \in Nat /\ x + longest_left < largest
      BY <2>1, RoomyNow, Constants
    <3>2. SizeOf(all_buff) = 0
      BY <2>2, SizeOfNothing DEF Inv, Idle
    <3> HIDE DEF x
    <3> QED
      BY <2>1, <3>1, <3>2
  <2>3. CASE step = "cut"
    BY <2>3 DEF Inv, Sizes
  <2>4. CASE step = "emptied"
    <3>1. SizeOf(file) + SizeOf(all_buff) < largest
      BY <2>4 DEF Inv, Sizes
    <3> QED
      BY <2>1, <3>1
  <2> QED
    BY <2>1, <2>2, <2>3, <2>4
<1> QED
  BY <1>1, Invariance, PTL

(* Between two LOGs the file is an unbroken end of all that was logged,    *)
(* behind leftovers, unless a kill tore a cut; nothing is ever repeated or *)
(* reordered.                                                              *)
THEOREM NewestIsKept == Spec => []NewestKept
<1>1. Inv => NewestKept
  <2> SUFFICES ASSUME Inv PROVE NewestKept
    OBVIOUS
  <2>1. file \in Seq(Kept) /\ all_buff \in Seq(Kept) /\ logged \in Nat /\ torn \in BOOLEAN
    BY DEF Inv, TypeOK
  <2>2. CASE step # "emptied"
    BY <2>2 DEF Inv, Order, Ordered, NewestKept
  <2>3. CASE step = "emptied"
    <3>1. Ordered(file, logged, TRUE)
      BY <2>1, <2>3, OrderedTorn DEF Inv, Order
    <3> QED
      BY <2>3, <3>1 DEF Ordered, NewestKept
  <2> QED
    BY <2>2, <2>3
<1> QED
  BY <1>1, Invariance, PTL
=============================================================================
