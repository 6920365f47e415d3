--------------------------- MODULE DeviceListsProofs ---------------------------
(***************************************************************************)
(* That the replies list the devices the tool printed, each with its own   *)
(* name and number, for all MACs, names, serials, ends of line and         *)
(* contents of the arrays.                                                 *)
(***************************************************************************)
EXTENDS DeviceListsProperties, Prefixes

-----------------------------------------------------------------------------
(* What the tool printed.                                                  *)

Lines == [mac : Macs, name : Names]

TypeOK == found \in Seq(Lines) /\ connected \in Seq(Macs) /\ eol \in {LF, CRLF}

(* The lists hold lines and MACs, and the end of line is one of the two. *)
LEMMA Typed == Spec => []TypeOK
<1>1. Init => TypeOK
  BY DEF Init, TypeOK
<1>2. TypeOK /\ [Next]_vars => TypeOK'
  <2> SUFFICES ASSUME TypeOK, [Next]_vars PROVE TypeOK'
    OBVIOUS
  <2> USE DEF TypeOK
  <2>1. ASSUME NEW mac \in Macs, NEW name \in Names, Find(mac, name) PROVE TypeOK'
    <3>1. [mac |-> mac, name |-> name] \in Lines
      BY DEF Lines
    <3> QED
      BY <2>1, <3>1, AppendProperties DEF Find
  <2>2. ASSUME NEW mac \in Macs, Connect(mac) PROVE TypeOK'
    BY <2>2, AppendProperties DEF Connect
  <2>3. ASSUME NEW mac \in Macs, Drop(mac) PROVE TypeOK'
    <3>1. PICK i \in DOMAIN connected : connected' = RemoveAt(connected, i)
      BY <2>3 DEF Drop
    <3>2. i \in 1..Len(connected) /\ Len(connected) \in Nat
      BY <3>1
    <3>3. /\ SubSeq(connected, 1, i - 1) \in Seq(Macs)
          /\ SubSeq(connected, i + 1, Len(connected)) \in Seq(Macs)
      BY <3>2
    <3>4. connected' \in Seq(Macs)
      BY <3>1, <3>3, ConcatProperties DEF RemoveAt
    <3> QED
      BY <2>3, <3>4 DEF Drop
  <2>4. CASE UNCHANGED vars
    BY <2>4 DEF vars
  <2> QED
    BY <2>1, <2>2, <2>3, <2>4 DEF Next
<1> QED
  BY <1>1, <1>2, PTL DEF Spec

-----------------------------------------------------------------------------
(* Strings and arrays.                                                     *)

Bytes == 0..255
Arrays == Seq(Bytes)

(* A set of numbers that is not empty has the least that Least chooses.  *)
LEMMA LeastIs ==
    ASSUME NEW S \in SUBSET Nat, S # {}
    PROVE  Least(S) \in S /\ \A j \in S : Least(S) <= j
BY LeastNumber DEF Least

(* The string of an array begins with the bytes before which there is no 0 *)
(* and, if there is one behind them, is just these.                        *)
LEMMA StrOfArray ==
    ASSUME NEW b \in Arrays, NEW n \in Nat, n <= Len(b), \A i \in 1..n : b[i] # 0
    PROVE  /\ StrOf(b) \in Strings
           /\ Len(StrOf(b)) \in n..Len(b)
           /\ \A i \in 1..Len(StrOf(b)) : StrOf(b)[i] = b[i]
           /\ n = Len(b) \/ b[n + 1] = 0 => Len(StrOf(b)) = n
<1> DEFINE zeros == {i \in DOMAIN b : b[i] = 0}
           z == Least(zeros)
           m == Len(b)
<1>0. m \in Nat
  BY DEF Arrays
<1>1. m \in Nat /\ n \in Nat /\ n <= m /\ DOMAIN b = 1..m /\ \A i \in 1..m : b[i] \in Bytes
  BY LenProperties, ElementOfSeq DEF Arrays
<1>4. n # m => n + 1 \in 1..m
  <2> HIDE DEF m
  <2>1. n <= m
    BY DEF m
  <2> QED
    BY <1>0, <2>1
<1>2. CASE zeros = {}
  <2>1. StrOf(b) = b
    BY <1>2 DEF StrOf
  <2>2. \A i \in 1..m : b[i] \in Chars
    <3> SUFFICES ASSUME NEW i \in 1..m PROVE b[i] \in Chars
      OBVIOUS
    <3>1. i \notin zeros
      BY <1>2
    <3>2. b[i] # 0 /\ b[i] \in Bytes
      BY <1>1, <3>1
    <3> QED
      BY <3>2 DEF Bytes, Chars
  <2>3. b \in [1..m -> Chars]
    BY <1>1, <2>2, LenProperties DEF Arrays
  <2>4. b \in Strings
    BY <1>1, <2>3, FunSeq DEF Strings
  <2>5. n + 1 \in 1..m => b[n + 1] # 0
    <3>1. n + 1 \in 1..m => b[n + 1] \in Chars
      BY <2>2
    <3>2. 0 \notin Chars
      BY DEF Chars
    <3> QED
      BY <3>1, <3>2
  <2>6. n = Len(b) \/ b[n + 1] = 0 => n = m
    BY <1>4, <2>5
  <2>7. m \in n..m
    BY <1>1
  <2> QED
    BY <2>1, <2>4, <2>6, <2>7
<1>3. CASE zeros # {}
  <2>1. zeros \in SUBSET Nat
    BY <1>1
  <2>2. z \in zeros /\ \A j \in zeros : z <= j
    <3> HIDE DEF zeros
    <3> QED
      BY <1>3, <2>1, LeastIs
  <2>3. StrOf(b) = SubSeq(b, 1, z - 1)
    BY <1>3 DEF StrOf
  <2> HIDE DEF z
  <2>4. z \in 1..m /\ b[z] = 0 /\ z > n
    BY <1>1, <2>2
  <2>5. \A i \in 1..(z - 1) : b[i] \in Chars
    <3> SUFFICES ASSUME NEW i \in 1..(z - 1) PROVE b[i] \in Chars
      OBVIOUS
    <3>1. i \in 1..m /\ ~(z <= i)
      BY <1>1, <2>4
    <3>2. b[i] # 0
      BY <1>1, <2>2, <3>1
    <3> QED
      BY <1>1, <3>1, <3>2 DEF Bytes, Chars
  <2>6. /\ SubSeq(b, 1, z - 1) \in Strings
        /\ Len(SubSeq(b, 1, z - 1)) = z - 1
        /\ \A i \in 1..(z - 1) : SubSeq(b, 1, z - 1)[i] = b[i]
    <3>1. 1 \in Int /\ z - 1 \in Int /\ (1 <= z - 1 => (z - 1) - 1 + 1 = z - 1) /\ (~(1 <= z - 1) => z - 1 = 0)
      BY <1>1, <2>4
    <3>2. /\ SubSeq(b, 1, z - 1) \in Strings
          /\ Len(SubSeq(b, 1, z - 1)) = IF 1 <= z - 1 THEN (z - 1) - 1 + 1 ELSE 0
      BY <2>5, <3>1, SubSeqProperties DEF Strings
    <3>3. \A i \in 1..(z - 1) : SubSeq(b, 1, z - 1)[i] = b[i]
      BY <1>1, <2>4 DEF Arrays
    <3> QED
      BY <3>1, <3>2, <3>3
  <2>7. n = m \/ b[n + 1] = 0 => z - 1 = n
    <3>1. n # m
      BY <1>1, <2>4
    <3>2. b[n + 1] = 0 => n + 1 \in zeros
      <4>1. n + 1 \in DOMAIN b
        BY <1>1, <1>4, <3>1
      <4> QED
        BY <4>1
    <3>3. b[n + 1] = 0 => z <= n + 1
      BY <2>2, <3>2
    <3>4. b[n + 1] = 0 => z - 1 = n
      BY <1>1, <2>4, <3>3
    <3> QED
      BY <3>1, <3>4
  <2>8. z - 1 \in n..m
    BY <1>1, <2>4
  <2> QED
    BY <2>3, <2>6, <2>7, <2>8
<1> QED
  BY <1>2, <1>3

(* A prefix is no longer and has the same elements.                      *)
LEMMA PrefixElements ==
    ASSUME NEW S, NEW s \in Seq(S), NEW t \in Seq(S)
    PROVE  IsPrefix(s, t) <=> Len(s) <= Len(t) /\ \A i \in 1..Len(s) : s[i] = t[i]
<1>1. Len(s) \in Nat /\ Len(t) \in Nat
  BY LenProperties
<1>2. SubSeq(s, 1, Len(s)) = s
  BY SubSeqFull
<1>3. SUFFICES ASSUME Len(s) <= Len(t)
               PROVE  s = SubSeq(t, 1, Len(s)) <=> \A i \in 1..Len(s) : s[i] = t[i]
  BY <1>2 DEF IsPrefix
<1> DEFINE u == SubSeq(t, 1, Len(s))
<1>4. u \in Seq(S) /\ Len(u) = Len(s) /\ \A i \in 1..Len(s) : u[i] = t[i]
  BY <1>1, <1>3
<1> HIDE DEF u
<1>5. ASSUME \A i \in 1..Len(s) : s[i] = t[i] PROVE s = u
  BY <1>4, <1>5, SeqEqual
<1>6. ASSUME s = u PROVE \A i \in 1..Len(s) : s[i] = t[i]
  BY <1>4, <1>6
<1> QED
  BY <1>5, <1>6 DEF u

(* strncpy of a string over an array: what stands behind it stays, and is  *)
(* read with it unless it starts with a 0.                                 *)
LEMMA CopiedString ==
    ASSUME NEW b \in Arrays, NEW s \in Strings
    PROVE  /\ Copied(b, s) \in Arrays
           /\ StrOf(Copied(b, s)) \in Strings
           /\ IsPrefix(s, StrOf(Copied(b, s)))
           /\ Len(s) + 1 \notin DOMAIN b \/ b[Len(s) + 1] = 0 => StrOf(Copied(b, s)) = s
           /\ \A p \in DOMAIN Copied(b, s) : p <= Len(s) \/ (p \in DOMAIN b /\ Copied(b, s)[p] = b[p])
<1> DEFINE m == Len(s)
           n == Len(b)
           r == SubSeq(b, m + 1, n)
           c == Copied(b, s)
           k == Len(r)
<1>1. /\ m \in Nat /\ n \in Nat /\ DOMAIN b = 1..n /\ DOMAIN s = 1..m
      /\ s \in Arrays /\ \A i \in 1..m : s[i] \in Bytes /\ s[i] # 0
  <2>1. m \in Nat /\ n \in Nat /\ DOMAIN b = 1..n /\ DOMAIN s = 1..m
    BY LenProperties DEF Arrays, Strings
  <2>2. \A i \in 1..m : s[i] \in Chars
    BY ElementOfSeq DEF Strings
  <2>3. Chars \subseteq Bytes /\ 0 \notin Chars
    BY DEF Chars, Bytes
  <2>4. s \in Arrays
    BY <2>3, SeqMonotonic DEF Strings, Arrays
  <2>5. \A i \in 1..m : s[i] \in Bytes /\ s[i] # 0
    BY <2>2, <2>3
  <2> QED
    BY <2>1, <2>4, <2>5
<1>2. r \in Arrays /\ k = (IF m + 1 <= n THEN n - m ELSE 0) /\ \A i \in 1..k : r[i] = b[i + m]
  <2>1. \A i \in (m + 1)..n : b[i] \in Bytes
    BY <1>1, ElementOfSeq DEF Arrays
  <2>2. m + 1 \in Int /\ n \in Int
    BY <1>1
  <2>3. r \in Seq(Bytes) /\ k = (IF m + 1 <= n THEN n - (m + 1) + 1 ELSE 0)
    BY <2>1, <2>2, SubSeqProperties
  <2>4. \A i \in 1..k : r[i] = b[i + m]
    BY <1>1, <2>3 DEF Arrays
  <2> QED
    BY <1>1, <2>3, <2>4 DEF Arrays
<1>3. /\ c \in Arrays /\ Len(c) = m + k /\ DOMAIN c = 1..(m + k)
      /\ \A i \in 1..(m + k) : c[i] = IF i <= m THEN s[i] ELSE r[i - m]
  <2>1. c = s \o r
    BY DEF Copied
  <2> HIDE DEF c, r, m
  <2>2. /\ s \o r \in Seq(Bytes) /\ Len(s \o r) = Len(s) + Len(r)
        /\ \A i \in 1..Len(s) + Len(r) : (s \o r)[i] = IF i <= Len(s) THEN s[i] ELSE r[i - Len(s)]
    BY <1>1, <1>2, ConcatProperties DEF Arrays
  <2>3. DOMAIN (s \o r) = 1..(Len(s) + Len(r))
    BY <2>2, LenProperties
  <2> QED
    BY <2>1, <2>2, <2>3 DEF Arrays, m
<1>4. k \in Nat /\ m <= m + k
  BY <1>1, <1>2
<1> HIDE DEF c, r, m, n, k
<1>5. \A i \in 1..m : c[i] # 0
  BY <1>1, <1>3, <1>4
<1>6. /\ StrOf(c) \in Strings /\ Len(StrOf(c)) \in m..Len(c)
      /\ \A i \in 1..Len(StrOf(c)) : StrOf(c)[i] = c[i]
      /\ m = Len(c) \/ c[m + 1] = 0 => Len(StrOf(c)) = m
  BY <1>1, <1>3, <1>4, <1>5, StrOfArray
<1>7. \A i \in 1..m : s[i] = StrOf(c)[i]
  BY <1>1, <1>3, <1>4, <1>6
<1>8. IsPrefix(s, StrOf(c))
  <2>1. m <= Len(StrOf(c))
    BY <1>1, <1>6
  <2> QED
    BY <1>6, <1>7, <2>1, PrefixElements DEF Strings, m
<1>9. m + 1 \notin DOMAIN b \/ b[m + 1] = 0 => StrOf(c) = s
  <2> SUFFICES ASSUME m + 1 \notin DOMAIN b \/ b[m + 1] = 0 PROVE StrOf(c) = s
    OBVIOUS
  <2>1. m = Len(c) \/ c[m + 1] = 0
    <3>1. CASE m + 1 <= n
      <4>1. m + 1 \in 1..(m + k) /\ 1 \in 1..k /\ ~(m + 1 <= m) /\ (m + 1) - m = 1 /\ m + 1 \in DOMAIN b
        BY <1>1, <1>2, <3>1
      <4>2. c[m + 1] = r[1] /\ r[1] = b[1 + m]
        BY <1>2, <1>3, <4>1
      <4>3. 1 + m = m + 1
        BY <1>1
      <4> QED
        BY <4>1, <4>2, <4>3
    <3>2. CASE ~(m + 1 <= n)
      BY <1>1, <1>2, <1>3, <3>2
    <3> QED
      BY <3>1, <3>2
  <2>2. Len(StrOf(c)) = m
    BY <1>6, <2>1
  <2> QED
    BY <1>6, <1>7, <2>2, SeqEqual DEF Strings, m
<1>10. ASSUME NEW p \in DOMAIN c PROVE p <= m \/ (p \in DOMAIN b /\ c[p] = b[p])
  <2> SUFFICES ASSUME ~(p <= m) PROVE p \in DOMAIN b /\ c[p] = b[p]
    OBVIOUS
  <2>1. p \in 1..(m + k) /\ p - m \in 1..k /\ (p - m) + m = p
    BY <1>1, <1>2, <1>3
  <2>2. c[p] = r[p - m] /\ r[p - m] = b[(p - m) + m]
    BY <1>2, <1>3, <2>1
  <2>3. p \in 1..n
    BY <1>1, <1>2, <2>1
  <2> QED
    BY <1>1, <2>1, <2>2, <2>3
<1> QED
  BY <1>3, <1>6, <1>8, <1>9, <1>10 DEF c, m

(* An array that is cleared first holds the string and no more.            *)
LEMMA CleanString ==
    ASSUME NEW b \in Arrays, NEW s \in Strings
    PROVE  CopiedClean(b, s) \in Arrays /\ StrOf(CopiedClean(b, s)) = s
<1> DEFINE m == Len(s)
           n == Len(b)
           r == [i \in 1..n |-> 0]
           c == CopiedClean(b, s)
<1>1. /\ m \in Nat /\ n \in Nat /\ s \in Arrays /\ \A i \in 1..m : s[i] # 0
  <2>1. m \in Nat /\ n \in Nat
    BY LenProperties DEF Arrays, Strings
  <2>2. \A i \in 1..m : s[i] \in Chars
    BY ElementOfSeq DEF Strings
  <2>3. Chars \subseteq Bytes /\ 0 \notin Chars
    BY DEF Chars, Bytes
  <2>4. s \in Arrays
    BY <2>3, SeqMonotonic DEF Strings, Arrays
  <2> QED
    BY <2>1, <2>2, <2>3, <2>4
<1>2. r \in Arrays /\ Len(r) = n
  <2>1. r \in [1..n -> Bytes]
    BY DEF Bytes
  <2> HIDE DEF r
  <2> QED
    BY <1>1, <2>1, FunSeq DEF Arrays
<1>3. \A i \in 1..n : r[i] = 0
  OBVIOUS
<1>4. c = s \o r
  BY DEF CopiedClean
<1> HIDE DEF r, c, m, n
<1>5. /\ c \in Arrays /\ Len(c) = m + n
      /\ \A i \in 1..(m + n) : c[i] = IF i <= m THEN s[i] ELSE r[i - m]
  <2>1. /\ s \o r \in Seq(Bytes) /\ Len(s \o r) = Len(s) + Len(r)
        /\ \A i \in 1..Len(s) + Len(r) : (s \o r)[i] = IF i <= Len(s) THEN s[i] ELSE r[i - Len(s)]
    BY <1>1, <1>2, ConcatProperties DEF Arrays
  <2> QED
    BY <1>2, <1>4, <2>1 DEF Arrays, m
<1>6. m <= Len(c) /\ \A i \in 1..m : i \in 1..(m + n) /\ c[i] = s[i]
  BY <1>1, <1>5
<1>7. m = Len(c) \/ c[m + 1] = 0
  <2>1. CASE n = 0
    BY <1>1, <1>5, <2>1
  <2>2. CASE n > 0
    <3>1. m + 1 \in 1..(m + n) /\ ~(m + 1 <= m) /\ (m + 1) - m = 1 /\ 1 \in 1..n
      BY <1>1, <2>2
    <3>2. c[m + 1] = r[1]
      BY <1>5, <3>1
    <3> QED
      BY <1>3, <3>1, <3>2
  <2> QED
    BY <1>1, <2>1, <2>2
<1>8. /\ StrOf(c) \in Strings /\ Len(StrOf(c)) = m
      /\ \A i \in 1..Len(StrOf(c)) : StrOf(c)[i] = c[i]
  <2>1. \A i \in 1..m : c[i] # 0
    BY <1>1, <1>6
  <2> QED
    BY <1>1, <1>5, <1>6, <1>7, <2>1, StrOfArray
<1>9. StrOf(c) = s
  <2>1. \A i \in 1..m : StrOf(c)[i] = s[i]
    BY <1>6, <1>8
  <2> QED
    BY <1>8, <2>1, SeqEqual DEF Strings, m
<1> QED
  BY <1>5, <1>9 DEF c

(* A name is a string: the line's own, or one of the two that stand for it. *)
LEMMA NameIsString ==
    ASSUME NEW name \in Strings, NEW mac
    PROVE  NameOr(name, mac) \in {name, DefaultName, Unknow} /\ NameOr(name, mac) \in Strings
BY NamesAssumption DEF NameOr

-----------------------------------------------------------------------------
(* The text of a command, and its lines.                                   *)

(* Whole lines are taken, all of them unless they are too long together.   *)
LEMMA LinesTaken ==
    ASSUME NEW lens \in Seq(Nat)
    PROVE  /\ executeCMD(lens) \in 0..Len(lens)
           /\ executeCMD(lens) < Len(lens) => Total(lens) > Cap
<1> DEFINE full == {k \in DOMAIN lens : Sums(lens)[k] > Cap}
<1>1. Len(lens) \in Nat /\ DOMAIN lens = 1..Len(lens)
  BY LenProperties
<1>2. CASE full = {}
  BY <1>1, <1>2 DEF executeCMD
<1>3. CASE full # {}
  <2>1. executeCMD(lens) = Least(full)
    BY <1>3 DEF executeCMD
  <2>2. Least(full) \in full
    <3>1. full \in SUBSET Nat
      BY <1>1
    <3> HIDE DEF full
    <3> QED
      BY <1>3, <3>1, LeastIs
  <2>3. PICK k \in 1..Len(lens) : k = executeCMD(lens) /\ Sums(lens)[k] > Cap
    BY <1>1, <2>1, <2>2
  <2>4. k \in 0..Len(lens) /\ Sums(lens)[k] \in Nat /\ Total(lens) \in Nat
    BY <1>1, SumsDefined
  <2>5. Sums(lens)[k] <= Total(lens)
    BY <2>4, SumsMonotone
  <2> QED
    BY <2>3, <2>4, <2>5, CapAssumption
<1> QED
  BY <1>2, <1>3

(* Each line is seen once, in order, with nothing in between: of the       *)
(* first i that are seen, Count(i) are lines.                              *)
Count(i) == (i + Len(eol) - 1) \div Len(eol)
Counted(lines, nothing) ==
    LET seen == LinesSeen(lines, nothing)
    IN  /\ Len(seen) \in Nat /\ DOMAIN seen = 1..Len(seen)
        /\ Count(0) = 0 /\ Count(Len(seen)) = Len(lines)
        /\ \A i \in 1..Len(seen) :
              /\ Count(i - 1) \in 0..Len(lines)
              /\ \/ /\ Count(i) = Count(i - 1) + 1 /\ Count(i) \in 1..Len(lines)
                    /\ seen[i] = lines[Count(i)]
                 \/ Count(i) = Count(i - 1) /\ seen[i] = nothing

LEMMA LinesCounted ==
    ASSUME TypeOK, NEW S, NEW lines \in Seq(S), NEW nothing
    PROVE  Counted(lines, nothing)
<1> DEFINE seen == LinesSeen(lines, nothing)
           n == Len(lines)
<1>1. n \in Nat
  BY LenProperties
<1>2. CASE eol = LF
  <2>1. Len(eol) = 1
    BY <1>2 DEF LF
  <2>2. seen = [i \in 1..n * 1 |-> IF (i - 1) % 1 = 0 THEN lines[(i - 1) \div 1 + 1] ELSE nothing]
    BY <2>1 DEF LinesSeen
  <2>3. Len(seen) = n /\ DOMAIN seen = 1..n
    BY <1>1, <2>2
  <2>4. \A i \in 0..n : Count(i) = i
    BY <1>1, <2>1 DEF Count
  <2>5. \A i \in 1..n : seen[i] = lines[i]
    BY <1>1, <2>2
  <2> HIDE DEF seen, n
  <2>6. \A i \in 1..n : Count(i - 1) = i - 1 /\ Count(i) = i
    BY <1>1, <2>4
  <2>7. Count(0) = 0 /\ Count(n) = n
    BY <1>1, <2>4
  <2> QED
    BY <1>1, <2>3, <2>5, <2>6, <2>7 DEF Counted, seen, n
<1>3. CASE eol = CRLF
  <2>1. Len(eol) = 2
    BY <1>3 DEF CRLF
  <2>2. seen = [i \in 1..n * 2 |-> IF (i - 1) % 2 = 0 THEN lines[(i - 1) \div 2 + 1] ELSE nothing]
    BY <2>1 DEF LinesSeen
  <2>3. Len(seen) = n * 2 /\ DOMAIN seen = 1..n * 2 /\ n * 2 \in Nat
    BY <1>1, <2>2
  <2>4. \A i \in 0..n * 2 : Count(i) = (i + 1) \div 2
    BY <1>1, <2>1 DEF Count
  <2>5. \A i \in 1..n * 2 : seen[i] = IF (i - 1) % 2 = 0 THEN lines[(i - 1) \div 2 + 1] ELSE nothing
    BY <2>2
  <2> HIDE DEF seen, n
  <2>6. ASSUME NEW i \in 1..n * 2
        PROVE  /\ Count(i - 1) \in 0..n
               /\ \/ /\ Count(i) = Count(i - 1) + 1 /\ Count(i) \in 1..n
                     /\ seen[i] = lines[Count(i)]
                  \/ Count(i) = Count(i - 1) /\ seen[i] = nothing
    <3>1. i \in 0..n * 2 /\ i - 1 \in 0..n * 2 /\ (i - 1) + 1 = i
      BY <1>1
    <3>2. Count(i - 1) = i \div 2 /\ Count(i) = (i + 1) \div 2
      BY <2>4, <3>1
    <3>3. CASE (i - 1) % 2 = 0
      <4>1. (i - 1) \div 2 + 1 = (i + 1) \div 2 /\ (i + 1) \div 2 = i \div 2 + 1
            /\ (i + 1) \div 2 \in 1..n /\ i \div 2 \in 0..n
        BY <1>1, <3>3
      <4> QED
        BY <2>5, <3>2, <3>3, <4>1
    <3>4. CASE (i - 1) % 2 # 0
      <4>1. (i + 1) \div 2 = i \div 2 /\ i \div 2 \in 0..n
        BY <1>1, <3>4
      <4> QED
        BY <2>5, <3>2, <3>4, <4>1
    <3> QED
      BY <3>3, <3>4
  <2>7. Count(0) = 0 /\ Count(n * 2) = n
    <3>1. 0 \in 0..n * 2 /\ n * 2 \in 0..n * 2 /\ (0 + 1) \div 2 = 0 /\ (n * 2 + 1) \div 2 = n
      BY <1>1
    <3> QED
      BY <2>4, <3>1
  <2> QED
    BY <2>3, <2>6, <2>7 DEF Counted, seen, n
<1> QED
  BY <1>2, <1>3 DEF TypeOK

(* Of the lines found, a first part reaches the replies: all of them       *)
(* unless they are too long together.                                      *)
LEMMA ScanTaken ==
    ASSUME TypeOK
    PROVE  /\ getScanResult \in Seq(Lines) /\ Len(found) \in Nat /\ Len(getScanResult) \in 0..Len(found)
           /\ Len(getScanResult) < Len(found) => ScanTotal > Cap
           /\ \A k \in 1..Len(getScanResult) : k \in 1..Len(found) /\ getScanResult[k] = found[k]
<1> DEFINE lens == [i \in DOMAIN found |-> ScanLength(found[i])]
           n == Len(found)
           e == executeCMD(lens)
<1>1. n \in Nat /\ found \in Seq(Lines) /\ DOMAIN found = 1..n /\ \A i \in 1..n : found[i] \in Lines
  BY LenProperties, ElementOfSeq DEF TypeOK
<1>2. lens \in Seq(Nat) /\ Len(lens) = n
  <2>1. ASSUME NEW i \in 1..n PROVE ScanLength(found[i]) \in Nat
    <3>1. found[i].mac \in Strings /\ found[i].name \in Strings
      BY <1>1, MacsAssumption, NamesAssumption DEF Lines
    <3> DEFINE a == Len(found[i].mac)
               b == Len(found[i].name)
               c == Len(eol)
    <3>2. a \in Nat /\ b \in Nat /\ c \in Nat
      BY <3>1, LenProperties DEF Strings, TypeOK, LF, CRLF
    <3>3. ScanLength(found[i]) = 5 + a + 1 + b + c
      BY DEF ScanLength
    <3> HIDE DEF a, b, c
    <3> QED
      BY <3>2, <3>3
  <2>2. lens \in [1..n -> Nat]
    BY <1>1, <2>1
  <2> HIDE DEF lens
  <2> QED
    BY <1>1, <2>2, FunSeq
<1>3. e \in 0..n /\ (e < n => Total(lens) > Cap)
  <2> HIDE DEF lens
  <2> QED
    BY <1>2, LinesTaken
<1>4. getScanResult = SubSeq(found, 1, e)
  BY DEF getScanResult
<1> HIDE DEF e
<1>5. /\ SubSeq(found, 1, e) \in Seq(Lines) /\ Len(SubSeq(found, 1, e)) = e
      /\ \A k \in 1..e : SubSeq(found, 1, e)[k] = found[k]
  BY <1>1, <1>3
<1>6. \A k \in 1..e : k \in 1..n
  BY <1>1, <1>3
<1> QED
  BY <1>1, <1>3, <1>4, <1>5, <1>6 DEF ScanTotal

(* Of the connected devices, a first part reaches the replies.           *)
LEMMA ConnectedTaken ==
    ASSUME TypeOK
    PROVE  /\ getConnectedDevices \in Seq(Macs)
           /\ Len(getConnectedDevices) \in 0..Len(connected)
           /\ \A k \in 1..Len(getConnectedDevices) : getConnectedDevices[k] = connected[k]
<1> DEFINE lens == [i \in DOMAIN connected |-> Len(connected[i]) + 1]
           n == Len(connected)
           e == executeCMD(lens)
<1>1. n \in Nat /\ connected \in Seq(Macs) /\ DOMAIN connected = 1..n /\ \A i \in 1..n : connected[i] \in Macs
  BY LenProperties, ElementOfSeq DEF TypeOK
<1>2. lens \in Seq(Nat) /\ Len(lens) = n
  <2>1. ASSUME NEW i \in 1..n PROVE Len(connected[i]) + 1 \in Nat
    <3>1. connected[i] \in Strings
      BY <1>1, MacsAssumption
    <3>2. Len(connected[i]) \in Nat
      BY <3>1, LenProperties DEF Strings
    <3> QED
      BY <3>2
  <2>2. lens \in [1..n -> Nat]
    BY <1>1, <2>1
  <2> HIDE DEF lens
  <2> QED
    BY <1>1, <2>2, FunSeq
<1>3. e \in 0..n
  <2> HIDE DEF lens
  <2> QED
    BY <1>2, LinesTaken
<1>4. getConnectedDevices = SubSeq(connected, 1, e)
  BY DEF getConnectedDevices
<1> HIDE DEF e
<1>5. /\ SubSeq(connected, 1, e) \in Seq(Macs) /\ Len(SubSeq(connected, 1, e)) = e
      /\ \A k \in 1..e : SubSeq(connected, 1, e)[k] = connected[k]
  BY <1>1, <1>3
<1> QED
  BY <1>1, <1>3, <1>4, <1>5

-----------------------------------------------------------------------------
(* The reply to a scan.                                                    *)

Item == [mac : Macs, name : Strings]
Listed == [items : Seq(Item), array : Arrays]

(* A line that is not empty adds its MAC and name; an empty one nothing. *)
LEMMA ScanLineTyped ==
    ASSUME NEW d \in Listed, NEW line \in Lines \union {NoLine}
    PROVE  /\ ScanLine(d, line) \in Listed
           /\ line = NoLine => ScanLine(d, line) = d
           /\ line # NoLine =>
                 ScanLine(d, line).items =
                     Append(d.items, [mac |-> line.mac, name |-> NameOr(line.name, line.mac)])
<1>1. d.items \in Seq(Item) /\ d.array \in Arrays
  BY DEF Listed
<1>2. CASE line = NoLine
  BY <1>2 DEF ScanLine
<1>3. CASE line # NoLine
  <2> DEFINE name == NameOr(line.name, line.mac)
             b == CopiedClean(d.array, name)
             item == [mac |-> line.mac, name |-> name]
  <2>1. line.mac \in Macs /\ line.name \in Strings
    BY <1>3, NamesAssumption DEF Lines
  <2>2. name \in Strings
    BY <2>1, NameIsString
  <2>3. b \in Arrays /\ StrOf(b) = name
    <3> HIDE DEF name
    <3> QED
      BY <1>1, <2>2, CleanString
  <2>4. item \in Item
    BY <2>1, <2>2 DEF Item
  <2>5. ScanLine(d, line) = [items |-> Append(d.items, item), array |-> b]
    BY <1>3, <2>3 DEF ScanLine, ScanItem
  <2> HIDE DEF item, b
  <2>6. Append(d.items, item) \in Seq(Item)
    BY <1>1, <2>4, AppendProperties
  <2>7. ScanLine(d, line) \in Listed
    BY <2>3, <2>5, <2>6 DEF Listed
  <2>8. ScanLine(d, line).items = Append(d.items, item)
    BY <2>5
  <2> QED
    BY <1>3, <2>7, <2>8 DEF item
<1> QED
  BY <1>2, <1>3

(* The list of a scan is made line by line.                              *)
LEMMA ScanItemsDefined ==
    ASSUME TypeOK, NEW array \in Arrays
    PROVE  LET lines == LinesSeen(getScanResult, NoLine)
               done == ScanItems(array)
           IN  /\ \A i \in 1..Len(lines) : lines[i] \in Lines \union {NoLine}
               /\ done[0] = [items |-> <<>>, array |-> array]
               /\ \A i \in 0..Len(lines) : done[i] \in Listed
               /\ \A i \in 1..Len(lines) : done[i] = ScanLine(done[i - 1], lines[i])
<1> DEFINE lines == LinesSeen(getScanResult, NoLine)
           n == Len(lines)
           first == [items |-> <<>>, array |-> array]
           next == [i \in 1..n |-> [d \in Listed |-> ScanLine(d, lines[i])]]
           R(f) == [i \in 0..n |-> IF i = 0 THEN first ELSE ScanLine(f[i - 1], lines[i])]
           done == ScanItems(array)
<1>1. n \in Nat /\ \A i \in 1..n : lines[i] \in Lines \union {NoLine}
  <2> DEFINE found_ == getScanResult
  <2>1. found_ \in Seq(Lines) /\ \A k \in 1..Len(found_) : found_[k] \in Lines
    BY ScanTaken, ElementOfSeq
  <2> HIDE DEF found_
  <2>2. Counted(found_, NoLine)
    BY <2>1, LinesCounted
  <2>3. /\ Len(LinesSeen(found_, NoLine)) \in Nat
        /\ \A i \in 1..Len(LinesSeen(found_, NoLine)) :
               LinesSeen(found_, NoLine)[i] \in Lines \union {NoLine}
    BY <2>1, <2>2 DEF Counted
  <2> QED
    BY <2>3 DEF found_
<1> HIDE DEF lines
<1>2. first \in Listed
  BY DEF Listed
<1>3. next \in [1..n -> [Listed -> Listed]]
  <2>1. ASSUME NEW i \in 1..n PROVE [d \in Listed |-> ScanLine(d, lines[i])] \in [Listed -> Listed]
    BY <1>1, ScanLineTyped
  <2> QED
    BY <2>1
<1>4. PICK f : Follows(n, Listed, first, next, f)
  <2>1. Steps(n, Listed, first, next)
    BY <1>1, <1>2, <1>3 DEF Steps
  <2> HIDE DEF next, first, n
  <2> QED
    BY <2>1, Recursion
<1>5. f \in [0..n -> Listed] /\ f[0] = first /\ \A i \in 1..n : f[i] = ScanLine(f[i - 1], lines[i])
  <2>1. f \in [0..n -> Listed] /\ f[0] = first /\ \A i \in 1..n : f[i] = next[i][f[i - 1]]
    BY <1>4 DEF Follows
  <2>2. ASSUME NEW i \in 1..n PROVE f[i] = ScanLine(f[i - 1], lines[i])
    <3>1. f[i - 1] \in Listed /\ next[i] = [d \in Listed |-> ScanLine(d, lines[i])]
      BY <1>1, <2>1
    <3>2. f[i] = next[i][f[i - 1]]
      BY <2>1
    <3> QED
      BY <3>1, <3>2
  <2> QED
    BY <2>1, <2>2
<1>6. f = R(f)
  <2> HIDE DEF first
  <2> QED
    BY <1>5
<1>7. done = R(done)
  <2>1. done = CHOOSE g : g = R(g)
    BY DEF ScanItems, lines
  <2> HIDE DEF R, done
  <2> QED
    BY <1>6, <2>1
<1> HIDE DEF done, first
<1>8. done[0] = first /\ \A i \in 1..n : done[i] = ScanLine(done[i - 1], lines[i])
  BY <1>1, <1>7
<1>9. \A i \in 0..n : done[i] \in Listed
  <2> DEFINE I == {i \in 0..n : done[i] \in Listed}
  <2>1. 0 \in I
    BY <1>1, <1>2, <1>8
  <2>2. ASSUME NEW i \in 1..n, i - 1 \in I PROVE i \in I
    <3>1. done[i - 1] \in Listed /\ lines[i] \in Lines \union {NoLine} /\ i \in 0..n
      BY <1>1, <2>2
    <3>2. done[i] = ScanLine(done[i - 1], lines[i])
      BY <1>8
    <3> QED
      BY <3>1, <3>2, ScanLineTyped
  <2> HIDE DEF I
  <2>3. \A i \in 0..n : i \in I
    BY <1>1, <2>1, <2>2, UpTo
  <2> QED
    BY <2>3 DEF I
<1> QED
  BY <1>1, <1>8, <1>9 DEF done, first, lines

(* After i of the lines seen, the items are those of the Count(i) first    *)
(* lines.                                                                  *)
LEMMA ScanItemsAre ==
    ASSUME TypeOK, NEW array \in Arrays
    PROVE  LET items == genScanResultResp(array)
           IN  /\ items \in Seq(Item) /\ Len(items) = Len(getScanResult)
               /\ \A k \in 1..Len(items) :
                      items[k] = [mac |-> found[k].mac, name |-> NameOr(found[k].name, found[k].mac)]
<1> DEFINE lines == getScanResult
           seen == LinesSeen(lines, NoLine)
           n == Len(seen)
           done == ScanItems(array)
           own(k) == [mac |-> lines[k].mac, name |-> NameOr(lines[k].name, lines[k].mac)]
           Good(i) == /\ Len(done[i].items) = Count(i)
                      /\ \A k \in 1..Count(i) : done[i].items[k] = own(k)
           I == {i \in 0..n : Good(i)}
<1>1. /\ lines \in Seq(Lines) /\ Len(lines) \in Nat
      /\ \A k \in 1..Len(lines) : lines[k] = found[k] /\ lines[k] \in Lines
  BY ScanTaken, LenProperties, ElementOfSeq
<1>2. Counted(lines, NoLine)
  <2> HIDE DEF lines
  <2> QED
    BY <1>1, LinesCounted
<1>3. /\ \A i \in 1..n : seen[i] \in Lines \union {NoLine}
      /\ done[0] = [items |-> <<>>, array |-> array]
      /\ \A i \in 0..n : done[i] \in Listed
      /\ \A i \in 1..n : done[i] = ScanLine(done[i - 1], seen[i])
  BY ScanItemsDefined
<1>4. genScanResultResp(array) = done[n].items
  BY DEF genScanResultResp
<1>5. NoLine \notin Lines
  <2> SUFFICES ASSUME NoLine \in Lines PROVE FALSE
    OBVIOUS
  <2>1. NoLine.mac \in Macs /\ NoLine.mac = <<>>
    BY DEF NoLine, Lines
  <2> QED
    BY <2>1, MacsAssumption
<1> HIDE DEF done, lines
<1>6. /\ n \in Nat /\ Count(0) = 0 /\ Count(n) = Len(lines)
      /\ \A i \in 1..n :
             /\ Count(i - 1) \in 0..Len(lines)
             /\ \/ Count(i) = Count(i - 1) + 1 /\ Count(i) \in 1..Len(lines) /\ seen[i] = lines[Count(i)]
                \/ Count(i) = Count(i - 1) /\ seen[i] = NoLine
  BY <1>2 DEF Counted
<1> HIDE DEF seen, n
<1>7. Good(0)
  BY <1>3, <1>6
<1>8. ASSUME NEW i \in 1..n, Good(i - 1) PROVE Good(i)
  <2> DEFINE d == done[i - 1]
             c == Count(i - 1)
  <2>1. d \in Listed /\ d.items \in Seq(Item) /\ c \in Nat /\ Len(d.items) = c
        /\ \A k \in 1..c : d.items[k] = own(k)
    <3>1. i - 1 \in 0..n
      BY <1>6
    <3>2. d \in Listed /\ c \in 0..Len(lines)
      BY <1>3, <1>6, <3>1
    <3> QED
      BY <1>1, <1>8, <3>2 DEF Listed
  <2>2. done[i] = ScanLine(d, seen[i]) /\ seen[i] \in Lines \union {NoLine}
    BY <1>3
  <2>3. CASE Count(i) = c /\ seen[i] = NoLine
    <3>1. done[i] = d
      BY <2>1, <2>2, <2>3, ScanLineTyped
    <3> QED
      BY <2>1, <2>3, <3>1
  <2>4. CASE Count(i) = c + 1 /\ Count(i) \in 1..Len(lines) /\ seen[i] = lines[Count(i)]
    <3>1. seen[i] # NoLine
      BY <1>1, <1>5, <2>4
    <3>2. done[i].items = Append(d.items, own(c + 1))
      <4>1. ScanLine(d, seen[i]).items =
                Append(d.items, [mac |-> seen[i].mac, name |-> NameOr(seen[i].name, seen[i].mac)])
        <5> HIDE DEF d
        <5> QED
          BY <2>1, <2>2, <3>1, ScanLineTyped
      <4>2. seen[i] = lines[c + 1]
        BY <2>4
      <4> QED
        BY <2>2, <4>1, <4>2
    <3> HIDE DEF d, c, own
    <3>3. own(c + 1) \in Item
      <4>1. lines[c + 1].mac \in Macs /\ lines[c + 1].name \in Strings
        BY <1>1, <2>4, NamesAssumption DEF Lines
      <4>2. NameOr(lines[c + 1].name, lines[c + 1].mac) \in Strings
        BY <4>1, NameIsString
      <4> QED
        BY <4>1, <4>2 DEF Item, own
    <3>4. /\ Len(Append(d.items, own(c + 1))) = c + 1
          /\ \A k \in 1..(c + 1) : Append(d.items, own(c + 1))[k] = IF k <= c THEN d.items[k] ELSE own(c + 1)
      BY <2>1, <3>3, AppendProperties
    <3>5. ASSUME NEW k \in 1..(c + 1) PROVE done[i].items[k] = own(k)
      <4>1. CASE k <= c
        <5>1. k \in 1..c
          BY <2>1, <4>1
        <5> QED
          BY <2>1, <3>2, <3>4, <4>1, <5>1
      <4>2. CASE ~(k <= c)
        <5>1. k = c + 1
          BY <2>1, <4>2
        <5> QED
          BY <3>2, <3>4, <4>2, <5>1
      <4> QED
        BY <4>1, <4>2
    <3> QED
      BY <2>4, <3>2, <3>4, <3>5
  <2> QED
    BY <1>6, <2>3, <2>4
<1>9. Good(n)
  <2> HIDE DEF Good
  <2>1. 0 \in I /\ \A i \in 1..n : i - 1 \in I => i \in I
    BY <1>6, <1>7, <1>8
  <2> HIDE DEF I
  <2>2. \A i \in 0..n : i \in I
    BY <1>6, <2>1, UpTo
  <2>3. n \in I
    BY <1>6, <2>2
  <2> QED
    BY <2>3 DEF I
<1>10. /\ done[n].items \in Seq(Item) /\ Len(done[n].items) = Len(lines)
       /\ \A k \in 1..Len(lines) : done[n].items[k] = own(k)
  <2>1. n \in 0..n
    BY <1>6
  <2> QED
    BY <1>3, <1>6, <1>9, <2>1 DEF Listed
<1>11. \A k \in 1..Len(lines) : own(k) = [mac |-> found[k].mac, name |-> NameOr(found[k].name, found[k].mac)]
  BY <1>1
<1> QED
  BY <1>4, <1>10, <1>11 DEF lines, seen, n

(* What the properties let an array start with is an array.              *)
LEMMA GarbageIsArray == ASSUME NEW b \in Garbage PROVE b \in Arrays
<1>1. [i \in 1..64 |-> 0] \in [1..64 -> Bytes]
  BY DEF Bytes
<1>2. [i \in 1..64 |-> 0] \in Seq(Bytes)
  <2> DEFINE zeros == [i \in 1..64 |-> 0]
  <2>1. zeros \in [1..64 -> Bytes] /\ 64 \in Nat
    BY <1>1
  <2> HIDE DEF zeros
  <2>2. zeros \in Seq(Bytes)
    BY <2>1, FunSeq
  <2> QED
    BY <2>2 DEF zeros
<1> QED
  BY <1>2, ResidueAssumption DEF Garbage, Arrays, Bytes

(* The reply to getScanResult has one item per line of the scan, in order, *)
(* whichever way lines end; a scan that is too long loses whole lines at   *)
(* its end, one that fits loses none.                                      *)
THEOREM ScanListsAllFound == Spec => []ScanListsFound
<1>1. TypeOK => ScanListsFound
  <2> SUFFICES ASSUME TypeOK, NEW b \in Garbage
               PROVE  LET items == genScanResultResp(b)
                      IN  /\ Len(items) = Len(found) \/ (Len(items) < Len(found) /\ ScanTotal > Cap)
                          /\ \A i \in DOMAIN items : items[i].mac = found[i].mac
    BY DEF ScanListsFound
  <2> DEFINE items == genScanResultResp(b)
  <2>1. /\ items \in Seq(Item) /\ Len(items) = Len(getScanResult)
        /\ \A k \in 1..Len(items) :
               items[k] = [mac |-> found[k].mac, name |-> NameOr(found[k].name, found[k].mac)]
    BY GarbageIsArray, ScanItemsAre
  <2> HIDE DEF items
  <2>2. DOMAIN items = 1..Len(items)
    BY <2>1, LenProperties
  <2>3. \A k \in DOMAIN items : items[k].mac = found[k].mac
    BY <2>1, <2>2
  <2>4. Len(items) = Len(found) \/ (Len(items) < Len(found) /\ ScanTotal > Cap)
    BY <2>1, ScanTaken
  <2> QED
    BY <2>3, <2>4 DEF items
<1> QED
  BY <1>1, Typed, PTL

(* An item of that reply carries the name of its own line or, if that is   *)
(* three characters or less, the name its MAC stands for: never a piece of *)
(* another device's, although one array serves all lines.                  *)
THEOREM ScanNamesAreOwn == Spec => []ScanNamesOwn
<1>1. TypeOK => ScanNamesOwn
  <2> SUFFICES ASSUME TypeOK, NEW b \in Garbage
               PROVE  LET items == genScanResultResp(b)
                      IN  \A i \in DOMAIN items : items[i].name = NameOr(found[i].name, found[i].mac)
    BY DEF ScanNamesOwn
  <2> DEFINE items == genScanResultResp(b)
  <2>1. /\ items \in Seq(Item)
        /\ \A k \in 1..Len(items) :
               items[k] = [mac |-> found[k].mac, name |-> NameOr(found[k].name, found[k].mac)]
    BY GarbageIsArray, ScanItemsAre
  <2> HIDE DEF items
  <2>2. DOMAIN items = 1..Len(items)
    BY <2>1, LenProperties
  <2>3. ASSUME NEW k \in DOMAIN items PROVE items[k].name = NameOr(found[k].name, found[k].mac)
    BY <2>1, <2>2
  <2> QED
    BY <2>3 DEF items
<1> QED
  BY <1>1, Typed, PTL

-----------------------------------------------------------------------------
(* Serial and model numbers.                                               *)

(* A digit printed and read again is the same.                             *)
LEMMA DigitRead == ASSUME NEW d \in 0..15 PROVE Nibble(Digit(d)) = d
<1>1. CASE d < 10
  <2>1. Digit(d) = 48 + d /\ Digit(d) \notin 97..122
    BY <1>1 DEF Digit
  <2>2. (Digit(d) - 48) % 256 = d
    BY <2>1
  <2> QED
    BY <1>1, <2>1, <2>2 DEF Nibble
<1>2. CASE d >= 10
  <2>1. Digit(d) = 55 + d /\ Digit(d) \notin 97..122
    BY <1>2 DEF Digit
  <2>2. (Digit(d) - 48) % 256 = d + 7 /\ ((d + 7) - 7) % 256 = d
    BY <2>1
  <2> QED
    BY <1>2, <2>1, <2>2 DEF Nibble
<1> QED
  BY <1>1, <1>2

(* The digits of v, and their pairs decoded again.                         *)
LEMMA NumberRead ==
    ASSUME TypeOK, NEW v \in Strings, 2 * Len(v) + 2 < 128
    PROVE  Decoded(gatt_read(v)) \in ({v} \ {<<>>}) \union {Unknow}
<1> DEFINE n == Len(v)
           digit(i) == LET c == v[(i + 1) \div 2] IN Digit(IF i % 2 = 1 THEN c \div 16 ELSE c % 16)
           h == [i \in 1..2 * n |-> digit(i)]
           ret == gatt_read(v)
<1>1. n \in Nat /\ DOMAIN v = 1..n /\ \A i \in 1..n : v[i] \in Chars
  BY LenProperties, ElementOfSeq DEF Strings
<1>2. h \in Seq(Int) /\ Len(h) = 2 * n
  <2>1. ASSUME NEW i \in 1..2 * n PROVE digit(i) \in Int
    <3>1. (i + 1) \div 2 \in 1..n
      BY <1>1
    <3> DEFINE c == v[(i + 1) \div 2]
    <3>2. c \in Chars
      BY <1>1, <3>1
    <3> HIDE DEF c
    <3>3. c \in Int
      BY <3>2 DEF Chars
    <3>4. c \div 16 \in Int /\ c % 16 \in Int
      BY <3>3
    <3> QED
      BY <3>4 DEF Digit, c
  <2>2. 2 * n \in Nat
    BY <1>1
  <2> HIDE DEF digit
  <2>3. h \in [1..2 * n -> Int]
    BY <2>1
  <2> HIDE DEF h
  <2> QED
    BY <2>2, <2>3, FunSeq
<1>3. \A i \in 1..2 * n : h[i] = digit(i)
  OBVIOUS
<1>4. ret = h \o eol
  BY DEF gatt_read
<1>5. eol \in Seq(Int) /\ Len(eol) \in {1, 2} /\ (eol = LF => Len(eol) = 1) /\ (eol = CRLF => Len(eol) = 2)
  <2>1. LF \in Seq(Int) /\ Len(LF) = 1 /\ CRLF \in Seq(Int) /\ Len(CRLF) = 2
    BY DEF LF, CRLF
  <2>2. CASE eol = LF
    <3>1. eol \in Seq(Int) /\ Len(eol) = 1
      BY <2>1, <2>2
    <3>2. ASSUME eol = CRLF PROVE FALSE
      <4>1. Len(eol) = 2
        BY <2>1, <3>2
      <4>2. Len(eol) = 1
        BY <3>1
      <4> QED
        BY <4>1, <4>2
    <3> QED
      BY <3>1, <3>2
  <2>3. CASE eol = CRLF
    <3>1. eol \in Seq(Int) /\ Len(eol) = 2
      BY <2>1, <2>3
    <3>2. ASSUME eol = LF PROVE FALSE
      <4>1. Len(eol) = 1
        BY <2>1, <3>2
      <4>2. Len(eol) = 2
        BY <3>1
      <4> QED
        BY <4>1, <4>2
    <3> QED
      BY <3>1, <3>2
  <2> QED
    BY <2>2, <2>3 DEF TypeOK
<1> HIDE DEF h, ret, digit, n
<1>6. /\ ret \in Seq(Int) /\ Len(ret) = 2 * n + Len(eol)
      /\ \A i \in 1..2 * n : ret[i] = digit(i)
  <2>1. /\ h \o eol \in Seq(Int) /\ Len(h \o eol) = Len(h) + Len(eol)
        /\ \A i \in 1..Len(h) + Len(eol) : (h \o eol)[i] = IF i <= Len(h) THEN h[i] ELSE eol[i - Len(h)]
    BY <1>2, <1>5, ConcatProperties
  <2>2. \A i \in 1..2 * n : i \in 1..Len(h) + Len(eol) /\ i <= Len(h)
    BY <1>1, <1>2, <1>5
  <2> QED
    BY <1>2, <1>3, <1>4, <2>1, <2>2
<1>7. CASE ~(Len(ret) > 2 /\ Len(ret) % 2 = 0)
  BY <1>7 DEF Decoded, ret
<1>8. CASE Len(ret) > 2 /\ Len(ret) % 2 = 0
  <2>1. eol = CRLF /\ Len(ret) = 2 * n + 2 /\ n > 0
    <3>1. eol = LF \/ eol = CRLF
      BY DEF TypeOK
    <3>2. (2 * n + 1) % 2 = 1
      BY <1>1
    <3>3. CASE eol = LF
      <4>1. Len(ret) = 2 * n + 1
        BY <1>5, <1>6, <3>3
      <4> QED
        BY <1>8, <3>2, <4>1
    <3>4. CASE eol = CRLF
      <4>1. Len(ret) = 2 * n + 2
        BY <1>5, <1>6, <3>4
      <4>2. n > 0
        BY <1>1, <1>8, <4>1
      <4> QED
        BY <3>4, <4>1, <4>2
    <3> QED
      BY <3>1, <3>3, <3>4
  <2> DEFINE m == Len(ret) \div 2
             hex == StrToHex(ret, m % 256)
             cut == SubSeq(hex, 1, m - 1)
  <2>2. m = n + 1 /\ m % 256 = n + 1 /\ n + 1 \in Nat /\ m - 1 = n
    <3>1. n < 64
      BY <1>1 DEF n
    <3> QED
      BY <1>1, <2>1, <3>1
  <2>3. \A i \in 1..n : hex[i] = v[i]
    <3> SUFFICES ASSUME NEW i \in 1..n PROVE hex[i] = v[i]
      OBVIOUS
    <3> DEFINE c == v[i]
    <3>1. c \in 1..255
      BY <1>1 DEF Chars
    <3>2. /\ 2 * i - 1 \in 1..2 * n /\ (2 * i - 1) % 2 = 1 /\ ((2 * i - 1) + 1) \div 2 = i
          /\ 2 * i \in 1..2 * n /\ (2 * i) % 2 = 0 /\ (2 * i + 1) \div 2 = i
          /\ i \in 1..(n + 1)
      BY <1>1
    <3>3. ret[2 * i - 1] = Digit(c \div 16) /\ ret[2 * i] = Digit(c % 16)
      <4>1. ret[2 * i - 1] = digit(2 * i - 1) /\ ret[2 * i] = digit(2 * i)
        BY <1>6, <3>2
      <4>2. digit(2 * i - 1) = Digit(v[i] \div 16)
        BY <3>2 DEF digit
      <4>3. digit(2 * i) = Digit(v[i] % 16)
        BY <3>2 DEF digit
      <4> QED
        BY <4>1, <4>2, <4>3
    <3>4. hex = [j \in 1..(n + 1) |-> (16 * Nibble(ret[2 * j - 1]) + Nibble(ret[2 * j])) % 256]
      BY <2>2 DEF StrToHex
    <3> HIDE DEF hex
    <3>5. hex[i] = (16 * Nibble(ret[2 * i - 1]) + Nibble(ret[2 * i])) % 256
      BY <3>2, <3>4
    <3> HIDE DEF c
    <3>6. c \div 16 \in 0..15 /\ c % 16 \in 0..15 /\ (16 * (c \div 16) + (c % 16)) % 256 = c
      BY <3>1
    <3>7. Nibble(ret[2 * i - 1]) = c \div 16 /\ Nibble(ret[2 * i]) = c % 16
      BY SMTT(30), <3>3, <3>6, DigitRead
    <3> QED
      BY <3>5, <3>6, <3>7 DEF c
  <2>4. cut = v
    <3>1. hex \in [1..(n + 1) -> Int]
      <4>1. hex = [j \in 1..(n + 1) |-> (16 * Nibble(ret[2 * j - 1]) + Nibble(ret[2 * j])) % 256]
        BY <2>2 DEF StrToHex
      <4>2. ASSUME NEW j \in 1..(n + 1) PROVE (16 * Nibble(ret[2 * j - 1]) + Nibble(ret[2 * j])) % 256 \in Int
        <5>1. 2 * j - 1 \in 1..Len(ret) /\ 2 * j \in 1..Len(ret)
          BY <1>1, <2>1
        <5>2. ret[2 * j - 1] \in Int /\ ret[2 * j] \in Int
          BY <1>6, <5>1, ElementOfSeq
        <5>3. \A x \in Int : Nibble(x) \in Int
          BY DEF Nibble
        <5>4. \A x, y \in Int : (16 * x + y) % 256 \in Int
          OBVIOUS
        <5> QED
          BY <5>2, <5>3, <5>4
      <4> HIDE DEF hex
      <4> QED
        BY <4>1, <4>2
    <3> HIDE DEF hex
    <3>2. hex \in Seq(Int) /\ Len(hex) = n + 1
      BY <2>2, <3>1, FunSeq
    <3>3. SubSeq(hex, 1, n) \in Seq(Int) /\ Len(SubSeq(hex, 1, n)) = n
          /\ \A i \in 1..n : SubSeq(hex, 1, n)[i] = hex[i]
      BY <1>1, <3>2
    <3>4. v \in Seq(Int)
      <4>1. Chars \subseteq Int
        BY DEF Chars
      <4> QED
        BY <4>1, SeqMonotonic DEF Strings
    <3>5. SubSeq(hex, 1, n) = v
      BY <2>3, <3>3, <3>4, SeqEqual DEF n
    <3> QED
      BY <2>2, <3>5
  <2>5. Decoded(ret) = StrOf(Append(v, 0))
    BY <1>8, <2>4 DEF Decoded, hexStrtoAsciiStr
  <2>6. StrOf(Append(v, 0)) = v
    <3> DEFINE b == Append(v, 0)
    <3>1. v \in Arrays /\ 0 \in Bytes /\ 0 \notin Chars
      <4>1. Chars \subseteq Bytes
        BY DEF Chars, Bytes
      <4> QED
        BY <4>1, SeqMonotonic DEF Strings, Arrays, Bytes, Chars
    <3>2. b \in Arrays /\ Len(b) = n + 1 /\ b[n + 1] = 0 /\ \A i \in 1..n : b[i] = v[i]
      BY <3>1, AppendProperties DEF Arrays, n
    <3> HIDE DEF b
    <3>3. \A i \in 1..n : b[i] # 0
      BY <1>1, <3>1, <3>2
    <3>4. n <= Len(b)
      BY <1>1, <3>2
    <3>5. /\ StrOf(b) \in Strings /\ Len(StrOf(b)) = n
          /\ \A i \in 1..Len(StrOf(b)) : StrOf(b)[i] = b[i]
      BY <1>1, <3>2, <3>3, <3>4, StrOfArray
    <3>6. \A i \in 1..n : StrOf(b)[i] = v[i]
      BY <3>2, <3>5
    <3>7. StrOf(b) = v
      BY <3>5, <3>6, SeqEqual DEF Strings, n
    <3> QED
      BY <3>7 DEF b
  <2>7. v # <<>>
    BY <2>1 DEF n
  <2> QED
    BY <2>5, <2>6, <2>7 DEF ret
<1> QED
  BY <1>7, <1>8

(* A serial or model number in a reply is the whole one the device holds,  *)
(* or "unknow"; never a part of it, with the end of line counted into the  *)
(* digits or not.                                                          *)
THEOREM NumbersAreTrue == Spec => []NumbersTrueOrUnknown
<1>1. TypeOK => NumbersTrueOrUnknown
  <2> SUFFICES ASSUME TypeOK, NEW v \in Serials
               PROVE  LET numbers == getGeeTouchSN_ModelNo(v, v)
                      IN  {numbers.SN, numbers.ModelNo} \subseteq ({v} \ {<<>>}) \union {Unknow}
    BY DEF NumbersTrueOrUnknown
  <2>1. v \in Strings /\ 2 * Len(v) + 2 < 128
    BY NamesAssumption, SerialsAssumption
  <2>2. Decoded(gatt_read(v)) \in ({v} \ {<<>>}) \union {Unknow}
    BY <2>1, NumberRead
  <2> QED
    BY <2>2 DEF getGeeTouchSN_ModelNo
<1> QED
  BY <1>1, Typed, PTL
-----------------------------------------------------------------------------
(* The reply that lists the connected devices.                             *)

(* What a scan left of a device's name is a string.                        *)
LEMMA NameFound == ASSUME TypeOK, NEW mac PROVE getDevNameByMAC(mac) \in Strings
<1> DEFINE n == Len(found)
           step(s, i) == IF found[i].mac = mac THEN s \o found[i].name \o eol ELSE s
           next == [i \in 1..n |-> [s \in Strings |-> step(s, i)]]
           R(f) == [i \in 0..n |-> IF i = 0 THEN <<>> ELSE step(f[i - 1], i)]
           name == CHOOSE f : f = R(f)
<1>1. n \in Nat /\ \A i \in 1..n : found[i].name \in Strings
  <2>1. n \in Nat /\ \A i \in 1..n : found[i] \in Lines
    BY LenProperties, ElementOfSeq DEF TypeOK
  <2> QED
    BY <2>1, NamesAssumption DEF Lines
<1>2. eol \in Strings
  <2>1. 10 \in Chars /\ 13 \in Chars
    BY DEF Chars
  <2>2. LF \in Strings /\ CRLF \in Strings
    BY <2>1 DEF LF, CRLF, Strings
  <2> QED
    BY <2>2 DEF TypeOK
<1>3. ASSUME NEW i \in 1..n, NEW s \in Strings PROVE step(s, i) \in Strings
  <2>1. found[i].name \in Strings
    BY <1>1
  <2> QED
    BY <1>2, <2>1, ConcatProperties DEF Strings
<1>4. next \in [1..n -> [Strings -> Strings]]
  BY <1>3
<1>5. <<>> \in Strings
  BY DEF Strings
<1>6. PICK f : Follows(n, Strings, <<>>, next, f)
  <2>1. Steps(n, Strings, <<>>, next)
    BY <1>1, <1>4, <1>5 DEF Steps
  <2> HIDE DEF next, n
  <2> QED
    BY <2>1, Recursion
<1>7. f \in [0..n -> Strings] /\ f[0] = <<>> /\ \A i \in 1..n : f[i] = step(f[i - 1], i)
  <2>1. f \in [0..n -> Strings] /\ f[0] = <<>> /\ \A i \in 1..n : f[i] = next[i][f[i - 1]]
    BY <1>6 DEF Follows
  <2>2. ASSUME NEW i \in 1..n PROVE f[i] = step(f[i - 1], i)
    <3>1. i - 1 \in 0..n
      BY <1>1
    <3> HIDE DEF step, n
    <3>2. f[i - 1] \in Strings /\ next[i] = [s \in Strings |-> step(s, i)]
      BY <2>1, <3>1
    <3>3. f[i] = next[i][f[i - 1]]
      BY <2>1
    <3> QED
      BY <3>2, <3>3
  <2> QED
    BY <2>1, <2>2
<1>8. f = R(f)
  <2> HIDE DEF step, n
  <2> QED
    BY <1>1, <1>7
<1>9. name = R(name)
  <2> HIDE DEF R
  <2> QED
    BY <1>8
<1>10. getDevNameByMAC(mac) = name[n]
  BY DEF getDevNameByMAC
<1> HIDE DEF name, step, n
<1>11. name[0] = <<>> /\ \A i \in 1..n : name[i] = step(name[i - 1], i)
  BY <1>1, <1>9
<1> DEFINE I == {i \in 0..n : name[i] \in Strings}
<1>12. 0 \in I
  BY <1>1, <1>5, <1>11
<1>13. ASSUME NEW i \in 1..n, i - 1 \in I PROVE i \in I
  BY <1>1, <1>3, <1>11, <1>13
<1> HIDE DEF I
<1>14. \A i \in 0..n : i \in I
  BY <1>1, <1>12, <1>13, UpTo
<1>15. n \in 0..n
  BY <1>1
<1> QED
  BY <1>10, <1>14, <1>15 DEF I

Own(mac) == NameOr(getDevNameByMAC(mac), mac)

\* The name of a listed device is a string.
LEMMA OwnIsString == ASSUME TypeOK, NEW mac PROVE Own(mac) \in Strings
BY NameFound, NameIsString DEF Own

Entry(mac, name, v) ==
    LET numbers == getGeeTouchSN_ModelNo(v, v)
    IN  [DeviceMAC |-> mac, BroadcastName |-> name, SN |-> numbers.SN, ModelNo |-> numbers.ModelNo]
Entries(v) == {Entry(mac, name, v) : mac \in Strings, name \in Strings}
DevInfos == [DeviceMAC : Arrays, BroadcastName : Arrays]
Reported(v) == [items : Seq(Entries(v)), dev_info : DevInfos]

(* A line adds the device's entry, with what strncpy makes of the struct.  *)
LEMMA ConnectedLineTyped ==
    ASSUME TypeOK, NEW v, NEW d \in Reported(v), NEW mac \in Macs
    PROVE  LET a == Copied(d.dev_info.DeviceMAC, mac)
               b == Copied(d.dev_info.BroadcastName, Own(mac))
           IN  /\ ConnectedLine(d, mac, v) \in Reported(v)
               /\ Entry(StrOf(a), StrOf(b), v) \in Entries(v)
               /\ ConnectedLine(d, mac, v).items = Append(d.items, Entry(StrOf(a), StrOf(b), v))
               /\ ConnectedLine(d, mac, v).dev_info = [DeviceMAC |-> a, BroadcastName |-> b]
<1> DEFINE own == Own(mac)
           a == Copied(d.dev_info.DeviceMAC, mac)
           b == Copied(d.dev_info.BroadcastName, own)
           entry == Entry(StrOf(a), StrOf(b), v)
           info == [DeviceMAC |-> a, BroadcastName |-> b]
<1>1. d.items \in Seq(Entries(v)) /\ d.dev_info.DeviceMAC \in Arrays /\ d.dev_info.BroadcastName \in Arrays
  BY DEF Reported, DevInfos
<1>2. own \in Strings /\ mac \in Strings
  BY OwnIsString, MacsAssumption
<1>3. ConnectedLine(d, mac, v) = [items |-> Append(d.items, entry), dev_info |-> info]
  BY DEF ConnectedLine, Entry, Own
<1> HIDE DEF own
<1>4. a \in Arrays /\ StrOf(a) \in Strings /\ b \in Arrays /\ StrOf(b) \in Strings
  BY <1>1, <1>2, CopiedString
<1> HIDE DEF a, b
<1>5. entry \in Entries(v) /\ info \in DevInfos
  BY <1>4 DEF Entries, DevInfos
<1> HIDE DEF entry, info
<1>6. Append(d.items, entry) \in Seq(Entries(v))
  BY <1>1, <1>5, AppendProperties
<1>7. ConnectedLine(d, mac, v) \in Reported(v)
  BY <1>3, <1>5, <1>6 DEF Reported
<1>8. ConnectedLine(d, mac, v).items = Append(d.items, entry) /\ ConnectedLine(d, mac, v).dev_info = info
  BY <1>3
<1> QED
  BY <1>5, <1>7, <1>8 DEF own, a, b, entry, info

(* The list is made line by line.                                          *)
LEMMA ConnectedItemsDefined ==
    ASSUME TypeOK, NEW v, NEW dev_info \in DevInfos
    PROVE  LET macs == getConnectedDevices
               done == ConnectedItems(dev_info, v)
           IN  /\ done[0] = [items |-> <<>>, dev_info |-> dev_info]
               /\ \A i \in 0..Len(macs) : done[i] \in Reported(v)
               /\ \A i \in 1..Len(macs) : done[i] = ConnectedLine(done[i - 1], macs[i], v)
<1> DEFINE lines == getConnectedDevices
           n == Len(lines)
           first == [items |-> <<>>, dev_info |-> dev_info]
           next == [i \in 1..n |-> [d \in Reported(v) |-> ConnectedLine(d, lines[i], v)]]
           R(f) == [i \in 0..n |-> IF i = 0 THEN first ELSE ConnectedLine(f[i - 1], lines[i], v)]
           done == ConnectedItems(dev_info, v)
<1>1. n \in Nat /\ \A i \in 1..n : lines[i] \in Macs
  BY ConnectedTaken, LenProperties, ElementOfSeq
<1> HIDE DEF lines
<1>2. first \in Reported(v)
  BY DEF Reported
<1>3. next \in [1..n -> [Reported(v) -> Reported(v)]]
  <2>1. ASSUME NEW i \in 1..n
        PROVE  [d \in Reported(v) |-> ConnectedLine(d, lines[i], v)] \in [Reported(v) -> Reported(v)]
    <3>1. \A d \in Reported(v) : ConnectedLine(d, lines[i], v) \in Reported(v)
      BY <1>1, ConnectedLineTyped
    <3> QED
      BY <3>1
  <2> QED
    BY <2>1
<1>4. PICK f : Follows(n, Reported(v), first, next, f)
  <2>1. Steps(n, Reported(v), first, next)
    BY <1>1, <1>2, <1>3 DEF Steps
  <2> HIDE DEF next, first, n
  <2> QED
    BY <2>1, Recursion
<1>5. /\ f \in [0..n -> Reported(v)] /\ f[0] = first
      /\ \A i \in 1..n : f[i] = ConnectedLine(f[i - 1], lines[i], v)
  <2>1. f \in [0..n -> Reported(v)] /\ f[0] = first /\ \A i \in 1..n : f[i] = next[i][f[i - 1]]
    BY <1>4 DEF Follows
  <2>2. ASSUME NEW i \in 1..n PROVE f[i] = ConnectedLine(f[i - 1], lines[i], v)
    <3>1. f[i - 1] \in Reported(v) /\ next[i] = [d \in Reported(v) |-> ConnectedLine(d, lines[i], v)]
      BY <1>1, <2>1
    <3>2. f[i] = next[i][f[i - 1]]
      BY <2>1
    <3> QED
      BY <3>1, <3>2
  <2> QED
    BY <2>1, <2>2
<1>6. f = R(f)
  <2> HIDE DEF first
  <2> QED
    BY <1>5
<1>7. done = R(done)
  <2>1. done = CHOOSE g : g = R(g)
    BY DEF ConnectedItems, lines
  <2> HIDE DEF R, done
  <2> QED
    BY <1>6, <2>1
<1> HIDE DEF done, first
<1>8. done[0] = first /\ \A i \in 1..n : done[i] = ConnectedLine(done[i - 1], lines[i], v)
  BY <1>1, <1>7
<1>9. \A i \in 0..n : done[i] \in Reported(v)
  <2> DEFINE I == {i \in 0..n : done[i] \in Reported(v)}
  <2>1. 0 \in I
    BY <1>1, <1>2, <1>8
  <2>2. ASSUME NEW i \in 1..n, i - 1 \in I PROVE i \in I
    <3>1. done[i - 1] \in Reported(v) /\ lines[i] \in Macs /\ i \in 0..n
      BY <1>1, <2>2
    <3>2. done[i] = ConnectedLine(done[i - 1], lines[i], v)
      BY <1>8
    <3>3. \A d \in Reported(v), mac \in Macs : ConnectedLine(d, mac, v) \in Reported(v)
      BY ConnectedLineTyped
    <3>4. done[i] \in Reported(v)
      BY <3>1, <3>2, <3>3
    <3> QED
      BY <3>1, <3>4
  <2> HIDE DEF I
  <2>3. \A i \in 0..n : i \in I
    BY <1>1, <2>1, <2>2, UpTo
  <2> QED
    BY <2>3 DEF I
<1> QED
  BY <1>1, <1>8, <1>9 DEF done, first, lines

(* One array, into which the c first of the strings T are copied one after *)
(* the other.  What it holds that is not 0 stood there first, in b, or is  *)
(* within the length of one of them; and what is read after the k-th copy  *)
(* begins with that string and goes on only where something longer stood.  *)
Left(b, T, c, array) ==
    \A p \in DOMAIN array : array[p] # 0 =>
        (p \in DOMAIN b /\ b[p] # 0) \/ \E j \in 1..c : p <= Len(T[j])
Begins(b, T, k, text) ==
    /\ IsPrefix(T[k], text)
    /\ \/ text = T[k]
       \/ \E j \in 1..(k - 1) : Len(T[j]) > Len(T[k])
       \/ \E p \in DOMAIN b : p > Len(T[k]) /\ b[p] # 0

(* The next copy keeps both.                                               *)
LEMMA CopiedNext ==
    ASSUME NEW b \in Arrays, NEW n \in Nat, NEW T \in [1..n -> Strings], NEW c \in Nat, c + 1 \in 1..n,
           NEW array \in Arrays, Left(b, T, c, array)
    PROVE  LET new == Copied(array, T[c + 1])
           IN  Begins(b, T, c + 1, StrOf(new)) /\ Left(b, T, c + 1, new)
<1> DEFINE own == T[c + 1]
           m == Len(own)
           new == Copied(array, own)
<1>1. own \in Strings /\ m \in Nat
  <2>1. own \in Strings
    OBVIOUS
  <2> QED
    BY <2>1, LenProperties DEF Strings
<1>2. /\ new \in Arrays /\ IsPrefix(own, StrOf(new))
      /\ m + 1 \notin DOMAIN array \/ array[m + 1] = 0 => StrOf(new) = own
      /\ \A p \in DOMAIN new : p <= m \/ (p \in DOMAIN array /\ new[p] = array[p])
  <2> HIDE DEF own
  <2> QED
    BY <1>1, CopiedString
<1>3. DOMAIN new \subseteq Nat /\ DOMAIN array \subseteq Nat /\ DOMAIN b \subseteq Nat
  BY <1>2, LenProperties DEF Arrays
<1> HIDE DEF new, own, m
<1>4. Begins(b, T, c + 1, StrOf(new))
  <2>1. CASE m + 1 \notin DOMAIN array \/ array[m + 1] = 0
    BY <1>2, <2>1 DEF Begins, own
  <2>2. CASE m + 1 \in DOMAIN array /\ array[m + 1] # 0
    <3>1. (m + 1 \in DOMAIN b /\ b[m + 1] # 0) \/ \E j \in 1..c : m + 1 <= Len(T[j])
      BY <2>2 DEF Left
    <3>2. CASE m + 1 \in DOMAIN b /\ b[m + 1] # 0
      <4>1. m + 1 > m
        BY <1>1
      <4> QED
        BY <1>2, <3>2, <4>1 DEF Begins, own, m
    <3>3. ASSUME NEW j \in 1..c, m + 1 <= Len(T[j]) PROVE Begins(b, T, c + 1, StrOf(new))
      <4>1. j \in 1..n
        OBVIOUS
      <4>2. Len(T[j]) \in Nat
        BY <4>1, LenProperties DEF Strings
      <4>3. Len(T[j]) > m /\ j \in 1..((c + 1) - 1)
        BY <1>1, <3>3, <4>2
      <4> QED
        BY <1>2, <4>3 DEF Begins, own, m
    <3> QED
      BY <3>1, <3>2, <3>3
  <2> QED
    BY <2>1, <2>2
<1>5. Left(b, T, c + 1, new)
  <2> SUFFICES ASSUME NEW p \in DOMAIN new, new[p] # 0
               PROVE  (p \in DOMAIN b /\ b[p] # 0) \/ \E j \in 1..(c + 1) : p <= Len(T[j])
    BY DEF Left
  <2>1. CASE p <= m
    <3>1. c + 1 \in 1..(c + 1)
      OBVIOUS
    <3> QED
      BY <2>1, <3>1 DEF m, own
  <2>2. CASE p \in DOMAIN array /\ new[p] = array[p]
    <3>1. (p \in DOMAIN b /\ b[p] # 0) \/ \E j \in 1..c : p <= Len(T[j])
      BY <2>2 DEF Left
    <3>2. \A j \in 1..c : j \in 1..(c + 1)
      OBVIOUS
    <3> QED
      BY <3>1, <3>2
  <2> QED
    BY <1>2, <2>1, <2>2
<1> QED
  BY <1>4, <1>5 DEF new, own

(* After i lines the items are those of the i first devices, and the two   *)
(* arrays are what their MACs and names left of a and b.                   *)
LEMMA ConnectedItemsAre ==
    ASSUME TypeOK, NEW v, NEW a \in Arrays, NEW b \in Arrays
    PROVE  LET items == genGetConnectedListResp([DeviceMAC |-> a, BroadcastName |-> b], v)
               macs == getConnectedDevices
               names == [k \in 1..Len(macs) |-> Own(macs[k])]
           IN  /\ Len(items) = Len(macs)
               /\ DOMAIN items = 1..Len(macs)
               /\ \A k \in 1..Len(macs) :
                     Begins(a, macs, k, items[k].DeviceMAC) /\ Begins(b, names, k, items[k].BroadcastName)
<1> DEFINE macs == getConnectedDevices
           n == Len(macs)
           names == [k \in 1..n |-> Own(macs[k])]
           info == [DeviceMAC |-> a, BroadcastName |-> b]
           done == ConnectedItems(info, v)
           Named(item, k) == Begins(a, macs, k, item.DeviceMAC) /\ Begins(b, names, k, item.BroadcastName)
           Good(i) == /\ Len(done[i].items) = i
                      /\ \A k \in 1..i : Named(done[i].items[k], k)
                      /\ Left(a, macs, i, done[i].dev_info.DeviceMAC)
                      /\ Left(b, names, i, done[i].dev_info.BroadcastName)
           I == {i \in 0..n : Good(i)}
<1>1. /\ n \in Nat /\ macs \in [1..n -> Strings] /\ names \in [1..n -> Strings]
      /\ \A k \in 1..n : macs[k] \in Macs /\ names[k] = Own(macs[k])
  <2>1. macs \in Seq(Macs) /\ n \in Nat
    BY ConnectedTaken, LenProperties
  <2>2. macs \in [1..n -> Macs] /\ \A k \in 1..n : macs[k] \in Macs
    BY <2>1, LenProperties, ElementOfSeq
  <2>3. \A k \in 1..n : Own(macs[k]) \in Strings
    BY OwnIsString
  <2> HIDE DEF macs, n
  <2>4. macs \in [1..n -> Strings]
    BY <2>2, MacsAssumption
  <2> QED
    BY <2>1, <2>2, <2>3, <2>4
<1>2. /\ info \in DevInfos
      /\ done[0] = [items |-> <<>>, dev_info |-> info]
      /\ \A i \in 0..n : done[i] \in Reported(v)
      /\ \A i \in 1..n : done[i] = ConnectedLine(done[i - 1], macs[i], v)
  <2>1. info \in DevInfos
    BY DEF DevInfos
  <2> HIDE DEF info
  <2> QED
    BY <2>1, ConnectedItemsDefined
<1>3. genGetConnectedListResp(info, v) = done[n].items
  BY DEF genGetConnectedListResp
<1> HIDE DEF done, macs, n, names, Named
<1>4. Good(0)
  <2>1. done[0].items = <<>> /\ done[0].dev_info = info
    BY <1>2
  <2>2. Left(a, macs, 0, a) /\ Left(b, names, 0, b)
    BY DEF Left
  <2> QED
    BY <2>1, <2>2
<1>5. ASSUME NEW i \in 1..n, Good(i - 1) PROVE Good(i)
  <2> DEFINE d == done[i - 1]
             c == i - 1
             newMac == Copied(d.dev_info.DeviceMAC, macs[i])
             newName == Copied(d.dev_info.BroadcastName, names[i])
             entry == Entry(StrOf(newMac), StrOf(newName), v)
  <2>1. /\ d \in Reported(v) /\ d.items \in Seq(Entries(v))
        /\ d.dev_info.DeviceMAC \in Arrays /\ d.dev_info.BroadcastName \in Arrays
        /\ c \in Nat /\ c + 1 = i /\ Len(d.items) = c
    <3>1. i - 1 \in 0..n /\ c \in Nat /\ c + 1 = i
      BY <1>1
    <3>2. d \in Reported(v)
      BY <1>2, <3>1
    <3> QED
      BY <1>5, <3>1, <3>2 DEF Reported, DevInfos
  <2>2. /\ Left(a, macs, c, d.dev_info.DeviceMAC) /\ Left(b, names, c, d.dev_info.BroadcastName)
        /\ \A k \in 1..c : Named(d.items[k], k)
    BY <1>5
  <2>3. done[i] = ConnectedLine(d, macs[i], v)
    BY <1>2
  <2>4. /\ entry \in Entries(v) /\ done[i].items = Append(d.items, entry)
        /\ done[i].dev_info = [DeviceMAC |-> newMac, BroadcastName |-> newName]
    <3>1. macs[i] \in Macs /\ names[i] = Own(macs[i])
      BY <1>1
    <3> HIDE DEF d
    <3> QED
      BY <2>1, <2>3, <3>1, ConnectedLineTyped
  <2>5. Begins(a, macs, i, StrOf(newMac)) /\ Left(a, macs, i, newMac)
    <3> HIDE DEF d, c
    <3> QED
      BY <1>1, <2>1, <2>2, CopiedNext
  <2>6. Begins(b, names, i, StrOf(newName)) /\ Left(b, names, i, newName)
    <3> HIDE DEF d, c
    <3> QED
      BY <1>1, <2>1, <2>2, CopiedNext
  <2>7. Named(entry, i)
    BY <2>5, <2>6 DEF Named, Entry
  <2> HIDE DEF d, c, newMac, newName, entry
  <2>8. /\ Len(Append(d.items, entry)) = c + 1
        /\ \A k \in 1..(c + 1) : Append(d.items, entry)[k] = IF k <= c THEN d.items[k] ELSE entry
    BY <2>1, <2>4, AppendProperties
  <2>9. ASSUME NEW k \in 1..i PROVE Named(done[i].items[k], k)
    <3>1. CASE k <= c
      <4>1. k \in 1..c /\ k \in 1..(c + 1)
        BY <2>1, <3>1
      <4>2. done[i].items[k] = d.items[k]
        BY <2>4, <2>8, <3>1, <4>1
      <4> QED
        BY <2>2, <4>1, <4>2
    <3>2. CASE ~(k <= c)
      <4>1. k = i /\ k \in 1..(c + 1)
        BY <2>1, <3>2
      <4>2. done[i].items[k] = entry
        BY <2>4, <2>8, <3>2, <4>1
      <4> QED
        BY <2>7, <4>1, <4>2
    <3> QED
      BY <3>1, <3>2
  <2>10. Len(done[i].items) = i
    BY <2>1, <2>4, <2>8
  <2>11. done[i].dev_info.DeviceMAC = newMac /\ done[i].dev_info.BroadcastName = newName
    BY <2>4
  <2> QED
    BY <2>5, <2>6, <2>9, <2>10, <2>11
<1>6. Good(n)
  <2> HIDE DEF Good
  <2>1. 0 \in I /\ \A i \in 1..n : i - 1 \in I => i \in I
    BY <1>1, <1>4, <1>5
  <2> HIDE DEF I
  <2>2. \A i \in 0..n : i \in I
    BY <1>1, <2>1, UpTo
  <2>3. n \in I
    BY <1>1, <2>2
  <2> QED
    BY <2>3 DEF I
<1>7. DOMAIN done[n].items = 1..Len(done[n].items)
  <2>1. n \in 0..n
    BY <1>1
  <2>2. done[n].items \in Seq(Entries(v))
    BY <1>2, <2>1 DEF Reported
  <2> QED
    BY <2>2, LenProperties
<1> QED
  BY <1>3, <1>6, <1>7 DEF macs, n, names, info, Named

(* The reply has one item per connected device the tool listed, in order.  *)
(* Its MAC and its name begin with the device's own; the MAC is just that  *)
(* unless the struct held something behind it before the first device, the *)
(* name unless the struct did or an earlier device had a longer one.       *)
THEOREM ConnectedNamesAreOwnFirst == Spec => []ConnectedNamesBegin
<1>1. TypeOK => ConnectedNamesBegin
  <2> SUFFICES ASSUME TypeOK, NEW a \in Garbage, NEW b \in Garbage
               PROVE  LET items == genGetConnectedListResp([DeviceMAC |-> a, BroadcastName |-> b], <<>>)
                          own(i) == NameOr(getDevNameByMAC(connected[i]), connected[i])
                      IN  /\ Len(items) = Len(getConnectedDevices)
                          /\ \A i \in DOMAIN items :
                              /\ IsPrefix(connected[i], items[i].DeviceMAC)
                              /\ \/ items[i].DeviceMAC = connected[i]
                                 \/ \E k \in DOMAIN a : k > Len(connected[i]) /\ a[k] # 0
                              /\ IsPrefix(own(i), items[i].BroadcastName)
                              /\ \/ items[i].BroadcastName = own(i)
                                 \/ \E j \in 1..(i - 1) : Len(own(j)) > Len(own(i))
                                 \/ \E k \in DOMAIN b : k > Len(own(i)) /\ b[k] # 0
    BY DEF ConnectedNamesBegin
  <2> DEFINE items == genGetConnectedListResp([DeviceMAC |-> a, BroadcastName |-> b], <<>>)
             macs == getConnectedDevices
             n == Len(macs)
             names == [k \in 1..n |-> Own(macs[k])]
  <2>1. a \in Arrays /\ b \in Arrays
    BY GarbageIsArray
  <2>2. /\ Len(items) = n /\ DOMAIN items = 1..n
        /\ \A k \in 1..n :
              Begins(a, macs, k, items[k].DeviceMAC) /\ Begins(b, names, k, items[k].BroadcastName)
    BY <2>1, ConnectedItemsAre
  <2>3. /\ n \in Nat
        /\ \A k \in 1..n : macs[k] = connected[k] /\ macs[k] \in Macs /\ names[k] = Own(connected[k])
    BY ConnectedTaken, ElementOfSeq, LenProperties
  <2> HIDE DEF items, macs, n, names
  <2>4. ASSUME NEW i \in DOMAIN items
        PROVE  /\ IsPrefix(connected[i], items[i].DeviceMAC)
               /\ \/ items[i].DeviceMAC = connected[i]
                  \/ \E k \in DOMAIN a : k > Len(connected[i]) /\ a[k] # 0
               /\ IsPrefix(Own(connected[i]), items[i].BroadcastName)
               /\ \/ items[i].BroadcastName = Own(connected[i])
                  \/ \E j \in 1..(i - 1) : Len(Own(connected[j])) > Len(Own(connected[i]))
                  \/ \E k \in DOMAIN b : k > Len(Own(connected[i])) /\ b[k] # 0
    <3>1. i \in 1..n /\ \A j \in 1..(i - 1) : j \in 1..n
      BY <2>2, <2>3
    <3>2. /\ macs[i] = connected[i] /\ names[i] = Own(connected[i])
          /\ \A j \in 1..(i - 1) : names[j] = Own(connected[j])
      BY <2>3, <3>1
    <3>3. \A j \in 1..(i - 1) : ~(Len(macs[j]) > Len(macs[i]))
      <4> TAKE j \in 1..(i - 1)
      <4>1. macs[j] \in Macs /\ macs[i] \in Macs
        BY <2>3, <3>1
      <4>2. Len(macs[j]) = Len(macs[i]) /\ Len(macs[i]) \in Nat
        BY <4>1, MacsAssumption, LenProperties DEF Strings
      <4> QED
        BY <4>2
    <3>4. Begins(a, macs, i, items[i].DeviceMAC) /\ Begins(b, names, i, items[i].BroadcastName)
      BY <2>2, <3>1
    <3>5. /\ IsPrefix(connected[i], items[i].DeviceMAC)
          /\ \/ items[i].DeviceMAC = connected[i]
             \/ \E k \in DOMAIN a : k > Len(connected[i]) /\ a[k] # 0
      BY <3>2, <3>3, <3>4 DEF Begins
    <3>6. /\ IsPrefix(Own(connected[i]), items[i].BroadcastName)
          /\ \/ items[i].BroadcastName = Own(connected[i])
             \/ \E j \in 1..(i - 1) : Len(Own(connected[j])) > Len(Own(connected[i]))
             \/ \E k \in DOMAIN b : k > Len(Own(connected[i])) /\ b[k] # 0
      BY <3>2, <3>4 DEF Begins
    <3> QED
      BY <3>5, <3>6
  <2> QED
    BY <2>2, <2>4 DEF Own, items, macs, n
<1> QED
  BY <1>1, Typed, PTL

=============================================================================
