------------------------------- MODULE Prefixes --------------------------------
(***************************************************************************)
(* Lemmas about what is computed along a sequence, piece by piece.  What   *)
(* the induction theorems of the library state with an operator is stated  *)
(* here with a set of numbers, or a function, in its place.                *)
(***************************************************************************)
EXTENDS Sums, SequenceTheorems, NaturalsInduction, WellFoundedInduction, TLAPS

(* A set of numbers that is not empty has a least one.                     *)
LEMMA LeastNumber ==
    ASSUME NEW I \in SUBSET Nat, I # {}
    PROVE  \E i \in I : \A j \in I : i <= j
<1> DEFINE Less == {ss \in Nat \X Nat : ss[1] < ss[2]}
<1>1. IsWellFoundedOn(Less, Nat)
  BY NatLessThanWellFounded DEF OpToRel
<1>2. PICK i \in I : \A j \in I : <<j, i>> \notin Less
  BY <1>1, WFMin
<1>3. \A j \in I : ~(j < i)
  BY <1>2
<1> QED
  BY <1>3

(* Induction up to n: a set with 0, and with i when it has i - 1.          *)
LEMMA UpTo ==
    ASSUME NEW n \in Nat, NEW I, 0 \in I, \A i \in 1..n : i - 1 \in I => i \in I
    PROVE  \A i \in 0..n : i \in I
<1> SUFFICES ASSUME (0..n) \ I # {} PROVE FALSE
  OBVIOUS
<1>1. PICK i \in (0..n) \ I : \A j \in (0..n) \ I : i <= j
  <2>1. (0..n) \ I \in SUBSET Nat
    OBVIOUS
  <2> QED
    BY <2>1, LeastNumber
<1>2. i \in 1..n /\ i - 1 \in 0..n
  BY <1>1
<1>3. i - 1 \in I
  BY <1>1, <1>2
<1> QED
  BY <1>1, <1>2, <1>3

(* A function on 1..n is a sequence of that length.                        *)
LEMMA FunSeq ==
    ASSUME NEW n \in Nat, NEW S, NEW f \in [1..n -> S]
    PROVE  f \in Seq(S) /\ Len(f) = n
<1>1. f \in Seq(S)
  BY SeqDef
<1>2. DOMAIN f = 1..n /\ DOMAIN f = 1..Len(f) /\ Len(f) \in Nat
  BY <1>1, LenProperties
<1> QED
  BY <1>1, <1>2

(* What starts with v and follows a function at each step exists.          *)
Steps(n, V, v, next) == n \in Nat /\ v \in V /\ next \in [1..n -> [V -> V]]
Follows(n, V, v, next, f) ==
    f \in [0..n -> V] /\ f[0] = v /\ \A i \in 1..n : f[i] = next[i][f[i - 1]]

LEMMA Recursion ==
    ASSUME NEW n, NEW V, NEW v, NEW next, Steps(n, V, v, next)
    PROVE  \E f : Follows(n, V, v, next, f)
<1> USE DEF Steps
<1> DEFINE Funs(m) == {f \in [0..m -> V] : f[0] = v /\ \A i \in 1..m : f[i] = next[i][f[i - 1]]}
           I == {m \in 0..n : Funs(m) # {}}
<1>1. Funs(0) # {}
  <2>1. [i \in 0..0 |-> v] \in Funs(0)
    OBVIOUS
  <2> QED
    BY <2>1
<1>2. ASSUME NEW m \in 1..n, Funs(m - 1) # {} PROVE Funs(m) # {}
  <2>1. PICK f \in [0..(m - 1) -> V] :
            f[0] = v /\ \A i \in 1..(m - 1) : f[i] = next[i][f[i - 1]]
    BY <1>2
  <2> DEFINE g == [i \in 0..m |-> IF i = m THEN next[m][f[m - 1]] ELSE f[i]]
  <2>2. next[m] \in [V -> V] /\ f[m - 1] \in V
    OBVIOUS
  <2>3. g \in [0..m -> V]
    BY <2>2
  <2>4. g[0] = v
    BY <2>1
  <2>5. ASSUME NEW i \in 1..m PROVE g[i] = next[i][g[i - 1]]
    <3>1. CASE i = m
      BY <3>1
    <3>2. CASE i < m
      <4>1. i \in 1..(m - 1) /\ g[i] = f[i] /\ g[i - 1] = f[i - 1]
        BY <3>2
      <4> QED
        BY <2>1, <4>1
    <3> QED
      BY <3>1, <3>2
  <2> HIDE DEF g
  <2>6. g \in Funs(m)
    BY <2>3, <2>4, <2>5
  <2> QED
    BY <2>6
<1>3. Funs(n) # {}
  <2> HIDE DEF Funs
  <2>1. 0 \in I /\ \A m \in 1..n : m - 1 \in I => m \in I
    BY <1>1, <1>2
  <2> HIDE DEF I
  <2>2. \A i \in 0..n : i \in I
    BY <2>1, UpTo
  <2> QED
    BY <2>2 DEF I
<1> QED
  BY <1>3 DEF Follows

(* The sums of a sequence's prefixes exist and are numbers.                *)
LEMMA SumsDefined ==
    ASSUME NEW s \in Seq(Nat)
    PROVE  /\ Sums(s) \in [0..Len(s) -> Nat]
           /\ Sums(s)[0] = 0
           /\ \A i \in 1..Len(s) : Sums(s)[i] = Sums(s)[i - 1] + s[i]
           /\ Total(s) \in Nat
<1> DEFINE n == Len(s)
           next == [i \in 1..n |-> [a \in Nat |-> a + s[i]]]
           R(f) == [i \in 0..n |-> IF i = 0 THEN 0 ELSE f[i - 1] + s[i]]
<1>1. n \in Nat /\ next \in [1..n -> [Nat -> Nat]]
  OBVIOUS
<1>2. \E f \in [0..n -> Nat] : f[0] = 0 /\ \A i \in 1..n : f[i] = next[i][f[i - 1]]
  <2>1. Steps(n, Nat, 0, next)
    BY <1>1 DEF Steps
  <2> HIDE DEF next, n
  <2>2. \E f : Follows(n, Nat, 0, next, f)
    BY <2>1, Recursion
  <2> QED
    BY <2>2 DEF Follows
<1>3. PICK f \in [0..n -> Nat] : f[0] = 0 /\ \A i \in 1..n : f[i] = next[i][f[i - 1]]
  BY <1>2
<1>4. \A i \in 1..n : f[i] = f[i - 1] + s[i]
  <2> SUFFICES ASSUME NEW i \in 1..n PROVE f[i] = f[i - 1] + s[i]
    OBVIOUS
  <2>1. f[i - 1] \in Nat /\ next[i] = [a \in Nat |-> a + s[i]]
    BY SMTT(30)
  <2>2. f[i] = next[i][f[i - 1]]
    BY <1>3
  <2> QED
    BY <2>1, <2>2
<1>5. f = R(f)
  BY <1>3, <1>4
<1> DEFINE sum == Sums(s)
<1>6. sum = R(sum)
  <2>1. sum = CHOOSE g : g = R(g)
    BY DEF Sums
  <2> HIDE DEF R, sum
  <2> QED
    BY <1>5, <2>1
<1> HIDE DEF sum
<1>7. sum[0] = 0 /\ \A i \in 1..n : sum[i] = sum[i - 1] + s[i]
  BY <1>1, <1>6
<1>8. \A i \in 0..n : sum[i] \in Nat
  <2> DEFINE I == {i \in 0..n : sum[i] \in Nat}
  <2>1. 0 \in I
    BY <1>1, <1>7
  <2>2. ASSUME NEW i \in 1..n, i - 1 \in I PROVE i \in I
    <3>1. sum[i - 1] \in Nat /\ s[i] \in Nat /\ i \in 0..n
      BY <2>2
    <3> QED
      BY <1>7, <3>1
  <2> HIDE DEF I
  <2>3. \A i \in 0..n : i \in I
    BY <1>1, <2>1, <2>2, UpTo
  <2> QED
    BY <2>3 DEF I
<1>9. sum \in [0..n -> Nat]
  BY <1>6, <1>8
<1> QED
  BY <1>7, <1>8, <1>9 DEF Total, sum

(* The sum of a prefix is at most the whole.                               *)
LEMMA SumsMonotone ==
    ASSUME NEW s \in Seq(Nat), NEW k \in 0..Len(s)
    PROVE  Sums(s)[k] <= Total(s)
<1> DEFINE n == Len(s)
           sum == Sums(s)
           I == {i \in 0..n : \A j \in 0..i : sum[j] <= sum[i]}
<1>1. n \in Nat /\ sum \in [0..n -> Nat] /\ \A i \in 1..n : sum[i] = sum[i - 1] + s[i] /\ s[i] \in Nat
  BY SumsDefined
<1> HIDE DEF sum, n
<1>2. 0 \in I
  BY <1>1
<1>3. ASSUME NEW i \in 1..n, i - 1 \in I PROVE i \in I
  <2>1. sum[i - 1] <= sum[i] /\ sum[i] \in Nat /\ sum[i - 1] \in Nat
    <3>1. i \in 0..n /\ i - 1 \in 0..n
      BY <1>1
    <3>2. sum[i - 1] \in Nat /\ sum[i] \in Nat
      BY <1>1, <3>1
    <3>3. sum[i] = sum[i - 1] + s[i] /\ s[i] \in Nat
      BY <1>1
    <3> QED
      BY <3>2, <3>3
  <2>2. ASSUME NEW j \in 0..i PROVE sum[j] <= sum[i]
    <3>1. j = i \/ j \in 0..(i - 1)
      OBVIOUS
    <3>2. j \in 0..n /\ sum[j] \in Nat
      BY <1>1
    <3>3. j \in 0..(i - 1) => sum[j] <= sum[i - 1]
      BY <1>3
    <3> QED
      BY <2>1, <3>1, <3>2, <3>3
  <2>3. i \in 0..n
    BY <1>1
  <2> QED
    BY <2>2, <2>3
<1> HIDE DEF I
<1>4. \A i \in 0..n : i \in I
  BY <1>1, <1>2, <1>3, UpTo
<1>5. n \in I /\ k \in 0..n
  BY <1>1, <1>4 DEF n
<1> QED
  BY <1>5 DEF I, sum, n, Total

(* What starts with 0 and adds the pieces one by one is the sums.          *)
LEMMA SumsUnique ==
    ASSUME NEW s \in Seq(Nat), NEW f, f[0] = 0,
           \A i \in 1..Len(s) : f[i] = f[i - 1] + s[i]
    PROVE  \A i \in 0..Len(s) : f[i] = Sums(s)[i]
<1> DEFINE n == Len(s)
           sum == Sums(s)
           I == {i \in 0..n : f[i] = sum[i]}
<1>1. n \in Nat /\ sum \in [0..n -> Nat] /\ sum[0] = 0 /\ \A i \in 1..n : sum[i] = sum[i - 1] + s[i]
  BY SumsDefined
<1> HIDE DEF sum
<1>2. 0 \in I
  BY <1>1
<1>3. ASSUME NEW i \in 1..n, i - 1 \in I PROVE i \in I
  BY <1>1, <1>3
<1> HIDE DEF I
<1>4. \A i \in 0..n : i \in I
  BY <1>1, <1>2, <1>3, UpTo
<1> QED
  BY <1>4 DEF I, sum

(* The sum of two sequences, one behind the other, is that of both.        *)
LEMMA TotalConcat ==
    ASSUME NEW s \in Seq(Nat), NEW t \in Seq(Nat)
    PROVE  Total(s \o t) = Total(s) + Total(t)
<1> DEFINE u == s \o t
           m == Len(s)
           n == Len(t)
           a == Sums(s)
           b == Sums(t)
           f == [i \in 0..(m + n) |-> IF i <= m THEN a[i] ELSE a[m] + b[i - m]]
<1>1. m \in Nat /\ n \in Nat /\ u \in Seq(Nat) /\ Len(u) = m + n
  OBVIOUS
<1>2. /\ a \in [0..m -> Nat] /\ a[0] = 0 /\ \A i \in 1..m : a[i] = a[i - 1] + s[i]
      /\ b \in [0..n -> Nat] /\ b[0] = 0 /\ \A i \in 1..n : b[i] = b[i - 1] + t[i]
  BY SumsDefined
<1>3. (\A i \in 1..m : u[i] = s[i]) /\ \A i \in (m + 1)..(m + n) : u[i] = t[i - m]
  OBVIOUS
<1> HIDE DEF u, a, b, m, n
<1>4. f[0] = 0
  BY <1>1, <1>2
<1>5. ASSUME NEW i \in 1..(m + n) PROVE f[i] = f[i - 1] + u[i]
  <2>1. CASE i <= m
    <3>1. i \in 1..m /\ f[i] = a[i] /\ f[i - 1] = a[i - 1]
      BY <1>1, <2>1
    <3> QED
      BY <1>2, <1>3, <3>1
  <2>2. CASE i = m + 1
    <3>1. f[i] = a[m] + b[1] /\ f[i - 1] = a[m] /\ 1 \in 1..n /\ u[i] = t[1]
      BY <1>1, <1>3, <2>2
    <3>2. a[m] \in Nat /\ b[0] = 0 /\ b[1] \in Nat
      BY <1>1, <1>2, <3>1
    <3>3. b[1] = b[1 - 1] + t[1]
      BY <1>2, <3>1
    <3>4. b[1] = t[1]
      <4>1. t[1] \in Nat
        BY SMTT(30), <1>1, <3>1 DEF n
      <4> QED
        BY <3>2, <3>3, <4>1
    <3> QED
      BY <3>1, <3>2, <3>4
  <2>3. CASE i > m + 1
    <3>1. PICK j \in 1..n : j = i - m
      BY <1>1, <2>3
    <3>2. f[i] = a[m] + b[j] /\ f[i - 1] = a[m] + b[j - 1] /\ u[i] = t[j]
      <4>1. (i - 1) - m = j - 1 /\ ~(i <= m) /\ ~(i - 1 <= m) /\ i - 1 \in 0..(m + n) /\ i \in 0..(m + n)
        BY <1>1, <2>3, <3>1
      <4>2. i \in (m + 1)..(m + n)
        BY <1>1, <2>3
      <4> QED
        BY <1>3, <3>1, <4>1, <4>2
    <3>3. b[j] = b[j - 1] + t[j]
      BY <1>2
    <3>4. a[m] \in Nat /\ b[j - 1] \in Nat
      BY <1>1, <1>2
    <3>5. t[j] \in Nat
      BY DEF n
    <3> QED
      BY <3>2, <3>3, <3>4, <3>5
  <2> QED
    BY <1>1, <2>1, <2>2, <2>3
<1>6. f[m + n] = Sums(u)[m + n]
  <2> HIDE DEF f
  <2>1. \A i \in 0..Len(u) : f[i] = Sums(u)[i]
    BY <1>1, <1>4, <1>5, SumsUnique
  <2> QED
    BY <1>1, <2>1
<1>7. f[m + n] = a[m] + b[n]
  BY SMTT(30), <1>1, <1>2
<1> QED
  BY <1>1, <1>6, <1>7 DEF Total, a, b, m, n, u

(* Of pieces between 1 and m, n are at least n and at most m times n.      *)
LEMMA TotalBounds ==
    ASSUME NEW m \in Nat, NEW s \in Seq(1..m)
    PROVE  Len(s) <= Total(s) /\ Total(s) <= m * Len(s)
<1> DEFINE n == Len(s)
           sum == Sums(s)
           I == {i \in 0..n : i <= sum[i] /\ sum[i] <= m * i}
<1>1. s \in Seq(Nat) /\ n \in Nat /\ \A i \in 1..n : s[i] \in 1..m
  OBVIOUS
<1>2. sum \in [0..n -> Nat] /\ sum[0] = 0 /\ \A i \in 1..n : sum[i] = sum[i - 1] + s[i]
  BY <1>1, SumsDefined
<1> HIDE DEF sum, n
<1>3. 0 \in I
  BY <1>1, <1>2
<1>4. ASSUME NEW i \in 1..n, i - 1 \in I PROVE i \in I
  <2>1. sum[i - 1] \in Nat /\ sum[i] = sum[i - 1] + s[i] /\ s[i] \in 1..m /\ i \in 0..n
    BY <1>1, <1>2
  <2>2. i - 1 <= sum[i - 1] /\ sum[i - 1] <= m * (i - 1)
    BY <1>4
  <2>3. m * (i - 1) = m * i - m
    OBVIOUS
  <2>4. m * i \in Int
    OBVIOUS
  <2>5. i <= sum[i] /\ sum[i] <= m * i
    BY <2>1, <2>2, <2>3, <2>4
  <2> QED
    BY <2>1, <2>5
<1> HIDE DEF I
<1>5. \A i \in 0..n : i \in I
  BY <1>1, <1>3, <1>4, UpTo
<1> QED
  BY <1>1, <1>5 DEF I, sum, n, Total
=============================================================================
