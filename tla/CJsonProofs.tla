----------------------------- MODULE CJsonProofs -----------------------------
(***************************************************************************)
(* Theorems about CJson, for any heap, any names and any bounds.  First    *)
(* the shape of a heap of items, and that each way CJson edits the         *)
(* pointers keeps it; then that each call keeps it, and the properties,    *)
(* which follow from it; last that the pointers implement the sequences of *)
(* Forest, call by call.                                                   *)
(***************************************************************************)
EXTENDS CJsonProperties, Prefixes, FiniteSetTheorems

-----------------------------------------------------------------------------
(* The shape of the heap, as a predicate of the nodes allocated (L), those *)
(* the program holds (R), the pointers and the references (rf), so that a  *)
(* call that does several things can be taken apart into shapes between.   *)

Oc(ch, rf, n) == IF n \in rf THEN NULL ELSE ch[n]

ShapeTypes(L, R, nx, pv, ch, rf) ==
    /\ L \subseteq Node /\ R \subseteq L /\ rf \subseteq L
    /\ nx \in [Node -> Pointers] /\ pv \in [Node -> Pointers] /\ ch \in [Node -> Pointers]
    /\ \A n \in Node \ L : nx[n] = NULL /\ pv[n] = NULL /\ ch[n] = NULL

\* Lists are doubly linked.
Listed(L, nx, pv) ==
    /\ \A n \in L : nx[n] # NULL => nx[n] \in L /\ pv[nx[n]] = n
    /\ \A n \in L : pv[n] # NULL => pv[n] \in L /\ nx[pv[n]] = n

\* An owner's child is the first of its list, and has no other owner.
Headed(L, pv, ch, rf) ==
    /\ \A a \in L : Oc(ch, rf, a) # NULL => Oc(ch, rf, a) \in L /\ pv[Oc(ch, rf, a)] = NULL
    /\ \A a, b \in L : Oc(ch, rf, a) # NULL /\ Oc(ch, rf, a) = Oc(ch, rf, b) => a = b

\* What the program holds is in no list; everything else is in one.
Held(L, R, nx, pv, ch, rf) ==
    /\ \A n \in R : nx[n] = NULL /\ pv[n] = NULL /\ \A a \in L : Oc(ch, rf, a) # n
    /\ \A n \in L : n \in R \/ pv[n] # NULL \/ \E a \in L : Oc(ch, rf, a) = n

\* Any set of items has one that neither follows nor is owned by another.
Sourced(L, pv, ch, rf) ==
    \A S \in SUBSET L : S # {} => \E n \in S : pv[n] \notin S /\ \A e \in S : Oc(ch, rf, e) # n

Shape(L, R, nx, pv, ch, rf) ==
    /\ ShapeTypes(L, R, nx, pv, ch, rf)
    /\ Listed(L, nx, pv)
    /\ Headed(L, pv, ch, rf)
    /\ Held(L, R, nx, pv, ch, rf)
    /\ Sourced(L, pv, ch, rf)

\* What a walk from c meets: nothing leads out of D, and into it only by c.
Region(D, c, L, nx, pv, ch, rf) ==
    /\ c \in D /\ D \subseteq L
    /\ \A n \in D : nx[n] \in D \union {NULL} /\ Oc(ch, rf, n) \in D \union {NULL}
    /\ \A d \in D : d = c \/ pv[d] \in D \/ \E e \in D : Oc(ch, rf, e) = d

\* NULL is never the address of a node.
LEMMA NullIsNoNode == ASSUME NEW L \in SUBSET Node PROVE NULL \notin L
  BY NullAssumption

(* Freeing a region that the program holds by c.                           *)
LEMMA FreeShape ==
    ASSUME NEW L, NEW R, NEW nx, NEW pv, NEW ch, NEW rf, NEW D, NEW c,
           Shape(L, R, nx, pv, ch, rf), c \in R, Region(D, c, L, nx, pv, ch, rf)
    PROVE  Shape(L \ D, R \ {c}, Cleared(nx, D), Cleared(pv, D), Cleared(ch, D), rf \ D)
<1> DEFINE nx1 == Cleared(nx, D)
           pv1 == Cleared(pv, D)
           ch1 == Cleared(ch, D)
           rf1 == rf \ D
<1> USE NullAssumption
<1>1. /\ L \subseteq Node /\ R \subseteq L /\ rf \subseteq L /\ D \subseteq L /\ c \in D
      /\ nx \in [Node -> Pointers] /\ pv \in [Node -> Pointers] /\ ch \in [Node -> Pointers]
      /\ NULL \notin L
  BY DEF Shape, ShapeTypes, Region
<1>2. \A n \in L \ D : nx[n] \notin D /\ pv[n] \notin D /\ Oc(ch, rf, n) \notin D
  <2> SUFFICES ASSUME NEW n \in L \ D PROVE nx[n] \notin D /\ pv[n] \notin D /\ Oc(ch, rf, n) \notin D
    OBVIOUS
  <2>1. pv[n] \notin D
    BY <1>1 DEF Shape, Listed, Region
  <2>2. nx[n] \notin D
    BY <1>1 DEF Shape, Listed, Headed, Held, Region
  <2>3. Oc(ch, rf, n) \notin D
    BY <1>1 DEF Shape, Headed, Held, Region
  <2> QED
    BY <2>1, <2>2, <2>3
<1>3. R \ {c} \subseteq L \ D
  BY <1>1 DEF Shape, Held, Region
<1>4. \A n \in Node : /\ nx1[n] = IF n \in D THEN NULL ELSE nx[n]
                      /\ pv1[n] = IF n \in D THEN NULL ELSE pv[n]
                      /\ ch1[n] = IF n \in D THEN NULL ELSE ch[n]
  BY DEF Cleared
<1>5. \A n \in L \ D : /\ nx1[n] = nx[n] /\ pv1[n] = pv[n]
                       /\ Oc(ch1, rf1, n) = Oc(ch, rf, n)
  BY <1>1, <1>4 DEF Oc
<1> HIDE DEF nx1, pv1, ch1, rf1
<1>6. ShapeTypes(L \ D, R \ {c}, nx1, pv1, ch1, rf1)
  <2>1. nx1 \in [Node -> Pointers] /\ pv1 \in [Node -> Pointers] /\ ch1 \in [Node -> Pointers]
    BY <1>1 DEF nx1, pv1, ch1, Cleared, Pointers
  <2>2. \A n \in Node \ (L \ D) : nx1[n] = NULL /\ pv1[n] = NULL /\ ch1[n] = NULL
    BY <1>4 DEF Shape, ShapeTypes
  <2> QED
    BY <1>1, <1>3, <2>1, <2>2 DEF ShapeTypes, rf1
<1>7. Listed(L \ D, nx1, pv1)
  BY <1>1, <1>2, <1>5 DEF Shape, Listed
<1>8. Headed(L \ D, pv1, ch1, rf1)
  BY <1>1, <1>2, <1>5 DEF Shape, Headed
<1>9. Held(L \ D, R \ {c}, nx1, pv1, ch1, rf1)
  <2>1. \A n \in R \ {c} : nx1[n] = NULL /\ pv1[n] = NULL /\ \A a \in L \ D : Oc(ch1, rf1, a) # n
    BY <1>1, <1>3, <1>5 DEF Shape, Held
  <2>2. ASSUME NEW n \in L \ D
        PROVE  n \in R \ {c} \/ pv1[n] # NULL \/ \E a \in L \ D : Oc(ch1, rf1, a) = n
    <3>1. CASE n \in R \/ pv[n] # NULL
      BY <1>1, <1>5, <3>1
    <3>2. ASSUME NEW a \in L, Oc(ch, rf, a) = n
          PROVE  \E b \in L \ D : Oc(ch1, rf1, b) = n
      BY <1>1, <1>5, <3>2 DEF Region
    <3> QED
      BY <3>1, <3>2 DEF Shape, Held
  <2> QED
    BY <2>1, <2>2 DEF Held
<1>10. Sourced(L \ D, pv1, ch1, rf1)
  <2> SUFFICES ASSUME NEW S \in SUBSET (L \ D), S # {}
               PROVE  \E n \in S : pv1[n] \notin S /\ \A e \in S : Oc(ch1, rf1, e) # n
    BY DEF Sourced
  <2>1. PICK n \in S : pv[n] \notin S /\ \A e \in S : Oc(ch, rf, e) # n
    BY DEF Shape, Sourced
  <2> QED
    BY <1>5, <2>1
<1> QED
  BY <1>6, <1>7, <1>8, <1>9, <1>10 DEF Shape, nx1, pv1, ch1, rf1

(* A new node, which may be a reference that shows the children v.         *)
LEMMA GrowShape ==
    ASSUME NEW L, NEW R, NEW nx, NEW pv, NEW ch, NEW rf, NEW r \in Node \ L,
           NEW v \in Pointers, NEW rf1 \in {rf, rf \union {r}},
           Shape(L, R, nx, pv, ch, rf), v # NULL => r \in rf1
    PROVE  Shape(L \union {r}, R \union {r}, nx, pv, [ch EXCEPT ![r] = v], rf1)
<1> DEFINE ch1 == [ch EXCEPT ![r] = v]
           L1 == L \union {r}
           R1 == R \union {r}
<1> USE NullAssumption
<1>1. /\ L \subseteq Node /\ R \subseteq L /\ rf \subseteq L /\ r \notin rf
      /\ nx \in [Node -> Pointers] /\ pv \in [Node -> Pointers] /\ ch \in [Node -> Pointers]
      /\ nx[r] = NULL /\ pv[r] = NULL /\ NULL \notin L1
  BY DEF Shape, ShapeTypes
<1>2. /\ Oc(ch1, rf1, r) = NULL
      /\ \A n \in L : Oc(ch1, rf1, n) = Oc(ch, rf, n)
  BY <1>1 DEF Oc
<1>3. \A n \in L : nx[n] # r /\ pv[n] # r /\ Oc(ch, rf, n) # r
  BY <1>1 DEF Shape, Listed, Headed
<1>4. ShapeTypes(L1, R1, nx, pv, ch1, rf1)
  <2>1. ch1 \in [Node -> Pointers]
    BY <1>1
  <2>2. \A n \in Node \ L1 : nx[n] = NULL /\ pv[n] = NULL /\ ch1[n] = NULL
    BY <1>1 DEF Shape, ShapeTypes
  <2> QED
    BY <1>1, <2>1, <2>2 DEF ShapeTypes
<1> HIDE DEF ch1
<1>5. Listed(L1, nx, pv)
  BY <1>1 DEF Shape, Listed
<1>6. Headed(L1, pv, ch1, rf1)
  BY <1>1, <1>2 DEF Shape, Headed
<1>7. Held(L1, R1, nx, pv, ch1, rf1)
  BY <1>1, <1>2, <1>3 DEF Shape, Held
<1>8. Sourced(L1, pv, ch1, rf1)
  <2> SUFFICES ASSUME NEW S \in SUBSET L1, S # {}
               PROVE  \E n \in S : pv[n] \notin S /\ \A e \in S : Oc(ch1, rf1, e) # n
    BY DEF Sourced
  <2>1. CASE S = {r}
    BY <1>1, <1>2, <2>1
  <2>2. CASE S # {r}
    <3>1. S \ {r} \in SUBSET L /\ S \ {r} # {}
      BY <2>2
    <3>2. PICK n \in S \ {r} : pv[n] \notin S \ {r} /\ \A e \in S \ {r} : Oc(ch, rf, e) # n
      BY <3>1 DEF Shape, Sourced
    <3> QED
      BY <1>1, <1>2, <1>3, <3>2
  <2> QED
    BY <2>1, <2>2
<1> QED
  BY <1>4, <1>5, <1>6, <1>7, <1>8 DEF Shape, ch1

-----------------------------------------------------------------------------
(* c is an item of the list of a: of that list the first, or of none.      *)
ItemOf(a, c, L, pv, ch, rf) ==
    /\ a \in L /\ a \notin rf /\ c \in L
    /\ pv[c] = NULL => ch[a] = c

NextLeft(nx, pv, c) ==
    [n \in Node |-> IF n = c THEN NULL ELSE IF n = pv[c] THEN nx[c] ELSE nx[n]]
PrevLeft(nx, pv, c) ==
    [n \in Node |-> IF n = c THEN NULL ELSE IF n = nx[c] THEN pv[c] ELSE pv[n]]
ChildLeft(nx, ch, a, c) == IF c = ch[a] THEN [ch EXCEPT ![a] = nx[c]] ELSE ch

\* Taking an item out of its list gives it to the program.
LEMMA DetachShape ==
    ASSUME NEW L, NEW R, NEW nx, NEW pv, NEW ch, NEW rf, NEW a, NEW c,
           Shape(L, R, nx, pv, ch, rf), ItemOf(a, c, L, pv, ch, rf)
    PROVE  Shape(L, R \union {c}, NextLeft(nx, pv, c), PrevLeft(nx, pv, c),
                 ChildLeft(nx, ch, a, c), rf)
<1> DEFINE nx1 == NextLeft(nx, pv, c)
           pv1 == PrevLeft(nx, pv, c)
           ch1 == ChildLeft(nx, ch, a, c)
           R1 == R \union {c}
<1> USE NullAssumption
<1>1. /\ L \subseteq Node /\ R \subseteq L /\ rf \subseteq L /\ NULL \notin L
      /\ nx \in [Node -> Pointers] /\ pv \in [Node -> Pointers] /\ ch \in [Node -> Pointers]
      /\ a \in L /\ a \notin rf /\ c \in L
  BY DEF Shape, ShapeTypes, ItemOf
<1>2. \A n \in Node : /\ nx1[n] = IF n = c THEN NULL ELSE IF n = pv[c] THEN nx[c] ELSE nx[n]
                      /\ pv1[n] = IF n = c THEN NULL ELSE IF n = nx[c] THEN pv[c] ELSE pv[n]
                      /\ ch1[n] = IF n = a /\ ch[a] = c THEN nx[c] ELSE ch[n]
  BY <1>1 DEF NextLeft, PrevLeft, ChildLeft
<1>3. \A n \in L : Oc(ch1, rf, n) = IF n = a /\ ch[a] = c THEN nx[c] ELSE Oc(ch, rf, n)
  BY <1>1, <1>2 DEF Oc
\* Where c hangs.
<1>4. /\ c \notin R
      /\ pv[c] # NULL => pv[c] \in L /\ nx[pv[c]] = c /\ \A e \in L : Oc(ch, rf, e) # c
      /\ pv[c] = NULL => ch[a] = c /\ Oc(ch, rf, a) = c /\ \A e \in L : Oc(ch, rf, e) = c => e = a
      /\ ch[a] = c => pv[c] = NULL
      /\ nx[c] # NULL => /\ nx[c] \in L /\ pv[nx[c]] = c /\ \A e \in L : Oc(ch, rf, e) # nx[c]
                         /\ nx[c] \notin R
  BY <1>1 DEF Shape, Listed, Headed, Held, ItemOf, Oc
<1>5. ShapeTypes(L, R1, nx1, pv1, ch1, rf)
  <2>1. nx1 \in [Node -> Pointers] /\ pv1 \in [Node -> Pointers] /\ ch1 \in [Node -> Pointers]
    BY <1>1 DEF NextLeft, PrevLeft, ChildLeft, Pointers
  <2>2. \A n \in Node \ L : nx1[n] = NULL /\ pv1[n] = NULL /\ ch1[n] = NULL
    BY <1>1, <1>2, <1>4 DEF Shape, ShapeTypes
  <2> QED
    BY <1>1, <2>1, <2>2 DEF ShapeTypes
<1> HIDE DEF nx1, pv1, ch1
<1>6. Listed(L, nx1, pv1)
  <2>1. ASSUME NEW n \in L, nx1[n] # NULL PROVE nx1[n] \in L /\ pv1[nx1[n]] = n
    BY <1>1, <1>2, <1>4, <2>1 DEF Shape, Listed
  <2>2. ASSUME NEW n \in L, pv1[n] # NULL PROVE pv1[n] \in L /\ nx1[pv1[n]] = n
    BY <1>1, <1>2, <1>4, <2>2 DEF Shape, Listed
  <2> QED
    BY <2>1, <2>2 DEF Listed
<1>7. Headed(L, pv1, ch1, rf)
  <2>1. ASSUME NEW e \in L, Oc(ch1, rf, e) # NULL
        PROVE  Oc(ch1, rf, e) \in L /\ pv1[Oc(ch1, rf, e)] = NULL
    <3>1. CASE e = a /\ ch[a] = c
      BY <1>1, <1>2, <1>3, <1>4, <2>1, <3>1
    <3>2. CASE ~(e = a /\ ch[a] = c)
      BY <1>1, <1>2, <1>3, <1>4, <2>1, <3>2 DEF Shape, Headed
    <3> QED
      BY <3>1, <3>2
  <2>2. ASSUME NEW e \in L, NEW g \in L, Oc(ch1, rf, e) # NULL, Oc(ch1, rf, e) = Oc(ch1, rf, g)
        PROVE  e = g
    BY <1>1, <1>3, <1>4, <2>2 DEF Shape, Headed
  <2> QED
    BY <2>1, <2>2 DEF Headed
<1>8. Held(L, R1, nx1, pv1, ch1, rf)
  <2>1. ASSUME NEW n \in R1 PROVE nx1[n] = NULL /\ pv1[n] = NULL /\ \A e \in L : Oc(ch1, rf, e) # n
    <3>1. CASE n = c
      <4>1. nx[c] # c
        <5> SUFFICES ASSUME nx[c] = c PROVE FALSE
          OBVIOUS
        <5>1. pv[c] = c /\ {c} \in SUBSET L
          BY <1>1, <1>4
        <5> QED
          BY <5>1 DEF Shape, Sourced
      <4> QED
        BY <1>1, <1>2, <1>3, <1>4, <3>1, <4>1
    <3>2. CASE n # c
      <4>1. n \in R /\ nx[n] = NULL /\ pv[n] = NULL /\ \A e \in L : Oc(ch, rf, e) # n
        BY <3>2 DEF Shape, Held
      <4>2. n # pv[c] /\ n # nx[c]
        BY <1>1, <1>4, <4>1
      <4> QED
        BY <1>1, <1>2, <1>3, <3>2, <4>1, <4>2
    <3> QED
      BY <3>1, <3>2
  <2>2. ASSUME NEW n \in L
        PROVE  n \in R1 \/ pv1[n] # NULL \/ \E e \in L : Oc(ch1, rf, e) = n
    <3>1. CASE n = c \/ n \in R
      BY <3>1
    <3>2. CASE n # c /\ n = nx[c]
      BY <1>1, <1>2, <1>3, <1>4, <3>2
    <3>3. CASE n # c /\ n # nx[c] /\ pv[n] # NULL
      BY <1>1, <1>2, <3>3
    <3>4. ASSUME NEW e \in L, Oc(ch, rf, e) = n, n # c PROVE \E g \in L : Oc(ch1, rf, g) = n
      BY <1>3, <1>1, <3>4 DEF Oc
    <3> QED
      BY <3>1, <3>2, <3>3, <3>4 DEF Shape, Held
  <2> QED
    BY <2>1, <2>2 DEF Held
<1>9. Sourced(L, pv1, ch1, rf)
  <2> SUFFICES ASSUME NEW S \in SUBSET L, S # {}
               PROVE  \E n \in S : pv1[n] \notin S /\ \A e \in S : Oc(ch1, rf, e) # n
    BY DEF Sourced
  <2>1. CASE c \in S
    BY <1>1, <1>2, <1>8, <2>1 DEF Held
  <2>2. CASE c \notin S
    <3>1. PICK n \in S \union {c} : /\ pv[n] \notin S \union {c}
                                    /\ \A e \in S \union {c} : Oc(ch, rf, e) # n
      <4>1. S \union {c} \in SUBSET L /\ S \union {c} # {}
        BY <1>1
      <4> QED
        BY <4>1 DEF Shape, Sourced
    <3>2. CASE n \in S
      BY <1>1, <1>2, <1>3, <1>4, <2>2, <3>1, <3>2
    <3>3. CASE n = c
      <4>1. PICK m \in S : pv[m] \notin S /\ \A e \in S : Oc(ch, rf, e) # m
        BY DEF Shape, Sourced
      <4> QED
        BY <1>1, <1>2, <1>3, <1>4, <2>2, <3>1, <3>3, <4>1
    <3> QED
      BY <3>1, <3>2, <3>3
  <2> QED
    BY <2>1, <2>2
<1> QED
  BY <1>5, <1>6, <1>7, <1>8, <1>9 DEF Shape, nx1, pv1, ch1

-----------------------------------------------------------------------------
(* x goes in front of c, or behind the last item, of a list that is not    *)
(* below x: a and c are outside T, which holds all that is below x.        *)
Below(T, x, L, nx, ch, rf) ==
    /\ x \in T /\ T \subseteq L
    /\ \A n \in T : nx[n] \in T \union {NULL} /\ Oc(ch, rf, n) \in T \union {NULL}

NextPut(nx, pv, ch, a, c, x) ==
    [n \in Node |-> IF n = x THEN c ELSE IF n = pv[c] /\ c # ch[a] THEN x ELSE nx[n]]
PrevPut(pv, c, x) == [pv EXCEPT ![x] = pv[c], ![c] = x]
ChildPut(ch, a, c, x) == IF c = ch[a] THEN [ch EXCEPT ![a] = x] ELSE ch

\* Putting x, which the program held, in front of an item.
LEMMA InsertShape ==
    ASSUME NEW L, NEW R, NEW nx, NEW pv, NEW ch, NEW rf, NEW a, NEW c, NEW x, NEW T,
           Shape(L, R, nx, pv, ch, rf), ItemOf(a, c, L, pv, ch, rf),
           x \in R, Below(T, x, L, nx, ch, rf), a \notin T, c \notin T
    PROVE  Shape(L, R \ {x}, NextPut(nx, pv, ch, a, c, x), PrevPut(pv, c, x),
                 ChildPut(ch, a, c, x), rf)
<1> DEFINE nx1 == NextPut(nx, pv, ch, a, c, x)
           pv1 == PrevPut(pv, c, x)
           ch1 == ChildPut(ch, a, c, x)
           R1 == R \ {x}
<1> USE NullAssumption
<1>1. /\ L \subseteq Node /\ R \subseteq L /\ rf \subseteq L /\ NULL \notin L
      /\ nx \in [Node -> Pointers] /\ pv \in [Node -> Pointers] /\ ch \in [Node -> Pointers]
      /\ a \in L /\ a \notin rf /\ c \in L /\ x \in L /\ x \in T /\ x # c /\ x # a
  BY DEF Shape, ShapeTypes, ItemOf, Below
<1>2. /\ c \notin R
      /\ pv[c] # NULL => pv[c] \in L /\ nx[pv[c]] = c /\ \A e \in L : Oc(ch, rf, e) # c
      /\ pv[c] = NULL => ch[a] = c /\ Oc(ch, rf, a) = c /\ \A e \in L : Oc(ch, rf, e) = c => e = a
      /\ ch[a] = c => pv[c] = NULL
      /\ nx[x] = NULL /\ pv[x] = NULL /\ \A e \in L : Oc(ch, rf, e) # x
      /\ \A n \in L : nx[n] # x /\ pv[n] # x
      /\ pv[c] \notin T
  BY <1>1 DEF Shape, Listed, Headed, Held, ItemOf, Oc, Below
<1>3. \A n \in Node : /\ nx1[n] = IF n = x THEN c ELSE IF n = pv[c] THEN x ELSE nx[n]
                      /\ pv1[n] = IF n = x THEN pv[c] ELSE IF n = c THEN x ELSE pv[n]
                      /\ ch1[n] = IF n = a /\ ch[a] = c THEN x ELSE ch[n]
  BY <1>1, <1>2 DEF NextPut, PrevPut, ChildPut
<1>4. \A n \in L : Oc(ch1, rf, n) = IF n = a /\ ch[a] = c THEN x ELSE Oc(ch, rf, n)
  BY <1>1, <1>3 DEF Oc
<1>5. ShapeTypes(L, R1, nx1, pv1, ch1, rf)
  <2>1. nx1 \in [Node -> Pointers] /\ pv1 \in [Node -> Pointers] /\ ch1 \in [Node -> Pointers]
    BY <1>1 DEF NextPut, PrevPut, ChildPut, Pointers
  <2>2. \A n \in Node \ L : nx1[n] = NULL /\ pv1[n] = NULL /\ ch1[n] = NULL
    BY <1>1, <1>2, <1>3 DEF Shape, ShapeTypes
  <2> QED
    BY <1>1, <2>1, <2>2 DEF ShapeTypes
<1> HIDE DEF nx1, pv1, ch1
<1>6. Listed(L, nx1, pv1)
  <2>1. ASSUME NEW n \in L, nx1[n] # NULL PROVE nx1[n] \in L /\ pv1[nx1[n]] = n
    BY <1>1, <1>2, <1>3, <2>1 DEF Shape, Listed
  <2>2. ASSUME NEW n \in L, pv1[n] # NULL PROVE pv1[n] \in L /\ nx1[pv1[n]] = n
    BY <1>1, <1>2, <1>3, <2>2 DEF Shape, Listed
  <2> QED
    BY <2>1, <2>2 DEF Listed
<1>7. Headed(L, pv1, ch1, rf)
  <2>1. ASSUME NEW e \in L, Oc(ch1, rf, e) # NULL
        PROVE  Oc(ch1, rf, e) \in L /\ pv1[Oc(ch1, rf, e)] = NULL
    <3>1. CASE e = a /\ ch[a] = c
      BY <1>1, <1>2, <1>3, <1>4, <3>1
    <3>2. CASE ~(e = a /\ ch[a] = c)
      BY <1>1, <1>2, <1>3, <1>4, <2>1, <3>2 DEF Shape, Headed
    <3> QED
      BY <3>1, <3>2
  <2>2. ASSUME NEW e \in L, NEW g \in L, Oc(ch1, rf, e) # NULL, Oc(ch1, rf, e) = Oc(ch1, rf, g)
        PROVE  e = g
    BY <1>1, <1>2, <1>4, <2>2 DEF Shape, Headed
  <2> QED
    BY <2>1, <2>2 DEF Headed
<1>8. Held(L, R1, nx1, pv1, ch1, rf)
  <2>1. ASSUME NEW n \in R1 PROVE nx1[n] = NULL /\ pv1[n] = NULL /\ \A e \in L : Oc(ch1, rf, e) # n
    <3>1. n \in R /\ n # x /\ nx[n] = NULL /\ pv[n] = NULL /\ \A e \in L : Oc(ch, rf, e) # n
      BY DEF Shape, Held
    <3> QED
      BY <1>1, <1>2, <1>3, <1>4, <3>1
  <2>2. ASSUME NEW n \in L
        PROVE  n \in R1 \/ pv1[n] # NULL \/ \E e \in L : Oc(ch1, rf, e) = n
    <3>1. CASE n = x
      BY <1>1, <1>2, <1>3, <1>4, <3>1
    <3>2. CASE n # x /\ (n \in R \/ n = c \/ pv[n] # NULL)
      BY <1>1, <1>3, <3>2
    <3>3. ASSUME NEW e \in L, Oc(ch, rf, e) = n, n # c PROVE \E g \in L : Oc(ch1, rf, g) = n
      BY <1>1, <1>4, <3>3 DEF Oc
    <3> QED
      BY <3>1, <3>2, <3>3 DEF Shape, Held
  <2> QED
    BY <2>1, <2>2 DEF Held
<1>9. Sourced(L, pv1, ch1, rf)
  <2> SUFFICES ASSUME NEW S \in SUBSET L, S # {}
               PROVE  \E n \in S : pv1[n] \notin S /\ \A e \in S : Oc(ch1, rf, e) # n
    BY DEF Sourced
  <2>1. CASE x \notin S
    <3>1. PICK n \in S : pv[n] \notin S /\ \A e \in S : Oc(ch, rf, e) # n
      BY DEF Shape, Sourced
    <3> QED
      BY <1>1, <1>2, <1>3, <1>4, <2>1, <3>1
  <2>2. CASE x \in S /\ S \subseteq T
    BY <1>1, <1>2, <1>3, <1>4, <2>2
  <2>3. CASE x \in S /\ ~(S \subseteq T)
    <3>1. PICK n \in S \ T : pv[n] \notin S \ T /\ \A e \in S \ T : Oc(ch, rf, e) # n
      <4>1. S \ T \in SUBSET L /\ S \ T # {}
        BY <2>3
      <4> QED
        BY <4>1 DEF Shape, Sourced
    <3>2. pv[n] \notin S /\ \A e \in S : Oc(ch, rf, e) # n
      <4>1. pv[n] \notin T
        BY <1>1, <3>1 DEF Shape, Listed, Below
      <4>2. \A e \in T : Oc(ch, rf, e) # n
        BY <1>1, <3>1 DEF Below
      <4> QED
        BY <3>1, <4>1, <4>2
    <3>3. CASE n = c
      BY <1>1, <1>2, <1>3, <1>4, <2>3, <3>2, <3>3
    <3>4. CASE n # c
      BY <1>1, <1>2, <1>3, <1>4, <3>1, <3>2, <3>4
    <3> QED
      BY <3>3, <3>4
  <2> QED
    BY <2>1, <2>2, <2>3
<1> QED
  BY <1>5, <1>6, <1>7, <1>8, <1>9 DEF Shape, nx1, pv1, ch1

\* x becomes the only item of a.
LEMMA FirstShape ==
    ASSUME NEW L, NEW R, NEW nx, NEW pv, NEW ch, NEW rf, NEW a \in L, NEW x \in R, NEW T,
           Shape(L, R, nx, pv, ch, rf), a \notin rf, ch[a] = NULL,
           Below(T, x, L, nx, ch, rf), a \notin T
    PROVE  Shape(L, R \ {x}, nx, pv, [ch EXCEPT ![a] = x], rf)
<1> DEFINE ch1 == [ch EXCEPT ![a] = x]
<1> USE NullAssumption
<1>1. /\ L \subseteq Node /\ R \subseteq L /\ rf \subseteq L /\ NULL \notin L
      /\ nx \in [Node -> Pointers] /\ pv \in [Node -> Pointers] /\ ch \in [Node -> Pointers]
      /\ x \in L /\ x \in T /\ x # a
      /\ nx[x] = NULL /\ pv[x] = NULL /\ \A e \in L : Oc(ch, rf, e) # x
  BY DEF Shape, ShapeTypes, Below, Held
<1>2. \A n \in L : Oc(ch1, rf, n) = IF n = a THEN x ELSE Oc(ch, rf, n)
  BY <1>1 DEF Oc
<1>3. ShapeTypes(L, R \ {x}, nx, pv, ch1, rf)
  BY <1>1 DEF Shape, ShapeTypes, Pointers
<1> HIDE DEF ch1
<1>4. Listed(L, nx, pv)
  BY DEF Shape
<1>5. Headed(L, pv, ch1, rf)
  BY <1>1, <1>2 DEF Shape, Headed
<1>6. Held(L, R \ {x}, nx, pv, ch1, rf)
  <2>1. \A n \in R \ {x} : nx[n] = NULL /\ pv[n] = NULL /\ \A e \in L : Oc(ch1, rf, e) # n
    BY <1>2 DEF Shape, Held
  <2>2. ASSUME NEW n \in L
        PROVE  n \in R \ {x} \/ pv[n] # NULL \/ \E e \in L : Oc(ch1, rf, e) = n
    BY <1>1, <1>2 DEF Shape, Held, Oc
  <2> QED
    BY <2>1, <2>2 DEF Held
<1>7. Sourced(L, pv, ch1, rf)
  <2> SUFFICES ASSUME NEW S \in SUBSET L, S # {}
               PROVE  \E n \in S : pv[n] \notin S /\ \A e \in S : Oc(ch1, rf, e) # n
    BY DEF Sourced
  <2>1. CASE S \subseteq T
    <3>1. PICK n \in S : pv[n] \notin S /\ \A e \in S : Oc(ch, rf, e) # n
      BY DEF Shape, Sourced
    <3> QED
      BY <1>2, <2>1, <3>1
  <2>2. CASE ~(S \subseteq T)
    <3>1. PICK n \in S \ T : pv[n] \notin S \ T /\ \A e \in S \ T : Oc(ch, rf, e) # n
      <4>1. S \ T \in SUBSET L /\ S \ T # {}
        BY <2>2
      <4> QED
        BY <4>1 DEF Shape, Sourced
    <3>2. pv[n] \notin T
      BY <1>1, <3>1 DEF Shape, Listed, Below
    <3>3. \A e \in T : Oc(ch, rf, e) # n
      BY <1>1, <3>1 DEF Below
    <3> QED
      BY <1>1, <1>2, <3>1, <3>2, <3>3
  <2> QED
    BY <2>1, <2>2
<1> QED
  BY <1>3, <1>4, <1>5, <1>6, <1>7 DEF Shape, ch1

\* x becomes the item behind the last one, c.
LEMMA LastShape ==
    ASSUME NEW L, NEW R, NEW nx, NEW pv, NEW ch, NEW rf, NEW c \in L \ R, NEW x \in R, NEW T,
           Shape(L, R, nx, pv, ch, rf), nx[c] = NULL,
           Below(T, x, L, nx, ch, rf), c \notin T
    PROVE  Shape(L, R \ {x}, [nx EXCEPT ![c] = x], [pv EXCEPT ![x] = c], ch, rf)
<1> DEFINE nx1 == [nx EXCEPT ![c] = x]
           pv1 == [pv EXCEPT ![x] = c]
<1> USE NullAssumption
<1>1. /\ L \subseteq Node /\ R \subseteq L /\ rf \subseteq L /\ NULL \notin L
      /\ nx \in [Node -> Pointers] /\ pv \in [Node -> Pointers] /\ ch \in [Node -> Pointers]
      /\ x \in L /\ x \in T /\ x # c
      /\ nx[x] = NULL /\ pv[x] = NULL /\ \A e \in L : Oc(ch, rf, e) # x
  BY DEF Shape, ShapeTypes, Below, Held
<1>2. \A n \in Node : /\ nx1[n] = IF n = c THEN x ELSE nx[n]
                      /\ pv1[n] = IF n = x THEN c ELSE pv[n]
  BY <1>1
<1>3. ShapeTypes(L, R \ {x}, nx1, pv1, ch, rf)
  BY <1>1 DEF Shape, ShapeTypes, Pointers
<1> HIDE DEF nx1, pv1
<1>4. Listed(L, nx1, pv1)
  <2>1. \A n \in L : nx[n] # x /\ pv[n] # x /\ pv[n] # c
    BY <1>1 DEF Shape, Listed
  <2>2. ASSUME NEW n \in L, nx1[n] # NULL PROVE nx1[n] \in L /\ pv1[nx1[n]] = n
    BY <1>1, <1>2, <2>1, <2>2 DEF Shape, Listed
  <2>3. ASSUME NEW n \in L, pv1[n] # NULL PROVE pv1[n] \in L /\ nx1[pv1[n]] = n
    BY <1>1, <1>2, <2>1, <2>3 DEF Shape, Listed
  <2> QED
    BY <2>2, <2>3 DEF Listed
<1>5. Headed(L, pv1, ch, rf)
  BY <1>1, <1>2 DEF Shape, Headed
<1>6. Held(L, R \ {x}, nx1, pv1, ch, rf)
  BY <1>1, <1>2 DEF Shape, Held
<1>7. Sourced(L, pv1, ch, rf)
  <2> SUFFICES ASSUME NEW S \in SUBSET L, S # {}
               PROVE  \E n \in S : pv1[n] \notin S /\ \A e \in S : Oc(ch, rf, e) # n
    BY DEF Sourced
  <2>1. CASE S \subseteq T
    <3>1. PICK n \in S : pv[n] \notin S /\ \A e \in S : Oc(ch, rf, e) # n
      BY DEF Shape, Sourced
    <3> QED
      BY <1>1, <1>2, <2>1, <3>1
  <2>2. CASE ~(S \subseteq T)
    <3>1. PICK n \in S \ T : pv[n] \notin S \ T /\ \A e \in S \ T : Oc(ch, rf, e) # n
      <4>1. S \ T \in SUBSET L /\ S \ T # {}
        BY <2>2
      <4> QED
        BY <4>1 DEF Shape, Sourced
    <3>2. pv[n] \notin T
      BY <1>1, <3>1 DEF Shape, Listed, Below
    <3>3. \A e \in T : Oc(ch, rf, e) # n
      BY <1>1, <3>1 DEF Below
    <3> QED
      BY <1>1, <1>2, <3>1, <3>2, <3>3
  <2> QED
    BY <2>1, <2>2
<1> QED
  BY <1>3, <1>4, <1>5, <1>6, <1>7 DEF Shape, nx1, pv1

-----------------------------------------------------------------------------
(* The new items s[1], ..., s[k], M together, linked to a list.            *)
ArrayLinks(M, a, k, s, L, nx, pv, nx1, pv1) ==
    /\ a \in Node \ L /\ k \in Nat /\ s \in [1..k -> Node]
    /\ M = {s[i] : i \in 1..k} /\ M \intersect (L \union {a}) = {}
    /\ \A i, j \in 1..k : s[i] = s[j] => i = j
    /\ nx1 \in [Node -> Pointers] /\ pv1 \in [Node -> Pointers]
    /\ \A i \in 1..k : /\ nx1[s[i]] = IF i < k THEN s[i + 1] ELSE NULL
                       /\ pv1[s[i]] = IF i > 1 THEN s[i - 1] ELSE NULL
    /\ \A n \in Node \ M : nx1[n] = nx[n] /\ pv1[n] = pv[n]

\* The new list goes under a new container.
LEMMA ArrayShape ==
    ASSUME NEW L, NEW R, NEW nx, NEW pv, NEW ch, NEW rf, NEW nx1, NEW pv1, NEW M,
           NEW a, NEW k, NEW s,
           Shape(L, R, nx, pv, ch, rf), ArrayLinks(M, a, k, s, L, nx, pv, nx1, pv1)
    PROVE  Shape(L \union {a} \union M, R \union {a}, nx1, pv1,
                 [ch EXCEPT ![a] = IF k = 0 THEN NULL ELSE s[1]], rf)
<1> DEFINE ch1 == [ch EXCEPT ![a] = IF k = 0 THEN NULL ELSE s[1]]
           L1 == L \union {a} \union M
           R1 == R \union {a}
<1> USE NullAssumption
<1>0. /\ a \in Node \ L /\ k \in Nat /\ s \in [1..k -> Node]
      /\ M = {s[i] : i \in 1..k} /\ M \intersect (L \union {a}) = {}
      /\ \A i, j \in 1..k : s[i] = s[j] => i = j
      /\ nx1 \in [Node -> Pointers] /\ pv1 \in [Node -> Pointers]
      /\ \A i \in 1..k : /\ nx1[s[i]] = IF i < k THEN s[i + 1] ELSE NULL
                         /\ pv1[s[i]] = IF i > 1 THEN s[i - 1] ELSE NULL
      /\ \A n \in Node \ M : nx1[n] = nx[n] /\ pv1[n] = pv[n]
  BY DEF ArrayLinks
<1> USE <1>0
<1>1. /\ L \subseteq Node /\ R \subseteq L /\ rf \subseteq L /\ M \subseteq Node /\ a \notin M
      /\ M \intersect L = {} /\ L1 \subseteq Node /\ NULL \notin L1
      /\ nx \in [Node -> Pointers] /\ pv \in [Node -> Pointers] /\ ch \in [Node -> Pointers]
      /\ \A n \in Node \ L : nx[n] = NULL /\ pv[n] = NULL /\ ch[n] = NULL
  BY DEF Shape, ShapeTypes
<1>2. /\ \A n \in L : nx1[n] = nx[n] /\ pv1[n] = pv[n] /\ Oc(ch1, rf, n) = Oc(ch, rf, n)
      /\ nx1[a] = NULL /\ pv1[a] = NULL
      /\ k = 0 => Oc(ch1, rf, a) = NULL
      /\ k > 0 => Oc(ch1, rf, a) = s[1] /\ s[1] \in M
      /\ \A n \in M : Oc(ch1, rf, n) = NULL
  BY <1>1 DEF Oc
<1>3. \A n \in L : /\ nx[n] \in L \union {NULL} /\ pv[n] \in L \union {NULL}
                   /\ Oc(ch, rf, n) \in L \union {NULL}
  BY DEF Shape, Listed, Headed
<1>4. ShapeTypes(L1, R1, nx1, pv1, ch1, rf)
  <2>1. ch1 \in [Node -> Pointers]
    BY <1>1 DEF Pointers
  <2> QED
    BY <1>1, <2>1 DEF ShapeTypes
<1> HIDE DEF ch1
<1>5. Listed(L1, nx1, pv1)
  <2>1. ASSUME NEW n \in L1, nx1[n] # NULL PROVE nx1[n] \in L1 /\ pv1[nx1[n]] = n
    <3>1. CASE n \in L
      BY <1>1, <1>2, <1>3, <2>1, <3>1 DEF Shape, Listed
    <3>2. CASE n \in M
      <4>1. PICK i \in 1..k : n = s[i]
        BY <3>2
      <4>2. i < k /\ i + 1 \in 1..k /\ nx1[n] = s[i + 1]
        BY <2>1, <4>1
      <4> QED
        BY <4>1, <4>2
    <3> QED
      BY <1>2, <2>1, <3>1, <3>2
  <2>2. ASSUME NEW n \in L1, pv1[n] # NULL PROVE pv1[n] \in L1 /\ nx1[pv1[n]] = n
    <3>1. CASE n \in L
      BY <1>1, <1>2, <1>3, <2>2, <3>1 DEF Shape, Listed
    <3>2. CASE n \in M
      <4>1. PICK i \in 1..k : n = s[i]
        BY <3>2
      <4>2. i > 1 /\ i - 1 \in 1..k /\ pv1[n] = s[i - 1]
        BY <2>2, <4>1
      <4> QED
        BY <4>1, <4>2
    <3> QED
      BY <1>2, <2>2, <3>1, <3>2
  <2> QED
    BY <2>1, <2>2 DEF Listed
<1>6. Headed(L1, pv1, ch1, rf)
  <2>1. k > 0 => pv1[s[1]] = NULL
    OBVIOUS
  <2>2. ASSUME NEW e \in L1, Oc(ch1, rf, e) # NULL
        PROVE  Oc(ch1, rf, e) \in L1 /\ pv1[Oc(ch1, rf, e)] = NULL
    <3>1. CASE e \in L
      BY <1>1, <1>2, <1>3, <2>2, <3>1 DEF Shape, Headed
    <3>2. CASE e \notin L
      BY <1>2, <2>1, <2>2, <3>2
    <3> QED
      BY <3>1, <3>2
  <2>3. ASSUME NEW e \in L1, NEW g \in L1, Oc(ch1, rf, e) # NULL, Oc(ch1, rf, e) = Oc(ch1, rf, g)
        PROVE  e = g
    BY <1>1, <1>2, <1>3, <2>3 DEF Shape, Headed
  <2> QED
    BY <2>2, <2>3 DEF Headed
<1>7. Held(L1, R1, nx1, pv1, ch1, rf)
  <2>1. ASSUME NEW n \in R1 PROVE nx1[n] = NULL /\ pv1[n] = NULL /\ \A e \in L1 : Oc(ch1, rf, e) # n
    BY <1>1, <1>2, <1>3 DEF Shape, Held
  <2>2. ASSUME NEW n \in L1
        PROVE  n \in R1 \/ pv1[n] # NULL \/ \E e \in L1 : Oc(ch1, rf, e) = n
    <3>1. CASE n \in L
      BY <1>2, <3>1 DEF Shape, Held
    <3>2. CASE n \in M
      <4>1. PICK i \in 1..k : n = s[i]
        BY <3>2
      <4>2. CASE i = 1
        BY <1>2, <4>1, <4>2
      <4>3. CASE i > 1
        <5>1. pv1[n] = s[i - 1] /\ i - 1 \in 1..k
          BY <4>1, <4>3
        <5> QED
          BY <5>1
      <4> QED
        BY <4>2, <4>3
    <3> QED
      BY <3>1, <3>2
  <2> QED
    BY <2>1, <2>2 DEF Held
<1>8. Sourced(L1, pv1, ch1, rf)
  <2> SUFFICES ASSUME NEW S \in SUBSET L1, S # {}
               PROVE  \E n \in S : pv1[n] \notin S /\ \A e \in S : Oc(ch1, rf, e) # n
    BY DEF Sourced
  <2>1. CASE S \intersect L # {}
    <3>1. PICK n \in S \intersect L : /\ pv[n] \notin S \intersect L
                                      /\ \A e \in S \intersect L : Oc(ch, rf, e) # n
      <4>1. S \intersect L \in SUBSET L
        OBVIOUS
      <4> QED
        BY <2>1, <4>1 DEF Shape, Sourced
    <3> QED
      BY <1>1, <1>2, <1>3, <3>1
  <2>2. CASE S \intersect L = {} /\ a \in S
    <3>1. pv1[a] \notin S
      BY <1>1, <1>2
    <3>2. \A e \in S : e = a \/ e \in M
      BY <2>2
    <3>3. Oc(ch1, rf, a) # a
      BY <1>1, <1>2
    <3>4. \A e \in M : Oc(ch1, rf, e) # a
      BY <1>1, <1>2
    <3>5. \A e \in S : Oc(ch1, rf, e) # a
      BY <3>2, <3>3, <3>4
    <3> QED
      BY <2>2, <3>1, <3>5
  <2>3. CASE S \intersect L = {} /\ a \notin S
    <3> DEFINE I == {i \in 1..k : s[i] \in S}
    <3>1. I \in SUBSET Nat /\ I # {}
      BY <2>3
    <3>2. PICK i \in I : \A j \in I : i <= j
      BY <3>1, LeastNumber
    <3>3. pv1[s[i]] \notin S
      <4>1. CASE i = 1
        BY <1>1, <4>1
      <4>2. CASE i > 1
        <5>1. i - 1 \in 1..k /\ i - 1 \notin I /\ pv1[s[i]] = s[i - 1]
          BY <3>2, <4>2
        <5> QED
          BY <5>1
      <4> QED
        BY <4>1, <4>2
    <3>4. \A e \in S : Oc(ch1, rf, e) # s[i]
      BY <1>1, <1>2, <2>3
    <3> QED
      BY <3>3, <3>4
  <2> QED
    BY <2>1, <2>2, <2>3
<1> QED
  BY <1>4, <1>5, <1>6, <1>7, <1>8 DEF Shape, ch1

(* The copy f of what is below item, C, in nodes not allocated, G.         *)
CopyLinks(f, G, C, item, L, nx, pv, ch, rf, nx1, pv1, ch1) ==
    /\ C \subseteq L /\ item \in C /\ f \in [C -> Node \ L]
    /\ C \intersect rf = {} /\ G = {f[m] : m \in C}
    /\ \A m, n \in C : f[m] = f[n] => m = n
    /\ \A m \in C : m # item => nx[m] \in C \union {NULL}
    /\ \A m \in C : ch[m] \in C \union {NULL}
    /\ \A m \in C : m = item \/ pv[m] \in C \/ \E e \in C : ch[e] = m
    /\ pv[item] \notin C /\ nx[item] \notin C /\ \A e \in C : ch[e] # item
    /\ nx1 \in [Node -> Pointers] /\ pv1 \in [Node -> Pointers] /\ ch1 \in [Node -> Pointers]
    /\ \A m \in C : /\ nx1[f[m]] = IF m = item \/ nx[m] = NULL THEN NULL ELSE f[nx[m]]
                    /\ pv1[f[m]] = IF m = item \/ pv[m] = NULL THEN NULL ELSE f[pv[m]]
                    /\ ch1[f[m]] = IF ch[m] = NULL THEN NULL ELSE f[ch[m]]
    /\ \A n \in Node \ G : nx1[n] = nx[n] /\ pv1[n] = pv[n] /\ ch1[n] = ch[n]

\* The copy is a tree of its own, held by the program.
LEMMA CopyShape ==
    ASSUME NEW L, NEW R, NEW nx, NEW pv, NEW ch, NEW rf, NEW nx1, NEW pv1, NEW ch1,
           NEW C, NEW item, NEW f, NEW G,
           Shape(L, R, nx, pv, ch, rf),
           CopyLinks(f, G, C, item, L, nx, pv, ch, rf, nx1, pv1, ch1)
    PROVE  Shape(L \union G, R \union {f[item]}, nx1, pv1, ch1, rf)
<1> DEFINE L1 == L \union G
           R1 == R \union {f[item]}
<1> USE NullAssumption
<1> SUFFICES ASSUME
        C \subseteq L, item \in C, f \in [C -> Node \ L],
        C \intersect rf = {}, G = {f[m] : m \in C},
        \A m, n \in C : f[m] = f[n] => m = n,
        \A m \in C : m # item => nx[m] \in C \union {NULL},
        \A m \in C : ch[m] \in C \union {NULL},
        \A m \in C : m = item \/ pv[m] \in C \/ \E e \in C : ch[e] = m,
        pv[item] \notin C, nx[item] \notin C, \A e \in C : ch[e] # item,
        nx1 \in [Node -> Pointers], pv1 \in [Node -> Pointers], ch1 \in [Node -> Pointers],
        \A m \in C : /\ nx1[f[m]] = IF m = item \/ nx[m] = NULL THEN NULL ELSE f[nx[m]]
                     /\ pv1[f[m]] = IF m = item \/ pv[m] = NULL THEN NULL ELSE f[pv[m]]
                     /\ ch1[f[m]] = IF ch[m] = NULL THEN NULL ELSE f[ch[m]],
        \A n \in Node \ G : nx1[n] = nx[n] /\ pv1[n] = pv[n] /\ ch1[n] = ch[n]
     PROVE  Shape(L1, R1, nx1, pv1, ch1, rf)
  BY DEF CopyLinks
<1>1. /\ L \subseteq Node /\ R \subseteq L /\ rf \subseteq L /\ G \subseteq Node
      /\ G \intersect L = {} /\ L1 \subseteq Node /\ NULL \notin L1 /\ NULL \notin C
      /\ \A n \in Node \ L : nx[n] = NULL /\ pv[n] = NULL /\ ch[n] = NULL
  BY DEF Shape, ShapeTypes
<1>2. /\ \A n \in L : nx1[n] = nx[n] /\ pv1[n] = pv[n] /\ Oc(ch1, rf, n) = Oc(ch, rf, n)
      /\ \A m \in C : f[m] \in G /\ Oc(ch1, rf, f[m]) = ch1[f[m]] /\ Oc(ch, rf, m) = ch[m]
  BY <1>1 DEF Oc
<1>3. \A n \in L : /\ nx[n] \in L \union {NULL} /\ pv[n] \in L \union {NULL}
                   /\ Oc(ch, rf, n) \in L \union {NULL}
  BY DEF Shape, Listed, Headed
<1>4. \A m \in C : m # item => pv[m] \in C \union {NULL}
  <2> SUFFICES ASSUME NEW m \in C, NEW e \in C, ch[e] = m PROVE pv[m] = NULL
    OBVIOUS
  <2>1. Oc(ch, rf, e) = m /\ m # NULL
    BY <1>1, <1>2
  <2> QED
    BY <2>1 DEF Shape, Headed
<1>5. \A m \in C : /\ nx[m] # NULL => nx[m] # item /\ pv[nx[m]] = m
                   /\ pv[m] # NULL => pv[m] # item /\ nx[pv[m]] = m
                   /\ ch[m] # NULL => ch[m] # item /\ pv[ch[m]] = NULL
  <2> SUFFICES ASSUME NEW m \in C
               PROVE  /\ nx[m] # NULL => nx[m] # item /\ pv[nx[m]] = m
                      /\ pv[m] # NULL => pv[m] # item /\ nx[pv[m]] = m
                      /\ ch[m] # NULL => ch[m] # item /\ pv[ch[m]] = NULL
    OBVIOUS
  <2>1. m \in L /\ item \in L
    OBVIOUS
  <2>2. nx[m] # NULL => pv[nx[m]] = m
    BY <2>1 DEF Shape, Listed
  <2>3. pv[m] # NULL => nx[pv[m]] = m
    BY <2>1 DEF Shape, Listed
  <2>4. ch[m] # NULL => pv[ch[m]] = NULL
    <3>1. Oc(ch, rf, m) = ch[m]
      BY <1>2
    <3>2. Oc(ch, rf, m) # NULL => pv[Oc(ch, rf, m)] = NULL
      BY <2>1 DEF Shape, Headed
    <3> QED
      BY <3>1, <3>2
  <2>5. nx[m] # item
    BY <1>1, <2>2
  <2>6. pv[m] # item
    BY <1>1, <2>3
  <2> QED
    BY <2>2, <2>3, <2>4, <2>5, <2>6
<1>6. ShapeTypes(L1, R1, nx1, pv1, ch1, rf)
  BY <1>1, <1>2 DEF ShapeTypes
<1>7. Listed(L1, nx1, pv1)
  <2>1. ASSUME NEW n \in L1, nx1[n] # NULL PROVE nx1[n] \in L1 /\ pv1[nx1[n]] = n
    <3>1. CASE n \in L
      BY <1>1, <1>2, <1>3, <2>1, <3>1 DEF Shape, Listed
    <3>2. CASE n \in G
      <4>1. PICK m \in C : n = f[m]
        BY <3>2
      <4>2. m # item /\ nx[m] \in C /\ nx[m] # item /\ pv[nx[m]] = m /\ nx1[n] = f[nx[m]]
        BY <1>5, <2>1, <4>1
      <4> QED
        BY <1>1, <1>2, <4>1, <4>2
    <3> QED
      BY <3>1, <3>2
  <2>2. ASSUME NEW n \in L1, pv1[n] # NULL PROVE pv1[n] \in L1 /\ nx1[pv1[n]] = n
    <3>1. CASE n \in L
      BY <1>1, <1>2, <1>3, <2>2, <3>1 DEF Shape, Listed
    <3>2. CASE n \in G
      <4>1. PICK m \in C : n = f[m]
        BY <3>2
      <4>2. m # item /\ pv[m] \in C /\ pv[m] # item /\ nx[pv[m]] = m /\ pv1[n] = f[pv[m]]
        BY <1>4, <1>5, <2>2, <4>1
      <4> QED
        BY <1>1, <1>2, <4>1, <4>2
    <3> QED
      BY <3>1, <3>2
  <2> QED
    BY <2>1, <2>2 DEF Listed
<1>8. Headed(L1, pv1, ch1, rf)
  <2>1. ASSUME NEW e \in L1, Oc(ch1, rf, e) # NULL
        PROVE  Oc(ch1, rf, e) \in L1 /\ pv1[Oc(ch1, rf, e)] = NULL
    <3>1. CASE e \in L
      BY <1>1, <1>2, <1>3, <2>1, <3>1 DEF Shape, Headed
    <3>2. CASE e \in G
      <4>1. PICK m \in C : e = f[m]
        BY <3>2
      <4>2. ch[m] \in C /\ pv[ch[m]] = NULL /\ Oc(ch1, rf, e) = f[ch[m]]
        BY <1>2, <1>5, <2>1, <4>1
      <4> QED
        BY <1>2, <4>2
    <3> QED
      BY <3>1, <3>2
  <2>2. ASSUME NEW e \in L1, NEW g \in L1, Oc(ch1, rf, e) # NULL, Oc(ch1, rf, e) = Oc(ch1, rf, g)
        PROVE  e = g
    <3>1. CASE e \in L /\ g \in L
      BY <1>2, <2>2, <3>1 DEF Shape, Headed
    <3>2. CASE e \in G /\ g \in G
      <4>1. PICK m \in C, n \in C : e = f[m] /\ g = f[n]
        BY <3>2
      <4>2. ch[m] \in C /\ ch[n] \in C /\ f[ch[m]] = f[ch[n]]
        BY <1>1, <1>2, <2>2, <4>1
      <4>3. m = n
        BY <1>1, <1>2, <4>2 DEF Shape, Headed
      <4> QED
        BY <4>1, <4>3
    <3>3. ASSUME NEW p \in L, NEW q \in G, Oc(ch1, rf, q) # NULL PROVE Oc(ch1, rf, p) # Oc(ch1, rf, q)
      <4>1. PICK m \in C : q = f[m]
        OBVIOUS
      <4>2. Oc(ch1, rf, q) \in G
        BY <1>2, <3>3, <4>1
      <4> QED
        BY <1>1, <1>2, <1>3, <4>2
    <3> QED
      BY <2>2, <3>1, <3>2, <3>3
  <2> QED
    BY <2>1, <2>2 DEF Headed
<1>9. Held(L1, R1, nx1, pv1, ch1, rf)
  <2>1. ASSUME NEW n \in R1 PROVE nx1[n] = NULL /\ pv1[n] = NULL /\ \A e \in L1 : Oc(ch1, rf, e) # n
    <3>1. \A e \in G : Oc(ch1, rf, e) \notin R1
      <4> SUFFICES ASSUME NEW m \in C PROVE ch1[f[m]] \notin R1
        BY <1>2
      <4>1. CASE ch[m] = NULL
        BY <1>1, <1>2, <4>1
      <4>2. CASE ch[m] # NULL
        <5>1. ch[m] \in C /\ ch[m] # item /\ ch1[f[m]] = f[ch[m]]
          BY <1>5, <4>2
        <5> QED
          BY <1>1, <1>2, <5>1
      <4> QED
        BY <4>1, <4>2
    <3>2. CASE n \in R
      BY <1>1, <1>2, <3>1, <3>2 DEF Shape, Held
    <3>3. CASE n = f[item]
      BY <1>1, <1>2, <1>3, <3>1, <3>3
    <3> QED
      BY <3>2, <3>3
  <2>2. ASSUME NEW n \in L1
        PROVE  n \in R1 \/ pv1[n] # NULL \/ \E e \in L1 : Oc(ch1, rf, e) = n
    <3>1. CASE n \in L
      BY <1>2, <3>1 DEF Shape, Held
    <3>2. CASE n \in G
      <4>1. PICK m \in C : n = f[m]
        BY <3>2
      <4>2. CASE m = item
        BY <4>1, <4>2
      <4>3. CASE m # item /\ pv[m] \in C
        BY <1>1, <1>2, <4>1, <4>3
      <4>4. ASSUME NEW e \in C, ch[e] = m PROVE \E g \in L1 : Oc(ch1, rf, g) = n
        BY <1>1, <1>2, <4>1, <4>4
      <4> QED
        BY <4>2, <4>3, <4>4
    <3> QED
      BY <3>1, <3>2
  <2> QED
    BY <2>1, <2>2 DEF Held
<1>10. Sourced(L1, pv1, ch1, rf)
  <2> SUFFICES ASSUME NEW S \in SUBSET L1, S # {}
               PROVE  \E n \in S : pv1[n] \notin S /\ \A e \in S : Oc(ch1, rf, e) # n
    BY DEF Sourced
  <2>1. \A m \in C : Oc(ch1, rf, f[m]) \in G \union {NULL} /\ pv1[f[m]] \in G \union {NULL}
    BY <1>2, <1>4
  <2>2. CASE S \intersect L # {}
    <3>1. PICK n \in S \intersect L : /\ pv[n] \notin S \intersect L
                                      /\ \A e \in S \intersect L : Oc(ch, rf, e) # n
      <4>1. S \intersect L \in SUBSET L
        OBVIOUS
      <4> QED
        BY <2>2, <4>1 DEF Shape, Sourced
    <3>2. \A e \in G : Oc(ch1, rf, e) # n
      BY <1>1, <2>1
    <3> QED
      BY <1>1, <1>2, <1>3, <3>1, <3>2
  <2>3. CASE S \intersect L = {}
    <3> DEFINE O == {m \in C : f[m] \in S}
    <3>1. O \in SUBSET L /\ O # {}
      BY <2>3
    <3>2. PICK m \in O : pv[m] \notin O /\ \A e \in O : Oc(ch, rf, e) # m
      BY <3>1 DEF Shape, Sourced
    <3>3. pv1[f[m]] \notin S
      <4>1. CASE m = item \/ pv[m] = NULL
        BY <1>1, <4>1
      <4>2. CASE m # item /\ pv[m] # NULL
        BY <1>4, <3>2, <4>2
      <4> QED
        BY <4>1, <4>2
    <3>4. ASSUME NEW e \in S PROVE Oc(ch1, rf, e) # f[m]
      <4>1. PICK o \in O : e = f[o]
        BY <2>3
      <4> QED
        BY <1>1, <1>2, <3>2, <4>1
    <3> QED
      BY <3>2, <3>3, <3>4
  <2> QED
    BY <2>2, <2>3
<1> QED
  BY <1>6, <1>7, <1>8, <1>9, <1>10 DEF Shape

-----------------------------------------------------------------------------
(* The walks of CJson on a heap of this shape.                             *)

ShapeNow == Shape(live, roots, next, prev, child, refs)

\* What the shape says, in the words of CJson.
LEMMA NowFacts ==
    ASSUME ShapeNow
    PROVE  /\ live \subseteq Node /\ roots \subseteq live /\ refs \subseteq live /\ NULL \notin live
           /\ \A n \in live : next[n] \in live \union {NULL} /\ OwnChild(n) \in live \union {NULL}
           /\ \A n \in live : next[n] # NULL => prev[next[n]] = n
           /\ \A n \in live : prev[n] # NULL => prev[n] \in live /\ next[prev[n]] = n
           /\ \A n \in live : OwnChild(n) # NULL => prev[OwnChild(n)] = NULL
           /\ \A a, b \in live : OwnChild(a) # NULL /\ OwnChild(a) = OwnChild(b) => a = b
           /\ \A n \in roots : next[n] = NULL /\ prev[n] = NULL /\ \A a \in live : OwnChild(a) # n
           /\ \A n \in live : n \in roots \/ prev[n] # NULL \/ \E a \in live : OwnChild(a) = n
           /\ \A S \in SUBSET live : S # {} =>
                 \E n \in S : prev[n] \notin S /\ \A e \in S : OwnChild(e) # n
<1>1. \A n : OwnChild(n) = Oc(child, refs, n)
  BY DEF OwnChild, Oc
<1>2. live \subseteq Node /\ roots \subseteq live /\ refs \subseteq live /\ NULL \notin live
  BY NullAssumption DEF ShapeNow, Shape, ShapeTypes
<1>3. /\ \A n \in live : next[n] \in live \union {NULL} /\ OwnChild(n) \in live \union {NULL}
      /\ \A n \in live : next[n] # NULL => prev[next[n]] = n
      /\ \A n \in live : prev[n] # NULL => prev[n] \in live /\ next[prev[n]] = n
  BY <1>1 DEF ShapeNow, Shape, Listed, Headed
<1>4. /\ \A n \in live : OwnChild(n) # NULL => prev[OwnChild(n)] = NULL
      /\ \A a, b \in live : OwnChild(a) # NULL /\ OwnChild(a) = OwnChild(b) => a = b
  BY <1>1 DEF ShapeNow, Shape, Headed
<1>5. /\ \A n \in roots : next[n] = NULL /\ prev[n] = NULL /\ \A a \in live : OwnChild(a) # n
      /\ \A n \in live : n \in roots \/ prev[n] # NULL \/ \E a \in live : OwnChild(a) = n
  BY <1>1 DEF ShapeNow, Shape, Held
<1>6. \A S \in SUBSET live : S # {} =>
         \E n \in S : prev[n] \notin S /\ \A e \in S : OwnChild(e) # n
  BY <1>1 DEF ShapeNow, Shape, Sourced
<1> QED
  BY <1>2, <1>3, <1>4, <1>5, <1>6

\* What is freed from h on: a closed set that all but h are led to within.
LEMMA DeletedFacts ==
    ASSUME ShapeNow, NEW h \in live
    PROVE  /\ h \in Deleted(h) /\ Deleted(h) \subseteq live
           /\ OwnClosed(Deleted(h))
           /\ \A d \in Deleted(h) : d = h \/ prev[d] \in Deleted(h)
                                    \/ \E e \in Deleted(h) : OwnChild(e) = d
           /\ prev[h] \notin Deleted(h) /\ \A e \in Deleted(h) : OwnChild(e) # h
<1> DEFINE D == Deleted(h)
<1>1. /\ \A d : d \in D <=> d \in Node /\ \A T \in SUBSET Node : h \in T /\ OwnClosed(T) => d \in T
  BY DEF Deleted
<1> HIDE DEF D
<1>2. h \in D
  BY <1>1, NowFacts
<1>3. D \subseteq live
  <2>1. OwnClosed(live)
    BY NowFacts DEF OwnClosed
  <2> QED
    BY <1>1, <2>1, NowFacts
<1>4. OwnClosed(D)
  <2> SUFFICES ASSUME NEW n \in D, NEW m \in {next[n], OwnChild(n)}, m # NULL PROVE m \in D
    BY DEF OwnClosed
  <2>1. m \in Node
    BY <1>3, NowFacts
  <2>2. ASSUME NEW T \in SUBSET Node, h \in T, OwnClosed(T) PROVE m \in T
    BY <1>1, <2>2 DEF OwnClosed
  <2> QED
    BY <1>1, <2>1, <2>2
<1>5. \A d \in D : d = h \/ prev[d] \in D \/ \E e \in D : OwnChild(e) = d
  <2> SUFFICES ASSUME NEW d \in D, d # h, prev[d] \notin D, \A e \in D : OwnChild(e) # d
               PROVE  FALSE
    OBVIOUS
  <2> DEFINE T == D \ {d}
  <2>1. ASSUME NEW n \in T PROVE next[n] \in T \union {NULL} /\ OwnChild(n) \in T \union {NULL}
    <3>1. next[n] \in D \union {NULL} /\ OwnChild(n) \in D \union {NULL}
      BY <1>4 DEF OwnClosed
    <3>2. next[n] # d
      BY <1>3, NowFacts
    <3> QED
      BY <3>1, <3>2
  <2>2. T \in SUBSET Node /\ h \in T /\ OwnClosed(T)
    BY <1>1, <1>2, <2>1 DEF OwnClosed
  <2>3. d \in T
    BY <1>1, <2>2
  <2> QED
    BY <2>3
<1>6. prev[h] \notin D /\ \A e \in D : OwnChild(e) # h
  <2>1. PICK n \in D : prev[n] \notin D /\ \A e \in D : OwnChild(e) # n
    BY <1>2, <1>3, NowFacts
  <2> QED
    BY <1>5, <2>1
<1> QED
  BY <1>2, <1>3, <1>4, <1>5, <1>6 DEF D

\* The same of a tree, which its top is not led back to.
LEMMA TreeFacts ==
    ASSUME ShapeNow, NEW c \in live
    PROVE  /\ c \in Tree(c) /\ Tree(c) \subseteq live
           /\ \A n \in Tree(c) : OwnChild(n) \in Tree(c) \union {NULL}
           /\ \A n \in Tree(c) : n # c => next[n] \in Tree(c) \union {NULL}
           /\ \A d \in Tree(c) : d = c \/ prev[d] \in Tree(c)
                                 \/ \E e \in Tree(c) : OwnChild(e) = d
           /\ prev[c] \notin Tree(c) /\ next[c] \notin Tree(c)
           /\ \A e \in Tree(c) : OwnChild(e) # c
<1> DEFINE h == OwnChild(c)
           D == Deleted(h)
<1>1. CASE h = NULL
  <2>1. Tree(c) = {c}
    BY <1>1 DEF Tree
  <2>2. NULL \notin live /\ prev[c] # c
    <3>1. {c} \in SUBSET live
      OBVIOUS
    <3> QED
      BY <3>1, NowFacts
  <2>3. next[c] # c
    BY <2>2, NowFacts
  <2> QED
    BY <1>1, <2>1, <2>2, <2>3
<1>2. CASE h # NULL
  <2>1. Tree(c) = {c} \union D
    BY <1>2 DEF Tree
  <2>2. h \in live
    BY <1>2, NowFacts
  <2> HIDE DEF D
  <2>3. /\ h \in D /\ D \subseteq live
        /\ OwnClosed(D)
        /\ \A d \in D : d = h \/ prev[d] \in D \/ \E e \in D : OwnChild(e) = d
        /\ prev[h] \notin D /\ \A e \in D : OwnChild(e) # h
    BY <2>2, DeletedFacts DEF D
  <2>4. c \notin D
    BY <2>3
  <2>5. prev[c] \notin D \union {c} /\ \A e \in D \union {c} : OwnChild(e) # c
    <3>1. D \union {c} \in SUBSET live
      BY <2>3
    <3>2. PICK n \in D \union {c} : /\ prev[n] \notin D \union {c}
                                    /\ \A e \in D \union {c} : OwnChild(e) # n
      BY <3>1, NowFacts
    <3>3. n = c
      BY <2>3, <3>2
    <3> QED
      BY <3>2, <3>3
  <2>6. next[c] \notin D \union {c}
    <3>1. ASSUME next[c] \in D PROVE FALSE
      <4>1. next[c] # NULL /\ next[c] \in live /\ prev[next[c]] = c
        BY <2>3, <3>1, NowFacts
      <4>2. c # NULL
        BY NowFacts
      <4>3. next[c] # h
        BY <1>2, <4>1, <4>2, NowFacts
      <4>4. PICK e \in D : OwnChild(e) = next[c]
        BY <2>3, <2>4, <3>1, <4>1, <4>3
      <4>5. e \in live
        BY <2>3
      <4> QED
        BY <4>1, <4>2, <4>4, <4>5, NowFacts
    <3>2. next[c] # c
      BY <2>5, NowFacts
    <3> QED
      BY <3>1, <3>2
  <2>7. /\ \A n \in D \union {c} : OwnChild(n) \in D \union {NULL}
        /\ \A n \in D \union {c} : n # c => next[n] \in D \union {NULL}
    BY <2>3 DEF OwnClosed
  <2>8. \A d \in D : prev[d] \in D \/ \E e \in D \union {c} : OwnChild(e) = d
    BY <2>3
  <2> QED
    BY <2>1, <2>3, <2>5, <2>6, <2>7, <2>8
<1> QED
  BY <1>1, <1>2

\* An item of a is in no other place than the list of a.
LEMMA ItemFacts ==
    ASSUME ShapeNow, NEW a \in live \ refs, NEW c \in Items(a)
    PROVE  /\ c \in live /\ c \notin roots
           /\ prev[c] = NULL => child[a] = c
           /\ prev[c] # NULL => prev[c] \in Items(a)
           /\ child[a] # NULL /\ child[a] \in live /\ child[a] = OwnChild(a)
<1> DEFINE h == child[a]
           D == Chain(h)
<1>1. h # NULL /\ Items(a) = D
  BY DEF Items
<1>2. h = OwnChild(a) /\ h \in live
  BY <1>1, NowFacts DEF OwnChild
<1>3. \A d : d \in D <=> d \in Node /\ \A T \in SUBSET Node : h \in T /\ NextClosed(T) => d \in T
  BY DEF Chain
<1> HIDE DEF D
<1>4. D \subseteq live
  <2>1. NextClosed(live)
    BY NowFacts DEF NextClosed
  <2> QED
    BY <1>2, <1>3, <2>1, NowFacts
<1>5. h \in D
  BY <1>2, <1>3, NowFacts
<1>6. c = h \/ prev[c] \in D
  <2> SUFFICES ASSUME c # h, prev[c] \notin D PROVE FALSE
    OBVIOUS
  <2> DEFINE T == D \ {c}
  <2>1. ASSUME NEW n \in T PROVE next[n] \in T \union {NULL}
    <3>1. next[n] \in D \union {NULL}
      <4> SUFFICES ASSUME next[n] # NULL PROVE next[n] \in D
        OBVIOUS
      <4>1. next[n] \in Node
        BY <1>4, NowFacts
      <4>2. ASSUME NEW U \in SUBSET Node, h \in U, NextClosed(U) PROVE next[n] \in U
        BY <1>3, <4>2 DEF NextClosed
      <4> QED
        BY <1>3, <4>1, <4>2
    <3>2. next[n] # c
      BY <1>1, <1>4, NowFacts
    <3> QED
      BY <3>1, <3>2
  <2>2. T \in SUBSET Node /\ h \in T /\ NextClosed(T)
    BY <1>3, <1>5, <2>1 DEF NextClosed
  <2>3. c \in T
    BY <1>1, <1>3, <2>2
  <2> QED
    BY <2>3
<1>7. prev[h] = NULL
  BY <1>1, <1>2, NowFacts
<1>8. c \in live
  BY <1>1, <1>4
<1>9. prev[c] = NULL => c = h
  BY <1>4, <1>6, NowFacts
<1>10. c \notin roots
  BY <1>2, <1>9, NowFacts
<1> QED
  BY <1>1, <1>2, <1>6, <1>7, <1>8, <1>9, <1>10

\* An item of a is where DetachShape and InsertShape want it.
LEMMA ItemPlaced ==
    ASSUME ShapeNow, NEW a \in live \ refs, NEW c \in Items(a)
    PROVE  ItemOf(a, c, live, prev, child, refs)
  BY ItemFacts DEF ItemOf

\* The container of c is not below c.
LEMMA OwnerAbove ==
    ASSUME ShapeNow, NEW a \in live \ refs, NEW c \in Items(a)
    PROVE  a \notin Tree(c)
<1> SUFFICES ASSUME a \in Tree(c) PROVE FALSE
  OBVIOUS
<1> DEFINE S == Tree(c) \union Items(a)
<1>1. c \in live
  BY ItemFacts
<1>2. S \in SUBSET live /\ S # {}
  BY <1>1, TreeFacts, ItemFacts
<1>3. PICK n \in S : prev[n] \notin S /\ \A e \in S : OwnChild(e) # n
  BY <1>2, NowFacts
<1>4. n \in Items(a)
  BY <1>1, <1>3, TreeFacts
<1>5. prev[n] = NULL
  BY <1>3, <1>4, ItemFacts
<1>6. OwnChild(a) = n
  BY <1>4, <1>5, ItemFacts
<1> QED
  BY <1>3, <1>6

\* The items of a container that is not below the root x are not either.
LEMMA ItemsApart ==
    ASSUME ShapeNow, NEW a \in live \ refs, NEW x \in roots, a \notin Tree(x)
    PROVE  Items(a) \intersect Tree(x) = {}
<1> SUFFICES ASSUME Items(a) \intersect Tree(x) # {} PROVE FALSE
  OBVIOUS
<1> DEFINE S == Items(a) \intersect Tree(x)
<1>1. x \in live
  BY NowFacts
<1>2. S \in SUBSET live
  BY <1>1, TreeFacts
<1>3. PICK n \in S : prev[n] \notin S /\ \A e \in S : OwnChild(e) # n
  BY <1>2, NowFacts
<1>4. n \in live /\ n \notin roots /\ n # x
  BY <1>2, ItemFacts
<1>5. CASE prev[n] # NULL
  <2>1. prev[n] \in Items(a) /\ prev[n] \notin Tree(x)
    BY <1>3, <1>5, ItemFacts
  <2>2. PICK e \in Tree(x) : OwnChild(e) = n
    BY <1>1, <1>4, <2>1, TreeFacts
  <2>3. e \in live /\ n # NULL
    BY <1>1, <1>4, TreeFacts, NowFacts
  <2> QED
    BY <1>5, <2>2, <2>3, NowFacts
<1>6. CASE prev[n] = NULL
  <2>1. OwnChild(a) = n /\ n # NULL
    BY <1>4, <1>6, ItemFacts, NowFacts
  <2>2. prev[n] \notin Tree(x)
    BY <1>1, <1>6, TreeFacts, NowFacts
  <2>3. PICK e \in Tree(x) : OwnChild(e) = n
    BY <1>1, <1>4, <2>2, TreeFacts
  <2>4. e = a
    BY <1>1, <2>1, <2>3, TreeFacts, NowFacts
  <2> QED
    BY <2>4
<1> QED
  BY <1>5, <1>6

\* The tree of what the program holds has all that is below it.
LEMMA RootBelow ==
    ASSUME ShapeNow, NEW x \in roots
    PROVE  Below(Tree(x), x, live, next, child, refs)
<1>1. x \in live /\ next[x] = NULL
  BY NowFacts
<1>2. \A n : OwnChild(n) = Oc(child, refs, n)
  BY DEF OwnChild, Oc
<1> QED
  BY <1>1, <1>2, TreeFacts DEF Below

-----------------------------------------------------------------------------
(* The invariant: the shape, and where strings and references point.       *)

Shares ==
    /\ valuestring \in [Node -> Pointers]
    /\ \A n \in Node \ live : valuestring[n] = NULL
    /\ \A n \in live \ refs : valuestring[n] \in {NULL, n}
    /\ \A r \in refs : {child[r], valuestring[r]} \subseteq live \union {NULL}

StructInv ==
    /\ ShapeNow
    /\ Shares
    /\ containers \subseteq live /\ consts \subseteq live

ShapeNext == Shape(live', roots', next', prev', child', refs')

\* An empty heap.
LEMMA StructInvInit == Init => StructInv
<1> SUFFICES ASSUME Init PROVE StructInv
  OBVIOUS
<1> USE NullAssumption DEF Init
<1>1. ShapeTypes(live, roots, next, prev, child, refs)
  BY DEF ShapeTypes, Pointers
<1>2. /\ Listed(live, next, prev) /\ Headed(live, prev, child, refs)
      /\ Held(live, roots, next, prev, child, refs) /\ Sourced(live, prev, child, refs)
  BY DEF Listed, Headed, Held, Sourced
<1>3. Shares
  BY DEF Shares, Pointers
<1> QED
  BY <1>1, <1>2, <1>3 DEF StructInv, ShapeNow, Shape

\* The pointers stay pointers, whatever a step of this shape does.
LEMMA TypesNow ==
    ASSUME StructInv
    PROVE  /\ live \subseteq Node /\ roots \subseteq live /\ refs \subseteq live
           /\ next \in [Node -> Pointers] /\ prev \in [Node -> Pointers]
           /\ child \in [Node -> Pointers]
           /\ \A n \in Node \ live : next[n] = NULL /\ prev[n] = NULL /\ child[n] = NULL
           /\ \A n \in live : {child[n], valuestring[n]} \subseteq live \union {NULL}
<1>1. /\ live \subseteq Node /\ roots \subseteq live /\ refs \subseteq live
      /\ next \in [Node -> Pointers] /\ prev \in [Node -> Pointers]
      /\ child \in [Node -> Pointers]
      /\ \A n \in Node \ live : next[n] = NULL /\ prev[n] = NULL /\ child[n] = NULL
  BY DEF StructInv, ShapeNow, Shape, ShapeTypes
<1>2. \A n \in live \ refs : child[n] \in live \union {NULL}
  BY NowFacts DEF StructInv, OwnChild
<1> QED
  BY <1>1, <1>2 DEF StructInv, Shares

\* cJSON_CreateNumber, CreateString, CreateArray and their like.
LEMMA CreateStep ==
    ASSUME StructInv, NEW n \in Node, NEW kind \in Kinds, Create(n, kind)
    PROVE  StructInv'
<1>1. /\ n \in Node \ live /\ live' = live \union {n} /\ roots' = roots \union {n}
      /\ next' = next /\ prev' = prev /\ child' = child /\ refs' = refs
      /\ valuestring' = [valuestring EXCEPT ![n] = IF kind = "string" THEN n ELSE NULL]
      /\ containers' \subseteq containers \union {n} /\ consts' = consts
  BY DEF Create, links
<1>2. ShapeNext
  <2>1. Shape(live \union {n}, roots \union {n}, next, prev, [child EXCEPT ![n] = NULL], refs)
    BY <1>1, GrowShape DEF StructInv, ShapeNow, Pointers
  <2>2. [child EXCEPT ![n] = NULL] = child
    BY <1>1, TypesNow
  <2> QED
    BY <1>1, <2>1, <2>2 DEF ShapeNext
<1>3. Shares'
  BY <1>1, TypesNow, NullAssumption DEF StructInv, Shares, Pointers
<1> QED
  BY <1>1, <1>2, <1>3 DEF StructInv, ShapeNow, ShapeNext

\* cJSON_CreateIntArray, CreateStringArray and their like.
LEMMA CreateArrayStep ==
    ASSUME StructInv, NEW a \in Node, NEW k \in 0..MaxCount, NEW kind \in Kinds \ {"container"},
           NEW s \in [1..k -> Node], CreateArrayOf(a, s, kind)
    PROVE  StructInv'
<1> DEFINE M == {s[i] : i \in 1..k}
<1>0. k \in Nat
  BY MaxCountAssumption
<1>1. DOMAIN s = 1..k /\ Len(s) = k /\ (s = <<>> <=> k = 0)
  <2>1. s \in Seq(Node)
    BY <1>0, SeqDef
  <2>2. DOMAIN s = 1..Len(s) /\ Len(s) \in Nat
    BY <2>1, LenProperties
  <2>3. Len(s) = k
    BY <1>0, <2>2
  <2>4. s = <<>> <=> k = 0
    BY <2>1, <2>3, EmptySeq
  <2> QED
    BY <2>2, <2>3, <2>4
<1>2. /\ a \in Node \ live /\ M \intersect (live \union {a}) = {} /\ M \subseteq Node
      /\ \A i, j \in 1..k : s[i] = s[j] => i = j
      /\ live' = live \union {a} \union M /\ roots' = roots \union {a}
      /\ child' = [child EXCEPT ![a] = IF k = 0 THEN NULL ELSE s[1]] /\ refs' = refs
      /\ valuestring' = [n \in Node |-> IF kind = "string" /\ n \in M THEN n ELSE valuestring[n]]
      /\ containers' = containers \union {a} /\ consts' = consts
  <2>1. /\ a \notin live /\ M \intersect (live \union {a}) = {}
        /\ \A i, j \in 1..k : s[i] = s[j] => i = j
    BY <1>1 DEF CreateArrayOf
  <2>2. /\ live' = live \union {a} \union M /\ roots' = roots \union {a}
        /\ refs' = refs /\ containers' = containers \union {a} /\ consts' = consts
    BY <1>1 DEF CreateArrayOf
  <2>3. child' = [child EXCEPT ![a] = IF k = 0 THEN NULL ELSE s[1]]
    BY <1>1 DEF CreateArrayOf
  <2>4. valuestring' = [n \in Node |-> IF kind = "string" /\ n \in M THEN n ELSE valuestring[n]]
    BY <1>1 DEF CreateArrayOf
  <2> QED
    BY <2>1, <2>2, <2>3, <2>4
<1>3. /\ next' = [n \in Node |-> IF \E i \in 1..k : s[i] = n /\ i < k
                                 THEN s[1 + CHOOSE i \in 1..k : s[i] = n] ELSE next[n]]
      /\ prev' = [n \in Node |-> IF \E i \in 1..k : s[i] = n /\ i > 1
                                 THEN s[(CHOOSE i \in 1..k : s[i] = n) - 1] ELSE prev[n]]
  BY <1>1 DEF CreateArrayOf
<1>4. \A i \in 1..k : (CHOOSE j \in 1..k : s[j] = s[i]) = i
  BY <1>2
<1>5. \A i \in 1..k : /\ next'[s[i]] = IF i < k THEN s[i + 1] ELSE NULL
                      /\ prev'[s[i]] = IF i > 1 THEN s[i - 1] ELSE NULL
  <2> SUFFICES ASSUME NEW i \in 1..k
               PROVE  /\ next'[s[i]] = IF i < k THEN s[i + 1] ELSE NULL
                      /\ prev'[s[i]] = IF i > 1 THEN s[i - 1] ELSE NULL
    OBVIOUS
  <2>1. s[i] \in Node \ live /\ next[s[i]] = NULL /\ prev[s[i]] = NULL
    BY <1>2, TypesNow
  <2>2. \A j \in 1..k : s[j] = s[i] => j = i
    BY <1>2
  <2>3. i < k => next'[s[i]] = s[i + 1]
    <3> SUFFICES ASSUME i < k PROVE next'[s[i]] = s[i + 1]
      OBVIOUS
    <3>1. next'[s[i]] = s[1 + CHOOSE j \in 1..k : s[j] = s[i]]
      BY <1>3, <2>1
    <3>2. 1 + i = i + 1
      OBVIOUS
    <3> QED
      BY <1>4, <3>1, <3>2
  <2>4. ~(i < k) => next'[s[i]] = NULL
    BY <1>3, <2>1, <2>2
  <2>5. i > 1 => prev'[s[i]] = s[i - 1]
    BY <1>3, <1>4, <2>1
  <2>6. ~(i > 1) => prev'[s[i]] = NULL
    BY <1>3, <2>1, <2>2
  <2> QED
    BY <2>3, <2>4, <2>5, <2>6
<1>6. \A n \in Node \ M : next'[n] = next[n] /\ prev'[n] = prev[n]
  BY <1>3
<1>7. next' \in [Node -> Pointers] /\ prev' \in [Node -> Pointers]
  <2>1. \A n \in Node : next'[n] \in Pointers /\ prev'[n] \in Pointers
    <3> SUFFICES ASSUME NEW n \in Node PROVE next'[n] \in Pointers /\ prev'[n] \in Pointers
      OBVIOUS
    <3>1. CASE n \in M
      <4>1. PICK i \in 1..k : n = s[i]
        BY <3>1
      <4> QED
        BY <1>0, <1>5, <4>1 DEF Pointers
    <3>2. CASE n \notin M
      BY <1>6, <3>2, TypesNow
    <3> QED
      BY <3>1, <3>2
  <2> QED
    BY <1>3, <2>1
<1>8. ShapeNext
  <2>1. Shape(live, roots, next, prev, child, refs)
    BY DEF StructInv, ShapeNow
  <2>2. ArrayLinks(M, a, k, s, live, next, prev, next', prev')
    BY <1>0, <1>2, <1>5, <1>6, <1>7 DEF ArrayLinks
  <2> HIDE DEF M
  <2>3. Shape(live \union {a} \union M, roots \union {a}, next', prev',
              [child EXCEPT ![a] = IF k = 0 THEN NULL ELSE s[1]], refs)
    BY <2>1, <2>2, ArrayShape
  <2> QED
    BY <1>2, <2>3 DEF ShapeNext, M
<1>9. Shares'
  <2> HIDE DEF M
  <2>1. \A r \in refs : child'[r] = child[r] /\ valuestring'[r] = valuestring[r]
    BY <1>2, TypesNow
  <2> QED
    BY <1>2, <2>1, TypesNow, NullAssumption DEF StructInv, Shares, Pointers
<1> QED
  BY <1>2, <1>8, <1>9 DEF StructInv, ShapeNow, ShapeNext

\* What a call that makes and frees no item and copies no string keeps.
LEMMA SharesKept ==
    ASSUME StructInv, live' = live, refs' = refs, valuestring' = valuestring,
           \A r \in refs : child'[r] = child[r]
    PROVE  Shares'
  BY DEF StructInv, Shares

\* x goes to the end of the list of a.
LEMMA AppendShape ==
    ASSUME NEW L, NEW R, NEW ch, NEW rf, NEW a, NEW x \in R, NEW T,
           ShapeNow, a \in live \ refs, Shape(L, R, next, prev, ch, rf),
           live \subseteq L, roots \subseteq R, R \intersect live \subseteq roots, a \notin rf, ch[a] = child[a],
           Below(T, x, L, next, ch, rf), a \notin T, Items(a) \intersect T = {}
    PROVE  /\ child[a] = NULL => Shape(L, R \ {x}, next, prev, [ch EXCEPT ![a] = x], rf)
           /\ child[a] # NULL => \A c \in Items(a) : next[c] = NULL =>
                 Shape(L, R \ {x}, [next EXCEPT ![c] = x], [prev EXCEPT ![x] = c], ch, rf)
<1>1. CASE child[a] = NULL
  BY <1>1, FirstShape
<1>2. ASSUME NEW c \in Items(a), next[c] = NULL
      PROVE  Shape(L, R \ {x}, [next EXCEPT ![c] = x], [prev EXCEPT ![x] = c], ch, rf)
  <2>1. c \in L \ R /\ c \notin T
    BY ItemFacts
  <2> QED
    BY <1>2, <2>1, LastShape
<1> QED
  BY <1>1, <1>2

\* The edit that cJSON_AddItemToArray, ToObject and ToObjectCS share.
LEMMA AddStep ==
    ASSUME StructInv, NEW a \in containers, NEW x \in Node, Editable(a), Loose(a, x),
           AppendItem(a, x), roots' = roots \ {x}, live' = live, valuestring' = valuestring,
           containers' = containers, refs' = refs, consts' \subseteq consts \union {x}
    PROVE  StructInv'
<1>1. a \in live \ refs /\ x \in roots /\ a \notin Tree(x)
  BY DEF StructInv, Editable, Loose
<1>2. ShapeNow /\ Shape(live, roots, next, prev, child, refs)
  BY DEF StructInv, ShapeNow
<1>3. Below(Tree(x), x, live, next, child, refs) /\ Items(a) \intersect Tree(x) = {}
  BY <1>1, <1>2, RootBelow, ItemsApart
<1>4. /\ child[a] = NULL => Shape(live, roots \ {x}, next, prev, [child EXCEPT ![a] = x], refs)
      /\ child[a] # NULL => \A c \in Items(a) : next[c] = NULL =>
            Shape(live, roots \ {x}, [next EXCEPT ![c] = x], [prev EXCEPT ![x] = c], child, refs)
  BY <1>1, <1>2, <1>3, AppendShape
<1>5. ShapeNext
  BY <1>4 DEF AppendItem, suffix_object, ShapeNext
<1>6. Shares'
  <2>1. \A r \in refs : child'[r] = child[r]
    BY <1>1, TypesNow DEF AppendItem
  <2> QED
    BY <2>1, SharesKept
<1> QED
  BY <1>1, <1>2, <1>5, <1>6, NowFacts DEF StructInv, ShapeNow, ShapeNext

\* AddItemReferenceToArray and ToObject: the reference is made, then added.
LEMMA ReferenceStep ==
    ASSUME StructInv, NEW a \in containers, NEW r \in Node, NEW item \in live, Editable(a),
           Reference(r, item), AppendReference(a, r, item), roots' = roots
    PROVE  StructInv'
<1> DEFINE v == child[item]
           ch == [child EXCEPT ![r] = v]
           L == live \union {r}
           R == roots \union {r}
           rf == refs \union {r}
<1>1. /\ a \in live \ refs /\ r \in Node \ live /\ v \in Pointers /\ a # r
      /\ valuestring[item] \in live \union {NULL} /\ v \in live \union {NULL}
  BY TypesNow DEF StructInv, Editable, Reference, Pointers
<1>2. ShapeNow
  BY DEF StructInv
<1>3. Shape(L, R, next, prev, ch, rf)
  BY <1>1, <1>2, GrowShape DEF ShapeNow
<1>4. Below({r}, r, L, next, ch, rf)
  BY <1>1, TypesNow DEF Below, Oc
<1>5. live \subseteq L /\ roots \subseteq R /\ R \intersect live \subseteq roots /\ a \notin rf
  BY <1>1
<1>6. ch[a] = child[a] /\ a \notin {r} /\ Items(a) \intersect {r} = {}
  BY <1>1, <1>2, ItemFacts, TypesNow
<1>7. R \ {r} = roots
  BY <1>1, TypesNow
<1>8. /\ child[a] = NULL => Shape(L, roots, next, prev, [ch EXCEPT ![a] = r], rf)
      /\ child[a] # NULL => \A c \in Items(a) : next[c] = NULL =>
            Shape(L, roots, [next EXCEPT ![c] = r], [prev EXCEPT ![r] = c], ch, rf)
  <2> HIDE DEF L, R, rf, ch
  <2>1. r \in R
    BY DEF R
  <2> QED
    BY <1>1, <1>2, <1>3, <1>4, <1>5, <1>6, <1>7, <2>1, AppendShape
<1>9. /\ live' = L /\ refs' = rf /\ valuestring' = [valuestring EXCEPT ![r] = valuestring[item]]
      /\ containers' \subseteq containers \union {r} /\ consts' \subseteq consts \union {r}
  BY DEF Reference
<1>10. ShapeNext /\ \A e \in rf : child'[e] = ch[e]
  <2>1. CASE child[a] = NULL /\ child' = [child EXCEPT ![a] = r, ![r] = child[item]]
             /\ UNCHANGED <<next, prev>>
    <3>1. child' = [ch EXCEPT ![a] = r]
      BY <1>1, <2>1, TypesNow
    <3>2. \A e \in rf : child'[e] = ch[e]
      BY <1>1, <3>1, TypesNow
    <3> QED
      BY <1>8, <1>9, <2>1, <3>1, <3>2 DEF ShapeNext
  <2>2. CASE child[a] # NULL /\ child' = ch /\ \E c \in Items(a) : next[c] = NULL /\ suffix_object(c, r)
    BY <1>8, <1>9, <2>2 DEF ShapeNext, suffix_object
  <2> QED
    BY <2>1, <2>2 DEF AppendReference
<1>11. Shares'
  <2>1. \A e \in refs : child'[e] = child[e] /\ valuestring'[e] = valuestring[e]
    BY <1>1, <1>9, <1>10, TypesNow DEF StructInv, Shares
  <2>2. child'[r] = v /\ valuestring'[r] = valuestring[item]
    BY <1>1, <1>9, <1>10, TypesNow DEF StructInv, Shares
  <2>3. \A n \in Node : n # r => valuestring'[n] = valuestring[n]
    BY <1>9 DEF StructInv, Shares
  <2>4. valuestring' \in [Node -> Pointers]
    BY <1>1, <1>9, TypesNow DEF StructInv, Shares, Pointers
  <2> QED
    BY <1>1, <1>9, <2>1, <2>2, <2>3, <2>4 DEF StructInv, Shares
<1> QED
  BY <1>9, <1>10, <1>11 DEF StructInv, ShapeNow, ShapeNext

\* cJSON_DetachItemFromArray and FromObject.
LEMMA DetachStep ==
    ASSUME StructInv, NEW a \in containers, NEW c \in Items(a), DetachItem(a, c)
    PROVE  StructInv'
<1>1. a \in live \ refs /\ ShapeNow /\ Shape(live, roots, next, prev, child, refs)
  BY DEF StructInv, DetachItem, Editable, ShapeNow
<1>2. ItemOf(a, c, live, prev, child, refs)
  BY <1>1, ItemPlaced
<1>3. /\ next' = NextLeft(next, prev, c) /\ prev' = PrevLeft(next, prev, c)
      /\ child' = ChildLeft(next, child, a, c) /\ roots' = roots \union {c}
      /\ live' = live /\ valuestring' = valuestring
      /\ containers' = containers /\ refs' = refs /\ consts' = consts
  BY DEF DetachItem, flags, NextWithout, PrevWithout, ChildWithout, NextLeft, PrevLeft, ChildLeft
<1>4. ShapeNext
  BY <1>1, <1>2, <1>3, DetachShape DEF ShapeNext
<1>5. Shares'
  <2>1. \A r \in refs : child'[r] = child[r]
    BY <1>1, <1>3, TypesNow DEF ChildLeft
  <2> QED
    BY <1>3, <2>1, SharesKept
<1> QED
  BY <1>3, <1>4, <1>5 DEF StructInv, ShapeNow, ShapeNext

\* Freeing what no reference that stays shows.
LEMMA SharesFreed ==
    ASSUME StructInv, NEW D, Unpinned(D), live' = live \ D, refs' = refs \ D,
           valuestring' = Cleared(valuestring, D),
           \A r \in refs \ D : child'[r] = child[r]
    PROVE  Shares'
<1>1. \A n \in Node : valuestring'[n] = IF n \in D THEN NULL ELSE valuestring[n]
  BY DEF Cleared
<1>2. valuestring' \in [Node -> Pointers]
  BY DEF StructInv, Shares, Cleared, Pointers
<1>3. \A n \in live' \ refs' : valuestring'[n] \in {NULL, n}
  BY <1>1, TypesNow DEF StructInv, Shares
<1>4. \A r \in refs' : {child'[r], valuestring'[r]} \subseteq live' \union {NULL}
  BY <1>1, TypesNow DEF StructInv, Shares, Unpinned
<1>5. \A n \in Node \ live' : valuestring'[n] = NULL
  BY <1>1 DEF StructInv, Shares
<1> QED
  BY <1>2, <1>3, <1>4, <1>5 DEF Shares

\* cJSON_Delete of what the program holds.
LEMMA DeleteStep ==
    ASSUME StructInv, NEW c \in roots, Delete(c)
    PROVE  StructInv'
<1> DEFINE D == Deleted(c)
<1>1. c \in live /\ ShapeNow /\ Shape(live, roots, next, prev, child, refs)
  BY TypesNow DEF StructInv, ShapeNow
<1>2. /\ Unpinned(D) /\ live' = live \ D /\ roots' = roots \ {c} /\ refs' = refs \ D
      /\ next' = Cleared(next, D) /\ prev' = Cleared(prev, D) /\ child' = Cleared(child, D)
      /\ valuestring' = Cleared(valuestring, D)
      /\ containers' = containers \ D /\ consts' = consts \ D
  BY DEF Delete, Free
<1>3. Region(D, c, live, next, prev, child, refs)
  <2>1. \A n : OwnChild(n) = Oc(child, refs, n)
    BY DEF OwnChild, Oc
  <2>2. \A n \in D : next[n] \in D \union {NULL} /\ OwnChild(n) \in D \union {NULL}
    <3>1. OwnClosed(D)
      BY <1>1, DeletedFacts
    <3> QED
      BY <3>1 DEF OwnClosed
  <2> QED
    BY <1>1, <2>1, <2>2, DeletedFacts DEF Region
<1> HIDE DEF D
<1>4. ShapeNext
  BY <1>1, <1>2, <1>3, FreeShape DEF ShapeNext
<1>5. Shares'
  <2>1. \A r \in refs \ D : child'[r] = child[r]
    BY <1>2, TypesNow DEF Cleared
  <2> QED
    BY <1>2, <2>1, SharesFreed
<1> QED
  BY <1>2, <1>4, <1>5 DEF StructInv, ShapeNow, ShapeNext

\* The tree of c, once c is out of its list, is a region to free.
LEMMA CutRegion ==
    ASSUME ShapeNow, NEW c \in live, NEW nx, NEW pv, NEW ch, nx[c] = NULL,
           \A n \in Tree(c) : n # c => nx[n] = next[n] /\ pv[n] = prev[n],
           \A n \in Tree(c) : ch[n] = child[n]
    PROVE  Region(Tree(c), c, live, nx, pv, ch, refs)
<1>1. \A n \in Tree(c) : Oc(ch, refs, n) = OwnChild(n)
  BY DEF OwnChild, Oc
<1> QED
  BY <1>1, TreeFacts DEF Region

\* The item c of a, taken out of its list, is a region of the program's.
LEMMA CutParts ==
    ASSUME StructInv, NEW a \in containers, NEW c \in Items(a), Editable(a)
    PROVE  /\ ShapeNow /\ a \in live \ refs /\ c \in live /\ c \notin roots /\ a \notin Tree(c)
           /\ Shape(live, roots \union {c}, NextLeft(next, prev, c), PrevLeft(next, prev, c),
                    ChildLeft(next, child, a, c), refs)
           /\ Region(Tree(c), c, live, NextLeft(next, prev, c), PrevLeft(next, prev, c),
                     ChildLeft(next, child, a, c), refs)
<1> DEFINE D == Tree(c)
           nx == NextLeft(next, prev, c)
           pv == PrevLeft(next, prev, c)
           ch == ChildLeft(next, child, a, c)
<1>1. a \in live \ refs /\ ShapeNow /\ Shape(live, roots, next, prev, child, refs)
  BY DEF StructInv, Editable, ShapeNow
<1>2. c \in live /\ c \notin roots /\ a \notin D /\ ItemOf(a, c, live, prev, child, refs)
  BY <1>1, ItemFacts, ItemPlaced, OwnerAbove
<1>3. Shape(live, roots \union {c}, nx, pv, ch, refs)
  BY <1>1, <1>2, DetachShape
<1>4. \A n \in D : n \in Node /\ n # prev[c] /\ n # next[c]
  BY <1>1, <1>2, TreeFacts, NowFacts
<1>5. nx[c] = NULL /\ \A n \in D : n # c => nx[n] = next[n] /\ pv[n] = prev[n]
  BY <1>1, <1>2, <1>4, TypesNow DEF NextLeft, PrevLeft
<1>6. \A n \in D : ch[n] = child[n]
  BY <1>2, <1>4, TypesNow DEF ChildLeft
<1> HIDE DEF nx, pv, ch
<1>7. Region(D, c, live, nx, pv, ch, refs)
  BY <1>1, <1>2, <1>5, <1>6, CutRegion
<1> QED
  BY <1>1, <1>2, <1>3, <1>7 DEF nx, pv, ch

\* cJSON_DeleteItemFromArray and FromObject: detached, then freed.
LEMMA DeleteItemStep ==
    ASSUME StructInv, NEW a \in containers, NEW c \in Items(a), DeleteItem(a, c)
    PROVE  StructInv'
<1> DEFINE D == Tree(c)
           nx == NextLeft(next, prev, c)
           pv == PrevLeft(next, prev, c)
           ch == ChildLeft(next, child, a, c)
<1>1. /\ Unpinned(D) /\ live' = live \ D /\ roots' = roots /\ refs' = refs \ D
      /\ next' = Cleared(nx, D) /\ prev' = Cleared(pv, D) /\ child' = Cleared(ch, D)
      /\ valuestring' = Cleared(valuestring, D)
      /\ containers' = containers \ D /\ consts' = consts \ D
      /\ Editable(a)
  BY DEF DeleteItem, Free, NextWithout, PrevWithout, ChildWithout, NextLeft, PrevLeft, ChildLeft
<1>2. /\ a \in live \ refs /\ c \notin roots
      /\ Shape(live, roots \union {c}, nx, pv, ch, refs)
      /\ Region(D, c, live, nx, pv, ch, refs)
  BY <1>1, CutParts
<1>3. (roots \union {c}) \ {c} = roots
  BY <1>2
<1>4. \A r \in refs : ch[r] = child[r]
  BY <1>2, TypesNow DEF ChildLeft
<1> HIDE DEF D, nx, pv, ch
<1>5. ShapeNext
  <2>1. c \in roots \union {c}
    OBVIOUS
  <2>2. Shape(live \ D, (roots \union {c}) \ {c}, Cleared(nx, D), Cleared(pv, D), Cleared(ch, D),
              refs \ D)
    BY <1>2, <2>1, FreeShape
  <2> QED
    BY <1>1, <1>3, <2>2 DEF ShapeNext
<1>6. Shares'
  <2>1. \A r \in refs \ D : child'[r] = child[r]
    BY <1>1, <1>4, TypesNow DEF Cleared
  <2> QED
    BY <1>1, <2>1, SharesFreed
<1> QED
  BY <1>1, <1>5, <1>6 DEF StructInv, ShapeNow, ShapeNext

\* What InsertItemInArray and the Replace calls know of their arguments.
LEMMA PutFacts ==
    ASSUME StructInv, NEW a \in containers, NEW c \in Items(a), NEW x, Editable(a), Loose(a, x)
    PROVE  /\ ShapeNow /\ Shape(live, roots, next, prev, child, refs)
           /\ a \in live \ refs /\ c \in live /\ c \notin roots /\ x \in roots /\ x \in live
           /\ a \notin Tree(x) /\ c \notin Tree(x) /\ a \notin Tree(c) /\ x \notin Tree(c)
           /\ ItemOf(a, c, live, prev, child, refs)
           /\ Below(Tree(x), x, live, next, child, refs)
           /\ Shape(live, roots \ {x}, NextPut(next, prev, child, a, c, x), PrevPut(prev, c, x),
                    ChildPut(child, a, c, x), refs)
<1>1. /\ ShapeNow /\ Shape(live, roots, next, prev, child, refs)
      /\ a \in live \ refs /\ x \in roots /\ x \in live /\ a \notin Tree(x)
  BY TypesNow DEF StructInv, ShapeNow, Editable, Loose
<1>2. c \in live /\ c \notin roots /\ c \notin Tree(x) /\ a \notin Tree(c)
  BY <1>1, ItemFacts, ItemsApart, OwnerAbove
<1>3. /\ ItemOf(a, c, live, prev, child, refs)
      /\ Below(Tree(x), x, live, next, child, refs)
  BY <1>1, ItemPlaced, RootBelow
<1>4. x \notin Tree(c)
  <2> SUFFICES ASSUME x \in Tree(c) PROVE FALSE
    OBVIOUS
  <2>1. prev[x] \notin Tree(c) /\ \A e \in Tree(c) : OwnChild(e) # x
    BY <1>1, <1>2, NowFacts, TreeFacts
  <2> QED
    BY <1>1, <1>2, <2>1, TreeFacts
<1>5. Shape(live, roots \ {x}, NextPut(next, prev, child, a, c, x), PrevPut(prev, c, x),
            ChildPut(child, a, c, x), refs)
  BY <1>1, <1>2, <1>3, InsertShape
<1> QED
  BY <1>1, <1>2, <1>3, <1>4, <1>5

\* cJSON_InsertItemInArray.
LEMMA InsertStep ==
    ASSUME StructInv, NEW a \in containers, NEW c \in Items(a), NEW x \in roots,
           InsertItemInArray(a, c, x)
    PROVE  StructInv'
<1>1. /\ next' = NextPut(next, prev, child, a, c, x) /\ prev' = PrevPut(prev, c, x)
      /\ child' = ChildPut(child, a, c, x) /\ roots' = roots \ {x}
      /\ live' = live /\ valuestring' = valuestring
      /\ containers' = containers /\ refs' = refs /\ consts' = consts
      /\ Editable(a) /\ Loose(a, x)
  BY DEF InsertItemInArray, flags, ChildWith, NextPut, PrevPut, ChildPut
<1>2. ShapeNext
  BY <1>1, PutFacts DEF ShapeNext
<1>3. Shares'
  <2>1. \A r \in refs : child'[r] = child[r]
    BY <1>1, PutFacts, TypesNow DEF ChildPut
  <2> QED
    BY <1>1, <2>1, SharesKept
<1> QED
  BY <1>1, <1>2, <1>3 DEF StructInv, ShapeNow, ShapeNext

\* The pointers once x is put before c and c taken out.
NextSwap(a, c, x) == NextLeft(NextPut(next, prev, child, a, c, x), PrevPut(prev, c, x), c)
PrevSwap(a, c, x) == PrevLeft(NextPut(next, prev, child, a, c, x), PrevPut(prev, c, x), c)
ChildSwap(a, c, x) ==
    ChildLeft(NextPut(next, prev, child, a, c, x), ChildPut(child, a, c, x), a, c)

\* The Replace calls: newitem put before the old one, which is detached and freed.
LEMMA ReplaceParts ==
    ASSUME StructInv, NEW a \in containers, NEW c \in Items(a), NEW x \in roots,
           ReplaceItem(a, c, x)
    PROVE  /\ ShapeNow /\ a \in live \ refs /\ c \in live /\ c \notin roots
           /\ Shape(live, (roots \ {x}) \union {c}, NextSwap(a, c, x), PrevSwap(a, c, x),
                    ChildSwap(a, c, x), refs)
           /\ Region(Tree(c), c, live, NextSwap(a, c, x), PrevSwap(a, c, x), ChildSwap(a, c, x), refs)
           /\ next' = Cleared(NextSwap(a, c, x), Tree(c))
           /\ prev' = Cleared(PrevSwap(a, c, x), Tree(c))
           /\ child' = Cleared(ChildSwap(a, c, x), Tree(c))
           /\ \A r \in refs : ChildSwap(a, c, x)[r] = child[r]
<1> DEFINE D == Tree(c)
           nx1 == NextPut(next, prev, child, a, c, x)
           pv1 == PrevPut(prev, c, x)
           ch1 == ChildPut(child, a, c, x)
           nx2 == NextSwap(a, c, x)
           pv2 == PrevSwap(a, c, x)
           ch2 == ChildSwap(a, c, x)
<1>1. Editable(a) /\ Loose(a, x)
  BY DEF ReplaceItem
<1>2. /\ ShapeNow
      /\ a \in live \ refs /\ c \in live /\ c \notin roots /\ x \in roots /\ x \in live
      /\ c \notin Tree(x) /\ a \notin D /\ x \notin D
      /\ ItemOf(a, c, live, prev, child, refs)
      /\ Shape(live, roots \ {x}, nx1, pv1, ch1, refs)
  BY <1>1, PutFacts
<1>3. /\ a \in Node /\ c \in Node /\ x \in Node /\ c # x /\ c # NULL /\ x # NULL
      /\ prev[c] # c /\ next[c] # c /\ next[c] # x /\ prev[c] # x
      /\ prev[c] \notin D /\ next[c] \notin D /\ c \in D /\ D \subseteq live
  BY <1>2, TreeFacts, NowFacts
<1>4. pv1[c] = x /\ nx1[c] = next[c]
  BY <1>3, TypesNow DEF NextPut, PrevPut
<1>5. ItemOf(a, c, live, pv1, ch1, refs)
  BY <1>2, <1>3, <1>4 DEF ItemOf
<1>6. Shape(live, (roots \ {x}) \union {c}, nx2, pv2, ch2, refs)
  <2>1. Shape(live, (roots \ {x}) \union {c}, NextLeft(nx1, pv1, c), PrevLeft(nx1, pv1, c),
              ChildLeft(nx1, ch1, a, c), refs)
    <3> HIDE DEF nx1, pv1, ch1
    <3> QED
      BY <1>2, <1>5, DetachShape
  <2> QED
    BY <2>1 DEF NextSwap, PrevSwap, ChildSwap
<1>7. ch2 = ch1
  BY <1>2, <1>3, TypesNow DEF ChildPut, ChildLeft, ChildSwap
<1>8. nx2 = [n \in Node |-> IF n = x THEN next[c]
                            ELSE IF n = prev[c] /\ c # child[a] THEN x
                            ELSE IF n = c THEN NULL ELSE next[n]]
  <2>1. ASSUME NEW n \in Node
        PROVE  nx2[n] = IF n = x THEN next[c]
                        ELSE IF n = prev[c] /\ c # child[a] THEN x
                        ELSE IF n = c THEN NULL ELSE next[n]
    <3>1. nx2[n] = IF n = c THEN NULL ELSE IF n = x THEN next[c] ELSE nx1[n]
      BY <1>4 DEF NextLeft, NextSwap
    <3>2. nx1[n] = IF n = x THEN c ELSE IF n = prev[c] /\ c # child[a] THEN x ELSE next[n]
      BY DEF NextPut
    <3> QED
      BY <1>3, <3>1, <3>2
  <2> QED
    BY <2>1 DEF NextLeft, NextSwap
<1>9. pv2 = [n \in Node |-> IF n = x THEN prev[c]
                            ELSE IF n = next[c] THEN x
                            ELSE IF n = c THEN NULL ELSE prev[n]]
  <2>1. ASSUME NEW n \in Node
        PROVE  pv2[n] = IF n = x THEN prev[c]
                        ELSE IF n = next[c] THEN x
                        ELSE IF n = c THEN NULL ELSE prev[n]
    <3>1. pv2[n] = IF n = c THEN NULL ELSE IF n = next[c] THEN x ELSE pv1[n]
      BY <1>4 DEF PrevLeft, PrevSwap
    <3>2. n # c => pv1[n] = IF n = x THEN prev[c] ELSE prev[n]
      BY <1>3, TypesNow DEF PrevPut
    <3> QED
      BY <1>3, <3>1, <3>2
  <2> QED
    BY <2>1 DEF PrevLeft, PrevSwap
<1>10. next' = Cleared(nx2, D) /\ prev' = Cleared(pv2, D) /\ child' = Cleared(ch2, D)
  <2>1. child' = Cleared(ch1, D)
    BY DEF ReplaceItem, Replaced, ChildWith, ChildPut
  <2>2. next' = Cleared(nx2, D) /\ prev' = Cleared(pv2, D)
    BY <1>8, <1>9 DEF ReplaceItem, Replaced
  <2> QED
    BY <1>7, <2>1, <2>2
<1>11. Region(D, c, live, nx2, pv2, ch2, refs)
  <2>1. nx2[c] = NULL
    BY <1>3 DEF NextLeft, NextSwap
  <2>2. \A n \in D : n # c => nx2[n] = next[n] /\ pv2[n] = prev[n]
    BY <1>2, <1>3, <1>8, <1>9, TypesNow
  <2>3. \A n \in D : ch2[n] = child[n]
    BY <1>2, <1>3, <1>7, TypesNow DEF ChildPut
  <2> HIDE DEF nx2, pv2, ch2
  <2> QED
    BY <1>2, <2>1, <2>2, <2>3, CutRegion
<1>12. \A r \in refs : ch2[r] = child[r]
  BY <1>2, <1>7, TypesNow DEF ChildPut
<1> QED
  BY <1>2, <1>6, <1>10, <1>11, <1>12

\* So the shape is kept.
LEMMA ReplaceStep ==
    ASSUME StructInv, NEW a \in containers, NEW c \in Items(a), NEW x \in roots,
           ReplaceItem(a, c, x)
    PROVE  StructInv'
<1> DEFINE D == Tree(c)
           nx == NextSwap(a, c, x)
           pv == PrevSwap(a, c, x)
           ch == ChildSwap(a, c, x)
           R == (roots \ {x}) \union {c}
<1>1. /\ Unpinned(D) /\ live' = live \ D /\ roots' = roots \ {x} /\ refs' = refs \ D
      /\ valuestring' = Cleared(valuestring, D)
      /\ containers' = containers \ D /\ consts' = consts \ D
  BY DEF ReplaceItem, Replaced
<1>2. /\ Shape(live, R, nx, pv, ch, refs) /\ Region(D, c, live, nx, pv, ch, refs) /\ c \notin roots
      /\ next' = Cleared(nx, D) /\ prev' = Cleared(pv, D) /\ child' = Cleared(ch, D)
      /\ \A r \in refs : ch[r] = child[r]
  BY ReplaceParts
<1>3. c \in R /\ R \ {c} = roots \ {x}
  BY <1>2
<1> HIDE DEF D, nx, pv, ch, R
<1>4. ShapeNext
  <2>1. Shape(live \ D, R \ {c}, Cleared(nx, D), Cleared(pv, D), Cleared(ch, D), refs \ D)
    BY <1>2, <1>3, FreeShape
  <2> QED
    BY <1>1, <1>2, <1>3, <2>1 DEF ShapeNext
<1>5. Shares'
  <2>1. \A r \in refs \ D : child'[r] = child[r]
    BY <1>2, TypesNow DEF Cleared
  <2> QED
    BY <1>1, <2>1, SharesFreed
<1> QED
  BY <1>1, <1>4, <1>5 DEF StructInv, ShapeNow, ShapeNext

\* What cJSON_Duplicate copies.
Copied(item, b) == IF b THEN Tree(item) ELSE {item}

Copies(f, C, G, item, b) ==
    f \in [C -> Node \ live] /\ C = Copied(item, b) /\ G = {f[m] : m \in C}

\* The pointers of the copies.
CopiedPointers(f, C, item, b) ==
    \A m \in C : /\ next'[f[m]] = IF m = item \/ next[m] = NULL THEN NULL ELSE f[next[m]]
                 /\ prev'[f[m]] = IF m = item \/ prev[m] = NULL THEN NULL ELSE f[prev[m]]
                 /\ child'[f[m]] = IF ~b \/ child[m] = NULL THEN NULL ELSE f[child[m]]
                 /\ valuestring'[f[m]] = IF valuestring[m] = NULL THEN NULL ELSE f[m]

\* What cJSON_Duplicate takes and where the copies go.
LEMMA DuplicateFacts ==
    ASSUME StructInv, NEW item \in live, NEW b \in BOOLEAN, NEW f, NEW C, NEW G,
           Copies(f, C, G, item, b), Duplicate(item, b, f)
    PROVE  /\ C \subseteq live /\ item \in C /\ C \intersect refs = {}
           /\ \A m, n \in C : f[m] = f[n] => m = n
           /\ live' = live \union G /\ roots' = roots \union {f[item]} /\ refs' = refs
           /\ containers' \subseteq containers \union G /\ consts' \subseteq consts \union G
           /\ G \subseteq Node \ live /\ \A m \in C : f[m] \in G /\ m \in Node
           /\ \A m \in C : child[m] = OwnChild(m)
<1>1. f \in [C -> Node \ live] /\ C = Copied(item, b) /\ G = {f[m] : m \in C}
  BY DEF Copies
<1>2. C \subseteq live /\ item \in C
  BY <1>1, TreeFacts DEF StructInv, Copied
<1>3. /\ C \intersect refs = {} /\ \A m, n \in C : f[m] = f[n] => m = n
      /\ live' = live \union G /\ roots' = roots \union {f[item]} /\ refs' = refs
      /\ containers' = containers \union {f[m] : m \in C \intersect containers}
      /\ consts' = consts \union {f[m] : m \in C \intersect consts}
  BY <1>1 DEF Duplicate, Copied
<1>4. G \subseteq Node \ live /\ \A m \in C : f[m] \in G /\ m \in Node
  BY <1>1, <1>2, TypesNow
<1>5. \A m \in C : child[m] = OwnChild(m)
  BY <1>3 DEF OwnChild
<1>6. containers' \subseteq containers \union G /\ consts' \subseteq consts \union G
  BY <1>3, <1>4
<1> QED
  BY <1>2, <1>3, <1>4, <1>5, <1>6

\* The pointers of the copies, and of everything else.
LEMMA DuplicatePointers ==
    ASSUME StructInv, NEW item \in live, NEW b \in BOOLEAN, NEW f, NEW C, NEW G,
           Copies(f, C, G, item, b), Duplicate(item, b, f)
    PROVE  /\ CopiedPointers(f, C, item, b)
           /\ \A n \in Node \ G : /\ next'[n] = next[n] /\ prev'[n] = prev[n]
                                  /\ child'[n] = child[n] /\ valuestring'[n] = valuestring[n]
           /\ DOMAIN next' = Node /\ DOMAIN prev' = Node /\ DOMAIN child' = Node
           /\ valuestring' = [n \in Node |-> valuestring'[n]]
           /\ next' = [n \in Node |-> next'[n]] /\ prev' = [n \in Node |-> prev'[n]]
           /\ child' = [n \in Node |-> child'[n]]
<1> DEFINE Origin(n) == CHOOSE m \in C : f[m] = n
<1>1. f \in [C -> Node \ live] /\ C = Copied(item, b) /\ G = {f[m] : m \in C}
  BY DEF Copies
<1>2. \A m, n \in C : f[m] = f[n] => m = n
  BY DuplicateFacts
<1>3. \A m \in C : f[m] \in G /\ f[m] \in Node
  BY DuplicateFacts
<1>4. /\ next' = [n \in Node |-> IF n \in G THEN CopiedNext(f, item, Origin(n)) ELSE next[n]]
      /\ prev' = [n \in Node |-> IF n \in G
                                 THEN IF Origin(n) = item \/ prev[Origin(n)] = NULL
                                      THEN NULL ELSE f[prev[Origin(n)]]
                                 ELSE prev[n]]
  BY <1>1 DEF Duplicate, Copied
<1>5. /\ child' = [n \in Node |-> IF n \in G
                                  THEN IF ~b \/ child[Origin(n)] = NULL
                                       THEN NULL ELSE f[child[Origin(n)]]
                                  ELSE child[n]]
      /\ valuestring' = [n \in Node |-> IF n \in G
                                        THEN IF valuestring[Origin(n)] = NULL
                                             THEN NULL ELSE f[Origin(n)]
                                        ELSE valuestring[n]]
  BY <1>1 DEF Duplicate, Copied
<1>6. \A m \in C : Origin(f[m]) = m
  BY <1>2
<1> HIDE DEF Origin
<1>7. CopiedPointers(f, C, item, b)
  <2> SUFFICES ASSUME NEW m \in C
               PROVE  /\ next'[f[m]] = IF m = item \/ next[m] = NULL THEN NULL ELSE f[next[m]]
                      /\ prev'[f[m]] = IF m = item \/ prev[m] = NULL THEN NULL ELSE f[prev[m]]
                      /\ child'[f[m]] = IF ~b \/ child[m] = NULL THEN NULL ELSE f[child[m]]
                      /\ valuestring'[f[m]] = IF valuestring[m] = NULL THEN NULL ELSE f[m]
    BY DEF CopiedPointers
  <2>1. f[m] \in Node /\ f[m] \in G
    BY <1>3
  <2>2. Origin(f[m]) = m
    BY <1>6
  <2>3. next'[f[m]] = CopiedNext(f, item, m)
    BY <1>4, <2>1, <2>2
  <2>4. prev'[f[m]] = IF m = item \/ prev[m] = NULL THEN NULL ELSE f[prev[m]]
    BY <1>4, <2>1, <2>2
  <2>5. /\ child'[f[m]] = IF ~b \/ child[m] = NULL THEN NULL ELSE f[child[m]]
        /\ valuestring'[f[m]] = IF valuestring[m] = NULL THEN NULL ELSE f[m]
    BY <1>5, <2>1, <2>2
  <2> QED
    BY <2>3, <2>4, <2>5 DEF CopiedNext
<1>8. \A n \in Node \ G : /\ next'[n] = next[n] /\ prev'[n] = prev[n]
                          /\ child'[n] = child[n] /\ valuestring'[n] = valuestring[n]
  BY <1>4, <1>5
<1>9. /\ DOMAIN next' = Node /\ DOMAIN prev' = Node /\ DOMAIN child' = Node
      /\ valuestring' = [n \in Node |-> valuestring'[n]]
      /\ next' = [n \in Node |-> next'[n]] /\ prev' = [n \in Node |-> prev'[n]]
      /\ child' = [n \in Node |-> child'[n]]
  BY <1>4, <1>5
<1> QED
  BY <1>7, <1>8, <1>9

\* cJSON_Duplicate: the copy has the shape of what is copied.
LEMMA DuplicateStep ==
    ASSUME StructInv, NEW item \in live, NEW b \in BOOLEAN,
           NEW f \in [IF b THEN Tree(item) ELSE {item} -> Node \ live], Duplicate(item, b, f)
    PROVE  StructInv'
<1> DEFINE C == Copied(item, b)
           G == {f[m] : m \in C}
<1>1. ShapeNow /\ Shape(live, roots, next, prev, child, refs)
  BY DEF StructInv, ShapeNow
<1>2. f \in [C -> Node \ live] /\ C = Copied(item, b) /\ G = {f[m] : m \in C}
  BY DEF Copied
<1> HIDE DEF C, G
<1>0. Copies(f, C, G, item, b)
  BY <1>2 DEF Copies
<1>3. /\ C \subseteq live /\ item \in C /\ C \intersect refs = {}
      /\ \A m, n \in C : f[m] = f[n] => m = n
  BY <1>0, DuplicateFacts
<1>4. /\ live' = live \union G /\ roots' = roots \union {f[item]} /\ refs' = refs
      /\ containers' \subseteq containers \union G /\ consts' \subseteq consts \union G
  BY <1>0, DuplicateFacts
<1>5. /\ DOMAIN next' = Node /\ DOMAIN prev' = Node /\ DOMAIN child' = Node
      /\ valuestring' = [n \in Node |-> valuestring'[n]]
      /\ next' = [n \in Node |-> next'[n]] /\ prev' = [n \in Node |-> prev'[n]]
      /\ child' = [n \in Node |-> child'[n]]
  BY <1>0, DuplicatePointers
<1>6. \A m \in C : /\ next'[f[m]] = IF m = item \/ next[m] = NULL THEN NULL ELSE f[next[m]]
                   /\ prev'[f[m]] = IF m = item \/ prev[m] = NULL THEN NULL ELSE f[prev[m]]
                   /\ child'[f[m]] = IF ~b \/ child[m] = NULL THEN NULL ELSE f[child[m]]
                   /\ valuestring'[f[m]] = IF valuestring[m] = NULL THEN NULL ELSE f[m]
  BY <1>0, DuplicatePointers DEF CopiedPointers
<1>7. \A n \in Node \ G : /\ next'[n] = next[n] /\ prev'[n] = prev[n]
                          /\ child'[n] = child[n] /\ valuestring'[n] = valuestring[n]
  BY <1>0, DuplicatePointers
<1>8. /\ G \subseteq Node \ live /\ \A m \in C : f[m] \in G /\ m \in Node
      /\ \A m \in C : child[m] = OwnChild(m)
  BY <1>0, DuplicateFacts
<1>9. ShapeNext
  <2>1. CASE b
    <3>1. C = Tree(item)
      BY <1>2, <2>1 DEF Copied
    <3>2. /\ \A m \in C : m # item => next[m] \in C \union {NULL}
          /\ \A m \in C : child[m] \in C \union {NULL}
          /\ \A m \in C : m = item \/ prev[m] \in C \/ \E e \in C : child[e] = m
          /\ prev[item] \notin C /\ next[item] \notin C /\ \A e \in C : child[e] # item
      BY <1>1, <1>8, <3>1, TreeFacts
    <3>3. \A m \in C : m # item => prev[m] \in C \union {NULL}
      <4> SUFFICES ASSUME NEW m \in C, NEW e \in C, child[e] = m PROVE prev[m] = NULL
        BY <3>2
      <4>1. OwnChild(e) = m /\ m # NULL /\ e \in live
        BY <1>1, <1>3, <1>8, NowFacts
      <4> QED
        BY <1>1, <4>1, NowFacts
    <3>4. next' \in [Node -> Pointers] /\ prev' \in [Node -> Pointers] /\ child' \in [Node -> Pointers]
      <4>1. ASSUME NEW n \in Node
            PROVE  next'[n] \in Pointers /\ prev'[n] \in Pointers /\ child'[n] \in Pointers
        <5>1. CASE n \in G
          <6>1. PICK m \in C : n = f[m]
            BY <1>2, <5>1
          <6>2. \A o \in C : f[o] \in Node
            BY <1>8
          <6> QED
            BY <1>6, <2>1, <3>2, <3>3, <6>1, <6>2 DEF Pointers
        <5>2. CASE n \notin G
          BY <1>7, <5>2, TypesNow
        <5> QED
          BY <5>1, <5>2
      <4> QED
        BY <1>5, <4>1
    <3>5. CopyLinks(f, G, C, item, live, next, prev, child, refs, next', prev', child')
      <4>1. \A m \in C : /\ next'[f[m]] = IF m = item \/ next[m] = NULL THEN NULL ELSE f[next[m]]
                         /\ prev'[f[m]] = IF m = item \/ prev[m] = NULL THEN NULL ELSE f[prev[m]]
                         /\ child'[f[m]] = IF child[m] = NULL THEN NULL ELSE f[child[m]]
        BY <1>6, <2>1
      <4>2. \A n \in Node \ G : next'[n] = next[n] /\ prev'[n] = prev[n] /\ child'[n] = child[n]
        BY <1>7
      <4>3. /\ C \subseteq live /\ item \in C /\ f \in [C -> Node \ live]
            /\ C \intersect refs = {} /\ G = {f[m] : m \in C}
            /\ \A m, n \in C : f[m] = f[n] => m = n
        BY <1>2, <1>3
      <4> QED
        BY <3>2, <3>4, <4>1, <4>2, <4>3 DEF CopyLinks
    <3>6. Shape(live \union G, roots \union {f[item]}, next', prev', child', refs)
      BY <1>1, <3>5, CopyShape
    <3> QED
      BY <1>4, <3>6 DEF ShapeNext
  <2>2. CASE ~b
    <3>1. C = {item} /\ G = {f[item]} /\ f[item] \in Node \ live
      BY <1>2, <1>8, <2>2 DEF Copied
    <3>2. Shape(live \union {f[item]}, roots \union {f[item]}, next, prev,
                [child EXCEPT ![f[item]] = NULL], refs)
      BY <1>1, <3>1, GrowShape DEF Pointers
    <3>3. next[f[item]] = NULL /\ prev[f[item]] = NULL /\ child[f[item]] = NULL
      BY <3>1, TypesNow
    <3>4. next'[f[item]] = NULL /\ prev'[f[item]] = NULL /\ child'[f[item]] = NULL
      BY <1>3, <1>6, <2>2
    <3>5. /\ \A n \in Node : next'[n] = next[n] /\ prev'[n] = prev[n] /\ child'[n] = child[n]
      BY <1>7, <3>1, <3>3, <3>4
    <3>6. next' = next /\ prev' = prev /\ child' = [child EXCEPT ![f[item]] = NULL]
      <4>1. DOMAIN next' = Node /\ DOMAIN prev' = Node /\ DOMAIN child' = Node
        BY <1>5
      <4>2. next' = [n \in Node |-> next[n]] /\ prev' = [n \in Node |-> prev[n]]
            /\ child' = [n \in Node |-> child[n]]
        BY <1>5, <3>5
      <4>3. child' = child
        BY <4>2, TypesNow
      <4>4. child = [child EXCEPT ![f[item]] = NULL]
        BY <3>1, <3>3, TypesNow
      <4> QED
        BY <4>2, <4>3, <4>4, TypesNow
    <3> QED
      BY <1>3, <1>4, <3>1, <3>2, <3>6 DEF ShapeNext
  <2> QED
    BY <2>1, <2>2
<1>10. Shares'
  <2>1. valuestring' \in [Node -> Pointers]
    <3>1. ASSUME NEW n \in Node PROVE valuestring'[n] \in Pointers
      <4>1. CASE n \in G
        <5>1. PICK m \in C : n = f[m]
          BY <1>2, <4>1
        <5> QED
          BY <1>6, <5>1 DEF Pointers
      <4>2. CASE n \notin G
        BY <1>7, <4>2 DEF StructInv, Shares
      <4> QED
        BY <4>1, <4>2
    <3> QED
      BY <1>5, <3>1
  <2>2. ASSUME NEW n \in live' \ refs' PROVE valuestring'[n] \in {NULL, n}
    <3>1. CASE n \in G
      <4>1. PICK m \in C : n = f[m]
        BY <1>2, <3>1
      <4> QED
        BY <1>6, <4>1
    <3>2. CASE n \notin G
      BY <1>3, <1>4, <1>7, <2>2, <3>2, TypesNow DEF StructInv, Shares
    <3> QED
      BY <3>1, <3>2
  <2>3. \A n \in Node \ live' : valuestring'[n] = NULL
    BY <1>3, <1>4, <1>7 DEF StructInv, Shares
  <2>4. \A r \in refs : {child'[r], valuestring'[r]} \subseteq live' \union {NULL}
    BY <1>3, <1>4, <1>7, <1>8, TypesNow DEF StructInv, Shares
  <2> QED
    BY <1>3, <1>4, <2>1, <2>2, <2>3, <2>4 DEF Shares
<1>11. containers' \subseteq live' /\ consts' \subseteq live'
  BY <1>3, <1>4 DEF StructInv
<1> QED
  BY <1>9, <1>10, <1>11 DEF StructInv, ShapeNow, ShapeNext

-----------------------------------------------------------------------------
\* Every call keeps the invariant.
LEMMA StructInvStep == StructInv /\ [Next]_vars => StructInv'
<1> SUFFICES ASSUME StructInv, [Next]_vars PROVE StructInv'
  OBVIOUS
<1>1. ASSUME NEW n \in Node, NEW kind \in Kinds, Create(n, kind) PROVE StructInv'
  BY <1>1, CreateStep
<1>2. ASSUME NEW a \in Node, NEW k \in 0..MaxCount, NEW kind \in Kinds \ {"container"},
             NEW s \in [1..k -> Node], CreateArrayOf(a, s, kind)
      PROVE  StructInv'
  BY <1>2, CreateArrayStep
<1>3. ASSUME NEW item \in live, NEW b \in BOOLEAN,
             NEW f \in [IF b THEN Tree(item) ELSE {item} -> Node \ live], Duplicate(item, b, f)
      PROVE  StructInv'
  BY <1>3, DuplicateStep
<1>4. ASSUME NEW a \in containers, NEW x \in Node, AddItemToArray(a, x) PROVE StructInv'
  BY <1>4, AddStep DEF AddItemToArray, flags
<1>5. ASSUME NEW a \in containers, NEW x \in Node, NEW k \in Keys, AddItemToObject(a, k, x)
      PROVE  StructInv'
  BY <1>5, AddStep DEF AddItemToObject, flags
<1>6. ASSUME NEW a \in containers, NEW x \in Node, NEW k \in Keys, AddItemToObjectCS(a, k, x)
      PROVE  StructInv'
  BY <1>6, AddStep DEF AddItemToObjectCS
<1>7. ASSUME NEW a \in containers, NEW x \in Node, NEW item \in live,
             AddItemReferenceToArray(a, x, item)
      PROVE  StructInv'
  BY <1>7, ReferenceStep DEF AddItemReferenceToArray
<1>8. ASSUME NEW a \in containers, NEW x \in Node, NEW item \in live, NEW k \in Keys,
             AddItemReferenceToObject(a, k, x, item)
      PROVE  StructInv'
  BY <1>8, ReferenceStep DEF AddItemReferenceToObject
<1>9. ASSUME NEW a \in containers, NEW c \in Items(a), DetachItem(a, c) PROVE StructInv'
  BY <1>9, DetachStep
<1>10. ASSUME NEW a \in containers, NEW c \in Items(a), DeleteItem(a, c) PROVE StructInv'
  BY <1>10, DeleteItemStep
<1>11. ASSUME NEW a \in containers, NEW c \in Items(a), NEW x \in roots,
              InsertItemInArray(a, c, x)
       PROVE  StructInv'
  BY <1>11, InsertStep
<1>12. ASSUME NEW a \in containers, NEW c \in Items(a), NEW x \in roots, ReplaceItem(a, c, x)
       PROVE  StructInv'
  BY <1>12, ReplaceStep
<1>13. ASSUME NEW c \in roots, Delete(c) PROVE StructInv'
  BY <1>13, DeleteStep
<1>14. CASE UNCHANGED vars
  BY <1>14 DEF vars, links, flags, StructInv, ShapeNow, Shares
<1>15. CASE Making
  BY <1>1, <1>2, <1>3, <1>15 DEF Making
<1>16. CASE Adding
  BY <1>4, <1>5, <1>6, <1>7, <1>8, <1>16 DEF Adding
<1>17. CASE Editing
  BY <1>9, <1>10, <1>11, <1>12, <1>17 DEF Editing, ReplaceItemInArray, ReplaceItemInObject
<1> QED
  BY <1>13, <1>14, <1>15, <1>16, <1>17 DEF Next, Deleting

-----------------------------------------------------------------------------
(* Names.  Also of a node not allocated: one that is allocated again is    *)
(* first blank.                                                            *)
OwnName(n) == name[n].at \in {NULL, n} \/ (name[n].at = Literal /\ n \in consts)

NameInv ==
    /\ name \in [Node -> Names]
    /\ \A n \in Node : OwnName(n)

\* No node has a name yet.
LEMMA NameInvInit == Init => NameInv
  BY DEF Init, NameInv, OwnName, Names, NoName, Pointers

\* What an item is named: nothing, in storage of its own, or by a literal.
LEMMA NamesMade ==
    /\ NoName \in Names /\ NoName.at = NULL
    /\ \A k \in Keys, n \in Node : [key |-> k, at |-> n] \in Names
    /\ \A k \in Keys : [key |-> k, at |-> Literal] \in Names
  BY DEF NoName, Names, Pointers

\* A call that names nothing.
LEMMA NamesKept ==
    ASSUME NameInv, name' = name, consts \subseteq consts'
    PROVE  NameInv'
  BY DEF NameInv, OwnName

\* One item is named in storage of its own, or not at all.
LEMMA NamedItself ==
    ASSUME NameInv, consts \subseteq consts',
           NEW x \in Node, NEW v \in Names, v.at \in {NULL, x} \/ (v.at = Literal /\ x \in consts'),
           name' = [name EXCEPT ![x] = v]
    PROVE  NameInv'
<1>1. name' \in [Node -> Names]
  BY DEF NameInv
<1>2. ASSUME NEW n \in Node PROVE OwnName(n)'
  <2>1. CASE n = x
    BY <2>1 DEF NameInv, OwnName
  <2>2. CASE n # x
    BY <2>2 DEF NameInv, OwnName
  <2> QED
    BY <2>1, <2>2
<1> QED
  BY <1>1, <1>2 DEF NameInv

\* Items are freed; any other keeps its name or is named in storage of its own.
LEMMA NamesFreed ==
    ASSUME NameInv, NEW D, consts' = consts \ D,
           name' \in [Node -> Names],
           \A n \in Node : \/ name'[n].at \in {NULL, n}
                           \/ (n \notin D /\ name'[n] = name[n])
    PROVE  NameInv'
<1> SUFFICES ASSUME NEW n \in Node PROVE OwnName(n)'
  BY DEF NameInv
<1>1. CASE name'[n].at \in {NULL, n}
  BY <1>1 DEF OwnName
<1>2. CASE n \notin D /\ name'[n] = name[n]
  BY <1>2 DEF NameInv, OwnName
<1> QED
  BY <1>1, <1>2

\* The Replace calls free the names of the old item and may name the new one.
LEMMA ReplaceNames ==
    ASSUME NameInv, NEW a, NEW c, NEW x \in Node, ReplaceItem(a, c, x),
           \/ name' = [n \in Node |-> IF n \in Replaced(c) THEN NoName ELSE name[n]]
           \/ \E k \in Keys : name' = [n \in Node |-> IF n \in Replaced(c) THEN NoName
                                        ELSE IF n = x THEN [key |-> k, at |-> x] ELSE name[n]]
    PROVE  NameInv'
<1> DEFINE D == Replaced(c)
<1>1. consts' = consts \ D
  BY DEF ReplaceItem
<1> HIDE DEF D
<1>2. CASE name' = [n \in Node |-> IF n \in D THEN NoName ELSE name[n]]
  <2>1. name' \in [Node -> Names]
    BY <1>2, NamesMade DEF NameInv
  <2>2. \A n \in Node : name'[n].at \in {NULL, n} \/ (n \notin D /\ name'[n] = name[n])
    BY <1>2, NamesMade
  <2> QED
    BY <1>1, <2>1, <2>2, NamesFreed
<1>3. ASSUME NEW k \in Keys,
             name' = [n \in Node |-> IF n \in D THEN NoName
                                     ELSE IF n = x THEN [key |-> k, at |-> x] ELSE name[n]]
      PROVE  NameInv'
  <2>1. name' \in [Node -> Names]
    BY <1>3, NamesMade DEF NameInv
  <2>2. \A n \in Node : name'[n].at \in {NULL, n} \/ (n \notin D /\ name'[n] = name[n])
    BY <1>3, NamesMade
  <2> QED
    BY <1>1, <2>1, <2>2, NamesFreed
<1> QED
  BY <1>2, <1>3 DEF D

\* Freeing items frees their names.
LEMMA FreeNames ==
    ASSUME NameInv, NEW D, Free(D)
    PROVE  NameInv'
<1>1. name' = [n \in Node |-> IF n \in D THEN NoName ELSE name[n]] /\ consts' = consts \ D
  BY DEF Free
<1>2. name' \in [Node -> Names]
  BY <1>1, NamesMade DEF NameInv
<1>3. \A n \in Node : name'[n].at \in {NULL, n} \/ (n \notin D /\ name'[n] = name[n])
  BY <1>1, NamesMade
<1> QED
  BY <1>1, <1>2, <1>3, NamesFreed

\* A copied name, a literal included, has storage of its own.
LEMMA DuplicateNames ==
    ASSUME NameInv, NEW item \in live, NEW b \in BOOLEAN, live \subseteq Node,
           NEW f \in [IF b THEN Tree(item) ELSE {item} -> Node \ live], Duplicate(item, b, f),
           Tree(item) \subseteq Node
    PROVE  NameInv'
<1> DEFINE C == IF b THEN Tree(item) ELSE {item}
           Fresh == {f[m] : m \in C}
           Origin(n) == CHOOSE m \in C : f[m] = n
<1>1. name' = [n \in Node |-> IF n \in Fresh
                              THEN IF name[Origin(n)] = NoName THEN NoName
                                   ELSE [key |-> name[Origin(n)].key, at |-> f[Origin(n)]]
                              ELSE name[n]]
  BY DEF Duplicate
<1>2. \A n \in Fresh : Origin(n) \in C /\ f[Origin(n)] = n
  OBVIOUS
<1>3. C \subseteq Node
  OBVIOUS
<1>4. consts \subseteq consts'
  BY DEF Duplicate
<1> HIDE DEF C, Fresh, Origin
<1>5. ASSUME NEW n \in Node PROVE name'[n] \in Names /\ OwnName(n)'
  <2>1. CASE n \in Fresh /\ name[Origin(n)] = NoName
    BY <1>1, <2>1, NamesMade DEF OwnName
  <2>2. CASE n \in Fresh /\ name[Origin(n)] # NoName
    <3>1. name'[n] = [key |-> name[Origin(n)].key, at |-> n]
      BY <1>1, <1>2, <2>2
    <3>2. name[Origin(n)] \in Names
      BY <1>2, <1>3, <2>2 DEF NameInv
    <3>3. name'[n] \in Names /\ name'[n].at = n
      BY <3>1, <3>2 DEF Names, Pointers
    <3> QED
      BY <3>3 DEF OwnName
  <2>3. CASE n \notin Fresh
    BY <1>1, <1>4, <2>3 DEF NameInv, OwnName
  <2> QED
    BY <2>1, <2>2, <2>3
<1>6. name' \in [Node -> Names]
  BY <1>1, <1>5
<1> QED
  BY <1>5, <1>6 DEF NameInv

(* What a call frees as a name and did not allocate is the literal.        *)
LEMMA FreedStep ==
    ASSUME freed \subseteq {Literal}, [Next]_vars PROVE freed' \subseteq {Literal}
<1>1. \A S : LiteralsOf(S) \subseteq {Literal}
  BY DEF LiteralsOf
<1>2. CASE UNCHANGED vars
  BY <1>2 DEF vars
<1>3. CASE Making
  <2>1. /\ \A n, kind : Create(n, kind) => freed' = {}
        /\ \A a, s, kind : CreateArrayOf(a, s, kind) => freed' = {}
        /\ \A item, b, f : Duplicate(item, b, f) => freed' = {}
    BY DEF Create, CreateArrayOf, Duplicate
  <2>2. freed' = {}
    BY <1>3, <2>1 DEF Making
  <2> QED
    BY <2>2
<1>4. CASE Adding
  BY <1>1, <1>4 DEF Adding, AddItemToArray, AddItemToObject, AddItemToObjectCS,
       AddItemReferenceToArray, AddItemReferenceToObject
<1>5. CASE Editing
  <2>1. /\ \A a, c : DetachItem(a, c) => freed' = {}
        /\ \A a, c, x : InsertItemInArray(a, c, x) => freed' = {}
        /\ \A D : Free(D) => freed' = LiteralsOf(Unflagged(D))
        /\ \A a, c, x : ReplaceItem(a, c, x) => freed' = LiteralsOf(Unflagged(Replaced(c)))
    BY DEF DetachItem, InsertItemInArray, Free, ReplaceItem
  <2>2. /\ \A a, c : DeleteItem(a, c) => \E D : Free(D)
        /\ \A a, c, x : ReplaceItemInArray(a, c, x) => ReplaceItem(a, c, x)
        /\ \A a, k, c, x : ReplaceItemInObject(a, k, c, x) => ReplaceItem(a, c, x)
    BY DEF DeleteItem, ReplaceItemInArray, ReplaceItemInObject
  <2>3. PICK a, c :
           \/ DetachItem(a, c) \/ DeleteItem(a, c)
           \/ \E x : InsertItemInArray(a, c, x)
           \/ \E x : ReplaceItem(a, c, x)
    BY <1>5, <2>2 DEF Editing
  <2>4. freed' = {} \/ \E S : freed' = LiteralsOf(S)
    BY <2>1, <2>2, <2>3
  <2> QED
    BY <1>1, <2>4
<1>6. CASE Deleting
  BY <1>1, <1>6 DEF Deleting, Delete, Free
<1> QED
  BY <1>2, <1>3, <1>4, <1>5, <1>6 DEF Next

\* Every call keeps the names apart.
LEMMA NameInvStep == StructInv /\ NameInv /\ [Next]_vars => NameInv'
<1> SUFFICES ASSUME StructInv, NameInv, [Next]_vars PROVE NameInv'
  OBVIOUS
<1>1. ASSUME NEW n \in Node, NEW kind \in Kinds, Create(n, kind) PROVE NameInv'
  BY <1>1, NamesKept DEF Create
<1>2. ASSUME NEW a \in Node, NEW k \in 0..MaxCount, NEW kind \in Kinds \ {"container"},
             NEW s \in [1..k -> Node], CreateArrayOf(a, s, kind)
      PROVE  NameInv'
  <2>1. name' = name /\ consts' = consts
    BY <1>2 DEF CreateArrayOf
  <2> QED
    BY <2>1, NamesKept
<1>3. ASSUME NEW item \in live, NEW b \in BOOLEAN,
             NEW f \in [IF b THEN Tree(item) ELSE {item} -> Node \ live], Duplicate(item, b, f)
      PROVE  NameInv'
  <2>1. live \subseteq Node /\ Tree(item) \subseteq Node
    BY TypesNow, TreeFacts DEF StructInv
  <2> QED
    BY <1>3, <2>1, DuplicateNames
<1>4. ASSUME NEW a \in containers, NEW x \in Node, AddItemToArray(a, x) PROVE NameInv'
  BY <1>4, NamesKept DEF AddItemToArray, flags
<1>5. ASSUME NEW a \in containers, NEW x \in Node, NEW k \in Keys, AddItemToObject(a, k, x)
      PROVE  NameInv'
  BY <1>5, NamesMade, NamedItself DEF AddItemToObject, flags
<1>6. ASSUME NEW a \in containers, NEW x \in Node, NEW k \in Keys, AddItemToObjectCS(a, k, x)
      PROVE  NameInv'
  BY <1>6, NamesMade, NamedItself DEF AddItemToObjectCS
<1>7. ASSUME NEW a \in containers, NEW x \in Node, NEW item \in live,
             AddItemReferenceToArray(a, x, item)
      PROVE  NameInv'
  BY <1>7, NamesMade, NamedItself DEF AddItemReferenceToArray, NameOfReference, Reference
<1>8. ASSUME NEW a \in containers, NEW x \in Node, NEW item \in live, NEW k \in Keys,
             AddItemReferenceToObject(a, k, x, item)
      PROVE  NameInv'
  BY <1>8, NamesMade, NamedItself DEF AddItemReferenceToObject, Reference
<1>9. ASSUME NEW a \in containers, NEW c \in Items(a), DetachItem(a, c) PROVE NameInv'
  BY <1>9, NamesKept DEF DetachItem, flags
<1>10. ASSUME NEW a \in containers, NEW c \in Items(a), DeleteItem(a, c) PROVE NameInv'
  BY <1>10, FreeNames DEF DeleteItem
<1>11. ASSUME NEW a \in containers, NEW c \in Items(a), NEW x \in roots,
              InsertItemInArray(a, c, x)
       PROVE  NameInv'
  BY <1>11, NamesKept DEF InsertItemInArray, flags
<1>12. ASSUME NEW a \in containers, NEW c \in Items(a), NEW x \in roots,
              \/ ReplaceItemInArray(a, c, x)
              \/ \E k \in Keys : ReplaceItemInObject(a, k, c, x)
       PROVE  NameInv'
  <2>1. x \in Node
    BY TypesNow
  <2> QED
    BY <1>12, <2>1, ReplaceNames DEF ReplaceItemInArray, ReplaceItemInObject
<1>13. ASSUME NEW c \in roots, Delete(c) PROVE NameInv'
  BY <1>13, FreeNames DEF Delete
<1>14. CASE UNCHANGED vars
  BY <1>14, NamesKept DEF vars, flags
<1>15. CASE Making
  BY <1>1, <1>2, <1>3, <1>15 DEF Making
<1>16. CASE Adding
  BY <1>4, <1>5, <1>6, <1>7, <1>8, <1>16 DEF Adding
<1>17. CASE Editing
  BY <1>9, <1>10, <1>11, <1>12, <1>17 DEF Editing
<1> QED
  BY <1>13, <1>14, <1>15, <1>16, <1>17 DEF Next, Deleting

\* While names are apart, items without the flag have no literal to free.
LEMMA UnflaggedFree ==
    ASSUME NameInv, NEW D, D \subseteq Node
    PROVE  LiteralsOf(Unflagged(D)) = {}
<1>1. \A n \in D \ consts : name[n].at \in Node \union {NULL}
  BY DEF NameInv, OwnName
<1>2. \A n \in D \ consts : name[n].at # Literal
  BY <1>1, LiteralAssumption
<1> QED
  BY <1>2 DEF LiteralsOf, Unflagged

\* A call that frees a literal names an item again that had it for a name.
LEMMA LiteralStep ==
    ASSUME StructInv, NameInv, Next, freed' # {}
    PROVE  RenamesLiteral
<1>1. CASE Making
  <2>1. /\ \A n, kind : Create(n, kind) => freed' = {}
        /\ \A a, s, kind : CreateArrayOf(a, s, kind) => freed' = {}
        /\ \A item, b, f : Duplicate(item, b, f) => freed' = {}
    BY DEF Create, CreateArrayOf, Duplicate
  <2> QED
    BY <1>1, <2>1 DEF Making
<1>2. CASE Adding
  <2>1. /\ \A a, x : AddItemToArray(a, x) => freed' = {}
        /\ \A a, x, item : AddItemReferenceToArray(a, x, item) => freed' = {}
        /\ \A a, k, x, item : AddItemReferenceToObject(a, k, x, item) => freed' = {}
        /\ \A a, k, x : AddItemToObjectCS(a, k, x) => freed' = LiteralsOf(Unflagged({x}))
        /\ \A a, k, x : AddItemToObject(a, k, x) => freed' = LiteralsOf({x})
    BY DEF AddItemToArray, AddItemReferenceToArray, AddItemReferenceToObject,
           AddItemToObjectCS, AddItemToObject
  <2>2. \A x \in Node : LiteralsOf(Unflagged({x})) = {}
    BY UnflaggedFree
  <2>3. PICK a \in containers, x \in Node, k \in Keys : AddItemToObject(a, k, x)
    BY <1>2, <2>1, <2>2 DEF Adding
  <2>4. name[x].at = Literal
    BY <2>1, <2>3 DEF LiteralsOf
  <2>5. x \in consts
    BY <2>4, LiteralAssumption DEF NameInv, OwnName
  <2> QED
    BY <2>3, <2>4, <2>5 DEF RenamesLiteral
<1>3. CASE Editing
  <2>1. /\ \A a, c : DetachItem(a, c) => freed' = {}
        /\ \A a, c, x : InsertItemInArray(a, c, x) => freed' = {}
        /\ \A a, c : DeleteItem(a, c) => freed' = LiteralsOf(Unflagged(Tree(c)))
        /\ \A a, c, x : ReplaceItem(a, c, x) => freed' = LiteralsOf(Unflagged(Tree(c)))
    BY DEF DetachItem, InsertItemInArray, DeleteItem, Free, ReplaceItem, Replaced
  <2>2. /\ \A a, c, x : ReplaceItemInArray(a, c, x) => ReplaceItem(a, c, x)
        /\ \A a, k, c, x : ReplaceItemInObject(a, k, c, x) => ReplaceItem(a, c, x)
    BY DEF ReplaceItemInArray, ReplaceItemInObject
  <2>3. \A a : \A c \in Items(a) : Tree(c) \subseteq Node
    BY DEF Items, Chain, Tree, Deleted
  <2>4. \A a : \A c \in Items(a) : LiteralsOf(Unflagged(Tree(c))) = {}
    BY <2>3, UnflaggedFree
  <2> QED
    BY <1>3, <2>1, <2>2, <2>4 DEF Editing
<1>4. CASE Deleting
  <2>1. \A c : Delete(c) => freed' = LiteralsOf(Unflagged(Deleted(c)))
    BY DEF Delete, Free
  <2>2. \A c : LiteralsOf(Unflagged(Deleted(c))) = {}
    BY UnflaggedFree DEF Deleted
  <2> QED
    BY <1>4, <2>1, <2>2 DEF Deleting
<1> QED
  BY <1>1, <1>2, <1>3, <1>4 DEF Next

-----------------------------------------------------------------------------
\* A call allocates finitely many items.
LEMMA LiveFinite == StructInv /\ IsFiniteSet(live) /\ [Next]_vars => IsFiniteSet(live')
<1> SUFFICES ASSUME StructInv, IsFiniteSet(live), [Next]_vars PROVE IsFiniteSet(live')
  OBVIOUS
<1>1. ASSUME NEW n \in Node, live' = live \union {n} PROVE IsFiniteSet(live')
  BY <1>1, FS_AddElement
<1>2. ASSUME NEW a \in Node, NEW k \in 0..MaxCount, NEW kind \in Kinds \ {"container"},
             NEW s \in [1..k -> Node], CreateArrayOf(a, s, kind)
      PROVE  IsFiniteSet(live')
  <2> DEFINE M == {s[i] : i \in 1..k}
  <2>1. live' = (live \union {a}) \union M
    BY <1>2 DEF CreateArrayOf
  <2>2. IsFiniteSet(1..k)
    BY MaxCountAssumption, FS_Interval
  <2>3. IsFiniteSet(M)
    <3>1. s \in Surjection(1..k, M)
      BY DEF Surjection
    <3> QED
      BY <2>2, <3>1, FS_Surjection
  <2>4. IsFiniteSet(live \union {a})
    BY FS_AddElement
  <2> QED
    BY <2>1, <2>3, <2>4, FS_Union
<1>3. ASSUME NEW item \in live, NEW b \in BOOLEAN,
             NEW f \in [IF b THEN Tree(item) ELSE {item} -> Node \ live], Duplicate(item, b, f)
      PROVE  IsFiniteSet(live')
  <2> DEFINE C == IF b THEN Tree(item) ELSE {item}
             Fresh == {f[m] : m \in C}
  <2>1. live' = live \union Fresh
    BY <1>3 DEF Duplicate
  <2>2. C \in SUBSET live
    BY TreeFacts DEF StructInv
  <2>3. IsFiniteSet(C)
    BY <2>2, FS_Subset
  <2>4. IsFiniteSet(Fresh)
    <3> HIDE DEF C
    <3>1. f \in Surjection(C, Fresh)
      BY DEF Surjection, C
    <3> QED
      BY <2>3, <3>1, FS_Surjection
  <2> QED
    BY <2>1, <2>4, FS_Union
<1>4. ASSUME NEW D, live' = live \ D PROVE IsFiniteSet(live')
  BY <1>4, FS_Subset
<1>5. CASE live' = live
  BY <1>5
<1>6. CASE Making
  BY <1>1, <1>2, <1>3, <1>6 DEF Making, Create
<1>7. CASE Adding
  BY <1>1, <1>5, <1>7 DEF Adding, AddItemToArray, AddItemToObject, AddItemToObjectCS,
     AddItemReferenceToArray, AddItemReferenceToObject, Reference
<1>8. CASE Editing
  <2> SUFFICES ASSUME NEW a \in containers, NEW c \in Items(a),
                      \/ DetachItem(a, c) \/ DeleteItem(a, c)
                      \/ \E x \in roots : InsertItemInArray(a, c, x) \/ ReplaceItem(a, c, x)
               PROVE  IsFiniteSet(live')
    BY <1>8 DEF Editing, ReplaceItemInArray, ReplaceItemInObject
  <2>1. live' = live \/ \E D : live' = live \ D
    BY DEF DetachItem, DeleteItem, InsertItemInArray, ReplaceItem, Free
  <2> QED
    BY <1>4, <1>5, <2>1
<1>9. CASE Deleting
  BY <1>4, <1>9 DEF Deleting, Delete, Free
<1>10. CASE UNCHANGED vars
  BY <1>5, <1>10 DEF vars
<1> QED
  BY <1>6, <1>7, <1>8, <1>9, <1>10 DEF Next

\* In a finite set whose items each lead to another of the set, by next or to a
\* first child, no two lead to the same, so that one is left over to lead to each.
LEMMA WalksOut ==
    ASSUME ShapeNow, IsFiniteSet(live)
    PROVE  WalksEnd
<1> SUFFICES ASSUME NEW S \in SUBSET live, S # {}
             PROVE  \E n \in S : next[n] \notin S /\ OwnChild(n) \notin S
  <2>1. \A S \in (SUBSET live) \ {{}} : S \in SUBSET live /\ S # {}
    OBVIOUS
  <2> QED
    BY <2>1, Zenon DEF WalksEnd
<1> SUFFICES ASSUME \A n \in S : next[n] \in S \/ OwnChild(n) \in S PROVE FALSE
  OBVIOUS
<1> DEFINE g == [n \in S |-> IF next[n] \in S THEN next[n] ELSE OwnChild(n)]
<1>1. PICK o \in S : prev[o] \notin S /\ \A e \in S : OwnChild(e) # o
  BY NowFacts
<1>2. NULL \notin S
  BY NowFacts
<1>3. g \in [S -> S \ {o}]
  <2>1. ASSUME NEW n \in S PROVE g[n] \in S \ {o}
    <3>1. next[n] # o
      BY <1>1, <1>2, NowFacts
    <3> QED
      BY <1>1, <3>1
  <2> QED
    BY <2>1
<1>4. IsFiniteSet(S) /\ IsFiniteSet(S \ {o}) /\ Cardinality(S \ {o}) < Cardinality(S)
  <2>1. IsFiniteSet(S)
    BY FS_Subset
  <2>2. Cardinality(S) \in Nat /\ Cardinality(S \ {o}) = Cardinality(S) - 1
    BY <2>1, FS_CardinalityType, FS_RemoveElement
  <2> QED
    BY <2>1, <2>2, FS_RemoveElement
<1> HIDE DEF g
<1>5. PICK x, y \in S : x # y /\ g[x] = g[y]
  BY <1>3, <1>4, FS_PigeonHole
<1>6. ASSUME NEW n \in S
      PROVE  \/ g[n] = next[n] /\ prev[g[n]] = n
             \/ g[n] = OwnChild(n) /\ prev[g[n]] = NULL
  <2>1. CASE next[n] \in S
    BY <1>2, <2>1, NowFacts DEF g
  <2>2. CASE next[n] \notin S
    BY <1>2, <2>2, NowFacts DEF g
  <2> QED
    BY <2>1, <2>2
<1>7. x \in live /\ y \in live /\ g[x] # NULL
  BY <1>2, <1>3
<1> QED
  BY <1>2, <1>5, <1>6, <1>7, NowFacts

-----------------------------------------------------------------------------
(* The heap has the shape of lists, owned each by one container, whatever  *)
(* calls are made: the inductive invariant behind the theorems below.      *)
THEOREM StructInvariant == Spec => []StructInv
  BY StructInvInit, StructInvStep, PTL DEF Spec

(* Every variable keeps its type: a pointer is NULL or the address of a    *)
(* struct cJSON, and only what is allocated is in a list, held or flagged. *)
THEOREM HeapTypes == Spec => []TypeOK
<1> DEFINE Inv == StructInv /\ NameInv /\ freed \subseteq {Literal}
<1>1. Inv => TypeOK
  BY TypesNow DEF StructInv, Shares, NameInv, TypeOK
<1>2. Init => Inv
  <2>1. Init => freed = {}
    BY DEF Init
  <2> QED
    BY <2>1, StructInvInit, NameInvInit
<1>3. Inv /\ [Next]_vars => Inv'
  BY StructInvStep, NameInvStep, FreedStep
<1> QED
  BY <1>1, <1>2, <1>3, PTL DEF Spec

(* No sequence of adding, inserting, detaching, replacing, copying and     *)
(* deleting leaves next and prev disagreeing, an item with two owners, or  *)
(* an item of a list in the program's hands.                               *)
THEOREM ListsWellLinked == Spec => []WellLinked
<1>1. StructInv => WellLinked
  <2> SUFFICES ASSUME StructInv PROVE WellLinked
    OBVIOUS
  <2>1. ShapeNow
    BY DEF StructInv
  <2>2. \A a \in live : OwnChild(a) # NULL => OwnChild(a) = child[a]
    BY DEF OwnChild
  <2> QED
    BY <2>1, <2>2, NowFacts DEF WellLinked
<1> QED
  BY <1>1, StructInvariant, PTL

(* cJSON_Delete, the DeleteItem and the Replace calls free nothing that an *)
(* item still allocated points to, by a list, as an owner or as a          *)
(* reference.                                                              *)
THEOREM NothingDangles == Spec => []NoDangling
<1>1. StructInv => NoDangling
  <2> SUFFICES ASSUME StructInv, NEW n \in live
               PROVE  {next[n], prev[n], child[n], valuestring[n]} \subseteq live \union {NULL}
    BY DEF NoDangling
  <2>1. ShapeNow
    BY DEF StructInv
  <2>2. next[n] \in live \union {NULL} /\ prev[n] \in live \union {NULL}
    BY <2>1, NowFacts
  <2> QED
    BY <2>2, TypesNow
<1> QED
  BY <1>1, StructInvariant, PTL

(* A walk along next or down child, as printing, comparing and deleting    *)
(* take it, comes to an end: no sequence of calls closes a cycle.          *)
THEOREM NoCycles == Spec => []WalksEnd
<1>1. StructInv /\ IsFiniteSet(live) => WalksEnd
  BY WalksOut DEF StructInv
<1>2. Init => StructInv /\ IsFiniteSet(live)
  BY StructInvInit, FS_EmptySet DEF Init
<1>3. (StructInv /\ IsFiniteSet(live)) /\ [Next]_vars => (StructInv /\ IsFiniteSet(live))'
  BY StructInvStep, LiveFinite
<1> QED
  BY <1>1, <1>2, <1>3, PTL DEF Spec

(* What is allocated is below something the program holds: no call drops   *)
(* an item it should have freed or given back.                             *)
THEOREM NothingLost == Spec => []NoneLost
<1>1. StructInv => NoneLost
  <2> SUFFICES ASSUME StructInv PROVE NoneLost
    OBVIOUS
  <2> DEFINE U == UNION {Deleted(c) : c \in roots}
             S == live \ U
  <2>1. ShapeNow /\ roots \subseteq live
    BY TypesNow DEF StructInv
  <2>2. \A c \in roots : c \in Deleted(c) /\ Deleted(c) \subseteq live /\ OwnClosed(Deleted(c))
    BY <2>1, DeletedFacts
  <2>3. U \subseteq live
    BY <2>2
  <2>4. ASSUME S # {} PROVE FALSE
    <3>1. S \in SUBSET live
      OBVIOUS
    <3> HIDE DEF S
    <3>2. PICK n \in S : prev[n] \notin S /\ \A e \in S : OwnChild(e) # n
      BY <2>1, <2>4, <3>1, NowFacts
    <3>3. n \in live /\ n \notin U /\ n # NULL
      BY <2>1, <3>1, NowFacts DEF S
    <3>4. n \notin roots
      BY <2>2, <3>3
    <3>5. CASE prev[n] # NULL
      <4>1. prev[n] \in U /\ next[prev[n]] = n
        BY <2>1, <3>2, <3>3, <3>5, NowFacts DEF S
      <4>2. PICK c \in roots : prev[n] \in Deleted(c)
        BY <4>1
      <4>3. n \in Deleted(c)
        BY <2>2, <3>3, <4>1, <4>2 DEF OwnClosed
      <4> QED
        BY <3>3, <4>3
    <3>6. CASE prev[n] = NULL
      <4>1. PICK e \in live : OwnChild(e) = n
        BY <2>1, <3>3, <3>4, <3>6, NowFacts
      <4>2. e \in U
        BY <3>2, <4>1 DEF S
      <4>3. PICK c \in roots : e \in Deleted(c)
        BY <4>2
      <4>4. n \in Deleted(c)
        BY <2>2, <3>3, <4>1, <4>3 DEF OwnClosed
      <4> QED
        BY <3>3, <4>4
    <3> QED
      BY <3>5, <3>6
  <2> QED
    BY <2>3, <2>4 DEF NoneLost
<1> QED
  BY <1>1, StructInvariant, PTL

(* Adding, naming again, copying and replacing members, in any order and   *)
(* with literal names too, never leave two items with one allocated name,  *)
(* nor a literal in an item whose name cJSON_Delete frees.                 *)
THEOREM NamesHaveOneOwner == Spec => []NamesOwned
<1>1. StructInv /\ NameInv => NamesOwned
  BY TypesNow DEF NameInv, OwnName, NamesOwned
<1>2. Init => StructInv /\ NameInv
  BY StructInvInit, NameInvInit
<1>3. (StructInv /\ NameInv) /\ [Next]_vars => (StructInv /\ NameInv)'
  BY StructInvStep, NameInvStep
<1> QED
  BY <1>1, <1>2, <1>3, PTL DEF Spec

(* Whatever the program adds, renames, copies or deletes, no call frees a  *)
(* name that is a literal but AddItemToObject of an item that has it.      *)
THEOREM LiteralsAreKept == Spec => LiteralsKept
<1>1. StructInv /\ NameInv /\ [Next]_vars => [freed' # {} => RenamesLiteral]_vars
  BY LiteralStep
<1>2. Init => StructInv /\ NameInv
  BY StructInvInit, NameInvInit
<1>3. (StructInv /\ NameInv) /\ [Next]_vars => (StructInv /\ NameInv)'
  BY StructInvStep, NameInvStep
<1> QED
  BY <1>1, <1>2, <1>3, PTL DEF Spec, LiteralsKept

-----------------------------------------------------------------------------
(* The list a walk along next meets.                                       *)

IsList(s, c, nx) ==
    /\ s \in Seq(Node)
    /\ c = IF Len(s) = 0 THEN NULL ELSE s[1]
    /\ \A i \in 1..Len(s) : nx[s[i]] = IF i = Len(s) THEN NULL ELSE s[i + 1]

(* Of two such lists neither is longer.                                    *)
LEMMA ListPrefix ==
    ASSUME NEW nx, NEW c, NEW s, NEW t, IsList(s, c, nx), IsList(t, c, nx)
    PROVE  Len(s) <= Len(t) /\ \A i \in 1..Len(s) : s[i] = t[i]
<1> DEFINE m == Len(s)
           n == Len(t)
           I == {k \in 0..m : k <= n /\ \A i \in 1..k : s[i] = t[i]}
<1>1. m \in Nat /\ n \in Nat /\ (\A i \in 1..m : s[i] \in Node /\ s[i] # NULL) /\ \A i \in 1..n : t[i] \in Node
  BY NullAssumption, LenProperties, ElementOfSeq DEF IsList
<1>2. /\ c = IF m = 0 THEN NULL ELSE s[1]
      /\ c = IF n = 0 THEN NULL ELSE t[1]
      /\ \A i \in 1..m : nx[s[i]] = IF i = m THEN NULL ELSE s[i + 1]
      /\ \A i \in 1..n : nx[t[i]] = IF i = n THEN NULL ELSE t[i + 1]
  BY DEF IsList
<1> HIDE DEF m, n
<1>3. 0 \in I
  BY <1>1
<1>4. ASSUME NEW k \in 1..m, k - 1 \in I PROVE k \in I
  <2>1. k - 1 <= n /\ \A i \in 1..(k - 1) : s[i] = t[i]
    BY <1>4
  <2>2. CASE k = 1
    <3>1. s[1] # NULL /\ c = s[1]
      BY <1>1, <1>2, <2>2
    <3>2. n # 0 /\ t[1] = s[1]
      BY <1>1, <1>2, <3>1
    <3> QED
      BY <1>1, <2>2, <3>2
  <2>3. CASE k > 1
    <3>1. k - 1 \in 1..m /\ k - 1 # m /\ (k - 1) + 1 = k /\ k - 1 \in 1..(k - 1) /\ k - 1 \in 1..n
      BY <1>1, <2>1, <2>3
    <3>2. nx[s[k - 1]] = s[k] /\ s[k - 1] = t[k - 1] /\ s[k] # NULL
      BY <1>1, <1>2, <2>1, <3>1
    <3>3. k - 1 # n
      BY <1>2, <3>1, <3>2
    <3>4. t[k] = s[k]
      BY <1>2, <3>1, <3>2, <3>3
    <3>5. k <= n /\ k \in 0..m
      BY <1>1, <3>1, <3>3
    <3>6. \A i \in 1..k : s[i] = t[i]
      <4>1. \A i \in 1..k : i = k \/ i \in 1..(k - 1)
        OBVIOUS
      <4> QED
        BY <2>1, <3>4, <4>1
    <3> QED
      BY <3>5, <3>6
  <2> QED
    BY <2>2, <2>3
<1> HIDE DEF I
<1>5. \A k \in 0..m : k \in I
  BY <1>1, <1>3, <1>4, UpTo
<1>6. m \in I
  BY <1>1, <1>5
<1> QED
  BY <1>6 DEF I, m, n

(* So there is at most one.                                                *)
LEMMA ListUnique ==
    ASSUME NEW nx, NEW c, NEW s, NEW t, IsList(s, c, nx), IsList(t, c, nx)
    PROVE  s = t
<1>1. s \in Seq(Node) /\ t \in Seq(Node) /\ Len(s) \in Nat /\ Len(t) \in Nat
  BY LenProperties DEF IsList
<1>2. Len(s) <= Len(t) /\ \A i \in 1..Len(s) : s[i] = t[i]
  BY ListPrefix
<1>3. Len(t) <= Len(s)
  BY ListPrefix
<1> QED
  BY <1>1, <1>2, <1>3, SeqEqual

\* Every walk among the nodes of L comes to an end.
Ending(L, nx) ==
    /\ IsFiniteSet(L) /\ L \subseteq Node /\ nx \in [Node -> Pointers]
    /\ \A n \in L : nx[n] \in L \union {NULL}
    /\ \A n \in Node \ L : nx[n] = NULL
    /\ \A S \in SUBSET L : S # {} => \E n \in S : nx[n] \notin S

(* Then there is one list from each node.                                  *)
LEMMA ListExists ==
    ASSUME NEW L, NEW nx, Ending(L, nx), NEW c \in Pointers
    PROVE  \E s : IsList(s, c, nx)
<1> DEFINE n == Cardinality(L)
           V == L \union {NULL}
           step == [p \in V |-> IF p = NULL THEN NULL ELSE nx[p]]
           next_ == [i \in 1..n |-> step]
<1>1. L \subseteq Node /\ NULL \notin Node /\ n \in Nat /\ \A m \in L : nx[m] \in V
  BY NullAssumption, FS_CardinalityType DEF Ending
<1>2. CASE c = NULL
  <2>1. IsList(<<>>, c, nx)
    BY <1>2 DEF IsList
  <2> QED
    BY <2>1
<1>3. CASE c \in Node \ L
  <2>1. nx[c] = NULL
    BY <1>3 DEF Ending
  <2>2. IsList(<<c>>, c, nx)
    BY <1>3, <2>1 DEF IsList
  <2> QED
    BY <2>2
<1>4. CASE c \in L
  <2>1. PICK f : Follows(n, V, c, next_, f)
    <3>1. step \in [V -> V]
      BY <1>1
    <3> HIDE DEF step, n
    <3>2. next_ \in [1..n -> [V -> V]]
      BY <3>1
    <3> HIDE DEF next_
    <3>3. Steps(n, V, c, next_)
      BY <1>1, <1>4, <3>2 DEF Steps
    <3> HIDE DEF V
    <3> QED
      BY <3>3, Recursion
  <2>2. f \in [0..n -> V] /\ f[0] = c /\ \A i \in 1..n : f[i] = next_[i][f[i - 1]]
    BY <2>1 DEF Follows
  <2>3. ASSUME NEW i \in 1..n PROVE f[i] = IF f[i - 1] = NULL THEN NULL ELSE nx[f[i - 1]]
    <3>1. i - 1 \in 0..n
      BY <1>1
    <3>2. f[i - 1] \in V /\ next_[i] = step
      BY <2>2, <3>1
    <3>3. f[i] = step[f[i - 1]]
      BY <2>2, <3>2
    <3> QED
      BY <3>2, <3>3
  <2> HIDE DEF next_, step
  <2>4. \E i \in 0..n : f[i] = NULL
    <3> SUFFICES ASSUME \A i \in 0..n : f[i] # NULL PROVE FALSE
      OBVIOUS
    <3>1. f \in [0..n -> L]
      BY <2>2
    <3>2. IsFiniteSet(0..n) /\ Cardinality(0..n) = n + 1
      BY <1>1, FS_Interval
    <3>3. \E x, y \in 0..n : x # y /\ f[x] = f[y]
      <4>1. IsFiniteSet(L) /\ n < n + 1
        BY <1>1 DEF Ending
      <4> QED
        BY <3>1, <3>2, <4>1, FS_PigeonHole DEF n
    <3>4. PICK x, y \in 0..n : x < y /\ f[x] = f[y]
      BY <1>1, <3>3
    <3> DEFINE S == {f[i] : i \in x..(y - 1)}
    <3>5. S \in SUBSET L /\ S # {}
      <4>1. x \in x..(y - 1) /\ \A i \in x..(y - 1) : i \in 0..n
        BY <1>1, <3>4
      <4> QED
        BY <3>1, <4>1
    <3>6. \A i \in x..(y - 1) : nx[f[i]] \in S
      <4> SUFFICES ASSUME NEW i \in x..(y - 1) PROVE nx[f[i]] \in S
        OBVIOUS
      <4>1. i + 1 \in 1..n /\ (i + 1) - 1 = i /\ i \in 0..n
        BY <1>1, <3>4
      <4>2. f[i + 1] = nx[f[i]]
        BY <2>3, <4>1
      <4>3. CASE i = y - 1
        <5>1. i + 1 = y /\ x \in x..(y - 1)
          BY <3>4, <4>3
        <5> QED
          BY <3>4, <4>2, <5>1
      <4>4. CASE i # y - 1
        <5>1. i + 1 \in x..(y - 1)
          BY <3>4, <4>4
        <5> QED
          BY <4>2, <5>1
      <4> QED
        BY <4>3, <4>4
    <3>7. \E m \in S : nx[m] \notin S
      <4> HIDE DEF S
      <4> QED
        BY <3>5 DEF Ending
    <3> QED
      BY <3>6, <3>7
  <2> DEFINE Ends == {i \in 0..n : f[i] = NULL}
  <2>5. PICK k \in Ends : \A j \in Ends : k <= j
    <3>1. Ends \in SUBSET Nat /\ Ends # {}
      BY <1>1, <2>4
    <3> HIDE DEF Ends
    <3> QED
      BY <3>1, LeastNumber
  <2>6. k \in 0..n /\ f[k] = NULL /\ k # 0 /\ \A j \in 0..(k - 1) : f[j] \in L
    <3>1. k \in 0..n /\ f[k] = NULL /\ \A j \in 0..n : f[j] = NULL => k <= j
      BY <2>5
    <3>2. k # 0
      BY <1>1, <1>4, <2>2, <3>1
    <3>3. ASSUME NEW j \in 0..(k - 1) PROVE f[j] \in L
      <4>1. j \in 0..n /\ ~(k <= j)
        BY <1>1, <3>1
      <4>2. f[j] \in V /\ f[j] # NULL
        BY <2>2, <3>1, <4>1
      <4> QED
        BY <4>2
    <3> QED
      BY <3>1, <3>2, <3>3
  <2> DEFINE s == [i \in 1..k |-> f[i - 1]]
  <2>7. s \in Seq(Node) /\ Len(s) = k
    <3>1. \A i \in 1..k : i - 1 \in 0..(k - 1)
      BY <1>1
    <3>2. \A i \in 1..k : f[i - 1] \in Node
      BY <1>1, <2>6, <3>1
    <3>3. s \in [1..k -> Node] /\ k \in Nat
      BY <1>1, <2>6, <3>2
    <3> HIDE DEF s
    <3> QED
      BY <3>3, FunSeq
  <2>8. ASSUME NEW i \in 1..k PROVE nx[s[i]] = IF i = k THEN NULL ELSE s[i + 1]
    <3>1. i \in 1..n /\ i - 1 \in 0..(k - 1) /\ (i + 1) - 1 = i /\ s[i] = f[i - 1]
      BY <1>1, <2>6
    <3>2. f[i - 1] # NULL
      BY <1>1, <2>6, <3>1
    <3>3. f[i] = nx[s[i]]
      BY <2>3, <3>1, <3>2
    <3>4. i # k => s[i + 1] = f[i]
      <4>1. i # k => i + 1 \in 1..k
        BY <1>1, <2>6
      <4> QED
        BY <3>1, <4>1
    <3> QED
      BY <2>6, <3>3, <3>4
  <2>9. s[1] = c
    <3>1. 1 \in 1..k /\ 1 - 1 = 0
      BY <1>1, <2>6
    <3> QED
      BY <2>2, <3>1
  <2> HIDE DEF s
  <2>10. IsList(s, c, nx)
    BY <1>1, <2>6, <2>7, <2>8, <2>9 DEF IsList
  <2> QED
    BY <2>10
<1> QED
  BY <1>2, <1>3, <1>4 DEF Pointers

\* A list that starts in a closed set stays in it.
LEMMA ListWithin ==
    ASSUME NEW nx, NEW c, NEW s, NEW T, IsList(s, c, nx), c \in T \union {NULL},
           \A n \in T : nx[n] \in T \union {NULL}
    PROVE  \A i \in 1..Len(s) : s[i] \in T
<1> DEFINE m == Len(s)
           I == {k \in 0..m : k = 0 \/ s[k] \in T}
<1>1. m \in Nat /\ \A i \in 1..m : s[i] \in Node /\ s[i] # NULL
  BY NullAssumption, LenProperties, ElementOfSeq DEF IsList
<1>2. /\ c = IF m = 0 THEN NULL ELSE s[1]
      /\ \A i \in 1..m : nx[s[i]] = IF i = m THEN NULL ELSE s[i + 1]
  BY DEF IsList
<1> HIDE DEF m
<1>3. 0 \in I
  BY <1>1
<1>4. ASSUME NEW k \in 1..m, k - 1 \in I PROVE k \in I
  <2>1. CASE k = 1
    BY <1>1, <1>2, <2>1
  <2>2. CASE k > 1
    <3>1. k - 1 \in 1..m /\ k - 1 # m /\ (k - 1) + 1 = k /\ s[k - 1] \in T
      BY <1>1, <1>4, <2>2
    <3>2. nx[s[k - 1]] = s[k] /\ s[k] # NULL
      BY <1>1, <1>2, <3>1
    <3>3. s[k] \in T
      BY <3>1, <3>2
    <3> QED
      BY <1>1, <3>3
  <2> QED
    BY <2>1, <2>2
<1> HIDE DEF I
<1>5. \A k \in 0..m : k \in I
  BY <1>1, <1>3, <1>4, UpTo
<1> QED
  BY <1>1, <1>5 DEF I, m

\* A list and the node that leads to it are a list.
LEMMA ListLonger ==
    ASSUME NEW nx, NEW c \in Node, NEW s, IsList(s, nx[c], nx)
    PROVE  IsList(<<c>> \o s, c, nx)
<1> DEFINE t == <<c>> \o s
           m == Len(s)
<1>1. s \in Seq(Node) /\ <<c>> \in Seq(Node) /\ Len(<<c>>) = 1 /\ <<c>>[1] = c /\ m \in Nat
  BY LenProperties DEF IsList
<1>2. t \in Seq(Node) /\ Len(t) = 1 + m
      /\ \A i \in 1..(1 + m) : t[i] = IF i <= 1 THEN <<c>>[i] ELSE s[i - 1]
  BY <1>1, ConcatProperties
<1>3. /\ nx[c] = IF m = 0 THEN NULL ELSE s[1]
      /\ \A i \in 1..m : nx[s[i]] = IF i = m THEN NULL ELSE s[i + 1]
  BY DEF IsList
<1> HIDE DEF t, m
<1>4. t[1] = c
  BY <1>1, <1>2
<1>5. \A i \in 2..(1 + m) : t[i] = s[i - 1] /\ i - 1 \in 1..m
  BY <1>1, <1>2
<1>6. ASSUME NEW i \in 1..(1 + m) PROVE nx[t[i]] = IF i = 1 + m THEN NULL ELSE t[i + 1]
  <2>1. CASE i = 1
    <3>1. m # 0 => t[2] = s[1]
      <4>1. m # 0 => 2 \in 2..(1 + m)
        BY <1>1
      <4> QED
        BY <1>5, <4>1
    <3> QED
      BY <1>1, <1>3, <1>4, <2>1, <3>1
  <2>2. CASE i # 1
    <3>1. i \in 2..(1 + m) /\ i - 1 \in 1..m /\ (i - 1) + 1 = i /\ (i - 1 = m <=> i = 1 + m)
      BY <1>1, <2>2
    <3>2. nx[t[i]] = IF i - 1 = m THEN NULL ELSE s[i]
      BY <1>3, <1>5, <3>1
    <3>3. i # 1 + m => t[i + 1] = s[i]
      <4>1. i # 1 + m => i + 1 \in 2..(1 + m) /\ (i + 1) - 1 = i
        BY <1>1
      <4> QED
        BY <1>5, <4>1
    <3> QED
      BY <3>1, <3>2, <3>3
  <2> QED
    BY <2>1, <2>2
<1> QED
  BY <1>1, <1>2, <1>4, <1>6 DEF IsList, t

\* The walk that cJSON_GetArrayItem and its like make, node by node, is that list.
LEMMA ItemsFromDefined ==
    ASSUME Ending(live, next)
    PROVE  \A c \in Pointers : IsList(ItemsFrom[c], c, next)
<1> DEFINE R(g) == [n \in Pointers |-> IF n = NULL THEN <<>> ELSE <<n>> \o g[next[n]]]
           f == [c \in Pointers |-> CHOOSE s : IsList(s, c, next)]
<1>1. \A c \in Pointers : IsList(f[c], c, next)
  <2>1. \A c \in Pointers : \E s : IsList(s, c, next)
    BY ListExists
  <2> QED
    BY <2>1
<1> HIDE DEF f
<1>2. \A n \in Node : n # NULL /\ next[n] \in Pointers
  BY NullAssumption DEF Ending
<1>3. ASSUME NEW n \in Node PROVE f[n] = <<n>> \o f[next[n]]
  <2>1. IsList(f[next[n]], next[n], next) /\ n \in Pointers
    BY <1>1, <1>2 DEF Pointers
  <2>2. IsList(<<n>> \o f[next[n]], n, next)
    BY <2>1, ListLonger
  <2> QED
    BY <1>1, <2>1, <2>2, ListUnique
<1>4. f[NULL] = <<>>
  <2>1. IsList(<<>>, NULL, next)
    BY DEF IsList
  <2>2. IsList(f[NULL], NULL, next)
    BY <1>1 DEF Pointers
  <2> QED
    BY <2>1, <2>2, ListUnique
<1>5. f = R(f)
  <2>1. \A n \in Pointers : f[n] = IF n = NULL THEN <<>> ELSE <<n>> \o f[next[n]]
    BY <1>3, <1>4 DEF Pointers
  <2>2. f = [n \in Pointers |-> f[n]]
    BY DEF f
  <2> QED
    BY <2>1, <2>2
<1>6. ItemsFrom = CHOOSE g : g = R(g)
  BY DEF ItemsFrom
<1> HIDE DEF R
<1>7. ItemsFrom = R(ItemsFrom)
  BY <1>5, <1>6
<1>8. \A n \in Pointers : ItemsFrom[n] = IF n = NULL THEN <<>> ELSE <<n>> \o ItemsFrom[next[n]]
  <2> DEFINE g == ItemsFrom
  <2> HIDE DEF g
  <2>1. \A n \in Pointers : R(g)[n] = IF n = NULL THEN <<>> ELSE <<n>> \o g[next[n]]
    BY DEF R
  <2>2. g = R(g)
    BY <1>7 DEF g
  <2>3. \A n \in Pointers : g[n] = IF n = NULL THEN <<>> ELSE <<n>> \o g[next[n]]
    BY <2>1, <2>2
  <2> QED
    BY <2>3 DEF g
<1> DEFINE S == {n \in live : ItemsFrom[n] # f[n]}
<1>9. ItemsFrom[NULL] = f[NULL]
  BY <1>4, <1>8 DEF Pointers
<1>10. \A n \in Node : ItemsFrom[next[n]] = f[next[n]] => ItemsFrom[n] = f[n]
  BY <1>2, <1>3, <1>8 DEF Pointers
<1>11. \A n \in Node \ live : ItemsFrom[n] = f[n]
  BY <1>9, <1>10 DEF Ending
<1>12. S = {}
  <2> SUFFICES ASSUME S # {} PROVE FALSE
    OBVIOUS
  <2>1. PICK n \in S : next[n] \notin S
    BY DEF Ending
  <2>2. n \in live /\ n \in Node /\ next[n] \in live \union {NULL} /\ ItemsFrom[n] # f[n]
    BY DEF Ending
  <2>3. ItemsFrom[next[n]] = f[next[n]]
    BY <1>9, <2>1, <2>2
  <2> QED
    BY <1>10, <2>2, <2>3
<1>13. \A c \in Pointers : ItemsFrom[c] = f[c]
  BY <1>9, <1>11, <1>12 DEF Pointers
<1> QED
  BY <1>1, <1>13

-----------------------------------------------------------------------------
(* The children of every node.                                             *)
IsKids(K, ch, rf, nx) ==
    /\ K \in [Node -> Seq(Node)]
    /\ \A n \in Node : IsList(K[n], Oc(ch, rf, n), nx)

KidsOk == IsKids(kidsBar, child, refs, next)

LEMMA KidsUnique ==
    ASSUME NEW K, NEW J, NEW ch, NEW rf, NEW nx, IsKids(K, ch, rf, nx), IsKids(J, ch, rf, nx)
    PROVE  K = J
<1>1. \A n \in Node : K[n] = J[n]
  BY ListUnique DEF IsKids
<1> QED
  BY <1>1 DEF IsKids

\* The sequences of the abstraction are those lists.
LEMMA KidsNow ==
    ASSUME StructInv, IsFiniteSet(live)
    PROVE  KidsOk
<1>1. Ending(live, next)
  <2>1. ASSUME NEW S \in SUBSET live, S # {} PROVE \E n \in S : next[n] \notin S
    <3>1. WalksEnd
      BY WalksOut DEF StructInv
    <3>2. S \in (SUBSET live) \ {{}}
      BY <2>1
    <3> QED
      BY <3>1, <3>2, Zenon DEF WalksEnd
  <2>2. \A n \in live : next[n] \in live \union {NULL}
    BY NowFacts DEF StructInv
  <2> QED
    BY <2>1, <2>2, TypesNow DEF Ending
<1>2. \A c \in Pointers : IsList(ItemsFrom[c], c, next)
  BY <1>1, ItemsFromDefined
<1>3. \A n \in Node : OwnChild(n) = Oc(child, refs, n) /\ OwnChild(n) \in Pointers
  BY TypesNow DEF OwnChild, Oc, Pointers
<1>4. \A n \in Node : kidsBar[n] = ItemsFrom[OwnChild(n)]
  BY DEF kidsBar
<1>5. \A n \in Node : IsList(kidsBar[n], Oc(child, refs, n), next)
  BY <1>2, <1>3, <1>4
<1>6. kidsBar \in [Node -> Seq(Node)]
  BY <1>5 DEF kidsBar, IsList
<1> QED
  BY <1>5, <1>6 DEF KidsOk, IsKids

\* On a heap of that shape: the items of a list are allocated and not held, each
\* is before the next, and no item is in two places.
LEMMA KidsFacts ==
    ASSUME NEW L, NEW R, NEW nx, NEW pv, NEW ch, NEW rf, NEW K,
           Shape(L, R, nx, pv, ch, rf), IsKids(K, ch, rf, nx)
    PROVE  /\ \A n \in Node \ L : K[n] = <<>>
           /\ \A n \in Node : \A i \in 1..Len(K[n]) :
                 /\ K[n][i] \in L \ R
                 /\ nx[K[n][i]] = IF i = Len(K[n]) THEN NULL ELSE K[n][i + 1]
                 /\ pv[K[n][i]] = IF i = 1 THEN NULL ELSE K[n][i - 1]
           /\ \A n \in Node : Oc(ch, rf, n) = IF Len(K[n]) = 0 THEN NULL ELSE K[n][1]
           /\ \A n \in Node : K[n] \in Seq(Node) /\ Len(K[n]) \in Nat
           /\ \A m, n \in Node : \A i \in 1..Len(K[m]), j \in 1..Len(K[n]) :
                 K[m][i] = K[n][j] => m = n /\ i = j
<1>1. /\ L \subseteq Node /\ R \subseteq L /\ NULL \notin Node
      /\ \A n \in Node \ L : Oc(ch, rf, n) = NULL
  BY NullAssumption DEF Shape, ShapeTypes, Oc
<1>2. \A n \in Node : K[n] \in Seq(Node) /\ Len(K[n]) \in Nat
  BY LenProperties DEF IsKids, IsList
<1>3. /\ \A n \in Node : Oc(ch, rf, n) = IF Len(K[n]) = 0 THEN NULL ELSE K[n][1]
      /\ \A n \in Node : \A i \in 1..Len(K[n]) :
            nx[K[n][i]] = IF i = Len(K[n]) THEN NULL ELSE K[n][i + 1]
  BY DEF IsKids, IsList
<1>4. \A n \in Node : \A i \in 1..Len(K[n]) : K[n][i] \in L
  <2> SUFFICES ASSUME NEW n \in Node PROVE \A i \in 1..Len(K[n]) : K[n][i] \in L
    OBVIOUS
  <2>1. Oc(ch, rf, n) \in L \union {NULL} /\ \A m \in L : nx[m] \in L \union {NULL}
    BY <1>1 DEF Shape, Headed, Listed
  <2>2. IsList(K[n], Oc(ch, rf, n), nx)
    BY DEF IsKids
  <2> QED
    BY <2>1, <2>2, ListWithin
<1>5. \A n \in Node \ L : K[n] = <<>>
  <2> SUFFICES ASSUME NEW n \in Node \ L PROVE K[n] = <<>>
    OBVIOUS
  <2>1. Len(K[n]) = 0
    <3> SUFFICES ASSUME Len(K[n]) # 0 PROVE FALSE
      OBVIOUS
    <3>1. 1 \in 1..Len(K[n])
      BY <1>2
    <3>2. K[n][1] = NULL
      BY <1>1, <1>3
    <3> QED
      BY <1>1, <1>4, <3>1, <3>2
  <2> QED
    BY <1>2, <2>1, EmptySeq
<1>6. \A n \in Node : \A i \in 1..Len(K[n]) :
         pv[K[n][i]] = IF i = 1 THEN NULL ELSE K[n][i - 1]
  <2> SUFFICES ASSUME NEW n \in Node, NEW i \in 1..Len(K[n])
               PROVE  pv[K[n][i]] = IF i = 1 THEN NULL ELSE K[n][i - 1]
    OBVIOUS
  <2>1. K[n][i] # NULL /\ K[n][i] \in L
    BY <1>1, <1>4
  <2>2. CASE i = 1
    <3>1. n \in L
      <4> SUFFICES ASSUME n \notin L PROVE FALSE
        OBVIOUS
      <4>1. Len(K[n]) = 0
        BY <1>5
      <4> QED
        BY <4>1
    <3>2. Oc(ch, rf, n) = K[n][1]
      BY <1>2, <1>3, <2>2
    <3> QED
      BY <2>1, <2>2, <3>1, <3>2 DEF Shape, Headed
  <2>3. CASE i # 1
    <3>1. i - 1 \in 1..Len(K[n]) /\ i - 1 # Len(K[n]) /\ (i - 1) + 1 = i
      BY <1>2, <2>3
    <3>2. nx[K[n][i - 1]] = K[n][i] /\ K[n][i - 1] \in L
      BY <1>3, <1>4, <3>1
    <3> QED
      BY <2>1, <2>3, <3>2 DEF Shape, Listed
  <2> QED
    BY <2>2, <2>3
<1>7. \A n \in Node : \A i \in 1..Len(K[n]) : K[n][i] \notin R
  <2> SUFFICES ASSUME NEW n \in Node, NEW i \in 1..Len(K[n]), K[n][i] \in R PROVE FALSE
    OBVIOUS
  <2>1. pv[K[n][i]] = NULL /\ \A a \in L : Oc(ch, rf, a) # K[n][i]
    BY DEF Shape, Held
  <2>2. i = 1
    <3>1. i # 1 => i - 1 \in 1..Len(K[n])
      BY <1>2
    <3> QED
      BY <1>1, <1>4, <1>6, <2>1, <3>1
  <2>3. n \in L /\ Oc(ch, rf, n) = K[n][i]
    <3>1. Len(K[n]) # 0
      BY <1>2
    <3>2. n \in L
      <4> SUFFICES ASSUME n \notin L PROVE FALSE
        OBVIOUS
      <4>1. Len(K[n]) = 0
        BY <1>5
      <4> QED
        BY <3>1, <4>1
    <3> QED
      BY <1>3, <2>2, <3>1, <3>2
  <2> QED
    BY <2>1, <2>3
<1>8. ASSUME NEW m \in Node
      PROVE  \A i \in 1..Len(K[m]) : \A n \in Node : \A j \in 1..Len(K[n]) :
                K[m][i] = K[n][j] => m = n /\ i = j
  <2> DEFINE I == {i \in 0..Len(K[m]) : i = 0 \/ \A n \in Node : \A j \in 1..Len(K[n]) :
                      K[m][i] = K[n][j] => m = n /\ i = j}
             k == Len(K[m])
  <2>1. 0 \in I /\ k \in Nat
    BY <1>2
  <2>2. ASSUME NEW i \in 1..k, i - 1 \in I PROVE i \in I
    <3> SUFFICES ASSUME NEW n \in Node, NEW j \in 1..Len(K[n]), K[m][i] = K[n][j]
                 PROVE  m = n /\ i = j
      OBVIOUS
    <3>1. (j # 1 => j - 1 \in 1..Len(K[n])) /\ (i # 1 => i - 1 \in 1..Len(K[m]))
      BY <1>2
    <3>2. /\ i # 1 => K[m][i - 1] \in Node /\ pv[K[m][i]] = K[m][i - 1]
          /\ j # 1 => K[n][j - 1] \in Node /\ pv[K[n][j]] = K[n][j - 1]
          /\ i = 1 => pv[K[m][i]] = NULL
          /\ j = 1 => pv[K[n][j]] = NULL
      BY <1>1, <1>4, <1>6, <3>1
    <3>3. CASE i = 1
      <4>1. j = 1
        BY <1>1, <3>2, <3>3
      <4>2. Len(K[m]) # 0 /\ Len(K[n]) # 0
        BY <1>2
      <4>3. m \in L /\ n \in L
        <5>1. ASSUME NEW o \in Node, Len(K[o]) # 0 PROVE o \in L
          <6> SUFFICES ASSUME o \notin L PROVE FALSE
            OBVIOUS
          <6>1. Len(K[o]) = 0
            BY <1>5
          <6> QED
            BY <5>1, <6>1
        <5> QED
          BY <4>2, <5>1
      <4>4. Oc(ch, rf, m) = K[m][1] /\ Oc(ch, rf, n) = K[n][1] /\ K[m][1] # NULL
        BY <1>1, <1>3, <1>4, <3>3, <4>2
      <4> QED
        BY <3>3, <4>1, <4>3, <4>4 DEF Shape, Headed
    <3>4. CASE i # 1
      <4>1. j # 1
        BY <1>1, <3>2, <3>4
      <4>2. K[m][i - 1] = K[n][j - 1] /\ j - 1 \in 1..Len(K[n]) /\ i - 1 # 0
        BY <3>1, <3>2, <3>4, <4>1
      <4>3. m = n /\ i - 1 = j - 1
        BY <2>2, <4>2
      <4> QED
        BY <4>3
    <3> QED
      BY <3>3, <3>4
  <2> HIDE DEF I, k
  <2>3. \A i \in 0..k : i \in I
    BY <2>1, <2>2, UpTo
  <2> QED
    BY <2>1, <2>3 DEF I, k
<1> QED
  BY <1>2, <1>3, <1>4, <1>5, <1>6, <1>7, <1>8

-----------------------------------------------------------------------------
(* What the edits of Forest make of a sequence.                            *)
LEMMA Inserted ==
    ASSUME NEW s \in Seq(Node), NEW x \in Node, NEW i \in 1..(Len(s) + 1)
    PROVE  /\ F!InsertAt(s, i, x) \in Seq(Node)
           /\ Len(F!InsertAt(s, i, x)) = Len(s) + 1
           /\ \A j \in 1..(Len(s) + 1) :
                 F!InsertAt(s, i, x)[j] = IF j < i THEN s[j] ELSE IF j = i THEN x ELSE s[j - 1]
<1> DEFINE u == SubSeq(s, 1, i - 1)
           w == SubSeq(s, i, Len(s))
           m == Len(s)
<1>1. m \in Nat /\ i \in 1..(m + 1)
  BY LenProperties
<1>2. u \in Seq(Node) /\ Len(u) = i - 1 /\ \A j \in 1..(i - 1) : u[j] = s[j]
  BY <1>1
<1>3. w \in Seq(Node) /\ Len(w) = m - i + 1 /\ \A j \in 1..(m - i + 1) : w[j] = s[i + j - 1]
  BY <1>1
<1>4. F!InsertAt(s, i, x) = (u \o <<x>>) \o w
  BY DEF F!InsertAt
<1> HIDE DEF u, w, m
<1> DEFINE v == u \o <<x>>
           t == v \o w
<1>5. v \in Seq(Node) /\ Len(v) = i /\ \A j \in 1..i : v[j] = IF j <= i - 1 THEN u[j] ELSE x
  <2>1. v = Append(u, x)
    BY <1>2, AppendIsConcat
  <2> HIDE DEF v
  <2> QED
    BY <1>1, <1>2, <2>1, AppendProperties
<1> HIDE DEF v
<1>6. t \in Seq(Node) /\ Len(t) = m + 1
      /\ \A j \in 1..(m + 1) : t[j] = IF j <= i THEN v[j] ELSE w[j - i]
  BY <1>1, <1>3, <1>5, ConcatProperties
<1> HIDE DEF t
<1>7. ASSUME NEW j \in 1..(m + 1)
      PROVE  t[j] = IF j < i THEN s[j] ELSE IF j = i THEN x ELSE s[j - 1]
  <2>1. CASE j < i
    <3>1. j <= i /\ j \in 1..i /\ j <= i - 1 /\ j \in 1..(i - 1)
      BY <1>1, <2>1
    <3> QED
      BY <1>2, <1>5, <1>6, <2>1, <3>1
  <2>2. CASE j = i
    <3>1. j <= i /\ j \in 1..i /\ ~(j <= i - 1) /\ ~(j < i)
      BY <1>1, <2>2
    <3> QED
      BY <1>5, <1>6, <2>2, <3>1
  <2>3. CASE j > i
    <3>1. ~(j <= i) /\ j - i \in 1..(m - i + 1) /\ i + (j - i) - 1 = j - 1 /\ ~(j < i) /\ j # i
      BY <1>1, <2>3
    <3> QED
      BY <1>3, <1>6, <2>3, <3>1
  <2> QED
    BY <1>1, <2>1, <2>2, <2>3
<1> QED
  BY <1>4, <1>6, <1>7 DEF t, v, m

LEMMA Removed ==
    ASSUME NEW s \in Seq(Node), NEW i \in 1..Len(s)
    PROVE  /\ F!RemoveAt(s, i) \in Seq(Node)
           /\ Len(F!RemoveAt(s, i)) = Len(s) - 1
           /\ \A j \in 1..(Len(s) - 1) : F!RemoveAt(s, i)[j] = IF j < i THEN s[j] ELSE s[j + 1]
<1> DEFINE u == SubSeq(s, 1, i - 1)
           w == SubSeq(s, i + 1, Len(s))
           m == Len(s)
           t == u \o w
<1>1. m \in Nat /\ i \in 1..m
  BY LenProperties
<1>2. u \in Seq(Node) /\ Len(u) = i - 1 /\ \A j \in 1..(i - 1) : u[j] = s[j]
  BY <1>1
<1>3. w \in Seq(Node) /\ Len(w) = m - i /\ \A j \in 1..(m - i) : w[j] = s[i + j]
  <2>1. i + 1 \in 1..(m + 1) /\ \A j \in 1..(m - i) : (i + 1) + j - 1 = i + j
    BY <1>1
  <2> QED
    BY <1>1, <2>1
<1>4. F!RemoveAt(s, i) = t
  BY DEF F!RemoveAt
<1> HIDE DEF u, w, m
<1>5. t \in Seq(Node) /\ Len(t) = m - 1
      /\ \A j \in 1..(m - 1) : t[j] = IF j <= i - 1 THEN u[j] ELSE w[j - (i - 1)]
  <2>1. Len(u) + Len(w) = m - 1
    BY <1>1, <1>2, <1>3
  <2>2. t \in Seq(Node) /\ Len(t) = Len(u) + Len(w)
        /\ \A j \in 1..(Len(u) + Len(w)) : t[j] = IF j <= Len(u) THEN u[j] ELSE w[j - Len(u)]
    BY <1>2, <1>3, ConcatProperties
  <2> HIDE DEF t
  <2> QED
    BY <1>2, <2>1, <2>2
<1> HIDE DEF t
<1>6. ASSUME NEW j \in 1..(m - 1)
      PROVE  t[j] = IF j < i THEN s[j] ELSE s[j + 1]
  <2>1. CASE j < i
    <3>1. j <= i - 1 /\ j \in 1..(i - 1)
      BY <1>1, <2>1
    <3> QED
      BY <1>2, <1>5, <2>1, <3>1
  <2>2. CASE ~(j < i)
    <3>1. ~(j <= i - 1) /\ j - (i - 1) \in 1..(m - i) /\ i + (j - (i - 1)) = j + 1
      BY <1>1, <2>2
    <3> QED
      BY <1>3, <1>5, <2>2, <3>1
  <2> QED
    BY <2>1, <2>2
<1> QED
  BY <1>4, <1>5, <1>6 DEF m

\* Putting x before the i-th and taking out the one it was put before is replacing.
LEMMA ReplacedIs ==
    ASSUME NEW s \in Seq(Node), NEW x \in Node, NEW i \in 1..Len(s)
    PROVE  F!RemoveAt(F!InsertAt(s, i, x), i + 1) = F!ReplaceAt(s, i, x)
<1> DEFINE m == Len(s)
           t == F!InsertAt(s, i, x)
           u == F!RemoveAt(t, i + 1)
           w == F!ReplaceAt(s, i, x)
<1>1. m \in Nat /\ i \in 1..m /\ i \in 1..(m + 1)
  BY LenProperties
<1>2. /\ t \in Seq(Node) /\ Len(t) = m + 1
      /\ \A j \in 1..(m + 1) : t[j] = IF j < i THEN s[j] ELSE IF j = i THEN x ELSE s[j - 1]
  BY <1>1, Inserted
<1>3. /\ w \in Seq(Node) /\ Len(w) = m
      /\ \A j \in 1..m : w[j] = IF j = i THEN x ELSE s[j]
  BY <1>1, ExceptSeq DEF F!ReplaceAt
<1> HIDE DEF t, w, m
<1>4. i + 1 \in 1..Len(t)
  BY <1>1, <1>2
<1>5. /\ u \in Seq(Node) /\ Len(u) = m
      /\ \A j \in 1..m : u[j] = IF j < i + 1 THEN t[j] ELSE t[j + 1]
  <2>1. /\ u \in Seq(Node) /\ Len(u) = Len(t) - 1
        /\ \A j \in 1..(Len(t) - 1) : u[j] = IF j < i + 1 THEN t[j] ELSE t[j + 1]
    BY <1>2, <1>4, Removed
  <2>2. Len(t) - 1 = m
    BY <1>1, <1>2
  <2> QED
    BY <2>1, <2>2
<1> HIDE DEF u
<1>6. ASSUME NEW j \in 1..m PROVE u[j] = w[j]
  <2>1. j \in 1..(m + 1) /\ j + 1 \in 1..(m + 1) /\ (j + 1) - 1 = j
    BY <1>1
  <2>2. CASE j < i
    <3>1. j < i + 1 /\ j # i
      BY <1>1, <2>2
    <3> QED
      BY <1>2, <1>3, <1>5, <2>1, <2>2, <3>1
  <2>3. CASE j = i
    <3>1. j < i + 1 /\ ~(j < i)
      BY <1>1, <2>3
    <3> QED
      BY <1>2, <1>3, <1>5, <2>1, <2>3, <3>1
  <2>4. CASE j > i
    <3>1. ~(j < i + 1) /\ ~(j + 1 < i) /\ j + 1 # i /\ j # i
      BY <1>1, <2>4
    <3> QED
      BY SMTT(30), <1>2, <1>3, <1>5, <2>1, <3>1
  <2> QED
    BY <1>1, <2>2, <2>3, <2>4
<1>7. u = w
  BY <1>3, <1>5, <1>6, SeqEqual
<1> QED
  BY <1>7 DEF u, w, t

-----------------------------------------------------------------------------
\* One list changes, to s; no call touches the links of another.
LEMMA OneList ==
    ASSUME NEW K, NEW ch, NEW rf, NEW nx, NEW ch1, NEW rf1, NEW nx1, NEW a \in Node, NEW s,
           IsKids(K, ch, rf, nx), IsList(s, Oc(ch1, rf1, a), nx1),
           \A n \in Node \ {a} : /\ Oc(ch1, rf1, n) = Oc(ch, rf, n)
                                 /\ \A i \in 1..Len(K[n]) : nx1[K[n][i]] = nx[K[n][i]]
    PROVE  IsKids([K EXCEPT ![a] = s], ch1, rf1, nx1)
<1> DEFINE J == [K EXCEPT ![a] = s]
<1>1. K \in [Node -> Seq(Node)] /\ s \in Seq(Node)
  BY DEF IsKids, IsList
<1>2. J \in [Node -> Seq(Node)] /\ J[a] = s /\ \A n \in Node \ {a} : J[n] = K[n]
  BY <1>1
<1> HIDE DEF J
<1>3. ASSUME NEW n \in Node PROVE IsList(J[n], Oc(ch1, rf1, n), nx1)
  <2>1. CASE n = a
    BY <1>2, <2>1
  <2>2. CASE n # a
    BY SMTT(30), <1>2, <2>2 DEF IsKids, IsList
  <2> QED
    BY <2>1, <2>2
<1> QED
  BY <1>2, <1>3 DEF IsKids, J

\* The pointers after x was linked in behind the last child of a.
Appends(K, a, x, ch, rf, nx, ch1, rf1, nx1) ==
    /\ nx[x] = NULL
    /\ \A n \in Node : \A i \in 1..Len(K[n]) : K[n][i] # x
    /\ \A n \in Node : Oc(ch1, rf1, n) = IF n = a /\ K[a] = <<>> THEN x ELSE Oc(ch, rf, n)
    /\ \A n \in Node : nx1[n] = IF K[a] # <<>> /\ n = K[a][Len(K[a])] THEN x ELSE nx[n]

\* x, which is in no list, behind the last item of a.
LEMMA AppendKids ==
    ASSUME NEW L, NEW R, NEW nx, NEW pv, NEW ch, NEW rf, NEW K, NEW ch1, NEW rf1, NEW nx1,
           NEW a \in Node, NEW x \in Node,
           Shape(L, R, nx, pv, ch, rf), IsKids(K, ch, rf, nx),
           Appends(K, a, x, ch, rf, nx, ch1, rf1, nx1)
    PROVE  IsKids([K EXCEPT ![a] = F!InsertAt(@, Len(@) + 1, x)], ch1, rf1, nx1)
<1> SUFFICES ASSUME
        nx[x] = NULL,
        \A n \in Node : \A i \in 1..Len(K[n]) : K[n][i] # x,
        \A n \in Node : Oc(ch1, rf1, n) = IF n = a /\ K[a] = <<>> THEN x ELSE Oc(ch, rf, n),
        \A n \in Node : nx1[n] = IF K[a] # <<>> /\ n = K[a][Len(K[a])] THEN x ELSE nx[n]
    PROVE  IsKids([K EXCEPT ![a] = F!InsertAt(@, Len(@) + 1, x)], ch1, rf1, nx1)
  BY DEF Appends
<1> DEFINE s == K[a]
           m == Len(s)
           t == F!InsertAt(s, m + 1, x)
<1>1. /\ \A n \in Node : \A i \in 1..Len(K[n]) : K[n][i] \in L \ R
      /\ \A i \in 1..m : nx[s[i]] = IF i = m THEN NULL ELSE s[i + 1]
      /\ Oc(ch, rf, a) = IF m = 0 THEN NULL ELSE s[1]
      /\ s \in Seq(Node) /\ m \in Nat
  BY KidsFacts
<1>2. \A n \in Node : \A i \in 1..Len(K[n]), j \in 1..m : K[n][i] = s[j] => n = a /\ i = j
  BY KidsFacts
<1>3. (s = <<>> <=> m = 0) /\ L \subseteq Node
  BY <1>1, EmptySeq DEF Shape, ShapeTypes
<1>4. /\ t \in Seq(Node) /\ Len(t) = m + 1
      /\ \A j \in 1..(m + 1) : t[j] = IF j < m + 1 THEN s[j] ELSE x
  <2>1. m + 1 \in 1..(m + 1) /\ \A j \in 1..(m + 1) : ~(j < m + 1) => j = m + 1
    BY <1>1
  <2> HIDE DEF s
  <2>2. /\ t \in Seq(Node) /\ Len(t) = m + 1
        /\ \A j \in 1..(m + 1) : t[j] = IF j < m + 1 THEN s[j] ELSE IF j = m + 1 THEN x ELSE s[j - 1]
    <3> DEFINE i == m + 1
    <3>1. i \in 1..(m + 1) /\ s \in Seq(Node)
      BY <1>1, <2>1
    <3> HIDE DEF i
    <3>2. LET u == F!InsertAt(s, i, x)
          IN  /\ u \in Seq(Node) /\ Len(u) = Len(s) + 1
              /\ \A j \in 1..(Len(s) + 1) : u[j] = IF j < i THEN s[j] ELSE IF j = i THEN x ELSE s[j - 1]
      BY <3>1, Inserted
    <3> QED
      BY <3>2 DEF i
  <2> HIDE DEF t, m
  <2> QED
    BY <2>1, <2>2
<1>5. \A i \in 1..m : s[i] \in Node /\ s[i] # x
  BY <1>1, <1>3
<1> HIDE DEF t
<1>6. IsList(t, Oc(ch1, rf1, a), nx1)
  <2>1. 1 \in 1..(m + 1) /\ Len(t) # 0 /\ m + 1 \in 1..(m + 1)
    BY <1>1, <1>4
  <2>2. Oc(ch1, rf1, a) = t[1]
    BY <1>1, <1>3, <1>4, <2>1
  <2>3. ASSUME NEW j \in 1..(m + 1) PROVE nx1[t[j]] = IF j = m + 1 THEN NULL ELSE t[j + 1]
    <3>1. CASE j = m + 1
      <4>1. t[j] = x
        BY <1>1, <1>4, <3>1
      <4>2. m # 0 => s[m] # x
        <5>1. m # 0 => m \in 1..m
          BY <1>1
        <5> QED
          BY <1>5, <5>1
      <4> QED
        BY <1>3, <3>1, <4>1, <4>2
    <3>2. CASE j = m
      <4>1. j \in 1..m /\ j < m + 1 /\ m # 0 /\ ~(m + 1 < m + 1)
        BY <1>1, <3>2
      <4>2. t[j] = s[m] /\ t[m + 1] = x /\ s[m] \in Node
        BY <1>4, <1>5, <2>1, <3>2, <4>1
      <4> QED
        BY <1>1, <1>3, <3>2, <4>1, <4>2
    <3>3. CASE j < m
      <4>1. j \in 1..m /\ j < m + 1 /\ j + 1 \in 1..(m + 1) /\ j + 1 < m + 1 /\ m \in 1..m /\ j # m
        BY <1>1, <3>3
      <4>2. t[j] = s[j] /\ t[j + 1] = s[j + 1] /\ s[j] \in Node /\ s[j] # s[m]
        BY <1>2, <1>4, <1>5, <4>1
      <4> QED
        BY <1>1, <3>3, <4>1, <4>2
    <3> QED
      BY <1>1, <3>1, <3>2, <3>3
  <2> QED
    BY <1>4, <2>1, <2>2, <2>3 DEF IsList
<1>7. ASSUME NEW n \in Node \ {a}
      PROVE  /\ Oc(ch1, rf1, n) = Oc(ch, rf, n)
             /\ \A i \in 1..Len(K[n]) : nx1[K[n][i]] = nx[K[n][i]]
  <2>1. m # 0 => m \in 1..m
    BY <1>1
  <2> QED
    BY <1>1, <1>2, <1>3, <2>1
<1>8. IsKids([K EXCEPT ![a] = t], ch1, rf1, nx1)
  <2> HIDE DEF s, m
  <2> QED
    BY <1>6, <1>7, OneList
<1> QED
  BY <1>8 DEF t

-----------------------------------------------------------------------------
(* What the edits of the pointers make of the children.                    *)
\* x, which is in no list, before the i-th item of a.
LEMMA InsertKids ==
    ASSUME NEW L, NEW R, NEW nx, NEW pv, NEW ch, NEW rf, NEW K,
           NEW a \in L \ rf, NEW i \in 1..Len(K[a]), NEW x \in R,
           Shape(L, R, nx, pv, ch, rf), IsKids(K, ch, rf, nx)
    PROVE  IsKids([K EXCEPT ![a] = F!InsertAt(@, i, x)], ChildPut(ch, a, K[a][i], x), rf,
                  NextPut(nx, pv, ch, a, K[a][i], x))
<1> DEFINE s == K[a]
           m == Len(s)
           c == s[i]
           t == F!InsertAt(s, i, x)
           ch1 == ChildPut(ch, a, c, x)
           nx1 == NextPut(nx, pv, ch, a, c, x)
<1>1. /\ a \in Node /\ x \in Node /\ NULL \notin Node /\ L \subseteq Node /\ R \subseteq L
      /\ ch \in [Node -> Pointers]
  BY NullAssumption DEF Shape, ShapeTypes
<1>2. /\ \A n \in Node : \A j \in 1..Len(K[n]) : K[n][j] \in L \ R
      /\ \A j \in 1..m : nx[s[j]] = IF j = m THEN NULL ELSE s[j + 1]
      /\ \A j \in 1..m : pv[s[j]] = IF j = 1 THEN NULL ELSE s[j - 1]
      /\ Oc(ch, rf, a) = IF m = 0 THEN NULL ELSE s[1]
      /\ s \in Seq(Node) /\ m \in Nat
  <2>1. /\ \A n \in Node : \A j \in 1..Len(K[n]) :
              /\ K[n][j] \in L \ R
              /\ nx[K[n][j]] = IF j = Len(K[n]) THEN NULL ELSE K[n][j + 1]
              /\ pv[K[n][j]] = IF j = 1 THEN NULL ELSE K[n][j - 1]
        /\ \A n \in Node : Oc(ch, rf, n) = IF Len(K[n]) = 0 THEN NULL ELSE K[n][1]
        /\ \A n \in Node : K[n] \in Seq(Node) /\ Len(K[n]) \in Nat
    BY SMTT(30), KidsFacts
  <2>2. \A n \in Node : \A j \in 1..Len(K[n]) : K[n][j] \in L \ R
    BY <2>1
  <2>3. /\ \A j \in 1..m : nx[s[j]] = IF j = m THEN NULL ELSE s[j + 1]
        /\ \A j \in 1..m : pv[s[j]] = IF j = 1 THEN NULL ELSE s[j - 1]
    BY <1>1, <2>1
  <2>4. /\ Oc(ch, rf, a) = IF m = 0 THEN NULL ELSE s[1]
        /\ s \in Seq(Node) /\ m \in Nat
    BY <1>1, <2>1
  <2> HIDE DEF s, m
  <2> QED
    BY <2>2, <2>3, <2>4
<1>3. \A n \in Node : \A j \in 1..Len(K[n]), k \in 1..m : K[n][j] = s[k] => n = a /\ j = k
  BY <1>1, KidsFacts
<1>4. /\ i \in 1..m /\ c \in Node /\ c # x /\ m # 0 /\ 1 \in 1..m /\ (i # 1 => i - 1 \in 1..m)
      /\ \A j \in 1..m : s[j] \in Node /\ s[j] # x
  BY <1>1, <1>2
<1>5. ch[a] = s[1] /\ (c = ch[a] <=> i = 1)
  <2>1. ch[a] = s[1]
    BY <1>2, <1>4 DEF Oc
  <2> QED
    BY <1>1, <1>3, <1>4, <2>1
<1>6. /\ t \in Seq(Node) /\ Len(t) = m + 1
      /\ \A j \in 1..(m + 1) : t[j] = IF j < i THEN s[j] ELSE IF j = i THEN x ELSE s[j - 1]
  <2>1. i \in 1..(m + 1)
    BY <1>2, <1>4
  <2> HIDE DEF s
  <2> QED
    BY <1>1, <1>2, <2>1, Inserted DEF m
<1>7. /\ \A n \in Node : Oc(ch1, rf, n) = IF n = a /\ i = 1 THEN x ELSE Oc(ch, rf, n)
      /\ \A n \in Node : nx1[n] = IF n = x THEN c ELSE IF i # 1 /\ n = pv[c] THEN x ELSE nx[n]
  <2> HIDE DEF c
  <2>1. \A n \in Node : ch1[n] = IF n = a /\ i = 1 THEN x ELSE ch[n]
    BY <1>1, <1>5 DEF ChildPut
  <2>2. \A n \in Node : nx1[n] = IF n = x THEN c ELSE IF i # 1 /\ n = pv[c] THEN x ELSE nx[n]
    BY <1>5 DEF NextPut
  <2> HIDE DEF ch1, nx1
  <2> QED
    BY <2>1, <2>2 DEF Oc
<1>8. pv[c] = IF i = 1 THEN NULL ELSE s[i - 1]
  BY <1>2, <1>4
<1> HIDE DEF ch1, nx1, t, c
<1>9. IsList(t, Oc(ch1, rf, a), nx1)
  <2>1. 1 \in 1..(m + 1) /\ Len(t) # 0
    BY <1>2, <1>6
  <2>2. Oc(ch1, rf, a) = t[1]
    <3>1. CASE i = 1
      BY <1>1, <1>6, <1>7, <2>1, <3>1
    <3>2. CASE i # 1
      <4>1. 1 < i
        BY <1>4, <3>2
      <4> QED
        BY <1>1, <1>2, <1>4, <1>6, <1>7, <2>1, <3>2, <4>1
    <3> QED
      BY <3>1, <3>2
  <2>3. ASSUME NEW j \in 1..(m + 1) PROVE nx1[t[j]] = IF j = m + 1 THEN NULL ELSE t[j + 1]
    <3>1. CASE j < i - 1
      <4>1. j \in 1..m /\ j < i /\ j + 1 < i /\ j + 1 \in 1..(m + 1) /\ j # m /\ j # m + 1 /\ j # i - 1 /\ i # 1
        BY SMTT(30), <1>2, <1>4, <3>1
      <4>2. t[j] = s[j] /\ t[j + 1] = s[j + 1] /\ s[j] \in Node /\ s[j] # x /\ s[j] # s[i - 1]
        BY <1>1, <1>3, <1>4, <1>6, <4>1
      <4>3. nx1[s[j]] = nx[s[j]]
        BY <1>7, <1>8, <4>1, <4>2
      <4> QED
        BY <1>2, <4>1, <4>2, <4>3
    <3>2. CASE j = i - 1
      <4>1. j \in 1..m /\ j < i /\ j + 1 = i /\ i \in 1..(m + 1) /\ j # m + 1 /\ i # 1 /\ ~(i < i)
        BY <1>2, <1>4, <3>2
      <4>2. t[j] = s[i - 1] /\ t[i] = x /\ s[i - 1] \in Node /\ s[i - 1] # x
        BY <1>4, <1>6, <3>2, <4>1
      <4>3. nx1[s[i - 1]] = x
        BY <1>7, <1>8, <4>1, <4>2
      <4> QED
        BY <4>1, <4>2, <4>3
    <3>3. CASE j = i
      <4>1. ~(j < i) /\ j # m + 1 /\ j + 1 \in 1..(m + 1) /\ ~(j + 1 < i) /\ j + 1 # i /\ (j + 1) - 1 = i
        BY <1>2, <1>4, <3>3
      <4>2. t[j] = x /\ t[j + 1] = c
        BY <1>6, <3>3, <4>1 DEF c
      <4> QED
        BY <1>1, <1>7, <4>1, <4>2
    <3>4. CASE j > i
      <4>1. /\ ~(j < i) /\ j # i /\ j - 1 \in 1..m /\ (j - 1) + 1 = j /\ (j = m + 1 <=> j - 1 = m)
            /\ (j # m + 1 => j + 1 \in 1..(m + 1) /\ ~(j + 1 < i) /\ j + 1 # i /\ (j + 1) - 1 = j)
            /\ j - 1 # i - 1
        BY <1>2, <1>4, <3>4
      <4>2. t[j] = s[j - 1] /\ s[j - 1] \in Node /\ s[j - 1] # x /\ (i # 1 => s[j - 1] # s[i - 1])
        BY <1>1, <1>3, <1>4, <1>6, <4>1
      <4>3. nx1[s[j - 1]] = nx[s[j - 1]]
        BY <1>7, <1>8, <4>2
      <4>4. nx[s[j - 1]] = IF j = m + 1 THEN NULL ELSE s[j]
        BY <1>2, <4>1
      <4>5. j # m + 1 => t[j + 1] = s[j]
        BY <1>6, <4>1
      <4> QED
        BY <4>2, <4>3, <4>4, <4>5
    <3> QED
      BY <1>4, <3>1, <3>2, <3>3, <3>4
  <2> QED
    BY <1>6, <2>1, <2>2, <2>3 DEF IsList
<1>10. ASSUME NEW n \in Node \ {a}
       PROVE  /\ Oc(ch1, rf, n) = Oc(ch, rf, n)
              /\ \A j \in 1..Len(K[n]) : nx1[K[n][j]] = nx[K[n][j]]
  <2>1. ASSUME NEW j \in 1..Len(K[n]) PROVE nx1[K[n][j]] = nx[K[n][j]]
    <3>1. K[n][j] \in Node /\ K[n][j] # x
      BY <1>1, <1>2
    <3>2. i # 1 => K[n][j] # s[i - 1]
      BY <1>3, <1>4
    <3> QED
      BY <1>7, <1>8, <3>1, <3>2
  <2> QED
    BY <1>7, <2>1
<1>11. IsKids([K EXCEPT ![a] = t], ch1, rf, nx1)
  <2> HIDE DEF s, m
  <2> QED
    BY <1>1, <1>9, <1>10, OneList
<1> QED
  BY <1>11 DEF t, ch1, nx1, c

\* The i-th item of a taken out.
LEMMA DetachKids ==
    ASSUME NEW L, NEW R, NEW nx, NEW pv, NEW ch, NEW rf, NEW K,
           NEW a \in L \ rf, NEW i \in 1..Len(K[a]),
           Shape(L, R, nx, pv, ch, rf), IsKids(K, ch, rf, nx)
    PROVE  IsKids([K EXCEPT ![a] = F!RemoveAt(@, i)], ChildLeft(nx, ch, a, K[a][i]), rf,
                  NextLeft(nx, pv, K[a][i]))
<1> DEFINE s == K[a]
           m == Len(s)
           c == s[i]
           t == F!RemoveAt(s, i)
           ch1 == ChildLeft(nx, ch, a, c)
           nx1 == NextLeft(nx, pv, c)
<1>1. /\ a \in Node /\ NULL \notin Node /\ L \subseteq Node
      /\ ch \in [Node -> Pointers]
  BY NullAssumption DEF Shape, ShapeTypes
<1>2. /\ \A n \in Node : \A j \in 1..Len(K[n]) : K[n][j] \in L
      /\ \A j \in 1..m : nx[s[j]] = IF j = m THEN NULL ELSE s[j + 1]
      /\ \A j \in 1..m : pv[s[j]] = IF j = 1 THEN NULL ELSE s[j - 1]
      /\ Oc(ch, rf, a) = IF m = 0 THEN NULL ELSE s[1]
      /\ s \in Seq(Node) /\ m \in Nat
  <2>1. /\ \A n \in Node : \A j \in 1..Len(K[n]) :
              /\ K[n][j] \in L \ R
              /\ nx[K[n][j]] = IF j = Len(K[n]) THEN NULL ELSE K[n][j + 1]
              /\ pv[K[n][j]] = IF j = 1 THEN NULL ELSE K[n][j - 1]
        /\ \A n \in Node : Oc(ch, rf, n) = IF Len(K[n]) = 0 THEN NULL ELSE K[n][1]
        /\ \A n \in Node : K[n] \in Seq(Node) /\ Len(K[n]) \in Nat
    BY KidsFacts
  <2> QED
    BY <1>1, <2>1
<1>3. \A n \in Node : \A j \in 1..Len(K[n]), k \in 1..m : K[n][j] = s[k] => n = a /\ j = k
  BY <1>1, KidsFacts
<1>4. /\ i \in 1..m /\ c \in Node /\ m # 0 /\ 1 \in 1..m /\ (i # 1 => i - 1 \in 1..m)
      /\ \A j \in 1..m : s[j] \in Node
  BY <1>1, <1>2
<1>5. ch[a] = s[1] /\ (c = ch[a] <=> i = 1)
  <2>1. ch[a] = s[1]
    BY <1>2, <1>4 DEF Oc
  <2> QED
    BY <1>1, <1>3, <1>4, <2>1
<1>6. /\ t \in Seq(Node) /\ Len(t) = m - 1
      /\ \A j \in 1..(m - 1) : t[j] = IF j < i THEN s[j] ELSE s[j + 1]
  <2> HIDE DEF s
  <2> QED
    BY <1>2, <1>4, Removed DEF m
<1>7. /\ \A n \in Node : Oc(ch1, rf, n) = IF n = a /\ i = 1 THEN nx[c] ELSE Oc(ch, rf, n)
      /\ \A n \in Node : nx1[n] = IF n = c THEN NULL ELSE IF n = pv[c] THEN nx[c] ELSE nx[n]
  <2> HIDE DEF c
  <2>1. \A n \in Node : ch1[n] = IF n = a /\ i = 1 THEN nx[c] ELSE ch[n]
    BY <1>1, <1>5 DEF ChildLeft
  <2>2. \A n \in Node : nx1[n] = IF n = c THEN NULL ELSE IF n = pv[c] THEN nx[c] ELSE nx[n]
    BY DEF NextLeft
  <2> HIDE DEF ch1, nx1
  <2> QED
    BY <2>1, <2>2 DEF Oc
<1>8. /\ pv[c] = IF i = 1 THEN NULL ELSE s[i - 1]
      /\ nx[c] = IF i = m THEN NULL ELSE s[i + 1]
  BY <1>2, <1>4
<1> HIDE DEF ch1, nx1, t, c
<1>9. IsList(t, Oc(ch1, rf, a), nx1)
  <2>1. Oc(ch1, rf, a) = IF Len(t) = 0 THEN NULL ELSE t[1]
    <3>1. m # 1 => 1 \in 1..(m - 1)
      <4> HIDE DEF m
      <4> QED
        BY <1>2, <1>4
    <3>2. CASE i = 1
      BY <1>1, <1>2, <1>6, <1>7, <1>8, <3>1, <3>2
    <3>3. CASE i # 1
      <4>1. 1 < i /\ m # 1 /\ m - 1 # 0
        BY <1>2, <1>4, <3>3
      <4> QED
        BY <1>1, <1>2, <1>4, <1>6, <1>7, <3>1, <3>3, <4>1
    <3> QED
      BY <3>2, <3>3
  <2>2. ASSUME NEW j \in 1..(m - 1) PROVE nx1[t[j]] = IF j = m - 1 THEN NULL ELSE t[j + 1]
    <3>1. CASE j < i - 1
      <4>1. /\ j \in 1..m /\ j < i /\ j + 1 < i /\ j + 1 \in 1..(m - 1) /\ j # m /\ j # m - 1
            /\ j # i - 1 /\ j # i /\ i # 1
        BY <1>2, <1>4, <3>1
      <4>2. t[j] = s[j] /\ t[j + 1] = s[j + 1] /\ s[j] \in Node /\ s[j] # s[i] /\ s[j] # s[i - 1]
        <5>1. t[j] = s[j] /\ t[j + 1] = s[j + 1]
          BY <1>6, <4>1
        <5>2. s[j] \in Node /\ s[j] # s[i] /\ s[j] # s[i - 1]
          BY <1>1, <1>3, <1>4, <4>1
        <5> QED
          BY <5>1, <5>2
      <4>3. nx1[s[j]] = nx[s[j]]
        BY <1>7, <1>8, <4>1, <4>2 DEF c
      <4> QED
        BY <1>2, <4>1, <4>2, <4>3
    <3>2. CASE j = i - 1
      <4>1. j \in 1..m /\ j < i /\ j + 1 = i /\ i # 1 /\ i - 1 # i /\ (j = m - 1 <=> i = m)
        BY <1>2, <1>4, <3>2
      <4>2. t[j] = s[i - 1] /\ s[i - 1] \in Node /\ s[i - 1] # c
        BY <1>1, <1>3, <1>4, <1>6, <3>2, <4>1 DEF c
      <4>3. nx1[s[i - 1]] = nx[c]
        BY <1>7, <1>8, <4>1, <4>2
      <4>4. i # m => t[i] = s[i + 1]
        <5>1. i # m => i \in 1..(m - 1) /\ ~(i < i)
          BY <1>2, <1>4
        <5> QED
          BY <1>6, <5>1
      <4> QED
        BY <1>8, <4>1, <4>2, <4>3, <4>4
    <3>3. CASE j >= i
      <4>1. /\ ~(j < i) /\ j + 1 \in 1..m /\ (j = m - 1 <=> j + 1 = m) /\ j + 1 # i /\ j + 1 # i - 1
            /\ (j # m - 1 => j + 1 \in 1..(m - 1) /\ ~(j + 1 < i))
        BY <1>2, <1>4, <3>3
      <4>2. t[j] = s[j + 1] /\ s[j + 1] \in Node /\ s[j + 1] # c /\ (i # 1 => s[j + 1] # s[i - 1])
        BY <1>1, <1>3, <1>4, <1>6, <4>1 DEF c
      <4>3. nx1[s[j + 1]] = nx[s[j + 1]]
        BY <1>1, <1>7, <1>8, <4>2
      <4>4. nx[s[j + 1]] = IF j = m - 1 THEN NULL ELSE s[(j + 1) + 1]
        BY <1>2, <4>1
      <4>5. j # m - 1 => t[j + 1] = s[(j + 1) + 1]
        BY <1>6, <4>1
      <4> QED
        BY <4>2, <4>3, <4>4, <4>5
    <3> QED
      BY <1>4, <3>1, <3>2, <3>3
  <2> QED
    BY <1>6, <2>1, <2>2 DEF IsList
<1>10. ASSUME NEW n \in Node \ {a}
       PROVE  /\ Oc(ch1, rf, n) = Oc(ch, rf, n)
              /\ \A j \in 1..Len(K[n]) : nx1[K[n][j]] = nx[K[n][j]]
  <2>1. ASSUME NEW j \in 1..Len(K[n]) PROVE nx1[K[n][j]] = nx[K[n][j]]
    <3>1. K[n][j] \in Node /\ K[n][j] # c
      BY <1>1, <1>2, <1>3, <1>4 DEF c
    <3>2. i # 1 => K[n][j] # s[i - 1]
      BY <1>3, <1>4
    <3> QED
      BY <1>1, <1>7, <1>8, <3>1, <3>2
  <2> QED
    BY <1>7, <2>1
<1>11. IsKids([K EXCEPT ![a] = t], ch1, rf, nx1)
  <2> HIDE DEF s, m
  <2> QED
    BY <1>1, <1>9, <1>10, OneList
<1> QED
  BY <1>11 DEF t, ch1, nx1, c

\* x in the place of the i-th item of a: put before it, and that taken out.
LEMMA ReplaceKids ==
    ASSUME NEW L, NEW R, NEW nx, NEW pv, NEW ch, NEW rf, NEW K,
           NEW a \in L \ rf, NEW i \in 1..Len(K[a]), NEW x \in R, NEW c,
           c = K[a][i], Shape(L, R, nx, pv, ch, rf), IsKids(K, ch, rf, nx),
           Shape(L, R \ {x}, NextPut(nx, pv, ch, a, c, x), PrevPut(pv, c, x), ChildPut(ch, a, c, x), rf)
    PROVE  IsKids([K EXCEPT ![a] = F!ReplaceAt(@, i, x)],
                  ChildLeft(NextPut(nx, pv, ch, a, c, x), ChildPut(ch, a, c, x), a, c), rf,
                  NextLeft(NextPut(nx, pv, ch, a, c, x), PrevPut(pv, c, x), c))
<1> DEFINE s == K[a]
           t == F!InsertAt(s, i, x)
           J == [K EXCEPT ![a] = t]
           nx1 == NextPut(nx, pv, ch, a, c, x)
           pv1 == PrevPut(pv, c, x)
           ch1 == ChildPut(ch, a, c, x)
<1>1. a \in Node /\ x \in Node /\ K \in [Node -> Seq(Node)]
  BY DEF Shape, ShapeTypes, IsKids
<1>2. s \in Seq(Node) /\ Len(s) \in Nat /\ i \in 1..Len(s)
  BY <1>1, LenProperties
<1>3. IsKids(J, ch1, rf, nx1)
  BY InsertKids
<1>4. J[a] = t /\ F!RemoveAt(t, i + 1) = F!ReplaceAt(s, i, x)
  <2>1. J[a] = t
    BY <1>1
  <2> HIDE DEF s, J
  <2> QED
    BY <1>1, <1>2, <2>1, ReplacedIs
<1>5. i + 1 \in 1..Len(t) /\ t[i + 1] = c
  <2>1. i \in 1..(Len(s) + 1) /\ i + 1 \in 1..(Len(s) + 1) /\ ~(i + 1 < i) /\ i + 1 # i /\ (i + 1) - 1 = i
    BY <1>2
  <2> HIDE DEF s
  <2>2. /\ Len(t) = Len(s) + 1
        /\ \A j \in 1..(Len(s) + 1) : t[j] = IF j < i THEN s[j] ELSE IF j = i THEN x ELSE s[j - 1]
    BY <1>1, <1>2, <2>1, Inserted
  <2> HIDE DEF t
  <2> QED
    BY <2>1, <2>2 DEF s
<1>6. [J EXCEPT ![a] = F!RemoveAt(@, i + 1)] = [K EXCEPT ![a] = F!ReplaceAt(@, i, x)]
  <2> HIDE DEF t
  <2>1. [J EXCEPT ![a] = F!RemoveAt(@, i + 1)] = [J EXCEPT ![a] = F!ReplaceAt(s, i, x)]
    <3> HIDE DEF J, s
    <3> QED
      BY <1>4
  <2>2. [J EXCEPT ![a] = F!ReplaceAt(s, i, x)] = [K EXCEPT ![a] = F!ReplaceAt(s, i, x)]
    <3> DEFINE w == F!ReplaceAt(s, i, x)
    <3> HIDE DEF w
    <3> QED
      BY <1>1
  <2> QED
    BY <2>1, <2>2
<1>7. J[a] = t
  BY <1>4
<1> HIDE DEF J, t, nx1, pv1, ch1
<1>8. IsKids([J EXCEPT ![a] = F!RemoveAt(@, i + 1)], ChildLeft(nx1, ch1, a, c), rf, NextLeft(nx1, pv1, c))
  <2>1. i + 1 \in 1..Len(J[a]) /\ J[a][i + 1] = c
    BY <1>5, <1>7
  <2>2. Shape(L, R \ {x}, nx1, pv1, ch1, rf)
    BY DEF nx1, pv1, ch1
  <2> QED
    BY <1>3, <2>1, <2>2, DetachKids
<1> QED
  BY <1>6, <1>8 DEF nx1, pv1, ch1

-----------------------------------------------------------------------------
\* Nothing outside a region that the program holds leads into it.
LEMMA RegionApart ==
    ASSUME NEW L, NEW R, NEW nx, NEW pv, NEW ch, NEW rf, NEW D, NEW c,
           Shape(L, R, nx, pv, ch, rf), c \in R, Region(D, c, L, nx, pv, ch, rf)
    PROVE  \A n \in Node \ D : nx[n] \notin D /\ Oc(ch, rf, n) \notin D
<1> USE NullAssumption
<1>1. L \subseteq Node /\ R \subseteq L /\ D \subseteq L /\ c \in D /\ NULL \notin L
  BY DEF Shape, ShapeTypes, Region
<1>2. ASSUME NEW n \in L \ D PROVE nx[n] \notin D /\ Oc(ch, rf, n) \notin D
  <2>1. nx[n] \notin D
    BY <1>1 DEF Shape, Listed, Headed, Held, Region
  <2>2. Oc(ch, rf, n) \notin D
    BY <1>1 DEF Shape, Headed, Held, Region
  <2> QED
    BY <2>1, <2>2
<1>3. ASSUME NEW n \in Node \ L PROVE nx[n] \notin D /\ Oc(ch, rf, n) \notin D
  BY <1>1 DEF Shape, ShapeTypes, Oc
<1> QED
  BY <1>2, <1>3

\* Freeing a region empties the lists of its nodes and touches no other.
LEMMA EmptiedKids ==
    ASSUME NEW L, NEW R, NEW nx, NEW pv, NEW ch, NEW rf, NEW K, NEW D, NEW c,
           Shape(L, R, nx, pv, ch, rf), c \in R, Region(D, c, L, nx, pv, ch, rf),
           IsKids(K, ch, rf, nx)
    PROVE  IsKids(F!Emptied(K, D), Cleared(ch, D), rf \ D, Cleared(nx, D))
<1> DEFINE J == F!Emptied(K, D)
           ch1 == Cleared(ch, D)
           nx1 == Cleared(nx, D)
<1>1. /\ \A n \in Node : J[n] = IF n \in D THEN <<>> ELSE K[n]
      /\ J \in [Node -> Seq(Node)]
  BY DEF F!Emptied, IsKids
<1>2. /\ \A n \in Node : nx1[n] = IF n \in D THEN NULL ELSE nx[n]
      /\ \A n \in Node : Oc(ch1, rf \ D, n) = IF n \in D THEN NULL ELSE Oc(ch, rf, n)
  <2>1. \A n \in Node : ch1[n] = IF n \in D THEN NULL ELSE ch[n]
    BY DEF Cleared
  <2> HIDE DEF ch1
  <2> QED
    BY <2>1 DEF Cleared, Oc
<1>3. \A n \in Node : nx[n] \in Pointers /\ Oc(ch, rf, n) \in Pointers
  BY DEF Shape, ShapeTypes, Oc, Pointers
<1>4. \A n \in Node \ D : nx[n] \notin D /\ Oc(ch, rf, n) \notin D
  BY RegionApart
<1> HIDE DEF J, ch1, nx1
<1>5. ASSUME NEW n \in Node \ D PROVE IsList(J[n], Oc(ch1, rf \ D, n), nx1)
  <2> DEFINE T == Node \ D
  <2>1. IsList(K[n], Oc(ch, rf, n), nx)
    BY DEF IsKids
  <2>2. Oc(ch, rf, n) \in T \union {NULL} /\ \A m \in T : nx[m] \in T \union {NULL}
    BY <1>3, <1>4 DEF Pointers
  <2>3. \A i \in 1..Len(K[n]) : K[n][i] \in T
    <3> DEFINE s == K[n]
               o == Oc(ch, rf, n)
    <3>1. IsList(s, o, nx) /\ o \in T \union {NULL} /\ \A m \in T : nx[m] \in T \union {NULL}
      BY <2>1, <2>2
    <3> HIDE DEF T, s, o
    <3>2. \A i \in 1..Len(s) : s[i] \in T
      BY <3>1, ListWithin
    <3> QED
      BY <3>2 DEF s
  <2>4. \A i \in 1..Len(K[n]) : nx1[K[n][i]] = nx[K[n][i]]
    BY <1>2, <2>3
  <2>5. J[n] = K[n] /\ Oc(ch1, rf \ D, n) = Oc(ch, rf, n)
    BY <1>1, <1>2
  <2> QED
    BY <2>1, <2>4, <2>5 DEF IsList
<1>6. ASSUME NEW n \in Node, n \in D PROVE IsList(J[n], Oc(ch1, rf \ D, n), nx1)
  <2>1. IsList(<<>>, NULL, nx1)
    BY DEF IsList
  <2>2. J[n] = <<>> /\ Oc(ch1, rf \ D, n) = NULL
    BY <1>1, <1>2, <1>6
  <2> QED
    BY <2>1, <2>2
<1>7. \A n \in Node : IsList(J[n], Oc(ch1, rf \ D, n), nx1)
  BY <1>5, <1>6
<1> QED
  BY <1>1, <1>7 DEF IsKids, J, ch1, nx1

-----------------------------------------------------------------------------
\* The items of a walk are those of the sequence.
LEMMA ItemIndex ==
    ASSUME ShapeNow, KidsOk, NEW a \in live \ refs
    PROVE  /\ \A c \in Items(a) : \E i \in 1..Len(kidsBar[a]) : c = kidsBar[a][i]
           /\ child[a] = IF kidsBar[a] = <<>> THEN NULL ELSE kidsBar[a][1]
<1> DEFINE K == kidsBar
           s == K[a]
           T == {s[i] : i \in 1..Len(s)}
<1>1. a \in Node /\ Oc(child, refs, a) = child[a]
  BY NowFacts DEF Oc
<1>2. IsList(s, child[a], next)
  BY <1>1 DEF KidsOk, IsKids
<1>3. /\ s \in Seq(Node) /\ Len(s) \in Nat
      /\ child[a] = IF Len(s) = 0 THEN NULL ELSE s[1]
      /\ \A i \in 1..Len(s) : next[s[i]] = IF i = Len(s) THEN NULL ELSE s[i + 1]
  BY <1>2, LenProperties DEF IsList
<1> HIDE DEF s
<1>4. (s = <<>> <=> Len(s) = 0) /\ (\A i \in 1..Len(s) : s[i] \in Node) /\ NULL \notin Node
  BY <1>3, EmptySeq, ElementOfSeq, NullAssumption
<1>5. ASSUME NEW c \in Items(a) PROVE c \in T
  <2>1. child[a] # NULL /\ c \in Chain(child[a])
    BY DEF Items
  <2>2. Len(s) # 0 /\ child[a] = s[1] /\ 1 \in 1..Len(s)
    BY <1>3, <2>1
  <2>3. T \in SUBSET Node /\ child[a] \in T
    BY <1>4, <2>2
  <2>4. NextClosed(T)
    <3>1. ASSUME NEW i \in 1..Len(s) PROVE next[s[i]] \in T \union {NULL}
      <4>1. i # Len(s) => i + 1 \in 1..Len(s)
        BY <1>3
      <4> QED
        BY <1>3, <4>1
    <3> QED
      BY <3>1 DEF NextClosed
  <2> QED
    BY <2>1, <2>3, <2>4 DEF Chain
<1> QED
  BY <1>3, <1>4, <1>5 DEF s

\* What is below an item in the sequences is its tree in the pointers.
LEMMA SubtreeIsTree ==
    ASSUME ShapeNow, KidsOk, NEW n \in live
    PROVE  F!Subtree(n) = Tree(n)
<1> DEFINE K == kidsBar
           h == OwnChild(n)
           Kids(m) == {K[m][i] : i \in DOMAIN K[m]}
           below == [m \in live |-> Kids(m)]
           walks == {T \in SUBSET live : n \in T /\ \A m \in T : below[m] \subseteq T}
<1>1. F!Subtree(n) = {m \in live : \A T \in walks : m \in T}
  BY DEF F!Subtree, F!ToSet
<1>2. /\ live \subseteq Node /\ NULL \notin Node
      /\ \A m \in Node : OwnChild(m) = Oc(child, refs, m)
  BY NowFacts, NullAssumption DEF OwnChild, Oc
<1>3. /\ \A m \in Node : IsList(K[m], OwnChild(m), next)
      /\ \A m \in Node : K[m] \in Seq(Node) /\ DOMAIN K[m] = 1..Len(K[m]) /\ Len(K[m]) \in Nat
  <2>1. \A m \in Node : IsList(K[m], OwnChild(m), next)
    BY <1>2 DEF KidsOk, IsKids
  <2> QED
    BY <2>1, LenProperties DEF IsList
<1> HIDE DEF K
<1>4. ASSUME NEW T \in SUBSET live
      PROVE  T \in walks <=> n \in T /\ \A m \in T : Kids(m) \subseteq T
  BY DEF walks
<1> HIDE DEF walks, below
<1>5. Tree(n) \in walks
  <2>1. n \in Tree(n) /\ Tree(n) \subseteq live
    BY TreeFacts
  <2>2. ASSUME NEW m \in Tree(n) PROVE Kids(m) \subseteq Tree(n)
    <3> DEFINE T == Tree(n) \ {n}
    <3>1. \A e \in Tree(n) : OwnChild(e) \in T \union {NULL}
      BY TreeFacts
    <3>2. \A e \in T : next[e] \in T \union {NULL}
      <4>1. n # NULL
        BY <1>2
      <4>2. ASSUME NEW e \in T PROVE next[e] # n
        <5> SUFFICES ASSUME next[e] = n PROVE FALSE
          OBVIOUS
        <5>1. e \in live
          BY <2>1
        <5>2. prev[n] = e
          BY <4>1, <5>1, NowFacts
        <5> QED
          BY <5>2, TreeFacts
      <4> QED
        BY <4>2, TreeFacts
    <3>3. m \in Node
      BY <1>2, <2>1
    <3>4. \A i \in 1..Len(K[m]) : K[m][i] \in T
      <4> HIDE DEF T
      <4> QED
        BY <1>3, <3>1, <3>2, <3>3, ListWithin
    <3> QED
      BY <1>3, <3>3, <3>4
  <2> QED
    BY <1>4, <2>1, <2>2
<1>6. ASSUME NEW T \in walks PROVE Tree(n) \subseteq T
  <2>1. T \subseteq live /\ n \in T /\ \A m \in T : Kids(m) \subseteq T
    <3>1. T \in SUBSET live
      BY DEF walks
    <3> QED
      BY <1>4, <3>1
  <2> DEFINE U == UNION {Kids(m) : m \in T}
  <2>2. U \subseteq T
    BY <2>1
  <2>3. \A m \in T : OwnChild(m) \in U \union {NULL}
    <3> SUFFICES ASSUME NEW m \in T, OwnChild(m) # NULL PROVE OwnChild(m) \in Kids(m)
      OBVIOUS
    <3>1. m \in Node
      BY <1>2, <2>1
    <3>2. Len(K[m]) # 0 /\ OwnChild(m) = K[m][1]
      BY <1>3, <3>1 DEF IsList
    <3> QED
      BY <1>3, <3>1, <3>2
  <2>4. \A u \in U : next[u] \in U \union {NULL}
    <3> SUFFICES ASSUME NEW m \in T, NEW i \in DOMAIN K[m] PROVE next[K[m][i]] \in Kids(m) \union {NULL}
      OBVIOUS
    <3>1. m \in Node /\ i \in 1..Len(K[m]) /\ Len(K[m]) \in Nat /\ DOMAIN K[m] = 1..Len(K[m])
      BY <1>2, <1>3, <2>1
    <3>2. next[K[m][i]] = IF i = Len(K[m]) THEN NULL ELSE K[m][i + 1]
      BY <1>3, <3>1 DEF IsList
    <3>3. i # Len(K[m]) => i + 1 \in DOMAIN K[m]
      BY <3>1
    <3> QED
      BY <3>2, <3>3
  <2> HIDE DEF U, Kids
  <2>5. CASE h = NULL
    BY <2>1, <2>5 DEF Tree
  <2>6. CASE h # NULL
    <3>1. U \in SUBSET Node /\ h \in U
      BY <1>2, <2>1, <2>2, <2>3, <2>6
    <3>2. OwnClosed(U)
      BY <2>2, <2>3, <2>4 DEF OwnClosed
    <3>3. Deleted(h) \subseteq U
      BY <3>1, <3>2 DEF Deleted
    <3> QED
      BY <2>1, <2>2, <2>6, <3>3 DEF Tree
  <2> QED
    BY <2>5, <2>6
<1>7. Tree(n) \subseteq live
  BY TreeFacts
<1> HIDE DEF Kids
<1> QED
  BY <1>1, <1>5, <1>6, <1>7

\* What cJSON_Delete frees of what the program holds is its tree.
LEMMA DeletedIsTree ==
    ASSUME ShapeNow, NEW x \in roots
    PROVE  Deleted(x) = Tree(x)
<1> DEFINE h == OwnChild(x)
<1>1. x \in live /\ next[x] = NULL /\ live \subseteq Node /\ h \in live \union {NULL}
  BY NowFacts
<1>2. Deleted(x) \subseteq Tree(x)
  <2>1. OwnClosed(Tree(x)) /\ x \in Tree(x) /\ Tree(x) \in SUBSET Node
    BY <1>1, TreeFacts DEF OwnClosed
  <2> QED
    BY <2>1 DEF Deleted
<1>3. Tree(x) \subseteq Deleted(x)
  <2>1. OwnClosed(Deleted(x)) /\ x \in Deleted(x) /\ Deleted(x) \in SUBSET Node
    BY <1>1, DeletedFacts
  <2>2. h # NULL => h \in Deleted(x)
    BY <2>1 DEF OwnClosed
  <2>3. h # NULL => Deleted(h) \subseteq Deleted(x)
    <3> DEFINE D == Deleted(x)
    <3> HIDE DEF D
    <3>1. h # NULL => h \in D
      BY <2>2 DEF D
    <3>2. OwnClosed(D) /\ D \in SUBSET Node
      BY <2>1 DEF D
    <3>3. h # NULL => Deleted(h) \subseteq D
      BY <3>1, <3>2 DEF Deleted
    <3> QED
      BY <3>3 DEF D
  <2> QED
    BY <2>1, <2>3 DEF Tree
<1> QED
  BY <1>2, <1>3

-----------------------------------------------------------------------------
(* The calls: each is a step of Forest.                                   *)
\* The children after a call.
KidsNext == IsKids(kidsBar', child', refs', next')

\* What holds before and after each call.
Called ==
    /\ StructInv /\ KidsOk
    /\ KidsNext
    /\ IsFiniteSet(live')

LEMMA KidsAfter ==
    ASSUME KidsNext, NEW J, IsKids(J, child', refs', next')
    PROVE  kidsBar' = J
  BY KidsUnique DEF KidsNext

\* An item and its members, all new, are what Forest makes.
LEMMA MakeForest ==
    ASSUME NEW a \in Node, NEW k \in 0..MaxCount, NEW s \in [1..k -> Node], NEW M,
           M = {s[i] : i \in 1..k}, a \notin live, a \notin M, M \intersect live = {},
           \A i, j \in 1..k : s[i] = s[j] => i = j,
           live' = live \union {a} \union M, roots' = roots \union {a},
           kidsBar' = [kidsBar EXCEPT ![a] = s]
    PROVE  F!Next
<1> DEFINE new == live' \ live
<1>1. new = {a} \union M
  OBVIOUS
<1>2. s \in [1..k -> new]
  BY <1>1
<1>3. s \in F!BoundedSeq(new, MaxCount)
  <2> HIDE DEF new
  <2> QED
    BY <1>2 DEF F!BoundedSeq, F!SeqOf
<1>4. F!ToSet(s) = M
  BY DEF F!ToSet
<1>5. F!IsInjective(s)
  BY DEF F!IsInjective
<1>6. F!Make(a, s)
  <2>1. live' = live \union ({a} \union M) /\ ({a} \union M) \intersect live = {}
    OBVIOUS
  <2> QED
    BY <1>4, <1>5, <2>1 DEF F!Make
<1>7. live' # live /\ live \subseteq live' /\ a \in new
  BY <1>1
<1>8. \E b \in new, t \in F!BoundedSeq(new, MaxCount) : F!Make(b, t)
  BY <1>3, <1>6, <1>7
<1>9. F!Making
  BY <1>7, <1>8 DEF F!Making
<1> QED
  BY <1>9 DEF F!Next

\* cJSON_Create and the like make an item without children.
LEMMA CreateForest ==
    ASSUME Called, NEW n \in Node, NEW kind, Create(n, kind)
    PROVE  F!Next
<1>1. /\ n \notin live /\ live' = live \union {n} /\ roots' = roots \union {n}
      /\ next' = next /\ child' = child /\ refs' = refs /\ IsFiniteSet(live')
  BY DEF Called, Create, links
<1>2. kidsBar' = kidsBar
  <2>1. IsKids(kidsBar, child', refs', next')
    BY <1>1 DEF Called, KidsOk
  <2> QED
    BY <2>1, KidsAfter DEF Called
<1>3. kidsBar[n] = <<>> /\ kidsBar \in [Node -> Seq(Node)]
  <2> DEFINE K == kidsBar
  <2>1. Shape(live, roots, next, prev, child, refs) /\ IsKids(K, child, refs, next)
    BY DEF Called, StructInv, ShapeNow, KidsOk
  <2> HIDE DEF K
  <2>2. K[n] = <<>>
    BY <1>1, <2>1, KidsFacts
  <2>3. K \in [Node -> Seq(Node)]
    BY <2>1 DEF IsKids
  <2> QED
    BY <2>2, <2>3 DEF K
<1> DEFINE k == 0
           s == [i \in 1..k |-> n]
           M == {s[i] : i \in 1..k}
<1>4. s \in [1..k -> Node] /\ M = {} /\ k \in 0..MaxCount
  BY MaxCountAssumption
<1>5. kidsBar' = [kidsBar EXCEPT ![n] = s]
  <2>1. s = <<>>
    OBVIOUS
  <2> HIDE DEF s
  <2> QED
    BY <1>2, <1>3, <2>1
<1>6. /\ live' = live \union {n} \union M /\ roots' = roots \union {n}
      /\ n \notin live /\ n \notin M /\ M \intersect live = {}
  BY <1>1, <1>4
<1>7. \A i, j \in 1..k : s[i] = s[j] => i = j
  OBVIOUS
<1>8. M = {s[i] : i \in 1..k}
  OBVIOUS
<1> HIDE DEF s, M, k
<1> QED
  BY <1>4, <1>5, <1>6, <1>7, <1>8, MakeForest

\* cJSON_CreateIntArray and the like make an array and its members.
LEMMA CreateArrayForest ==
    ASSUME Called, NEW a \in Node, NEW k \in 0..MaxCount, NEW kind,
           NEW s \in [1..k -> Node], CreateArrayOf(a, s, kind)
    PROVE  F!Next
<1> DEFINE M == {s[i] : i \in 1..k}
           K == kidsBar
<1>0. /\ Shape(live, roots, next, prev, child, refs) /\ IsKids(K, child, refs, next)
      /\ IsFiniteSet(live') /\ StructInv
  BY DEF Called, StructInv, ShapeNow, KidsOk
<1>1. k \in Nat /\ DOMAIN s = 1..k /\ s \in Seq(Node) /\ Len(s) = k
  BY MaxCountAssumption
<1>2. /\ a \notin live /\ M \intersect (live \union {a}) = {}
      /\ \A i, j \in 1..k : s[i] = s[j] => i = j
      /\ live' = live \union {a} \union M /\ roots' = roots \union {a} /\ refs' = refs
      /\ child' = [child EXCEPT ![a] = IF s = <<>> THEN NULL ELSE s[1]]
      /\ next' = [n \in Node |-> IF \E i \in 1..k : s[i] = n /\ i < k
                                 THEN s[1 + CHOOSE i \in 1..k : s[i] = n] ELSE next[n]]
  BY <1>1 DEF CreateArrayOf
<1>3. refs \subseteq live /\ child \in [Node -> Pointers]
      /\ \A n \in Node \ live : next[n] = NULL
  BY <1>0, TypesNow
<1>4. ASSUME NEW i \in 1..k
      PROVE  next'[s[i]] = IF i = k THEN NULL ELSE s[i + 1]
  <2>1. s[i] \in Node /\ s[i] \in M /\ s[i] \notin live
    BY <1>2
  <2>2. (CHOOSE j \in 1..k : s[j] = s[i]) = i
    BY <1>2
  <2>3. CASE i < k
    <3>1. \E j \in 1..k : s[j] = s[i] /\ j < k
      BY <2>3
    <3>2. next'[s[i]] = s[1 + CHOOSE j \in 1..k : s[j] = s[i]]
      BY <1>2, <2>1, <3>1
    <3>3. next'[s[i]] = s[1 + i]
      BY <2>2, <3>2
    <3> QED
      BY <1>1, <2>3, <3>3
  <2>4. CASE i = k
    <3>1. ~ \E j \in 1..k : s[j] = s[i] /\ j < k
      BY <1>1, <1>2, <2>4
    <3> QED
      BY <1>2, <1>3, <2>1, <2>4, <3>1
  <2> QED
    BY <1>1, <2>3, <2>4
<1>5. \A n \in Node \ M : next'[n] = next[n]
  BY <1>2
<1> HIDE DEF M, K
<1>6. IsKids([K EXCEPT ![a] = s], child', refs', next')
  <2>1. IsList(s, Oc(child', refs', a), next')
    <3>1. Oc(child', refs', a) = IF k = 0 THEN NULL ELSE s[1]
      <4>1. a \notin refs' /\ child'[a] = IF s = <<>> THEN NULL ELSE s[1]
        BY <1>2, <1>3
      <4>2. s = <<>> <=> k = 0
        BY <1>1
      <4> QED
        BY <4>1, <4>2 DEF Oc
    <3> QED
      BY <1>1, <1>4, <3>1 DEF IsList
  <2>2. ASSUME NEW n \in Node \ {a}
        PROVE  /\ Oc(child', refs', n) = Oc(child, refs, n)
               /\ \A i \in 1..Len(K[n]) : next'[K[n][i]] = next[K[n][i]]
    <3>1. Oc(child', refs', n) = Oc(child, refs, n)
      BY <1>2, <1>3 DEF Oc
    <3>2. \A i \in 1..Len(K[n]) : K[n][i] \in live
      BY <1>0, KidsFacts
    <3>3. live \subseteq Node
      BY <1>0, TypesNow
    <3> QED
      BY <1>2, <1>5, <3>1, <3>2, <3>3
  <2> QED
    BY <1>0, <2>1, <2>2, OneList
<1>7. kidsBar' = [kidsBar EXCEPT ![a] = s]
  BY <1>6, KidsAfter DEF Called, K
<1>8. M = {s[i] : i \in 1..k} /\ a \notin M /\ M \intersect live = {}
  BY <1>2 DEF M
<1> QED
  BY <1>0, <1>1, <1>2, <1>7, <1>8, MakeForest

\* Put after the last is appended.
LEMMA InsertLast ==
    ASSUME NEW s \in Seq(Node), NEW x \in Node
    PROVE  F!InsertAt(s, Len(s) + 1, x) = Append(s, x)
<1> DEFINE m == Len(s)
           t == F!InsertAt(s, m + 1, x)
           u == Append(s, x)
<1>1. m \in Nat /\ m + 1 \in 1..(m + 1)
  BY LenProperties
<1>2. /\ t \in Seq(Node) /\ Len(t) = m + 1
      /\ \A j \in 1..(m + 1) : t[j] = IF j < m + 1 THEN s[j] ELSE IF j = m + 1 THEN x ELSE s[j - 1]
  BY <1>1, Inserted
<1>3. /\ u \in Seq(Node) /\ Len(u) = m + 1
      /\ \A j \in 1..m : u[j] = s[j]
      /\ u[m + 1] = x
  BY <1>1, AppendProperties
<1> HIDE DEF t, u, m
<1>4. ASSUME NEW j \in 1..(m + 1) PROVE t[j] = u[j]
  <2>1. j < m + 1 \/ j = m + 1
    BY <1>1
  <2>2. j < m + 1 => j \in 1..m
    BY <1>1
  <2> QED
    BY <1>2, <1>3, <2>1, <2>2
<1>5. t = u
  BY <1>2, <1>3, <1>4, SeqEqual
<1> QED
  BY <1>5 DEF t, u, m

\* cJSON_AddItemToArray, and the like, put x after the last item of a.
LEMMA AppendedKids ==
    ASSUME Called, NEW a \in live \ refs, NEW x \in Node,
           next[x] = NULL, x \notin live \ roots,
           \A n \in Node : Oc(child', refs', n) = IF n = a /\ child[a] = NULL THEN x
                                                  ELSE Oc(child, refs, n),
           \/ child[a] = NULL /\ next' = next
           \/ child[a] # NULL /\ \E c \in Items(a) : next[c] = NULL /\ next' = [next EXCEPT ![c] = x]
    PROVE  kidsBar' = [kidsBar EXCEPT ![a] = F!InsertAt(@, Len(@) + 1, x)]
<1> DEFINE K == kidsBar
           s == K[a]
<1>1. /\ Shape(live, roots, next, prev, child, refs) /\ IsKids(K, child, refs, next)
      /\ ShapeNow /\ KidsOk /\ StructInv
  BY DEF Called, StructInv, ShapeNow, KidsOk
<1>2. a \in Node /\ live \subseteq Node /\ next \in [Node -> Pointers] /\ NULL \notin live
  BY <1>1, TypesNow, NowFacts
<1>3. /\ \A c \in Items(a) : \E i \in 1..Len(s) : c = s[i]
      /\ child[a] = IF s = <<>> THEN NULL ELSE s[1]
  BY <1>1, ItemIndex
<1> HIDE DEF K
<1>4. \A n \in Node : \A i \in 1..Len(K[n]) :
         K[n][i] \in live \ roots /\ next[K[n][i]] = IF i = Len(K[n]) THEN NULL ELSE K[n][i + 1]
  BY <1>1, KidsFacts
<1>5. s \in Seq(Node) /\ Len(s) \in Nat /\ (s = <<>> <=> Len(s) = 0)
  <2>1. s \in Seq(Node)
    BY <1>1, <1>2, KidsFacts
  <2> HIDE DEF s
  <2> QED
    BY <2>1, LenProperties, EmptySeq
<1>6. \A i \in 1..Len(s) : /\ s[i] \in live /\ s[i] # NULL
                           /\ next[s[i]] = IF i = Len(s) THEN NULL ELSE s[i + 1]
  BY <1>2, <1>4
<1>7. child[a] = NULL <=> s = <<>>
  <2>1. s # <<>> => s[1] # NULL
    BY <1>5, <1>6
  <2> QED
    BY <1>3, <2>1
<1>8. \A n \in Node : next'[n] = IF s # <<>> /\ n = s[Len(s)] THEN x ELSE next[n]
  <2>1. CASE child[a] = NULL
    BY <1>7, <2>1
  <2>2. CASE child[a] # NULL
    <3>1. PICK c \in Items(a) : next[c] = NULL /\ next' = [next EXCEPT ![c] = x]
      BY <2>2
    <3>2. PICK i \in 1..Len(s) : c = s[i]
      BY <1>3
    <3>3. i = Len(s)
      <4>1. i # Len(s) => i + 1 \in 1..Len(s)
        BY <1>5
      <4>2. next[s[i]] = NULL
        BY <3>1, <3>2
      <4> HIDE DEF s
      <4> QED
        BY <1>6, <4>1, <4>2
    <3> HIDE DEF s
    <3> QED
      BY <1>2, <1>7, <2>2, <3>1, <3>2, <3>3
  <2> QED
    BY <2>1, <2>2
<1>9. /\ \A n \in Node : \A i \in 1..Len(K[n]) : K[n][i] # x
      /\ \A n \in Node : Oc(child', refs', n) = IF n = a /\ K[a] = <<>> THEN x ELSE Oc(child, refs, n)
      /\ \A n \in Node : next'[n] = IF K[a] # <<>> /\ n = K[a][Len(K[a])] THEN x ELSE next[n]
  BY <1>4, <1>7, <1>8
<1>10. IsKids([K EXCEPT ![a] = F!InsertAt(@, Len(@) + 1, x)], child', refs', next')
  <2>1. Appends(K, a, x, child, refs, next, child', refs', next')
    BY <1>9 DEF Appends
  <2> QED
    BY <1>1, <1>2, <2>1, AppendKids
<1> QED
  BY <1>10, KidsAfter DEF Called, K

\* An edit that puts x into a, in the terms of Forest.
LEMMA InsertForest ==
    ASSUME Called, NEW a \in live, NEW x, Loose(a, x), NEW i \in 1..(Len(kidsBar[a]) + 1),
           live' = live, roots' = roots \ {x},
           kidsBar' = [kidsBar EXCEPT ![a] = F!InsertAt(@, i, x)]
    PROVE  F!Next
<1>1. x \in roots /\ x \in live /\ a \notin Tree(x)
  BY TypesNow DEF Called, Loose
<1>2. F!Subtree(x) = Tree(x)
  BY <1>1, SubtreeIsTree DEF Called, StructInv
<1>3. F!Insert(a, i, x)
  BY <1>1, <1>2 DEF F!Insert, F!Placeable
<1>4. F!Moving
  BY <1>1, <1>3 DEF F!Moving
<1> QED
  BY <1>4 DEF F!Next

\* cJSON_AddItemToArray, cJSON_AddItemToObject and AddItemToObjectCS.
LEMMA AddForest ==
    ASSUME Called, NEW a \in containers, NEW x \in Node, Editable(a), Loose(a, x),
           AppendItem(a, x), roots' = roots \ {x}, live' = live, refs' = refs
    PROVE  F!Next
<1>1. ShapeNow /\ KidsOk /\ StructInv
  BY DEF Called, StructInv
<1>2. /\ a \in live \ refs /\ x \in roots /\ next[x] = NULL /\ a \in Node
      /\ child \in [Node -> Pointers]
  BY <1>1, TypesNow, NowFacts DEF Editable, Loose, StructInv
<1>3. \A n \in Node : Oc(child', refs', n) = IF n = a /\ child[a] = NULL THEN x
                                             ELSE Oc(child, refs, n)
  BY <1>2 DEF Oc, AppendItem
<1>4. \/ child[a] = NULL /\ next' = next
      \/ child[a] # NULL /\ \E c \in Items(a) : next[c] = NULL /\ next' = [next EXCEPT ![c] = x]
  BY DEF AppendItem, suffix_object
<1>5. kidsBar' = [kidsBar EXCEPT ![a] = F!InsertAt(@, Len(@) + 1, x)]
  BY <1>2, <1>3, <1>4, AppendedKids
<1> DEFINE K == kidsBar
           i == Len(K[a]) + 1
<1>6. i \in 1..(Len(K[a]) + 1)
  <2>1. Shape(live, roots, next, prev, child, refs) /\ IsKids(K, child, refs, next)
    BY <1>1 DEF ShapeNow, KidsOk
  <2> HIDE DEF K
  <2>2. Len(K[a]) \in Nat
    BY <1>2, <2>1, KidsFacts
  <2> QED
    BY <2>2
<1>7. kidsBar' = [kidsBar EXCEPT ![a] = F!InsertAt(@, i, x)]
  BY <1>5
<1> HIDE DEF i
<1> QED
  BY <1>2, <1>6, <1>7, InsertForest DEF K

\* cJSON_AddItemReferenceToArray and ToObject.
LEMMA ReferenceForest ==
    ASSUME Called, NEW a \in containers, NEW r \in Node, NEW item \in live, Editable(a),
           Reference(r, item), AppendReference(a, r, item), roots' = roots
    PROVE  F!Next
<1>1. ShapeNow /\ KidsOk /\ StructInv
  BY DEF Called, StructInv
<1>2. r \notin live /\ live' = live \union {r} /\ refs' = refs \union {r}
  BY DEF Reference
<1>3. /\ a \in live \ refs /\ a \in Node /\ next[r] = NULL /\ child[r] = NULL /\ a # r
      /\ child \in [Node -> Pointers] /\ refs \subseteq live /\ NULL \notin Node
  BY <1>1, <1>2, TypesNow, NullAssumption DEF Editable, StructInv
<1>4. \A n \in Node : Oc(child', refs', n) = IF n = a /\ child[a] = NULL THEN r
                                             ELSE Oc(child, refs, n)
  BY <1>2, <1>3 DEF Oc, AppendReference
<1>5. \/ child[a] = NULL /\ next' = next
      \/ child[a] # NULL /\ \E c \in Items(a) : next[c] = NULL /\ next' = [next EXCEPT ![c] = r]
  BY DEF AppendReference, suffix_object
<1>6. kidsBar' = [kidsBar EXCEPT ![a] = F!InsertAt(@, Len(@) + 1, r)]
  BY <1>2, <1>3, <1>4, <1>5, AppendedKids
<1> DEFINE K == kidsBar
           s == K[a]
<1>7. s \in Seq(Node) /\ K \in [Node -> Seq(Node)]
  <2>1. IsKids(K, child, refs, next)
    BY <1>1 DEF KidsOk
  <2> HIDE DEF K
  <2> QED
    BY <1>3, <2>1 DEF IsKids
<1>8. F!InsertAt(s, Len(s) + 1, r) = Append(s, r)
  <2> HIDE DEF s
  <2> QED
    BY <1>7, InsertLast
<1>9. kidsBar' = [kidsBar EXCEPT ![a] = Append(@, r)]
  BY <1>6, <1>8
<1>10. F!AddReference(a, r)
  BY <1>2, <1>9 DEF F!AddReference
<1>11. F!Making
  BY <1>2, <1>3, <1>10 DEF F!Making
<1> QED
  BY <1>11 DEF F!Next

\* The item c of a is one of its children in the sequence.
LEMMA CalledItem ==
    ASSUME Called, NEW a \in containers, NEW c \in Items(a), Editable(a)
    PROVE  /\ StructInv /\ Shape(live, roots, next, prev, child, refs)
           /\ IsKids(kidsBar, child, refs, next)
           /\ a \in live /\ a \in live \ refs /\ a \in Node /\ c \in live
           /\ F!Subtree(c) = Tree(c) /\ c \in Tree(c)
           /\ \E i \in 1..Len(kidsBar[a]) : c = kidsBar[a][i] /\ i \in DOMAIN kidsBar[a]
<1>1. /\ ShapeNow /\ KidsOk /\ StructInv
      /\ Shape(live, roots, next, prev, child, refs) /\ IsKids(kidsBar, child, refs, next)
  BY DEF Called, StructInv, ShapeNow, KidsOk
<1>2. a \in live /\ a \in live \ refs /\ a \in Node /\ live \subseteq Node
  BY <1>1, TypesNow DEF Editable, StructInv
<1>3. c \in live
  BY <1>1, <1>2, ItemFacts
<1>4. F!Subtree(c) = Tree(c) /\ c \in Tree(c)
  BY <1>1, <1>3, SubtreeIsTree, TreeFacts
<1>5. PICK i \in 1..Len(kidsBar[a]) : c = kidsBar[a][i]
  BY <1>1, <1>2, ItemIndex
<1>6. i \in DOMAIN kidsBar[a]
  <2> DEFINE K == kidsBar
             s == K[a]
  <2>1. IsKids(K, child, refs, next)
    BY <1>1
  <2> HIDE DEF K
  <2>2. s \in Seq(Node)
    BY <1>2, <2>1 DEF IsKids
  <2> HIDE DEF s
  <2>3. DOMAIN s = 1..Len(s)
    BY <2>2
  <2> QED
    BY <1>5, <2>3 DEF s, K
<1> QED
  BY <1>1, <1>2, <1>3, <1>4, <1>5, <1>6

\* cJSON_DetachItemFromArray and FromObject.
LEMMA DetachForest ==
    ASSUME Called, NEW a \in containers, NEW c \in Items(a), DetachItem(a, c)
    PROVE  F!Next
<1> DEFINE K == kidsBar
<1>1. /\ next' = NextLeft(next, prev, c) /\ child' = ChildLeft(next, child, a, c)
      /\ refs' = refs /\ live' = live /\ roots' = roots \union {c} /\ Editable(a)
  BY DEF DetachItem, NextWithout, NextLeft, ChildWithout, ChildLeft, flags
<1>2. /\ Shape(live, roots, next, prev, child, refs) /\ IsKids(K, child, refs, next)
      /\ a \in live /\ a \in live \ refs /\ a \in Node /\ c \in live
  BY <1>1, CalledItem
<1>3. PICK i \in 1..Len(K[a]) : c = K[a][i] /\ i \in DOMAIN K[a]
  BY <1>1, CalledItem
<1> HIDE DEF K
<1>4. IsKids([K EXCEPT ![a] = F!RemoveAt(@, i)], ChildLeft(next, child, a, K[a][i]), refs,
             NextLeft(next, prev, K[a][i]))
  BY <1>2, DetachKids
<1>5. kidsBar' = [K EXCEPT ![a] = F!RemoveAt(@, i)]
  BY <1>1, <1>3, <1>4, KidsAfter DEF Called
<1>6. F!Detach(a, i)
  BY <1>1, <1>3, <1>5 DEF F!Detach, K
<1>7. i \in DOMAIN kidsBar[a]
  BY <1>3 DEF K
<1>8. F!Moving
  BY <1>1, <1>2, <1>6, <1>7 DEF F!Moving
<1> QED
  BY <1>8 DEF F!Next

\* cJSON_InsertItemInArray.
LEMMA InsertItemForest ==
    ASSUME Called, NEW a \in containers, NEW c \in Items(a), NEW x \in roots,
           InsertItemInArray(a, c, x)
    PROVE  F!Next
<1> DEFINE K == kidsBar
<1>1. /\ next' = NextPut(next, prev, child, a, c, x) /\ child' = ChildPut(child, a, c, x)
      /\ refs' = refs /\ live' = live /\ roots' = roots \ {x} /\ Editable(a) /\ Loose(a, x)
  BY DEF InsertItemInArray, NextPut, ChildWith, ChildPut, flags
<1>2. /\ Shape(live, roots, next, prev, child, refs) /\ IsKids(K, child, refs, next)
      /\ a \in live /\ a \in live \ refs /\ a \in Node /\ c \in live
  BY <1>1, CalledItem
<1>3. PICK i \in 1..Len(K[a]) : c = K[a][i] /\ i \in DOMAIN K[a]
  BY <1>1, CalledItem
<1> HIDE DEF K
<1>4. IsKids([K EXCEPT ![a] = F!InsertAt(@, i, x)], ChildPut(child, a, K[a][i], x), refs,
             NextPut(next, prev, child, a, K[a][i], x))
  BY <1>2, InsertKids
<1>5. kidsBar' = [K EXCEPT ![a] = F!InsertAt(@, i, x)]
  BY <1>1, <1>3, <1>4, KidsAfter DEF Called
<1>6. i \in 1..(Len(K[a]) + 1)
  BY <1>2, KidsFacts
<1> QED
  BY <1>1, <1>2, <1>5, <1>6, InsertForest DEF K

\* cJSON_Delete.
LEMMA DeleteForest ==
    ASSUME Called, NEW x \in roots, Delete(x)
    PROVE  F!Next
<1> DEFINE K == kidsBar
           D == Tree(x)
<1>1. /\ ShapeNow /\ KidsOk /\ StructInv
      /\ Shape(live, roots, next, prev, child, refs) /\ IsKids(K, child, refs, next)
  BY DEF Called, StructInv, ShapeNow, KidsOk
<1>2. x \in live /\ Deleted(x) = Tree(x) /\ F!Subtree(x) = Tree(x) /\ x \in Tree(x)
      /\ Tree(x) \subseteq live
  BY <1>1, TypesNow, DeletedIsTree, SubtreeIsTree, TreeFacts
<1>3. /\ live' = live \ D /\ roots' = roots \ {x} /\ refs' = refs \ D
      /\ next' = Cleared(next, D) /\ child' = Cleared(child, D)
  BY <1>2 DEF Delete, Free
<1>4. Region(D, x, live, next, prev, child, refs)
  BY <1>1, <1>2, NowFacts, CutRegion
<1> HIDE DEF K, D
<1>5. IsKids(F!Emptied(K, D), Cleared(child, D), refs \ D, Cleared(next, D))
  BY <1>1, <1>4, EmptiedKids
<1>6. kidsBar' = F!Emptied(K, D)
  BY <1>3, <1>5, KidsAfter DEF Called
<1>7. F!Delete(x)
  BY <1>2, <1>3, <1>6 DEF F!Delete, K, D
<1>8. live' # live /\ live' \subseteq live
  BY <1>2, <1>3 DEF D
<1>9. F!Freeing
  BY <1>7, <1>8 DEF F!Freeing
<1> QED
  BY <1>9 DEF F!Next

\* cJSON_DeleteItemFromArray and FromObject.
LEMMA DeleteItemForest ==
    ASSUME Called, NEW a \in containers, NEW c \in Items(a), DeleteItem(a, c)
    PROVE  F!Next
<1> DEFINE K == kidsBar
           D == Tree(c)
           R == roots \union {c}
           nx == NextLeft(next, prev, c)
           pv == PrevLeft(next, prev, c)
           ch == ChildLeft(next, child, a, c)
<1>1. /\ next' = Cleared(nx, D) /\ child' = Cleared(ch, D) /\ refs' = refs \ D
      /\ live' = live \ D /\ roots' = roots /\ Editable(a)
  BY DEF DeleteItem, Free, NextWithout, NextLeft, ChildWithout, ChildLeft
<1>2. /\ StructInv /\ Shape(live, roots, next, prev, child, refs) /\ IsKids(K, child, refs, next)
      /\ a \in live /\ a \in live \ refs /\ a \in Node /\ c \in live
      /\ F!Subtree(c) = D /\ c \in D
  BY <1>1, CalledItem
<1>3. PICK i \in 1..Len(K[a]) : c = K[a][i] /\ i \in DOMAIN K[a]
  BY <1>1, CalledItem
<1>4. Shape(live, R, nx, pv, ch, refs) /\ Region(D, c, live, nx, pv, ch, refs) /\ c \in R
  BY <1>1, <1>2, CutParts
<1> DEFINE J == [K EXCEPT ![a] = F!RemoveAt(@, i)]
<1>5. IsKids(J, ch, refs, nx)
  <2> HIDE DEF K
  <2>1. IsKids(J, ChildLeft(next, child, a, K[a][i]), refs, NextLeft(next, prev, K[a][i]))
    BY <1>2, DetachKids
  <2> QED
    BY <1>3, <2>1
<1> HIDE DEF K, D, R, nx, pv, ch, J
<1>6. IsKids(F!Emptied(J, D), Cleared(ch, D), refs \ D, Cleared(nx, D))
  BY <1>4, <1>5, EmptiedKids
<1>7. kidsBar' = F!Emptied(J, D)
  BY <1>1, <1>6, KidsAfter DEF Called
<1>8. F!DeleteChild(a, i)
  BY <1>1, <1>2, <1>3, <1>7 DEF F!DeleteChild, J, K
<1>9. live' # live /\ live' \subseteq live /\ i \in DOMAIN kidsBar[a]
  BY <1>1, <1>2, <1>3 DEF K
<1>10. F!Freeing
  BY <1>2, <1>8, <1>9 DEF F!Freeing
<1> QED
  BY <1>10 DEF F!Next

\* cJSON_ReplaceItemInArray and InObject.
LEMMA ReplaceForest ==
    ASSUME Called, NEW a \in containers, NEW c \in Items(a), NEW x \in roots,
           ReplaceItem(a, c, x)
    PROVE  F!Next
<1> DEFINE K == kidsBar
           D == Tree(c)
           R == (roots \ {x}) \union {c}
           nx == NextSwap(a, c, x)
           pv == PrevSwap(a, c, x)
           ch == ChildSwap(a, c, x)
<1>1. /\ refs' = refs \ D /\ live' = live \ D /\ roots' = roots \ {x}
      /\ Editable(a) /\ Loose(a, x)
  BY DEF ReplaceItem, Replaced
<1>2. /\ StructInv /\ Shape(live, roots, next, prev, child, refs) /\ IsKids(K, child, refs, next)
      /\ a \in live /\ a \in live \ refs /\ a \in Node /\ c \in live
      /\ F!Subtree(c) = D /\ c \in D
  BY <1>1, CalledItem
<1>3. PICK i \in 1..Len(K[a]) : c = K[a][i] /\ i \in DOMAIN K[a]
  BY <1>1, CalledItem
<1>4. /\ Shape(live, R, nx, pv, ch, refs) /\ Region(D, c, live, nx, pv, ch, refs) /\ c \in R
      /\ next' = Cleared(nx, D) /\ child' = Cleared(ch, D)
  BY <1>2, ReplaceParts
<1>5. Shape(live, roots \ {x}, NextPut(next, prev, child, a, c, x), PrevPut(prev, c, x),
            ChildPut(child, a, c, x), refs)
  BY <1>1, <1>2, PutFacts
<1>6. x \in live /\ a \notin F!Subtree(x)
  BY <1>1, <1>2, TypesNow, SubtreeIsTree DEF Called, StructInv, Loose
<1> DEFINE J == [K EXCEPT ![a] = F!ReplaceAt(@, i, x)]
<1>7. IsKids(J, ch, refs, nx)
  <2> HIDE DEF K
  <2> QED
    BY <1>2, <1>3, <1>5, ReplaceKids DEF NextSwap, ChildSwap
<1> HIDE DEF K, D, R, nx, pv, ch, J
<1>8. IsKids(F!Emptied(J, D), Cleared(ch, D), refs \ D, Cleared(nx, D))
  BY <1>4, <1>7, EmptiedKids
<1>9. kidsBar' = F!Emptied(J, D)
  BY <1>1, <1>4, <1>8, KidsAfter DEF Called
<1>10. F!Replace(a, i, x)
  BY <1>1, <1>2, <1>3, <1>6, <1>9 DEF F!Replace, F!Placeable, J, K
<1>11. live' # live /\ live' \subseteq live /\ i \in DOMAIN kidsBar[a]
  BY <1>1, <1>2, <1>3 DEF K
<1>12. F!Freeing
  BY <1>2, <1>10, <1>11 DEF F!Freeing
<1> QED
  BY <1>12 DEF F!Next

\* The children of an item in a tree are in the tree, and none is its root.
LEMMA ChildrenInTree ==
    ASSUME ShapeNow, KidsOk, NEW item \in live, NEW m \in Tree(item)
    PROVE  \A i \in 1..Len(kidsBar[m]) : kidsBar[m][i] \in Tree(item) \ {item}
<1> DEFINE K == kidsBar
           s == K[m]
           T == Tree(item) \ {item}
<1>1. /\ Tree(item) \subseteq live /\ live \subseteq Node
      /\ \A n \in Tree(item) : OwnChild(n) \in Tree(item) \union {NULL}
      /\ \A n \in Tree(item) : n # item => next[n] \in Tree(item) \union {NULL}
      /\ prev[item] \notin Tree(item)
      /\ \A e \in Tree(item) : OwnChild(e) # item
  BY TreeFacts, NowFacts
<1>2. Oc(child, refs, m) = OwnChild(m) /\ m \in Node
  BY <1>1 DEF Oc, OwnChild
<1>3. IsList(s, OwnChild(m), next)
  BY <1>2 DEF KidsOk, IsKids
<1>4. OwnChild(m) \in T \union {NULL}
  BY <1>1
<1>5. ASSUME NEW n \in T PROVE next[n] \in T \union {NULL}
  <2>1. next[n] = item => prev[item] = n
    BY <1>1, NullAssumption, NowFacts
  <2> QED
    BY <1>1, <2>1
<1> HIDE DEF s, T
<1>6. \A i \in 1..Len(s) : s[i] \in T
  BY <1>3, <1>4, <1>5, ListWithin
<1> QED
  BY <1>6 DEF s, T, K

\* The children of a copy are the copies of the children.
LEMMA CopiedList ==
    ASSUME ShapeNow, KidsOk, NEW item \in live, NEW f, NEW C, C = Tree(item),
           C \intersect refs = {}, CopiedPointers(f, C, item, TRUE), refs' = refs,
           \A n \in C : f[n] \in Node \ live, NEW m \in C
    PROVE  IsList([i \in DOMAIN kidsBar[m] |-> f[kidsBar[m][i]]], Oc(child', refs', f[m]), next')
<1> DEFINE K == kidsBar
           s == K[m]
           t == [i \in 1..Len(s) |-> f[s[i]]]
<1>1. /\ \A n \in C : next'[f[n]] = IF n = item \/ next[n] = NULL THEN NULL ELSE f[next[n]]
      /\ child'[f[m]] = IF child[m] = NULL THEN NULL ELSE f[child[m]]
  BY DEF CopiedPointers
<1>2. m \in Node /\ NULL \notin C /\ refs \subseteq live
  BY TreeFacts, NowFacts
<1>3. Oc(child, refs, m) = child[m] /\ Oc(child', refs', f[m]) = child'[f[m]]
  BY <1>2 DEF Oc
<1>4. IsList(s, child[m], next)
  BY <1>2, <1>3 DEF KidsOk, IsKids
<1>5. \A i \in 1..Len(s) : s[i] \in C /\ s[i] # item
  BY ChildrenInTree
<1> HIDE DEF K, s
<1>6. /\ child[m] = IF Len(s) = 0 THEN NULL ELSE s[1]
      /\ \A i \in 1..Len(s) : next[s[i]] = IF i = Len(s) THEN NULL ELSE s[i + 1]
  BY <1>4 DEF IsList
<1>7. s \in Seq(Node) /\ Len(s) \in Nat /\ DOMAIN s = 1..Len(s)
  BY <1>4, LenProperties DEF IsList
<1>8. t \in Seq(Node) /\ Len(t) = Len(s)
  <2>1. t \in [1..Len(s) -> Node]
    BY <1>5
  <2> HIDE DEF t
  <2> QED
    BY <1>7, <2>1
<1>9. \A i \in 1..Len(s) : t[i] = f[s[i]]
  OBVIOUS
<1> HIDE DEF t
<1>10. child'[f[m]] = IF Len(t) = 0 THEN NULL ELSE t[1]
  <2>1. Len(s) # 0 => 1 \in 1..Len(s)
    BY <1>7
  <2> QED
    BY <1>1, <1>2, <1>5, <1>6, <1>9, <1>8, <2>1
<1>11. ASSUME NEW i \in 1..Len(s) PROVE next'[t[i]] = IF i = Len(s) THEN NULL ELSE t[i + 1]
  <2>1. i # Len(s) => i + 1 \in 1..Len(s)
    <3>1. Len(s) \in Nat
      BY <1>7
    <3> QED
      BY <3>1
  <2>2. next'[t[i]] = IF next[s[i]] = NULL THEN NULL ELSE f[next[s[i]]]
    BY <1>1, <1>5, <1>9
  <2>3. CASE i = Len(s)
    BY <1>6, <2>2, <2>3
  <2>4. CASE i # Len(s)
    <3>1. next[s[i]] = s[i + 1] /\ s[i + 1] # NULL /\ t[i + 1] = f[s[i + 1]]
      BY <1>2, <1>5, <1>6, <1>9, <2>1, <2>4
    <3> QED
      BY <2>2, <2>4, <3>1
  <2> QED
    BY <2>3, <2>4
<1>12. IsList(t, Oc(child', refs', f[m]), next')
  BY <1>3, <1>10, <1>11, <1>8 DEF IsList
<1> QED
  BY <1>7, <1>12 DEF t, s, K

\* cJSON_Duplicate.
LEMMA DuplicateForest ==
    ASSUME Called, NEW item \in live, NEW b \in BOOLEAN,
           NEW f \in [IF b THEN Tree(item) ELSE {item} -> Node \ live], Duplicate(item, b, f)
    PROVE  F!Next
<1> DEFINE K == kidsBar
           C == Copied(item, b)
           G == {f[m] : m \in C}
           Origin(n) == CHOOSE m \in C : f[m] = n
           New(n) == IF b THEN [i \in DOMAIN K[Origin(n)] |-> f[K[Origin(n)][i]]] ELSE <<>>
           J == [n \in Node |-> IF \E m \in C : f[m] = n THEN New(n) ELSE K[n]]
<1>1. /\ ShapeNow /\ KidsOk /\ StructInv
      /\ Shape(live, roots, next, prev, child, refs) /\ IsKids(K, child, refs, next)
  BY DEF Called, StructInv, ShapeNow, KidsOk
<1>2. f \in [C -> Node \ live] /\ C = Copied(item, b) /\ G = {f[m] : m \in C}
  BY DEF Copied
<1>3. Copies(f, C, G, item, b)
  BY <1>2 DEF Copies
<1> HIDE DEF C, G
<1>4. /\ C \subseteq live /\ item \in C /\ C \intersect refs = {}
      /\ \A m, n \in C : f[m] = f[n] => m = n
      /\ live' = live \union G /\ roots' = roots \union {f[item]} /\ refs' = refs
      /\ G \subseteq Node \ live /\ \A m \in C : f[m] \in G /\ m \in Node
  BY <1>1, <1>3, DuplicateFacts
<1>5. CopiedPointers(f, C, item, b)
  BY <1>1, <1>3, DuplicatePointers
<1>6. \A n \in Node \ G : next'[n] = next[n] /\ child'[n] = child[n]
  BY <1>1, <1>3, DuplicatePointers
<1>7. \A m \in C : Origin(f[m]) = m
  BY <1>4
<1>8. ASSUME NEW n \in Node PROVE IsList(J[n], Oc(child', refs', n), next')
  <2>1. CASE n \in G
    <3>1. PICK m \in C : n = f[m]
      BY <1>2, <2>1
    <3>2. Origin(n) = m
      BY <1>7, <3>1
    <3>3. J[n] = IF b THEN [i \in DOMAIN K[m] |-> f[K[m][i]]] ELSE <<>>
      BY <3>1, <3>2
    <3> HIDE DEF J, Origin
    <3>4. CASE b
      <4>1. C = Tree(item) /\ CopiedPointers(f, C, item, TRUE)
        BY <1>2, <1>5, <3>4 DEF Copied
      <4>2. \A o \in C : f[o] \in Node \ live
        BY <1>2
      <4>3. IsList([i \in DOMAIN K[m] |-> f[K[m][i]]], Oc(child', refs', f[m]), next')
        BY <1>1, <1>4, <4>1, <4>2, CopiedList
      <4> QED
        BY <3>1, <3>3, <3>4, <4>3
    <3>5. CASE ~b
      <4>1. child'[n] = NULL
        BY <1>5, <3>1, <3>5 DEF CopiedPointers
      <4>2. Oc(child', refs', n) = NULL
        BY <4>1 DEF Oc
      <4>3. J[n] = <<>> /\ J[n] \in Seq(Node) /\ Len(J[n]) = 0
        BY <3>3, <3>5
      <4> QED
        BY <4>2, <4>3 DEF IsList
    <3> QED
      BY <3>4, <3>5
  <2>2. CASE n \notin G
    <3>1. J[n] = K[n]
      BY <1>2, <2>2
    <3> HIDE DEF J, K
    <3>2. /\ IsList(K[n], Oc(child, refs, n), next)
          /\ \A i \in 1..Len(K[n]) : K[n][i] \in live
      <4>1. \A o \in Node : \A i \in 1..Len(K[o]) : K[o][i] \in live \ roots
        BY <1>1, KidsFacts
      <4>2. IsList(K[n], Oc(child, refs, n), next)
        BY <1>1 DEF IsKids
      <4> QED
        BY <4>1, <4>2
    <3>3. Oc(child', refs', n) = Oc(child, refs, n)
      BY <1>4, <1>6, <2>2 DEF Oc
    <3>4. \A i \in 1..Len(K[n]) : next'[K[n][i]] = next[K[n][i]]
      BY <1>1, <1>4, <1>6, <3>2, TypesNow
    <3> QED
      BY <3>1, <3>2, <3>3, <3>4 DEF IsList
  <2> QED
    BY <2>1, <2>2
<1>9. IsKids(J, child', refs', next')
  <2>1. \A n \in Node : J[n] \in Seq(Node)
    <3> HIDE DEF J
    <3> QED
      BY <1>8 DEF IsList
  <2>2. J = [n \in Node |-> J[n]]
    OBVIOUS
  <2> HIDE DEF J
  <2>3. J \in [Node -> Seq(Node)]
    BY <2>1, <2>2
  <2> QED
    BY <1>8, <2>3 DEF IsKids
<1>10. kidsBar' = J
  <2> HIDE DEF J
  <2> QED
    BY <1>9, KidsAfter DEF Called
<1>11. F!Range(f) = G /\ DOMAIN f = C
  BY <1>2 DEF F!Range
<1>12. F!IsInjective(f)
  BY <1>4, <1>11 DEF F!IsInjective
<1>13. F!Copy(item, b, f)
  <2>1. G \intersect live = {}
    BY <1>4
  <2> QED
    BY <1>4, <1>10, <1>11, <1>12, <2>1 DEF F!Copy
<1>14. f \in [IF b THEN F!Subtree(item) ELSE {item} -> Node \ live]
  BY <1>1, SubtreeIsTree
<1>15. live' # live /\ live \subseteq live'
  BY <1>4
<1>16. F!Making
  BY <1>13, <1>14, <1>15 DEF F!Making
<1> QED
  BY <1>16 DEF F!Next

\* Every call does what Forest allows.
LEMMA ForestStep ==
    ASSUME Called, Next
    PROVE  F!Next
<1>1. containers \subseteq live
  BY DEF Called, StructInv
<1>2. CASE Making
  BY <1>2, CreateForest, CreateArrayForest, DuplicateForest DEF Making
<1>3. CASE Adding
  <2>1. PICK a \in containers, x \in Node :
           \/ AddItemToArray(a, x)
           \/ \E k \in Keys : AddItemToObject(a, k, x)
           \/ \E k \in Keys : AddItemToObjectCS(a, k, x)
           \/ \E item \in live : \/ AddItemReferenceToArray(a, x, item)
                                 \/ \E k \in Keys : AddItemReferenceToObject(a, k, x, item)
    BY <1>3 DEF Adding
  <2>2. ASSUME \/ AddItemToArray(a, x)
               \/ \E k \in Keys : AddItemToObject(a, k, x)
               \/ \E k \in Keys : AddItemToObjectCS(a, k, x)
        PROVE  F!Next
    <3>1. /\ Editable(a) /\ Loose(a, x) /\ AppendItem(a, x)
          /\ roots' = roots \ {x} /\ live' = live /\ refs' = refs
      BY <2>2 DEF AddItemToArray, AddItemToObject, AddItemToObjectCS, flags
    <3> QED
      BY <3>1, AddForest
  <2>3. ASSUME NEW item \in live,
               \/ AddItemReferenceToArray(a, x, item)
               \/ \E k \in Keys : AddItemReferenceToObject(a, k, x, item)
        PROVE  F!Next
    <3>1. /\ Editable(a) /\ Reference(x, item) /\ AppendReference(a, x, item)
          /\ roots' = roots
      BY <2>3 DEF AddItemReferenceToArray, AddItemReferenceToObject
    <3> QED
      BY <3>1, ReferenceForest
  <2> QED
    BY <2>1, <2>2, <2>3
<1>4. CASE Editing
  <2>1. PICK a \in containers : \E c \in Items(a) :
           \/ DetachItem(a, c) \/ DeleteItem(a, c)
           \/ \E x \in roots : InsertItemInArray(a, c, x) \/ ReplaceItemInArray(a, c, x)
           \/ \E x \in roots, k \in Keys : ReplaceItemInObject(a, k, c, x)
    BY <1>4 DEF Editing
  <2>2. PICK c \in Items(a) :
           \/ DetachItem(a, c) \/ DeleteItem(a, c)
           \/ \E x \in roots : InsertItemInArray(a, c, x) \/ ReplaceItem(a, c, x)
    BY <2>1 DEF ReplaceItemInArray, ReplaceItemInObject
  <2> QED
    BY <2>2, DetachForest, DeleteItemForest, InsertItemForest, ReplaceForest
<1>5. CASE Deleting
  BY <1>5, DeleteForest DEF Deleting
<1> QED
  BY <1>2, <1>3, <1>4, <1>5 DEF Next

\* The invariant the refinement needs: the shape, in a finite heap.
HeapInv == StructInv /\ IsFiniteSet(live)

\* A step of CJson is a step of Forest, or changes nothing Forest sees.
LEMMA ForestSteps == HeapInv /\ [Next]_vars => [F!Next]_F!vars
<1> SUFFICES ASSUME HeapInv, [Next]_vars PROVE [F!Next]_F!vars
  OBVIOUS
<1>1. CASE Next
  <2>1. StructInv /\ IsFiniteSet(live)
    BY DEF HeapInv
  <2>2. StructInv' /\ IsFiniteSet(live)'
    BY <1>1, <2>1, StructInvStep, LiveFinite
  <2>3. KidsOk'
    BY <2>2, KidsNow, PTL
  <2>4. Called
    BY <2>1, <2>2, <2>3, KidsNow DEF Called, KidsNext, KidsOk
  <2> QED
    BY <1>1, <2>4, ForestStep
<1>2. CASE UNCHANGED vars
  <2>1. live' = live /\ roots' = roots /\ next' = next /\ child' = child /\ refs' = refs
    BY <1>2 DEF vars, links, flags
  <2>2. kidsBar' = kidsBar
    BY <2>1 DEF kidsBar, ItemsFrom, OwnChild
  <2> QED
    BY <2>1, <2>2 DEF F!vars
<1> QED
  BY <1>1, <1>2

\* At first there are no items, and no children.
LEMMA ForestInit == Init => F!Init
<1> SUFFICES ASSUME Init PROVE F!Init
  OBVIOUS
<1> DEFINE J == [n \in Node |-> <<>>]
           K == kidsBar
<1>1. StructInv /\ IsFiniteSet(live)
  BY StructInvInit, FS_EmptySet DEF Init
<1>2. KidsOk /\ Shape(live, roots, next, prev, child, refs)
  BY <1>1, KidsNow DEF StructInv, ShapeNow
<1>3. IsKids(K, child, refs, next)
  BY <1>2 DEF KidsOk
<1>4. live = {} /\ roots = {}
  BY DEF Init
<1> HIDE DEF K
<1>5. \A n \in Node : K[n] = <<>>
  BY <1>2, <1>3, <1>4, KidsFacts
<1>6. K \in [Node -> Seq(Node)]
  BY <1>3 DEF IsKids
<1>7. K = [n \in Node |-> <<>>]
  BY <1>5, <1>6
<1> QED
  BY <1>4, <1>7 DEF F!Init, K

(* The pointers of cJSON.c implement the sequences of Forest: every call,  *)
(* on whatever heap the calls before it left, does to the children of one  *)
(* item what its name says, and to the children of all others nothing.     *)
THEOREM TreesAreSequences == Spec => RefinesForest
<1>1. Init => HeapInv
  BY StructInvInit, FS_EmptySet DEF Init, HeapInv
<1>2. HeapInv /\ [Next]_vars => HeapInv'
  BY StructInvStep, LiveFinite DEF HeapInv
<1> QED
  BY <1>1, <1>2, ForestInit, ForestSteps, PTL DEF Spec, RefinesForest, F!Spec
=============================================================================
