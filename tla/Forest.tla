-------------------------------- MODULE Forest --------------------------------
(***************************************************************************)
(* What the tree API of cJSON.h promises, without pointers: the program    *)
(* holds the roots of some trees, an item has a sequence of children, and  *)
(* a call puts an item into a sequence, takes it out, or replaces it.      *)
(***************************************************************************)
EXTENDS SequencesExt

CONSTANTS
    Node,       \* items there can be
    MaxCount    \* bound: members of an array made in one call

VARIABLES
    live,       \* items that exist
    roots,      \* items the program holds
    kids        \* per item, its children in order

vars == <<live, roots, kids>>

Init == live = {} /\ roots = {} /\ kids = [n \in Node |-> <<>>]

\* An item and all below it.
Subtree(n) ==
    LET below == [m \in live |-> ToSet(kids[m])]
        walks == {T \in SUBSET live : n \in T /\ \A m \in T : below[m] \subseteq T}
    IN  {m \in live : \A T \in walks : m \in T}

Placeable(a, x) == a \notin Subtree(x)
Emptied(ks, D) == [n \in Node |-> IF n \in D THEN <<>> ELSE ks[n]]

\* A new item without children, or with new children.
Make(a, s) ==
    LET new == {a} \union ToSet(s) IN
    /\ roots' = roots \union {a}
    /\ live' = live \union new
    /\ new \intersect live = {} /\ a \notin ToSet(s) /\ IsInjective(s)
    /\ kids' = [kids EXCEPT ![a] = s]

\* "Duplicate will create a new, identical cJSON item": f takes old to new,
\* for the whole of item's tree, or for item alone.
Copy(item, whole, f) ==
    /\ roots' = roots \union {f[item]}
    /\ live' = live \union Range(f)
    /\ Range(f) \intersect live = {} /\ IsInjective(f)
    /\ kids' = [n \in Node |->
                   IF \E m \in DOMAIN f : f[m] = n
                   THEN LET old == kids[CHOOSE m \in DOMAIN f : f[m] = n]
                        IN  IF whole THEN [i \in DOMAIN old |-> f[old[i]]] ELSE <<>>
                   ELSE kids[n]]

\* x becomes the i-th child of a; at the end when i is one past the last.
Insert(a, i, x) ==
    /\ roots' = roots \ {x}
    /\ UNCHANGED live
    /\ Placeable(a, x)
    /\ kids' = [kids EXCEPT ![a] = InsertAt(@, i, x)]

\* A reference is a new item; what it shows is not its own.
AddReference(a, r) ==
    /\ live' = live \union {r}
    /\ UNCHANGED roots
    /\ kids' = [kids EXCEPT ![a] = Append(@, r)]

Detach(a, i) ==
    /\ UNCHANGED live
    /\ roots' = roots \union {kids[a][i]}
    /\ kids' = [kids EXCEPT ![a] = RemoveAt(@, i)]

DeleteChild(a, i) ==
    LET D == Subtree(kids[a][i]) IN
    /\ UNCHANGED roots
    /\ live' = live \ D
    /\ kids' = Emptied([kids EXCEPT ![a] = RemoveAt(@, i)], D)

Replace(a, i, x) ==
    LET D == Subtree(kids[a][i]) IN
    /\ roots' = roots \ {x}
    /\ live' = live \ D
    /\ Placeable(a, x)
    /\ kids' = Emptied([kids EXCEPT ![a] = ReplaceAt(@, i, x)], D)

Delete(x) ==
    LET D == Subtree(x) IN
    /\ roots' = roots \ {x}
    /\ live' = live \ D
    /\ kids' = Emptied(kids, D)

\* A call makes items, moves items or frees items.
Making ==
    /\ live' # live /\ live \subseteq live'
    /\ \/ LET new == live' \ live
          IN  \E a \in new, s \in BoundedSeq(new, MaxCount) : Make(a, s)
       \/ \E item \in live, whole \in BOOLEAN :
             \E f \in [IF whole THEN Subtree(item) ELSE {item} -> Node \ live] : Copy(item, whole, f)
       \/ \E a \in live, r \in Node \ live : AddReference(a, r)

Moving ==
    /\ live' = live
    /\ \/ \E a \in live, x \in roots : \E i \in 1..(Len(kids[a]) + 1) : Insert(a, i, x)
       \/ \E a \in live : \E i \in DOMAIN kids[a] : Detach(a, i)

Freeing ==
    /\ live' # live /\ live' \subseteq live
    /\ \/ \E a \in live : \E i \in DOMAIN kids[a] :
             DeleteChild(a, i) \/ \E x \in roots : Replace(a, i, x)
       \/ \E x \in roots : Delete(x)

Next == Making \/ Moving \/ Freeing

Spec == Init /\ [][Next]_vars
=============================================================================
