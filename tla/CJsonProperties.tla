---------------------------- MODULE CJsonProperties ----------------------------
(* What must be true of the trees of cJSON.c, and how the pointers         *)
(* implement the sequences of Forest.                                      *)
EXTENDS CJson

(* The lists are doubly linked, each item is in the list of one owner or   *)
(* in none, and only the items in none are the program's.                  *)
WellLinked ==
    /\ \A n \in live : next[n] # NULL => prev[next[n]] = n
    /\ \A n \in live : prev[n] # NULL => next[prev[n]] = n
    /\ \A a \in live : OwnChild(a) # NULL => prev[child[a]] = NULL
    /\ \A a, b \in live : OwnChild(a) # NULL /\ OwnChild(a) = OwnChild(b) => a = b
    /\ \A n \in roots : /\ next[n] = NULL /\ prev[n] = NULL
                        /\ \A a \in live : OwnChild(a) # n

(* No pointer of an allocated item leads to freed memory, those a          *)
(* reference shares included.                                              *)
NoDangling ==
    \A n \in live : {next[n], prev[n], child[n], valuestring[n]} \subseteq live \union {NULL}

(* A walk along next or down child comes to an end: any set of items has   *)
(* one whose successors lie outside the set.                               *)
WalksEnd ==
    \A S \in (SUBSET live) \ {{}} :
        \E n \in S : next[n] \notin S /\ OwnChild(n) \notin S

(* No item is lost: every one allocated is freed when the program deletes  *)
(* all it holds.  (Names are: cJSON.c:689 and 719.)                        *)
NoneLost == live = UNION {Deleted(c) : c \in roots}

(* No two items have the same allocated name, so that deleting them frees  *)
(* none twice; and an item named by a literal carries the flag at which    *)
(* cJSON_Delete leaves the name alone.                                     *)
NamesOwned ==
    \A n \in live : name[n].at \in {NULL, n} \/ (name[n].at = Literal /\ n \in consts)

(* No call frees the name a literal gave an item, which "will definitely   *)
(* survive" it (cJSON.h:107), but one: AddItemToObject of an item that is  *)
(* named so already (cJSON.c:672), which looks at no flag.                 *)
RenamesLiteral ==
    \E a \in containers, x \in consts, k \in Keys :
        name[x].at = Literal /\ AddItemToObject(a, k, x)
LiteralsKept == [][freed' # {} => RenamesLiteral]_vars
-----------------------------------------------------------------------------
ItemsFrom[n \in Pointers] == IF n = NULL THEN <<>> ELSE <<n>> \o ItemsFrom[next[n]]

(* The children of an item are those a walk from its child pointer meets;  *)
(* a reference has none of its own.                                        *)
kidsBar == [n \in Node |-> ItemsFrom[OwnChild(n)]]

F == INSTANCE Forest WITH kids <- kidsBar

(* Each call does to the sequences of children one of the steps cJSON.h    *)
(* names (append, shift to the right, replace, detach, copy) and nothing   *)
(* else.  Which call does which is not compared: Forest's steps are        *)
(* without names.                                                          *)
RefinesForest == F!Spec
=============================================================================
