--------------------------------- MODULE CJson ---------------------------------
(***************************************************************************)
(* The tree structure of cJSON.c: items linked to their siblings by next   *)
(* and prev, and to the first of their children by child, on a heap the    *)
(* library allocates from and frees to.  One action per call of the API    *)
(* that changes a tree; the texts a tree is parsed from or printed to are  *)
(* in JsonText.                                                            *)
(*                                                                         *)
(* The callers' side is roots: the items the program holds and no          *)
(* container has, because it made, copied or detached them.  What cJSON.h  *)
(* leaves to the caller is in the guards:                                  *)
(*   Loose      only a root is added, and not below itself                 *)
(*   Editable   lists are edited through their owner, not through a        *)
(*              reference                                                  *)
(*   Unpinned   what a reference still shows is not deleted                *)
(* It does not say which items may be added under a name, so an item whose *)
(* name is a literal may be: cJSON.c:672 then frees that literal.  freed   *)
(* shows it; what the allocator makes of it is not modelled.               *)
(*                                                                         *)
(* malloc succeeds while a node is free and the call has enough of them.   *)
(***************************************************************************)
EXTENDS Integers, Sequences, FiniteSets

CONSTANTS
    Node,       \* addresses malloc can give to a cJSON
    NULL,
    Keys,       \* names of object members, as cJSON_strcasecmp tells them apart
    Literal,    \* storage of a name that is a string literal
    Kinds,      \* kinds of item the program makes
    MaxCount,   \* bound: members of an array made in one call
    MaxFlags    \* bound: references, and items with a literal name, at one time

ASSUME NullAssumption == NULL \notin Node
ASSUME KindsAssumption == Kinds \subseteq {"container", "number", "string"}
ASSUME MaxCountAssumption == MaxCount \in Nat
ASSUME MaxFlagsAssumption == MaxFlags \in Nat
ASSUME LiteralAssumption == Literal \notin Node /\ Literal # NULL

VARIABLES
    live,               \* nodes allocated
    roots,              \* nodes the program holds
    next, prev, child,  \* the pointers of struct cJSON
    valuestring,        \* the node whose string this node's valuestring is
    name,               \* string: which name, and where it is stored
    containers,         \* nodes whose type is array or object
    refs,               \* nodes with cJSON_IsReference
    consts,             \* nodes with cJSON_StringIsConst
    freed               \* the literals the last call gave to cJSON_free

links == <<next, prev, child>>
flags == <<containers, refs, consts>>
vars == <<live, roots, links, valuestring, name, flags, freed>>

Pointers == Node \union {NULL}
Names == [key : Keys \union {NULL}, at : Pointers \union {Literal}]
NoName == [key |-> NULL, at |-> NULL]

TypeOK ==
    /\ live \subseteq Node /\ roots \subseteq live
    /\ next \in [Node -> Pointers]
    /\ prev \in [Node -> Pointers]
    /\ child \in [Node -> Pointers]
    /\ valuestring \in [Node -> Pointers]
    /\ name \in [Node -> Names]
    /\ containers \subseteq live /\ refs \subseteq live /\ consts \subseteq live
    /\ freed \subseteq {Literal}

Init ==
    /\ live = {} /\ roots = {}
    /\ next = [n \in Node |-> NULL]
    /\ prev = [n \in Node |-> NULL]
    /\ child = [n \in Node |-> NULL]
    /\ valuestring = [n \in Node |-> NULL]
    /\ name = [n \in Node |-> NoName]
    /\ containers = {} /\ refs = {} /\ consts = {} /\ freed = {}

-----------------------------------------------------------------------------
(* Walking the pointers.  Least sets, so that a walk is defined on any     *)
(* heap, a cyclic one included.                                            *)

OwnChild(n) == IF n \in refs THEN NULL ELSE child[n]

NextClosed(T) == \A n \in T : next[n] \in T \union {NULL}
\* The items a walk along next meets, from n on.
Chain(n) ==
    LET walks == {T \in SUBSET Node : n \in T /\ NextClosed(T)}
    IN  {m \in Node : \A T \in walks : m \in T}
Items(a) == IF child[a] = NULL THEN {} ELSE Chain(child[a])

\* Mutant: siblings and names are freed, children are not.
ShallowDeleted(c) == Chain(c)
OwnClosed(T) == \A n \in T : {next[n], OwnChild(n)} \subseteq T \union {NULL}
\* What cJSON_Delete(c) frees: c, the items after it, and all they own.
Deleted(c) ==
    LET walks == {T \in SUBSET Node : c \in T /\ OwnClosed(T)}
    IN  {m \in Node : \A T \in walks : m \in T}

\* What it frees once c has no next.
Tree(c) == {c} \union (IF OwnChild(c) = NULL THEN {} ELSE Deleted(OwnChild(c)))

\* The item a search by name ends on: the first with that name.
FirstNamed(a, k) ==
    {c \in Items(a) : /\ name[c].key = k
                      /\ \A d \in Items(a) : name[d].key = k => d \in Chain(c)}

Loose(a, x) == x \in roots /\ a \notin Tree(x)
Editable(a) == a \in containers /\ a \notin refs
Unpinned(D) == \A r \in refs \ D : child[r] \notin D /\ valuestring[r] \notin D

\* The literals among the names the items of S are freed with.
LiteralsOf(S) == {name[n].at : n \in S} \intersect {Literal}

\* Mutant: the flag is not looked at.
FlagIgnored(D) == D
\* The items of D whose names are freed with them (cJSON_StringIsConst).
Unflagged(D) == D \ consts

-----------------------------------------------------------------------------
(* cJSON_New_Item and the Create functions.                                *)
Create(n, kind) ==
    /\ n \notin live
    /\ live' = live \union {n}
    /\ roots' = roots \union {n}
    /\ containers' = IF kind = "container" THEN containers \union {n} ELSE containers
    /\ valuestring' = [valuestring EXCEPT ![n] = IF kind = "string" THEN n ELSE NULL]
    /\ freed' = {}
    /\ UNCHANGED <<links, name, refs, consts>>

\* cJSON_CreateIntArray and its like: the items s under a new array a.
CreateArrayOf(a, s, kind) ==
    LET members == {s[i] : i \in DOMAIN s} IN
    /\ a \notin live /\ members \intersect (live \union {a}) = {}
    /\ \A i, j \in DOMAIN s : s[i] = s[j] => i = j
    /\ live' = live \union {a} \union members
    /\ roots' = roots \union {a}
    /\ containers' = containers \union {a}
    /\ child' = [child EXCEPT ![a] = IF s = <<>> THEN NULL ELSE s[1]]
    /\ next' = [n \in Node |-> IF \E i \in DOMAIN s : s[i] = n /\ i < Len(s)
                               THEN s[1 + CHOOSE i \in DOMAIN s : s[i] = n] ELSE next[n]]
    /\ prev' = [n \in Node |-> IF \E i \in DOMAIN s : s[i] = n /\ i > 1
                               THEN s[(CHOOSE i \in DOMAIN s : s[i] = n) - 1] ELSE prev[n]]
    /\ valuestring' = [n \in Node |-> IF kind = "string" /\ n \in members THEN n ELSE valuestring[n]]
    /\ freed' = {}
    /\ UNCHANGED <<name, refs, consts>>

-----------------------------------------------------------------------------
\* Mutant: the item learns who is before it, the one before does not.
SuffixBackOnly(c, x) == prev' = [prev EXCEPT ![x] = c] /\ UNCHANGED next
suffix_object(c, x) == next' = [next EXCEPT ![c] = x] /\ prev' = [prev EXCEPT ![x] = c]

\* The list edit of cJSON_AddItemToArray.
AppendItem(a, x) ==
    \/ /\ child[a] = NULL
       /\ child' = [child EXCEPT ![a] = x]
       /\ UNCHANGED <<next, prev>>
    \/ /\ child[a] # NULL
       /\ \E c \in Items(a) : next[c] = NULL /\ suffix_object(c, x)
       /\ UNCHANGED child

AddItemToArray(a, x) ==
    /\ Editable(a) /\ Loose(a, x)
    /\ AppendItem(a, x)
    /\ roots' = roots \ {x}
    /\ freed' = {}
    /\ UNCHANGED <<live, valuestring, name, flags>>

AddItemToObject(a, k, x) ==
    /\ Editable(a) /\ Loose(a, x)
    /\ freed' = LiteralsOf({x})
    /\ name' = [name EXCEPT ![x] = [key |-> k, at |-> x]]
    /\ AppendItem(a, x)
    /\ roots' = roots \ {x}
    /\ UNCHANGED <<live, valuestring, flags>>

AddItemToObjectCS(a, k, x) ==
    /\ Editable(a) /\ Loose(a, x)
    /\ freed' = LiteralsOf(Unflagged({x}))
    /\ name' = [name EXCEPT ![x] = [key |-> k, at |-> Literal]]
    /\ consts' = consts \union {x}
    /\ AppendItem(a, x)
    /\ roots' = roots \ {x}
    /\ UNCHANGED <<live, valuestring, containers, refs>>

\* Mutant: the reference keeps the name it was copied with.
NameShared(item) == name[item]
NameOfReference(item) == NoName

\* create_reference: a copy of item that shares its children and its string.
Reference(r, item) ==
    /\ r \notin live /\ item \in live
    /\ live' = live \union {r}
    /\ refs' = refs \union {r}
    /\ containers' = IF item \in containers THEN containers \union {r} ELSE containers
    /\ consts' = IF item \in consts THEN consts \union {r} ELSE consts
    /\ valuestring' = [valuestring EXCEPT ![r] = valuestring[item]]

\* AppendItem with the child pointer a reference starts with.
AppendReference(a, r, item) ==
    \/ /\ child[a] = NULL
       /\ child' = [child EXCEPT ![a] = r, ![r] = child[item]]
       /\ UNCHANGED <<next, prev>>
    \/ /\ child[a] # NULL
       /\ \E c \in Items(a) : next[c] = NULL /\ suffix_object(c, r)
       /\ child' = [child EXCEPT ![r] = child[item]]

AddItemReferenceToArray(a, r, item) ==
    /\ Editable(a)
    /\ Reference(r, item)
    /\ name' = [name EXCEPT ![r] = NameOfReference(item)]
    /\ AppendReference(a, r, item)
    /\ freed' = {}
    /\ UNCHANGED roots

AddItemReferenceToObject(a, k, r, item) ==
    /\ Editable(a)
    /\ Reference(r, item)
    /\ name' = [name EXCEPT ![r] = [key |-> k, at |-> r]]
    /\ AppendReference(a, r, item)
    /\ freed' = {}
    /\ UNCHANGED roots

-----------------------------------------------------------------------------
\* Mutants: the item after c still points back at it; the head is not moved.
PrevForgotten(c) == [n \in Node |-> IF n = c THEN NULL ELSE prev[n]]
HeadKept(a, c) == child

\* The pointers after c, an item of a, is taken out.
NextWithout(c) ==
    [n \in Node |-> IF n = c THEN NULL ELSE IF n = prev[c] THEN next[c] ELSE next[n]]
PrevWithout(c) ==
    [n \in Node |-> IF n = c THEN NULL ELSE IF n = next[c] THEN prev[c] ELSE prev[n]]
ChildWithout(a, c) == IF c = child[a] THEN [child EXCEPT ![a] = next[c]] ELSE child

\* cJSON_DetachItemFromArray, and FromObject with c the first of that name.
DetachItem(a, c) ==
    /\ Editable(a) /\ c \in Items(a)
    /\ next' = NextWithout(c)
    /\ prev' = PrevWithout(c)
    /\ child' = ChildWithout(a, c)
    /\ roots' = roots \union {c}
    /\ freed' = {}
    /\ UNCHANGED <<live, valuestring, name, flags>>

Cleared(f, D) == [n \in Node |-> IF n \in D THEN NULL ELSE f[n]]

\* free of each node of D; nothing reads a freed node, so it is left blank.
Free(D) ==
    /\ live' = live \ D
    /\ freed' = LiteralsOf(Unflagged(D))
    /\ valuestring' = Cleared(valuestring, D)
    /\ name' = [n \in Node |-> IF n \in D THEN NoName ELSE name[n]]
    /\ containers' = containers \ D /\ refs' = refs \ D /\ consts' = consts \ D

Delete(c) ==
    LET D == Deleted(c) IN
    /\ c \in roots /\ Unpinned(D)
    /\ Free(D)
    /\ next' = Cleared(next, D) /\ prev' = Cleared(prev, D) /\ child' = Cleared(child, D)
    /\ roots' = roots \ {c}

\* cJSON_DeleteItemFromArray and FromObject.
DeleteItem(a, c) ==
    LET D == Tree(c) IN
    /\ Editable(a) /\ c \in Items(a) /\ Unpinned(D)
    /\ Free(D)
    /\ next' = Cleared(NextWithout(c), D)
    /\ prev' = Cleared(PrevWithout(c), D)
    /\ child' = Cleared(ChildWithout(a, c), D)
    /\ UNCHANGED roots

-----------------------------------------------------------------------------
\* Mutant: a new first item is linked in, but the container is not told.
InsertedBehindHead(a, c, x) == child

ChildWith(a, c, x) == IF c = child[a] THEN [child EXCEPT ![a] = x] ELSE child

\* cJSON_InsertItemInArray; an index past the end appends.
InsertItemInArray(a, c, x) ==
    /\ Editable(a) /\ Loose(a, x) /\ c \in Items(a)
    /\ next' = [n \in Node |-> IF n = x THEN c
                               ELSE IF n = prev[c] /\ c # child[a] THEN x ELSE next[n]]
    /\ prev' = [prev EXCEPT ![x] = prev[c], ![c] = x]
    /\ child' = ChildWith(a, c, x)
    /\ roots' = roots \ {x}
    /\ freed' = {}
    /\ UNCHANGED <<live, valuestring, name, flags>>

\* Mutant: the item replaced is left allocated.
NothingDeleted(c) == {}
Replaced(c) == Tree(c)

\* The pointers after x took the place of c and c was deleted.
ReplaceItem(a, c, x) ==
    LET D == Replaced(c) IN
    /\ Editable(a) /\ Loose(a, x) /\ c \in Items(a) /\ Unpinned(D)
    /\ live' = live \ D
    /\ freed' = LiteralsOf(Unflagged(D))
    /\ valuestring' = Cleared(valuestring, D)
    /\ containers' = containers \ D /\ refs' = refs \ D /\ consts' = consts \ D
    /\ next' = Cleared([n \in Node |-> IF n = x THEN next[c]
                                       ELSE IF n = prev[c] /\ c # child[a] THEN x
                                       ELSE IF n = c THEN NULL ELSE next[n]], D)
    /\ prev' = Cleared([n \in Node |-> IF n = x THEN prev[c]
                                       ELSE IF n = next[c] THEN x
                                       ELSE IF n = c THEN NULL ELSE prev[n]], D)
    /\ child' = Cleared(ChildWith(a, c, x), D)
    /\ roots' = roots \ {x}

ReplaceItemInArray(a, c, x) ==
    /\ ReplaceItem(a, c, x)
    /\ name' = [n \in Node |-> IF n \in Replaced(c) THEN NoName ELSE name[n]]

\* The name newitem had is overwritten, not freed.
ReplaceItemInObject(a, k, c, x) ==
    /\ c \in FirstNamed(a, k)
    /\ ReplaceItem(a, c, x)
    /\ name' = [n \in Node |-> IF n \in Replaced(c) THEN NoName
                               ELSE IF n = x THEN [key |-> k, at |-> x] ELSE name[n]]

-----------------------------------------------------------------------------
\* Mutant: the copy of the item keeps the item's place among its siblings.
CopiedNextKept(f, item, n) == IF next[n] \in DOMAIN f THEN f[next[n]] ELSE next[n]
CopiedNext(f, item, n) == IF n = item \/ next[n] = NULL THEN NULL ELSE f[next[n]]

(* cJSON_Duplicate: f says which fresh node is the copy of which old one;  *)
(* without recurse only item itself is copied.  Items with references      *)
(* below are left to the caller not to copy (a bound of the model).        *)
Duplicate(item, recurse, f) ==
    LET copied == IF recurse THEN Tree(item) ELSE {item}
        fresh == {f[m] : m \in copied}
        Origin(n) == CHOOSE m \in copied : f[m] = n
        Copy(old, new(_)) == [n \in Node |-> IF n \in fresh THEN new(Origin(n)) ELSE old[n]]
    IN
    /\ item \in live /\ copied \intersect refs = {}
    /\ f \in [copied -> Node \ live]
    /\ \A m, n \in copied : f[m] = f[n] => m = n
    /\ live' = live \union fresh
    /\ roots' = roots \union {f[item]}
    /\ next' = Copy(next, LAMBDA m : CopiedNext(f, item, m))
    /\ prev' = Copy(prev, LAMBDA m : IF m = item \/ prev[m] = NULL THEN NULL ELSE f[prev[m]])
    /\ child' = Copy(child, LAMBDA m : IF ~recurse \/ child[m] = NULL THEN NULL ELSE f[child[m]])
    /\ valuestring' = Copy(valuestring, LAMBDA m : IF valuestring[m] = NULL THEN NULL ELSE f[m])
    /\ name' = Copy(name, LAMBDA m : IF name[m] = NoName THEN NoName
                                     ELSE [key |-> name[m].key, at |-> f[m]])
    /\ containers' = containers \union {f[m] : m \in copied \intersect containers}
    /\ consts' = consts \union {f[m] : m \in copied \intersect consts}
    /\ freed' = {}
    /\ UNCHANGED refs

-----------------------------------------------------------------------------
Making ==
    \/ \E n \in Node, kind \in Kinds : Create(n, kind)
    \/ \E a \in Node, k \in 0..MaxCount, kind \in Kinds \ {"container"} :
          \E s \in [1..k -> Node] : CreateArrayOf(a, s, kind)
    \/ \E item \in live, b \in BOOLEAN :
          \E f \in [IF b THEN Tree(item) ELSE {item} -> Node \ live] : Duplicate(item, b, f)

Adding ==
    \E a \in containers, x \in Node :
        \/ AddItemToArray(a, x)
        \/ \E k \in Keys : AddItemToObject(a, k, x)
        \/ /\ Cardinality(consts) < MaxFlags
           /\ \E k \in Keys : AddItemToObjectCS(a, k, x)
        \/ /\ Cardinality(refs) < MaxFlags
           /\ \E item \in live :
                 \/ AddItemReferenceToArray(a, x, item)
                 \/ \E k \in Keys : AddItemReferenceToObject(a, k, x, item)

Editing ==
    \E a \in containers : \E c \in Items(a) :
        \/ DetachItem(a, c) \/ DeleteItem(a, c)
        \/ \E x \in roots : InsertItemInArray(a, c, x) \/ ReplaceItemInArray(a, c, x)
        \/ \E x \in roots, k \in Keys : ReplaceItemInObject(a, k, c, x)

Deleting == \E c \in roots : Delete(c)

Next == Making \/ Adding \/ Editing \/ Deleting

Spec == Init /\ [][Next]_vars

=============================================================================
