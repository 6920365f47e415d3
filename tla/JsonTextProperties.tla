--------------------------- MODULE JsonTextProperties ---------------------------
(* What must be true of parsing and printing, against a grammar that is    *)
(* stated without the parser.                                              *)
EXTENDS JsonText

(* The grammar of a text t: where a value, or the elements or members of a *)
(* list, that begin at a place of t may end.  b \in Ends(t)[<<kind, a>>]   *)
(* says that the tokens from a on, up to but without b, are one, with      *)
(* white space on either side.                                             *)

\* The places from a on with nothing but white space before them.
Over(t, a) == {b \in a..(Len(t) + 1) : \A k \in a..(b - 1) : At(t, k) = "white"}

\* Brackets around one of the lists, or around nothing.
Bracketed(ends, t, c, kind, close) ==
    {d + 1 : d \in {d \in Over(t, c + 1) \cup ends[<<kind, c + 1>>] : At(t, d) = close}}

\* A value without white space around it.
Bare(ends, t, c) ==
    CASE At(t, c) \in Values \cup {"s"} -> {c + 1}
      [] At(t, c) = "lbrack" -> Bracketed(ends, t, c, "array", "rbrack")
      [] At(t, c) = "lbrace" -> Bracketed(ends, t, c, "object", "rbrace")
      [] OTHER -> {}
Padded(ends, t, a) == UNION {Over(t, d) : d \in UNION {Bare(ends, t, c) : c \in Over(t, a)}}

\* The colons with nothing but a string before them.
Colons(t, a) ==
    {k \in a..Len(t) : At(t, k) = "colon" /\ \E c \in Over(t, a) : At(t, c) = "s" /\ k \in Over(t, c + 1)}
Element(ends, t, kind, a) ==
    IF kind = "array" THEN ends[<<"value", a>>]
    ELSE UNION {ends[<<"value", k + 1>>] : k \in Colons(t, a)}
Elements(ends, t, kind, a) ==
    LET piece == Element(ends, t, kind, a)
    IN  piece \cup UNION {ends[<<kind, k + 1>>] : k \in {k \in piece : At(t, k) = "comma"}}

Ends(t) ==
    LET ends[q \in Queries(t)] ==
            IF q[1] = "value" THEN Padded(ends, t, q[2]) ELSE Elements(ends, t, q[1], q[2])
    IN  ends

\* A string the text ends in the middle of is taken as it stands.
IsOpenString(t) == At(t, skip(t, 1)) = "u"

Parse == cJSON_Parse(text)
Accepted == Parse.end # 0

-----------------------------------------------------------------------------
(* cJSON_ParseWithOpts that requires the terminator accepts exactly the    *)
(* texts of the grammar, and cJSON_Parse those with a beginning in it.     *)
AcceptsGrammar ==
    LET values == Ends(text)[<<"value", 1>>] IN
    /\ (cJSON_ParseWithOpts(text, TRUE).end # 0)
          <=> (Len(text) + 1 \in values \/ IsOpenString(text))
    /\ Accepted <=> (values # {} \/ IsOpenString(text))

(* An object or array that was cut off is refused, wherever it was cut:    *)
(* recv_handlel_bk never acts on a part of a message.                      *)
CutOffRefused ==
    Accepted /\ Parse.item.type \in {"array", "object"} =>
        \A k \in 0..(Parse.end - 2) : cJSON_Parse(SubSeq(text, 1, k)).end = 0

(* When parsing fails, every item allocated is in the tree under the root, *)
(* so the cJSON_Delete of cJSON_ParseWithOpts frees them all.              *)
AllSizes ==
    LET size[item \in Trees(Leaves \cup {"blank"})[Levels]] ==
            1 + Total([i \in 1..Len(item.kids) |-> size[item.kids[i]]])
    IN  size
Size(item) == AllSizes[item]
NothingLostParsing ==
    \A opt \in BOOLEAN : LET r == cJSON_ParseWithOpts(text, opt) IN r.made = Size(r.item)

(* cJSON.h:85: the error pointer is set when parsing failed, and then to a *)
(* token of the text or its end, and zero when it succeeded.               *)
ErrorPointer ==
    \A opt \in BOOLEAN :
        LET r == cJSON_ParseWithOpts(text, opt)
        IN  r.ep \in 0..(Len(text) + 1) /\ (r.end = 0 <=> r.ep # 0)

-----------------------------------------------------------------------------
(* The room print_array and print_object compute is enough, as far down as *)
(* an item may be in a message: each level adds tabs to each member.       *)
Inside ==
    LET inside[item \in Items] ==
            [depth \in Nat |->
                {<<item, depth>>} \cup
                    UNION {inside[item.kids[i]][depth + 1] : i \in 1..Len(item.kids)}]
    IN  inside
PrintFits ==
    Accepted => \A fmt \in {0, 1}, depth \in {0, 1, 12} :
        \A q \in Inside[Parse.item][depth] :
            Written(q[1], q[2], fmt) < Allocated(q[1], q[2], fmt)

(* Whatever the first size, cJSON_PrintBuffered stays inside its buffer    *)
(* while it grows and ends with a text as long as cJSON_Print's.  The      *)
(* buffer is never twice as long as what was asked of it, so that its      *)
(* length stays an int for texts up to 2^30 less that.                     *)
StaysInside(p, size, len) ==
    /\ ~p.over /\ p.offset + p.tail = len
    /\ p.length = size \/ p.length < 2 * (len + ValueRoom + 2)
BufferedFits ==
    Accepted => \A fmt \in {0, 1}, size \in Prebuffer :
        StaysInside(cJSON_PrintBuffered(Parse.item, size, fmt),
                    size, Written(Parse.item, 0, fmt))

(* What is printed of a tree whose numbers a double holds, formatted or    *)
(* not, is parsed back to a tree of the same form, to the last token: the  *)
(* client reads what genRespMsg built.  That the numbers in it are the     *)
(* same is not said: %f and %e print no more than six digits behind the    *)
(* point.                                                                  *)
ReadAs(r, item) == r.end # 0 /\ r.item = item
Readable == Trees({"v", "string"})[Levels]
PrintParses ==
    Accepted /\ Parse.item \in Readable => \A fmt \in {0, 1} :
        ReadAs(cJSON_ParseWithOpts(Printed(Parse.item, fmt), TRUE), Parse.item)
=============================================================================
