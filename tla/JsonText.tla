-------------------------------- MODULE JsonText --------------------------------
(***************************************************************************)
(* The text side of cJSON.c: what cJSON_Parse makes of a text, and what    *)
(* cJSON_Print, cJSON_PrintUnformatted and cJSON_PrintBuffered need and    *)
(* write.  A text is a sequence of tokens:                                 *)
(*   "v"  null, true, false or a number that a double holds                *)
(*   "big" "-big"  a number it does not: parse_number makes an infinity of *)
(*        it, or a nan; with the minus, it is printed with a sign          *)
(*   "s"  a closed string                                                  *)
(*   "u"  a quote no second quote follows: the string takes the rest       *)
(*   "white"  white space      "x"  anything else                          *)
(*   "lbrack" "rbrack" "lbrace" "rbrace" "comma" "colon"   [ ] { } , :     *)
(* A text arrives token by token, as a message does in a read buffer, so   *)
(* that each text and all that cutting it short leaves are looked at.      *)
(***************************************************************************)
EXTENDS Sums

CONSTANTS
    MaxTokens,      \* bound: tokens of a text, white space counted three times
    Prebuffer,      \* sizes callers pass to cJSON_PrintBuffered
    ValueLen,       \* characters of a literal or a number
    ValueRoom,      \* what print_number and print_value ask for to write them
    StringLen       \* characters of a string, for which print_string_ptr asks

ASSUME MaxTokensAssumption == MaxTokens \in Nat
ASSUME PrebufferAssumption == Prebuffer \subseteq Nat \ {0}
ASSUME LeafAssumption ==
    /\ {ValueLen, ValueRoom, StringLen} \subseteq Nat
    /\ ValueLen < ValueRoom

Tokens ==
    {"lbrack", "rbrack", "lbrace", "rbrace", "comma", "colon", "white",
     "v", "big", "-big", "s", "u", "x"}

\* The literals and numbers; an item of one has it as its type.  Which literal
\* and which number "v" is, and the digits %f and %e cut off, are not told apart.
Values == {"v", "big", "-big"}
Leaves == Values \cup {"string"}

VARIABLE text

Places(t) == 1..(Len(t) + 1)
At(t, i) == IF i \in 1..Len(t) THEN t[i] ELSE "end"

-----------------------------------------------------------------------------
(* Parsing.  A result has the place parsing stopped at, 0 for the code's   *)
(* NULL; the place ep was set to, 0 when it was not; the item as built so  *)
(* far; and how many items were allocated for it, itself included.         *)

Item(type, kids) == [type |-> type, kids |-> kids]
Blank == Item("blank", <<>>)
Result(end, ep, item, made) == [end |-> end, ep |-> ep, item |-> item, made |-> made]
Refused(ep, item, made) == Result(0, ep, item, made)

skip(t, i) ==
    CHOOSE j \in i..(Len(t) + 1) :
        At(t, j) # "white" /\ \A k \in i..(j - 1) : At(t, k) = "white"

\* The key of a member, when parse_object asks for one.
parse_string(t, i) ==
    CASE At(t, i) = "s" -> i + 1
      [] At(t, i) = "u" -> Len(t) + 1
      [] OTHER -> 0

\* Mutant: a new item is linked to its list only when its value was parsed.
LinkedWhenParsed(v, rest) == IF v.end = 0 THEN <<>> ELSE <<v.item>> \o rest
Linked(v, rest) == <<v.item>> \o rest

\* Mutant: a key that is not a string is refused without setting ep.
EpNotSet(i) == Refused(0, <<Blank>>, 1)
NotAString(i) == Refused(i, <<Blank>>, 1)

\* Mutant: the end of the text closes a list too.
ClosedByEnd(t, i, close) == At(t, i) \in {close, "end"}
Closed(t, i, close) == At(t, i) = close

(* The parse p of a text t gives a result for each kind of list, or a      *)
(* value, and the place it is parsed from.                                 *)

\* What the loop makes of value v: another member, the last, or a refusal.
Behind(p, t, type, v) ==
    LET after == skip(t, v.end)
        rest == p[<<type, after + 1>>]
    IN  IF v.end = 0 THEN Refused(v.ep, Linked(v, <<>>), v.made)
        ELSE IF At(t, after) = "comma" THEN
            Result(rest.end, rest.ep, Linked(v, rest.item), v.made + rest.made)
        ELSE IF Closed(t, after, IF type = "array" THEN "rbrack" ELSE "rbrace") THEN
            Result(after + 1, 0, Linked(v, <<>>), v.made)
        ELSE Refused(after, Linked(v, <<>>), v.made)

(* From the place of a first member on to the closing bracket: the loops   *)
(* of parse_array and, with a key in front of each value, parse_object.    *)
Members(p, t, i, type) ==
    LET start == skip(t, i)
        key == parse_string(t, start)
        colon == skip(t, key)
    IN  IF type = "array" THEN Behind(p, t, type, p[<<"value", start>>])
        ELSE IF key = 0 THEN NotAString(start)
        ELSE IF At(t, colon) # "colon" THEN Refused(colon, <<Blank>>, 1)
        ELSE Behind(p, t, type, p[<<"value", skip(t, colon + 1)>>])

Container(p, t, i, type, close) ==
    LET first == skip(t, i + 1)
        m == p[<<type, first>>]
    IN  IF At(t, first) = close THEN Result(first + 1, 0, Item(type, <<>>), 1)
        ELSE Result(m.end, m.ep, Item(type, m.item), m.made + 1)

Value(p, t, i) ==
    CASE At(t, i) \in Values -> Result(i + 1, 0, Item(At(t, i), <<>>), 1)
      [] At(t, i) \in {"s", "u"} -> Result(parse_string(t, i), 0, Item("string", <<>>), 1)
      [] At(t, i) = "lbrack" -> Container(p, t, i, "array", "rbrack")
      [] At(t, i) = "lbrace" -> Container(p, t, i, "object", "rbrace")
      [] OTHER -> Refused(i, Blank, 1)

Queries(t) == {"value", "array", "object"} \X Places(t)
parse(t) ==
    LET p[q \in Queries(t)] ==
            IF q[1] = "value" THEN Value(p, t, q[2]) ELSE Members(p, t, q[2], q[1])
    IN  p
parse_value(t, i) == parse(t)[<<"value", i>>]

\* A result r of text t, refused when more than white space is behind it.
NothingBehind(t, r) ==
    IF r.end # 0 /\ skip(t, r.end) <= Len(t)
    THEN Refused(skip(t, r.end), r.item, r.made) ELSE r

\* Mutant: what follows the value is not looked at.
TailIgnored(t, require_null_terminated) == parse_value(t, skip(t, 1))
cJSON_ParseWithOpts(t, require_null_terminated) ==
    IF require_null_terminated THEN NothingBehind(t, parse_value(t, skip(t, 1)))
    ELSE parse_value(t, skip(t, 1))
cJSON_Parse(t) == cJSON_ParseWithOpts(t, FALSE)

-----------------------------------------------------------------------------
(* Printing.  A tree that was parsed has at most one level more than its   *)
(* text has tokens.  The number of tabs print_object writes depends on the *)
(* depth an item is printed at.                                            *)
Levels == MaxTokens + 1
Trees(leaves) ==
    LET tree[d \in 0..Levels] ==
            IF d = 0 THEN {}
            ELSE [type : leaves, kids : {<<>>}]
                    \cup [type : {"array", "object"}, kids : Seq(tree[d - 1])]
    IN  tree
Items == Trees(Leaves)[Levels]

Tabs(depth) == IF depth > 1 THEN depth - 1 ELSE 0

\* What print_value writes for an item whose kids take len, with no terminator.
Writes(item, depth, fmt, len) ==
    LET n == Len(item.kids) IN
    CASE item.type \in Values -> ValueLen
      [] item.type = "string" -> StringLen
      [] item.type = "array" /\ n = 0 -> 2
      [] item.type = "array" /\ n > 0 -> 2 + len + (n - 1) * (1 + fmt)
      [] item.type = "object" /\ n = 0 -> IF fmt = 1 THEN 3 + Tabs(depth) ELSE 2
      [] item.type = "object" /\ n > 0 ->
            2 + len + n * (StringLen + 1) + (n - 1)
              + IF fmt = 1 THEN 1 + n * (depth + 3) + depth ELSE 0

\* What the kids of item take, by a function that says it of each of them.
KidsLen(written, item, depth) ==
    Total([i \in 1..Len(item.kids) |-> written[item.kids[i]][depth + 1]])
AllWritten(fmt) ==
    LET written[item \in Items] ==
            [depth \in Nat |-> Writes(item, depth, fmt, KidsLen(written, item, depth))]
    IN  written
Written(item, depth, fmt) == AllWritten(fmt)[item][depth]

\* Mutant: the tabs in front of a member are forgotten.
RoomWithoutTabs(depth, fmt) == 2 + 2 * fmt
RoomOfMember(depth, fmt) == 2 + IF fmt = 1 THEN 2 + depth ELSE 0

\* What print_array and print_object allocate for item, in print_value(.., 0).
Allocated(item, depth, fmt) ==
    LET n == Len(item.kids)
        len == KidsLen(AllWritten(fmt), item, depth)
    IN  CASE item.type \in Values -> ValueRoom
          [] item.type = "string" -> StringLen + 1
          [] item.type = "array" /\ n = 0 -> 3
          [] item.type = "array" /\ n > 0 -> 5 + len + n * (2 + fmt)
          [] item.type = "object" /\ n = 0 -> IF fmt = 1 THEN depth + 4 ELSE 3
          [] item.type = "object" /\ n > 0 ->
                7 + (IF fmt = 1 THEN depth + 1 ELSE 0)
                  + len + n * (StringLen + RoomOfMember(depth + 1, fmt))

\* The last j parts: a comma between two of them.
\* Mutant: a comma after each part.
CommaAfterEach(comma, parts) ==
    LET last[j \in 0..Len(parts)] ==
            IF j = 0 THEN <<>> ELSE parts[Len(parts) + 1 - j] \o comma \o last[j - 1]
    IN  last[Len(parts)]
Separated(comma, parts) ==
    LET last[j \in 0..Len(parts)] ==
            IF j = 0 THEN <<>>
            ELSE parts[Len(parts) + 1 - j] \o (IF j = 1 THEN <<>> ELSE comma \o last[j - 1])
    IN  last[Len(parts)]

\* The tokens of the text, white space only when formatted.
White(fmt) == IF fmt = 1 THEN <<"white">> ELSE <<>>
Member(type, part, fmt) ==
    IF type = "array" THEN part ELSE White(fmt) \o <<"s", "colon">> \o White(fmt) \o part
PrintedKids(printed, item, fmt) ==
    Separated(<<"comma">> \o White(fmt),
              [i \in 1..Len(item.kids) |-> Member(item.type, printed[item.kids[i]], fmt)])
\* What print_value makes of item, with what is printed of its kids.  An infinity
\* is printed as inf, which is not JSON; with a sign, parse_number takes the minus
\* for a number and the inf is left.
Form(item, kids, fmt) ==
    CASE item.type = "v" -> <<"v">>
      [] item.type = "big" -> <<"x">>
      [] item.type = "-big" -> <<"v", "x">>
      [] item.type = "string" -> <<"s">>
      [] item.type = "array" -> <<"lbrack">> \o kids \o <<"rbrack">>
      [] item.type = "object" ->
            <<"lbrace">> \o White(fmt) \o kids \o White(fmt) \o <<"rbrace">>
AllPrinted(fmt) ==
    LET printed[item \in Items] == Form(item, PrintedKids(printed, item, fmt), fmt)
    IN  printed
Printed(item, fmt) == AllPrinted(fmt)[item]

-----------------------------------------------------------------------------
(* The printbuffer: length bytes, of which offset are final; tail is what  *)
(* strlen finds from offset on, over whether anything was written past     *)
(* length.  An int holds the power pow2gt is to return up to 2^30: a       *)
(* greater x is not modelled.                                              *)
pow2gt(x) ==
    LET double[k \in 0..x] == IF k = 0 THEN 1 ELSE 2 * double[k - 1]
    IN  double[CHOOSE k \in 0..x : double[k] >= x /\ double[k] < 2 * x]

Buffers == [length : Nat, offset : Nat, tail : Nat, over : BOOLEAN]

\* Mutant: ensure forgets what is in the buffer already.
EnsureFromStart(p, needed) ==
    IF needed <= p.length THEN p ELSE [p EXCEPT !.length = pow2gt(needed)]
ensure(p, needed) ==
    IF needed + p.offset <= p.length THEN p
    ELSE [p EXCEPT !.length = pow2gt(needed + p.offset)]

\* Room for needed bytes, of which written are used and final become final.
Put(p, needed, written, final) ==
    LET q == ensure(p, needed)
    IN  [q EXCEPT !.over = @ \/ q.offset + written > q.length, !.offset = @ + final]
\* The same at the end of an item: the text is terminated, nothing is final.
PutLast(p, needed, n) == [Put(p, needed, n + 1, 0) EXCEPT !.tail = n]
update(p) == [p EXCEPT !.offset = @ + p.tail, !.tail = 0]

\* The name and the colon in front of a member of an object.
PutName(p, type, depth, fmt) ==
    IF type = "array" THEN p
    ELSE Put(update(PutLast(IF fmt = 1 THEN Put(p, depth, depth, depth) ELSE p,
                            StringLen + 1, StringLen)),
             1 + fmt, 1 + fmt, 1 + fmt)

\* The comma and the white space behind a member.
PutComma(p, type, last, fmt) ==
    LET n == IF type = "object" THEN fmt + IF last THEN 0 ELSE 1 ELSE 1 + fmt
    IN  IF type = "array" /\ last THEN p ELSE Put(p, n + 1, n + 1, n)

\* What the kids of an item, each given by what it makes of a buffer, make of p.
BufferedKids(kids, type, depth, fmt, p) ==
    LET n == Len(kids)
        kid[i \in 0..n] ==
            IF i = 0 THEN p
            ELSE PutComma(update(kids[i][depth][PutName(kid[i - 1], type, depth, fmt)]),
                          type, i = n, fmt)
    IN  kid[n]

Prints(type, kids, depth, fmt, p) ==
    LET n == Len(kids) IN
    CASE type \in Values -> PutLast(p, ValueRoom, ValueLen)
      [] type = "string" -> PutLast(p, StringLen + 1, StringLen)
      [] type = "array" /\ n = 0 -> PutLast(p, 3, 2)
      [] type = "array" /\ n > 0 ->
            PutLast(BufferedKids(kids, type, depth + 1, fmt, Put(p, 1, 1, 1)), 2, 1)
      [] type = "object" /\ n = 0 ->
            PutLast(p, IF fmt = 1 THEN depth + 4 ELSE 3, IF fmt = 1 THEN 3 + Tabs(depth) ELSE 2)
      [] type = "object" /\ n > 0 ->
            PutLast(BufferedKids(kids, type, depth + 1, fmt, Put(p, 2 + fmt, 2 + fmt, 1 + fmt)),
                    IF fmt = 1 THEN depth + 2 ELSE 2, IF fmt = 1 THEN depth + 1 ELSE 1)

Buffered(fmt) ==
    LET buffered[item \in Items] ==
            [depth \in Nat |-> [p \in Buffers |->
                Prints(item.type, [i \in 1..Len(item.kids) |-> buffered[item.kids[i]]],
                       depth, fmt, p)]]
    IN  buffered

cJSON_PrintBuffered(item, prebuffer, fmt) ==
    Buffered(fmt)[item][0][[length |-> prebuffer, offset |-> 0, tail |-> 0, over |-> FALSE]]

-----------------------------------------------------------------------------
Init == text = <<>>

(* The parser has looked at every token there is, and is not in the middle *)
(* of a string: only then does one more make a difference to it.           *)
LooksAtEnd ==
    /\ cJSON_ParseWithOpts(text, TRUE).ep \in {0, Len(text) + 1}
    /\ \A i \in 1..Len(text) : text[i] # "u"

Arrive(c) ==
    /\ LooksAtEnd
    /\ text' = Append(text, c)
    /\ Total([i \in 1..Len(text') |-> IF text'[i] = "white" THEN 3 ELSE 1]) <= MaxTokens

Next == \E c \in Tokens : Arrive(c)

Spec == Init /\ [][Next]_text
=============================================================================
