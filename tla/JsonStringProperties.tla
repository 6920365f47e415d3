-------------------------- MODULE JsonStringProperties --------------------------
(* What must be true of the inside of strings.                             *)
EXTENDS JsonString

String == valuestring(pieces)

(* A string that is printed and parsed is the same string, control         *)
(* characters, quotes and bytes above 127 included: a device name reaches  *)
(* the client as the tool printed it.  Nothing in the printed text ends it *)
(* early or begins an escape.                                              *)
StringsSurvive ==
    LET printed == print_string_ptr(String)
    IN  /\ valuestring(printed) = String
        /\ \A i \in DOMAIN printed :
              printed[i].kind = "byte" => printed[i].code \notin 0..31 \union {Quote, Backslash}

(* What parse_string counts in its first pass over a text with complete    *)
(* escapes is room enough for what its second pass writes, decoded as it   *)
(* may be (JsonScan has texts whose escapes break off), and what           *)
(* print_string_ptr counts is exactly what it writes.                      *)
RoomSuffices ==
    /\ Len(String) + 1 <= RoomOf(pieces)
    /\ Characters(print_string_ptr(String)) + 3 = RoomToPrint(String)

(* A text whose surrogates come in pairs is decoded to the UTF-8 of its    *)
(* code points, no byte more or less, as a reader finds who takes it byte  *)
(* by byte: the two directions meet in the code points only.               *)
ToLast(points, p) == [points EXCEPT ![Len(points)] = p]

\* Code points of a text: a low half completes the one before it.
CodePoint(points, u) ==
    IF Low(u) THEN ToLast(points, 65536 + (points[Len(points)] - 55296) * 1024 + (u - 56320))
    ELSE Append(points, u)
CodePoints(t) ==
    LET points[i \in 0..Len(t)] == IF i = 0 THEN <<>> ELSE CodePoint(points[i - 1], t[i].code)
    IN  points

\* Code points of bytes: more is how many are missing of the last, -1 after
\* one that no UTF-8 has there, shorter ones for the same point included.
ReadByte(done, b) ==
    LET point == done.points[Len(done.points)]
        broken == [done EXCEPT !.more = -1]
    IN  IF b \in 128..191
        THEN IF done.more > 0 /\ (point # 0 \/ b >= (IF done.more = 2 THEN 160 ELSE 144))
             THEN [points |-> ToLast(done.points, point * 64 + (b - 128)), more |-> done.more - 1]
             ELSE broken
        ELSE IF done.more # 0 THEN broken
        ELSE IF b < 128 THEN [points |-> Append(done.points, b), more |-> 0]
        ELSE IF b \in 194..223 THEN [points |-> Append(done.points, b - 192), more |-> 1]
        ELSE IF b \in 224..239 THEN [points |-> Append(done.points, b - 224), more |-> 2]
        ELSE IF b \in 240..244 THEN [points |-> Append(done.points, b - 240), more |-> 3]
        ELSE broken
ReadBack(s) ==
    LET done[i \in 0..Len(s)] ==
            IF i = 0 THEN [points |-> <<>>, more |-> 0] ELSE ReadByte(done[i - 1], s[i])
    IN  done

OnlyUnits == \A i \in DOMAIN pieces : pieces[i].kind = "unit" /\ pieces[i].code # 0
Paired(t) ==
    \A i \in DOMAIN t :
        /\ High(t[i].code) => i < Len(t) /\ Low(t[i + 1].code)
        /\ Low(t[i].code) => i > 1 /\ High(t[i - 1].code)
UnitsDecoded ==
    OnlyUnits /\ Paired(pieces) =>
        ReadBack(String)[Len(String)] = [points |-> CodePoints(pieces)[Len(pieces)], more |-> 0]
=============================================================================
