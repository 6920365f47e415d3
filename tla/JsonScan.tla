-------------------------------- MODULE JsonScan --------------------------------
(***************************************************************************)
(* The two passes of parse_string (cJSON.c) over what follows the opening  *)
(* quote, character by character: the first counts the room the second     *)
(* writes to.  They find the closing quote each on its own, the first by   *)
(* skipping the character behind a backslash, the second by skipping whole *)
(* escapes, complete or not.  JsonString has what complete ones decode to; *)
(* here a unit writes the most it may.                                     *)
(*                                                                         *)
(* The text ends with a 0 at Len(text) + 1.  Behind it is other memory,    *)
(* and a pass that gets there is not followed further.                     *)
(***************************************************************************)
EXTENDS Integers, Sequences

CONSTANT MaxChunks  \* bound: chunks a text is made of

ASSUME MaxChunksAssumption == MaxChunks \in Nat

VARIABLES raw, chunks

(* Characters as parse_string tells them apart; a unit that begins with    *)
(* "high" is the first half of a surrogate pair.                           *)
Hex == {"digit", "high"}
Chars == {"quote", "backslash", "u", "other"} \union Hex

\* Texts are made of characters, units, and runs of four characters.
Chunks ==
    {<<c>> : c \in Chars}
    \union {<<"backslash", "u", d, "digit", "digit", "digit">> : d \in Hex}
    \union {<<"other", "other", "other", "other">>}

Outside == Len(raw) + 2
Place(i) == IF i > Outside THEN Outside ELSE i
StringEnds(i) == i > Len(raw) \/ raw[i] = "quote"

-----------------------------------------------------------------------------
\* Mutant: an escaped quote ends the first pass.
NothingSkipped(i) == i + 1
PastChar(i) == IF raw[i] = "backslash" THEN i + 2 ELSE i + 1

\* The first pass from i on: where it ends and what it counts.
Counted ==
    LET scan[i \in 1..Outside] ==
            IF StringEnds(i) THEN [at |-> i, len |-> 0]
            ELSE [scan[Place(PastChar(i))] EXCEPT !.len = @ + 1]
    IN  scan[1]

-----------------------------------------------------------------------------
\* parse_hex4 at i: that it does not return 0 for want of a digit.
FourDigits(i) == i + 3 <= Len(raw) /\ \A k \in 0..3 : raw[i + k] \in Hex

IsUnit(i) == i + 1 <= Len(raw) /\ raw[i] = "backslash" /\ raw[i + 1] = "u"

(* The escape at i: where the second pass goes on, and the most it writes. *)
(* The four places behind \u are skipped whatever stands there.            *)
Escape(i) ==
    IF ~IsUnit(i) THEN [to |-> i + 2, most |-> 1]
    ELSE IF ~FourDigits(i + 2) THEN [to |-> i + 6, most |-> 0]
    ELSE IF raw[i + 2] # "high" THEN [to |-> i + 6, most |-> 3]
    ELSE IF ~IsUnit(i + 6) THEN [to |-> i + 6, most |-> 0]
    ELSE [to |-> i + 12, most |-> 4]

\* The second pass.
Copied ==
    LET scan[i \in 1..Outside] ==
            IF StringEnds(i) THEN [at |-> i, len |-> 0]
            ELSE IF raw[i] = "backslash"
                 THEN [scan[Place(Escape(i).to)] EXCEPT !.len = @ + Escape(i).most]
                 ELSE [scan[i + 1] EXCEPT !.len = @ + 1]
    IN  scan[1]

-----------------------------------------------------------------------------
InitChunks == raw = <<>> /\ chunks = 0

NextChunk ==
    /\ chunks < MaxChunks
    /\ \E chunk \in Chunks : raw' = raw \o chunk
    /\ chunks' = chunks + 1

SpecChunks == InitChunks /\ [][NextChunk]_<<raw, chunks>>

-----------------------------------------------------------------------------
\* Up to the closing quote no escape breaks off.
Complete ==
    LET from[i \in 1..Outside] ==
            \/ StringEnds(i)
            \/ /\ raw[i] = "backslash" => i < Len(raw)
               /\ IsUnit(i) => FourDigits(i + 2)
               /\ from[Place(PastChar(i))]
    IN  from[1]

(* In a text whose escapes are complete, both passes end at the same       *)
(* quote, or at the 0, and the second writes no more than the first counts.*)
PassesAgree == Complete => Copied.at = Counted.at /\ Copied.len <= Counted.len

(* A statement of cJSON.c the code does not keep, of any text: what the    *)
(* first pass counts "is how long we need for the string" (line 199).      *)
RoomForAnyText == Copied.len <= Counted.len
=============================================================================
