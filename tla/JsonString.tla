------------------------------- MODULE JsonString -------------------------------
(***************************************************************************)
(* The inside of a JSON string in cJSON.c: what parse_string makes of the  *)
(* text between the quotes, and what print_string_ptr makes of a string.   *)
(* A string is a sequence of bytes other than 0.  The text is a sequence   *)
(* of pieces: a byte as it stands, a backslash and a byte, or \u and its   *)
(* four digits, which are the number they stand for: every escape is       *)
(* complete.  What the passes of parse_string make of others is in         *)
(* JsonScan.                                                               *)
(***************************************************************************)
EXTENDS Sums, SequencesExt

CONSTANTS
    Plain,      \* bytes that may stand in a text
    Units,      \* numbers that may follow \u
    MaxPieces   \* bound: pieces of a text

ASSUME PlainAssumption == Plain \subseteq 1..255
ASSUME UnitsAssumption == Units \subseteq {u \in Nat : u < 65536}
ASSUME MaxPiecesAssumption == MaxPieces \in Nat

VARIABLE pieces

Quote == 34
Backslash == 92
\* \b \f \n \r \t: the letter behind the backslash, and the byte.
Letters == {<<98, 8>>, <<102, 12>>, <<110, 10>>, <<114, 13>>, <<116, 9>>}

Byte(c) == [kind |-> "byte", code |-> c]
Escaped(c) == [kind |-> "escaped", code |-> c]
Unit(u) == [kind |-> "unit", code |-> u]

-----------------------------------------------------------------------------
\* The bytes of code point uc, written from the last one back to the first.
Encoded(uc) ==
    LET tail(k) == 128 + ((uc \div k) % 64)
    IN  IF uc < 128 THEN <<uc>>
        ELSE IF uc < 2048 THEN <<192 + (uc \div 64), tail(1)>>
        ELSE IF uc < 65536 THEN <<224 + (uc \div 4096), tail(64), tail(1)>>
        ELSE <<240 + (uc \div 262144), tail(4096), tail(64), tail(1)>>

High(u) == 55296 <= u /\ u <= 56319        \* 0xD800 to 0xDBFF
Low(u) == 56320 <= u /\ u <= 57343         \* 0xDC00 to 0xDFFF

\* Mutant: the part of a pair above 16 bits is forgotten.
CombinedShort(high, low) == (high % 1024) * 1024 + (low % 1024)
Combined(high, low) == 65536 + (high % 1024) * 1024 + (low % 1024)

\* What a piece that is no surrogate writes; 0 is not written.
OfPiece(piece) ==
    IF piece.kind = "byte" THEN <<piece.code>>
    ELSE IF piece.kind = "escaped"
         THEN IF \E l \in Letters : l[1] = piece.code
              THEN <<(CHOOSE l \in Letters : l[1] = piece.code)[2]>> ELSE <<piece.code>>
    ELSE IF Low(piece.code) \/ piece.code = 0 THEN <<>> ELSE Encoded(piece.code)

(* What is written, and the first half of a pair that the next piece may   *)
(* complete, or 0.  A unit behind a first half is lost with it unless it   *)
(* is a second half.                                                       *)
Decode(done, piece) ==
    IF done.high # 0 /\ piece.kind = "unit"
    THEN [out |-> IF Low(piece.code) THEN done.out \o Encoded(Combined(done.high, piece.code))
                  ELSE done.out,
          high |-> 0]
    ELSE IF piece.kind = "unit" /\ High(piece.code) THEN [out |-> done.out, high |-> piece.code]
    ELSE [out |-> done.out \o OfPiece(piece), high |-> 0]

Decoded(t) ==
    LET done[i \in 0..Len(t)] ==
            IF i = 0 THEN [out |-> <<>>, high |-> 0] ELSE Decode(done[i - 1], t[i])
    IN  done
valuestring(t) == Decoded(t)[Len(t)].out

(* The room parse_string allocates for such a text: a backslash and what   *)
(* follows it count once.                                                  *)
RoomOf(t) == 1 + Total([i \in DOMAIN t |-> IF t[i].kind = "unit" THEN 5 ELSE 1])

-----------------------------------------------------------------------------
\* Mutant: the byte is looked at as a signed char.
StandsIfSigned(c) == c > 31 /\ c < 128 /\ c # Quote /\ c # Backslash
StandsAsIs(c) == c > 31 /\ c # Quote /\ c # Backslash

PrintedAs(c) ==
    IF StandsAsIs(c) THEN Byte(c)
    ELSE IF c \in {Quote, Backslash} THEN Escaped(c)
    ELSE IF \E l \in Letters : l[2] = c THEN Escaped((CHOOSE l \in Letters : l[2] = c)[1])
    ELSE Unit(c)
print_string_ptr(s) == [i \in DOMAIN s |-> PrintedAs(s[i])]

\* Mutant: a control character is counted like one with a letter.
LengthAllLetters(c) == IF c < 32 \/ c \in {Quote, Backslash} THEN 2 ELSE 1
\* What len grows by for a byte.
LengthOf(c) ==
    IF c \in {Quote, Backslash} \/ \E l \in Letters : l[2] = c THEN 2
    ELSE IF c < 32 THEN 6 ELSE 1
\* The room print_string_ptr asks for, and the characters it writes.
RoomToPrint(s) == 3 + Total([i \in DOMAIN s |-> LengthOf(s[i])])
Characters(t) ==
    Total([i \in DOMAIN t |-> CASE t[i].kind = "byte" -> 1
                                [] t[i].kind = "escaped" -> 2
                                [] t[i].kind = "unit" -> 6])

-----------------------------------------------------------------------------
InitPieces == pieces = <<>>

Piece(p) == Len(pieces) < MaxPieces /\ pieces' = Append(pieces, p)

\* A backslash and a u begin a unit.
NextPiece ==
    \/ \E c \in Plain \ {Quote, Backslash} : Piece(Byte(c))
    \/ \E c \in Plain \ {117} : Piece(Escaped(c))
    \/ \E u \in Units : Piece(Unit(u))

SpecPieces == InitPieces /\ [][NextPiece]_pieces
=============================================================================
