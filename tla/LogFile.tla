-------------------------------- MODULE LogFile --------------------------------
(***************************************************************************)
(* The log file of log.h: each LOG appends a record, and one that finds    *)
(* the file larger than log_limit_size first cuts it to its later half     *)
(* (DEL_OUT_SIZE_FILE): it reads the pieces fgets returns, at most 127     *)
(* characters each, and strcats the later half of them in a buffer of      *)
(* log_limit_size that is not cleared, empties the file, and writes the    *)
(* buffer out.  Any text may be left in that buffer, the half an earlier   *)
(* cut kept included.  stop_service kills the daemon between any two of    *)
(* these steps, and the daemon that follows reads its limit anew           *)
(* (log_init); there is one daemon at a time (OneDaemon in Service).       *)
(***************************************************************************)
EXTENDS Sums

CONSTANTS
    DefaultLimit,   \* log_limit_size when the configuration sets none
    Megabyte,       \* what LOG_LIMIT_SIZE_M counts in
    Configured,     \* values of LOG_LIMIT_SIZE_M found at a start, 0 for none
    Records,    \* records, each the sizes of the pieces fgets makes of it
    Leftover,   \* text an uncleared buffer may start with, likewise
    MaxPiece,   \* the most characters one fgets returns
    MaxPieces   \* bound: pieces logged

Pieces == Seq(1..MaxPiece)

ASSUME RecordsAssumption == \A r \in Records : r \in Pieces /\ r # <<>>
ASSUME LeftoverAssumption == Leftover \subseteq Pieces
ASSUME MaxPieceAssumption == MaxPiece \in Nat /\ MaxPiece > 0
ASSUME MaxPiecesAssumption == MaxPieces \in Nat

log_init(value) == IF value >= 1 THEN Megabyte * value ELSE DefaultLimit

ASSUME ConfiguredAssumption ==
    Configured \subseteq Nat /\ DefaultLimit \in Nat /\ Megabyte \in Nat

VARIABLES
    file,       \* pieces in the file: their number, 0 for leftovers, and size
    logged,     \* pieces logged so far
    step,       \* of the running LOG: "no", "cut", "emptied"
    all_buff,   \* pieces the cut keeps that are not written out yet
    log_limit_size, \* of the running daemon
    largest,    \* the largest limit any daemon so far ran with
    torn,       \* whether a kill ever fell between emptying and the last write
    longest_record, \* characters of the longest record logged so far
    longest_left    \* and of the longest text a buffer so far started with

limits == <<log_limit_size, largest>>
vars == <<file, logged, step, all_buff, limits, torn, longest_record, longest_left>>

SizeOf(pieces) == Total([i \in DOMAIN pieces |-> pieces[i].size])
Larger(a, b) == IF a > b THEN a ELSE b

Init ==
    /\ file = <<>> /\ logged = 0 /\ step = "no" /\ all_buff = <<>> /\ torn = FALSE
    /\ longest_record = 0 /\ longest_left = 0
    /\ \E v \in Configured : log_limit_size = log_init(v) /\ largest = log_init(v)

-----------------------------------------------------------------------------
\* Mutants: the earlier half, the same but for one piece.
EarlierHalf(pieces) == SubSeq(pieces, 1, Len(pieces) \div 2)
AllButOne(pieces) == Tail(pieces)
LaterHalf(pieces) == SubSeq(pieces, (Len(pieces) \div 2) + 1, Len(pieces))

\* Mutant: the size is not looked at.
NeverOutsized == FALSE
Outsized == SizeOf(file) > log_limit_size

\* fprintf and fclose of a record.
Append_(record) ==
    file' = file \o [i \in DOMAIN record |-> [n |-> logged + i, size |-> record[i]]]

\* LOG of a record while the file is within the limit, or has just been cut.
LOG(record) ==
    /\ logged + Len(record) <= MaxPieces
    /\ (step = "no" /\ ~Outsized) \/ (step = "emptied" /\ all_buff = <<>>)
    /\ Append_(record)
    /\ logged' = logged + Len(record)
    /\ step' = "no"
    /\ longest_record' = Larger(Total(record), longest_record)
    /\ UNCHANGED <<all_buff, limits, torn, longest_left>>

\* The file is read; left is what the buffer held.
Cut(left) ==
    /\ step = "no" /\ Outsized /\ logged < MaxPieces
    /\ all_buff' = [i \in DOMAIN left |-> [n |-> 0, size |-> left[i]]] \o LaterHalf(file)
    /\ step' = "cut"
    /\ longest_left' = Larger(Total(left), longest_left)
    /\ UNCHANGED <<file, logged, limits, torn, longest_record>>

\* fopen(path, "w")
Empty ==
    /\ step = "cut"
    /\ file' = <<>>
    /\ step' = "emptied"
    /\ UNCHANGED <<logged, all_buff, limits, torn, longest_record, longest_left>>

\* fwrite and fclose, of which a kill may leave a part.
Write ==
    /\ step = "emptied" /\ all_buff # <<>>
    /\ file' = Append(file, Head(all_buff))
    /\ all_buff' = Tail(all_buff)
    /\ UNCHANGED <<logged, step, limits, torn, longest_record, longest_left>>

\* kill -9, and later a daemon that starts with the limit it finds.
Restart(value) ==
    /\ torn' = (torn \/ (step = "emptied" /\ all_buff # <<>>))
    /\ step' = "no" /\ all_buff' = <<>>
    /\ log_limit_size' = log_init(value)
    /\ largest' = Larger(log_init(value), largest)
    /\ UNCHANGED <<file, logged, longest_record, longest_left>>

Next ==
    \/ \E record \in Records : LOG(record)
    \/ \E left \in Leftover : Cut(left)
    \/ Empty \/ Write
    \/ \E v \in Configured : Restart(v)

Spec == Init /\ [][Next]_vars

-----------------------------------------------------------------------------
(* Every limit is more than as many full pieces as the longest record and  *)
(* the longest leftover so far have characters: with pieces of 127 and the *)
(* default limit, as long as these two are less than 8000.  Nothing in the *)
(* code sees to it: a buffer may start with the half an earlier cut kept.  *)
Roomy ==
    \A v \in Configured :
        MaxPiece * (longest_record + longest_left + 1) + longest_left < log_init(v)

(* While no record and no leftover was long for the limits, the file does  *)
(* not outgrow them by more than one record, however many cuts kills       *)
(* interrupt (log.h:30, 33).                                               *)
FileBounded == Roomy => SizeOf(file) <= largest + longest_record

(* While that is so and the limit was never lowered, what a cut keeps fits,*)
(* with its terminator, in a buffer of log_limit_size, although half of    *)
(* the pieces can be nearly all of the file (log.h:42, 54).                *)
KeptFits == Roomy /\ log_limit_size = largest => SizeOf(all_buff) < log_limit_size

(* Cuts keep the newest log (log.c:22, log.h:34): unless a kill tore one,  *)
(* the file between two LOGs is an unbroken end of all that was logged,    *)
(* behind leftovers of any length.  Even a torn one repeats and reorders   *)
(* nothing.                                                                *)
NewestKept ==
    /\ \A i, j \in DOMAIN file : i < j /\ file[i].n # 0 => file[i].n < file[j].n
    /\ step = "no" /\ ~torn =>
          /\ \A i \in DOMAIN file : file[i].n \in {0, logged - Len(file) + i}
          /\ logged > 0 => file # <<>> /\ file[Len(file)].n = logged
=============================================================================
