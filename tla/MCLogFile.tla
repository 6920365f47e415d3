------------------------------- MODULE MCLogFile -------------------------------
(* A limit of a few pieces, so that files are cut several times.  With the *)
(* longest record, or the longest leftover, the limits are not roomy.      *)
EXTENDS LogFile

SmallRecords == {<<1>>, <<2>>, <<1, 1>>, <<2, 2, 2>>}
SmallLeftover == {<<>>, <<1>>, <<2, 2, 2>>}
=============================================================================
