-------------------------------- MODULE MCCJson --------------------------------
(* A small heap for TLC; the addresses are interchangeable.                *)
EXTENDS CJsonProperties, TLC

Addresses == Permutations(Node)
=============================================================================
