---------------------------------- MODULE Sums ----------------------------------
(* Sums over the prefixes of a sequence of numbers.                        *)
EXTENDS Integers, Sequences

Sums(s) == LET sum[i \in 0..Len(s)] == IF i = 0 THEN 0 ELSE sum[i - 1] + s[i]
           IN  sum
Total(s) == Sums(s)[Len(s)]
=============================================================================
