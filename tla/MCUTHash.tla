------------------------------- MODULE MCUTHash --------------------------------
(* Seven elements with six keys, which fall into two of the first two, four, *)
(* eight and sixteen buckets: doubling does not help.                        *)
EXTENDS UTHash

MCKeyOf == [e \in Elem |-> IF e = 7 THEN 1 ELSE e]
MCHash == [k \in Key |-> 16 * k + (k % 2)]
MCRank == [e \in Elem |-> 1 + (e % 3)]
================================================================================
