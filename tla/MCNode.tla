-------------------------------- MODULE MCNode --------------------------------
(* Three replicas; a complete configuration file and one without a section. *)
EXTENDS Node

NoTimes == [t \in DOMAIN DefaultTime |-> Absent]

MCFile ==
    {[group_size |-> GroupSize, sections |-> GroupSize, proxies |-> GroupSize,
      time |-> NoTimes],
     [group_size |-> GroupSize, sections |-> GroupSize - 1, proxies |-> GroupSize,
      time |-> [NoTimes EXCEPT !.ping = 2]]}

MCSkew == [n \in Replica |-> IF n = 0 THEN 2 ELSE 0]

ASSUME ClocksClose /\ StartsInTime
================================================================================
