-------------------------------- MODULE MCProxy --------------------------------
(* Small instances of Proxy for TLC. *)
EXTENDS Proxy, TLC

(* The client connects to the replica with the smallest id. *)
HomeOfClients == [c \in Conn |-> CHOOSE n \in Node : \A m \in Node : n <= m]

(* A later view has one request, so that the first one may have more. *)
OneInLaterViews == \A v \in 2..MaxView : Len(proposed[v]) <= 1
================================================================================
