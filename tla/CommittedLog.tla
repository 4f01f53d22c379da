----------------------------- MODULE CommittedLog ------------------------------
(***************************************************************************)
(* What the consensus component promises its user: there is one log of     *)
(* agreed requests; the leader appends to it and executes at once, and     *)
(* every other replica executes the log from its start, in order, without  *)
(* gaps, never past its end.  A replica that crashes starts over.          *)
(***************************************************************************)
EXTENDS Naturals, Sequences

CONSTANTS Node, Leader, Request

VARIABLES
    log,     \* the agreed requests
    output   \* [Node -> Seq(Request)], what each user call back was given

vars == <<log, output>>

Init == log = <<>> /\ output = [n \in Node |-> <<>>]

(* More requests are agreed on, and the leader executes them. *)
Agree ==
    /\ log' \in Seq(Request)
    /\ Len(log') > Len(log)
    /\ \A i \in 1..Len(log) : log'[i] = log[i]
    /\ output' = [output EXCEPT ![Leader] = log']

(* Another replica executes up to the k-th request. *)
Execute(n) ==
    \E k \in (Len(output[n]) + 1)..Len(log) :
        /\ output' = [output EXCEPT ![n] = [i \in 1..k |-> log[i]]]
        /\ UNCHANGED log

StartOver(n) ==
    /\ output' = [output EXCEPT ![n] = <<>>]
    /\ UNCHANGED log

Next ==
    \/ Agree
    \/ \E n \in Node \ {Leader} : Execute(n) \/ StartOver(n)

Spec == Init /\ [][Next]_vars
================================================================================
