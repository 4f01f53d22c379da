------------------------------- MODULE MCElection ------------------------------
(* Small instances of Election for TLC. *)
EXTENDS Election, TLC
================================================================================
