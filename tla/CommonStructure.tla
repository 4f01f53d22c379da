---------------------------- MODULE CommonStructure ----------------------------
(***************************************************************************)
(* View stamps and times (src/src/util/common-structure.c). A view_id and  *)
(* a req_id have 32 bits, a record number has 64: the view in the upper    *)
(* half, the request in the lower one.                                     *)
(***************************************************************************)
EXTENDS Integers

CONSTANT KEY_BASE   \* 2^32, the number of view ids and of request ids

ASSUME KeyBaseAssumption == KEY_BASE \in Nat /\ KEY_BASE > 1

Id == 0 .. KEY_BASE - 1
view_stamp == [view_id : Id, req_id : Id]

view_stamp_comp(a, b) ==
    IF a.view_id # b.view_id
    THEN IF a.view_id < b.view_id THEN -1 ELSE 1
    ELSE IF a.req_id < b.req_id THEN -1 ELSE IF a.req_id > b.req_id THEN 1 ELSE 0

(* Conversion to the key of a record, and back. *)
vstol(v, r) == v * KEY_BASE + r
ltovs(k) == [view_id |-> k \div KEY_BASE, req_id |-> k % KEY_BASE]

(* struct timeval. The sum carries nothing from tv_usec to tv_sec. *)
Usec == {u \in Nat : u < 1000000}
timeval == [tv_sec : Nat, tv_usec : Usec]

timeval_comp(a, b) ==
    IF a.tv_sec > b.tv_sec THEN 1
    ELSE IF a.tv_sec = b.tv_sec /\ a.tv_usec > b.tv_usec THEN 1
    ELSE IF a.tv_sec = b.tv_sec /\ a.tv_usec = b.tv_usec THEN 0
    ELSE -1

timeval_add(a, b) == [tv_sec |-> a.tv_sec + b.tv_sec, tv_usec |-> a.tv_usec + b.tv_usec]

(* The time a timeval stands for, in microseconds. *)
Micro(t) == t.tv_sec * 1000000 + t.tv_usec
================================================================================
