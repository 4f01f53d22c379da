----------------------------- MODULE MCMongoose -----------------------------
(***************************************************************************)
(* Two workers, a queue of two sockets and four clients: one whose PUT is  *)
(* larger than the buffer, before a GET that needs a password; one with a   *)
(* GET whose body is not read, before a request of an unknown version; one  *)
(* that is refused; one whose head does not fit.                            *)
(***************************************************************************)
EXTENDS Mongoose

GET == [kind |-> "ok", method |-> "GET", auth |-> TRUE, cgi |-> FALSE, alive |-> TRUE,
        head |-> 1, length |-> NoLength]

MCRequest ==
    <<<<[GET EXCEPT !.method = "PUT", !.length = 2], [GET EXCEPT !.auth = FALSE]>>,
      <<[GET EXCEPT !.length = 1], [GET EXCEPT !.kind = "version"]>>,
      <<GET>>,
      <<[GET EXCEPT !.head = 3]>>>>
=============================================================================
