---------------------------- MODULE MongooseProofs ----------------------------
(***************************************************************************)
(* Proofs about module Mongoose: the queue of accepted sockets, the         *)
(* wake-ups and the count of the workers, for any number of workers, any    *)
(* size of the queue, any clients and any number of failing calls.          *)
(*                                                                          *)
(* Nothing is said about the bytes of a connection, which are the subject   *)
(* of MongooseStreamProofs: which part of a stream is in a buffer does not  *)
(* matter here.  Of conn[w] and hist the proofs only know the names of      *)
(* their fields.                                                            *)
(***************************************************************************)
EXTENDS Mongoose, FiniteSetTheorems, TLAPS

Fields == {"pc", "client", "buf", "content_len", "consumed", "reg"}
HistFields == {"answered", "skipped", "raced", "late"}
MainPcs == {"init", "failed", "spawn", "count", "store", "running", "stopping", "stopped",
            "aborted"}
MasterPcs == {"none", "poll", "produce", "waits", "asleep", "closing", "wake", "join",
              "joins", "gone"}

(* The part of the type invariant that the proofs need. *)
Shape ==
    /\ ctx \in mg_context /\ main \in MainThread /\ master \in MasterThread
    /\ sock \in [Socket -> {"backlog", "open", "closed"}]
    /\ DOMAIN conn = Worker
    /\ \A w \in Worker : DOMAIN conn[w] = Fields /\ conn[w].pc \in Pcs /\ conn[w].reg \in Int
    /\ DOMAIN hist = HistFields /\ hist.raced \in BOOLEAN

LEMMA Caps ==
    /\ NUM_THREADS \in Nat /\ QUEUE \in Nat /\ QUEUE > 0
    /\ Socket \subseteq Nat /\ NoSocket \notin Socket /\ Worker \subseteq Nat
  <1>1. NUM_THREADS \in Nat /\ QUEUE \in Nat /\ QUEUE > 0
    BY MongooseAssumption
  <1>2. Socket = 1..Len(Request) /\ Len(Request) \in Nat
    BY MongooseAssumption DEF Socket
  <1> QED
    BY <1>1, <1>2 DEF Worker, NoSocket

(* Updates of records with typed fields. *)
LEMMA MainStarts ==
    ASSUME NEW m \in MainThread, NEW p \in MainPcs, NEW j \in 0..NUM_THREADS
    PROVE  [m EXCEPT !.pc = p, !.i = j] \in MainThread
  BY Zenon DEF MainThread, MainPcs

LEMMA MainReads ==
    ASSUME NEW m \in MainThread, NEW p \in MainPcs, NEW r \in Int
    PROVE  [m EXCEPT !.pc = p, !.reg = r] \in MainThread
  BY Zenon DEF MainThread, MainPcs

LEMMA ContextUpdate ==
    ASSUME NEW c \in mg_context, NEW h \in Nat
    PROVE  /\ \A q \in [0..QUEUE - 1 -> Socket \cup {NoSocket}] :
                 [c EXCEPT !.queue = q, !.sq_head = h] \in mg_context
           /\ \A t \in Nat : [c EXCEPT !.sq_tail = t, !.sq_head = h] \in mg_context
  BY Zenon DEF mg_context
--------------------------------------------------------------------------------
(* What each step changes of the state that matters here. *)

ConnShape ==
    /\ DOMAIN conn = Worker
    /\ \A w \in Worker : DOMAIN conn[w] = Fields /\ conn[w].pc \in Pcs /\ conn[w].reg \in Int

SameQueue == UNCHANGED <<ctx.queue, ctx.sq_head, ctx.sq_tail>>
SameConns == \A v \in Worker : UNCHANGED <<conn[v].pc, conn[v].client, conn[v].reg>>

(* Worker w goes to p, and the others stay where they are. *)
OnlyPc(w, p) ==
    \A v \in Worker : /\ UNCHANGED <<conn[v].client, conn[v].reg>>
                      /\ conn'[v].pc = IF v = w THEN p ELSE conn[v].pc

LEMMA ConnPc ==
    ASSUME ConnShape, NEW w \in Worker, NEW p \in Pcs, conn' = [conn EXCEPT ![w].pc = p]
    PROVE  ConnShape' /\ OnlyPc(w, p)
  BY DEF ConnShape, OnlyPc, Fields

LEMMA ConnSame ==
    ASSUME ConnShape, conn' = conn
    PROVE  ConnShape' /\ SameConns
  BY DEF ConnShape, SameConns

LEMMA ContextTypes ==
    ASSUME NEW c \in mg_context
    PROVE  /\ c.stop_flag \in 0..2 /\ c.num_threads \in Int /\ c.sq_head \in Nat /\ c.sq_tail \in Nat
           /\ c.queue \in [0..QUEUE - 1 -> Socket \cup {NoSocket}]
  BY DEF mg_context

(* A step of the main thread in mg_start: master and worker are not yet there. *)
LEMMA StartFacts ==
    ASSUME Shape, mg_start
    PROVE  /\ Shape' /\ SameQueue /\ SameConns /\ sock' = sock /\ hist' = hist
           /\ UNCHANGED <<ctx.stop_flag, ctx.num_threads>>
           /\ main.pc = "init" /\ main'.pc \in {"spawn", "failed"} /\ main'.i = main.i
           /\ master' = master \/ (master'.pc = "poll" /\ master'.sp = master.sp)
  <1>1. /\ ctx \in mg_context /\ main \in MainThread /\ master \in MasterThread
    BY DEF Shape
  <1>2. /\ main.pc = "init" /\ conn' = conn /\ sock' = sock /\ hist' = hist
        /\ \/ ctx' = [[ctx EXCEPT !.live = TRUE] EXCEPT !.listening = TRUE]
           \/ ctx' = [[ctx EXCEPT !.listening = TRUE] EXCEPT !.live = FALSE]
           \/ ctx' = [[ctx EXCEPT !.listening = FALSE] EXCEPT !.live = FALSE]
        /\ main' \in {[main EXCEPT !.pc = "spawn"], [main EXCEPT !.pc = "failed"]}
        /\ master' \in {master, [master EXCEPT !.pc = "poll"]}
    BY DEF mg_start, set_ports_option, close_all_listening_sockets, free_context
  <1>3. \A c \in mg_context : /\ [c EXCEPT !.live = TRUE] \in mg_context
                              /\ [c EXCEPT !.live = FALSE] \in mg_context
                              /\ [c EXCEPT !.listening = TRUE] \in mg_context
                              /\ [c EXCEPT !.listening = FALSE] \in mg_context
    BY DEF mg_context
  <1>4. /\ SameQueue /\ UNCHANGED <<ctx.stop_flag, ctx.num_threads>>
        /\ ctx' \in mg_context
    <2>1. SameQueue /\ UNCHANGED <<ctx.stop_flag, ctx.num_threads>>
      BY <1>1, <1>2 DEF mg_context, SameQueue
    <2>2. ctx' \in mg_context
      BY <1>1, <1>2, <1>3, Zenon
    <2> QED
      BY <2>1, <2>2
  <1>5. main' \in MainThread /\ main'.pc \in {"spawn", "failed"} /\ main'.i = main.i
    BY <1>1, <1>2 DEF MainThread
  <1>6. master' \in MasterThread /\ (master' = master \/ (master'.pc = "poll" /\ master'.sp = master.sp))
    BY <1>1, <1>2 DEF MasterThread
  <1> QED
    BY <1>2, <1>4, <1>5, <1>6 DEF Shape, SameConns

(* A worker is started, or not, or there is none left to start. *)
LEMMA SpawnFacts ==
    ASSUME Shape, start_worker
    PROVE  /\ Shape' /\ ctx' = ctx /\ master' = master /\ sock' = sock /\ hist' = hist
           /\ main.pc = "spawn" /\ main.i \in Nat
           /\ \/ main'.pc = "running" /\ SameConns
              \/ main'.pc = "spawn" /\ main'.i = main.i + 1 /\ SameConns
              \/ /\ main'.pc = "count" /\ main'.i = main.i + 1
                 /\ main.i + 1 \in Worker /\ OnlyPc(main.i + 1, "begin")
  <1>1. main \in MainThread /\ ConnShape
    BY DEF Shape, ConnShape
  <1>2. /\ main.pc = "spawn"
        /\ ctx' = ctx /\ master' = master /\ sock' = sock /\ hist' = hist
        /\ \/ main' = [main EXCEPT !.pc = "running"] /\ conn' = conn
           \/ /\ main.i # NUM_THREADS
              /\ main' = [main EXCEPT !.i = main.i + 1] /\ conn' = conn
           \/ /\ main.i # NUM_THREADS
              /\ main' = [main EXCEPT !.pc = "count", !.i = main.i + 1]
              /\ conn' = [conn EXCEPT ![main.i + 1].pc = "begin"]
    BY DEF start_worker
  <1> DEFINE j == main.i + 1
  <1>3. main.i \in Nat /\ (main.i # NUM_THREADS => j \in 0..NUM_THREADS /\ j \in Worker)
    BY <1>1, Caps DEF MainThread, Worker
  <1>4. CASE main' = [main EXCEPT !.pc = "running"] /\ conn' = conn
    <2>1. main' \in MainThread /\ main'.pc = "running"
      BY <1>1, <1>4 DEF MainThread
    <2> QED
      BY <1>2, <1>3, <1>4, <2>1 DEF Shape, SameConns
  <1>5. CASE main.i # NUM_THREADS /\ main' = [main EXCEPT !.i = j] /\ conn' = conn
    <2> HIDE DEF j
    <2>1. main' \in MainThread /\ main'.pc = "spawn" /\ main'.i = j
      BY <1>1, <1>2, <1>3, <1>5 DEF MainThread
    <2> QED
      BY <1>2, <1>3, <1>5, <2>1 DEF Shape, SameConns, j
  <1>6. CASE /\ main.i # NUM_THREADS
             /\ main' = [main EXCEPT !.pc = "count", !.i = j]
             /\ conn' = [conn EXCEPT ![j].pc = "begin"]
    <2> HIDE DEF j
    <2>0. "count" \in MainPcs
      BY DEF MainPcs
    <2>1. main' \in MainThread
      BY <1>1, <1>3, <1>6, <2>0, MainStarts, Zenon
    <2>2. main'.pc = "count" /\ main'.i = j
      BY <1>1, <1>6 DEF MainThread
    <2>3. "begin" \in Pcs
      BY DEF Pcs
    <2>4. ConnShape' /\ OnlyPc(j, "begin")
      BY <1>1, <1>3, <1>6, <2>3, ConnPc
    <2>5. Shape'
      BY <1>2, <2>1, <2>4 DEF Shape, ConnShape
    <2> QED
      BY <1>2, <1>3, <1>6, <2>2, <2>4, <2>5 DEF j
  <1> QED
    BY <1>2, <1>4, <1>5, <1>6

LEMMA CountFacts ==
    ASSUME Shape, count_worker
    PROVE  /\ Shape' /\ SameQueue /\ SameConns /\ UNCHANGED <<ctx.stop_flag, master, sock, hist>>
           /\ main'.i = main.i
           /\ \/ /\ main.pc = "count" /\ main'.pc = "store" /\ main'.reg = ctx.num_threads
                 /\ ctx' = ctx
              \/ /\ main.pc = "store" /\ main'.pc = "spawn"
                 /\ ctx'.num_threads = main.reg + 1
  <1>1. ctx \in mg_context /\ main \in MainThread /\ ctx.num_threads \in Int /\ main.reg \in Int
    BY DEF Shape, mg_context, MainThread
  <1>2. UNCHANGED <<master, conn, sock, hist>>
    BY DEF count_worker
  <1>3. CASE /\ main.pc = "count" /\ ctx' = ctx
             /\ main' = [main EXCEPT !.pc = "store", !.reg = ctx.num_threads]
    <2>0. "store" \in MainPcs
      BY DEF MainPcs
    <2>1. main' \in MainThread
      BY <1>1, <1>3, <2>0, MainReads, Zenon
    <2>2. main'.pc = "store" /\ main'.reg = ctx.num_threads /\ main'.i = main.i
      BY <1>1, <1>3 DEF MainThread
    <2> QED
      BY <1>2, <1>3, <2>1, <2>2 DEF Shape, SameConns, SameQueue
  <1>4. CASE /\ main.pc = "store" /\ ctx' = [ctx EXCEPT !.num_threads = main.reg + 1]
             /\ main' = [main EXCEPT !.pc = "spawn", !.reg = 0]
    <2>0. "spawn" \in MainPcs /\ 0 \in Int
      BY DEF MainPcs
    <2>1. main' \in MainThread
      BY <1>1, <1>4, <2>0, MainReads, Zenon
    <2>2. main'.pc = "spawn" /\ main'.i = main.i
      BY <1>1, <1>4 DEF MainThread
    <2>3. main.reg + 1 \in Int
      BY <1>1
    <2>4. ctx' \in mg_context
      BY <1>1, <1>4, <2>3 DEF mg_context
    <2>5. SameQueue /\ ctx'.stop_flag = ctx.stop_flag /\ ctx'.num_threads = main.reg + 1
      BY <1>1, <1>4 DEF SameQueue, mg_context
    <2> QED
      BY <1>2, <1>4, <2>1, <2>2, <2>4, <2>5 DEF Shape, SameConns
  <1> QED
    BY <1>3, <1>4 DEF count_worker

LEMMA StopFacts ==
    ASSUME Shape, mg_stop
    PROVE  /\ Shape' /\ SameQueue /\ SameConns /\ UNCHANGED <<ctx.num_threads, master, sock, hist>>
           /\ ctx'.stop_flag = 1 /\ main.pc = "running" /\ main'.pc = "stopping"
  <1>1. ctx \in mg_context /\ main \in MainThread
    BY DEF Shape
  <1>2. /\ UNCHANGED <<master, conn, sock, hist>> /\ main.pc = "running"
        /\ ctx' = [ctx EXCEPT !.stop_flag = 1] /\ main' = [main EXCEPT !.pc = "stopping"]
    BY DEF mg_stop
  <1>3. ctx' \in mg_context /\ main' \in MainThread /\ main'.pc = "stopping"
    BY <1>1, <1>2 DEF mg_context, MainThread
  <1>4. SameQueue /\ ctx'.stop_flag = 1 /\ ctx'.num_threads = ctx.num_threads
    BY <1>1, <1>2 DEF SameQueue, mg_context
  <1> QED
    BY <1>2, <1>3, <1>4 DEF Shape, SameConns

LEMMA StopEndsFacts ==
    ASSUME Shape, mg_stop_ends
    PROVE  /\ Shape' /\ SameQueue /\ SameConns
           /\ UNCHANGED <<ctx.stop_flag, ctx.num_threads, master, sock, hist>>
           /\ ctx.stop_flag = 2 /\ main.pc = "stopping" /\ main'.pc = "stopped"
  <1>1. ctx \in mg_context /\ main \in MainThread
    BY DEF Shape
  <1>2. /\ UNCHANGED <<master, conn, sock, hist>> /\ main.pc = "stopping" /\ ctx.stop_flag = 2
        /\ ctx' = [ctx EXCEPT !.live = FALSE] /\ main' = [main EXCEPT !.pc = "stopped"]
    BY DEF mg_stop_ends, free_context
  <1>3. ctx' \in mg_context /\ main' \in MainThread /\ main'.pc = "stopped"
    BY <1>1, <1>2 DEF mg_context, MainThread
  <1>4. SameQueue /\ ctx'.stop_flag = ctx.stop_flag /\ ctx'.num_threads = ctx.num_threads
    BY <1>1, <1>2 DEF SameQueue, mg_context
  <1> QED
    BY <1>2, <1>3, <1>4 DEF Shape, SameConns
--------------------------------------------------------------------------------
(* The steps of a worker that only move it: the queue, the sockets and the  *)
(* other threads are left alone.                                            *)

Moves(w) ==
    /\ OnlyPc(w, conn'[w].pc)
    /\ UNCHANGED <<ctx, main, master, sock, hist.raced>>

(* Where a worker comes from and goes to. *)
Ways(w, p) ==
    \/ conn[w].pc = "begin" /\ p \in {"idle", "leave"}
    \/ conn[w].pc = "asleep" /\ p = "idle"
    \/ conn[w].pc = "waits" /\ p = "asleep"
    \/ /\ conn[w].pc = "idle" /\ p = "waits"
       /\ MutexFree /\ ctx.sq_head = ctx.sq_tail /\ ctx.stop_flag = 0
    \/ conn[w].pc = "grabbed" /\ p = "leave" /\ ctx.stop_flag # 0
    \/ conn[w].pc = "grabbed" /\ p \in Serving /\ ctx.stop_flag = 0
    \/ conn[w].pc \in Serving /\ p \in Serving

HistShape == DOMAIN hist = HistFields /\ hist.raced \in BOOLEAN

(* A connection record whose request has gone on. *)
Served(c, d) ==
    DOMAIN d = Fields /\ d.pc \in Serving /\ d.client = c.client /\ d.reg = c.reg

LEMMA ConnServed ==
    ASSUME ConnShape, NEW w \in Worker, NEW d, Served(conn[w], d),
           conn' = [conn EXCEPT ![w] = d]
    PROVE  ConnShape' /\ OnlyPc(w, d.pc) /\ conn'[w].pc = d.pc
  BY DEF ConnShape, OnlyPc, Served, Serving, Pcs

LEMMA NextRequest ==
    ASSUME NEW c, DOMAIN c = Fields, NEW len, NEW keep
    PROVE  Served(c, next_request(c, len, keep))
  BY DEF next_request, reset_per_request_attributes, Served, Serving, Fields

LEMMA MovesShape ==
    ASSUME Shape, ConnShape', HistShape', ctx' = ctx, main' = main, master' = master,
           sock' = sock
    PROVE  Shape'
  BY DEF Shape, ConnShape, HistShape

LEMMA ShapeParts ==
    ASSUME Shape
    PROVE  ConnShape /\ HistShape
  BY DEF Shape, ConnShape, HistShape

LEMMA PlainMoves ==
    ASSUME Shape, NEW w \in Worker, NEW p \in Pcs, Ways(w, p),
           conn' = [conn EXCEPT ![w].pc = p], HistShape',
           ctx' = ctx, main' = main, master' = master, sock' = sock,
           hist'.raced = hist.raced
    PROVE  Shape' /\ Moves(w) /\ Ways(w, conn'[w].pc)
  <1>1. ConnShape' /\ OnlyPc(w, p)
    BY ShapeParts, ConnPc
  <1>2. conn'[w].pc = p
    BY <1>1 DEF OnlyPc
  <1> QED
    BY <1>1, <1>2, MovesShape DEF Moves

(* The steps of a worker inside a connection, whatever the client has sent. *)
Serves(w) ==
    \/ sslize(w) \/ read_request(w) \/ read_stops(w) \/ read_fails(w) \/ process_new_connection(w)
    \/ open_fails(w) \/ body_arrives(w) \/ body_done(w) \/ body_fails(w)

LEMMA EndsServed ==
    ASSUME Shape, NEW w \in Worker, NEW s, NEW c, Served(conn[w], c), NEW r, NEW len,
           NEW keep, NEW answered, Ends(w, s, c, r, len, keep, answered)
    PROVE  /\ \E d : Served(conn[w], d) /\ conn' = [conn EXCEPT ![w] = d]
           /\ HistShape' /\ hist'.raced = hist.raced
  <1> DEFINE d == next_request(c, len, keep)
  <1>1. Served(c, d)
    BY NextRequest DEF Served
  <1>2. Served(conn[w], d)
    BY <1>1 DEF Served
  <1>3. conn' = [conn EXCEPT ![w] = d]
    BY DEF Ends
  <1>4. HistShape' /\ hist'.raced = hist.raced
    BY ShapeParts DEF Ends, HistShape, HistFields
  <1> QED
    BY <1>2, <1>3, <1>4

LEMMA ServeFacts ==
    ASSUME Shape, NEW w \in Worker, Serves(w)
    PROVE  Shape' /\ Moves(w) /\ Ways(w, conn'[w].pc)
  <1> DEFINE Goes == \E d : Served(conn[w], d) /\ conn' = [conn EXCEPT ![w] = d]
             c == conn[w]
  <1>1. ConnShape /\ HistShape /\ DOMAIN c = Fields
    BY ShapeParts DEF Shape
  <1>2. SUFFICES /\ conn[w].pc \in Serving /\ Goes /\ HistShape' /\ hist'.raced = hist.raced
                 /\ ctx' = ctx /\ main' = main /\ master' = master /\ sock' = sock
    <2>1. PICK d : Served(conn[w], d) /\ conn' = [conn EXCEPT ![w] = d]
      BY <1>2
    <2>2. ConnShape' /\ OnlyPc(w, d.pc) /\ conn'[w].pc = d.pc
      BY <1>1, <2>1, ConnServed
    <2>3. d.pc \in Serving
      BY <2>1 DEF Served
    <2> QED
      BY <1>2, <2>2, <2>3, MovesShape DEF Moves, Ways
  <1>3. ASSUME conn' = [conn EXCEPT ![w].pc = "closing"] PROVE Goes
    <2> DEFINE d == [conn[w] EXCEPT !.pc = "closing"]
    <2>1. conn' = [conn EXCEPT ![w] = d]
      BY <1>3
    <2>2. Served(conn[w], d)
      BY <1>1 DEF Served, Serving, Fields
    <2> QED
      BY <2>1, <2>2
  <1>4. CASE read_request(w)
    <2>1. /\ conn[w].pc = "read" /\ UNCHANGED <<ctx, main, master, sock, hist>>
          /\ \/ conn' = [conn EXCEPT ![w].pc = "closing"]
             \/ \E x : conn' = [conn EXCEPT ![w].buf = x]
      BY <1>4, Zenon DEF read_request
    <2>2. ASSUME NEW x, conn' = [conn EXCEPT ![w].buf = x] PROVE Goes
      <3> DEFINE d == [conn[w] EXCEPT !.buf = x]
      <3>1. conn' = [conn EXCEPT ![w] = d]
        BY <2>2
      <3>2. Served(conn[w], d)
        BY <1>1, <2>1 DEF Served, Serving, Fields
      <3> QED
        BY <3>1, <3>2
    <2>3. Goes
      BY <1>3, <2>1, <2>2
    <2> QED
      BY <1>1, <2>1, <2>3 DEF Serving, HistShape
  <1>5. CASE read_stops(w) \/ read_fails(w)
    <2>1. /\ conn[w].pc = "read" /\ UNCHANGED <<ctx, main, master, sock, hist>>
          /\ conn' = [conn EXCEPT ![w].pc = "closing"]
      BY <1>5 DEF read_stops, read_fails, Reading
    <2> QED
      BY <1>1, <1>3, <2>1 DEF Serving, HistShape
  <1>6. CASE process_new_connection(w)
    <2> DEFINE s == c.client
               len == get_request_len(s, c.buf)
               i == parse_http_request(c.buf)
               r == Request[s][i]
               answered == Append(hist.answered[s], i)
               own == [c EXCEPT !.content_len = Content_Length(r)]
    <2>1. c.pc = "read" /\ UNCHANGED <<ctx, main, master, sock>>
      BY <1>6 DEF process_new_connection
    <2>2. Served(c, c) /\ Served(c, own)
      BY <1>1, <2>1 DEF Served, Serving, Fields
    <2>3. \/ conn' = [conn EXCEPT ![w].pc = "closing"] /\ hist' = hist
          \/ /\ conn' = [conn EXCEPT ![w] = next_request(c, len, FALSE)]
             /\ hist' = [hist EXCEPT !.answered[s] = answered]
          \/ Ends(w, s, c, r, len, r.alive, answered)
          \/ /\ conn' = [conn EXCEPT ![w] = forward_body_data(own, len)]
             /\ hist' = [hist EXCEPT !.answered[s] = answered]
          \/ Ends(w, s, own, r, len, should_keep_alive(r), answered)
      BY <1>6 DEF process_new_connection
    <2>4. ASSUME hist' = [hist EXCEPT !.answered[s] = answered]
          PROVE  HistShape' /\ hist'.raced = hist.raced
      BY <1>1, <2>4 DEF HistShape, HistFields
    <2>5. Served(c, next_request(c, len, FALSE)) /\ Served(c, forward_body_data(own, len))
      <3>1. Served(c, next_request(c, len, FALSE))
        BY <1>1, NextRequest
      <3> HIDE DEF own
      <3>2. Served(c, forward_body_data(own, len))
        BY <2>2 DEF Served, forward_body_data, Serving, Fields
      <3> QED
        BY <3>1, <3>2
    <2> HIDE DEF own, r, len, i, answered, c, s
    <2>6. Goes /\ HistShape' /\ hist'.raced = hist.raced
      <3>1. CASE conn' = [conn EXCEPT ![w].pc = "closing"] /\ hist' = hist
        BY <1>1, <1>3, <3>1 DEF HistShape
      <3>2. CASE /\ conn' = [conn EXCEPT ![w] = next_request(c, len, FALSE)]
                 /\ hist' = [hist EXCEPT !.answered[s] = answered]
        BY <2>4, <2>5, <3>2 DEF c
      <3>3. CASE Ends(w, s, c, r, len, r.alive, answered)
        BY <2>2, <3>3, EndsServed DEF c
      <3>4. CASE /\ conn' = [conn EXCEPT ![w] = forward_body_data(own, len)]
                 /\ hist' = [hist EXCEPT !.answered[s] = answered]
        BY <2>4, <2>5, <3>4 DEF c
      <3>5. CASE Ends(w, s, own, r, len, should_keep_alive(r), answered)
        BY <2>2, <3>5, EndsServed DEF c
      <3> QED
        BY <2>3, <3>1, <3>2, <3>3, <3>4, <3>5
    <2> QED
      BY <2>1, <2>6 DEF Serving, c
  <1>7. CASE open_fails(w)
    <2> DEFINE s == c.client
               r == Request[s][parse_http_request(c.buf)]
               d == [c EXCEPT !.consumed = 0]
    <2>1. /\ c.pc = "body" /\ UNCHANGED <<ctx, main, master, sock>>
          /\ Ends(w, s, d, r, get_request_len(s, c.buf), r.alive, hist.answered[s])
      BY <1>7 DEF open_fails
    <2>2. Served(c, d)
      BY <1>1, <2>1 DEF Served, Serving, Fields
    <2> HIDE DEF d, r, s
    <2>3. Goes /\ HistShape' /\ hist'.raced = hist.raced
      BY <2>1, <2>2, EndsServed
    <2> QED
      BY <2>1, <2>3 DEF Serving
  <1>8. ASSUME c.pc = "body", body_ends(w, c)
        PROVE  Goes /\ HistShape' /\ hist'.raced = hist.raced
    <2> DEFINE s == c.client
               r == Request[s][parse_http_request(c.buf)]
    <2>1. Ends(w, s, c, r, get_request_len(s, c.buf), r.alive, hist.answered[s])
      BY <1>8 DEF body_ends
    <2>2. Served(c, c)
      BY <1>1, <1>8 DEF Served, Serving
    <2> HIDE DEF r, s
    <2> QED
      BY <2>1, <2>2, EndsServed
  <1>9. CASE body_arrives(w)
    <2>1. /\ c.pc = "body" /\ UNCHANGED <<ctx, main, master, sock>>
          /\ \/ \E x : conn' = [conn EXCEPT ![w].consumed = x] /\ hist' = hist
             \/ body_ends(w, c)
      BY <1>9, Zenon DEF body_arrives
    <2>2. ASSUME NEW x, conn' = [conn EXCEPT ![w].consumed = x], hist' = hist
          PROVE  Goes /\ HistShape' /\ hist'.raced = hist.raced
      <3> DEFINE d == [conn[w] EXCEPT !.consumed = x]
      <3>1. conn' = [conn EXCEPT ![w] = d]
        BY <2>2
      <3>2. Served(conn[w], d)
        BY <1>1, <2>1 DEF Served, Serving, Fields
      <3> QED
        BY <1>1, <2>2, <3>1, <3>2 DEF HistShape
    <2>3. Goes /\ HistShape' /\ hist'.raced = hist.raced
      BY <1>8, <2>1, <2>2
    <2> QED
      BY <2>1, <2>3 DEF Serving
  <1>10. CASE body_done(w) \/ body_fails(w)
    <2>1. c.pc = "body" /\ UNCHANGED <<ctx, main, master, sock>> /\ body_ends(w, c)
      BY <1>10 DEF body_done, body_fails
    <2> QED
      BY <1>8, <2>1 DEF Serving
  <1>11. CASE sslize(w)
    <2> DEFINE d == begins_connection(c)
    <2>1. /\ c.pc = "handshake" /\ UNCHANGED <<ctx, main, master, sock, hist>>
          /\ \/ conn' = [conn EXCEPT ![w] = d]
             \/ conn' = [conn EXCEPT ![w].pc = "closing"]
      BY <1>11 DEF sslize
    <2>2. Served(conn[w], d)
      BY <1>1 DEF Served, Serving, Fields, begins_connection, reset_per_request_attributes
    <2> HIDE DEF d
    <2>3. Goes
      BY <1>3, <2>1, <2>2
    <2> QED
      BY <1>1, <2>1, <2>3 DEF Serving, HistShape
  <1> QED
    BY <1>4, <1>5, <1>6, <1>7, <1>9, <1>10, <1>11 DEF Serves

LEMMA WorkerFacts ==
    ASSUME Shape, NEW w \in Worker,
           \/ worker_begins(w) \/ consume_waits(w) \/ worker_loop(w)
           \/ /\ conn[w].pc = "asleep" /\ conn' = [conn EXCEPT ![w].pc = "idle"]
              /\ UNCHANGED <<ctx, main, master, sock, hist>>
           \/ /\ conn[w].pc = "idle" /\ MutexFree
              /\ ctx.sq_head = ctx.sq_tail /\ ctx.stop_flag = 0
              /\ conn' = [conn EXCEPT ![w].pc = "waits"]
              /\ UNCHANGED <<ctx, main, master, sock, hist>>
    PROVE  Shape' /\ Moves(w) /\ Ways(w, conn'[w].pc)
  <1>1. ConnShape /\ HistShape /\ DOMAIN conn[w] = Fields
    BY ShapeParts DEF Shape
  <1>2. ASSUME NEW p, p \in Pcs, Ways(w, p), conn' = [conn EXCEPT ![w].pc = p],
               UNCHANGED <<ctx, main, master, sock, hist>>
        PROVE  Shape' /\ Moves(w) /\ Ways(w, conn'[w].pc)
    BY <1>1, <1>2, PlainMoves DEF HistShape
  <1>3. CASE worker_begins(w)
    <2>1. /\ conn[w].pc = "begin" /\ UNCHANGED <<ctx, main, master, sock, hist>>
          /\ \/ conn' = [conn EXCEPT ![w].pc = "idle"]
             \/ conn' = [conn EXCEPT ![w].pc = "leave"]
      BY <1>3 DEF worker_begins
    <2>2. Ways(w, "idle") /\ Ways(w, "leave") /\ "idle" \in Pcs /\ "leave" \in Pcs
      BY <2>1 DEF Ways, Pcs
    <2> QED
      BY <1>2, <2>1, <2>2
  <1>4. CASE consume_waits(w)
    <2>1. /\ conn[w].pc = "waits" /\ UNCHANGED <<ctx, main, master, sock>>
          /\ conn' = [conn EXCEPT ![w].pc = "asleep"]
      BY <1>4 DEF consume_waits
    <2>2. HistShape' /\ hist'.raced = hist.raced
      BY <1>1, <1>4 DEF consume_waits, HistShape, HistFields
    <2>3. Ways(w, "asleep") /\ "asleep" \in Pcs
      BY <2>1 DEF Ways, Pcs
    <2> QED
      BY <2>1, <2>2, <2>3, PlainMoves
  <1>5. CASE worker_loop(w)
    <2>1. /\ conn[w].pc = "grabbed" /\ UNCHANGED <<ctx, main, master, sock, hist>>
          /\ \/ ctx.stop_flag # 0 /\ conn' = [conn EXCEPT ![w].pc = "leave"]
             \/ ctx.stop_flag = 0 /\ conn' = [conn EXCEPT ![w] = begins_connection(conn[w])]
             \/ ctx.stop_flag = 0 /\ conn' = [conn EXCEPT ![w].pc = "handshake"]
      BY <1>5 DEF worker_loop
    <2>2. CASE ctx.stop_flag # 0 /\ conn' = [conn EXCEPT ![w].pc = "leave"]
      <3>1. Ways(w, "leave") /\ "leave" \in Pcs
        BY <2>1, <2>2 DEF Ways, Pcs
      <3> QED
        BY <1>2, <2>1, <2>2, <3>1
    <2>3. CASE ctx.stop_flag = 0 /\ conn' = [conn EXCEPT ![w].pc = "handshake"]
      <3>1. Ways(w, "handshake") /\ "handshake" \in Pcs
        BY <2>1, <2>3 DEF Ways, Pcs, Serving
      <3> QED
        BY <1>2, <2>1, <2>3, <3>1
    <2>4. CASE ctx.stop_flag = 0 /\ conn' = [conn EXCEPT ![w] = begins_connection(conn[w])]
      <3> DEFINE d == begins_connection(conn[w])
      <3>1. Served(conn[w], d)
        BY <1>1 DEF Served, Serving, Fields, begins_connection, reset_per_request_attributes
      <3>2. conn' = [conn EXCEPT ![w] = d]
        BY <2>4
      <3> HIDE DEF d
      <3>3. ConnShape' /\ OnlyPc(w, d.pc) /\ conn'[w].pc = d.pc /\ d.pc \in Serving
        BY <1>1, <3>1, <3>2, ConnServed DEF Served
      <3>4. HistShape'
        BY <1>1, <2>1 DEF HistShape
      <3> QED
        BY <2>1, <2>4, <3>3, <3>4, MovesShape DEF Moves, Ways
    <2> QED
      BY <2>1, <2>2, <2>3, <2>4
  <1>6. CASE /\ conn[w].pc = "asleep" /\ conn' = [conn EXCEPT ![w].pc = "idle"]
             /\ UNCHANGED <<ctx, main, master, sock, hist>>
    <2>1. Ways(w, "idle") /\ "idle" \in Pcs
      BY <1>6 DEF Ways, Pcs
    <2> QED
      BY <1>2, <1>6, <2>1
  <1>7. CASE /\ conn[w].pc = "idle" /\ MutexFree
             /\ ctx.sq_head = ctx.sq_tail /\ ctx.stop_flag = 0
             /\ conn' = [conn EXCEPT ![w].pc = "waits"]
             /\ UNCHANGED <<ctx, main, master, sock, hist>>
    <2>1. Ways(w, "waits") /\ "waits" \in Pcs
      BY <1>7 DEF Ways, Pcs
    <2> QED
      BY <1>2, <1>7, <2>1
  <1> QED
    BY <1>3, <1>4, <1>5, <1>6, <1>7
--------------------------------------------------------------------------------
(* The steps of the master that leave the queue and the sockets alone. *)

Hands == {"produce", "waits", "asleep"}

MasterMoves ==
    /\ SameQueue /\ UNCHANGED <<ctx.num_threads, main, sock, hist.raced>>
    /\ master'.sp = master.sp
    /\ \A v \in Worker : UNCHANGED <<conn[v].client, conn[v].reg>>
    /\ \/ SameConns
       \/ \A v \in Worker : conn'[v].pc = IF conn[v].pc = "asleep" THEN "idle" ELSE conn[v].pc

(* Where the master comes from and goes to. *)
MasterWays(p) ==
    \/ master.pc = "asleep" /\ p = "produce" /\ ctx'.stop_flag = ctx.stop_flag
    \/ master.pc = "joins" /\ p = "join" /\ ctx'.stop_flag = ctx.stop_flag
    \/ master.pc = "produce" /\ p = "waits" /\ Full /\ ctx'.stop_flag = ctx.stop_flag
    \/ master.pc = "waits" /\ p = "asleep" /\ ctx'.stop_flag = ctx.stop_flag
    \/ /\ master.pc = "poll" /\ p = "closing"
       /\ ctx'.stop_flag = ctx.stop_flag /\ ctx.stop_flag # 0
    \/ master.pc = "closing" /\ p = "wake" /\ ctx'.stop_flag = ctx.stop_flag
    \/ master.pc = "wake" /\ p = "join" /\ ctx'.stop_flag = ctx.stop_flag
    \/ master.pc = "join" /\ p = "joins" /\ ctx'.stop_flag = ctx.stop_flag
    \/ /\ master.pc = "join" /\ p = "gone" /\ ctx'.stop_flag = 2 /\ ctx.num_threads <= 0
       /\ MutexFree

LEMMA MasterPc ==
    ASSUME NEW m \in MasterThread, NEW p \in MasterPcs
    PROVE  /\ [m EXCEPT !.pc = p] \in MasterThread
           /\ [m EXCEPT !.pc = p].pc = p /\ [m EXCEPT !.pc = p].sp = m.sp
  BY DEF MasterThread, MasterPcs

LEMMA ContextStays ==
    ASSUME ctx \in mg_context, ctx' \in {ctx, [ctx EXCEPT !.listening = FALSE]}
    PROVE  ctx' \in mg_context /\ SameQueue /\ UNCHANGED <<ctx.num_threads, ctx.stop_flag>>
  BY DEF mg_context, SameQueue

LEMMA MasterFacts ==
    ASSUME Shape,
           \/ /\ master.pc \in {"asleep", "joins"}
              /\ master' = [master EXCEPT !.pc = IF @ = "asleep" THEN "produce" ELSE "join"]
              /\ UNCHANGED <<ctx, main, conn, sock, hist>>
           \/ /\ master.pc = "poll" /\ ctx.stop_flag # 0
              /\ master' = [master EXCEPT !.pc = "closing"]
              /\ UNCHANGED <<ctx, main, conn, sock, hist>>
           \/ /\ master.pc = "produce" /\ Full
              /\ master' = [master EXCEPT !.pc = "waits"]
              /\ UNCHANGED <<ctx, main, conn, sock, hist>>
           \/ produce_waits \/ stop_listening \/ wake_workers \/ join_workers
    PROVE  Shape' /\ MasterMoves /\ MasterWays(master'.pc)
  <1>1. /\ master \in MasterThread /\ ctx \in mg_context /\ ConnShape /\ HistShape
        /\ ctx.num_threads \in Int
    BY ShapeParts DEF Shape, mg_context
  <1>2. UNCHANGED <<main, sock, hist>>
    BY DEF produce_waits, stop_listening, wake_workers, join_workers
  <1>3. ASSUME NEW p, p \in MasterPcs, master' = [master EXCEPT !.pc = p], conn' = conn,
               ctx' \in {ctx, [ctx EXCEPT !.listening = FALSE]},
               ctx'.stop_flag = ctx.stop_flag => MasterWays(p)
        PROVE  Shape' /\ MasterMoves /\ MasterWays(master'.pc)
    <2>1. master' \in MasterThread /\ master'.pc = p /\ master'.sp = master.sp
      BY <1>1, <1>3, MasterPc
    <2>2. ctx' \in mg_context /\ SameQueue /\ UNCHANGED <<ctx.num_threads, ctx.stop_flag>>
      BY <1>1, <1>3, ContextStays
    <2>3. Shape'
      BY <1>2, <1>3, <2>1, <2>2 DEF Shape
    <2> QED
      BY <1>2, <1>3, <2>1, <2>2, <2>3 DEF MasterMoves, SameConns
  <1>4. CASE /\ master.pc \in {"asleep", "joins"}
             /\ master' = [master EXCEPT !.pc = IF @ = "asleep" THEN "produce" ELSE "join"]
             /\ UNCHANGED <<ctx, main, conn, sock, hist>>
    <2>1. CASE master.pc = "asleep"
      <3>1. "produce" \in MasterPcs /\ MasterWays("produce") /\ master' = [master EXCEPT !.pc = "produce"]
        BY <1>4, <2>1 DEF MasterPcs, MasterWays
      <3> QED
        BY <1>3, <1>4, <3>1
    <2>2. CASE master.pc = "joins"
      <3>1. "join" \in MasterPcs /\ MasterWays("join") /\ master' = [master EXCEPT !.pc = "join"]
        BY <1>4, <2>2 DEF MasterPcs, MasterWays
      <3> QED
        BY <1>3, <1>4, <3>1
    <2> QED
      BY <1>4, <2>1, <2>2
  <1>5. CASE /\ master.pc = "poll" /\ ctx.stop_flag # 0
             /\ master' = [master EXCEPT !.pc = "closing"]
             /\ UNCHANGED <<ctx, main, conn, sock, hist>>
    <2>1. "closing" \in MasterPcs /\ MasterWays("closing")
      BY <1>5 DEF MasterPcs, MasterWays
    <2> QED
      BY <1>3, <1>5, <2>1
  <1>6. CASE /\ master.pc = "produce" /\ Full
             /\ master' = [master EXCEPT !.pc = "waits"]
             /\ UNCHANGED <<ctx, main, conn, sock, hist>>
    <2>1. "waits" \in MasterPcs /\ MasterWays("waits")
      BY <1>6 DEF MasterPcs, MasterWays
    <2> QED
      BY <1>3, <1>6, <2>1
  <1>7. CASE produce_waits
    <2>1. /\ "asleep" \in MasterPcs /\ MasterWays("asleep") /\ conn' = conn /\ ctx' = ctx
          /\ master' = [master EXCEPT !.pc = "asleep"]
      BY <1>7 DEF MasterPcs, MasterWays, produce_waits
    <2> QED
      BY <1>3, <2>1
  <1>8. CASE stop_listening
    <2>1. /\ "wake" \in MasterPcs /\ conn' = conn /\ master.pc = "closing"
          /\ master' = [master EXCEPT !.pc = "wake"] /\ ctx' = [ctx EXCEPT !.listening = FALSE]
      BY <1>8 DEF MasterPcs, stop_listening, close_all_listening_sockets
    <2>2. ctx'.stop_flag = ctx.stop_flag => MasterWays("wake")
      BY <2>1 DEF MasterWays
    <2> QED
      BY <1>3, <2>1, <2>2
  <1>9. CASE wake_workers
    <2>1. /\ "join" \in MasterPcs /\ MasterWays("join") /\ ctx' = ctx
          /\ master' = [master EXCEPT !.pc = "join"] /\ conn' = broadcast_sq_full(conn)
      BY <1>9 DEF MasterPcs, MasterWays, wake_workers
    <2>2. master' \in MasterThread /\ master'.pc = "join" /\ master'.sp = master.sp
      BY <1>1, <2>1, MasterPc
    <2>3. /\ ConnShape'
          /\ \A v \in Worker : UNCHANGED <<conn[v].client, conn[v].reg>>
          /\ \A v \in Worker : conn'[v].pc = IF conn[v].pc = "asleep" THEN "idle" ELSE conn[v].pc
      BY <1>1, <2>1 DEF broadcast_sq_full, ConnShape, Fields, Pcs
    <2>4. Shape'
      BY <1>2, <2>1, <2>2, <2>3 DEF Shape, ConnShape
    <2> QED
      BY <1>2, <2>1, <2>2, <2>3, <2>4 DEF MasterMoves, SameQueue
  <1>10. CASE join_workers
    <2>1. CASE ctx.num_threads > 0
      <3>1. /\ "joins" \in MasterPcs /\ MasterWays("joins") /\ ctx' = ctx /\ conn' = conn
            /\ master' = [master EXCEPT !.pc = "joins"]
        BY <1>10, <2>1 DEF MasterPcs, MasterWays, join_workers
      <3> QED
        BY <1>3, <3>1
    <2>2. CASE ~(ctx.num_threads > 0)
      <3>1. /\ "gone" \in MasterPcs /\ ctx' = [ctx EXCEPT !.stop_flag = 2] /\ conn' = conn
            /\ master' = [master EXCEPT !.pc = "gone"] /\ master.pc = "join" /\ MutexFree
        BY <1>10, <2>2 DEF MasterPcs, join_workers
      <3>2. master' \in MasterThread /\ master'.pc = "gone" /\ master'.sp = master.sp
        BY <1>1, <3>1, MasterPc
      <3>3. /\ ctx' \in mg_context /\ SameQueue /\ ctx'.num_threads = ctx.num_threads
            /\ ctx'.stop_flag = 2
        BY <1>1, <3>1 DEF mg_context, SameQueue
      <3>4. Shape'
        BY <1>2, <3>1, <3>2, <3>3 DEF Shape
      <3>5. ctx.num_threads <= 0
        BY <1>1, <2>2
      <3>6. MasterMoves
        BY <1>2, <3>1, <3>2, <3>3 DEF MasterMoves, SameConns
      <3>7. MasterWays(master'.pc)
        BY <3>1, <3>2, <3>3, <3>5 DEF MasterWays
      <3> QED
        BY <3>4, <3>6, <3>7
    <2> QED
      BY <2>1, <2>2
  <1> QED
    BY <1>4, <1>5, <1>6, <1>7, <1>8, <1>9, <1>10
--------------------------------------------------------------------------------
(* The steps that hand a socket over. *)

LEMMA AcceptFacts ==
    ASSUME Shape, NEW s \in Next_client, accept_new_connection(s),
           UNCHANGED <<ctx, main, conn, hist>>
    PROVE  /\ Shape' /\ s \in Socket /\ sock[s] = "backlog"
           /\ \/ /\ sock' = [sock EXCEPT ![s] = "open"]
                 /\ master'.pc = "produce" /\ master'.sp = s
              \/ sock' = [sock EXCEPT ![s] = "closed"] /\ master' = master
  <1>1. s \in Socket /\ sock[s] = "backlog" /\ master \in MasterThread
    BY DEF Next_client, Shape
  <1>2. \/ sock' = [sock EXCEPT ![s] = "open"] /\ master' = [pc |-> "produce", sp |-> s]
        \/ sock' = [sock EXCEPT ![s] = "closed"] /\ master' = master
    BY DEF accept_new_connection
  <1>3. /\ master' \in MasterThread
        /\ master' = [pc |-> "produce", sp |-> s] => master'.pc = "produce" /\ master'.sp = s
    BY <1>1, <1>2 DEF MasterThread
  <1>4. sock' \in [Socket -> {"backlog", "open", "closed"}]
    BY <1>1, <1>2 DEF Shape
  <1>5. Shape'
    BY <1>3, <1>4 DEF Shape
  <1> QED
    BY <1>1, <1>2, <1>3, <1>5

LEMMA SignalFacts ==
    ASSUME ConnShape, conn' \in signal_sq_full(conn)
    PROVE  /\ ConnShape'
           /\ \/ Asleep = {} /\ SameConns
              \/ \E w \in Asleep : OnlyPc(w, "idle")
  <1>1. CASE Asleep = {}
    <2>1. conn' = conn
      BY <1>1 DEF signal_sq_full, Asleep
    <2> QED
      BY <1>1, <2>1, ConnSame
  <1>2. CASE Asleep # {}
    <2>1. PICK w \in Asleep : conn' = [conn EXCEPT ![w].pc = "idle"]
      BY <1>2 DEF signal_sq_full, Asleep
    <2>2. w \in Worker /\ "idle" \in Pcs
      BY DEF Asleep, Pcs
    <2>3. ConnShape' /\ OnlyPc(w, "idle")
      BY <2>1, <2>2, ConnPc
    <2> QED
      BY <2>3
  <1> QED
    BY <1>1, <1>2

LEMMA EnqueueFacts ==
    ASSUME Shape, produce_socket, ~(ctx.stop_flag = 0 /\ Full)
    PROVE  /\ Shape' /\ UNCHANGED <<ctx.stop_flag, ctx.num_threads, ctx.sq_tail, main, sock, hist>>
           /\ master.pc = "produce" /\ MutexFree
           /\ master'.pc = "poll" /\ master'.sp = NoSocket
           /\ \/ Asleep = {} /\ SameConns
              \/ \E w \in Asleep : OnlyPc(w, "idle")
           /\ \/ Full /\ ctx.stop_flag # 0 /\ SameQueue
              \/ /\ ~Full /\ ctx'.sq_head = ctx.sq_head + 1
                 /\ ctx'.queue = [ctx.queue EXCEPT ![ctx.sq_head % QUEUE] = master.sp]
  <1>1. /\ ctx \in mg_context /\ master \in MasterThread /\ ConnShape /\ HistShape
        /\ ctx.sq_head \in Nat /\ master.sp \in Socket \cup {NoSocket}
        /\ ctx.queue \in [0..QUEUE - 1 -> Socket \cup {NoSocket}]
    BY ShapeParts DEF Shape, mg_context, MasterThread
  <1>2. /\ UNCHANGED <<main, sock, hist>> /\ master.pc = "produce" /\ MutexFree
        /\ master' = [pc |-> "poll", sp |-> NoSocket] /\ conn' \in signal_sq_full(conn)
        /\ IF Full THEN ctx' = ctx
           ELSE ctx' = [ctx EXCEPT !.queue[ctx.sq_head % QUEUE] = master.sp, !.sq_head = @ + 1]
    BY DEF produce_socket, enqueue
  <1>3. master' \in MasterThread /\ master'.pc = "poll" /\ master'.sp = NoSocket
    BY <1>2 DEF MasterThread
  <1>4. ConnShape' /\ ((Asleep = {} /\ SameConns) \/ \E w \in Asleep : OnlyPc(w, "idle"))
    BY <1>1, <1>2, SignalFacts
  <1>5. /\ ctx' \in mg_context /\ UNCHANGED <<ctx.stop_flag, ctx.num_threads, ctx.sq_tail>>
        /\ \/ Full /\ ctx.stop_flag # 0 /\ SameQueue
           \/ /\ ~Full /\ ctx'.sq_head = ctx.sq_head + 1
              /\ ctx'.queue = [ctx.queue EXCEPT ![ctx.sq_head % QUEUE] = master.sp]
    <2>1. CASE Full
      BY <1>1, <1>2, <2>1 DEF SameQueue
    <2>2. CASE ~Full
      <3> DEFINE q == [ctx.queue EXCEPT ![ctx.sq_head % QUEUE] = master.sp]
                 h == ctx.sq_head + 1
      <3>1. h \in Nat /\ q \in [0..QUEUE - 1 -> Socket \cup {NoSocket}]
        <4> DEFINE k == ctx.sq_head % QUEUE
        <4>1. k \in 0..QUEUE - 1 /\ h \in Nat
          BY <1>1, Caps
        <4> HIDE DEF k
        <4>2. [ctx.queue EXCEPT ![k] = master.sp] \in [0..QUEUE - 1 -> Socket \cup {NoSocket}]
          BY <1>1, <4>1
        <4> QED
          BY <4>1, <4>2 DEF k
      <3>2. ctx' = [ctx EXCEPT !.queue = q, !.sq_head = h]
        BY <1>2, <2>2
      <3> HIDE DEF q, h
      <3>3. ctx' \in mg_context
        BY <1>1, <3>1, <3>2, ContextUpdate
      <3>4. /\ UNCHANGED <<ctx.stop_flag, ctx.num_threads, ctx.sq_tail>>
            /\ ctx'.sq_head = h /\ ctx'.queue = q
        BY <1>1, <3>2 DEF mg_context
      <3> QED
        BY <2>2, <3>3, <3>4 DEF q, h
    <2> QED
      BY <2>1, <2>2
  <1>6. Shape'
    BY <1>2, <1>3, <1>4, <1>5 DEF Shape, ConnShape
  <1> QED
    BY <1>2, <1>3, <1>4, <1>5, <1>6

(* The wrap of the indices: sq_tail starts again at 0 when it has reached the end. *)
LEMMA Wrap ==
    ASSUME NEW t \in Nat, t <= QUEUE
    PROVE  QUEUE * (t \div QUEUE) = IF t = QUEUE THEN QUEUE ELSE 0
  <1>1. QUEUE \in Nat /\ QUEUE > 0
    BY Caps
  <1>2. CASE t = QUEUE
    <2>1. QUEUE \div QUEUE = 1
      BY <1>1
    <2> QED
      BY <1>1, <1>2, <2>1
  <1>3. CASE t # QUEUE
    <2>1. t \div QUEUE = 0
      BY <1>1, <1>3
    <2> QED
      BY <1>1, <1>3, <2>1
  <1> QED
    BY <1>2, <1>3

Turn == IF ctx.sq_tail = QUEUE THEN QUEUE ELSE 0

LEMMA DequeueFacts ==
    ASSUME Shape, NEW w \in Worker, consume_socket(w),
           ~(ctx.sq_head = ctx.sq_tail /\ ctx.stop_flag = 0), ctx.sq_tail <= QUEUE
    PROVE  /\ Shape' /\ UNCHANGED <<ctx.stop_flag, ctx.num_threads, ctx.queue, main, sock, hist>>
           /\ MutexFree /\ conn[w].pc = "idle"
           /\ master'.sp = master.sp
           /\ master'.pc = IF master.pc = "asleep" THEN "produce" ELSE master.pc
           /\ \A v \in Worker :
                 /\ conn'[v].reg = conn[v].reg
                 /\ conn'[v].pc = IF v = w THEN "grabbed" ELSE conn[v].pc
                 /\ v # w => conn'[v].client = conn[v].client
           /\ \/ /\ ctx.sq_head > ctx.sq_tail
                 /\ ctx'.sq_tail = ctx.sq_tail + 1 - Turn /\ ctx'.sq_head = ctx.sq_head - Turn
                 /\ conn'[w].client = ctx.queue[ctx.sq_tail % QUEUE]
              \/ /\ ~(ctx.sq_head > ctx.sq_tail) /\ SameQueue
                 /\ conn'[w].client = conn[w].client
  <1>1. /\ ctx \in mg_context /\ master \in MasterThread /\ ConnShape /\ HistShape
        /\ ctx.sq_head \in Nat /\ ctx.sq_tail \in Nat /\ master.pc \in MasterPcs
    BY ShapeParts DEF Shape, mg_context, MasterThread, MasterPcs
  <1>2. /\ UNCHANGED <<main, sock, hist>> /\ MutexFree /\ conn[w].pc = "idle"
        /\ dequeue(w) /\ signal_sq_empty
    BY DEF consume_socket
  <1>3. /\ master' \in MasterThread /\ master'.sp = master.sp
        /\ master'.pc = IF master.pc = "asleep" THEN "produce" ELSE master.pc
    <2> DEFINE p == IF master.pc = "asleep" THEN "produce" ELSE master.pc
    <2>1. p \in MasterPcs /\ master' = [master EXCEPT !.pc = p]
      BY <1>1, <1>2 DEF signal_sq_empty, MasterPcs
    <2> HIDE DEF p
    <2>2. master' \in MasterThread /\ master'.sp = master.sp /\ master'.pc = p
      BY <1>1, <2>1, MasterPc
    <2> QED
      BY <2>2 DEF p
  <1>4. CASE ctx.sq_head > ctx.sq_tail
    <2> DEFINE t == ctx.sq_tail + 1 - Turn
               h == ctx.sq_head - Turn
               x == ctx.queue[ctx.sq_tail % QUEUE]
    <2>1. conn' = [conn EXCEPT ![w].client = x, ![w].pc = "grabbed"]
      BY <1>2, <1>4 DEF dequeue
    <2>2. ctx' = [ctx EXCEPT !.sq_tail = t, !.sq_head = h]
      <3>1. QUEUE * (ctx.sq_tail \div QUEUE) = Turn
        BY <1>1, Wrap DEF Turn
      <3> QED
        BY <1>2, <1>4, <3>1 DEF dequeue
    <2>3. t \in Nat /\ h \in Nat
      BY <1>1, <1>4, Caps DEF Turn
    <2> HIDE DEF t, h, x
    <2>4. ctx' \in mg_context
      BY <1>1, <2>2, <2>3, ContextUpdate
    <2>5. /\ UNCHANGED <<ctx.stop_flag, ctx.num_threads, ctx.queue>>
          /\ ctx'.sq_tail = t /\ ctx'.sq_head = h
      BY <1>1, <2>2 DEF mg_context
    <2>6. /\ ConnShape' /\ conn'[w].client = x
          /\ \A v \in Worker :
                /\ conn'[v].reg = conn[v].reg
                /\ conn'[v].pc = IF v = w THEN "grabbed" ELSE conn[v].pc
                /\ v # w => conn'[v].client = conn[v].client
      BY <1>1, <2>1 DEF ConnShape, Fields, Pcs
    <2>7. Shape'
      BY <1>2, <1>3, <2>4, <2>6 DEF Shape, ConnShape
    <2> QED
      BY <1>2, <1>3, <1>4, <2>5, <2>6, <2>7 DEF t, h, x
  <1>5. CASE ~(ctx.sq_head > ctx.sq_tail)
    <2>1. ctx' = ctx /\ conn' = [conn EXCEPT ![w].pc = "grabbed"] /\ "grabbed" \in Pcs
      BY <1>2, <1>5 DEF dequeue, Pcs
    <2>2. ConnShape' /\ OnlyPc(w, "grabbed")
      BY <1>1, <2>1, ConnPc
    <2>3. Shape'
      BY <1>2, <1>3, <2>1, <2>2 DEF Shape, ConnShape
    <2> QED
      BY <1>2, <1>3, <1>5, <2>1, <2>2, <2>3 DEF OnlyPc, SameQueue
  <1> QED
    BY <1>4, <1>5

LEMMA CloseFacts ==
    ASSUME Shape, NEW w \in Worker, close_connection(w), conn[w].client \in Socket
    PROVE  /\ Shape' /\ UNCHANGED <<ctx, main, master, hist.raced>>
           /\ conn[w].pc = "closing" /\ OnlyPc(w, "idle")
           /\ sock' = [sock EXCEPT ![conn[w].client] = "closed"]
  <1>1. ConnShape /\ HistShape
    BY ShapeParts
  <1>2. /\ UNCHANGED <<ctx, main, master>> /\ conn[w].pc = "closing"
        /\ conn' = [conn EXCEPT ![w].pc = "idle", ![w].buf = << >>]
        /\ sock' = [sock EXCEPT ![conn[w].client] = "closed"]
    BY DEF close_connection
  <1>3. HistShape' /\ hist'.raced = hist.raced
    BY <1>1 DEF close_connection, HistShape, HistFields
  <1>4. ConnShape' /\ OnlyPc(w, "idle")
    BY <1>1, <1>2 DEF ConnShape, OnlyPc, Fields, Pcs
  <1>5. sock' \in [Socket -> {"backlog", "open", "closed"}]
    BY <1>2 DEF Shape
  <1>6. Shape'
    BY <1>2, <1>3, <1>4, <1>5 DEF Shape, ConnShape, HistShape
  <1> QED
    BY <1>2, <1>3, <1>4, <1>6

(* A worker reads num_threads, or writes it back and is gone. *)
LEMMA LeaveFacts ==
    ASSUME Shape, NEW w \in Worker, worker_leaves(w)
    PROVE  /\ Shape' /\ SameQueue /\ UNCHANGED <<ctx.stop_flag, sock>>
           /\ main'.i = main.i /\ main'.reg = main.reg /\ main'.pc \in {main.pc, "aborted"}
           /\ master'.sp = master.sp
           /\ master'.pc = master.pc \/ (master.pc = "joins" /\ master'.pc = "join")
           /\ \A v \in Worker : /\ conn'[v].client = conn[v].client
                                /\ v # w => UNCHANGED <<conn[v].pc, conn[v].reg>>
           /\ \/ /\ conn[w].pc = "leave" /\ MutexFree /\ UNCHANGED <<main, ctx>>
                 /\ conn'[w].pc = "leaves" /\ conn'[w].reg = ctx.num_threads
                 /\ hist'.raced = (hist.raced \/ main.pc \in {"spawn", "count", "store"})
              \/ /\ conn[w].pc = "leaves" /\ conn'[w].pc = "gone" /\ hist' = hist
                 /\ ctx'.num_threads = conn[w].reg - 1
  <1>1. /\ ctx \in mg_context /\ main \in MainThread /\ master \in MasterThread
        /\ ConnShape /\ HistShape /\ master.pc \in MasterPcs
        /\ ctx.num_threads \in Int /\ conn[w].reg \in Int
    BY ShapeParts DEF Shape, MasterThread, MasterPcs, mg_context
  <1>2. sock' = sock
    BY DEF worker_leaves
  <1>3. CASE /\ conn[w].pc = "leave" /\ MutexFree /\ UNCHANGED <<ctx, main, master>>
             /\ conn' = [conn EXCEPT ![w].pc = "leaves", ![w].reg = ctx.num_threads]
             /\ hist' = [hist EXCEPT !.raced = @ \/ main.pc \in {"spawn", "count", "store"}]
    <2>1. /\ ConnShape' /\ conn'[w].pc = "leaves" /\ conn'[w].reg = ctx.num_threads
          /\ \A v \in Worker : /\ conn'[v].client = conn[v].client
                               /\ v # w => UNCHANGED <<conn[v].pc, conn[v].reg>>
      BY <1>1, <1>3 DEF ConnShape, Fields, Pcs
    <2>2. HistShape' /\ hist'.raced = (hist.raced \/ main.pc \in {"spawn", "count", "store"})
      BY <1>1, <1>3, Zenon DEF HistShape, HistFields
    <2>3. Shape'
      BY <1>2, <1>3, <2>1, <2>2 DEF Shape, ConnShape, HistShape
    <2> QED
      BY <1>2, <1>3, <2>1, <2>2, <2>3 DEF SameQueue
  <1>4. CASE /\ conn[w].pc = "leaves" /\ hist' = hist
             /\ ctx' = [ctx EXCEPT !.num_threads = conn[w].reg - 1]
             /\ conn' = [conn EXCEPT ![w].pc = "gone", ![w].reg = 0]
             /\ \/ signal_cond /\ main' = main
                \/ main' = [main EXCEPT !.pc = "aborted"] /\ master' = master
    <2>1. /\ ConnShape' /\ conn'[w].pc = "gone"
          /\ \A v \in Worker : /\ conn'[v].client = conn[v].client
                               /\ v # w => UNCHANGED <<conn[v].pc, conn[v].reg>>
      BY <1>1, <1>4 DEF ConnShape, Fields, Pcs
    <2> DEFINE n == conn[w].reg - 1
    <2>2. n \in Int
      BY <1>1
    <2> HIDE DEF n
    <2>3. ctx' = [ctx EXCEPT !.num_threads = n]
      BY <1>4 DEF n
    <2>4. /\ ctx' \in mg_context /\ SameQueue /\ ctx'.stop_flag = ctx.stop_flag
          /\ ctx'.num_threads = n
      BY <1>1, <2>2, <2>3 DEF mg_context, SameQueue
    <2>5. /\ main' \in MainThread /\ main'.i = main.i /\ main'.reg = main.reg
          /\ main'.pc \in {main.pc, "aborted"}
      BY <1>1, <1>4 DEF MainThread
    <2>6. /\ master' \in MasterThread /\ master'.sp = master.sp
          /\ master'.pc = master.pc \/ (master.pc = "joins" /\ master'.pc = "join")
      <3>1. CASE master' = master
        BY <1>1, <3>1
      <3>2. CASE signal_cond
        <4> DEFINE p == IF master.pc = "joins" THEN "join" ELSE master.pc
        <4>1. p \in MasterPcs /\ master' = [master EXCEPT !.pc = p]
          BY <1>1, <3>2 DEF signal_cond, MasterPcs
        <4> HIDE DEF p
        <4>2. master' \in MasterThread /\ master'.sp = master.sp /\ master'.pc = p
          BY <1>1, <4>1, MasterPc
        <4> QED
          BY <4>2 DEF p
      <3> QED
        BY <1>4, <3>1, <3>2
    <2>7. Shape'
      BY <1>2, <1>4, <2>1, <2>4, <2>5, <2>6 DEF Shape, ConnShape
    <2> QED
      BY <1>2, <1>4, <2>1, <2>4, <2>5, <2>6, <2>7 DEF n
  <1> QED
    BY <1>3, <1>4 DEF worker_leaves
--------------------------------------------------------------------------------
(* Every step is one of the main thread, a move of a worker or of the       *)
(* master, or a step that hands a socket over or counts a worker.           *)

Accepts(s) ==
    /\ master.pc = "poll" /\ ctx.stop_flag = 0
    /\ accept_new_connection(s) /\ UNCHANGED <<ctx, main, conn, hist>>
Enqueues == produce_socket /\ ~(ctx.stop_flag = 0 /\ Full)
Dequeues(w) == consume_socket(w) /\ ~(ctx.sq_head = ctx.sq_tail /\ ctx.stop_flag = 0)

LEMMA Steps ==
    ASSUME Shape, [Next]_vars
    PROVE  \/ mg_start \/ start_worker \/ count_worker \/ mg_stop \/ mg_stop_ends
           \/ \E w \in Worker : Shape' /\ Moves(w) /\ Ways(w, conn'[w].pc)
           \/ Shape' /\ MasterMoves /\ MasterWays(master'.pc)
           \/ \E s \in Next_client : Accepts(s)
           \/ Enqueues
           \/ \E w \in Worker : Dequeues(w) \/ close_connection(w) \/ worker_leaves(w)
           \/ UNCHANGED vars
  <1> DEFINE WorkerMoves == \E w \in Worker : Shape' /\ Moves(w) /\ Ways(w, conn'[w].pc)
             MasterGoes == Shape' /\ MasterMoves /\ MasterWays(master'.pc)
  <1>1. CASE MainRuns \/ mg_stop
    BY <1>1 DEF MainRuns, start_mongoose
  <1>2. CASE MasterRuns
    <2>1. CASE produce_socket
      <3>1. CASE ctx.stop_flag = 0 /\ Full
        <4>1. /\ master.pc = "produce" /\ Full /\ master' = [master EXCEPT !.pc = "waits"]
              /\ UNCHANGED <<ctx, main, conn, sock, hist>>
          BY <2>1, <3>1 DEF produce_socket
        <4>2. MasterGoes
          BY <4>1, MasterFacts
        <4> QED
          BY <4>2
      <3> QED
        BY <2>1, <3>1 DEF Enqueues
    <2>2. CASE produce_waits \/ stop_listening \/ wake_workers \/ join_workers
      <3>1. MasterGoes
        BY <2>2, MasterFacts
      <3> QED
        BY <3>1
    <2> QED
      BY <1>2, <2>1, <2>2 DEF MasterRuns
  <1>3. CASE master_loop
    <2>1. CASE ctx.stop_flag = 0 /\ \E s \in Next_client : accept_new_connection(s)
      BY <1>3, <2>1 DEF master_loop, Accepts
    <2>2. CASE ctx.stop_flag # 0 /\ master' = [master EXCEPT !.pc = "closing"] /\ sock' = sock
      <3>1. /\ master.pc = "poll" /\ ctx.stop_flag # 0
            /\ master' = [master EXCEPT !.pc = "closing"]
            /\ UNCHANGED <<ctx, main, conn, sock, hist>>
        BY <1>3, <2>2 DEF master_loop
      <3>2. MasterGoes
        BY <3>1, MasterFacts
      <3> QED
        BY <3>2
    <2> QED
      BY <1>3, <2>1, <2>2 DEF master_loop
  <1>4. CASE Spurious
    <2>1. CASE /\ master.pc \in {"asleep", "joins"}
               /\ master' = [master EXCEPT !.pc = IF @ = "asleep" THEN "produce" ELSE "join"]
               /\ UNCHANGED conn
      <3>1. UNCHANGED <<ctx, main, conn, sock, hist>>
        BY <1>4, <2>1 DEF Spurious
      <3>2. MasterGoes
        BY <2>1, <3>1, MasterFacts
      <3> QED
        BY <3>2
    <2>2. CASE (\E w \in Asleep : conn' = [conn EXCEPT ![w].pc = "idle"]) /\ UNCHANGED master
      <3>1. PICK w \in Asleep : conn' = [conn EXCEPT ![w].pc = "idle"]
        BY <2>2
      <3>2. /\ w \in Worker /\ conn[w].pc = "asleep"
            /\ UNCHANGED <<ctx, main, master, sock, hist>>
        BY <1>4, <2>2 DEF Spurious, Asleep
      <3>3. Shape' /\ Moves(w) /\ Ways(w, conn'[w].pc)
        BY <3>1, <3>2, WorkerFacts
      <3> QED
        BY <3>2, <3>3
    <2> QED
      BY <1>4, <2>1, <2>2 DEF Spurious
  <1>5. ASSUME NEW w \in Worker, Serves(w) PROVE WorkerMoves
    BY <1>5, ServeFacts
  <1>6. ASSUME NEW w \in Worker, worker_begins(w) \/ consume_waits(w) \/ worker_loop(w)
        PROVE  WorkerMoves
    BY <1>6, WorkerFacts
  <1>7. ASSUME NEW w \in Worker, consume_socket(w) PROVE WorkerMoves \/ Dequeues(w)
    <2>1. CASE ctx.sq_head = ctx.sq_tail /\ ctx.stop_flag = 0
      <3>1. /\ conn[w].pc = "idle" /\ MutexFree /\ conn' = [conn EXCEPT ![w].pc = "waits"]
            /\ UNCHANGED <<ctx, main, master, sock, hist>>
        BY <1>7, <2>1 DEF consume_socket
      <3>2. Shape' /\ Moves(w) /\ Ways(w, conn'[w].pc)
        BY <2>1, <3>1, WorkerFacts
      <3> QED
        BY <3>2
    <2> QED
      BY <1>7, <2>1 DEF Dequeues
  <1>8. CASE \E w \in Worker : WorkerRuns(w)
    <2>1. PICK w \in Worker : WorkerRuns(w)
      BY <1>8
    <2>2. \/ Serves(w)
          \/ worker_begins(w) \/ consume_waits(w) \/ worker_loop(w)
          \/ consume_socket(w) \/ close_connection(w) \/ worker_leaves(w)
      BY <2>1 DEF WorkerRuns, Serves
    <2> QED
      BY <1>5, <1>6, <1>7, <2>2
  <1>9. CASE Environment
    <2>1. \/ mg_stop \/ Spurious
          \/ \E w \in Worker : Serves(w)
      BY <1>9, Zenon DEF Environment, Serves
    <2> QED
      BY <1>1, <1>4, <1>5, <2>1
  <1> QED
    BY <1>1, <1>2, <1>3, <1>8, <1>9 DEF Next
--------------------------------------------------------------------------------
(* Who holds a socket. *)

Held(h, s) ==
    \/ \E w \in Worker : h = <<"worker", w>> /\ Holds(w, s)
    \/ \E k \in ctx.sq_tail..ctx.sq_head - 1 : h = <<"queue", k>> /\ ctx.queue[k % QUEUE] = s
    \/ h = <<"master", 0>> /\ master.sp = s

HeldBy ==
    \A s \in Socket :
       IF sock[s] = "open"
       THEN /\ \A g, h : Held(g, s) /\ Held(h, s) => g = h
            /\ ctx.stop_flag = 0 => \E h : Held(h, s)
       ELSE \A h : ~Held(h, s)

LEMMA HeldByMeaning == (HeldOnce <=> HeldBy) /\ (HeldOnce <=> HeldBy)'
  <1>1. \A s, h : h \in Holders(s) <=> Held(h, s)
    BY DEF Holders, Held
  <1>2. \A s, h : h \in Holders(s)' <=> Held(h, s)'
    BY DEF Holders, Held
  <1>3. HeldOnce <=> HeldBy
    BY <1>1, Zenon DEF HeldOnce, HeldBy
  <1>4. (HeldOnce <=> HeldBy)'
    BY <1>2, Zenon DEF HeldOnce, HeldBy
  <1> QED
    BY <1>3, <1>4

LEMMA IndexMod ==
    ASSUME NEW k \in Nat, k < 2 * QUEUE
    PROVE  k % QUEUE = IF k < QUEUE THEN k ELSE k - QUEUE
  <1>1. QUEUE \in Nat /\ QUEUE > 0
    BY Caps
  <1>2. CASE k < QUEUE
    BY <1>1, <1>2
  <1>3. CASE ~(k < QUEUE)
    <2> DEFINE j == k - QUEUE
    <2>1. j \in Nat /\ j < QUEUE /\ k = j + QUEUE
      BY <1>1, <1>3
    <2> HIDE DEF j
    <2>2. (j + QUEUE) % QUEUE = j
      BY <1>1, <2>1
    <2> QED
      BY <1>3, <2>1, <2>2 DEF j
  <1> QED
    BY <1>2, <1>3

(* A step that hands nothing over: whoever holds a socket after it held it  *)
(* before, and until the server is stopped nobody lets go of one.           *)
LEMMA QuietHeld ==
    ASSUME Shape, QueueInv, HeldOnce, SameQueue, sock' = sock, master'.sp = master.sp,
           master'.pc \in Hands <=> master.pc \in Hands,
           main'.pc = "init" => master'.pc = "none",
           ctx'.stop_flag = 0 => ctx.stop_flag = 0,
           \A v \in Worker : conn'[v].client = conn[v].client,
           \A v \in Worker : conn'[v].pc \in Serving =>
              conn[v].pc \in Serving \/ (conn[v].pc = "grabbed" /\ ctx.stop_flag = 0),
           \A v \in Worker : conn'[v].pc = "grabbed" =>
              conn[v].pc = "grabbed" \/ (conn[v].pc \in Unoccupied /\ ctx'.stop_flag # 0),
           \A v \in Worker : conn'[v].pc \in Unoccupied => conn[v].pc \in Unoccupied,
           \A v \in Worker : ctx'.stop_flag = 0 /\ conn[v].pc \in Serving \cup {"grabbed"} =>
              conn'[v].pc \in Serving \cup {"grabbed"}
    PROVE  QueueInv' /\ HeldOnce'
  <1>1. QueueInv'
    BY DEF QueueInv, SameQueue, Hands
  <1>2. ASSUME NEW s \in Socket, NEW w \in Worker, Holds(w, s)' PROVE Holds(w, s)
    BY <1>2 DEF Holds, QueueInv, Serving
  <1>3. ASSUME NEW s \in Socket, NEW w \in Worker, Holds(w, s), ctx'.stop_flag = 0
        PROVE  Holds(w, s)'
    BY <1>3 DEF Holds, Serving
  <1>4. ASSUME NEW s \in Socket, NEW h, Held(h, s)' PROVE Held(h, s)
    BY <1>2, <1>4 DEF Held, SameQueue
  <1>5. ASSUME NEW s \in Socket, NEW h, Held(h, s), ctx'.stop_flag = 0 PROVE Held(h, s)'
    BY <1>3, <1>5 DEF Held, SameQueue
  <1>6. HeldBy
    BY HeldByMeaning
  <1>7. HeldBy'
    BY <1>4, <1>5, <1>6 DEF HeldBy
  <1> QED
    BY <1>1, <1>7, HeldByMeaning

LEMMA AcceptHeld ==
    ASSUME Shape, QueueInv, HeldOnce, NEW s \in Next_client, Accepts(s)
    PROVE  QueueInv' /\ HeldOnce'
  <1>1. /\ s \in Socket /\ sock[s] = "backlog"
        /\ \/ /\ sock' = [sock EXCEPT ![s] = "open"]
              /\ master'.pc = "produce" /\ master'.sp = s
           \/ sock' = [sock EXCEPT ![s] = "closed"] /\ master' = master
    BY AcceptFacts DEF Accepts
  <1>2. master.pc = "poll" /\ ctx.stop_flag = 0 /\ UNCHANGED <<ctx, main, conn, hist>>
    BY DEF Accepts
  <1>3. /\ master.sp \notin Socket
        /\ \A t \in Socket : sock'[t] = IF t = s THEN sock'[s] ELSE sock[t]
        /\ sock'[s] \in {"open", "closed"} /\ sock \in [Socket -> {"backlog", "open", "closed"}]
    BY <1>1, <1>2 DEF QueueInv, Shape
  <1>4. HeldBy
    BY HeldByMeaning
  <1>5. QueueInv'
    BY <1>1, <1>2, <1>3 DEF QueueInv
  <1>6. ASSUME NEW t \in Socket, NEW w \in Worker
        PROVE  Holds(w, t)' <=> Holds(w, t)
    BY <1>2 DEF Holds
  <1>7. ASSUME NEW t \in Socket, t # s, NEW h PROVE Held(h, t)' <=> Held(h, t)
    BY <1>1, <1>2, <1>3, <1>6, <1>7 DEF Held
  <1>8. \A h : ~Held(h, s)
    BY <1>1, <1>4 DEF HeldBy
  <1>9. CASE sock' = [sock EXCEPT ![s] = "open"] /\ master'.sp = s
    <2>1. Held(<<"master", 0>>, s)'
      BY <1>9 DEF Held
    <2>2. ASSUME NEW h, Held(h, s)' PROVE h = <<"master", 0>>
      <3>1. \A w \in Worker : ~Holds(w, s)
        BY <1>8 DEF Held
      <3>2. \A k \in ctx.sq_tail..ctx.sq_head - 1 : ctx.queue[k % QUEUE] # s
        BY <1>8 DEF Held
      <3> QED
        BY <1>1, <1>2, <1>6, <2>2, <3>1, <3>2 DEF Held
    <2>3. HeldBy'
      <3> SUFFICES ASSUME NEW t \in Socket
                   PROVE  IF sock'[t] = "open"
                          THEN /\ \A g, h : Held(g, t)' /\ Held(h, t)' => g = h
                               /\ ctx'.stop_flag = 0 => \E h : Held(h, t)'
                          ELSE \A h : ~Held(h, t)'
        BY Zenon DEF HeldBy
      <3>1. CASE t = s
        <4>1. sock'[t] = "open"
          BY <1>3, <1>9, <3>1
        <4>2. \E h : Held(h, t)'
          BY <2>1, <3>1
        <4>3. \A g, h : Held(g, t)' /\ Held(h, t)' => g = h
          BY <2>2, <3>1
        <4> QED
          BY <4>1, <4>2, <4>3
      <3>2. CASE t # s
        BY <1>2, <1>3, <1>4, <1>7, <3>2 DEF HeldBy
      <3> QED
        BY <3>1, <3>2
    <2> QED
      BY <1>5, <2>3, HeldByMeaning
  <1>10. CASE sock' = [sock EXCEPT ![s] = "closed"] /\ master' = master
    <2>1. \A h : ~Held(h, s)'
      BY <1>1, <1>2, <1>6, <1>8, <1>10 DEF Held
    <2>2. HeldBy'
      <3> SUFFICES ASSUME NEW t \in Socket
                   PROVE  IF sock'[t] = "open"
                          THEN /\ \A g, h : Held(g, t)' /\ Held(h, t)' => g = h
                               /\ ctx'.stop_flag = 0 => \E h : Held(h, t)'
                          ELSE \A h : ~Held(h, t)'
        BY Zenon DEF HeldBy
      <3>1. CASE t = s
        <4>1. sock'[t] = "closed"
          BY <1>3, <1>10, <3>1
        <4> QED
          BY <2>1, <3>1, <4>1
      <3>2. CASE t # s
        BY <1>2, <1>3, <1>4, <1>7, <3>2 DEF HeldBy
      <3> QED
        BY <3>1, <3>2
    <2> QED
      BY <1>5, <2>2, HeldByMeaning
  <1> QED
    BY <1>1, <1>9, <1>10

LEMMA CloseHeld ==
    ASSUME Shape, QueueInv, HeldOnce, NEW w \in Worker, close_connection(w)
    PROVE  QueueInv' /\ HeldOnce' /\ conn[w].client \in Socket
  <1>1. conn[w].pc = "closing"
    BY DEF close_connection
  <1>2. PICK s \in Socket : s = conn[w].client
    BY <1>1 DEF QueueInv, Serving
  <1>3. /\ Shape' /\ UNCHANGED <<ctx, main, master>> /\ OnlyPc(w, "idle")
        /\ sock' = [sock EXCEPT ![s] = "closed"]
    BY <1>2, CloseFacts
  <1>4. /\ \A t \in Socket : sock'[t] = IF t = s THEN "closed" ELSE sock[t]
        /\ sock \in [Socket -> {"backlog", "open", "closed"}]
    BY <1>3 DEF Shape
  <1>5. QueueInv'
    BY <1>2, <1>3, <1>4 DEF QueueInv, OnlyPc, Serving, Unoccupied
  <1>6. HeldBy /\ Held(<<"worker", w>>, s)
    BY <1>1, <1>2, HeldByMeaning DEF Held, Holds
  <1>7. ASSUME NEW t \in Socket, NEW v \in Worker
        PROVE  Holds(v, t)' <=> Holds(v, t) /\ v # w
    <2>1. CASE v = w
      BY <1>2, <1>3, <2>1 DEF OnlyPc, Holds
    <2>2. CASE v # w
      <3>1. conn'[v].pc = conn[v].pc /\ conn'[v].client = conn[v].client
        BY <1>3, <2>2 DEF OnlyPc
      <3>2. CASE t = s
        <4>1. sock[s] = "open" /\ ~Holds(v, s)
          BY <1>2, <1>6, <2>2 DEF HeldBy, Held
        <4>2. ~(conn[v].client = s /\ conn[v].pc \in {"handshake", "read", "body", "closing", "grabbed"})
          BY <4>1 DEF Holds
        <4> QED
          BY <3>1, <3>2, <4>1, <4>2 DEF Holds
      <3>3. CASE t # s
        BY <1>3, <1>4, <2>2, <3>1, <3>3 DEF Holds
      <3> QED
        BY <3>2, <3>3
    <2> QED
      BY <2>1, <2>2
  <1>8. \A t \in Socket : t # s => ~Holds(w, t)
    BY <1>2 DEF Holds
  <1>9. ASSUME NEW t \in Socket, t # s, NEW h PROVE Held(h, t)' <=> Held(h, t)
    BY <1>3, <1>7, <1>8, <1>9 DEF Held
  <1>10. ASSUME NEW h, Held(h, s)' PROVE FALSE
    <2>1. Held(h, s) /\ h # <<"worker", w>>
      BY <1>2, <1>3, <1>7, <1>10 DEF Held
    <2> QED
      BY <1>2, <1>6, <2>1 DEF HeldBy
  <1>11. HeldBy'
    <2> SUFFICES ASSUME NEW t \in Socket
                 PROVE  IF sock'[t] = "open"
                        THEN /\ \A g, h : Held(g, t)' /\ Held(h, t)' => g = h
                             /\ ctx'.stop_flag = 0 => \E h : Held(h, t)'
                        ELSE \A h : ~Held(h, t)'
      BY Zenon DEF HeldBy
    <2>1. CASE t = s
      <3>1. sock'[t] = "closed"
        BY <1>4, <2>1
      <3> QED
        BY <1>10, <2>1, <3>1
    <2>2. CASE t # s
      BY <1>3, <1>4, <1>6, <1>9, <2>2 DEF HeldBy
    <2> QED
      BY <2>1, <2>2
  <1> QED
    BY <1>2, <1>5, <1>11, HeldByMeaning

LEMMA EnqueueHeld ==
    ASSUME Shape, QueueInv, HeldOnce, Enqueues
    PROVE  QueueInv' /\ HeldOnce'
  <1>1. /\ Shape' /\ UNCHANGED <<ctx.stop_flag, ctx.num_threads, ctx.sq_tail, main, sock, hist>>
        /\ master.pc = "produce" /\ master'.pc = "poll" /\ master'.sp = NoSocket
        /\ \/ Asleep = {} /\ SameConns
           \/ \E w \in Asleep : OnlyPc(w, "idle")
        /\ \/ Full /\ ctx.stop_flag # 0 /\ SameQueue
           \/ /\ ~Full /\ ctx'.sq_head = ctx.sq_head + 1
              /\ ctx'.queue = [ctx.queue EXCEPT ![ctx.sq_head % QUEUE] = master.sp]
    BY EnqueueFacts DEF Enqueues
  <1>2. PICK x \in Socket : x = master.sp
    BY <1>1 DEF QueueInv
  <1>3. /\ ctx.sq_head \in Nat /\ ctx.sq_tail \in Nat /\ QUEUE \in Nat /\ QUEUE > 0
        /\ ctx.queue \in [0..QUEUE - 1 -> Socket \cup {NoSocket}] /\ NoSocket \notin Socket
    BY Caps, ContextTypes DEF Shape
  <1>4. \A v \in Worker :
           /\ conn'[v].client = conn[v].client
           /\ conn'[v].pc = conn[v].pc \/ (conn[v].pc = "asleep" /\ conn'[v].pc = "idle")
    BY <1>1 DEF SameConns, OnlyPc, Asleep
  <1>5. main.pc # "init"
    BY <1>1 DEF QueueInv
  <1>6. ASSUME NEW t \in Socket, NEW w \in Worker PROVE Holds(w, t)' <=> Holds(w, t)
    BY <1>1, <1>4 DEF Holds
  <1>7. HeldBy
    BY HeldByMeaning
  <1>8. CASE Full /\ ctx.stop_flag # 0 /\ SameQueue
    <2>1. QueueInv'
      BY <1>1, <1>3, <1>4, <1>5, <1>8 DEF QueueInv, SameQueue, Serving, Unoccupied
    <2>2. ASSUME NEW t \in Socket, NEW h, Held(h, t)' PROVE Held(h, t)
      BY <1>1, <1>3, <1>6, <1>8, <2>2 DEF Held, SameQueue
    <2>3. HeldBy'
      BY <1>1, <1>7, <1>8, <2>2 DEF HeldBy
    <2> QED
      BY <2>1, <2>3, HeldByMeaning
  <1>9. CASE /\ ~Full /\ ctx'.sq_head = ctx.sq_head + 1
             /\ ctx'.queue = [ctx.queue EXCEPT ![ctx.sq_head % QUEUE] = master.sp]
    <2> DEFINE i == ctx.sq_head % QUEUE
    <2>1. ctx.sq_head < 2 * QUEUE /\ ctx.sq_head - ctx.sq_tail < QUEUE /\ i \in 0..QUEUE - 1
      BY <1>3, <1>9 DEF QueueInv, Full
    <2>2. \A k \in ctx.sq_tail..ctx.sq_head - 1 : k % QUEUE # i /\ k % QUEUE \in 0..QUEUE - 1
      <3> SUFFICES ASSUME NEW k \in ctx.sq_tail..ctx.sq_head - 1
                   PROVE  k % QUEUE # i /\ k % QUEUE \in 0..QUEUE - 1
        OBVIOUS
      <3>1. k \in Nat /\ k < ctx.sq_head /\ k >= ctx.sq_tail
        BY <1>3
      <3>2. k < 2 * QUEUE
        BY <1>3, <2>1, <3>1
      <3> DEFINE m == k % QUEUE
      <3>3. m = IF k < QUEUE THEN k ELSE k - QUEUE
        BY <3>1, <3>2, IndexMod
      <3>4. i = IF ctx.sq_head < QUEUE THEN ctx.sq_head ELSE ctx.sq_head - QUEUE
        BY <1>3, <2>1, IndexMod
      <3> HIDE DEF i, m
      <3>5. m # i /\ m \in 0..QUEUE - 1
        BY <1>3, <2>1, <3>1, <3>2, <3>3, <3>4
      <3> QED
        BY <3>5 DEF m
    <2>3. /\ ctx'.queue[i] = x
          /\ \A k \in ctx.sq_tail..ctx.sq_head - 1 : ctx'.queue[k % QUEUE] = ctx.queue[k % QUEUE]
      BY <1>2, <1>3, <1>9, <2>1, <2>2
    <2>4. ctx'.sq_tail..ctx'.sq_head - 1 = (ctx.sq_tail..ctx.sq_head - 1) \cup {ctx.sq_head}
      BY <1>1, <1>3, <1>9 DEF QueueInv
    <2>5. QueueInv'
      <3>1. /\ ctx'.sq_tail <= ctx'.sq_head /\ ctx'.sq_head - ctx'.sq_tail <= QUEUE
            /\ ctx'.sq_tail <= QUEUE
        BY <1>1, <1>3, <1>9, <2>1 DEF QueueInv
      <3>2. \A k \in ctx'.sq_tail..ctx'.sq_head - 1 : ctx'.queue[k % QUEUE] \in Socket
        BY <2>3, <2>4 DEF QueueInv
      <3>3. \A v \in Worker :
               /\ conn'[v].pc \in Serving \/ (conn'[v].pc = "grabbed" /\ ctx'.stop_flag = 0)
                     => conn'[v].client \in Socket
               /\ conn'[v].pc \in Unoccupied /\ conn'[v].client \in Socket
                     => sock'[conn'[v].client] = "closed"
        BY <1>1, <1>4 DEF QueueInv, Serving, Unoccupied
      <3> QED
        BY <1>1, <1>3, <1>5, <3>1, <3>2, <3>3 DEF QueueInv
    <2> HIDE DEF i
    <2>6. ASSUME NEW t \in Socket, t # x, NEW h PROVE Held(h, t)' <=> Held(h, t)
      <3>1. ctx'.queue[ctx.sq_head % QUEUE] # t
        BY <2>3, <2>6 DEF i
      <3> QED
        BY <1>1, <1>2, <1>3, <1>6, <2>3, <2>4, <2>6, <3>1 DEF Held
    <2> PICK j \in Nat : j = ctx.sq_head
      BY <1>3
    <2>7. Held(<<"queue", j>>, x)'
      <3>1. j \in ctx'.sq_tail..ctx'.sq_head - 1 /\ ctx'.queue[j % QUEUE] = x
        BY <2>3, <2>4 DEF i
      <3> QED
        BY <3>1 DEF Held
    <2>8. ASSUME NEW h, Held(h, x)' PROVE h = <<"queue", j>>
      <3>1. Held(<<"master", 0>>, x)
        BY <1>2 DEF Held
      <3>2. \A g : Held(g, x) => g = <<"master", 0>>
        BY <1>7, <3>1 DEF HeldBy
      <3>3. \A w \in Worker : ~Holds(w, x)
        BY <3>2 DEF Held
      <3>4. \A k \in ctx.sq_tail..ctx.sq_head - 1 : ctx.queue[k % QUEUE] # x
        BY <3>2 DEF Held
      <3> QED
        BY <1>1, <1>3, <1>6, <2>3, <2>4, <2>8, <3>3, <3>4 DEF Held
    <2>9. sock[x] = "open"
      BY <1>2, <1>7 DEF HeldBy, Held
    <2>10. HeldBy'
      <3> SUFFICES ASSUME NEW t \in Socket
                   PROVE  IF sock'[t] = "open"
                          THEN /\ \A g, h : Held(g, t)' /\ Held(h, t)' => g = h
                               /\ ctx'.stop_flag = 0 => \E h : Held(h, t)'
                          ELSE \A h : ~Held(h, t)'
        BY Zenon DEF HeldBy
      <3>1. CASE t = x
        <4>1. \A g, h : Held(g, t)' /\ Held(h, t)' => g = h
          BY <2>8, <3>1
        <4>2. \E h : Held(h, t)'
          BY <2>7, <3>1
        <4> QED
          BY <1>1, <2>9, <3>1, <4>1, <4>2
      <3>2. CASE t # x
        BY <1>1, <1>7, <2>6, <3>2 DEF HeldBy
      <3> QED
        BY <3>1, <3>2
    <2> QED
      BY <2>5, <2>10, HeldByMeaning
  <1> QED
    BY <1>1, <1>8, <1>9

(* The holders of a socket before the indices of the queue wrap. *)
Unwrapped(h, n) == IF h[1] = "queue" THEN <<"queue", h[2] + n>> ELSE h

LEMMA DequeueHeld ==
    ASSUME Shape, QueueInv, HeldOnce, NEW w \in Worker, Dequeues(w)
    PROVE  QueueInv' /\ HeldOnce'
  <1>1. /\ Shape' /\ UNCHANGED <<ctx.stop_flag, ctx.num_threads, ctx.queue, main, sock, hist>>
        /\ conn[w].pc = "idle" /\ master'.sp = master.sp
        /\ master'.pc = IF master.pc = "asleep" THEN "produce" ELSE master.pc
        /\ \A v \in Worker :
              /\ conn'[v].reg = conn[v].reg
              /\ conn'[v].pc = IF v = w THEN "grabbed" ELSE conn[v].pc
              /\ v # w => conn'[v].client = conn[v].client
        /\ \/ /\ ctx.sq_head > ctx.sq_tail
              /\ ctx'.sq_tail = ctx.sq_tail + 1 - Turn /\ ctx'.sq_head = ctx.sq_head - Turn
              /\ conn'[w].client = ctx.queue[ctx.sq_tail % QUEUE]
           \/ /\ ~(ctx.sq_head > ctx.sq_tail) /\ SameQueue
              /\ conn'[w].client = conn[w].client
    BY DequeueFacts DEF Dequeues, QueueInv
  <1>2. /\ ctx.sq_head \in Nat /\ ctx.sq_tail \in Nat /\ QUEUE \in Nat /\ QUEUE > 0
        /\ ctx.queue \in [0..QUEUE - 1 -> Socket \cup {NoSocket}] /\ NoSocket \notin Socket
        /\ ctx.sq_tail <= ctx.sq_head /\ ctx.sq_head - ctx.sq_tail <= QUEUE /\ ctx.sq_tail <= QUEUE
    BY Caps, ContextTypes DEF Shape, QueueInv
  <1>3. ~(ctx.sq_head = ctx.sq_tail /\ ctx.stop_flag = 0)
    BY DEF Dequeues
  <1>4. CASE ~(ctx.sq_head > ctx.sq_tail) /\ SameQueue /\ conn'[w].client = conn[w].client
    <2>1. ctx.stop_flag # 0 /\ ctx'.stop_flag = ctx.stop_flag
      BY <1>1, <1>2, <1>3, <1>4
    <2>2. master'.pc \in Hands <=> master.pc \in Hands
      BY <1>1 DEF Hands
    <2>3. main'.pc = "init" => master'.pc = "none"
      BY <1>1 DEF QueueInv
    <2>4. /\ \A v \in Worker : conn'[v].client = conn[v].client
          /\ \A v \in Worker : conn'[v].pc \in Serving =>
                conn[v].pc \in Serving \/ (conn[v].pc = "grabbed" /\ ctx.stop_flag = 0)
          /\ \A v \in Worker : conn'[v].pc = "grabbed" =>
                conn[v].pc = "grabbed" \/ (conn[v].pc \in Unoccupied /\ ctx'.stop_flag # 0)
          /\ \A v \in Worker : conn'[v].pc \in Unoccupied => conn[v].pc \in Unoccupied
          /\ \A v \in Worker : ctx'.stop_flag = 0 /\ conn[v].pc \in Serving \cup {"grabbed"} =>
                conn'[v].pc \in Serving \cup {"grabbed"}
      BY <1>1, <1>4, <2>1 DEF Serving, Unoccupied
    <2> QED
      BY <1>1, <1>4, <2>1, <2>2, <2>3, <2>4, QuietHeld
  <1>5. CASE /\ ctx.sq_head > ctx.sq_tail
             /\ ctx'.sq_tail = ctx.sq_tail + 1 - Turn /\ ctx'.sq_head = ctx.sq_head - Turn
             /\ conn'[w].client = ctx.queue[ctx.sq_tail % QUEUE]
    <2>1. PICK x \in Socket : x = ctx.queue[ctx.sq_tail % QUEUE]
      <3>1. ctx.sq_tail \in ctx.sq_tail..ctx.sq_head - 1
        BY <1>2, <1>5
      <3> QED
        BY <3>1 DEF QueueInv
    <2>2. PICK n \in Nat : n = Turn /\ (n = 0 \/ (n = QUEUE /\ ctx.sq_tail = QUEUE))
      BY <1>2 DEF Turn
    <2>3. \A k \in ctx'.sq_tail..ctx'.sq_head - 1 :
             /\ k \in Nat /\ k + n \in ctx.sq_tail + 1..ctx.sq_head - 1
             /\ k % QUEUE = (k + n) % QUEUE
      <3> SUFFICES ASSUME NEW k \in ctx'.sq_tail..ctx'.sq_head - 1
                   PROVE  /\ k \in Nat /\ k + n \in ctx.sq_tail + 1..ctx.sq_head - 1
                          /\ k % QUEUE = (k + n) % QUEUE
        OBVIOUS
      <3>1. /\ k \in Nat /\ k + n \in Nat /\ k + n >= ctx.sq_tail + 1 /\ k + n <= ctx.sq_head - 1
            /\ k + n < 2 * QUEUE /\ k < 2 * QUEUE
        BY <1>2, <1>5, <2>2
      <3>2. CASE n = 0
        <4>1. k + n = k
          BY <3>1, <3>2
        <4> QED
          BY <1>2, <3>1, <4>1
      <3>3. CASE n = QUEUE
        <4>1. k < QUEUE /\ ~(k + n < QUEUE) /\ k + n - QUEUE = k
          BY <1>2, <3>1, <3>3
        <4>2. k % QUEUE = k /\ (k + n) % QUEUE = k + n - QUEUE
          <5>1. k % QUEUE = k
            BY <3>1, <4>1, IndexMod
          <5> DEFINE m == k + n
          <5>2. /\ m \in Nat /\ m < 2 * QUEUE /\ ~(m < QUEUE)
                /\ m - QUEUE = k + n - QUEUE
            BY <1>2, <3>1, <4>1
          <5> HIDE DEF m
          <5>3. m % QUEUE = m - QUEUE
            BY <5>2, IndexMod
          <5> QED
            BY <5>1, <5>2, <5>3, Zenon DEF m
        <4> QED
          BY <1>2, <3>1, <4>1, <4>2
      <3> QED
        BY <2>2, <3>2, <3>3
    <2>4. \A k \in ctx.sq_tail + 1..ctx.sq_head - 1 :
             k - n \in ctx'.sq_tail..ctx'.sq_head - 1 /\ k = k - n + n
      <3>1. /\ ctx.sq_tail \in Int /\ ctx.sq_head \in Int /\ n \in Int
            /\ ctx'.sq_tail = ctx.sq_tail + 1 - n /\ ctx'.sq_head = ctx.sq_head - n
        BY <1>2, <1>5, <2>2
      <3>2. ASSUME NEW a \in Int, NEW b \in Int, NEW k \in a + 1..b - 1
            PROVE  k - n \in (a + 1 - n)..(b - n - 1) /\ k = k - n + n
        BY <3>1
      <3> QED
        BY <3>1, <3>2
    <2>5. \A t \in Socket : ~Holds(w, t)
      BY <1>1 DEF Holds
    <2>6. \A t \in Socket, v \in Worker : v # w => (Holds(v, t)' <=> Holds(v, t))
      BY <1>1 DEF Holds
    <2>7. HeldBy /\ Held(<<"queue", ctx.sq_tail>>, x)
      <3>1. ctx.sq_tail \in ctx.sq_tail..ctx.sq_head - 1
        BY <1>2, <1>5
      <3> QED
        BY <2>1, <3>1, HeldByMeaning DEF Held
    <2>8. sock[x] = "open" /\ \A h : Held(h, x) => h = <<"queue", ctx.sq_tail>>
      BY <2>7 DEF HeldBy
    <2>9. conn'[w].client = x /\ conn'[w].pc = "grabbed"
      BY <1>1, <1>5, <2>1
    <2>10. Held(<<"worker", w>>, x)'
      BY <1>1, <2>8, <2>9 DEF Held, Holds
    <2>11. ASSUME NEW t \in Socket, NEW h, Held(h, t)', h # <<"worker", w>>
           PROVE  Held(Unwrapped(h, n), t) /\ Unwrapped(h, n) # <<"queue", ctx.sq_tail>>
      <3>1. CASE \E v \in Worker : h = <<"worker", v>> /\ Holds(v, t)'
        BY <2>6, <2>11, <3>1 DEF Held, Unwrapped
      <3>2. CASE \E k \in ctx'.sq_tail..ctx'.sq_head - 1 :
                    h = <<"queue", k>> /\ ctx'.queue[k % QUEUE] = t
        <4>1. PICK k \in ctx'.sq_tail..ctx'.sq_head - 1 :
                    h = <<"queue", k>> /\ ctx'.queue[k % QUEUE] = t
          BY <3>2
        <4>2. Unwrapped(h, n) = <<"queue", k + n>>
          BY <4>1 DEF Unwrapped
        <4>3. k + n \in ctx.sq_tail..ctx.sq_head - 1 /\ k + n # ctx.sq_tail
              /\ ctx.queue[(k + n) % QUEUE] = t
          <5>1. k + n \in ctx.sq_tail + 1..ctx.sq_head - 1 /\ k % QUEUE = (k + n) % QUEUE
            BY <2>3
          <5>2. ctx.queue[(k + n) % QUEUE] = t
            BY <1>1, <4>1, <5>1
          <5>3. k + n \in ctx.sq_tail..ctx.sq_head - 1 /\ k + n # ctx.sq_tail
            BY <1>2, <5>1
          <5> QED
            BY <5>2, <5>3
        <4> QED
          BY <4>2, <4>3 DEF Held
      <3>3. CASE h = <<"master", 0>> /\ master'.sp = t
        BY <1>1, <3>3 DEF Held, Unwrapped
      <3> QED
        BY <2>11, <3>1, <3>2, <3>3 DEF Held
    <2>12. ASSUME NEW t \in Socket, t # x PROVE ~Held(<<"worker", w>>, t)'
      BY <2>9, <2>12 DEF Held, Holds
    <2>13. ASSUME NEW t \in Socket, NEW g, NEW h, Held(g, t)', Held(h, t)',
                  g # <<"worker", w>>, h # <<"worker", w>>,
                  Unwrapped(g, n) = Unwrapped(h, n)
           PROVE  g = h
      <3>1. /\ g[1] = "queue" => \E k \in Nat : g = <<"queue", k>>
            /\ h[1] = "queue" => \E k \in Nat : h = <<"queue", k>>
        BY <2>3, <2>13 DEF Held
      <3> QED
        BY <2>13, <3>1 DEF Unwrapped
    <2>14. ASSUME NEW t \in Socket, t # x, NEW h, Held(h, t) PROVE \E g : Held(g, t)'
      <3>1. CASE \E v \in Worker : h = <<"worker", v>> /\ Holds(v, t)
        <4>1. PICK v \in Worker : h = <<"worker", v>> /\ Holds(v, t)
          BY <3>1
        <4>2. Holds(v, t)'
          BY <2>5, <2>6, <4>1
        <4>3. Held(h, t)'
          BY <4>1, <4>2 DEF Held
        <4> QED
          BY <4>3
      <3>2. CASE \E k \in ctx.sq_tail..ctx.sq_head - 1 :
                    h = <<"queue", k>> /\ ctx.queue[k % QUEUE] = t
        <4>1. PICK k \in ctx.sq_tail..ctx.sq_head - 1 : ctx.queue[k % QUEUE] = t
          BY <3>2
        <4>2. k \in ctx.sq_tail + 1..ctx.sq_head - 1
          <5>1. k # ctx.sq_tail
            BY <2>1, <2>14, <4>1
          <5> QED
            BY <1>2, <4>1, <5>1
        <4>3. PICK j \in ctx'.sq_tail..ctx'.sq_head - 1 : j + n = k
          BY <2>4, <4>2
        <4>4. ctx'.queue[j % QUEUE] = t
          BY <1>1, <2>3, <4>1, <4>3
        <4>5. Held(<<"queue", j>>, t)'
          BY <4>3, <4>4 DEF Held
        <4> QED
          BY <4>5
      <3>3. CASE h = <<"master", 0>> /\ master.sp = t
        <4>1. Held(<<"master", 0>>, t)'
          BY <1>1, <3>3 DEF Held
        <4> QED
          BY <4>1
      <3> QED
        BY <2>14, <3>1, <3>2, <3>3 DEF Held
    <2>15. HeldBy'
      <3> SUFFICES ASSUME NEW t \in Socket
                   PROVE  IF sock'[t] = "open"
                          THEN /\ \A g, h : Held(g, t)' /\ Held(h, t)' => g = h
                               /\ ctx'.stop_flag = 0 => \E h : Held(h, t)'
                          ELSE \A h : ~Held(h, t)'
        BY Zenon DEF HeldBy
      <3>1. CASE t = x
        <4>1. \A h : Held(h, t)' => h = <<"worker", w>>
          BY <2>8, <2>11, <3>1
        <4>2. \E h : Held(h, t)'
          BY <2>10, <3>1
        <4> QED
          BY <1>1, <2>8, <3>1, <4>1, <4>2
      <3>2. CASE t # x
        <4>1. \A h : Held(h, t)' => h # <<"worker", w>> /\ Held(Unwrapped(h, n), t)
          BY <2>11, <2>12, <3>2
        <4>2. sock'[t] = sock[t] /\ ctx'.stop_flag = ctx.stop_flag
          BY <1>1
        <4>3. CASE sock[t] = "open"
          <5>1. \A g, h : Held(g, t)' /\ Held(h, t)' => g = h
            BY <2>7, <2>13, <4>1, <4>3 DEF HeldBy
          <5>2. ctx.stop_flag = 0 => \E h : Held(h, t)'
            BY <2>7, <2>14, <3>2, <4>3 DEF HeldBy
          <5> QED
            BY <4>2, <4>3, <5>1, <5>2
        <4>4. CASE sock[t] # "open"
          BY <2>7, <4>1, <4>2, <4>4 DEF HeldBy
        <4> QED
          BY <4>3, <4>4
      <3> QED
        BY <3>1, <3>2
    <2>16. QueueInv'
      <3>1. /\ ctx'.sq_tail <= ctx'.sq_head /\ ctx'.sq_head - ctx'.sq_tail <= QUEUE
            /\ ctx'.sq_tail <= QUEUE
        BY <1>2, <1>5 DEF Turn
      <3>2. \A k \in ctx'.sq_tail..ctx'.sq_head - 1 : ctx'.queue[k % QUEUE] \in Socket
        <4> SUFFICES ASSUME NEW k \in ctx'.sq_tail..ctx'.sq_head - 1
                     PROVE  ctx'.queue[k % QUEUE] \in Socket
          OBVIOUS
        <4>1. k + n \in ctx.sq_tail..ctx.sq_head - 1 /\ k % QUEUE = (k + n) % QUEUE
          BY <1>2, <2>3
        <4> QED
          BY <1>1, <4>1 DEF QueueInv
      <3>3. \A v \in Worker :
               /\ conn'[v].pc \in Serving \/ (conn'[v].pc = "grabbed" /\ ctx'.stop_flag = 0)
                     => conn'[v].client \in Socket
               /\ conn'[v].pc \in Unoccupied /\ conn'[v].client \in Socket
                     => sock'[conn'[v].client] = "closed"
        BY <1>1, <2>9 DEF QueueInv, Serving, Unoccupied
      <3>4. /\ master'.pc \in {"produce", "waits", "asleep"} <=> master'.sp \in Socket
            /\ main'.pc = "init" => master'.pc = "none"
        BY <1>1 DEF QueueInv
      <3> QED
        BY <3>1, <3>2, <3>3, <3>4 DEF QueueInv
    <2> QED
      BY <2>15, <2>16, HeldByMeaning
  <1> QED
    BY <1>1, <1>4, <1>5

LEMMA LeaveHeld ==
    ASSUME Shape, QueueInv, HeldOnce, NEW w \in Worker, worker_leaves(w)
    PROVE  QueueInv' /\ HeldOnce'
  <1>1. /\ Shape' /\ SameQueue /\ UNCHANGED <<ctx.stop_flag, sock>>
        /\ main'.pc \in {main.pc, "aborted"} /\ master'.sp = master.sp
        /\ master'.pc = master.pc \/ (master.pc = "joins" /\ master'.pc = "join")
        /\ \A v \in Worker : /\ conn'[v].client = conn[v].client
                             /\ v # w => UNCHANGED <<conn[v].pc, conn[v].reg>>
        /\ conn[w].pc \in {"leave", "leaves"} /\ conn'[w].pc \in {"leaves", "gone"}
    BY LeaveFacts
  <1>2. master'.pc \in Hands <=> master.pc \in Hands
    BY <1>1 DEF Hands
  <1>3. main'.pc = "init" => master'.pc = "none"
    BY <1>1 DEF QueueInv
  <1>4. ASSUME NEW v \in Worker
        PROVE  /\ conn'[v].pc \in Serving => conn[v].pc \in Serving
               /\ conn'[v].pc = "grabbed" => conn[v].pc = "grabbed"
               /\ conn'[v].pc \in Unoccupied => conn[v].pc \in Unoccupied
               /\ conn[v].pc \in Serving \cup {"grabbed"} =>
                     conn'[v].pc \in Serving \cup {"grabbed"}
    BY <1>1 DEF Serving, Unoccupied
  <1> QED
    BY <1>1, <1>2, <1>3, <1>4, QuietHeld

LEMMA MovesHeld ==
    ASSUME Shape, QueueInv, HeldOnce, NEW w \in Worker, Moves(w), Ways(w, conn'[w].pc)
    PROVE  QueueInv' /\ HeldOnce'
  <1>1. /\ SameQueue /\ UNCHANGED <<ctx, main, master, sock>>
        /\ \A v \in Worker : /\ conn'[v].client = conn[v].client
                             /\ v # w => conn'[v].pc = conn[v].pc
    BY DEF Moves, OnlyPc, SameQueue
  <1>2. ASSUME NEW v \in Worker
        PROVE  /\ conn'[v].pc \in Serving =>
                     conn[v].pc \in Serving \/ (conn[v].pc = "grabbed" /\ ctx.stop_flag = 0)
               /\ conn'[v].pc = "grabbed" => conn[v].pc = "grabbed"
               /\ conn'[v].pc \in Unoccupied => conn[v].pc \in Unoccupied
               /\ ctx'.stop_flag = 0 /\ conn[v].pc \in Serving \cup {"grabbed"} =>
                     conn'[v].pc \in Serving \cup {"grabbed"}
    <2>1. CASE v # w
      BY <1>1, <2>1
    <2>2. CASE v = w
      BY <1>1, <2>2 DEF Ways, Serving, Unoccupied
    <2> QED
      BY <2>1, <2>2
  <1>3. /\ main'.pc = "init" => master'.pc = "none"
        /\ master'.pc \in Hands <=> master.pc \in Hands
    BY <1>1 DEF QueueInv
  <1> QED
    BY <1>1, <1>2, <1>3, QuietHeld

LEMMA MasterHeld ==
    ASSUME Shape, QueueInv, HeldOnce, MasterMoves, MasterWays(master'.pc)
    PROVE  QueueInv' /\ HeldOnce'
  <1>1. /\ SameQueue /\ UNCHANGED <<main, sock>> /\ master'.sp = master.sp
        /\ \A v \in Worker : conn'[v].client = conn[v].client
    BY DEF MasterMoves
  <1>2. ASSUME NEW v \in Worker
        PROVE  conn'[v].pc = conn[v].pc \/ (conn[v].pc = "asleep" /\ conn'[v].pc = "idle")
    BY DEF MasterMoves, SameConns
  <1>3. ASSUME NEW v \in Worker
        PROVE  /\ conn'[v].pc \in Serving => conn[v].pc \in Serving
               /\ conn'[v].pc = "grabbed" => conn[v].pc = "grabbed"
               /\ conn'[v].pc \in Unoccupied => conn[v].pc \in Unoccupied
               /\ conn[v].pc \in Serving \cup {"grabbed"} =>
                     conn'[v].pc \in Serving \cup {"grabbed"}
    BY <1>2 DEF Serving, Unoccupied
  <1>4. ctx'.stop_flag = 0 => ctx.stop_flag = 0
    BY DEF MasterWays
  <1>5. /\ main'.pc = "init" => master'.pc = "none"
        /\ master'.pc \in Hands <=> master.pc \in Hands
    BY <1>1 DEF QueueInv, MasterWays, Hands
  <1> QED
    BY <1>1, <1>3, <1>4, <1>5, QuietHeld

(* A worker that mg_start has not come to does not exist. *)
Fresh ==
    /\ main.pc = "init" => main.i = 0
    /\ Starting => \A w \in Worker : w > main.i => conn[w].pc = "none"

LEMMA MainHeld ==
    ASSUME Shape, Fresh, QueueInv, HeldOnce,
           mg_start \/ start_worker \/ count_worker \/ mg_stop \/ mg_stop_ends
    PROVE  Shape' /\ Fresh' /\ QueueInv' /\ HeldOnce'
  <1>1. /\ Shape' /\ SameQueue /\ sock' = sock /\ master'.sp = master.sp
        /\ ctx'.stop_flag = ctx.stop_flag \/ ctx'.stop_flag = 1
        /\ main'.pc # "init" /\ (master' = master \/ (main.pc = "init" /\ master'.pc = "poll"))
        /\ \A v \in Worker :
              /\ conn'[v].client = conn[v].client
              /\ conn'[v].pc = conn[v].pc \/ (conn'[v].pc = "begin" /\ conn[v].pc = "none")
    <2>1. CASE mg_start
      BY <2>1, StartFacts DEF SameConns
    <2>2. CASE start_worker
      <3>1. /\ Shape' /\ ctx' = ctx /\ master' = master /\ sock' = sock
            /\ main.pc = "spawn" /\ main.i \in Nat /\ main'.pc # "init"
            /\ \/ SameConns
               \/ main.i + 1 \in Worker /\ OnlyPc(main.i + 1, "begin")
        BY <2>2, SpawnFacts
      <3>2. main.i + 1 \in Worker => conn[main.i + 1].pc = "none"
        BY <3>1 DEF Fresh, Starting
      <3> QED
        BY <3>1, <3>2 DEF SameConns, SameQueue, OnlyPc
    <2>3. CASE count_worker
      BY <2>3, CountFacts DEF SameConns
    <2>4. CASE mg_stop
      BY <2>4, StopFacts DEF SameConns
    <2>5. CASE mg_stop_ends
      BY <2>5, StopEndsFacts DEF SameConns
    <2> QED
      BY <2>1, <2>2, <2>3, <2>4, <2>5
  <1>2. master'.pc \in Hands <=> master.pc \in Hands
    BY <1>1 DEF QueueInv, Hands
  <1>3. QueueInv' /\ HeldOnce'
    <2>1. ctx'.stop_flag = 0 => ctx.stop_flag = 0
      BY <1>1
    <2>2. ASSUME NEW v \in Worker
          PROVE  /\ conn'[v].pc \in Serving => conn[v].pc \in Serving
                 /\ conn'[v].pc = "grabbed" => conn[v].pc = "grabbed"
                 /\ conn'[v].pc \in Unoccupied => conn[v].pc \in Unoccupied
                 /\ conn[v].pc \in Serving \cup {"grabbed"} =>
                       conn'[v].pc \in Serving \cup {"grabbed"}
      BY <1>1 DEF Serving, Unoccupied
    <2> QED
      BY <1>1, <1>2, <2>1, <2>2, QuietHeld
  <1>4. Fresh'
    <2>1. CASE mg_start
      BY <2>1, StartFacts DEF SameConns, Fresh, Starting
    <2>2. CASE start_worker
      <3>1. /\ main.pc = "spawn" /\ main.i \in Nat /\ Worker \subseteq Nat
            /\ \/ main'.pc = "running" /\ SameConns
               \/ main'.i = main.i + 1 /\ SameConns
               \/ main'.i = main.i + 1 /\ OnlyPc(main.i + 1, "begin")
        BY <2>2, SpawnFacts, Caps
      <3>2. \A w \in Worker : w > main.i => conn[w].pc = "none"
        BY <3>1 DEF Fresh, Starting
      <3>3. CASE main'.pc = "running"
        BY <3>3 DEF Fresh, Starting
      <3>4. CASE main'.i = main.i + 1 /\ (SameConns \/ OnlyPc(main.i + 1, "begin"))
        <4> SUFFICES ASSUME NEW w \in Worker, w > main'.i PROVE conn'[w].pc = "none"
          BY <1>1 DEF Fresh
        <4>1. w > main.i /\ w # main.i + 1
          BY <3>1, <3>4
        <4> QED
          BY <3>2, <3>4, <4>1 DEF SameConns, OnlyPc
      <3> QED
        BY <3>1, <3>3, <3>4
    <2>3. CASE count_worker
      BY <2>3, CountFacts DEF SameConns, Fresh, Starting
    <2>4. CASE mg_stop
      BY <2>4, StopFacts DEF Fresh, Starting
    <2>5. CASE mg_stop_ends
      BY <2>5, StopEndsFacts DEF Fresh, Starting
    <2> QED
      BY <2>1, <2>2, <2>3, <2>4, <2>5
  <1> QED
    BY <1>1, <1>3, <1>4

HeldInv == Shape /\ Fresh /\ QueueInv /\ HeldOnce

LEMMA HeldInit == Init => HeldInv
  <1> SUFFICES ASSUME Init PROVE HeldInv
    OBVIOUS
  <1>1. QUEUE \in Nat /\ QUEUE > 0 /\ NUM_THREADS \in Nat /\ NoSocket \notin Socket
    BY Caps
  <1>2. /\ ctx.stop_flag = 0 /\ ctx.num_threads = 0 /\ ctx.sq_head = 0 /\ ctx.sq_tail = 0
        /\ ctx \in mg_context
    BY <1>1 DEF Init, mg_context
  <1>3. /\ main \in MainThread /\ main.pc = "init" /\ main.i = 0
        /\ master \in MasterThread /\ master.pc = "none" /\ master.sp = NoSocket
    BY <1>1 DEF Init, MainThread, MasterThread
  <1>4. ConnShape /\ \A w \in Worker : conn[w].pc = "none" /\ conn[w].client = NoSocket
    BY DEF Init, ConnShape, Fields, Pcs
  <1>5. HistShape
    BY DEF Init, HistShape, HistFields
  <1>6. sock \in [Socket -> {"backlog", "open", "closed"}] /\ \A s \in Socket : sock[s] = "backlog"
    BY DEF Init
  <1>7. Shape
    BY <1>2, <1>3, <1>4, <1>5, <1>6 DEF Shape, ConnShape, HistShape
  <1>8. Fresh
    BY <1>3, <1>4 DEF Fresh
  <1>9. QueueInv
    BY <1>1, <1>2, <1>3, <1>4 DEF QueueInv, Serving
  <1>10. HeldOnce
    <2>1. \A s \in Socket : \A h : ~Held(h, s)
      BY <1>1, <1>2, <1>3, <1>4 DEF Held, Holds
    <2>2. HeldBy
      BY <1>6, <2>1 DEF HeldBy
    <2> QED
      BY <2>2, HeldByMeaning
  <1> QED
    BY <1>7, <1>8, <1>9, <1>10 DEF HeldInv

(* Fresh under the steps that leave mg_start where it is. *)
LEMMA FreshStays ==
    ASSUME Fresh, main'.i = main.i, main'.pc \in {main.pc, "aborted"},
           \A v \in Worker : conn[v].pc = "none" => conn'[v].pc = "none"
    PROVE  Fresh'
  BY DEF Fresh, Starting

LEMMA HeldStep == HeldInv /\ [Next]_vars => HeldInv'
  <1> SUFFICES ASSUME HeldInv, [Next]_vars PROVE HeldInv'
    OBVIOUS
  <1>1. Shape /\ Fresh /\ QueueInv /\ HeldOnce
    BY DEF HeldInv
  <1>2. CASE mg_start \/ start_worker \/ count_worker \/ mg_stop \/ mg_stop_ends
    BY <1>1, <1>2, MainHeld DEF HeldInv
  <1>3. ASSUME NEW w \in Worker, Shape', Moves(w), Ways(w, conn'[w].pc) PROVE HeldInv'
    <2>1. Fresh'
      BY <1>1, <1>3, FreshStays DEF Moves, OnlyPc, Ways, Serving
    <2> QED
      BY <1>1, <1>3, <2>1, MovesHeld DEF HeldInv
  <1>4. CASE Shape' /\ MasterMoves /\ MasterWays(master'.pc)
    <2>1. Fresh'
      BY <1>1, <1>4, FreshStays DEF MasterMoves, SameConns
    <2> QED
      BY <1>1, <1>4, <2>1, MasterHeld DEF HeldInv
  <1>5. ASSUME NEW s \in Next_client, Accepts(s) PROVE HeldInv'
    <2>1. Shape' /\ UNCHANGED <<main, conn>>
      BY <1>1, <1>5, AcceptFacts DEF Accepts
    <2>2. Fresh'
      BY <1>1, <2>1, FreshStays
    <2> QED
      BY <1>1, <1>5, <2>1, <2>2, AcceptHeld DEF HeldInv
  <1>6. CASE Enqueues
    <2>1. /\ Shape' /\ main' = main
          /\ SameConns \/ \E w \in Asleep : OnlyPc(w, "idle")
      BY <1>1, <1>6, EnqueueFacts DEF Enqueues
    <2>2. Fresh'
      BY <1>1, <2>1, FreshStays DEF SameConns, OnlyPc, Asleep
    <2> QED
      BY <1>1, <1>6, <2>1, <2>2, EnqueueHeld DEF HeldInv
  <1>7. ASSUME NEW w \in Worker, Dequeues(w) PROVE HeldInv'
    <2>1. /\ Shape' /\ main' = main /\ conn[w].pc = "idle"
          /\ \A v \in Worker : v # w => conn'[v].pc = conn[v].pc
      BY <1>1, <1>7, DequeueFacts DEF Dequeues, QueueInv
    <2>2. Fresh'
      BY <1>1, <2>1, FreshStays
    <2> QED
      BY <1>1, <1>7, <2>1, <2>2, DequeueHeld DEF HeldInv
  <1>8. ASSUME NEW w \in Worker, close_connection(w) PROVE HeldInv'
    <2>1. QueueInv' /\ HeldOnce' /\ conn[w].client \in Socket
      BY <1>1, <1>8, CloseHeld
    <2>2. /\ Shape' /\ main' = main /\ conn[w].pc = "closing" /\ OnlyPc(w, "idle")
      BY <1>1, <1>8, <2>1, CloseFacts
    <2>3. Fresh'
      BY <1>1, <2>2, FreshStays DEF OnlyPc
    <2> QED
      BY <2>1, <2>2, <2>3 DEF HeldInv
  <1>9. ASSUME NEW w \in Worker, worker_leaves(w) PROVE HeldInv'
    <2>1. /\ Shape' /\ main'.i = main.i /\ main'.pc \in {main.pc, "aborted"}
          /\ conn[w].pc \in {"leave", "leaves"}
          /\ \A v \in Worker : v # w => conn'[v].pc = conn[v].pc
      BY <1>1, <1>9, LeaveFacts
    <2>2. Fresh'
      BY <1>1, <2>1, FreshStays
    <2> QED
      BY <1>1, <1>9, <2>1, <2>2, LeaveHeld DEF HeldInv
  <1>10. CASE UNCHANGED vars
    <2>1. UNCHANGED <<ctx, main, master, conn, sock, hist>>
      BY <1>10 DEF vars
    <2>2. Shape' /\ Fresh' /\ QueueInv'
      BY <1>1, <2>1 DEF Shape, Fresh, Starting, QueueInv
    <2>3. HeldOnce'
      BY <1>1, <2>1 DEF HeldOnce, Holders, Holds
    <2> QED
      BY <2>2, <2>3 DEF HeldInv
  <1> QED
    BY <1>1, <1>2, <1>3, <1>4, <1>5, <1>6, <1>7, <1>8, <1>9, <1>10, Steps

LEMMA HeldInvariance == Spec => []HeldInv
  BY HeldInit, HeldStep, PTL DEF Spec

(* The queue between its indices holds accepted sockets, through every turn *)
(* of the indices, and every thread that serves has a socket to serve.      *)
THEOREM QueueInvHolds == Spec => []QueueInv
  <1>1. HeldInv => QueueInv
    BY DEF HeldInv
  <1> QED
    BY <1>1, HeldInvariance, PTL

(* For any number of workers and any size of the queue, an accepted socket  *)
(* has exactly one holder until it is closed.                               *)
THEOREM HeldOnceHolds == Spec => []HeldOnce
  <1>1. HeldInv => HeldOnce
    BY DEF HeldInv
  <1> QED
    BY <1>1, HeldInvariance, PTL
--------------------------------------------------------------------------------
(* The wake-ups. *)

LEMMA SubsetsOfWorker ==
    ASSUME NEW S \in SUBSET Worker
    PROVE  /\ IsFiniteSet(S) /\ Cardinality(S) \in Nat
           /\ \A T \in SUBSET S : Cardinality(T) <= Cardinality(S)
           /\ \A w \in Worker : w \notin S => Cardinality(S \cup {w}) = Cardinality(S) + 1
           /\ \A w \in S : Cardinality(S \ {w}) = Cardinality(S) - 1
           /\ Cardinality(S) = 0 => S = {}
  <1>1. IsFiniteSet(S)
    <2>1. IsFiniteSet(Worker)
      BY Caps, FS_Interval DEF Worker
    <2> QED
      BY <2>1, FS_Subset
  <1>2. Cardinality(S) \in Nat
    BY <1>1, FS_CardinalityType
  <1>3. \A T \in SUBSET S : Cardinality(T) <= Cardinality(S)
    BY <1>1, FS_Subset
  <1>4. \A w \in Worker : w \notin S => Cardinality(S \cup {w}) = Cardinality(S) + 1
    BY <1>1, FS_AddElement
  <1>5. \A w \in S : Cardinality(S \ {w}) = Cardinality(S) - 1
    BY <1>1, FS_RemoveElement
  <1>6. Cardinality(S) = 0 => S = {}
    BY <1>1, FS_EmptySet
  <1> QED
    BY <1>1, <1>2, <1>3, <1>4, <1>5, <1>6

Idle == {w \in Worker : conn[w].pc = "idle"}

RousedInv == WaitInv /\ WorkersRoused

LEMMA RousedMeaning ==
    /\ WorkersRoused <=>
          (ctx.stop_flag = 0 =>
             /\ (\E w \in Worker : conn[w].pc = "asleep") =>
                   Cardinality(Idle) >= ctx.sq_head - ctx.sq_tail
             /\ master.pc = "asleep" => Full)
    /\ WorkersRoused' <=>
          (ctx'.stop_flag = 0 =>
             /\ (\E w \in Worker : conn'[w].pc = "asleep") =>
                   Cardinality(Idle') >= ctx'.sq_head - ctx'.sq_tail
             /\ master'.pc = "asleep" => Full')
  BY DEF WorkersRoused, Idle, Asleep

(* The steps that neither put a socket into the queue nor take one out. *)
LEMMA RousedStays ==
    ASSUME Shape, RousedInv, UNCHANGED <<ctx.sq_head, ctx.sq_tail>>,
           ctx'.stop_flag = 0 => ctx.stop_flag = 0,
           \/ ctx.sq_head = ctx.sq_tail
           \/ \A v \in Worker : /\ conn'[v].pc \in {"waits", "asleep"} => conn'[v].pc = conn[v].pc
                                /\ conn[v].pc = "idle" => conn'[v].pc = "idle",
           master'.pc = "waits" => master.pc = "waits" \/ Full,
           master'.pc = "asleep" => master.pc \in {"waits", "asleep"}
    PROVE  RousedInv'
  <1>1. ctx.sq_head \in Nat /\ ctx.sq_tail \in Nat /\ Full' = Full
    BY ContextTypes DEF Shape, Full
  <1>2. WaitInv'
    <2>1. ASSUME NEW w \in Worker, conn'[w].pc = "waits" PROVE ctx'.sq_head = ctx'.sq_tail
      BY <2>1 DEF RousedInv, WaitInv
    <2>2. master'.pc = "waits" => Full'
      BY <1>1 DEF RousedInv, WaitInv
    <2> QED
      BY <2>1, <2>2 DEF WaitInv
  <1>3. ASSUME ctx'.stop_flag = 0, master'.pc = "asleep" PROVE Full'
    BY <1>1, <1>3, RousedMeaning DEF RousedInv, WaitInv
  <1>4. Idle \in SUBSET Worker /\ Idle' \in SUBSET Worker
    BY DEF Idle
  <1>5. ASSUME ctx'.stop_flag = 0, NEW w \in Worker, conn'[w].pc = "asleep"
        PROVE  Cardinality(Idle') >= ctx'.sq_head - ctx'.sq_tail
    <2>1. Cardinality(Idle') \in Nat /\ Cardinality(Idle) \in Nat
      BY <1>4, SubsetsOfWorker
    <2>2. CASE ctx.sq_head = ctx.sq_tail
      BY <1>1, <2>1, <2>2
    <2>3. CASE \A v \in Worker :
                  /\ conn'[v].pc \in {"waits", "asleep"} => conn'[v].pc = conn[v].pc
                  /\ conn[v].pc = "idle" => conn'[v].pc = "idle"
      <3>1. Idle \in SUBSET (Idle')
        BY <2>3 DEF Idle
      <3>2. Cardinality(Idle) <= Cardinality(Idle')
        BY <1>4, <3>1, SubsetsOfWorker
      <3>3. Cardinality(Idle) >= ctx.sq_head - ctx.sq_tail
        BY <1>5, <2>3, RousedMeaning DEF RousedInv
      <3> QED
        BY <1>1, <2>1, <3>2, <3>3
    <2> QED
      BY <2>2, <2>3
  <1>6. WorkersRoused'
    BY <1>3, <1>5, RousedMeaning
  <1> QED
    BY <1>2, <1>6 DEF RousedInv

LEMMA EnqueueRoused ==
    ASSUME HeldInv, RousedInv, Enqueues
    PROVE  RousedInv'
  <1>1. /\ Shape /\ UNCHANGED <<ctx.stop_flag, ctx.sq_tail>>
        /\ MutexFree /\ master'.pc = "poll"
        /\ \/ Asleep = {} /\ SameConns
           \/ \E w \in Asleep : OnlyPc(w, "idle")
        /\ \/ ctx.stop_flag # 0
           \/ ctx'.sq_head = ctx.sq_head + 1
    BY EnqueueFacts DEF Enqueues, HeldInv
  <1>2. ctx.sq_head \in Nat /\ ctx.sq_tail \in Nat
    BY <1>1, ContextTypes DEF Shape
  <1>3. \A w \in Worker : conn'[w].pc # "waits"
    BY <1>1 DEF MutexFree, SameConns, OnlyPc
  <1>4. WaitInv'
    BY <1>1, <1>3 DEF WaitInv
  <1>5. ASSUME ctx'.stop_flag = 0, NEW v \in Worker, conn'[v].pc = "asleep"
        PROVE  Cardinality(Idle') >= ctx'.sq_head - ctx'.sq_tail
    <2>1. ctx'.sq_head = ctx.sq_head + 1 /\ ctx.stop_flag = 0
      BY <1>1, <1>5
    <2>2. conn[v].pc = "asleep"
      BY <1>1, <1>5 DEF SameConns, OnlyPc
    <2>3. PICK w \in Asleep : OnlyPc(w, "idle")
      BY <1>1, <2>2 DEF Asleep
    <2>4. w \in Worker /\ w \notin Idle /\ Idle' = Idle \cup {w}
      BY <2>3 DEF Asleep, Idle, OnlyPc
    <2>5. Idle \in SUBSET Worker
      BY DEF Idle
    <2>6. Cardinality(Idle') = Cardinality(Idle) + 1 /\ Cardinality(Idle) \in Nat
      BY <2>4, <2>5, SubsetsOfWorker
    <2>7. Cardinality(Idle) >= ctx.sq_head - ctx.sq_tail
      BY <2>1, <2>2, RousedMeaning DEF RousedInv
    <2> QED
      BY <1>1, <1>2, <2>1, <2>6, <2>7
  <1>6. WorkersRoused'
    BY <1>1, <1>5, RousedMeaning
  <1> QED
    BY <1>4, <1>6 DEF RousedInv

LEMMA DequeueRoused ==
    ASSUME HeldInv, RousedInv, NEW w \in Worker, Dequeues(w)
    PROVE  RousedInv'
  <1>1. /\ Shape /\ ctx'.stop_flag = ctx.stop_flag /\ MutexFree /\ conn[w].pc = "idle"
        /\ master'.pc = IF master.pc = "asleep" THEN "produce" ELSE master.pc
        /\ \A v \in Worker : conn'[v].pc = IF v = w THEN "grabbed" ELSE conn[v].pc
        /\ \/ /\ ctx'.sq_tail = ctx.sq_tail + 1 - Turn /\ ctx'.sq_head = ctx.sq_head - Turn
           \/ ~(ctx.sq_head > ctx.sq_tail)
    BY DequeueFacts DEF Dequeues, HeldInv, QueueInv
  <1>2. /\ ctx.sq_head \in Nat /\ ctx.sq_tail \in Nat /\ Turn \in Nat
        /\ ctx.sq_tail <= ctx.sq_head
    BY <1>1, ContextTypes, Caps DEF Shape, Turn, HeldInv, QueueInv
  <1>3. WaitInv' /\ master'.pc # "asleep"
    BY <1>1 DEF WaitInv, MutexFree
  <1>4. ASSUME ctx'.stop_flag = 0, NEW v \in Worker, conn'[v].pc = "asleep"
        PROVE  Cardinality(Idle') >= ctx'.sq_head - ctx'.sq_tail
    <2>1. ctx'.sq_head - ctx'.sq_tail = ctx.sq_head - ctx.sq_tail - 1
      <3>1. ctx.sq_head > ctx.sq_tail
        BY <1>1, <1>2, <1>4 DEF Dequeues
      <3> QED
        BY <1>1, <1>2, <3>1
    <2>2. w \in Idle /\ Idle' = Idle \ {w} /\ Idle \in SUBSET Worker
      BY <1>1 DEF Idle
    <2>3. Cardinality(Idle') = Cardinality(Idle) - 1 /\ Cardinality(Idle) \in Nat
      BY <2>2, SubsetsOfWorker
    <2>4. Cardinality(Idle) >= ctx.sq_head - ctx.sq_tail
      BY <1>1, <1>4, RousedMeaning DEF RousedInv
    <2> QED
      BY <1>2, <2>1, <2>3, <2>4
  <1>5. WorkersRoused'
    BY <1>3, <1>4, RousedMeaning
  <1> QED
    BY <1>3, <1>5 DEF RousedInv

LEMMA RousedStep == HeldInv /\ RousedInv /\ [Next]_vars => RousedInv'
  <1> SUFFICES ASSUME HeldInv, RousedInv, [Next]_vars PROVE RousedInv'
    OBVIOUS
  <1>1. Shape /\ Fresh /\ QueueInv /\ HeldOnce
    BY DEF HeldInv
  <1>2. CASE mg_start \/ start_worker \/ count_worker \/ mg_stop \/ mg_stop_ends
    <2>1. /\ SameQueue /\ (ctx'.stop_flag = ctx.stop_flag \/ ctx'.stop_flag = 1)
          /\ master'.pc = master.pc \/ master'.pc = "poll"
          /\ \A v \in Worker :
                conn'[v].pc = conn[v].pc \/ (conn'[v].pc = "begin" /\ conn[v].pc = "none")
      <3>1. CASE mg_start
        BY <1>1, <3>1, StartFacts DEF SameConns
      <3>2. CASE start_worker
        <4>1. /\ ctx' = ctx /\ master' = master /\ main.pc = "spawn" /\ main.i \in Nat
              /\ \/ SameConns
                 \/ main.i + 1 \in Worker /\ OnlyPc(main.i + 1, "begin")
          BY <1>1, <3>2, SpawnFacts
        <4>2. main.i + 1 \in Worker => conn[main.i + 1].pc = "none"
          BY <1>1, <4>1 DEF Fresh, Starting
        <4> QED
          BY <4>1, <4>2 DEF SameConns, SameQueue, OnlyPc
      <3>3. CASE count_worker
        BY <1>1, <3>3, CountFacts DEF SameConns
      <3>4. CASE mg_stop
        BY <1>1, <3>4, StopFacts DEF SameConns
      <3>5. CASE mg_stop_ends
        BY <1>1, <3>5, StopEndsFacts DEF SameConns
      <3> QED
        BY <1>2, <3>1, <3>2, <3>3, <3>4, <3>5
    <2>2. \A v \in Worker : /\ conn'[v].pc \in {"waits", "asleep"} => conn'[v].pc = conn[v].pc
                            /\ conn[v].pc = "idle" => conn'[v].pc = "idle"
      BY <2>1
    <2>3. ctx'.stop_flag = 0 => ctx.stop_flag = 0
      BY <2>1
    <2> QED
      BY <1>1, <2>1, <2>2, <2>3, RousedStays DEF SameQueue
  <1>3. ASSUME NEW w \in Worker, Shape', Moves(w), Ways(w, conn'[w].pc) PROVE RousedInv'
    <2>1. /\ UNCHANGED <<ctx, master>>
          /\ \A v \in Worker : v # w => conn'[v].pc = conn[v].pc
      BY <1>3 DEF Moves, OnlyPc
    <2>2. CASE conn[w].pc = "waits" \/ conn'[w].pc = "waits"
      <3>1. ctx.sq_head = ctx.sq_tail
        BY <1>3, <2>2 DEF Ways, RousedInv, WaitInv, Serving
      <3> QED
        BY <1>1, <2>1, <3>1, RousedStays
    <2>3. CASE conn[w].pc # "waits" /\ conn'[w].pc # "waits"
      <3>1. conn'[w].pc # "asleep" /\ conn[w].pc # "idle"
        BY <1>3, <2>3 DEF Ways, Serving
      <3> QED
        BY <1>1, <2>1, <2>3, <3>1, RousedStays
    <2> QED
      BY <2>2, <2>3
  <1>4. CASE Shape' /\ MasterMoves /\ MasterWays(master'.pc)
    <2>1. /\ SameQueue
          /\ \A v \in Worker :
                conn'[v].pc = conn[v].pc \/ (conn[v].pc = "asleep" /\ conn'[v].pc = "idle")
      BY <1>4 DEF MasterMoves, SameConns
    <2>2. /\ ctx'.stop_flag = 0 => ctx.stop_flag = 0
          /\ master'.pc = "waits" => master.pc = "waits" \/ Full
          /\ master'.pc = "asleep" => master.pc \in {"waits", "asleep"}
      BY <1>4 DEF MasterWays
    <2>3. \A v \in Worker : /\ conn'[v].pc \in {"waits", "asleep"} => conn'[v].pc = conn[v].pc
                            /\ conn[v].pc = "idle" => conn'[v].pc = "idle"
      BY <2>1
    <2> QED
      BY <1>1, <2>1, <2>2, <2>3, RousedStays DEF SameQueue
  <1>5. ASSUME NEW s \in Next_client, Accepts(s) PROVE RousedInv'
    <2>1. UNCHANGED <<ctx, conn>> /\ (master' = master \/ master'.pc = "produce")
      BY <1>1, <1>5, AcceptFacts DEF Accepts
    <2> QED
      BY <1>1, <2>1, RousedStays
  <1>6. CASE Enqueues
    BY <1>6, EnqueueRoused
  <1>7. ASSUME NEW w \in Worker, Dequeues(w) PROVE RousedInv'
    BY <1>7, DequeueRoused
  <1>8. ASSUME NEW w \in Worker, close_connection(w) PROVE RousedInv'
    <2>1. UNCHANGED <<ctx, master>> /\ conn[w].pc = "closing" /\ OnlyPc(w, "idle")
      BY <1>1, <1>8, CloseHeld, CloseFacts
    <2>2. \A v \in Worker : /\ conn'[v].pc \in {"waits", "asleep"} => conn'[v].pc = conn[v].pc
                            /\ conn[v].pc = "idle" => conn'[v].pc = "idle"
      BY <2>1 DEF OnlyPc
    <2> QED
      BY <1>1, <2>1, <2>2, RousedStays
  <1>9. ASSUME NEW w \in Worker, worker_leaves(w) PROVE RousedInv'
    <2>1. /\ SameQueue /\ ctx'.stop_flag = ctx.stop_flag
          /\ master'.pc = master.pc \/ (master.pc = "joins" /\ master'.pc = "join")
          /\ \A v \in Worker : v # w => conn'[v].pc = conn[v].pc
          /\ conn[w].pc \in {"leave", "leaves"} /\ conn'[w].pc \in {"leaves", "gone"}
      BY <1>1, <1>9, LeaveFacts
    <2>2. \A v \in Worker : /\ conn'[v].pc \in {"waits", "asleep"} => conn'[v].pc = conn[v].pc
                            /\ conn[v].pc = "idle" => conn'[v].pc = "idle"
      BY <2>1
    <2> QED
      BY <1>1, <2>1, <2>2, RousedStays DEF SameQueue
  <1>10. CASE UNCHANGED vars
    BY <1>1, <1>10, RousedStays DEF vars
  <1> QED
    BY <1>1, <1>2, <1>3, <1>4, <1>5, <1>6, <1>7, <1>8, <1>9, <1>10, Steps

(* What a thread saw of the queue before it waits is still so when it does. *)
THEOREM WaitInvHolds == Spec => [](WaitInv /\ WorkersRoused)
  <1>1. Init => RousedInv
    <2> SUFFICES ASSUME Init PROVE RousedInv
      OBVIOUS
    <2>1. master.pc = "none" /\ \A w \in Worker : conn[w].pc = "none"
      BY DEF Init
    <2>2. WaitInv
      BY <2>1 DEF WaitInv
    <2>3. WorkersRoused
      BY <2>1, RousedMeaning
    <2> QED
      BY <2>2, <2>3 DEF RousedInv
  <1> QED
    BY <1>1, RousedStep, HeldInvariance, PTL DEF Spec, RousedInv

(* For any number of workers no wake-up is lost while the server runs: for  *)
(* every queued socket a worker is on its way as long as another sleeps,    *)
(* and the master sleeps only while the queue is full.                      *)
THEOREM WorkersRousedHolds == Spec => []WorkersRoused
  BY WaitInvHolds, PTL
--------------------------------------------------------------------------------
(* The count of the workers. *)

Ending == {"closing", "wake", "join", "joins", "gone"}

(* The conjuncts of CountInv: what holds at any time, and what holds unless *)
(* a worker left while mg_start was counting.                               *)
FlagInv ==
    /\ Starting \/ main.pc = "running" => ctx.stop_flag = 0
    /\ master.pc \in Ending => ctx.stop_flag # 0
    /\ ctx.stop_flag = 2 \/ main.pc = "stopped" => master.pc = "gone"
    /\ \A v, w \in Worker : conn[v].pc = "leaves" /\ conn[w].pc = "leaves" => v = w

Uncounted == IF main.pc \in {"count", "store"} THEN 1 ELSE 0

NumberInv ==
    /\ Starting => \A w \in Worker : conn[w].pc \notin {"leaves", "gone"}
    /\ main.pc = "store" => main.reg = ctx.num_threads
    /\ \A w \in Worker : conn[w].pc = "leaves" => conn[w].reg = ctx.num_threads
    /\ Cardinality(Alive) = ctx.num_threads + Uncounted
    /\ master.pc = "gone" => Alive = {}

CountedInv == FlagInv /\ (~hist.raced => NumberInv)

LEMMA CountedMeaning == Fresh /\ CountedInv => CountInv
  BY Zenon DEF CountInv, Fresh, CountedInv, FlagInv, NumberInv, Uncounted, Ending

(* The steps of the threads that count nobody. *)
LEMMA CountStays ==
    ASSUME Shape, CountedInv, main' = main,
           UNCHANGED <<ctx.stop_flag, ctx.num_threads, hist.raced>>,
           \A v \in Worker : conn'[v].reg = conn[v].reg,
           \A v \in Worker : \/ conn'[v].pc = conn[v].pc
                             \/ {conn[v].pc, conn'[v].pc} \cap {"none", "leaves", "gone"} = {},
           master'.pc \in Ending => master.pc \in Ending \/ ctx.stop_flag # 0,
           master'.pc = "gone" <=> master.pc = "gone"
    PROVE  CountedInv'
  <1>1. FlagInv'
    <2>1. ASSUME NEW v \in Worker, conn'[v].pc = "leaves" PROVE conn[v].pc = "leaves"
      BY <2>1
    <2> QED
      BY <2>1 DEF CountedInv, FlagInv, Starting
  <1>2. Alive' = Alive
    BY DEF Alive
  <1>3. ASSUME ~hist'.raced PROVE NumberInv'
    <2>1. NumberInv
      BY <1>3 DEF CountedInv
    <2>2. \A v \in Worker : /\ conn'[v].pc = "leaves" => conn[v].pc = "leaves"
                            /\ conn'[v].pc = "gone" => conn[v].pc = "gone"
      OBVIOUS
    <2> QED
      BY <1>2, <2>1, <2>2 DEF NumberInv, Uncounted, Starting
  <1> QED
    BY <1>1, <1>3 DEF CountedInv

LEMMA AliveType == Alive \in SUBSET Worker /\ Alive' \in SUBSET Worker
  BY DEF Alive

(* The steps of the main thread. *)
LEMMA MainCounts ==
    ASSUME HeldInv, CountedInv,
           mg_start \/ start_worker \/ count_worker \/ mg_stop \/ mg_stop_ends
    PROVE  CountedInv'
  <1>1. Shape /\ Fresh /\ QueueInv /\ ctx.num_threads \in Int /\ main.reg \in Int
    BY DEF HeldInv, Shape, mg_context, MainThread
  <1>2. CASE mg_start
    <2>1. /\ SameConns /\ hist' = hist /\ UNCHANGED <<ctx.stop_flag, ctx.num_threads>>
          /\ main.pc = "init" /\ main'.pc \in {"spawn", "failed"}
          /\ master.pc = "none" /\ master'.pc \in {"none", "poll"}
      BY <1>1, <1>2, StartFacts DEF QueueInv
    <2>2. Alive' = Alive /\ Uncounted = 0 /\ Uncounted' = 0
      BY <2>1 DEF SameConns, Alive, Uncounted
    <2>3. FlagInv'
      BY <2>1 DEF CountedInv, FlagInv, Starting, Ending, SameConns
    <2>4. NumberInv => NumberInv'
      BY <2>1, <2>2 DEF NumberInv, SameConns, Starting
    <2> QED
      BY <2>1, <2>3, <2>4 DEF CountedInv
  <1>3. CASE start_worker
    <2>1. /\ ctx' = ctx /\ master' = master /\ hist' = hist /\ main.pc = "spawn" /\ main.i \in Nat
          /\ \/ main'.pc \in {"running", "spawn"} /\ SameConns
             \/ main'.pc = "count" /\ main.i + 1 \in Worker /\ OnlyPc(main.i + 1, "begin")
      BY <1>1, <1>3, SpawnFacts
    <2>2. main.i + 1 \in Worker => conn[main.i + 1].pc = "none"
      BY <1>1, <2>1 DEF Fresh, Starting
    <2>3. \A v \in Worker : /\ conn'[v].reg = conn[v].reg
                            /\ conn'[v].pc \in {"leaves", "gone"} => conn'[v].pc = conn[v].pc
      BY <2>1 DEF SameConns, OnlyPc
    <2>4. FlagInv'
      BY <2>1, <2>3 DEF CountedInv, FlagInv, Starting, Ending
    <2>5. ASSUME NumberInv PROVE NumberInv'
      <3>1. Cardinality(Alive') = ctx'.num_threads + Uncounted' /\ master'.pc # "gone"
        <4>1. master'.pc # "gone"
          BY <2>1 DEF CountedInv, FlagInv, Starting, Ending
        <4>2. CASE main'.pc \in {"running", "spawn"} /\ SameConns
          <5>1. Alive' = Alive /\ Uncounted = 0 /\ Uncounted' = 0
            BY <2>1, <4>2 DEF SameConns, Alive, Uncounted
          <5> QED
            BY <2>1, <2>5, <4>1, <5>1 DEF NumberInv
        <4>3. CASE main'.pc = "count" /\ main.i + 1 \in Worker /\ OnlyPc(main.i + 1, "begin")
          <5> DEFINE w == main.i + 1
          <5>1. w \in Worker /\ w \notin Alive /\ Alive' = Alive \cup {w}
            BY <2>2, <4>3 DEF OnlyPc, Alive
          <5> HIDE DEF w
          <5>2. Cardinality(Alive') = Cardinality(Alive) + 1
            BY <5>1, AliveType, SubsetsOfWorker
          <5>3. Uncounted = 0 /\ Uncounted' = 1
            BY <2>1, <4>3 DEF Uncounted
          <5> QED
            BY <1>1, <2>1, <2>5, <4>1, <5>2, <5>3 DEF NumberInv
        <4> QED
          BY <2>1, <4>2, <4>3
      <3> QED
        BY <2>1, <2>3, <2>5, <3>1 DEF NumberInv, Starting
    <2> QED
      BY <2>1, <2>4, <2>5 DEF CountedInv
  <1>4. CASE count_worker
    <2>1. /\ SameConns /\ UNCHANGED <<ctx.stop_flag, master, hist>>
          /\ \/ /\ main.pc = "count" /\ main'.pc = "store" /\ main'.reg = ctx.num_threads
                /\ ctx' = ctx
             \/ /\ main.pc = "store" /\ main'.pc = "spawn"
                /\ ctx'.num_threads = main.reg + 1
      BY <1>1, <1>4, CountFacts
    <2>2. FlagInv'
      BY <2>1 DEF CountedInv, FlagInv, Starting, Ending, SameConns
    <2>3. Alive' = Alive
      BY <2>1 DEF SameConns, Alive
    <2>4. ASSUME NumberInv PROVE NumberInv'
      <3>1. \A w \in Worker : conn'[w].pc \notin {"leaves", "gone"}
        BY <2>1, <2>4 DEF NumberInv, Starting, SameConns
      <3>2. Cardinality(Alive') = ctx'.num_threads + Uncounted'
        <4>1. CASE main.pc = "count" /\ main'.pc = "store" /\ ctx' = ctx
          BY <2>3, <2>4, <4>1 DEF NumberInv, Uncounted
        <4>2. CASE main.pc = "store" /\ main'.pc = "spawn" /\ ctx'.num_threads = main.reg + 1
          <5>1. main.reg = ctx.num_threads /\ Uncounted = 1 /\ Uncounted' = 0
            BY <2>4, <4>2 DEF NumberInv, Uncounted
          <5> QED
            BY <1>1, <2>3, <2>4, <4>2, <5>1 DEF NumberInv
        <4> QED
          BY <2>1, <4>1, <4>2
      <3> QED
        BY <2>1, <2>3, <2>4, <3>1, <3>2 DEF NumberInv
    <2> QED
      BY <2>1, <2>2, <2>4 DEF CountedInv
  <1>5. CASE mg_stop
    <2>1. /\ SameConns /\ UNCHANGED <<ctx.num_threads, master, hist>>
          /\ ctx'.stop_flag = 1 /\ main.pc = "running" /\ main'.pc = "stopping"
      BY <1>1, <1>5, StopFacts
    <2>2. Alive' = Alive /\ Uncounted = 0 /\ Uncounted' = 0
      BY <2>1 DEF SameConns, Alive, Uncounted
    <2>3. FlagInv'
      BY <2>1 DEF CountedInv, FlagInv, Starting, Ending, SameConns
    <2>4. NumberInv => NumberInv'
      BY <2>1, <2>2 DEF NumberInv, SameConns, Starting
    <2> QED
      BY <2>1, <2>3, <2>4 DEF CountedInv
  <1>6. CASE mg_stop_ends
    <2>1. /\ SameConns /\ UNCHANGED <<ctx.stop_flag, ctx.num_threads, master, hist>>
          /\ ctx.stop_flag = 2 /\ main.pc = "stopping" /\ main'.pc = "stopped"
      BY <1>1, <1>6, StopEndsFacts
    <2>2. Alive' = Alive /\ Uncounted = 0 /\ Uncounted' = 0
      BY <2>1 DEF SameConns, Alive, Uncounted
    <2>3. FlagInv'
      BY <2>1 DEF CountedInv, FlagInv, Starting, Ending, SameConns
    <2>4. NumberInv => NumberInv'
      BY <2>1, <2>2 DEF NumberInv, SameConns, Starting
    <2> QED
      BY <2>1, <2>3, <2>4 DEF CountedInv
  <1> QED
    BY <1>2, <1>3, <1>4, <1>5, <1>6

(* The end of the master: it goes when num_threads is 0. *)
LEMMA MasterCounts ==
    ASSUME HeldInv, CountedInv, MasterMoves, MasterWays(master'.pc)
    PROVE  CountedInv'
  <1>1. /\ Shape /\ ctx.num_threads \in Int
        /\ UNCHANGED <<ctx.num_threads, main, hist.raced>>
        /\ \A v \in Worker :
              /\ conn'[v].reg = conn[v].reg
              /\ conn'[v].pc = conn[v].pc \/ (conn[v].pc = "asleep" /\ conn'[v].pc = "idle")
    BY ContextTypes DEF HeldInv, Shape, MasterMoves, SameConns
  <1>2. \A v \in Worker : \/ conn'[v].pc = conn[v].pc
                          \/ {conn[v].pc, conn'[v].pc} \cap {"none", "leaves", "gone"} = {}
    BY <1>1
  <1>3. CASE master'.pc # "gone"
    <2>1. /\ ctx'.stop_flag = ctx.stop_flag /\ master.pc # "gone"
          /\ master'.pc \in Ending => master.pc \in Ending \/ ctx.stop_flag # 0
      BY <1>3 DEF MasterWays, Ending
    <2> QED
      BY <1>1, <1>2, <1>3, <2>1, CountStays
  <1>4. CASE master'.pc = "gone"
    <2>1. /\ master.pc = "join" /\ ctx'.stop_flag = 2 /\ ctx.num_threads <= 0
      BY <1>4 DEF MasterWays
    <2>2. ctx.stop_flag # 0 /\ ~Starting /\ main.pc # "running"
      BY <2>1 DEF CountedInv, FlagInv, Ending
    <2>3. \A v \in Worker : conn'[v].pc = "leaves" => conn[v].pc = "leaves"
      BY <1>1
    <2>4. FlagInv'
      <3>1. ~Starting' /\ main'.pc # "running"
        BY <1>1, <2>2 DEF Starting
      <3>2. \A v, w \in Worker : conn'[v].pc = "leaves" /\ conn'[w].pc = "leaves" => v = w
        BY <2>3 DEF CountedInv, FlagInv
      <3> QED
        BY <1>4, <2>1, <3>1, <3>2 DEF FlagInv
    <2>5. Alive' = Alive
      BY <1>2 DEF Alive
    <2>6. ASSUME NumberInv PROVE NumberInv'
      <3>1. Uncounted = 0 /\ Uncounted' = 0 /\ main.pc # "store"
        BY <1>1, <2>2 DEF Uncounted, Starting
      <3>2. Cardinality(Alive) = 0
        BY <1>1, <2>1, <2>6, <3>1, AliveType, SubsetsOfWorker DEF NumberInv
      <3>3. Alive = {}
        BY <3>2, AliveType, SubsetsOfWorker
      <3>4. ~Starting'
        BY <1>1, <2>2 DEF Starting
      <3> QED
        BY <1>1, <2>3, <2>5, <2>6, <3>1, <3>3, <3>4 DEF NumberInv
    <2> QED
      BY <1>1, <2>4, <2>6 DEF CountedInv
  <1> QED
    BY <1>3, <1>4

(* A worker leaves: it reads and writes num_threads with the mutex held. *)
LEMMA LeaveCounts ==
    ASSUME HeldInv, CountedInv, NEW w \in Worker, worker_leaves(w)
    PROVE  CountedInv'
  <1>1. /\ Shape /\ ctx.num_threads \in Int /\ conn[w].reg \in Int
        /\ hist.raced \in BOOLEAN
    BY ContextTypes DEF HeldInv, Shape
  <1>2. /\ ctx'.stop_flag = ctx.stop_flag /\ main'.pc \in {main.pc, "aborted"}
        /\ main'.reg = main.reg
        /\ master'.pc = master.pc \/ (master.pc = "joins" /\ master'.pc = "join")
        /\ \A v \in Worker : v # w => UNCHANGED <<conn[v].pc, conn[v].reg>>
        /\ \/ /\ conn[w].pc = "leave" /\ MutexFree /\ UNCHANGED <<main, ctx>>
              /\ conn'[w].pc = "leaves" /\ conn'[w].reg = ctx.num_threads
              /\ hist'.raced = (hist.raced \/ main.pc \in {"spawn", "count", "store"})
           \/ /\ conn[w].pc = "leaves" /\ conn'[w].pc = "gone" /\ hist' = hist
              /\ ctx'.num_threads = conn[w].reg - 1
    BY <1>1, LeaveFacts
  <1>3. FlagInv'
    <2>1. /\ Starting' => Starting
          /\ main'.pc = "running" => main.pc = "running"
          /\ main'.pc = "stopped" => main.pc = "stopped"
      BY <1>2 DEF Starting
    <2>2. master'.pc \in Ending => master.pc \in Ending
      BY <1>2 DEF Ending
    <2>3. \A v \in Worker : v # w => conn'[v].pc = conn[v].pc
      BY <1>2
    <2>4. \A u, v \in Worker : conn'[u].pc = "leaves" /\ conn'[v].pc = "leaves" => u = v
      BY <1>2, <2>3 DEF MutexFree, CountedInv, FlagInv
    <2>5. master.pc = "gone" => master'.pc = "gone"
      BY <1>2
    <2> QED
      BY <1>2, <2>1, <2>2, <2>4, <2>5 DEF CountedInv, FlagInv
  <1>4. ASSUME ~hist'.raced PROVE NumberInv'
    <2>1. CASE /\ conn[w].pc = "leave" /\ MutexFree /\ UNCHANGED <<main, ctx>>
               /\ conn'[w].pc = "leaves" /\ conn'[w].reg = ctx.num_threads
               /\ hist'.raced = (hist.raced \/ main.pc \in {"spawn", "count", "store"})
      <3>1. NumberInv /\ main.pc \notin {"spawn", "count", "store"}
        BY <1>4, <2>1 DEF CountedInv
      <3>2. main.pc # "init"
        BY <2>1, Caps DEF HeldInv, Fresh, Starting, Worker
      <3>3. Alive' = Alive
        BY <1>2, <2>1 DEF Alive
      <3>4. Uncounted' = Uncounted /\ ~Starting'
        BY <2>1, <3>1, <3>2 DEF Uncounted, Starting
      <3>5. \A v \in Worker : conn'[v].pc = "leaves" => conn'[v].reg = ctx'.num_threads
        BY <1>2, <2>1, <3>1 DEF NumberInv
      <3>6. main'.pc = "store" => main'.reg = ctx'.num_threads
        BY <2>1, <3>1
      <3>7. master'.pc = "gone" => Alive' = {}
        BY <1>2, <3>1, <3>3 DEF NumberInv
      <3> QED
        BY <2>1, <3>1, <3>3, <3>4, <3>5, <3>6, <3>7 DEF NumberInv
    <2>2. CASE /\ conn[w].pc = "leaves" /\ conn'[w].pc = "gone" /\ hist' = hist
               /\ ctx'.num_threads = conn[w].reg - 1
      <3>1. NumberInv
        BY <1>4, <2>2 DEF CountedInv
      <3>2. ~Starting /\ conn[w].reg = ctx.num_threads
        BY <2>2, <3>1 DEF NumberInv
      <3>3. ~Starting' /\ Uncounted = 0 /\ Uncounted' = 0 /\ main'.pc # "store"
        BY <1>2, <3>2 DEF Starting, Uncounted
      <3>4. w \in Alive /\ Alive' = Alive \ {w}
        BY <1>2, <2>2 DEF Alive
      <3>5. Cardinality(Alive') = Cardinality(Alive) - 1
        BY <3>4, AliveType, SubsetsOfWorker
      <3>6. Cardinality(Alive') = ctx'.num_threads + Uncounted'
        BY <1>1, <2>2, <3>1, <3>2, <3>3, <3>5 DEF NumberInv
      <3>7. \A v \in Worker : conn'[v].pc # "leaves"
        BY <1>2, <2>2 DEF CountedInv, FlagInv
      <3>8. master'.pc = "gone" => Alive' = {}
        BY <1>2, <3>1, <3>4 DEF NumberInv
      <3> QED
        BY <3>3, <3>6, <3>7, <3>8 DEF NumberInv
    <2> QED
      BY <1>2, <2>1, <2>2
  <1> QED
    BY <1>3, <1>4 DEF CountedInv

LEMMA CountStep == HeldInv /\ CountedInv /\ [Next]_vars => CountedInv'
  <1> SUFFICES ASSUME HeldInv, CountedInv, [Next]_vars PROVE CountedInv'
    OBVIOUS
  <1>1. Shape /\ Fresh /\ QueueInv /\ HeldOnce
    BY DEF HeldInv
  <1>2. CASE mg_start \/ start_worker \/ count_worker \/ mg_stop \/ mg_stop_ends
    BY <1>2, MainCounts
  <1>3. ASSUME NEW w \in Worker, Shape', Moves(w), Ways(w, conn'[w].pc) PROVE CountedInv'
    <2>1. /\ UNCHANGED <<ctx, main, master, hist.raced>>
          /\ \A v \in Worker : conn'[v].reg = conn[v].reg /\ (v # w => conn'[v].pc = conn[v].pc)
      BY <1>3 DEF Moves, OnlyPc
    <2>2. {conn[w].pc, conn'[w].pc} \cap {"none", "leaves", "gone"} = {}
      BY <1>3 DEF Ways, Serving
    <2> QED
      BY <1>1, <2>1, <2>2, CountStays
  <1>4. CASE Shape' /\ MasterMoves /\ MasterWays(master'.pc)
    BY <1>4, MasterCounts
  <1>5. ASSUME NEW s \in Next_client, Accepts(s) PROVE CountedInv'
    <2>1. /\ UNCHANGED <<ctx, main, conn, hist>>
          /\ master' = master \/ (master'.pc = "produce" /\ master.pc = "poll")
      BY <1>1, <1>5, AcceptFacts DEF Accepts
    <2>2. /\ master'.pc \in Ending => master.pc \in Ending
          /\ master'.pc = "gone" <=> master.pc = "gone"
      BY <2>1 DEF Ending
    <2> QED
      BY <1>1, <2>1, <2>2, CountStays
  <1>6. CASE Enqueues
    <2>1. /\ UNCHANGED <<ctx.stop_flag, ctx.num_threads, main, hist>>
          /\ master.pc = "produce" /\ master'.pc = "poll"
          /\ SameConns \/ \E w \in Asleep : OnlyPc(w, "idle")
      BY <1>1, <1>6, EnqueueFacts DEF Enqueues
    <2>2. \A v \in Worker :
             /\ conn'[v].reg = conn[v].reg
             /\ \/ conn'[v].pc = conn[v].pc
                \/ {conn[v].pc, conn'[v].pc} \cap {"none", "leaves", "gone"} = {}
      BY <2>1 DEF SameConns, OnlyPc, Asleep
    <2>3. master'.pc \notin Ending
      BY <2>1 DEF Ending
    <2> QED
      BY <1>1, <2>1, <2>2, <2>3, CountStays
  <1>7. ASSUME NEW w \in Worker, Dequeues(w) PROVE CountedInv'
    <2>1. /\ UNCHANGED <<ctx.stop_flag, ctx.num_threads, main, hist>> /\ conn[w].pc = "idle"
          /\ master'.pc = IF master.pc = "asleep" THEN "produce" ELSE master.pc
          /\ \A v \in Worker : /\ conn'[v].reg = conn[v].reg
                               /\ conn'[v].pc = IF v = w THEN "grabbed" ELSE conn[v].pc
      BY <1>1, <1>7, DequeueFacts DEF Dequeues, QueueInv
    <2>2. \A v \in Worker :
             \/ conn'[v].pc = conn[v].pc
             \/ {conn[v].pc, conn'[v].pc} \cap {"none", "leaves", "gone"} = {}
      BY <2>1
    <2>3. /\ master'.pc \in Ending => master.pc \in Ending
          /\ master'.pc = "gone" <=> master.pc = "gone"
      BY <2>1 DEF Ending
    <2> QED
      BY <1>1, <2>1, <2>2, <2>3, CountStays
  <1>8. ASSUME NEW w \in Worker, close_connection(w) PROVE CountedInv'
    <2>1. UNCHANGED <<ctx, main, master, hist.raced>> /\ conn[w].pc = "closing" /\ OnlyPc(w, "idle")
      BY <1>1, <1>8, CloseHeld, CloseFacts
    <2>2. \A v \in Worker :
             /\ conn'[v].reg = conn[v].reg
             /\ \/ conn'[v].pc = conn[v].pc
                \/ {conn[v].pc, conn'[v].pc} \cap {"none", "leaves", "gone"} = {}
      BY <2>1 DEF OnlyPc
    <2> QED
      BY <1>1, <2>1, <2>2, CountStays
  <1>9. ASSUME NEW w \in Worker, worker_leaves(w) PROVE CountedInv'
    BY <1>9, LeaveCounts
  <1>10. CASE UNCHANGED vars
    BY <1>1, <1>10, CountStays DEF vars
  <1> QED
    BY <1>1, <1>2, <1>3, <1>4, <1>5, <1>6, <1>7, <1>8, <1>9, <1>10, Steps

LEMMA CountInit == Init => CountedInv
  <1> SUFFICES ASSUME Init PROVE CountedInv
    OBVIOUS
  <1>1. /\ main.pc = "init" /\ master.pc = "none" /\ ctx.stop_flag = 0 /\ ctx.num_threads = 0
        /\ \A w \in Worker : conn[w].pc = "none"
    BY DEF Init
  <1>2. Alive = {} /\ Uncounted = 0
    BY <1>1 DEF Alive, Uncounted
  <1>3. Cardinality(Alive) = 0
    BY <1>2, FS_EmptySet
  <1> QED
    BY <1>1, <1>2, <1>3 DEF CountedInv, FlagInv, NumberInv, Ending

(* num_threads counts the workers that run, unless one left while mg_start  *)
(* was counting; the master is gone only when there is none.                *)
THEOREM CountInvHolds == Spec => []CountInv
  <1>1. HeldInv /\ CountedInv => CountInv
    BY CountedMeaning DEF HeldInv
  <1> QED
    BY <1>1, CountInit, CountStep, HeldInvariance, PTL DEF Spec

(* mg_stop frees the context when no thread of the server is left, for any  *)
(* number of workers, unless one left while mg_start was counting.          *)
THEOREM ContextAliveHolds == Spec => []ContextAlive
  <1>1. CountInv => ContextAlive
    BY DEF CountInv, ContextAlive, Alive
  <1> QED
    BY <1>1, CountInvHolds, PTL
================================================================================
