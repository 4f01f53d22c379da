------------------------------ MODULE Mongoose ------------------------------
(***************************************************************************)
(* The bundled web server (client-ld-preload/Mongoose_Aget/mongoose): the   *)
(* main thread that starts and stops it, the master thread that accepts,    *)
(* the queue of accepted sockets, the pool of worker threads, and the       *)
(* reading and framing of the requests of a connection.                     *)
(*                                                                          *)
(* A critical section is one step, except where a thread tests stop_flag    *)
(* (written without the mutex) and then waits: there the test and the wait  *)
(* are two steps with the mutex held in between.                            *)
(*                                                                          *)
(* A byte stream is a sequence of units <<i, k>>: the k-th unit of the      *)
(* client's i-th request, the first `head' of which are its request line    *)
(* and headers and the others its body.                                     *)
(***************************************************************************)
EXTENDS Integers, Sequences, FiniteSets, SequencesExt

CONSTANTS
    NUM_THREADS,  \* option num_threads
    QUEUE,        \* ARRAY_SIZE(ctx->queue)
    BUF_SIZE,     \* MAX_REQUEST_SIZE, in units
    Request,      \* Request[s]: what the client of socket s sends, in order
    Denied,       \* sockets whose address check_acl refuses
    Secure,       \* sockets of an SSL listener
    MaxFaults     \* bound on failing library calls

Socket == DOMAIN Request
Worker == 1 .. NUM_THREADS
NoSocket == 0
NoLength == -1      \* no Content-Length header

ASSUME MongooseAssumption ==
    /\ NUM_THREADS \in Nat \ {0} /\ QUEUE \in Nat \ {0} /\ BUF_SIZE \in Nat \ {0}
    /\ Request \in Seq(Seq([kind : {"ok", "bad", "version", "garbled"},
                            method : {"GET", "POST", "PUT"}, auth : BOOLEAN,
                            cgi : BOOLEAN, alive : BOOLEAN,
                            head : Nat \ {0}, length : Nat \cup {NoLength}]))
    /\ Denied \subseteq Socket /\ Secure \subseteq Socket /\ MaxFaults \in Nat

Body(r) == IF r.length = NoLength THEN 0 ELSE r.length

\* The bytes that the client of each socket sends.
Stream ==
    [s \in Socket |->
        FlattenSeq([i \in DOMAIN Request[s] |->
            [k \in 1 .. Request[s][i].head + Body(Request[s][i]) |-> <<i, k>>]])]

VARIABLES
    ctx,      \* struct mg_context
    main,     \* the thread that calls mg_start and mg_stop
    master,   \* master_thread: its place and the accepted socket it holds
    conn,     \* conn[w]: worker_thread w and its struct mg_connection
    sock,     \* sock[s]: state of the descriptor
    pos,      \* pos[s]: units of Stream[s] that recv has returned (0 once closed)
    faults,   \* failing library calls so far
    hist      \* history: requests answered, and what the properties exclude

vars == <<ctx, main, master, conn, sock, pos, faults, hist>>

Init ==
    /\ ctx = [live |-> FALSE, listening |-> FALSE, stop_flag |-> 0,
              num_threads |-> 0, sq_head |-> 0, sq_tail |-> 0,
              queue |-> [i \in 0 .. QUEUE - 1 |-> NoSocket]]
    /\ main = [pc |-> "init", i |-> 0, reg |-> 0]
    /\ master = [pc |-> "none", sp |-> NoSocket]
    /\ conn = [w \in Worker |-> [pc |-> "none", client |-> NoSocket, buf |-> << >>,
                                 content_len |-> 0, consumed |-> 0, reg |-> 0]]
    /\ sock = [s \in Socket |-> "backlog"]
    /\ pos = [s \in Socket |-> 0]
    /\ faults = 0
    /\ hist = [answered |-> [s \in Socket |-> << >>], skipped |-> {},
               raced |-> FALSE, late |-> FALSE]

Fault == faults < MaxFaults /\ faults' = faults + 1

-----------------------------------------------------------------------------
(* The mutex and the condition variables.                                    *)

\* Nobody is inside a critical section that takes more than one step.
MutexFree == master.pc # "waits" /\ \A w \in Worker : conn[w].pc \notin {"waits", "leaves"}

Asleep == {w \in Worker : conn[w].pc = "asleep"}    \* waiting on sq_full

\* c after pthread_cond_signal(&ctx->sq_full), which wakes one waiter if there is one.
signal_sq_full(c) ==
    LET waiting == {w \in Worker : c[w].pc = "asleep"} IN
    IF waiting = {} THEN {c} ELSE {[c EXCEPT ![w].pc = "idle"] : w \in waiting}

\* c after pthread_cond_broadcast(&ctx->sq_full).
broadcast_sq_full_One(c) ==
    LET waiting == {w \in Worker : c[w].pc = "asleep"} IN
    IF waiting = {} THEN c ELSE [c EXCEPT ![CHOOSE w \in waiting : TRUE].pc = "idle"]
broadcast_sq_full(c) ==
    [w \in Worker |-> IF c[w].pc = "asleep" THEN [c[w] EXCEPT !.pc = "idle"] ELSE c[w]]

\* The master waits on sq_empty (in produce_socket) or on cond, never on both.
signal_sq_empty == master' = [master EXCEPT !.pc = IF @ = "asleep" THEN "produce" ELSE @]
signal_cond == master' = [master EXCEPT !.pc = IF @ = "joins" THEN "join" ELSE @]

\* POSIX lets pthread_cond_wait return without a signal.
Spurious ==
    /\ \/ /\ master.pc \in {"asleep", "joins"}
          /\ master' = [master EXCEPT !.pc = IF @ = "asleep" THEN "produce" ELSE "join"]
          /\ UNCHANGED conn
       \/ /\ \E w \in Asleep : conn' = [conn EXCEPT ![w].pc = "idle"]
          /\ UNCHANGED master
    /\ Fault
    /\ UNCHANGED <<ctx, main, sock, pos, hist>>

-----------------------------------------------------------------------------
(* mg_start and mg_stop, called by the main thread.                          *)

free_context(c) == [c EXCEPT !.live = FALSE]
close_all_listening_sockets(c) == [c EXCEPT !.listening = FALSE]

\* set_ports_option opens the listening sockets; when it fails it closes them.
set_ports_option(c, success) ==
    IF success THEN [c EXCEPT !.listening = TRUE] ELSE close_all_listening_sockets(c)

\* mg_start up to the workers: the options, each of which may be wrong (set_gpass_option
\* and set_ssl_option before the ports, set_uid_option and set_acl_option after them), and
\* the master thread; that it could not be created is not noticed.
mg_start ==
    /\ main.pc = "init"
    /\ \/ /\ ctx' = set_ports_option([ctx EXCEPT !.live = TRUE], TRUE)
          /\ main' = [main EXCEPT !.pc = "spawn"]
          /\ \/ master' = [master EXCEPT !.pc = "poll"] /\ UNCHANGED faults
             \/ Fault /\ UNCHANGED master
       \/ /\ Fault
          /\ \E ports \in BOOLEAN : ctx' = free_context(set_ports_option(ctx, ports))
          /\ main' = [main EXCEPT !.pc = "failed"]
          /\ UNCHANGED master
    /\ UNCHANGED <<conn, sock, pos, hist>>

start_worker_CountsAll ==
    /\ main.pc = "spawn"
    /\ IF main.i = NUM_THREADS
       THEN main' = [main EXCEPT !.pc = "running"] /\ UNCHANGED <<conn, faults>>
       ELSE /\ main' = [main EXCEPT !.pc = "count", !.i = @ + 1]
            /\ \/ conn' = [conn EXCEPT ![main.i + 1].pc = "begin"] /\ UNCHANGED faults
               \/ Fault /\ UNCHANGED conn
    /\ UNCHANGED <<ctx, master, sock, pos, hist>>

\* The loop of mg_start that starts the workers; pthread_create may fail.
start_worker ==
    /\ main.pc = "spawn"
    /\ IF main.i = NUM_THREADS
       THEN main' = [main EXCEPT !.pc = "running"] /\ UNCHANGED <<conn, faults>>
       ELSE \/ /\ main' = [main EXCEPT !.pc = "count", !.i = @ + 1]
               /\ conn' = [conn EXCEPT ![main.i + 1].pc = "begin"]
               /\ UNCHANGED faults
            \/ /\ Fault
               /\ main' = [main EXCEPT !.i = @ + 1]
               /\ UNCHANGED conn
    /\ UNCHANGED <<ctx, master, sock, pos, hist>>

\* ctx->num_threads++ without the mutex: a read and a write.
count_worker ==
    /\ \/ /\ main.pc = "count"
          /\ main' = [main EXCEPT !.pc = "store", !.reg = ctx.num_threads]
          /\ UNCHANGED ctx
       \/ /\ main.pc = "store"
          /\ ctx' = [ctx EXCEPT !.num_threads = main.reg + 1]
          /\ main' = [main EXCEPT !.pc = "spawn", !.reg = 0]
    /\ UNCHANGED <<master, conn, sock, pos, faults, hist>>

\* mg_stop: stop_flag is set without the mutex ...
mg_stop ==
    /\ main.pc = "running"
    /\ ctx' = [ctx EXCEPT !.stop_flag = 1]
    /\ main' = [main EXCEPT !.pc = "stopping"]
    /\ UNCHANGED <<master, conn, sock, pos, faults, hist>>

\* ... and the context is released once the master thread has set it to 2.
mg_stop_ends ==
    /\ main.pc = "stopping" /\ ctx.stop_flag = 2
    /\ ctx' = free_context(ctx)
    /\ main' = [main EXCEPT !.pc = "stopped"]
    /\ UNCHANGED <<master, conn, sock, pos, faults, hist>>

-----------------------------------------------------------------------------
(* The master thread.                                                        *)

\* The next client in the backlog of the listening sockets.
Next_client == {s \in Socket : /\ sock[s] = "backlog"
                               /\ \A t \in Socket : t < s => sock[t] # "backlog"}

\* Whether the access control list allows the client's address.
check_acl(s) == s \notin Denied

\* accept may fail: the client has gone.
accept_new_connection(s) ==
    \/ /\ check_acl(s)
       /\ sock' = [sock EXCEPT ![s] = "open"]
       /\ master' = [pc |-> "produce", sp |-> s]
       /\ UNCHANGED faults
    \/ /\ ~check_acl(s)
       /\ sock' = [sock EXCEPT ![s] = "closed"]
       /\ UNCHANGED <<master, faults>>
    \/ /\ Fault
       /\ sock' = [sock EXCEPT ![s] = "closed"]
       /\ UNCHANGED master

\* The loop of master_thread: poll returns within 200 ms, then stop_flag is tested.
master_loop ==
    /\ master.pc = "poll"
    /\ \/ /\ ctx.stop_flag = 0
          /\ \E s \in Next_client : accept_new_connection(s)
       \/ /\ ctx.stop_flag # 0
          /\ master' = [master EXCEPT !.pc = "closing"]
          /\ UNCHANGED <<sock, faults>>
    /\ UNCHANGED <<ctx, main, conn, pos, hist>>

Full == ctx.sq_head - ctx.sq_tail >= QUEUE

\* The copy into the queue at the end of produce_socket.
enqueue_SignalsIfEmpty(sp) ==
    /\ IF Full THEN UNCHANGED ctx
       ELSE ctx' = [ctx EXCEPT !.queue[ctx.sq_head % QUEUE] = sp, !.sq_head = @ + 1]
    /\ IF ctx.sq_head = ctx.sq_tail THEN conn' \in signal_sq_full(conn) ELSE UNCHANGED conn
enqueue(sp) ==
    /\ IF Full THEN UNCHANGED ctx
       ELSE ctx' = [ctx EXCEPT !.queue[ctx.sq_head % QUEUE] = sp, !.sq_head = @ + 1]
    /\ conn' \in signal_sq_full(conn)

produce_socket ==
    /\ master.pc = "produce" /\ MutexFree
    /\ IF ctx.stop_flag = 0 /\ Full
       THEN master' = [master EXCEPT !.pc = "waits"] /\ UNCHANGED <<ctx, conn>>
       ELSE enqueue(master.sp) /\ master' = [pc |-> "poll", sp |-> NoSocket]
    /\ UNCHANGED <<main, sock, pos, faults, hist>>

\* pthread_cond_wait(&ctx->sq_empty, &ctx->mutex).
produce_waits ==
    /\ master.pc = "waits"
    /\ master' = [master EXCEPT !.pc = "asleep"]
    /\ UNCHANGED <<ctx, main, conn, sock, pos, faults, hist>>

\* The end of master_thread: the listening sockets are closed ...
stop_listening ==
    /\ master.pc = "closing"
    /\ ctx' = close_all_listening_sockets(ctx)
    /\ master' = [master EXCEPT !.pc = "wake"]
    /\ UNCHANGED <<main, conn, sock, pos, faults, hist>>

\* ... the idle workers are woken, without the mutex ...
wake_workers ==
    /\ master.pc = "wake"
    /\ conn' = broadcast_sq_full(conn)
    /\ master' = [master EXCEPT !.pc = "join"]
    /\ UNCHANGED <<ctx, main, sock, pos, faults, hist>>

\* ... and when num_threads is 0 the mutex and the conditions are destroyed.
join_workers_Once ==
    /\ master.pc = "join" /\ MutexFree
    /\ IF ctx.num_threads > 0 /\ \A w \in Worker : conn[w].pc # "gone"
       THEN master' = [master EXCEPT !.pc = "joins"] /\ UNCHANGED ctx
       ELSE /\ ctx' = [ctx EXCEPT !.stop_flag = 2]
            /\ master' = [master EXCEPT !.pc = "gone"]
    /\ UNCHANGED <<main, conn, sock, pos, faults, hist>>
join_workers ==
    /\ master.pc = "join" /\ MutexFree
    /\ IF ctx.num_threads > 0
       THEN master' = [master EXCEPT !.pc = "joins"] /\ UNCHANGED ctx
       ELSE /\ ctx' = [ctx EXCEPT !.stop_flag = 2]
            /\ master' = [master EXCEPT !.pc = "gone"]
    /\ UNCHANGED <<main, conn, sock, pos, faults, hist>>

-----------------------------------------------------------------------------
(* The worker threads: taking a socket and leaving.                          *)

\* The head of the queue and the indices after it is taken; `while' of the wrap included.
dequeue_WrapsTail(w) ==
    IF ctx.sq_head > ctx.sq_tail
    THEN LET wrap == QUEUE * (ctx.sq_tail \div QUEUE) IN
         /\ conn' = [conn EXCEPT ![w].client = ctx.queue[ctx.sq_tail % QUEUE], ![w].pc = "grabbed"]
         /\ ctx' = [ctx EXCEPT !.sq_tail = @ + 1 - wrap]
    ELSE conn' = [conn EXCEPT ![w].pc = "grabbed"] /\ UNCHANGED ctx
dequeue_NoWrap(w) ==
    IF ctx.sq_head > ctx.sq_tail
    THEN /\ conn' = [conn EXCEPT ![w].client = ctx.queue[ctx.sq_tail % QUEUE], ![w].pc = "grabbed"]
         /\ ctx' = [ctx EXCEPT !.sq_tail = @ + 1]
    ELSE conn' = [conn EXCEPT ![w].pc = "grabbed"] /\ UNCHANGED ctx
dequeue(w) ==
    IF ctx.sq_head > ctx.sq_tail
    THEN LET wrap == QUEUE * (ctx.sq_tail \div QUEUE) IN
         /\ conn' = [conn EXCEPT ![w].client = ctx.queue[ctx.sq_tail % QUEUE], ![w].pc = "grabbed"]
         /\ ctx' = [ctx EXCEPT !.sq_tail = @ + 1 - wrap, !.sq_head = @ - wrap]
    ELSE conn' = [conn EXCEPT ![w].pc = "grabbed"] /\ UNCHANGED ctx

consume_socket(w) ==
    /\ conn[w].pc = "idle" /\ MutexFree
    /\ IF ctx.sq_head = ctx.sq_tail /\ ctx.stop_flag = 0
       THEN conn' = [conn EXCEPT ![w].pc = "waits"] /\ UNCHANGED <<ctx, master>>
       ELSE dequeue(w) /\ signal_sq_empty
    /\ UNCHANGED <<main, sock, pos, faults, hist>>

\* pthread_cond_wait(&ctx->sq_full, &ctx->mutex); late: after the master's broadcast.
consume_waits(w) ==
    /\ conn[w].pc = "waits"
    /\ conn' = [conn EXCEPT ![w].pc = "asleep"]
    /\ hist' = [hist EXCEPT !.late = @ \/ master.pc \in {"join", "joins"}]
    /\ UNCHANGED <<ctx, main, master, sock, pos, faults>>

reset_per_request_attributes(c) == [c EXCEPT !.consumed = 0]

\* worker_thread: its connection structure is allocated, or it leaves at once.
worker_begins(w) ==
    /\ conn[w].pc = "begin"
    /\ \/ conn' = [conn EXCEPT ![w].pc = "idle"] /\ UNCHANGED faults
       \/ conn' = [conn EXCEPT ![w].pc = "leave"] /\ Fault
    /\ UNCHANGED <<ctx, main, master, sock, pos, hist>>

\* process_new_connection begins with an empty buffer.
begins_connection(c) ==
    reset_per_request_attributes([c EXCEPT !.pc = "read", !.buf = << >>])

\* The loop of worker_thread: consume_socket has unlocked the mutex and returns
\* !stop_flag; a secure connection begins with a handshake.
worker_loop(w) ==
    /\ conn[w].pc = "grabbed"
    /\ conn' = [conn EXCEPT ![w] =
                   CASE ctx.stop_flag # 0 -> [@ EXCEPT !.pc = "leave"]
                     [] ctx.stop_flag = 0 /\ @.client \in Secure -> [@ EXCEPT !.pc = "handshake"]
                     [] OTHER -> begins_connection(@)]
    /\ UNCHANGED <<ctx, main, master, sock, pos, faults, hist>>

\* SSL_accept waits for the client, whatever stop_flag says; a connection whose
\* handshake fails is closed unread.
sslize(w) ==
    /\ conn[w].pc = "handshake"
    /\ \/ conn' = [conn EXCEPT ![w] = begins_connection(@)] /\ UNCHANGED faults
       \/ conn' = [conn EXCEPT ![w].pc = "closing"] /\ Fault
    /\ UNCHANGED <<ctx, main, master, sock, pos, hist>>

\* What is left of the connection (buf, pos, the history of s) is not used again.
close_connection(w) ==
    /\ conn[w].pc = "closing"
    /\ LET s == conn[w].client IN
       /\ sock' = [sock EXCEPT ![s] = "closed"]
       /\ pos' = [pos EXCEPT ![s] = 0]
       /\ hist' = [hist EXCEPT !.answered[s] = << >>, !.skipped = @ \ {s}]
    /\ conn' = [conn EXCEPT ![w].pc = "idle", ![w].buf = << >>]
    /\ UNCHANGED <<ctx, main, master, faults>>

\* The end of worker_thread: num_threads-- is a read and a write with the mutex held,
\* but mg_start increments it without; a negative count fails the assertion.
worker_leaves(w) ==
    /\ \/ /\ conn[w].pc = "leave" /\ MutexFree
          /\ conn' = [conn EXCEPT ![w].pc = "leaves", ![w].reg = ctx.num_threads]
          /\ hist' = [hist EXCEPT !.raced = @ \/ main.pc \in {"spawn", "count", "store"}]
          /\ UNCHANGED <<ctx, main, master>>
       \/ /\ conn[w].pc = "leaves"
          /\ ctx' = [ctx EXCEPT !.num_threads = conn[w].reg - 1]
          /\ conn' = [conn EXCEPT ![w].pc = "gone", ![w].reg = 0]
          /\ IF conn[w].reg - 1 >= 0 THEN signal_cond /\ UNCHANGED main
             ELSE main' = [main EXCEPT !.pc = "aborted"] /\ UNCHANGED master
          /\ UNCHANGED hist
    /\ UNCHANGED <<sock, pos, faults>>

-----------------------------------------------------------------------------
(* The requests of a connection.                                             *)

InHead(s, u) == u[2] <= Request[s][u[1]].head

\* Length of the request at the front of buf, 0 when its end has not arrived, -1
\* when a byte before the end is not printable.
get_request_len(s, buf) ==
    LET ends == {n \in DOMAIN buf : buf[n][2] = Request[s][buf[n][1]].head}
        odd  == {n \in DOMAIN buf : InHead(s, buf[n]) /\ Request[s][buf[n][1]].kind = "garbled"}
    IN  IF odd # {} /\ (ends = {} \/ Min(odd) <= Min(ends)) THEN -1
        ELSE IF ends = {} THEN 0 ELSE Min(ends)

\* The request that parse_http_request finds at the front of buf, 0 when what is
\* there is not the beginning of one.
parse_http_request(buf) == IF buf[1][2] = 1 THEN buf[1][1] ELSE 0

Left(s) == Len(Stream[s]) - pos[s]

\* recv returns 1 to len units of what the client has sent.
pull(s, len, n) ==
    /\ ctx.stop_flag = 0
    /\ n \in 1 .. Min({len, Left(s)})
    /\ pos' = [pos EXCEPT ![s] = @ + n]

\* recv returns 0: the client has closed its end and what it has not sent never comes.
client_closes(s) == ctx.stop_flag = 0 /\ pos' = [pos EXCEPT ![s] = Len(Stream[s])]

\* read_request: more of the request arrives, or the client closes.
read_request(w) ==
    /\ conn[w].pc = "read"
    /\ LET s == conn[w].client buf == conn[w].buf IN
       /\ get_request_len(s, buf) = 0 /\ Len(buf) < BUF_SIZE
       /\ \/ \E n \in 1 .. BUF_SIZE :
                /\ pull(s, BUF_SIZE - Len(buf), n)
                /\ conn' = [conn EXCEPT ![w].buf = @ \o SubSeq(Stream[s], pos[s] + 1, pos[s] + n)]
          \/ /\ client_closes(s)
             /\ conn' = [conn EXCEPT ![w].pc = "closing"]
    /\ UNCHANGED <<ctx, main, master, sock, faults, hist>>

\* pull returns -1: the server is stopping, which poll notices within 200 ms (SSL_read,
\* within a record, only when the client goes on), or recv has failed.
Reading(w) ==
    conn[w].pc = "read" /\ get_request_len(conn[w].client, conn[w].buf) = 0
                        /\ Len(conn[w].buf) < BUF_SIZE
read_stops(w) ==
    /\ Reading(w) /\ ctx.stop_flag # 0
    /\ conn' = [conn EXCEPT ![w].pc = "closing"]
    /\ UNCHANGED <<ctx, main, master, sock, pos, faults, hist>>
read_fails(w) ==
    /\ Reading(w) /\ Fault
    /\ conn' = [conn EXCEPT ![w].pc = "closing"]
    /\ UNCHANGED <<ctx, main, master, sock, pos, hist>>

\* The two handlers that pass the body on with forward_body_data.
put_file(r) == r.method = "PUT"
handle_cgi_request(r) == r.cgi /\ r.method = "POST"

\* What handle_request does with a valid request: ask for authorization, pass the body
\* on, or answer without reading the body.
handle_request(r) ==
    CASE ~r.auth -> "401"
      [] r.auth /\ (put_file(r) \/ handle_cgi_request(r)) -> "body"
      [] OTHER -> "plain"

\* The client's version and Connection header allow it, and the reply was not 401;
\* must_close is taken care of where it is set.
should_keep_alive(r) == r.alive /\ handle_request(r) # "401"

\* forward_body_data begins with the part of the body that is in the buffer.
forward_body_data(c, len) ==
    [c EXCEPT !.pc = "body", !.consumed = Min({Len(c.buf) - len, c.content_len})]

Content_Length(r) ==
    IF r.length # NoLength THEN r.length
    ELSE IF r.method \in {"POST", "PUT"} THEN -1 ELSE 0

\* The end of the loop of process_new_connection: the bytes of this request are
\* discarded, and the loop goes on with the next.
next_request_HeadOnly(c, len, keep_alive) ==
    LET discard == IF c.content_len >= 0 /\ len < Len(c.buf) THEN len ELSE Len(c.buf)
    IN  reset_per_request_attributes(
            [c EXCEPT !.buf = SubSeq(@, discard + 1, Len(@)),
                      !.pc = IF ctx.stop_flag = 0 /\ c.content_len >= 0 /\ keep_alive
                             THEN "read" ELSE "closing"])
next_request(c, len, keep_alive) ==
    LET discard == IF c.content_len >= 0 /\ len + c.content_len < Len(c.buf)
                   THEN len + c.content_len ELSE Len(c.buf)
    IN  reset_per_request_attributes(
            [c EXCEPT !.buf = SubSeq(@, discard + 1, Len(@)),
                      !.pc = IF ctx.stop_flag = 0 /\ c.content_len >= 0 /\ keep_alive
                             THEN "read" ELSE "closing"])

\* History: the request ends with a part of its body neither read nor buffered, or
\* with a content_len that is not its own (the reply 505 leaves the previous one).
Skips(c, r, len) ==
    c.content_len # Body(r) \/ (c.consumed < Body(r) /\ len + Body(r) > Len(c.buf))

\* conn[w] and the history when the request r at the front of c.buf ends.
Ends(w, s, c, r, len, keep_alive, answered) ==
    /\ conn' = [conn EXCEPT ![w] = next_request(c, len, keep_alive)]
    /\ hist' = [hist EXCEPT !.answered[s] = answered,
                            !.skipped = @ \cup (IF Skips(c, r, len) THEN {s} ELSE {})]

\* process_new_connection, once read_request has returned: the reply, if the request has
\* no body to pass on, is written to the client, which may have to read before it is sent.
process_new_connection(w) ==
    LET c == conn[w]
        s == c.client
        len == get_request_len(s, c.buf)
        i == parse_http_request(c.buf)
        r == Request[s][i]
        answered == Append(hist.answered[s], i)
        own == [c EXCEPT !.content_len = Content_Length(r)]
    IN  /\ c.pc = "read" /\ (len # 0 \/ Len(c.buf) = BUF_SIZE)
        /\ \/ /\ len <= 0                                          \* 413, or malformed
              /\ conn' = [conn EXCEPT ![w].pc = "closing"]
              /\ UNCHANGED hist
           \/ /\ len > 0
              /\ IF i = 0 \/ Request[s][i].kind = "bad"             \* 400
                 THEN /\ conn' = [conn EXCEPT ![w] = next_request(c, len, FALSE)]
                      /\ hist' = [hist EXCEPT !.answered[s] = answered]
                 ELSE \/ /\ r.kind = "version"                      \* 505
                         /\ Ends(w, s, c, r, len, r.alive, answered)
                      \/ /\ r.kind = "ok"
                         /\ IF handle_request(r) = "body" /\ own.content_len # -1
                            THEN /\ conn' = [conn EXCEPT ![w] = forward_body_data(own, len)]
                                 /\ hist' = [hist EXCEPT !.answered[s] = answered]
                            ELSE Ends(w, s, own, r, len, should_keep_alive(r), answered)
        /\ UNCHANGED <<ctx, main, master, sock, pos, faults>>

\* The body is left where it is, which is where forward_body_data would begin: the file
\* or the program cannot be opened (500), is a directory, or Expect is refused (417).
open_fails(w) ==
    LET c == conn[w] s == c.client r == Request[s][parse_http_request(c.buf)] IN
    /\ c.pc = "body" /\ c.consumed = Min({Len(c.buf) - get_request_len(s, c.buf), c.content_len})
    /\ Ends(w, s, [c EXCEPT !.consumed = 0], r, get_request_len(s, c.buf), r.alive,
            hist.answered[s])
    /\ Fault
    /\ UNCHANGED <<ctx, main, master, sock, pos>>

\* forward_body_data returns; a short body has been answered with an error.
body_ends(w, c) ==
    LET s == c.client r == Request[s][parse_http_request(c.buf)] IN
    Ends(w, s, c, r, get_request_len(s, c.buf), r.alive, hist.answered[s])

\* More of the body arrives, or the client closes.
body_arrives(w) ==
    LET c == conn[w] IN
    /\ c.pc = "body" /\ c.consumed < c.content_len
    /\ \/ \E n \in 1 .. c.content_len :
             /\ pull(c.client, c.content_len - c.consumed, n)
             /\ conn' = [conn EXCEPT ![w].consumed = @ + n]
             /\ UNCHANGED hist
       \/ client_closes(c.client) /\ body_ends(w, c)
    /\ UNCHANGED <<ctx, main, master, sock, faults>>

\* The whole body has been passed on, or the server is stopping: the reply is written, and
\* for a program what it writes is read before.
body_done(w) ==
    LET c == conn[w] IN
    /\ c.pc = "body" /\ (c.consumed = c.content_len \/ ctx.stop_flag # 0)
    /\ body_ends(w, c)
    /\ UNCHANGED <<ctx, main, master, sock, pos, faults>>

\* recv fails, or what has been received cannot be written: 577.
body_fails(w) ==
    LET c == conn[w] IN
    /\ c.pc = "body" /\ c.consumed < c.content_len
    /\ \E n \in 0 .. Min({c.content_len - c.consumed, Left(c.client)}) :
          pos' = [pos EXCEPT ![c.client] = @ + n]
    /\ body_ends(w, c)
    /\ Fault
    /\ UNCHANGED <<ctx, main, master, sock>>

-----------------------------------------------------------------------------
Running == main.pc # "aborted"

\* The steps a thread takes by itself, whatever the clients and the programs do.
start_mongoose == mg_start \/ start_worker \/ count_worker
MainRuns == start_mongoose \/ mg_stop_ends
MasterRuns == produce_socket \/ produce_waits \/ stop_listening \/ wake_workers \/ join_workers
WorkerRuns(w) ==
    \/ worker_begins(w) \/ consume_socket(w) \/ consume_waits(w) \/ worker_loop(w)
    \/ close_connection(w) \/ worker_leaves(w)
    \/ conn[w].client \notin Secure /\ read_stops(w)

\* The steps that wait for a client to send or to read, for a program, for a signal to
\* the process or a failure.
Environment ==
    \/ mg_stop \/ Spurious
    \/ \E w \in Worker :
         \/ sslize(w) \/ read_request(w) \/ read_stops(w) \/ read_fails(w)
         \/ process_new_connection(w)
         \/ body_arrives(w) \/ body_done(w) \/ body_fails(w) \/ open_fails(w)

Next == Running /\ (\/ MainRuns \/ MasterRuns \/ master_loop \/ Environment
                    \/ \E w \in Worker : WorkerRuns(w))

Spec == Init /\ [][Next]_vars

\* The threads are scheduled fairly; nothing is assumed of the clients and programs.
Fairness ==
    /\ WF_vars(Running /\ MainRuns)
    /\ WF_vars(Running /\ (MasterRuns \/ master_loop))
    /\ \A w \in Worker : WF_vars(Running /\ WorkerRuns(w))

FairSpec == Spec /\ Fairness

-----------------------------------------------------------------------------
(* Properties.                                                               *)

Pcs == {"none", "begin", "idle", "waits", "asleep", "grabbed", "handshake", "read", "body",
        "closing", "leave", "leaves", "gone"}

mg_context ==
    [live : BOOLEAN, listening : BOOLEAN, stop_flag : 0 .. 2, num_threads : Int,
     sq_head : Nat, sq_tail : Nat, queue : [0 .. QUEUE - 1 -> Socket \cup {NoSocket}]]
MainThread ==
    [pc : {"init", "failed", "spawn", "count", "store", "running", "stopping", "stopped",
           "aborted"}, i : 0 .. NUM_THREADS, reg : Int]
MasterThread ==
    [pc : {"none", "poll", "produce", "waits", "asleep", "closing", "wake", "join", "joins",
           "gone"}, sp : Socket \cup {NoSocket}]

\* Type invariant; the indices of the queue stay within one turn of it, and the
\* buffer of a connection within its size.
TypeOK ==
    /\ ctx \in mg_context /\ main \in MainThread /\ master \in MasterThread
    /\ ctx.num_threads \in -1 .. NUM_THREADS /\ main.reg \in -1 .. NUM_THREADS
    /\ ctx.sq_head <= 2 * QUEUE /\ ctx.sq_tail <= QUEUE
    /\ \A w \in Worker :
          /\ conn[w].pc \in Pcs /\ conn[w].client \in Socket \cup {NoSocket}
          /\ Len(conn[w].buf) <= BUF_SIZE
          /\ conn[w].content_len >= -1 /\ conn[w].consumed >= 0
    /\ sock \in [Socket -> {"backlog", "open", "closed"}]
    /\ \A s \in Socket : pos[s] \in 0 .. Len(Stream[s])
    /\ faults \in 0 .. MaxFaults

\* The threads and queue slots that hold socket s.
Holds(w, s) ==
    /\ conn[w].client = s
    /\ \/ conn[w].pc \in {"handshake", "read", "body", "closing"}
       \/ conn[w].pc = "grabbed" /\ (ctx.stop_flag = 0 \/ sock[s] = "open")
Holders(s) ==
    {<<"worker", w>> : w \in {w \in Worker : Holds(w, s)}}
    \cup {<<"queue", k>> : k \in {k \in ctx.sq_tail .. ctx.sq_head - 1 : ctx.queue[k % QUEUE] = s}}
    \cup (IF master.sp = s THEN {<<"master", 0>>} ELSE {})

\* An accepted socket is held by exactly one thread or queue slot until it is closed,
\* and a closed one by none: no connection is served twice, closed twice or, before the
\* server is stopped, forgotten (produce_socket, consume_socket and the wrap of the indices).
HeldOnce ==
    \A s \in Socket :
       IF sock[s] = "open"
       THEN (\A x, y \in Holders(s) : x = y) /\ (ctx.stop_flag = 0 => Holders(s) # {})
       ELSE Holders(s) = {}

\* No wake-up is lost while the server runs: when a worker sleeps there is an awake
\* worker on its way to consume_socket for every queued socket, and the master sleeps
\* in produce_socket only while the queue is full.
WorkersRoused ==
    ctx.stop_flag = 0 =>
       /\ Asleep # {} =>
             Cardinality({w \in Worker : conn[w].pc = "idle"}) >= ctx.sq_head - ctx.sq_tail
       /\ master.pc = "asleep" => Full

\* What the proofs of the two rest on.  Between the indices the queue holds accepted
\* sockets; the master has one in its hands while it is in produce_socket; a worker
\* that serves has one, and a worker between two connections has closed its last.
Unoccupied == {"none", "begin", "idle", "waits", "asleep"}
Serving == {"handshake", "read", "body", "closing"}
QueueInv ==
    /\ ctx.sq_tail <= ctx.sq_head /\ ctx.sq_head - ctx.sq_tail <= QUEUE /\ ctx.sq_tail <= QUEUE
    /\ \A k \in ctx.sq_tail .. ctx.sq_head - 1 : ctx.queue[k % QUEUE] \in Socket
    /\ master.pc \in {"produce", "waits", "asleep"} <=> master.sp \in Socket
    /\ main.pc = "init" => master.pc = "none"
    /\ \A w \in Worker :
          /\ conn[w].pc \in Serving \/ (conn[w].pc = "grabbed" /\ ctx.stop_flag = 0)
                => conn[w].client \in Socket
          /\ conn[w].pc \in Unoccupied /\ conn[w].client \in Socket
                => sock[conn[w].client] = "closed"

\* What a thread has seen before it waits is still so when it does, because it has the
\* mutex: the queue is empty for a worker and full for the master.
WaitInv ==
    /\ \A w \in Worker : conn[w].pc = "waits" => ctx.sq_head = ctx.sq_tail
    /\ master.pc = "waits" => Full

\* The requests of a connection are answered in the order in which they were sent, each
\* one once and from its first byte, as long as no request has ended with a part of its
\* body still unread (the discarding of buffered data in process_new_connection).
AnsweredInOrder ==
    \A s \in Socket \ hist.skipped :
       \A k \in DOMAIN hist.answered[s] : hist.answered[s][k] = k

\* num_threads counts the workers that run, but for one that mg_start has started and not
\* yet counted, unless a worker left meanwhile; the master ends only when there is none.
Alive == {w \in Worker : conn[w].pc \notin {"none", "gone"}}
Starting == main.pc \in {"init", "spawn", "count", "store"}
CountInv ==
    /\ Starting => \A w \in Worker : w > main.i => conn[w].pc = "none"
    /\ Starting \/ main.pc = "running" => ctx.stop_flag = 0
    /\ master.pc \in {"closing", "wake", "join", "joins", "gone"} => ctx.stop_flag # 0
    /\ ctx.stop_flag = 2 \/ main.pc = "stopped" => master.pc = "gone"
    /\ \A v, w \in Worker : conn[v].pc = "leaves" /\ conn[w].pc = "leaves" => v = w
    /\ ~hist.raced =>
          /\ Starting => \A w \in Worker : conn[w].pc \notin {"leaves", "gone"}
          /\ main.pc = "store" => main.reg = ctx.num_threads
          /\ \A w \in Worker : conn[w].pc = "leaves" => conn[w].reg = ctx.num_threads
          /\ Cardinality(Alive) =
                ctx.num_threads + (IF main.pc \in {"count", "store"} THEN 1 ELSE 0)
          /\ master.pc = "gone" => Alive = {}

\* When mg_stop frees the context no thread of the server can touch it any more, unless
\* a worker left for want of memory while mg_start was still counting.
ContextAlive ==
    ~ctx.live /\ main.pc = "stopped" /\ ~hist.raced =>
       master.pc = "gone" /\ \A w \in Worker : conn[w].pc \in {"none", "gone"}

\* The master waits for room in a queue that no worker will empty: every worker read
\* stop_flag after its last consume_socket.
MasterAlone ==
    master.pc = "asleep" /\ \A w \in Worker : conn[w].pc \in {"none", "leave", "leaves", "gone"}

\* Worker w is in a call that no timeout and no test of stop_flag ends: SSL_accept or
\* SSL_read, the writing of a reply, the reading of what a program writes.
Blocked(w) ==
    \/ conn[w].pc \in {"handshake", "body"}
    \/ conn[w].pc = "read" /\ (Reading(w) => conn[w].client \in Secure)

\* mg_stop returns if no client or program blocks a worker for ever, unless there is no
\* master thread or one of the two lost wake-ups happens: a worker that went to sleep
\* after the master's unlocked broadcast, or MasterAlone.
StopReturns ==
    (\A w \in Worker : []<>~Blocked(w)) =>
       (main.pc = "stopping" ~> \/ main.pc = "stopped" \/ master.pc = "none"
                               \/ hist.late \/ hist.raced \/ MasterAlone)
=============================================================================
