--------------------------------- MODULE Proxy ---------------------------------
(***************************************************************************)
(* The proxy of each replica (src/src/proxy/proxy.c).  It accepts client   *)
(* connections, submits what they do as requests to the consensus          *)
(* component, and replays the agreed requests against its own copy of the  *)
(* real server.  Two threads share the database and highest_rec:           *)
(*                                                                         *)
(*  - the consensus thread stores records, deletes the record after the    *)
(*    last agreed one when a view ends, and calls update_state for every   *)
(*    agreed record, which raises highest_rec and sends SIGUSR2;           *)
(*  - the proxy thread handles SIGUSR2 in its event loop: it reads         *)
(*    highest_rec and moves its cursor cur_rec up to it, one record at a   *)
(*    time, and takes a key without a record for the end of a view.        *)
(*                                                                         *)
(* The consensus component appears as what the proxy can see of it: the    *)
(* requests proposed in each view, how many of them are agreed (once the   *)
(* view has ended: how many the election has kept), and which records each *)
(* replica has in its database.  A replica may enter the next view without *)
(* some agreed record of the last one: nothing brings that record any more *)
(* (replica_sync is empty), and the cursor takes its place for the end of  *)
(* the view.                                                               *)
(*                                                                         *)
(* Definitions with a suffix (cross_view_NoShift) are mutated forms.       *)
(***************************************************************************)
EXTENDS CommonStructure, Sequences

CONSTANTS
    Node,      \* the replicas
    Conn,      \* client connections
    Home,      \* [Conn -> Node], the replica that a client connects to
    MaxView,   \* cap on view ids
    MaxReq,    \* cap on the requests proposed in one view
    MaxSend,   \* cap on the messages a client sends
    MaxFaults  \* cap on connections that a real server closes, on submissions that
               \* the consensus component drops, and on breaks of the connection to it

View == 1..MaxView

ASSUME HomeAssumption == Home \in [Conn -> Node]
ASSUME KeyAssumption ==
    MaxView \in Nat \ {0} /\ MaxReq \in Nat /\ MaxReq + 1 < KEY_BASE
ASSUME SendAssumption == MaxSend \in Nat

VARIABLES
    \* the consensus component
    view,        \* the newest view
    proposed,    \* [View -> Seq(Msg)], the requests by req_id
    agreed,      \* [View -> Nat], how many of them are agreed
    cur_view,    \* [Node -> View]
    committed,   \* [Node -> Nat], req_id of highest_committed in cur_view
    db,          \* [Node -> set of keys]; a record's content is in proposed
    loop_end,    \* [Node -> LoopEnd], where the loop of try_to_execute ends
    \* shared by the threads of a replica
    highest_rec, \* [Node -> key]
    sigusr2,     \* [Node -> BOOLEAN], a signal is pending
    waking,      \* [Node -> BOOLEAN], update_state is about to call wake_up
    \* the proxy thread
    cur_rec,     \* [Node -> key], the next record to execute
    cur_highest, \* [Node -> key], highest_rec as real_do_action has read it
    acting,      \* [Node -> BOOLEAN], real_do_action is in its loop
    executed,    \* [Node -> Seq(key)], calls of do_action_to_server
    hash_map,    \* [Node -> [Conn -> socket pair]]
    con_conn,    \* [Node -> BOOLEAN], con_conn is not NULL
    queue,       \* [Node -> Seq(Msg)], written to con_conn and not yet read
    client,      \* [Conn -> state of the client's side]
    sent,        \* [Conn -> Nat], messages the client has sent
    faults       \* counted against MaxFaults

consensus == <<view, proposed, agreed, cur_view, committed, db, loop_end>>
cursor    == <<cur_rec, cur_highest, acting, executed>>
signal    == <<highest_rec, sigusr2, waking>>
clients   == <<con_conn, queue, client, sent, faults>>
vars == <<consensus, cursor, signal, clients, hash_map>>

Msg == [action : {"CONNECT", "CLOSE"}, conn : Conn]
         \cup [action : {"SEND"}, conn : Conn, data : 1..MaxSend]

(* An entry of the hash table: is there one, and its two sockets.  "eof" is *)
(* a socket that the real server has closed and the proxy has not freed.    *)
Pair == [set : BOOLEAN, p_s : {"null", "up", "eof"}, p_c : BOOLEAN]
NoPair == [set |-> FALSE, p_s |-> "null", p_c |-> FALSE]

(* try_to_execute ends at highest_to_commit while that is in the view of    *)
(* highest_committed.  When it is in a later one, the boundary record of    *)
(* the next view says where to end: "later" while that record is missing,   *)
(* "garbage" once a peer has sent it.                                       *)
LoopEnd == {"own", "later", "garbage"}

MaxKey == vstol(MaxView + 1, MaxReq + 1)
Content(k) == LET vs == ltovs(k) IN proposed[vs.view_id][vs.req_id]

(* Type invariant; the cursor stays within the keys of the views and the next one. *)
TypeOK ==
    /\ view \in View
    /\ proposed \in [View -> Seq(Msg)]
    /\ agreed \in [View -> 0..MaxReq]
    /\ cur_view \in [Node -> View]
    /\ committed \in [Node -> 0..MaxReq]
    /\ db \in [Node -> SUBSET (1..MaxKey)]
    /\ loop_end \in [Node -> LoopEnd]
    /\ highest_rec \in [Node -> 0..MaxKey]
    /\ sigusr2 \in [Node -> BOOLEAN]
    /\ waking \in [Node -> BOOLEAN]
    /\ cur_rec \in [Node -> 0..MaxKey]
    /\ cur_highest \in [Node -> 0..MaxKey]
    /\ acting \in [Node -> BOOLEAN]
    /\ executed \in [Node -> Seq(1..MaxKey)]
    /\ hash_map \in [Node -> [Conn -> Pair]]
    /\ con_conn \in [Node -> BOOLEAN]
    /\ queue \in [Node -> Seq(Msg)]
    /\ client \in [Conn -> {"new", "open", "refused", "eof"}]
    /\ sent \in [Conn -> 0..MaxSend]
    /\ faults \in Nat
--------------------------------------------------------------------------------
Init ==
    /\ view = 1
    /\ proposed = [v \in View |-> <<>>]
    /\ agreed = [v \in View |-> 0]
    /\ cur_view = [n \in Node |-> 1]
    /\ committed = [n \in Node |-> 0]
    /\ db = [n \in Node |-> {}]
    /\ loop_end = [n \in Node |-> "own"]
    /\ highest_rec = [n \in Node |-> 0]
    /\ sigusr2 = [n \in Node |-> FALSE]
    /\ waking = [n \in Node |-> FALSE]
    /\ cur_rec = [n \in Node |-> 0]
    /\ cur_highest = [n \in Node |-> 0]
    /\ acting = [n \in Node |-> FALSE]
    /\ executed = [n \in Node |-> <<>>]
    /\ hash_map = [n \in Node |-> [c \in Conn |-> NoPair]]
    /\ con_conn = [n \in Node |-> TRUE]
    /\ queue = [n \in Node |-> <<>>]
    /\ client = [c \in Conn |-> "new"]
    /\ sent = [c \in Conn |-> 0]
    /\ faults = 0
--------------------------------------------------------------------------------
(* The proxy thread: clients, the real server, the connection to consensus. *)
(* These handlers run between two calls of real_do_action, in one thread.   *)

(* Write m to con_conn, unless that is NULL: then the request is lost. *)
Submit(n, m) ==
    queue' = IF con_conn[n] THEN [queue EXCEPT ![n] = Append(@, m)] ELSE queue

(* gen_key gives every connection a key of its own, from pair_count. *)
proxy_on_accept(c) ==
    LET n == Home[c] IN
    /\ ~acting[n]
    /\ client[c] = "new"
    /\ IF con_conn[n]
       THEN /\ client' = [client EXCEPT ![c] = "open"]
            /\ hash_map' = [hash_map EXCEPT ![n][c] =
                              [set |-> TRUE, p_s |-> "null", p_c |-> TRUE]]
            /\ Submit(n, [action |-> "CONNECT", conn |-> c])
       ELSE /\ client' = [client EXCEPT ![c] = "refused"]
            /\ UNCHANGED <<hash_map, queue>>
    /\ UNCHANGED <<consensus, cursor, signal, con_conn, sent, faults>>

(* client_side_on_read and client_process_data, for one complete message. *)
client_side_on_read(c) ==
    LET n == Home[c] IN
    /\ ~acting[n]
    /\ client[c] = "open" /\ hash_map[n][c].p_c
    /\ sent[c] < MaxSend
    /\ sent' = [sent EXCEPT ![c] = @ + 1]
    /\ Submit(n, [action |-> "SEND", conn |-> c, data |-> sent[c] + 1])
    /\ UNCHANGED <<consensus, cursor, signal, hash_map, con_conn, client, faults>>

client_side_on_err(c) ==
    LET n == Home[c] IN
    /\ ~acting[n]
    /\ client[c] = "open" /\ hash_map[n][c].p_c
    /\ client' = [client EXCEPT ![c] = "eof"]
    /\ Submit(n, [action |-> "CLOSE", conn |-> c])
    /\ UNCHANGED <<consensus, cursor, signal, hash_map, con_conn, sent, faults>>

(* The real server of replica n closes its side of connection c. *)
server_side_on_err(n, c) ==
    /\ ~acting[n]
    /\ hash_map[n][c].p_s = "up"
    /\ faults < MaxFaults
    /\ faults' = faults + 1
    /\ hash_map' = [hash_map EXCEPT ![n][c].p_s = "eof"]
    /\ Submit(n, [action |-> "CLOSE", conn |-> c])
    /\ UNCHANGED <<consensus, cursor, signal, con_conn, client, sent>>

(* con_conn breaks, with what has been written to it. *)
consensus_on_event(n) ==
    /\ ~acting[n]
    /\ con_conn[n]
    /\ faults < MaxFaults
    /\ faults' = faults + 1
    /\ con_conn' = [con_conn EXCEPT ![n] = FALSE]
    /\ queue' = [queue EXCEPT ![n] = <<>>]
    /\ UNCHANGED <<consensus, cursor, signal, hash_map, client, sent>>

reconnect_on_timeout(n) ==
    /\ ~acting[n]
    /\ ~con_conn[n]
    /\ con_conn' = [con_conn EXCEPT ![n] = TRUE]
    /\ UNCHANGED <<consensus, cursor, signal, hash_map, queue, client, sent, faults>>
--------------------------------------------------------------------------------
(* The proxy thread: replaying the agreed requests. *)

cross_view_NoShift(k) == (k + 1) * KEY_BASE + 1

(* cur_rec>>32, ++, <<32, ++: the first request of the next view. *)
cross_view(k) == ((k \div KEY_BASE) + 1) * KEY_BASE + 1

(* proxy_singnal_handler calls real_do_action, which reads highest_rec. *)
proxy_singnal_handler(n) ==
    /\ ~acting[n]
    /\ sigusr2[n]
    /\ sigusr2' = [sigusr2 EXCEPT ![n] = FALSE]
    /\ cur_highest' = [cur_highest EXCEPT ![n] = highest_rec[n]]
    /\ acting' = [acting EXCEPT ![n] = TRUE]
    /\ UNCHANGED <<consensus, clients, hash_map, highest_rec, waking, cur_rec, executed>>

do_action_connect_OnlyNew(p) ==
    IF ~p.set THEN [p EXCEPT !.set = TRUE, !.p_s = "up"] ELSE p

(* What each action does to the socket pair p of its connection. *)
do_action_connect(p) ==
    [p EXCEPT !.set = TRUE, !.p_s = IF @ = "null" THEN "up" ELSE @]

do_action_send(p) == p

do_action_close(p) == [p EXCEPT !.p_s = "null", !.p_c = FALSE]

do_action_to_server(n, m) ==
    hash_map' = [hash_map EXCEPT ![n][m.conn] =
                   CASE m.action = "CONNECT" -> do_action_connect(@)
                     [] m.action = "SEND"    -> do_action_send(@)
                     [] m.action = "CLOSE"   -> do_action_close(@)]

(* One turn of the loop of real_do_action. *)
real_do_action(n) ==
    /\ acting[n]
    /\ cur_rec[n] <= cur_highest[n]
    /\ IF cur_rec[n] \in db[n]
       THEN /\ do_action_to_server(n, Content(cur_rec[n]))
            /\ executed' = [executed EXCEPT ![n] = Append(@, cur_rec[n])]
            /\ cur_rec' = [cur_rec EXCEPT ![n] = @ + 1]
       ELSE /\ cur_rec' = [cur_rec EXCEPT ![n] = cross_view(@)]
            /\ UNCHANGED <<executed, hash_map>>
    /\ UNCHANGED <<consensus, clients, signal, cur_highest, acting>>

LeaveLoop(n) ==
    /\ acting[n]
    /\ cur_rec[n] > cur_highest[n]
    /\ acting' = [acting EXCEPT ![n] = FALSE]
    /\ UNCHANGED <<consensus, clients, signal, hash_map, cur_rec, cur_highest, executed>>
--------------------------------------------------------------------------------
(* The consensus thread. *)

(* In the loop of a node whose end is garbage the thread sends a MISSING_REQ *)
(* for every key up to a time of day taken for a view id, and handles        *)
(* nothing else any more.                                                    *)
Handles(n) == ~waking[n] /\ loop_end[n] # "garbage"

(* handle_request_submit: the request gets the next req_id of the view, or  *)
(* is dropped: the node is not in state NODE_ACTIVE, or its FORWARD_REQ is  *)
(* lost.                                                                    *)
handle_request_submit(n) ==
    /\ Handles(n)
    /\ queue[n] # <<>>
    /\ queue' = [queue EXCEPT ![n] = Tail(@)]
    /\ \/ /\ Len(proposed[view]) < MaxReq
          /\ proposed' = [proposed EXCEPT ![view] = Append(@, Head(queue[n]))]
          /\ UNCHANGED faults
       \/ /\ faults < MaxFaults
          /\ faults' = faults + 1
          /\ UNCHANGED proposed
    /\ UNCHANGED <<view, agreed, cur_view, committed, db, loop_end, cursor, signal, hash_map,
                   con_conn, client, sent>>

(* The next request of the newest view reaches a quorum. *)
Agree ==
    /\ agreed[view] < Len(proposed[view])
    /\ agreed' = [agreed EXCEPT ![view] = @ + 1]
    /\ UNCHANGED <<view, proposed, cur_view, committed, db, loop_end, cursor, signal, clients,
                   hash_map>>

(* A replica stores a record, agreed or not, of its view or of a later one  *)
(* (handle_accept_req, handle_missing_ack).  With a record of a later view  *)
(* comes a highest_to_commit of that view.                                  *)
StoreRecord(n, v, r) ==
    /\ Handles(n)
    /\ cur_view[n] <= v
    /\ r <= Len(proposed[v])
    /\ db' = [db EXCEPT ![n] = @ \cup {vstol(v, r)}]
    /\ loop_end' = [loop_end EXCEPT ![n] = IF cur_view[n] < v THEN "later" ELSE @]
    /\ UNCHANGED <<view, proposed, agreed, cur_view, committed, cursor, signal, clients, hash_map>>

(* The commit point of a later view alone: the leader of both views sends   *)
(* FORCE_EXEC, or the record that came with it could not be stored.         *)
handle_force_exec(n) ==
    /\ Handles(n)
    /\ cur_view[n] < view
    /\ loop_end' = [loop_end EXCEPT ![n] = "later"]
    /\ UNCHANGED <<view, proposed, agreed, cur_view, committed, db, cursor, signal, clients,
                   hash_map>>

(* A peer sends the boundary record of the next view.  update_view has      *)
(* stored the bytes at &new_view_info in it, and handle_missing_ack writes  *)
(* the time of day over the fields that try_to_execute reads.               *)
handle_missing_ack(n) ==
    LET bound == vstol(cur_view[n] + 1, 0) IN
    /\ Handles(n)
    /\ loop_end[n] = "later"
    /\ \E m \in Node : bound \in db[m]
    /\ db' = [db EXCEPT ![n] = @ \cup {bound}]
    /\ loop_end' = [loop_end EXCEPT ![n] = "garbage"]
    /\ UNCHANGED <<view, proposed, agreed, cur_view, committed, cursor, signal, clients, hash_map>>

(* One turn of the loop of try_to_execute: deliver_msg_data calls           *)
(* update_state for the next record, which first raises highest_rec...      *)
update_state(n) ==
    LET k == vstol(cur_view[n], committed[n] + 1) IN
    /\ ~waking[n]
    /\ \/ loop_end[n] = "own" /\ committed[n] < agreed[cur_view[n]]
       \/ loop_end[n] = "garbage"
    /\ k \in db[n]
    /\ committed' = [committed EXCEPT ![n] = @ + 1]
    /\ highest_rec' = [highest_rec EXCEPT ![n] = IF @ < k THEN k ELSE @]
    /\ waking' = [waking EXCEPT ![n] = TRUE]
    /\ UNCHANGED <<view, proposed, agreed, cur_view, db, loop_end, sigusr2, cursor, clients, hash_map>>

wake_up_Once(n) ==
    /\ waking[n]
    /\ waking' = [waking EXCEPT ![n] = FALSE]
    /\ sigusr2' = [sigusr2 EXCEPT ![n] = ~acting[n]]
    /\ UNCHANGED <<consensus, cursor, clients, hash_map, highest_rec>>

(* ...and then signals the proxy thread. *)
wake_up(n) ==
    /\ waking[n]
    /\ waking' = [waking EXCEPT ![n] = FALSE]
    /\ sigusr2' = [sigusr2 EXCEPT ![n] = TRUE]
    /\ UNCHANGED <<consensus, cursor, clients, hash_map, highest_rec>>

(* The leader is lost and the others elect a new one: no more requests of   *)
(* the old view are agreed.                                                 *)
NewView ==
    /\ view < MaxView
    /\ view' = view + 1
    /\ UNCHANGED <<proposed, agreed, cur_view, committed, db, loop_end, cursor, signal, clients,
                   hash_map>>

delete_record_Before(D, k) == D \ {k - 1}

(* The database D of a node without the record of key k. *)
delete_record(D, k) == D \ {k}

update_view_KeepTail(n) ==
    LET v == cur_view[n] IN
    /\ Handles(n)
    /\ v < view
    /\ db' = [db EXCEPT ![n] = @ \cup {vstol(v + 1, 0)}]
    /\ cur_view' = [cur_view EXCEPT ![n] = v + 1]
    /\ committed' = [committed EXCEPT ![n] = 0]
    /\ loop_end' = [loop_end EXCEPT ![n] = "own"]
    /\ UNCHANGED <<view, proposed, agreed, cursor, signal, clients, hash_map>>

(* update_view and consensus_update_role: store the boundary of the views,  *)
(* delete the record after the last agreed one, and count from 0 in the new *)
(* view.  Agreed requests of the old view that were not delivered are left  *)
(* to the cursor, whether their records are here or not.                    *)
update_view(n) ==
    LET v == cur_view[n] IN
    /\ Handles(n)
    /\ v < view
    /\ db' = [db EXCEPT ![n] = delete_record(@ \cup {vstol(v + 1, 0)}, vstol(v, agreed[v] + 1))]
    /\ cur_view' = [cur_view EXCEPT ![n] = v + 1]
    /\ committed' = [committed EXCEPT ![n] = 0]
    /\ loop_end' = [loop_end EXCEPT ![n] = "own"]
    /\ UNCHANGED <<view, proposed, agreed, cursor, signal, clients, hash_map>>
--------------------------------------------------------------------------------
Next ==
    \/ \E c \in Conn : proxy_on_accept(c) \/ client_side_on_read(c) \/ client_side_on_err(c)
    \/ \E n \in Node, c \in Conn : server_side_on_err(n, c)
    \/ \E n \in Node : consensus_on_event(n) \/ reconnect_on_timeout(n)
    \/ \E n \in Node : proxy_singnal_handler(n) \/ real_do_action(n) \/ LeaveLoop(n)
    \/ \E n \in Node : handle_request_submit(n)
    \/ Agree
    \/ \E n \in Node, v \in View, r \in 1..MaxReq : StoreRecord(n, v, r)
    \/ \E n \in Node : handle_force_exec(n) \/ handle_missing_ack(n)
    \/ \E n \in Node : update_state(n) \/ wake_up(n)
    \/ NewView
    \/ \E n \in Node : update_view(n)

Spec == Init /\ [][Next]_vars
--------------------------------------------------------------------------------
(* Properties. *)

AgreedKeys == UNION {{vstol(v, r) : r \in 1..agreed[v]} : v \in View}

(* Agreed requests that replica n will never execute: it has left their     *)
(* view without the record of one of them or of one before them.            *)
Skipped(n) ==
    UNION {{vstol(v, r) : r \in {r \in 1..agreed[v] : \E q \in 1..r : vstol(v, q) \notin db[n]}}
             : v \in 1..(cur_view[n] - 1)}

(* The cursor of real_do_action hands requests to the server in order, each *)
(* once, also across a view change.  They are agreed requests, although the *)
(* database also holds records that were stored and never agreed, and none  *)
(* is left out below the last one except those after a hole in a view that  *)
(* the replica has left.  A node that ran into a garbage boundary record    *)
(* executes what it has, agreed or not.                                     *)
ExecutesAgreed ==
    \A n \in Node :
        LET done == {executed[n][i] : i \in 1..Len(executed[n])}
        IN  /\ \A i, j \in 1..Len(executed[n]) : i < j => executed[n][i] < executed[n][j]
            /\ loop_end[n] # "garbage" =>
                  done = {k \in AgreedKeys \ Skipped(n) : \E d \in done : k <= d}

(* "we have seen the same request sequence on all the machine" (proxy.c,    *)
(* before do_action_send): of two replicas, one has executed a prefix of    *)
(* what the other has.                                                      *)
SameSequence ==
    \A m, n \in Node : \A i \in 1..Len(executed[m]) :
        i <= Len(executed[n]) => executed[m][i] = executed[n][i]

(* After the requests with the keys in q the last CONNECT or CLOSE of        *)
(* connection c was a CONNECT.                                              *)
Connected(q, c) ==
    \E i \in 1..Len(q) :
        /\ Content(q[i]).action = "CONNECT" /\ Content(q[i]).conn = c
        /\ \A j \in (i + 1)..Len(q) :
              ~(Content(q[j]).action = "CLOSE" /\ Content(q[j]).conn = c)

(* "since we have seen the same request sequence on all the machine, then   *)
(* this time, we must have already set up the connection with the server"   *)
(* (proxy.c, before do_action_send): whether a replica has a connection to  *)
(* its server depends on the requests it has executed and on nothing else,  *)
(* although on one replica proxy_on_accept has put an entry in the hash     *)
(* table before the CONNECT is executed and on the others it has not. There *)
(* is one exactly when the last CONNECT or CLOSE executed was a CONNECT.    *)
ConnectionsFollowLog ==
    \A n \in Node, c \in Conn :
        hash_map[n][c].p_s # "null" <=> Connected(executed[n], c)

(* No wake-up is lost.  A record that update_state has put in highest_rec   *)
(* and the cursor has not passed is known to somebody who will act on it:   *)
(* the consensus thread is about to signal, a signal is pending, or the     *)
(* loop of real_do_action runs and has read this highest_rec.  Otherwise it *)
(* would wait for the next request, because the periodic timer is off.      *)
NoLostWakeUp ==
    \A n \in Node :
        highest_rec[n] > 0 /\ cur_rec[n] <= highest_rec[n] =>
            \/ waking[n] \/ sigusr2[n]
            \/ acting[n] /\ cur_highest[n] = highest_rec[n]

(* The inductive invariant behind ExecutesAgreed and NoLostWakeUp, in named *)
(* parts.  What is agreed or delivered has been proposed; a replica         *)
(* delivers what is agreed in its view unless it has a garbage boundary.    *)
LogInv ==
    /\ \A v \in View : agreed[v] <= Len(proposed[v]) /\ Len(proposed[v]) <= MaxReq
    /\ \A n \in Node :
          /\ cur_view[n] <= view
          /\ committed[n] <= Len(proposed[cur_view[n]])
          /\ loop_end[n] # "garbage" => committed[n] <= agreed[cur_view[n]]

(* A record has a proposed request or marks the start of a view; in a view  *)
(* that the replica has left there is none right after the agreed ones; and *)
(* what was delivered in the current view is there.                         *)
DbInv(n) ==
    /\ \A k \in db[n] : \E v \in View : \E r \in 0..Len(proposed[v]) : k = vstol(v, r)
    /\ \A v \in View : v < cur_view[n] => vstol(v, agreed[v] + 1) \notin db[n]
    /\ \A r \in 1..committed[n] : vstol(cur_view[n], r) \in db[n]

(* highest_rec is the key of a request, in the current view of one that was *)
(* delivered, and what real_do_action has read of it is no higher.          *)
HighInv(n) ==
    /\ \/ highest_rec[n] = 0
       \/ \E v \in 1..cur_view[n] : \E r \in 1..MaxReq :
             highest_rec[n] = vstol(v, r) /\ (v = cur_view[n] => r <= committed[n])
    /\ cur_highest[n] <= highest_rec[n]

(* How many requests of view v replica n may execute: those delivered in    *)
(* its view; in a view it has left the agreed ones up to the first hole.    *)
Reachable(n, v, r) ==
    IF v = cur_view[n]
    THEN r <= committed[n]
    ELSE r <= agreed[v] /\ \A q \in 1..r : vstol(v, q) \in db[n]

Replayable(n) ==
    UNION {{vstol(v, r) : r \in {r \in 1..MaxReq : Reachable(n, v, r)}} : v \in 1..cur_view[n]}

(* The cursor is at the next request to execute or at the place after the   *)
(* last one of a view, and what can be executed below it, nothing else, has *)
(* been executed, in order.                                                 *)
CursorInv(n) ==
    /\ \/ cur_rec[n] = 0
       \/ \E v \in 1..cur_view[n] : \E r \in 1..(MaxReq + 1) :
             cur_rec[n] = vstol(v, r) /\ (r > 1 => Reachable(n, v, r - 1))
    /\ {executed[n][i] : i \in 1..Len(executed[n])} = {k \in Replayable(n) : k < cur_rec[n]}
    /\ \A i, j \in 1..Len(executed[n]) : i < j => executed[n][i] < executed[n][j]

ReplayInv == LogInv /\ \A n \in Node : DbInv(n) /\ HighInv(n) /\ CursorInv(n)

(* The strengthening behind ConnectionsFollowLog: a client that has not yet *)
(* connected appears in no request, so proxy_on_accept overwrites no entry  *)
(* with a socket to the server.                                             *)
ClientInv ==
    \A c \in Conn : client[c] = "new" =>
        /\ \A n \in Node : \A i \in 1..Len(queue[n]) : queue[n][i].conn # c
        /\ \A v \in View : \A i \in 1..Len(proposed[v]) : proposed[v][i].conn # c
================================================================================
