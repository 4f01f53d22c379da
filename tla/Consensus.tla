------------------------------- MODULE Consensus -------------------------------
(***************************************************************************)
(* The request consensus of libevent_paxos (src/src/consensus/consensus.c) *)
(* in the bootstrap view: the seed node leads view 1, every other node     *)
(* starts in view 0 and joins view 1 when a ping of the leader reaches it. *)
(*                                                                         *)
(* The code runs one event loop per node, so a handler is one atomic       *)
(* action; handlers of different nodes interleave through TCP connections, *)
(* which deliver in order and lose what is in flight, or sent while the    *)
(* peer is not active, when they break.                                    *)
(*                                                                         *)
(* View stamps.  All stamps of this module are in view 1, where            *)
(* view_stamp_comp compares the req_ids and vstol is strictly increasing,  *)
(* so a stamp is its req_id.  The branches of the code that compare two    *)
(* different view ids (lines 595-604, 662-684 and 707-715) are not taken.  *)
(*                                                                         *)
(* A definition named after another with a suffix (reached_quorum_Half) is *)
(* a mutated form of it that no specification uses: a mistake one could    *)
(* make in that code, kept to show that a property notices it.             *)
(***************************************************************************)
EXTENDS Integers, Sequences, FiniteSets

CONSTANTS
    Node,          \* ids of the replicas that run (a subset of 0..GroupSize-1)
    Leader,        \* the node started in seed mode
    GroupSize,     \* group_size of the configuration file
    Request,       \* client payloads, each submitted at most once
    Entry,         \* the nodes that clients submit to
    NoRecord,      \* what retrieve_record finds under an absent key
    INT_BITS,      \* width of the int that 1<<node_id is computed in (32)
    MAP_BITS,      \* width of request_record.bit_map (64)
    MaxReq,        \* cap on req_id
    MaxQueue,      \* cap on the messages in flight when the leader's timer fires
    MaxFaults,     \* cap on lost messages, failed stores and process crashes
    MaxPowerLoss   \* cap on host crashes

(* A request as it is stored, carried and delivered.  "intact" is FALSE    *)
(* once bytes of the payload are no longer the ones the client sent.       *)
Data == [req : Request, intact : BOOLEAN]

Slot == 1..MaxReq
Chan == {c \in Node \X Node : c[1] # c[2]}

ASSUME NodeAssumption == /\ Node \subseteq 0..(GroupSize - 1)
                         /\ Leader \in Node
                         /\ 9999 \notin Node
ASSUME SizeAssumption == /\ GroupSize \in Nat \ {0}
                         /\ INT_BITS \in Nat \ {0}
                         /\ MAP_BITS \in Nat
                         /\ INT_BITS <= MAP_BITS
ASSUME EntryAssumption == Entry \subseteq Node
ASSUME BoundAssumption == MaxReq \in Nat
ASSUME RecordAssumption == NoRecord \notin Data

VARIABLES
    cur_view,          \* [Node -> 0..1], cur_view.view_id
    highest_seen,      \* [Node -> Nat]
    highest_to_commit, \* [Node -> Nat]
    highest_committed, \* [Node -> Nat]
    db,                \* [Node -> [Slot -> Data or NoRecord]], the Berkeley DB
    bit_map,           \* [Slot -> set of bits], bit_map of the leader's records
    delivered,         \* [Node -> Seq(Data)], arguments of the user call back
    net,               \* [Chan -> Seq(Msg)], bytes in flight
    submitted,         \* requests the clients have handed in
    faults,            \* faults so far
    outages            \* host crashes so far

vars == <<cur_view, highest_seen, highest_to_commit, highest_committed, db,
          bit_map, delivered, net, submitted, faults, outages>>

stamps == <<highest_to_commit, highest_committed, delivered>>

Msg ==
    [type : {"ACCEPT_REQ"}, vs : Slot, exed : 0..MaxReq, data : Data]
      \cup [type : {"ACCEPT_ACK", "MISSING_REQ"}, vs : Slot]
      \cup [type : {"MISSING_ACK"}, vs : Slot, data : Data]
      \cup [type : {"FORCE_EXEC"}, committed : 0..MaxReq]
      \cup [type : {"FORWARD_REQ"}, data : Data]

(* Type invariant: what the handlers keep of counters, records and messages. *)
TypeOK ==
    /\ cur_view \in [Node -> 0..1]
    /\ highest_seen \in [Node -> 0..MaxReq]
    /\ highest_to_commit \in [Node -> 0..MaxReq]
    /\ highest_committed \in [Node -> 0..MaxReq]
    /\ db \in [Node -> [Slot -> Data \cup {NoRecord}]]
    /\ bit_map \in [Slot -> SUBSET (0..(MAP_BITS - 1))]
    /\ delivered \in [Node -> Seq(Data)]
    /\ net \in [Chan -> Seq(Msg)]
    /\ submitted \subseteq Request
    /\ faults \in Nat
    /\ outages \in Nat
--------------------------------------------------------------------------------
(* Helpers. *)

Larger(a, b) == IF a > b THEN a ELSE b

(* cur_view.leader_id: a node in view 0 knows no leader (9999). *)
leader_id(n) == IF cur_view[n] = 1 THEN Leader ELSE 9999

(* The bits that record->bit_map | (1<<id) sets.  The int 1<<id is negative *)
(* when id is its sign bit, and widening it to 64 bits sets all higher bits *)
(* too; the shift count of the target machine is taken modulo its width.    *)
node_bit(id) ==
    LET s == id % INT_BITS
    IN  IF s = INT_BITS - 1 THEN s..(MAP_BITS - 1) ELSE {s}

reached_quorum_Half(bits) == Cardinality(bits) >= GroupSize \div 2

(* __builtin_popcountl(bit_map) >= group_size/2 + 1 *)
reached_quorum(bits) == Cardinality(bits) >= (GroupSize \div 2) + 1

send_to_one_node(N, s, d, m) ==
    [N EXCEPT ![<<s, d>>] = Append(@, m)]

send_to_other_nodes(N, s, ms) ==
    [c \in Chan |-> IF c[1] = s THEN N[c] \o ms ELSE N[c]]

build_accept_ack(k) == [type |-> "ACCEPT_ACK", vs |-> k]

build_missing_req(k) == [type |-> "MISSING_REQ", vs |-> k]

(* The reply copies only MISSING_ACK_SIZE(record) bytes of the record: the  *)
(* last bytes of the payload are whatever follows the message in memory, so *)
(* they may (same) or may not be the ones stored.                           *)
build_missing_ack(n, k, same) ==
    [type |-> "MISSING_ACK", vs |-> k, data |-> [db[n][k] EXCEPT !.intact = @ /\ same]]

build_force_exec(upto) == [type |-> "FORCE_EXEC", committed |-> upto]

build_forward_req(data) == [type |-> "FORWARD_REQ", data |-> data]

(* The sequences that list the set S of slots in the order of a for loop. *)
Ascending(S) ==
    {q \in [1..Cardinality(S) -> S] : \A i, j \in DOMAIN q : i < j => q[i] < q[j]}

LoopExit_NoStop(c, e, P) == {Larger(c, e)}

(* Where a loop that starts after c and runs to e, and stops at the first   *)
(* slot that is not in P, leaves its counter.                               *)
LoopExit(c, e, P) ==
    {u \in {c} \cup (c..e) : /\ (c + 1)..u \subseteq P
                             /\ u < e => u + 1 \notin P}

Stored(row) == {k \in Slot : row[k] # NoRecord}
--------------------------------------------------------------------------------
Init ==
    /\ cur_view = [n \in Node |-> IF n = Leader THEN 1 ELSE 0]
    /\ highest_seen = [n \in Node |-> 0]
    /\ highest_to_commit = [n \in Node |-> 0]
    /\ highest_committed = [n \in Node |-> 0]
    /\ db = [n \in Node |-> [k \in Slot |-> NoRecord]]
    /\ bit_map = [k \in Slot |-> {}]
    /\ delivered = [n \in Node |-> <<>>]
    /\ net = [c \in Chan |-> <<>>]
    /\ submitted = {}
    /\ faults = 0
    /\ outages = 0

(* Up to which slot leader_try_to_execute moves highest_to_commit from tc:  *)
(* over every slot up to highest_seen whose record has reached a quorum.    *)
leader_try_to_execute(n, tc, seen, bits) ==
    IF n = Leader
    THEN LoopExit(tc, seen, {k \in Slot : reached_quorum(bits[k])})
    ELSE {tc}

deliver_msg_data_Last(n, u, row) ==
    [delivered EXCEPT ![n] = IF u > highest_committed[n] THEN Append(@, row[u]) ELSE @]

(* deliver_msg_data for the slots after highest_committed[n] up to u. *)
deliver_msg_data(n, u, row) ==
    [delivered EXCEPT ![n] =
        @ \o [i \in 1..(u - highest_committed[n]) |-> row[highest_committed[n] + i]]]

(* try_to_execute at node n, at the end of a handler that has set its       *)
(* highest_to_commit to tc, highest_seen to seen, its row of the database   *)
(* to row and the leader's bit maps to bits, and has left the network at N. *)
(* The leader's own loop also delivers; in both loops a slot is delivered   *)
(* only if all slots before it are present, and each absent slot up to the  *)
(* end is asked for from all nodes.                                         *)
try_to_execute(n, tc, seen, row, bits, N) ==
    IF cur_view[n] = 0
    THEN /\ highest_to_commit' = [highest_to_commit EXCEPT ![n] = tc]
         /\ net' = N
         /\ UNCHANGED <<highest_committed, delivered>>
    ELSE \E end \in leader_try_to_execute(n, tc, seen, bits) :
         \E upto \in LoopExit(highest_committed[n], end, Stored(row)) :
         \E missing \in Ascending(((highest_committed[n] + 1)..end) \ Stored(row)) :
            /\ highest_to_commit' = [highest_to_commit EXCEPT ![n] = end]
            /\ highest_committed' = [highest_committed EXCEPT ![n] = upto]
            /\ delivered' = deliver_msg_data(n, upto, row)
            /\ net' = send_to_other_nodes(N, n,
                        [i \in DOMAIN missing |-> build_missing_req(missing[i])])

(* store_record fails: charged to the fault budget. *)
StoreFails == faults < MaxFaults /\ faults' = faults + 1

build_accept_req_Early(n, k, data) ==
    [type |-> "ACCEPT_REQ", vs |-> k, exed |-> k, data |-> data]

build_accept_req(n, k, data) ==
    [type |-> "ACCEPT_REQ", vs |-> k, exed |-> highest_to_commit[n], data |-> data]
--------------------------------------------------------------------------------
(* Submission. *)

leader_handle_submit_req_IncFirst(n, data, N) ==
    LET next == highest_seen[n] + 1
    IN  /\ next <= MaxReq
        /\ highest_seen' = [highest_seen EXCEPT ![n] = next]
        /\ \/ /\ db' = [db EXCEPT ![n][next] = data]
              /\ bit_map' = [bit_map EXCEPT ![next] = node_bit(n)]
              /\ net' = send_to_other_nodes(N, n, <<build_accept_req(n, next, data)>>)
              /\ UNCHANGED <<stamps, faults>>
           \/ /\ StoreFails
              /\ net' = N
              /\ UNCHANGED <<db, bit_map, stamps>>

leader_handle_submit_req(n, data, N) ==
    LET next == highest_seen[n] + 1
        row  == [db[n] EXCEPT ![next] = data]
        bits == [bit_map EXCEPT ![next] = node_bit(n)]
    IN  /\ next <= MaxReq
        /\ \/ /\ highest_seen' = [highest_seen EXCEPT ![n] = next]
              /\ db' = [db EXCEPT ![n] = row]
              /\ bit_map' = bits
              /\ UNCHANGED faults
              /\ IF GroupSize > 1
                 THEN /\ net' = send_to_other_nodes(N, n,
                                   <<build_accept_req(n, next, data)>>)
                      /\ UNCHANGED stamps
                 ELSE try_to_execute(n, highest_to_commit[n], next, row, bits, N)
           \/ /\ StoreFails
              /\ net' = N
              /\ UNCHANGED <<highest_seen, db, bit_map, stamps>>

forward_submit_req_Twice(n, data) ==
    /\ net' = [net EXCEPT ![<<n, leader_id(n)>>] =
                 @ \o <<build_forward_req(data), build_forward_req(data)>>]
    /\ UNCHANGED <<highest_seen, stamps, db, bit_map, faults>>

(* The request goes to the node that the submitting one takes for leader.   *)
forward_submit_req(n, data) ==
    /\ net' = send_to_one_node(net, n, leader_id(n), build_forward_req(data))
    /\ UNCHANGED <<highest_seen, stamps, db, bit_map, faults>>

(* handle_request_submit and consensus_submit_request.  A node in view 0    *)
(* would index its peers with leader 9999: such submissions are left out.   *)
consensus_submit_request(n, r) ==
    LET data == [req |-> r, intact |-> TRUE] IN
    /\ cur_view[n] = 1
    /\ r \notin submitted
    /\ submitted' = submitted \cup {r}
    /\ IF n = Leader
       THEN leader_handle_submit_req(n, data, net)
       ELSE forward_submit_req(n, data)
    /\ UNCHANGED <<cur_view, outages>>
--------------------------------------------------------------------------------
(* The message handlers: node n handles m, the head of the connection from  *)
(* s; N is the network without it.                                          *)

handle_accept_req_AckAlways(s, n, m, N) ==
    LET seen == Larger(m.vs, highest_seen[n])
        tc   == Larger(m.exed, highest_to_commit[n])
        row  == [db[n] EXCEPT ![m.vs] = m.data]
        M    == send_to_one_node(N, n, s, build_accept_ack(m.vs))
    IN  /\ UNCHANGED bit_map
        /\ highest_seen' = [highest_seen EXCEPT ![n] = seen]
        /\ \/ /\ db' = [db EXCEPT ![n] = row]
              /\ UNCHANGED faults
              /\ try_to_execute(n, tc, seen, row, bit_map, M)
           \/ /\ StoreFails
              /\ UNCHANGED db
              /\ try_to_execute(n, tc, seen, db[n], bit_map, M)

handle_accept_req(s, n, m, N) ==
    /\ UNCHANGED bit_map
    /\ IF (cur_view[n] = 1 /\ s # leader_id(n)) \/ m.vs <= highest_committed[n]
       THEN /\ UNCHANGED <<highest_seen, db, faults>>
            /\ try_to_execute(n, highest_to_commit[n], highest_seen[n], db[n], bit_map, N)
       ELSE LET seen == Larger(m.vs, highest_seen[n])
                tc   == Larger(m.exed, highest_to_commit[n])
                row  == [db[n] EXCEPT ![m.vs] = m.data]
            IN  /\ highest_seen' = [highest_seen EXCEPT ![n] = seen]
                /\ \/ /\ db' = [db EXCEPT ![n] = row]
                      /\ UNCHANGED faults
                      /\ try_to_execute(n, tc, seen, row, bit_map,
                            send_to_one_node(N, n, s, build_accept_ack(m.vs)))
                   \/ /\ StoreFails
                      /\ UNCHANGED db
                      /\ try_to_execute(n, tc, seen, db[n], bit_map, N)

handle_accept_ack(s, n, m, N) ==
    LET bits == [bit_map EXCEPT ![m.vs] = @ \cup node_bit(s)]
        Execute(b) == try_to_execute(n, highest_to_commit[n], highest_seen[n], db[n], b, N)
    IN  /\ UNCHANGED <<highest_seen, db>>
        /\ IF n # Leader \/ m.vs <= highest_committed[n] \/ db[n][m.vs] = NoRecord
           THEN UNCHANGED <<bit_map, faults>> /\ Execute(bit_map)
           ELSE \/ bit_map' = bits /\ UNCHANGED faults /\ Execute(bits)
                \/ StoreFails /\ UNCHANGED bit_map /\ Execute(bit_map)

handle_missing_req(s, n, m, N) ==
    /\ UNCHANGED <<highest_seen, stamps, db, bit_map, faults>>
    /\ IF db[n][m.vs] = NoRecord
       THEN net' = N
       ELSE \E same \in BOOLEAN :
              net' = send_to_one_node(N, n, s, build_missing_ack(n, m.vs, same))

handle_missing_ack_Overwrite(s, n, m, N) ==
    LET row == [db[n] EXCEPT ![m.vs] = m.data]
    IN  /\ UNCHANGED <<highest_seen, bit_map, faults>>
        /\ db' = [db EXCEPT ![n] = row]
        /\ try_to_execute(n, highest_to_commit[n], highest_seen[n], row, bit_map, N)

handle_missing_ack(s, n, m, N) ==
    LET row == [db[n] EXCEPT ![m.vs] = m.data]
        Execute(r) == try_to_execute(n, highest_to_commit[n], highest_seen[n], r, bit_map, N)
    IN  /\ UNCHANGED <<highest_seen, bit_map>>
        /\ IF highest_committed[n] >= m.vs \/ db[n][m.vs] # NoRecord
           THEN net' = N /\ UNCHANGED <<stamps, db, faults>>
           ELSE \/ db' = [db EXCEPT ![n] = row] /\ UNCHANGED faults /\ Execute(row)
                \/ StoreFails /\ UNCHANGED db /\ Execute(db[n])

handle_force_exec(s, n, m, N) ==
    /\ UNCHANGED <<highest_seen, db, bit_map, faults>>
    /\ IF s = leader_id(n) /\ highest_to_commit[n] < m.committed
       THEN try_to_execute(n, m.committed, highest_seen[n], db[n], bit_map, N)
       ELSE net' = N /\ UNCHANGED stamps

handle_forward_req(s, n, m, N) ==
    IF n = Leader
    THEN leader_handle_submit_req(n, m.data, N)
    ELSE net' = N /\ UNCHANGED <<highest_seen, stamps, db, bit_map, faults>>

consensus_handle_msg(s, n) ==
    /\ net[<<s, n>>] # <<>>
    /\ LET m == Head(net[<<s, n>>])
           N == [net EXCEPT ![<<s, n>>] = Tail(@)]
       IN  \/ m.type = "ACCEPT_REQ"  /\ handle_accept_req(s, n, m, N)
           \/ m.type = "ACCEPT_ACK"  /\ handle_accept_ack(s, n, m, N)
           \/ m.type = "MISSING_REQ" /\ handle_missing_req(s, n, m, N)
           \/ m.type = "MISSING_ACK" /\ handle_missing_ack(s, n, m, N)
           \/ m.type = "FORCE_EXEC"  /\ handle_force_exec(s, n, m, N)
           \/ m.type = "FORWARD_REQ" /\ handle_forward_req(s, n, m, N)
    /\ UNCHANGED <<cur_view, submitted, outages>>
--------------------------------------------------------------------------------
(* Timers, joining, and faults. *)

InFlight == UNION {{c} \X (1..Len(net[c])) : c \in Chan}

(* The leader's slots after upto that still lack a quorum. *)
Unagreed(upto) ==
    {k \in (upto + 1)..highest_seen[Leader] : ~reached_quorum(bit_map[k])}

build_progress_msgs_ForceOnly(again, exed, upto) ==
    <<build_force_exec(upto)>>

build_progress_msgs_NoForce(again, exed, upto) ==
    [i \in DOMAIN again |-> [type |-> "ACCEPT_REQ", vs |-> again[i], exed |-> exed,
                            data |-> db[Leader][again[i]]]]

(* The ACCEPT_REQs of the slots in again, then a FORCE_EXEC. *)
build_progress_msgs(again, exed, upto) ==
    [i \in DOMAIN again |-> [type |-> "ACCEPT_REQ", vs |-> again[i], exed |-> exed,
                            data |-> db[Leader][again[i]]]]
      \o <<build_force_exec(upto)>>

(* make_progress_on, once a second on the leader: run the leader's loop,    *)
(* send every request without a quorum again, and tell the others how far   *)
(* the leader has committed.                                                *)
consensus_make_progress ==
    /\ Cardinality(InFlight) <= MaxQueue
    /\ \E end \in leader_try_to_execute(Leader, highest_to_commit[Leader],
                                        highest_seen[Leader], bit_map) :
       \E upto \in {IF highest_committed[Leader] = highest_to_commit[Leader]
                   THEN end ELSE highest_committed[Leader]} :
       \E again \in Ascending(Unagreed(upto)) :
          /\ highest_to_commit' = [highest_to_commit EXCEPT ![Leader] = end]
          /\ highest_committed' = [highest_committed EXCEPT ![Leader] = upto]
          /\ delivered' = deliver_msg_data(Leader, upto, db[Leader])
          /\ net' = send_to_other_nodes(net, Leader, build_progress_msgs(again, end, upto))
    /\ UNCHANGED <<cur_view, highest_seen, db, bit_map, submitted, faults, outages>>

consensus_update_role(n) ==
    /\ highest_seen' = [highest_seen EXCEPT ![n] = 0]
    /\ highest_to_commit' = [highest_to_commit EXCEPT ![n] = 0]
    /\ highest_committed' = [highest_committed EXCEPT ![n] = 0]

(* The node enters the view and becomes a secondary of it. *)
update_view(n) ==
    /\ cur_view' = [cur_view EXCEPT ![n] = 1]
    /\ consensus_update_role(n)

handle_ping_req_EveryPing(n) ==
    /\ update_view(n)
    /\ UNCHANGED <<db, bit_map, delivered, net, submitted, faults, outages>>

(* A ping of the leader, sent every two seconds, reaches node n.            *)
handle_ping_req(n) ==
    /\ cur_view[n] = 0
    /\ update_view(n)
    /\ UNCHANGED <<db, bit_map, delivered, net, submitted, faults, outages>>

(* A message is not delivered: its connection broke, the peer was not       *)
(* active when it was sent, or its receiver was not in state NODE_ACTIVE.   *)
LoseMsg(c) ==
    /\ net[c] # <<>>
    /\ faults < MaxFaults
    /\ faults' = faults + 1
    /\ net' = [net EXCEPT ![c] = Tail(@)]
    /\ UNCHANGED <<cur_view, highest_seen, stamps, db, bit_map, submitted, outages>>

(* The process of secondary n dies and is started again in mode 'r': its    *)
(* memory and what was on the way to it are gone.  kept are the records     *)
(* its database still has.                                                  *)
Reinitialize(n, kept) ==
    /\ cur_view' = [cur_view EXCEPT ![n] = 0]
    /\ highest_seen' = [highest_seen EXCEPT ![n] = 0]
    /\ highest_to_commit' = [highest_to_commit EXCEPT ![n] = 0]
    /\ highest_committed' = [highest_committed EXCEPT ![n] = 0]
    /\ delivered' = [delivered EXCEPT ![n] = <<>>]
    /\ db' = [db EXCEPT ![n] = [k \in Slot |-> IF k \in kept THEN @[k] ELSE NoRecord]]
    /\ net' = [c \in Chan |-> IF c[2] = n THEN <<>> ELSE net[c]]
    /\ UNCHANGED <<bit_map, submitted>>

(* The process crashes: the database pages are in a mapped region file and  *)
(* outlive it.                                                              *)
Restart(n) ==
    /\ faults < MaxFaults
    /\ faults' = faults + 1
    /\ Reinitialize(n, Slot)
    /\ UNCHANGED outages

(* The host crashes: store_record never syncs, so any of the records may    *)
(* not have reached the disk.                                               *)
PowerLoss(n) ==
    /\ outages < MaxPowerLoss
    /\ outages' = outages + 1
    /\ \E kept \in SUBSET Stored(db[n]) : Reinitialize(n, kept)
    /\ UNCHANGED faults
--------------------------------------------------------------------------------
Next ==
    \/ \E n \in Entry, r \in Request : consensus_submit_request(n, r)
    \/ \E c \in Chan : consensus_handle_msg(c[1], c[2])
    \/ consensus_make_progress
    \/ \E n \in Node \ {Leader} : handle_ping_req(n)
    \/ \E c \in Chan : LoseMsg(c)
    \/ \E n \in Node \ {Leader} : Restart(n)
    \/ \E n \in Node \ {Leader} : PowerLoss(n)

Spec == Init /\ [][Next]_vars

(* The event loop of a live node reads what arrives and runs its timers.    *)
Fairness ==
    /\ \A c \in Chan : WF_vars(consensus_handle_msg(c[1], c[2]))
    /\ WF_vars(consensus_make_progress)
    /\ \A n \in Node \ {Leader} : WF_vars(handle_ping_req(n))

FairSpec == Spec /\ Fairness
--------------------------------------------------------------------------------
(* Properties. *)

Reqs(q) == [i \in DOMAIN q |-> q[i].req]

(* Agreement.  The requests a node has handed to its user call back are a   *)
(* prefix of those the leader has handed to its own: the secondary loops of *)
(* try_to_execute never run ahead of the leader, never skip a slot and      *)
(* never deliver another request in a slot, whatever was lost, resent or    *)
(* fetched with MISSING_REQ.                                                *)
Agreement ==
    \A n \in Node :
        /\ Len(delivered[n]) <= Len(delivered[Leader])
        /\ \A i \in 1..Len(delivered[n]) : delivered[n][i].req = delivered[Leader][i].req

(* The nodes whose database holds in slot k what the leader's holds.        *)
Holders(k) ==
    {n \in Node : db[n][k] # NoRecord /\ db[n][k].req = db[Leader][k].req}

(* A request that any node has executed is in the databases of a majority   *)
(* of the group (bit_map and reached_quorum count what handle_accept_req    *)
(* has stored).                                                             *)
QuorumDurability ==
    \A n \in Node : \A k \in 1..Len(delivered[n]) :
        Cardinality(Holders(k)) >= (GroupSize \div 2) + 1

(* The assertion of leader_try_to_execute, "The Record Should Be Inserted   *)
(* By The Node Itself!", never fails, and the leader's two counters move    *)
(* together, which try_to_execute assumes of a leader.                      *)
LeaderRecordPresent ==
    /\ 1..highest_seen[Leader] \subseteq Stored(db[Leader])
    /\ highest_committed[Leader] = highest_to_commit[Leader]

(* No client request is executed twice by one process: resent ACCEPT_REQs,  *)
(* repeated FORCE_EXECs and late MISSING_ACKs do not deliver again.         *)
ExecutedOnce ==
    \A n \in Node : \A i, j \in 1..Len(delivered[n]) :
        delivered[n][i].req = delivered[n][j].req => i = j

(* Within the view a slot keeps its request at every node, and a record     *)
(* with the client's bytes is never replaced by a damaged one: ACCEPT_REQ   *)
(* overwrites a slot only with what the leader stored there, MISSING_ACK    *)
(* never overwrites.                                                        *)
SlotStable ==
    [][\A n \in Node, k \in Slot :
          db[n][k] # NoRecord /\ db'[n][k] # NoRecord
            => /\ db'[n][k].req = db[n][k].req
               /\ db[n][k].intact => db'[n][k].intact]_vars

(* The inductive invariant behind Agreement, in named parts.  The leader    *)
(* has a record in exactly the slots it has seen, and executes what it      *)
(* finds to be agreed.                                                      *)
LeaderInv ==
    /\ cur_view[Leader] = 1
    /\ highest_committed[Leader] = highest_to_commit[Leader]
    /\ highest_to_commit[Leader] <= highest_seen[Leader]
    /\ \A k \in Slot : db[Leader][k] # NoRecord <=> k <= highest_seen[Leader]

(* No node may execute past the leader's commit point; a node has delivered *)
(* exactly the slots it counts as committed; every copy of a slot holds the *)
(* request that the leader put there.                                       *)
NodeInv ==
    \A n \in Node :
        /\ highest_committed[n] <= highest_to_commit[n]
        /\ highest_to_commit[n] <= highest_to_commit[Leader]
        /\ cur_view[n] = 0 => highest_committed[n] = 0
        /\ Len(delivered[n]) = highest_committed[n]
        /\ \A i \in 1..Len(delivered[n]) : delivered[n][i].req = db[Leader][i].req
        /\ \A k \in Slot : db[n][k] # NoRecord =>
              k <= highest_seen[Leader] /\ db[n][k].req = db[Leader][k].req

(* Messages carry slots, requests and commit points of the leader's past.   *)
MsgOK(m) ==
    /\ m.type \in {"ACCEPT_REQ", "MISSING_ACK"} =>
          m.vs <= highest_seen[Leader] /\ m.data.req = db[Leader][m.vs].req
    /\ m.type = "ACCEPT_REQ" => m.exed <= highest_to_commit[Leader]
    /\ m.type = "FORCE_EXEC" => m.committed <= highest_to_commit[Leader]

MsgInv == \A c \in Chan : \A i \in 1..Len(net[c]) : MsgOK(net[c][i])

AgreementInv == LeaderInv /\ NodeInv /\ MsgInv

(* The strengthening behind QuorumDurability, for a group whose ids stay    *)
(* below the sign bit of int and whose hosts do not crash: a bit is set     *)
(* only for a node that stores the slot, an ACCEPT_ACK is sent only for a   *)
(* slot its sender stores, and the leader has counted a quorum of bits for  *)
(* every slot up to its commit point.                                       *)
DurabilityInv ==
    /\ outages = 0
    /\ \A k \in Slot : bit_map[k] \subseteq {n \in Node : db[n][k] # NoRecord}
    /\ \A c \in Chan : \A i \in 1..Len(net[c]) :
          net[c][i].type = "ACCEPT_ACK" => db[c[1]][net[c][i].vs] # NoRecord
    /\ \A k \in 1..highest_to_commit[Leader] : reached_quorum(bit_map[k])

(* The strengthening behind SlotStable: the leader stores a request with    *)
(* the client's bytes, and the messages that bring it there or copy it from *)
(* there carry them; only a MISSING_ACK may be damaged.                     *)
IntactInv ==
    /\ \A k \in Slot : db[Leader][k] # NoRecord => db[Leader][k].intact
    /\ \A c \in Chan : \A i \in 1..Len(net[c]) :
          net[c][i].type \in {"ACCEPT_REQ", "FORWARD_REQ"} => net[c][i].data.intact

(* No two FORWARD_REQs of the network N carry the same request. *)
ForwardedOnce(N) ==
    \A c, d \in Chan : \A i \in 1..Len(N[c]), j \in 1..Len(N[d]) :
        /\ N[c][i].type = "FORWARD_REQ" /\ N[d][j].type = "FORWARD_REQ"
        /\ N[c][i].data.req = N[d][j].data.req
        => c = d /\ i = j

(* The requests that FORWARD_REQs of the network N carry. *)
FwdReqs(N) ==
    {r \in Request : \E c \in Chan : \E i \in 1..Len(N[c]) :
        N[c][i].type = "FORWARD_REQ" /\ N[c][i].data.req = r}

(* The strengthening behind ExecutedOnce: a request that a client has       *)
(* handed in is in one FORWARD_REQ on its way, or in one slot of the        *)
(* leader, or lost; never in two of these places.                           *)
OnceInv ==
    /\ ForwardedOnce(net)
    /\ FwdReqs(net) \subseteq submitted
    /\ \A k \in Slot : db[Leader][k] # NoRecord =>
          db[Leader][k].req \in submitted \ FwdReqs(net)
    /\ \A j, k \in Slot :
          /\ db[Leader][j] # NoRecord /\ db[Leader][k] # NoRecord
          /\ db[Leader][j].req = db[Leader][k].req
          => j = k

(* The agreed log is what the leader has executed. *)
Log == INSTANCE CommittedLog
         WITH log <- Reqs(delivered[Leader]),
              output <- [n \in Node |-> Reqs(delivered[n])]

(* The message handlers, timers, losses and restarts of the consensus       *)
(* component implement the single agreed log that every user call back is   *)
(* given in order.                                                          *)
ImplementsLog == Log!Spec

(* Every request the leader has given a slot is eventually executed by the  *)
(* leader: consensus_make_progress sends it until a majority acknowledges.  *)
LeaderProgress ==
    \A k \in Slot : highest_seen[Leader] >= k ~> highest_committed[Leader] >= k

(* "When there is request from client and is agreed among the majority of   *)
(* the replica group, your user call back function will be invoked"         *)
(* (README.md): at every replica, the callback eventually gets what the     *)
(* leader has executed.                                                     *)
CatchUp ==
    \A k \in Slot : \A n \in Node :
        highest_committed[Leader] >= k ~> highest_committed[n] >= k
================================================================================
