-------------------------------- MODULE Election -------------------------------
(***************************************************************************)
(* The leader election of src/src/replica-sys/replica.c, from view 1 to    *)
(* view 2: a node that no longer hears the leader of view 1 runs a round   *)
(* of Paxos over the id of the next leader (PREPARE, PREPARE_ACK, ACCEPT,  *)
(* ACCEPT_ACK); whoever learns the result announces it; the nodes report   *)
(* to the new leader how far their logs reach (ANNOUNCE_ACK); and with a   *)
(* majority of reports the new leader fixes the last request of view 1 and *)
(* closes the election (FIN).                                              *)
(*                                                                         *)
(* The group has formed: all nodes have joined view 1 before the first     *)
(* request.  The requests of view 1 are ordered while the election runs,   *)
(* at the nodes that are still active; of the consensus component this     *)
(* module keeps what the election reads of it: which records each node     *)
(* has, highest_seen and highest_to_commit, and who has acknowledged what. *)
(* Messages on one connection stay in order, and a broken connection loses *)
(* them; pings are delivered at once or not at all.                        *)
(*                                                                         *)
(* Elections from view 0 (a restarted node that never hears a leader) and  *)
(* from view 2 are left out, and with them the replies to lagged senders.  *)
(*                                                                         *)
(* Definitions with a suffix (merge_edge_KeepEnd) are mutated forms.       *)
(***************************************************************************)
EXTENDS Integers, Sequences, FiniteSets, FiniteSetsExt

CONSTANTS
    GroupSize,   \* group_size
    OldLeader,   \* the leader of view 1
    MaxReq,      \* cap on the requests of view 1
    MaxPnum,     \* cap on proposal numbers
    MaxQueue,    \* cap on the messages in flight when an election timer fires
    MaxFaults,   \* cap on lost messages and on unfounded suspicions
    MaxCrash,    \* cap on nodes that stop
    MaxRestart   \* cap on nodes that are restarted in mode 'r'

Node == 0..(GroupSize - 1)
Slot == 1..MaxReq
Chan == {c \in Node \X Node : c[1] # c[2]}
None == -1

ASSUME GroupAssumption == GroupSize \in Nat /\ OldLeader \in Node
ASSUME CapAssumption == MaxReq \in Nat /\ MaxPnum \in Nat

VARIABLES
    cur_view,          \* [Node -> [view_id, leader_id, req_id]]
    state,             \* [Node -> "ACTIVE", "INLELE" or "POSTLELE"]
    election_mod,      \* [Node -> Mod]
    net,               \* [Chan -> Seq(Msg)], election messages in flight
    up,                \* the nodes that run
    db,                \* [Node -> SUBSET Slot], the records of view 1
    highest_seen,      \* [Node -> Nat]
    highest_to_commit, \* [Node -> Nat]
    acks,              \* [Slot -> SUBSET Node], ACCEPT_ACKs sent to OldLeader
    agreed,            \* highest_committed of OldLeader in view 1
    faults, crashes, restarts

log == <<db, highest_seen, highest_to_commit, acks, agreed>>
budget == <<faults, crashes, restarts>>
vars == <<cur_view, state, election_mod, net, up, log, budget>>

View == [view_id : 0..2, leader_id : Node \cup {9999}, req_id : 0..MaxReq]

(* Proposal numbers; a node makes one only while it is at most MaxPnum. *)
Pnum == 0..(MaxPnum + GroupSize)

(* The parts of lele_mod that matter.  edge.empty is the set of the slots   *)
(* listed in req_edge, edge.count the nodes with msg_count 1.  What a node  *)
(* has learned or been promised under a number is never without content,    *)
(* or without the number of the promise.                                    *)
Acceptor == [highest_seen_pnum : Pnum, accepted_pnum : Pnum, content : Node \cup {None}]
Promise == [p_pnum : Pnum, a_pnum : Pnum, content : Node \cup {None}]
             \cup [p_pnum : Pnum \cup {None}, a_pnum : {None}, content : Node \cup {None}]
Learned == [pnum : Pnum, content : Node] \cup [pnum : {None}, content : Node \cup {None}]
Edge == [start : 0..MaxReq \cup {None}, end : 0..MaxReq, empty : SUBSET (0..MaxReq),
         count : SUBSET Node]
Mod == [next_pnum : Nat,
        acceptor : Acceptor,
        proposer_arr : [Node -> Promise],
        learner_arr : [Node -> Learned],
        new_leader : Node,
        edge : Edge,
        announce_ack : BOOLEAN]

Msg ==
    [type : {"PREPARE"}, pnum : Pnum]
      \cup [type : {"PREPARE_ACK"}, pnum : Pnum, p_pnum : Pnum, content : Node \cup {None}]
      \cup [type : {"ACCEPT", "ACCEPT_ACK"}, pnum : Pnum, content : Node]
      \cup [type : {"ANNOUNCE"}, content : Node]
      \cup [type : {"ANNOUNCE_ACK"}, content : Node, start_req : 0..MaxReq,
            last_req : 0..MaxReq, empty : SUBSET (0..MaxReq)]
      \cup [type : {"FIN"}, view : View]

(* Type invariant: what the handlers keep of a node's view, election and log. *)
TypeOK ==
    /\ cur_view \in [Node -> View]
    /\ state \in [Node -> {"ACTIVE", "INLELE", "POSTLELE"}]
    /\ election_mod \in [Node -> Mod]
    /\ net \in [Chan -> Seq(Msg)]
    /\ up \subseteq Node
    /\ db \in [Node -> SUBSET Slot]
    /\ highest_seen \in [Node -> 0..MaxReq]
    /\ highest_to_commit \in [Node -> 0..MaxReq]
    /\ acks \in [Slot -> SUBSET Node]
    /\ agreed \in 0..MaxReq
    /\ faults \in Nat /\ crashes \in Nat /\ restarts \in Nat
--------------------------------------------------------------------------------
Majority(S) == Cardinality(S) >= (GroupSize \div 2) + 1

(* memset and initialize_leader_election_mod.  proposer_arr is not          *)
(* initialised, but its p_pnum is never looked at before it is set.         *)
NewMod ==
    [next_pnum |-> 0,
     acceptor |-> [highest_seen_pnum |-> 0, accepted_pnum |-> 0, content |-> 0],
     proposer_arr |-> [i \in Node |-> [p_pnum |-> None, a_pnum |-> None, content |-> None]],
     learner_arr |-> [i \in Node |-> [pnum |-> None, content |-> None]],
     new_leader |-> 0,
     edge |-> [start |-> None, end |-> 0, empty |-> {}, count |-> {}],
     announce_ack |-> FALSE]

(* Peers that do not run are not active: nothing is sent to them. *)
send_to_one_node(N, s, d, m) ==
    IF d \in up THEN [N EXCEPT ![<<s, d>>] = Append(@, m)] ELSE N

send_to_other_nodes(N, s, m) ==
    [c \in Chan |-> IF c[1] = s /\ c[2] \in up THEN Append(N[c], m) ELSE N[c]]

Init ==
    /\ cur_view = [n \in Node |-> [view_id |-> 1, leader_id |-> OldLeader, req_id |-> 0]]
    /\ state = [n \in Node |-> "ACTIVE"]
    /\ election_mod = [n \in Node |-> NewMod]
    /\ net = [c \in Chan |-> <<>>]
    /\ up = Node
    /\ db = [n \in Node |-> {}]
    /\ highest_seen = [n \in Node |-> 0]
    /\ highest_to_commit = [n \in Node |-> 0]
    /\ acks = [k \in Slot |-> {}]
    /\ agreed = 0
    /\ faults = 0 /\ crashes = 0 /\ restarts = 0
--------------------------------------------------------------------------------
(* The requests of view 1: what the consensus component does meanwhile. *)

Follows(n) == n \in up /\ state[n] = "ACTIVE" /\ cur_view[n].view_id < 2
Leads(n) == n \in up /\ cur_view[n].leader_id = n

leader_handle_submit_req ==
    LET k == highest_seen[OldLeader] + 1 IN
    /\ Follows(OldLeader) /\ Leads(OldLeader)
    /\ k <= MaxReq
    /\ db' = [db EXCEPT ![OldLeader] = @ \cup {k}]
    /\ highest_seen' = [highest_seen EXCEPT ![OldLeader] = k]
    /\ acks' = [acks EXCEPT ![k] = {OldLeader}]
    /\ UNCHANGED <<cur_view, state, election_mod, net, up, highest_to_commit, agreed, budget>>

(* Node n stores and acknowledges slot k, or misses it.  A slot may be      *)
(* stored before an earlier one, which was lost and is sent again later.    *)
handle_accept_req(n, k) ==
    /\ Follows(n) /\ n # OldLeader
    /\ k \in db[OldLeader] \ db[n]
    /\ db' = [db EXCEPT ![n] = @ \cup {k}]
    /\ highest_seen' = [highest_seen EXCEPT ![n] = Max({@, k})]
    /\ acks' = [acks EXCEPT ![k] = @ \cup {n}]
    /\ UNCHANGED <<cur_view, state, election_mod, net, up, highest_to_commit, agreed, budget>>

(* The leader of view 1 counts the acknowledgements it has received. *)
leader_try_to_execute ==
    /\ Follows(OldLeader) /\ Leads(OldLeader)
    /\ agreed < highest_seen[OldLeader]
    /\ Majority(acks[agreed + 1])
    /\ agreed' = agreed + 1
    /\ highest_to_commit' = [highest_to_commit EXCEPT ![OldLeader] = agreed + 1]
    /\ UNCHANGED <<cur_view, state, election_mod, net, up, db, highest_seen, acks, budget>>

handle_force_exec(n) ==
    /\ Follows(n) /\ cur_view[n].view_id = 1
    /\ highest_to_commit[n] < agreed
    /\ highest_to_commit' = [highest_to_commit EXCEPT ![n] = agreed]
    /\ UNCHANGED <<cur_view, state, election_mod, net, up, db, highest_seen, acks, agreed, budget>>

(* A record that another node has and n needs for execution is fetched. *)
handle_missing_ack(n, k) ==
    /\ Follows(n)
    /\ k <= highest_to_commit[n]
    /\ k \notin db[n] /\ \E m \in up : Follows(m) /\ k \in db[m]
    /\ db' = [db EXCEPT ![n] = @ \cup {k}]
    /\ UNCHANGED <<cur_view, state, election_mod, net, up, highest_seen, highest_to_commit,
                   acks, agreed, budget>>
--------------------------------------------------------------------------------
(* Starting and giving up an election, entering a view. *)

refresh_leader_election(md) ==
    [md EXCEPT !.learner_arr = [i \in Node |-> [@[i] EXCEPT !.pnum = None]],
               !.proposer_arr = [i \in Node |-> [@[i] EXCEPT !.a_pnum = None, !.content = None]],
               !.acceptor.content = None]

(* expected_leader_ping_period and lost_connection_with_leader: no ping for *)
(* eight seconds, because the leader is down or its pings are late.         *)
expected_leader_ping_period(n) ==
    /\ cur_view[n].leader_id # n
    /\ \/ OldLeader \notin up /\ UNCHANGED faults
       \/ OldLeader \in up /\ faults < MaxFaults /\ faults' = faults + 1

initialize_leader_election(n) ==
    /\ n \in up /\ state[n] = "ACTIVE"
    /\ cur_view[n].view_id = 1
    /\ expected_leader_ping_period(n)
    /\ state' = [state EXCEPT ![n] = "INLELE"]
    /\ election_mod' = [election_mod EXCEPT ![n] =
                          refresh_leader_election([@ EXCEPT !.next_pnum = n])]
    /\ UNCHANGED <<cur_view, net, up, log, crashes, restarts>>

update_view_LastReq(n, v) ==
    /\ cur_view' = [cur_view EXCEPT ![n] = v]
    /\ state' = [state EXCEPT ![n] = "ACTIVE"]
    /\ db' = [db EXCEPT ![n] = IF v.view_id = 1 THEN @ ELSE @ \ {v.req_id}]
    /\ highest_seen' = [highest_seen EXCEPT ![n] = 0]
    /\ highest_to_commit' = [highest_to_commit EXCEPT ![n] = 0]
    /\ UNCHANGED <<acks, agreed>>

(* update_view, become_leader, become_secondary and consensus_update_role.  *)
(* The record after the last request of view 1 is deleted; the boundary     *)
(* record of the new view has the key (2, 0), outside db.                   *)
update_view(n, v) ==
    /\ cur_view' = [cur_view EXCEPT ![n] = v]
    /\ state' = [state EXCEPT ![n] = "ACTIVE"]
    /\ db' = [db EXCEPT ![n] = IF v.view_id = 1 THEN @ ELSE @ \ {v.req_id + 1}]
    /\ highest_seen' = [highest_seen EXCEPT ![n] = 0]
    /\ highest_to_commit' = [highest_to_commit EXCEPT ![n] = 0]
    /\ UNCHANGED <<acks, agreed>>

(* Node n gets a ping of l, which leads the view it is in. *)
handle_ping_req(l, n) ==
    /\ Leads(l) /\ n \in up \ {l}
    /\ state[n] # "POSTLELE"
    /\ \/ /\ cur_view[l].view_id = cur_view[n].view_id + 1
          /\ update_view(n, cur_view[l])
       \/ /\ cur_view[l].view_id = cur_view[n].view_id
          /\ state[n] = "INLELE"
          /\ state' = [state EXCEPT ![n] = "ACTIVE"]
          /\ UNCHANGED <<cur_view, log>>
    /\ UNCHANGED <<election_mod, net, up, budget>>
--------------------------------------------------------------------------------
(* Paxos over the id of the next leader.  An operator named for a function  *)
(* gives what the function, called at node n with module md and network N,  *)
(* leaves of the two and of the node's state.                               *)

Result(n, md, N) == [mod |-> md, net |-> N, state |-> state[n]]

Apply(n, r) ==
    /\ election_mod' = [election_mod EXCEPT ![n] = r.mod]
    /\ net' = r.net
    /\ state' = [state EXCEPT ![n] = r.state]
    /\ UNCHANGED <<cur_view, up, log>>

origin(md) == md.next_pnum - GroupSize

Promises(md) == {i \in Node : md.proposer_arr[i].p_pnum = origin(md)
                               /\ md.proposer_arr[i].a_pnum # None}

proposer_check_prepare(md) == Majority(Promises(md))

proposed_content_NoDefault(n, md) ==
    LET top == Max({md.proposer_arr[i].a_pnum : i \in Promises(md)})
    IN  md.proposer_arr[Min({i \in Promises(md) : md.proposer_arr[i].a_pnum = top})].content

proposed_content_Self(n, md) == n

(* The content that goes with the highest accepted number among the         *)
(* promises, the first of them; a node without one proposes itself.         *)
proposed_content(n, md) ==
    LET top     == Max({md.proposer_arr[i].a_pnum : i \in Promises(md)})
        first   == Min({i \in Promises(md) : md.proposer_arr[i].a_pnum = top})
        content == md.proposer_arr[first].content
    IN  IF content = None THEN n ELSE content

(* leader_election_proposer_phase_two, if enough nodes have promised. *)
leader_election_proposer_phase_two(n, md, N) ==
    LET content == proposed_content(n, md) IN
    IF proposer_check_prepare(md)
    THEN Result(n,
           [md EXCEPT !.learner_arr[n] = [pnum |-> origin(md), content |-> content]],
           send_to_other_nodes(N, n,
             [type |-> "ACCEPT", pnum |-> origin(md), content |-> content]))
    ELSE Result(n, md, N)

(* leader_election_proposer_do without a message: a new PREPARE. *)
leader_election_proposer_do(n, md, N) ==
    LET pnum == md.next_pnum
        next == [md EXCEPT !.next_pnum = pnum + GroupSize]
        sent == send_to_other_nodes(N, n, [type |-> "PREPARE", pnum |-> pnum])
        mine == [p_pnum |-> pnum, a_pnum |-> md.acceptor.accepted_pnum,
                 content |-> md.acceptor.content]
    IN  IF md.acceptor.highest_seen_pnum < pnum
        THEN leader_election_proposer_phase_two(n,
               [next EXCEPT !.acceptor.highest_seen_pnum = pnum, !.proposer_arr[n] = mine],
               sent)
        ELSE Result(n, next, sent)

handle_prepare_ack(s, n, m, md, N) ==
    IF m.p_pnum = origin(md)
    THEN leader_election_proposer_phase_two(n,
           [md EXCEPT !.proposer_arr[s] =
              [p_pnum |-> m.p_pnum, a_pnum |-> m.pnum, content |-> m.content]], N)
    ELSE Result(n, md, N)

(* leader_election_acceptor_do for a PREPARE: it also forgets the content   *)
(* of what it has accepted.                                                 *)
handle_prepare(s, n, m, md, N) ==
    IF m.pnum > md.acceptor.highest_seen_pnum
    THEN Result(n,
           [md EXCEPT !.acceptor.highest_seen_pnum = m.pnum, !.acceptor.content = None],
           send_to_one_node(N, n, s,
             [type |-> "PREPARE_ACK", pnum |-> md.acceptor.accepted_pnum,
              p_pnum |-> m.pnum, content |-> None]))
    ELSE Result(n, md, N)
--------------------------------------------------------------------------------
(* The result of the election, and the edge of the log: which requests of   *)
(* view 1 the new view keeps.                                               *)

(* The slots of start..end without a record.  Slot 0 has none in view 1. *)
EmptySlots(n, start, end) == {k \in start..end : k \notin db[n]}

(* leader_election_initialize_edge_mod and leader_election_leader_cal_edge. *)
leader_election_initialize_edge_mod(n) ==
    [start |-> highest_to_commit[n],
     end   |-> highest_seen[n],
     empty |-> EmptySlots(n, highest_to_commit[n], highest_seen[n]),
     count |-> {n}]

(* The message of leader_election_cal_edge.  Its loop runs over the edge of *)
(* the module, not over the range it reports.                               *)
leader_election_cal_edge(n, leader, md) ==
    [type |-> "ANNOUNCE_ACK", content |-> leader,
     start_req |-> highest_to_commit[n], last_req |-> highest_seen[n],
     empty |-> IF md.edge.start = None THEN {}
               ELSE EmptySlots(n, md.edge.start, md.edge.end)]

leader_election_enter_post_stage(md, leader) == [md EXCEPT !.new_leader = leader]

leader_election_handle_announce(n, leader, md, N) ==
    LET new == leader_election_enter_post_stage(md, leader) IN
    IF leader = n
    THEN [mod   |-> [new EXCEPT !.edge = leader_election_initialize_edge_mod(n)],
          net   |-> N,
          state |-> "POSTLELE"]
    ELSE [mod   |-> [new EXCEPT !.announce_ack = TRUE],
          net   |-> send_to_one_node(N, n, leader, leader_election_cal_edge(n, leader, md)),
          state |-> "POSTLELE"]

(* The nodes whose latest accepted number is shared by a majority.          *)
learner_check_accept(md) ==
    {i \in Node : /\ md.learner_arr[i].pnum # None
                  /\ Majority({j \in Node : md.learner_arr[j].pnum = md.learner_arr[i].pnum})}

(* leader_election_learner_do for an ACCEPT_ACK m of node s. *)
leader_election_learner_do(s, n, m, md, N) ==
    LET new == [md EXCEPT !.learner_arr[s] = [pnum |-> m.pnum, content |-> m.content]]
        leader == new.learner_arr[Min(learner_check_accept(new))].content
    IN  IF m.pnum <= md.learner_arr[s].pnum THEN Result(n, md, N)
        ELSE IF learner_check_accept(new) = {} THEN Result(n, new, N)
        ELSE leader_election_handle_announce(n, leader, new,
               send_to_other_nodes(N, n, [type |-> "ANNOUNCE", content |-> leader]))

(* leader_election_acceptor_do for an ACCEPT: the node's own learner gets   *)
(* the acknowledgement before the others.                                   *)
handle_accept(s, n, m, md, N) ==
    LET ack == [type |-> "ACCEPT_ACK", pnum |-> m.pnum, content |-> m.content]
        r   == leader_election_learner_do(n, n, ack,
                 [md EXCEPT !.acceptor = [highest_seen_pnum |-> m.pnum,
                                          accepted_pnum |-> m.pnum,
                                          content |-> m.content]], N)
    IN  IF m.pnum >= md.acceptor.highest_seen_pnum
        THEN [r EXCEPT !.net = send_to_other_nodes(@, n, ack)]
        ELSE Result(n, md, N)

leader_election_build_close(v) == [type |-> "FIN", view |-> v]

(* leader_election_leader_close: the last request of view 1 is the one      *)
(* before the first slot that no node has reported.                         *)
leader_election_leader_close(n, md) ==
    [view_id   |-> 2,
     leader_id |-> md.new_leader,
     req_id    |-> IF md.edge.empty = {} THEN md.edge.end ELSE Min(md.edge.empty) - 1]

merge_edge_KeepEnd(edge, s, m, garbage) ==
    [edge EXCEPT !.count = @ \cup {s}]

(* The merge of leader_election_handle_announce_ack: node s has all slots   *)
(* up to last_req but the ones it lists.  Read past the end of its list,    *)
(* the message yields garbage.                                              *)
merge_edge(edge, s, m, garbage) ==
    LET left  == {e \in edge.empty : edge.start >= m.start_req \/ e > m.start_req}
        kept  == {e \in left : \/ e \in m.empty
                               \/ e > m.last_req /\ \A p \in m.empty : e > p}
        more  == {p \in m.empty : /\ \A e \in left : e < p
                                  /\ edge.end < p /\ p < Cardinality(m.empty)}
        tail  == IF \E e \in left : \A p \in m.empty : e > p THEN {} ELSE more \cup garbage
    IN  [start |-> Max({edge.start, m.start_req}),
         end   |-> Max({edge.end, m.last_req}),
         empty |-> (kept \cup tail) \ {0},
         count |-> edge.count \cup {s}]

(* The loop that merges the lists does not advance at a slot that only the  *)
(* message lists.                                                           *)
merge_hangs(edge, m) ==
    \E p \in m.empty \ edge.empty : \E e \in edge.empty :
        e > p /\ (edge.start >= m.start_req \/ e > m.start_req)

leader_election_handle_announce_ack(s, n, m, N) ==
    LET first == election_mod[n].edge.start = None /\ n = m.content
        r     == IF first THEN leader_election_handle_announce(n, n, election_mod[n], N)
                 ELSE Result(n, election_mod[n], N)
    IN  \/ /\ s \in r.mod.edge.count
           /\ Apply(n, r)
        \/ /\ s \notin r.mod.edge.count
           /\ merge_hangs(r.mod.edge, m)
           /\ up' = up \ {n}
           /\ net' = [c \in Chan |-> IF c[2] = n THEN <<>> ELSE N[c]]
           /\ UNCHANGED <<cur_view, state, election_mod, log>>
        \/ /\ s \notin r.mod.edge.count
           /\ ~merge_hangs(r.mod.edge, m)
           /\ \E garbage \in SUBSET (1..(Cardinality(m.empty) - 1)) :
              LET edge == merge_edge(r.mod.edge, s, m, garbage)
                  md   == [r.mod EXCEPT !.edge = edge]
                  v    == leader_election_leader_close(n, md)
              IN  IF Majority(edge.count)
                  THEN /\ update_view(n, v)
                       /\ election_mod' = [election_mod EXCEPT ![n] = md]
                       /\ net' = send_to_other_nodes(N, n, leader_election_build_close(v))
                       /\ UNCHANGED up
                  ELSE Apply(n, [r EXCEPT !.mod = md])

leader_election_handle_close(n, m, N) ==
    /\ update_view(n, m.view)
    /\ net' = N
    /\ UNCHANGED <<election_mod, up>>

(* handle_msg and handle_leader_election_msg: an active node drops the      *)
(* messages of an election.                                                 *)
handle_leader_election_msg(s, n) ==
    /\ n \in up
    /\ net[<<s, n>>] # <<>>
    /\ LET m  == Head(net[<<s, n>>])
           N  == [net EXCEPT ![<<s, n>>] = Tail(@)]
           md == election_mod[n]
       IN  IF state[n] = "ACTIVE"
           THEN net' = N /\ UNCHANGED <<cur_view, state, election_mod, up, log>>
           ELSE \/ m.type = "PREPARE" /\ Apply(n, handle_prepare(s, n, m, md, N))
                \/ m.type = "PREPARE_ACK" /\ Apply(n, handle_prepare_ack(s, n, m, md, N))
                \/ m.type = "ACCEPT" /\ Apply(n, handle_accept(s, n, m, md, N))
                \/ m.type = "ACCEPT_ACK" /\ Apply(n, leader_election_learner_do(s, n, m, md, N))
                \/ m.type = "ANNOUNCE"
                     /\ Apply(n, leader_election_handle_announce(n, m.content, md, N))
                \/ m.type = "ANNOUNCE_ACK" /\ leader_election_handle_announce_ack(s, n, m, N)
                \/ m.type = "FIN" /\ leader_election_handle_close(n, m, N)
    /\ UNCHANGED budget

InFlight == UNION {{c} \X (1..Len(net[c])) : c \in Chan}

(* The timer slient_period, armed all through an election.  After the       *)
(* result is known it only sends the ANNOUNCE_ACK again.                    *)
leader_election_on_timeout(n) ==
    LET md == election_mod[n] IN
    /\ n \in up
    /\ Cardinality(InFlight) <= MaxQueue
    /\ \/ /\ state[n] = "INLELE"
          /\ md.next_pnum <= MaxPnum
          /\ Apply(n, leader_election_proposer_do(n, md, net))
       \/ /\ state[n] = "POSTLELE"
          /\ md.new_leader # n /\ md.announce_ack
          /\ Apply(n, Result(n, md, send_to_one_node(net, n, md.new_leader,
                                      leader_election_cal_edge(n, md.new_leader, md))))
    /\ UNCHANGED budget
--------------------------------------------------------------------------------
(* Faults. *)

(* A connection breaks: what was sent last is lost. *)
LoseMsg(c) ==
    /\ faults < MaxFaults
    /\ faults' = faults + 1
    /\ \E k \in 0..(Len(net[c]) - 1) : net' = [net EXCEPT ![c] = SubSeq(@, 1, k)]
    /\ UNCHANGED <<cur_view, state, election_mod, up, log, crashes, restarts>>

(* A node stops.  What was on the way to it is gone. *)
Crash(n) ==
    /\ n \in up
    /\ crashes < MaxCrash
    /\ crashes' = crashes + 1
    /\ up' = up \ {n}
    /\ net' = [c \in Chan |-> IF c[2] = n THEN <<>> ELSE net[c]]
    /\ UNCHANGED <<cur_view, state, election_mod, log, faults, restarts>>

(* system_initialize in mode 'r': the node has its records, and its memory  *)
(* is as it was at the first start.                                         *)
Restart(n) ==
    /\ n \in up /\ restarts < MaxRestart
    /\ restarts' = restarts + 1
    /\ cur_view' = [cur_view EXCEPT ![n] = [view_id |-> 0, leader_id |-> 9999, req_id |-> 0]]
    /\ state' = [state EXCEPT ![n] = "ACTIVE"]
    /\ election_mod' = [election_mod EXCEPT ![n] = NewMod]
    /\ highest_seen' = [highest_seen EXCEPT ![n] = 0]
    /\ highest_to_commit' = [highest_to_commit EXCEPT ![n] = 0]
    /\ net' = [c \in Chan |-> IF c[2] = n THEN <<>> ELSE net[c]]
    /\ UNCHANGED <<up, db, acks, agreed, faults, crashes>>
--------------------------------------------------------------------------------
Next ==
    \/ leader_handle_submit_req
    \/ \E n \in Node, k \in Slot : handle_accept_req(n, k) \/ handle_missing_ack(n, k)
    \/ leader_try_to_execute
    \/ \E n \in Node : handle_force_exec(n)
    \/ \E n \in Node : initialize_leader_election(n)
    \/ \E l, n \in Node : handle_ping_req(l, n)
    \/ \E c \in Chan : handle_leader_election_msg(c[1], c[2])
    \/ \E n \in Node : leader_election_on_timeout(n)
    \/ \E c \in Chan : LoseMsg(c)
    \/ \E n \in Node : Crash(n)
    \/ \E n \in Node \ {OldLeader} : Restart(n)

Spec == Init /\ [][Next]_vars
--------------------------------------------------------------------------------
(* Properties. *)

(* The leader of view 2 that node n knows of. *)
Elected(n) ==
    CASE cur_view[n].view_id = 2 -> {cur_view[n].leader_id}
      [] state[n] = "POSTLELE"   -> {election_mod[n].new_leader}
      [] OTHER                   -> {}

(* "the node id is the only thing we need to get consensus"                 *)
(* (view_controller.h): all nodes that know a result know the same one, so  *)
(* view 2 has one leader.                                                   *)
OneLeader == \A m, n \in Node : Cardinality(Elected(m) \cup Elected(n)) <= 1

(* What view 2 starts from, at node n: no request that the leader of view 1 *)
(* has executed, or executes later, lies beyond the boundary, and n still   *)
(* has the records of those it acknowledged.                                *)
Keeps(n) ==
    cur_view[n].view_id = 2 => /\ agreed <= cur_view[n].req_id
                               /\ {k \in 1..agreed : n \in acks[k]} \subseteq db[n]

(* As long as no node restarts, the new view keeps every request that the   *)
(* leader of view 1 ever executes: the majority that reported to            *)
(* leader_election_leader_close meets the majority that acknowledged the    *)
(* request, and the record that update_view deletes is none of them.        *)
CommittedKept == restarts = 0 => \A n \in Node : Keeps(n)

(* "record the data persistently" (consensus.c): a node that was started in *)
(* mode 'r' has its records, so restarts change nothing about what the new  *)
(* view keeps.                                                              *)
PersistentKept == \A n \in Node : Keeps(n)

(* A node that was announced as the new leader, and made an edge for it, is *)
(* not told of another one: leader_election_enter_post_stage, which         *)
(* overwrites new_leader whatever it was, keeps it.                         *)
Unchallenged ==
    \A n \in Node : election_mod[n].edge.start # None => election_mod[n].new_leader = n

(* A node that knows the result, or is in view 2, acknowledges no more      *)
(* requests of view 1.                                                      *)
Left(n) == state[n] = "POSTLELE" \/ cur_view[n].view_id = 2

(* Request r + 1 of view 1 will never be executed: a majority has left the  *)
(* view without acknowledging it.                                           *)
Sealed(r) ==
    \E Q \in SUBSET Node :
        Majority(Q) /\ \A s \in Q : Left(s) /\ (r + 1 \in Slot => s \notin acks[r + 1])

(* The strengthening behind CommittedKept, in named parts.  A node is in    *)
(* an election only in view 1.                                              *)
ViewInv == \A n \in Node : /\ cur_view[n].view_id \in {1, 2}
                           /\ state[n] # "ACTIVE" => cur_view[n].view_id = 1

(* The leader of view 1 has seen what anybody acknowledges, and executes    *)
(* with a majority; who acknowledges has the record, unless entering view 2 *)
(* has deleted it.                                                          *)
AckInv ==
    /\ \A k \in 1..agreed : Majority(acks[k])
    /\ \A n \in Node : highest_to_commit[n] <= agreed
    /\ cur_view[OldLeader].view_id = 1 =>
         /\ agreed <= highest_seen[OldLeader]
         /\ \A k \in Slot : acks[k] # {} \/ k \in db[OldLeader] => k <= highest_seen[OldLeader]
    /\ \A n \in Node, k \in Slot : n \in acks[k] =>
         /\ cur_view[n].view_id = 1 => k \in db[n] /\ k <= highest_seen[n]
         /\ cur_view[n].view_id = 2 /\ k # cur_view[n].req_id + 1 => k \in db[n]

(* Node s has left view 1, and has acknowledged no slot beyond the end and  *)
(* none that is listed as empty.                                            *)
Covers(s, end, empty) ==
    Left(s) /\ \A k \in Slot : s \in acks[k] => k <= end /\ k \notin empty

(* The edge of node n covers the nodes it counts, a report covers its       *)
(* sender, and a boundary that is announced is sealed.                      *)
EdgeOK(n, edge) ==
    edge.start # None =>
        n \in edge.count /\ \A s \in edge.count : Covers(s, edge.end, edge.empty)

EdgeInv == \A n \in Node : EdgeOK(n, election_mod[n].edge)

ReportOK(c, m) ==
    /\ m.type = "ANNOUNCE_ACK" =>
         m.content = c[2] /\ m.empty = {} /\ Covers(c[1], m.last_req, m.empty)
    /\ m.type = "FIN" => m.view.view_id = 2 /\ Sealed(m.view.req_id)

ReportInv == \A c \in Chan : \A i \in 1..Len(net[c]) : ReportOK(c, net[c][i])

BoundaryInv == \A n \in Node : cur_view[n].view_id = 2 => Sealed(cur_view[n].req_id)

(* The invariant that CommittedKept rests on: until a node restarts, what   *)
(* leader_election_handle_announce_ack merges, what                         *)
(* leader_election_leader_close announces and what update_view deletes      *)
(* agree with what the nodes have acknowledged and will acknowledge.        *)
KeptInv == restarts = 0 => ViewInv /\ AckInv /\ EdgeInv /\ ReportInv /\ BoundaryInv
================================================================================
