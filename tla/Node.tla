--------------------------------- MODULE Node ---------------------------------
(***************************************************************************)
(* The life of a replica (replica-sys/replica.c): reading the              *)
(* configuration, starting, the links to its peers, the leader's pings,    *)
(* the timers that watch them, joining a view and losing one's role.       *)
(* Every handler runs in the single event loop of its node, so an action   *)
(* is a handler. Time passes in ticks; what is due at a tick is handled    *)
(* before the next one. The handlers of one node that are due together run *)
(* in any order. Those of different nodes do not see each other, because a *)
(* message takes at least a tick, and run in the order of the node ids;    *)
(* faults happen between two rounds of handlers.                           *)
(*                                                                         *)
(* The election itself is the subject of module Election; here it is two   *)
(* steps: a majority that has lost its leader learns of the new one, and   *)
(* the new one, which has their reports, enters the next view and tells    *)
(* the others with a single message.                                       *)
(***************************************************************************)
EXTENDS Integers, FiniteSets

CONSTANTS
    GroupSize,  \* number of replicas; a node id is an index of peer_pool
    File,       \* the configuration files the replicas are started with
    Skew,       \* Skew[n]: how far the clock of node n is ahead
    Delay,      \* a message is delivered at most Delay ticks after it was sent
    MaxSilence, \* bound: the history silence is counted up to here
    MaxView,    \* bound: last view
    MaxStart,   \* bound: starts of a process, the first ones included
    MaxFault    \* bound: crashes of a process and cuts of a node from the network

Replica == 0 .. GroupSize - 1

(* A timer event of libevent: NULL before evtimer_new, FREED after           *)
(* event_free, DISARMED when it is not pending, or the ticks until it fires. *)
NULL == -3
FREED == -2
DISARMED == -1

(* The state of a link of peer_pool: no connection and the reconnect timer   *)
(* running (0..), waiting for the result of connect, connected, or connected *)
(* to an end that is gone, which the next event of the link will tell.       *)
ACTIVE == -1
CONNECTING == -2
BROKEN == -3
NOLINK == -4         \* peer_pool has an entry of the node itself, never connected

NONE == 9999         \* leader_id of a node that is in no view
Absent == -1         \* a setting the configuration file leaves out

NODE_ACTIVE == "active"
NODE_INLELE == "inlele"       \* looking for a new leader
NODE_POSTLELE == "postlele"   \* waiting for the FIN of the new leader

NodeAssumption ==
    /\ GroupSize \in Nat \ {0} /\ GroupSize < NONE
    /\ Delay \in Nat \ {0} /\ MaxSilence \in Nat
    /\ MaxView \in Nat \ {0}
    /\ Skew \in [Replica -> Int]
ASSUME NodeAssumption

VARIABLES
    node,     \* node[n]: the fields of node_t, up = the process runs
    peer,     \* peer[n][m]: the link of n to m, which carries n's messages
    net,      \* pings, and the new leader's FIN, on their way
    cut,      \* nodes without network
    budget    \* starts and faults so far

vars == <<node, peer, net, cut, budget>>

(***************************************************************************)
(* Configuration: defaults of system_initialize, overridden by the file.   *)
(***************************************************************************)
DefaultTime == [make_progress |-> 1, ping |-> 1, expect_ping |-> 4, reconnect |-> 1]

(* The times of a file are numbers of seconds. *)
FileAssumption ==
    \A f \in File : f.time \in [DOMAIN DefaultTime -> Nat \cup {Absent}]
ASSUME FileAssumption

(* consensus_read_config returns an error when the file cannot be read, has   *)
(* no group size or one that the node id is not below, or lacks the complete  *)
(* section of a node; every time the file gives replaces the default.         *)
consensus_read_config(n, f) ==
    IF f.group_size # Absent /\ n < f.group_size /\ f.sections >= f.group_size
    THEN {[t \in DOMAIN DefaultTime |->
             IF f.time[t] # Absent THEN f.time[t] ELSE DefaultTime[t]]}
    ELSE {}

(* proxy_read_config, before it: the sections of this node for the proxy, the *)
(* consensus component and the server.                                        *)
proxy_read_config(n, f) ==
    f.group_size # Absent /\ n < f.group_size /\ n < f.sections /\ n < f.proxies

isLeader(n, r) == r.leader_id = n

Down == [up |-> FALSE, config |-> DefaultTime, state |-> NODE_ACTIVE,
         view_id |-> 0, leader_id |-> NONE, new_leader |-> NONE,
         ev_leader_ping |-> NULL, ev_expect_ping |-> NULL, ev_make_progress |-> NULL,
         last_ping_msg |-> 0, silence |-> 0]

(* A timer event, the fields of node_t with new_leader of its election_mod,  *)
(* and a message: a ping, its answer, or the FIN of an election.             *)
Timer == Nat \cup {NULL, FREED, DISARMED}

node_t ==
    [up : BOOLEAN, config : [DOMAIN DefaultTime -> Nat],
     state : {NODE_ACTIVE, NODE_INLELE, NODE_POSTLELE},
     view_id : 0 .. MaxView, leader_id : Replica \cup {NONE},
     new_leader : Replica \cup {NONE},
     ev_leader_ping : Timer, ev_expect_ping : Timer, ev_make_progress : Timer,
     last_ping_msg : Int, silence : 0 .. MaxSilence]

sys_msg ==
    [type : {"PING_REQ", "PING_ACK", "FIN"}, from : Replica, to : Replica, age : 0 .. Delay,
     view_id : 0 .. MaxView, leader_id : Replica \cup {NONE}]

(* Type invariant: what the handlers keep of a node, its links and messages. *)
TypeOK ==
    /\ node \in [Replica -> node_t]
    /\ peer \in [Replica -> [Replica -> Int]]
    /\ net \subseteq sys_msg
    /\ cut \subseteq Replica
    /\ budget \in [start : Nat, fault : Nat]

(***************************************************************************)
(* Timers.                                                                 *)
(***************************************************************************)
evtimer_new(e) == IF e = NULL THEN DISARMED ELSE e
evtimer_del(e) == IF e = NULL THEN NULL ELSE DISARMED

initialize_leader_ping(r) ==
    [r EXCEPT !.ev_expect_ping = evtimer_del(@),
              !.ev_leader_ping = r.config.ping]

initialize_expect_ping(r) ==
    [r EXCEPT !.ev_leader_ping = evtimer_del(@),
              !.ev_expect_ping = r.config.expect_ping]

initialize_leader_make_progress(r) ==
    [r EXCEPT !.ev_make_progress = r.config.make_progress]

(***************************************************************************)
(* Views.                                                                  *)
(***************************************************************************)
(* become_leader does not start the make-progress timer. *)
become_leader(r) == initialize_leader_ping(r)
become_secondary(r) == [initialize_expect_ping(r) EXCEPT !.silence = 0]

update_view_KeepsTimers(n, r, view) ==
    IF r.view_id + 1 # view.view_id THEN r
    ELSE [r EXCEPT !.view_id = view.view_id, !.leader_id = view.leader_id,
                   !.state = NODE_ACTIVE]

(* Only the next view can be entered. *)
update_view(n, r, view) ==
    IF r.view_id + 1 # view.view_id THEN r
    ELSE LET s == [r EXCEPT !.view_id = view.view_id,
                            !.leader_id = view.leader_id,
                            !.state = NODE_ACTIVE]
         IN IF isLeader(n, s) THEN become_leader(s) ELSE become_secondary(s)


(***************************************************************************)
(* Messages.                                                               *)
(***************************************************************************)
(* A message carries the view of its sender; age is the true time since     *)
(* its timestamp was taken.                                                 *)
build_ping(type, n, m) ==
    [type |-> type, from |-> n, to |-> m, age |-> 0,
     view_id |-> node[n].view_id, leader_id |-> node[n].leader_id]

send_to_other_nodes(n) ==
    {build_ping("PING_REQ", n, m) : m \in {p \in Replica \ {n} : peer[n][p] = ACTIVE}}

send_to_one_node(n, m) ==
    {build_ping("PING_ACK", n, m) : p \in {p \in {m} : peer[n][p] = ACTIVE}}

leader_election_build_close(l, m) ==
    [type |-> "FIN", from |-> l, to |-> m, age |-> 0,
     view_id |-> node[l].view_id + 1, leader_id |-> l]

Up(n) == node[n].up
Reachable(n, m) == Up(m) /\ n \notin cut /\ m \notin cut

(* Some handler of node n has to run before time goes on. *)
Due(n) ==
    /\ Up(n)
    /\ \/ 0 \in {node[n].ev_leader_ping, node[n].ev_expect_ping, node[n].ev_make_progress}
       \/ \E m \in Replica : peer[n][m] \in {0, CONNECTING, BROKEN}
       \/ \E m \in net : m.to = n /\ m.age = Delay
Quiet == \A n \in Replica : ~Due(n)
Turn(n) == Up(n) /\ \A m \in Replica : m < n => ~Due(m)

(***************************************************************************)
(* Start: main, proxy_init, system_initialize, initialize_node.            *)
(***************************************************************************)
system_initialize_NoNone(n, mode, config) ==
    initialize_expect_ping([Down EXCEPT !.up = TRUE, !.config = config, !.leader_id = -1])

(* Mode 's' makes the node the leader of view 1; mode 'r' leaves it in no   *)
(* view until it hears a ping. connect_peers starts every link.             *)
system_initialize(n, mode, config) ==
    LET r == [Down EXCEPT !.up = TRUE, !.config = config,
                          !.view_id = IF mode = "s" THEN 1 ELSE 0,
                          !.leader_id = IF mode = "s" THEN n ELSE NONE]
    IN IF isLeader(n, r)
       THEN initialize_leader_make_progress(initialize_leader_ping(r))
       ELSE initialize_expect_ping(r)

connect_peers(n) == [m \in Replica |-> IF m = n THEN NOLINK ELSE CONNECTING]

(* The operator starts the seed first, and afterwards everyone, the seed too, *)
(* in recovery mode. A start that fails ends the process again.               *)
main(n) ==
    /\ Quiet /\ ~Up(n)
    /\ budget.start < MaxStart
    /\ budget' = [budget EXCEPT !.start = @ + 1]
    /\ \E f \in File, mode \in {"s", "r"} :
         /\ mode = "s" <=> budget.fault = 0 /\ \A m \in Replica : ~Up(m)
         /\ mode = "s" => n = 0
         /\ LET config == consensus_read_config(n, f)
                started == proxy_read_config(n, f) /\ config # {}
            IN /\ node' = [node EXCEPT ![n] =
                             IF started
                             THEN system_initialize(n, mode, CHOOSE c \in config : TRUE)
                             ELSE @]
               /\ peer' = [peer EXCEPT ![n] =
                             IF started THEN connect_peers(n) ELSE @]
    /\ UNCHANGED <<net, cut>>

(***************************************************************************)
(* Links.                                                                  *)
(***************************************************************************)
peer_node_on_event_NoRetry(n) ==
    /\ Turn(n)
    /\ \E m \in Replica : peer[n][m] \in {CONNECTING, BROKEN}
    /\ peer' = [peer EXCEPT ![n] = [m \in Replica |->
                  IF peer[n][m] = CONNECTING /\ Reachable(n, m) THEN ACTIVE
                  ELSE IF peer[n][m] \in {CONNECTING, BROKEN} THEN NOLINK
                  ELSE peer[n][m]]]
    /\ UNCHANGED <<node, net, cut, budget>>

peer_node_on_event_NoReconnect(n) ==
    /\ Turn(n)
    /\ \E m \in Replica : peer[n][m] \in {CONNECTING, BROKEN}
    /\ peer' = [peer EXCEPT ![n] = [m \in Replica |->
                  IF peer[n][m] = CONNECTING /\ Reachable(n, m) THEN ACTIVE
                  ELSE IF peer[n][m] = CONNECTING THEN node[n].config.reconnect
                  ELSE IF peer[n][m] = BROKEN THEN NOLINK
                  ELSE peer[n][m]]]
    /\ UNCHANGED <<node, net, cut, budget>>

(* The events of the links of a node: connect succeeds, or it fails, or the *)
(* connection is gone, and is tried again after the reconnect period. Each  *)
(* link is touched by its own call back only, so the call backs that are    *)
(* due together are one step.                                               *)
peer_node_on_event(n) ==
    /\ Turn(n)
    /\ \E m \in Replica : peer[n][m] \in {CONNECTING, BROKEN}
    /\ peer' = [peer EXCEPT ![n] = [m \in Replica |->
                  IF peer[n][m] = CONNECTING /\ Reachable(n, m) THEN ACTIVE
                  ELSE IF peer[n][m] \in {CONNECTING, BROKEN} THEN node[n].config.reconnect
                  ELSE peer[n][m]]]
    /\ UNCHANGED <<node, net, cut, budget>>

peer_node_on_timeout(n) ==
    /\ Turn(n)
    /\ \E m \in Replica : peer[n][m] = 0
    /\ peer' = [peer EXCEPT ![n] = [m \in Replica |->
                  IF peer[n][m] = 0 THEN CONNECTING ELSE peer[n][m]]]
    /\ UNCHANGED <<node, net, cut, budget>>

(***************************************************************************)
(* Timer call backs.                                                       *)
(***************************************************************************)
(* The other branch, for a node that no longer leads, frees the event and     *)
(* starts to watch the leader.                                                *)
leader_ping_period(n) ==
    LET r == node[n] IN
    /\ Turn(n) /\ r.ev_leader_ping = 0
    /\ net' = net \cup IF isLeader(n, r) THEN send_to_other_nodes(n) ELSE {}
    /\ node' = [node EXCEPT ![n] =
                  IF isLeader(n, r) THEN [r EXCEPT !.ev_leader_ping = r.config.ping]
                  ELSE [initialize_expect_ping(r) EXCEPT !.ev_leader_ping = FREED]]
    /\ UNCHANGED <<peer, cut, budget>>

(* The election gets its own timers. *)
lost_connection_with_leader(r) ==
    [r EXCEPT !.state = NODE_INLELE, !.ev_expect_ping = DISARMED]

Recent_Swapped(r) == {b \in BOOLEAN : /\ r.last_ping_msg > r.config.expect_ping => b
                                      /\ r.last_ping_msg < r.config.expect_ping => ~b}

(* The timestamp of the last ping is compared with the local clock: unless  *)
(* it is recent the leader is lost and an election starts. Which of the two *)
(* is later when both fall into the same tick is open.                      *)
Recent(r) == {b \in BOOLEAN : /\ r.last_ping_msg < r.config.expect_ping => b
                              /\ r.last_ping_msg > r.config.expect_ping => ~b}

expected_leader_ping_period(n) ==
    LET r == node[n] IN
    /\ Turn(n) /\ r.ev_expect_ping = 0
    /\ \E recent \in Recent(r) :
         node' = [node EXCEPT ![n] =
                    IF isLeader(n, r)
                    THEN IF r.ev_leader_ping # NULL THEN initialize_leader_ping(r)
                         ELSE [r EXCEPT !.ev_expect_ping = DISARMED]
                    ELSE IF recent THEN initialize_expect_ping(r)
                    ELSE lost_connection_with_leader(r)]
    /\ UNCHANGED <<peer, net, cut, budget>>

(* The process ends: its connections end, and what it had not yet sent is lost. *)
Dies(n) ==
    /\ node' = [node EXCEPT ![n] = Down]
    /\ net' = {m \in net : m.to # n}
    /\ peer' = [p \in Replica |-> [q \in Replica |->
                  IF p = n THEN NOLINK
                  ELSE IF q = n /\ peer[p][q] = ACTIVE THEN BROKEN ELSE peer[p][q]]]

(* On a node that has lost the leadership the event is freed and the freed   *)
(* event is added again: the process dies of it, or the timer goes on.       *)
make_progress_on(n) ==
    /\ Turn(n) /\ node[n].ev_make_progress = 0
    /\ \/ /\ node' = [node EXCEPT ![n] = initialize_leader_make_progress(@)]
          /\ UNCHANGED <<net, peer>>
       \/ ~isLeader(n, node[n]) /\ Dies(n)
    /\ UNCHANGED <<cut, budget>>

(***************************************************************************)
(* Message handlers.                                                       *)
(***************************************************************************)
(* The timestamp of a message in the receiver's clock, as an age. *)
LocalAge(n, m) == m.age + Skew[n] - Skew[m.from]

(* A ping of the next view takes the node into it, one of the same view ends *)
(* an election the node has started and restarts its timer.                  *)
handle_ping_req(n, r, m) ==
    IF r.view_id + 1 = m.view_id THEN update_view(n, r, m)
    ELSE IF r.view_id # m.view_id THEN r
    ELSE LET s == [r EXCEPT !.state = NODE_ACTIVE] IN
         IF isLeader(n, s) THEN s
         ELSE [s EXCEPT !.last_ping_msg = IF LocalAge(n, m) < @ THEN LocalAge(n, m) ELSE @,
                        !.ev_expect_ping = IF @ = NULL THEN NULL ELSE r.config.expect_ping,
                        !.silence = 0]

(* The condition is true only for an answer of an older view, which          *)
(* update_view then refuses.                                                 *)
handle_ping_ack(n, r, m) ==
    IF r.view_id = m.view_id + 1 THEN update_view(n, r, m) ELSE r

(* The FIN takes a node that is in the election of that view into the view. *)
leader_election_handle_close(n, r, m) ==
    IF r.state \in {NODE_INLELE, NODE_POSTLELE} /\ r.view_id + 1 = m.view_id
    THEN update_view(n, r, m) ELSE r

(* A node that waits for the FIN drops every ping. *)
Handled(n, r, m) ==
    CASE m.type = "FIN" -> leader_election_handle_close(n, r, m)
      [] m.type = "PING_REQ" /\ r.state # NODE_POSTLELE -> handle_ping_req(n, r, m)
      [] m.type = "PING_ACK" /\ r.state # NODE_POSTLELE -> handle_ping_ack(n, r, m)
      [] OTHER -> r

(* Messages of one sender arrive in order, none before a tick has passed. *)
handle_msg(m) ==
    LET n == m.to
        lagged == /\ m.type = "PING_REQ" /\ node[n].state # NODE_POSTLELE
                  /\ node[n].view_id = m.view_id + 1
    IN /\ m \in net /\ m.age > 0 /\ Turn(n)
       /\ \A o \in net : o.from = m.from /\ o.to = n => o.age <= m.age
       /\ node' = [node EXCEPT ![n] = Handled(n, @, m)]
       /\ net' = (net \ {m}) \cup IF lagged THEN send_to_one_node(n, m.from) ELSE {}
       /\ UNCHANGED <<peer, cut, budget>>

(***************************************************************************)
(* The election, in two steps.                                             *)
(***************************************************************************)
(* A majority of nodes that have lost the leader of the same view and are   *)
(* on the network has chosen one of them. Some of them may have learned     *)
(* of it before. From now on they wait for its FIN, and ignore pings; their *)
(* reports are on the way.                                                  *)
leader_election_handle_announce(S, l) ==
    /\ Quiet
    /\ 2 * Cardinality(S) > GroupSize
    /\ \A n \in S : /\ Up(n) /\ n \notin cut
                    /\ \/ node[n].state = NODE_INLELE
                       \/ node[n].state = NODE_POSTLELE /\ node[n].new_leader = l
                    /\ node[n].view_id = node[l].view_id
    /\ node[l].view_id < MaxView
    /\ node' = [n \in Replica |->
                  IF n \in S
                  THEN [node[n] EXCEPT !.state = NODE_POSTLELE, !.new_leader = l]
                  ELSE node[n]]
    /\ UNCHANGED <<peer, net, cut, budget>>

(* The chosen leader has the reports of a majority. It enters the next view *)
(* and sends its FIN, once, to everyone it is connected to.                 *)
leader_election_leader_close(l) ==
    /\ Quiet /\ Up(l) /\ l \notin cut
    /\ node[l].state = NODE_POSTLELE /\ node[l].new_leader = l
    /\ node[l].view_id < MaxView
    /\ node' = [node EXCEPT ![l] =
                  update_view(l, @, [view_id |-> @.view_id + 1, leader_id |-> l])]
    /\ net' = net \cup {leader_election_build_close(l, m) :
                           m \in {p \in Replica \ {l} : peer[l][p] = ACTIVE}}
    /\ UNCHANGED <<peer, cut, budget>>

(***************************************************************************)
(* Faults and time.                                                        *)
(***************************************************************************)
Crash(n) ==
    /\ Quiet /\ Up(n) /\ budget.fault < MaxFault
    /\ budget' = [budget EXCEPT !.fault = @ + 1]
    /\ Dies(n)
    /\ UNCHANGED cut

(* All connections of the node fail, and connecting fails until it is back. *)
CutOff(n) ==
    /\ Quiet /\ cut = {} /\ budget.fault < MaxFault
    /\ budget' = [budget EXCEPT !.fault = @ + 1]
    /\ cut' = {n}
    /\ net' = {m \in net : n \notin {m.from, m.to}}
    /\ peer' = [p \in Replica |-> [q \in Replica |->
                  IF n \in {p, q} /\ peer[p][q] = ACTIVE THEN BROKEN ELSE peer[p][q]]]
    /\ UNCHANGED node

Back == Quiet /\ cut # {} /\ cut' = {} /\ UNCHANGED <<node, peer, net, budget>>

Older(age, limit) == IF age < limit THEN age + 1 ELSE age
Later(event) == IF event > 0 THEN event - 1 ELSE event

Tick ==
    /\ Quiet
    /\ node' = [n \in Replica |->
                  IF ~Up(n) THEN node[n]
                  ELSE [node[n] EXCEPT !.ev_leader_ping = Later(@),
                                       !.ev_expect_ping = Later(@),
                                       !.ev_make_progress = Later(@),
                                       !.last_ping_msg = Older(@, node[n].config.expect_ping + 1),
                                       !.silence = IF node[n].state = NODE_ACTIVE
                                                   THEN Older(@, MaxSilence) ELSE @]]
    /\ peer' = [n \in Replica |-> [m \in Replica |-> Later(peer[n][m])]]
    /\ net' = {[m EXCEPT !.age = @ + 1] : m \in net}
    /\ UNCHANGED <<cut, budget>>

Init ==
    /\ node = [n \in Replica |-> Down]
    /\ peer = [n \in Replica |-> [m \in Replica |-> NOLINK]]
    /\ net = {}
    /\ cut = {}
    /\ budget = [start |-> 0, fault |-> 0]

Handler ==
    \/ \E n \in Replica :
         \/ peer_node_on_event(n)
         \/ peer_node_on_timeout(n)
         \/ leader_ping_period(n)
         \/ expected_leader_ping_period(n)
         \/ make_progress_on(n)
    \/ \E m \in net : handle_msg(m)

Next ==
    \/ Handler
    \/ \E n \in Replica : main(n) \/ Crash(n) \/ CutOff(n)
    \/ \E S \in SUBSET Replica : \E l \in S : leader_election_handle_announce(S, l)
    \/ \E l \in Replica : leader_election_leader_close(l)
    \/ Back
    \/ Tick

Spec == Init /\ [][Next]_vars

(* An event loop handles what is due, time goes on, and a network that was *)
(* cut comes back. Nothing is assumed of starts and of elections.          *)
Fairness == WF_vars(Handler) /\ WF_vars(Tick) /\ SF_vars(Back)
FairSpec == Spec /\ Fairness

(***************************************************************************)
(* Properties.                                                             *)
(***************************************************************************)
(* The timers follow the role across every change of it: a running node    *)
(* that leads its view has its ping timer armed, any other one that is not *)
(* in an election has its expect timer armed, never both, and the branch   *)
(* of leader_ping_period that frees its event and then touches it again is *)
(* never taken (initialize_leader_ping, initialize_expect_ping, and the    *)
(* call backs that add their event again).                                 *)
Watching(n, r) ==
    r.up => /\ (r.ev_leader_ping >= 0) = isLeader(n, r)
            /\ (r.ev_expect_ping >= 0) = (~isLeader(n, r) /\ r.state = NODE_ACTIVE)
            /\ r.ev_leader_ping # FREED

Watches == \A n \in Replica : Watching(n, node[n])

(* A group whose seed is started first, with no crash and no cut, forms     *)
(* view 1 and nobody ever starts an election: the links that failed because *)
(* a peer was not up yet are tried again, and a ping gets through, before   *)
(* the first expect timer of that peer fires.                               *)
QuietStart ==
    budget.fault = 0
      => \A n \in Replica : node[n].state = NODE_ACTIVE

(* A node that hears nothing of its leader suspects it at the latest when   *)
(* its timer has run out twice: the timestamp it compares is by the         *)
(* leader's clock, which is at most one expect period ahead.                *)
SuspectsInTime ==
    \A n \in Replica :
      Up(n) /\ ~isLeader(n, node[n]) => node[n].silence <= 2 * node[n].config.expect_ping

(* The strengthening behind TypeOK: what is on its way, and a link that     *)
(* would carry more, lead to a running process, so every message is handled *)
(* by the time its delay is over.                                           *)
LinksLive ==
    /\ \A n, m \in Replica : peer[n][m] = ACTIVE => Up(m)
    /\ \A m \in net : Up(m.to)

(* The strengthening behind Watches: a node that does not lead has its      *)
(* expect timer created, so a ping can start it again.                      *)
HasTimer(n, r) == r.up /\ ~isLeader(n, r) => r.ev_expect_ping # NULL

(* No clock is more than one expect period of node n ahead of that of n.    *)
ClockClose(n, c) ==
    c.expect_ping > 0 /\ \A m \in Replica : Skew[m] - Skew[n] <= c.expect_ping

ClocksClose ==
    \A n \in Replica, f \in File : \A c \in consensus_read_config(n, f) : ClockClose(n, c)

(* The strengthening behind SuspectsInTime: the timestamp of the last ping  *)
(* is less than one period ahead; and while the timer runs for the first or *)
(* the second time in a silence, it has grown with the silence.             *)
Suspecting(n, r) ==
    LET E == r.config.expect_ping IN
    r.up => /\ ClockClose(n, r.config)
            /\ r.last_ping_msg > -E
            /\ ~isLeader(n, r) =>
                 /\ r.silence <= 2 * E
                 /\ r.state = NODE_ACTIVE /\ 2 * E < MaxSilence =>
                      /\ r.silence + r.ev_expect_ping \in {E, 2 * E}
                      /\ \/ r.last_ping_msg > E
                         \/ r.last_ping_msg > r.silence - E

NodeInv ==
    LinksLive /\ \A n \in Replica : Watching(n, node[n]) /\ HasTimer(n, node[n])

SuspectInv == \A n \in Replica : Suspecting(n, node[n])

(* The times of the files leave room for a start: a link is tried again, the *)
(* next ping is sent and arrives before the expect timer of its receiver.   *)
StartsInTime ==
    \A n \in Replica \ {0}, f, g \in File :
      \A c \in consensus_read_config(0, f), d \in consensus_read_config(n, g) :
        c.reconnect + c.ping + Delay < d.expect_ping

(* The strengthening behind QuietStart. Before the first fault the seed     *)
(* leads view 1 with its ping timer and its links running, every other node *)
(* is in view 1 or in none, and for each of them a ping is on its way that  *)
(* arrives before its expect timer fires, or will be sent early enough: at  *)
(* the seed's next ping, or at the first one after the link is connected.   *)
SeedLeads(r) ==
    /\ r.up /\ r.state = NODE_ACTIVE /\ r.view_id = 1 /\ r.leader_id = 0
    /\ r.ev_leader_ping <= r.config.ping
    /\ \E f \in File : r.config \in consensus_read_config(0, f)
    /\ \A n \in Replica \ {0} : peer[0][n] \in {ACTIVE, CONNECTING} \cup 0 .. r.config.reconnect

Joins(n, r) ==
    /\ r.state = NODE_ACTIVE /\ r.ev_make_progress = NULL
    /\ <<r.view_id, r.leader_id>> \in {<<0, NONE>>, <<1, 0>>}
    /\ \E f \in File : r.config \in consensus_read_config(n, f)

WillHear(n) ==
    LET e == node[n].ev_expect_ping
        wait == IF peer[0][n] = CONNECTING THEN 0 ELSE peer[0][n]
    IN \/ \E m \in net : m.to = n /\ Delay - m.age < e
       \/ peer[0][n] = ACTIVE /\ node[0].ev_leader_ping + Delay < e
       \/ peer[0][n] # ACTIVE /\ wait + node[0].config.ping + Delay < e

QuietInv ==
    budget.fault = 0 =>
      /\ cut = {}
      /\ \A n \in Replica : ~Up(n) => node[n] = Down
      /\ \A n \in Replica : Up(n) => SeedLeads(node[0])
      /\ \A n \in Replica \ {0} : Up(n) => Joins(n, node[n]) /\ WillHear(n)
      /\ \A m \in net : /\ m.type = "PING_REQ" /\ m.from = 0 /\ m.to # 0
                        /\ m.view_id = 1 /\ m.leader_id = 0

(* Once the faults are over, every running node that is in the view of a    *)
(* running leader, or in the one before it, ends up in that view for good,  *)
(* its own attempt at an election given up: lost links are connected again, *)
(* pings get through, and handle_ping_req takes the node in. This holds of  *)
(* nodes that take pings only: one that waits for a FIN that was lost with  *)
(* its link, or that its sender never came to send, drops them and stays    *)
(* behind.                                                                  *)
Followed(n, l) ==
    Up(n) /\ Up(l) /\ isLeader(l, node[l]) /\ ~isLeader(n, node[n])
          /\ node[n].state # NODE_POSTLELE
          /\ node[l].view_id \in {node[n].view_id, node[n].view_id + 1}
      => node[n].view_id = node[l].view_id /\ node[n].state = NODE_ACTIVE
Settles == <>[](\A n, l \in Replica : Followed(n, l))
================================================================================
