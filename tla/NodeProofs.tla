------------------------------ MODULE NodeProofs ------------------------------
(***************************************************************************)
(* Proofs about module Node.  The handlers of a node are functions of its  *)
(* record: each is shown once to keep the type, the timers and the         *)
(* suspicion of the record; the actions then follow, one by one.           *)
(***************************************************************************)
EXTENDS Node, TLAPS

(* A node whose view, role and timers change stays well typed. *)
LEMMA SetView ==
    ASSUME NEW r \in node_t, NEW v \in 0 .. MaxView, NEW l \in Replica \cup {NONE},
           NEW a \in Timer, NEW b \in Timer
    PROVE  /\ [r EXCEPT !.view_id = v, !.leader_id = l, !.state = NODE_ACTIVE,
                        !.ev_expect_ping = a, !.ev_leader_ping = b] \in node_t
           /\ \A s \in 0 .. MaxSilence :
                [r EXCEPT !.view_id = v, !.leader_id = l, !.state = NODE_ACTIVE,
                          !.ev_leader_ping = b, !.ev_expect_ping = a, !.silence = s] \in node_t
  BY ZenonT(60) DEF node_t

(* The same of the call backs that touch one timer. *)
LEMMA SetTimer ==
    ASSUME NEW r \in node_t, NEW a \in Timer, NEW st \in {NODE_ACTIVE, NODE_INLELE, NODE_POSTLELE}
    PROVE  /\ [r EXCEPT !.ev_leader_ping = a] \in node_t
           /\ [r EXCEPT !.ev_make_progress = a] \in node_t
           /\ [r EXCEPT !.state = st] \in node_t
           /\ [r EXCEPT !.state = st, !.ev_expect_ping = a] \in node_t
           /\ \A l \in Replica \cup {NONE} : [r EXCEPT !.state = st, !.new_leader = l] \in node_t
           /\ \A b \in Timer : [r EXCEPT !.ev_leader_ping = b, !.ev_expect_ping = a] \in node_t
           /\ \A t \in Int, s \in 0 .. MaxSilence :
                [r EXCEPT !.state = st, !.last_ping_msg = t, !.ev_expect_ping = a,
                          !.silence = s] \in node_t
           /\ \A b, c \in Timer, t \in Int, s \in 0 .. MaxSilence :
                [r EXCEPT !.ev_leader_ping = a, !.ev_expect_ping = b, !.ev_make_progress = c,
                          !.last_ping_msg = t, !.silence = s] \in node_t
  BY ZenonT(60) DEF node_t

(* The record of a node that starts. *)
LEMMA SetStart ==
    ASSUME NEW r \in node_t, NEW c \in [DOMAIN DefaultTime -> Nat],
           NEW v \in 0 .. MaxView, NEW l \in Replica \cup {NONE}
    PROVE  [r EXCEPT !.up = TRUE, !.config = c, !.view_id = v, !.leader_id = l] \in node_t
  BY ZenonT(60) DEF node_t

USE DEF NULL, FREED, DISARMED, ACTIVE, CONNECTING, BROKEN, NOLINK, Absent,
        NODE_ACTIVE, NODE_INLELE, NODE_POSTLELE, isLeader

(* What the proofs need of the constants. *)
LEMMA Constants ==
    /\ GroupSize \in Nat /\ Delay \in Nat /\ MaxSilence \in Nat
    /\ MaxView \in Nat /\ 1 \in 0 .. MaxView
    /\ \A n \in Replica : n \in Int /\ n # NONE /\ Skew[n] \in Int
  BY NodeAssumption DEF NodeAssumption, Replica, NONE

(* The configuration of a started node. *)
LEMMA ReadConfig ==
    ASSUME NEW n \in Replica, NEW f \in File, NEW c \in consensus_read_config(n, f)
    PROVE  c \in [DOMAIN DefaultTime -> Nat]
  <1>1. DefaultTime \in [DOMAIN DefaultTime -> Nat]
    BY DEF DefaultTime
  <1>2. c = [t \in DOMAIN DefaultTime |->
               IF f.time[t] # Absent THEN f.time[t] ELSE DefaultTime[t]]
    BY DEF consensus_read_config
  <1>3. \A t \in DOMAIN DefaultTime : f.time[t] \in Nat \cup {Absent}
    BY FileAssumption DEF FileAssumption
  <1> QED
    BY <1>1, <1>2, <1>3

(* The times of a configuration. *)
LEMMA Times ==
    ASSUME NEW c \in [DOMAIN DefaultTime -> Nat]
    PROVE  /\ c.make_progress \in Nat /\ c.ping \in Nat
           /\ c.expect_ping \in Nat /\ c.reconnect \in Nat
  BY DEF DefaultTime

(* The record of a process that does not run. *)
LEMMA DownType == Down \in node_t /\ Down.up = FALSE
  <1>1. DefaultTime \in [DOMAIN DefaultTime -> Nat]
    BY DEF DefaultTime
  <1> QED
    BY <1>1, Constants DEF Down, node_t, Timer

(* A well typed node of which the timers follow the role. *)
RecordOK(n, r) == r \in node_t /\ Watching(n, r) /\ HasTimer(n, r)

(* update_view. *)
LEMMA UpdateView ==
    ASSUME NEW n \in Replica, NEW r, RecordOK(n, r), NEW v,
           v.view_id \in 0 .. MaxView, v.leader_id \in Replica \cup {NONE}
    PROVE  LET s == update_view(n, r, v) IN
           /\ RecordOK(n, s)
           /\ s.up = r.up
           /\ Suspecting(n, r) => Suspecting(n, s)
  <1> DEFINE s == update_view(n, r, v)
  <1>1. /\ r.config.ping \in Nat /\ r.config.expect_ping \in Nat /\ MaxSilence \in Nat
        /\ r \in node_t
    BY Times, Constants DEF RecordOK, node_t
  <1>3. CASE r.view_id + 1 # v.view_id
    BY <1>3 DEF update_view
  <1>2. n \in Replica \cup {NONE}
    OBVIOUS
  <1>4. CASE r.view_id + 1 = v.view_id /\ v.leader_id = n
    <2>1. s = [r EXCEPT !.view_id = v.view_id, !.leader_id = n, !.state = NODE_ACTIVE,
                        !.ev_expect_ping = evtimer_del(r.ev_expect_ping),
                        !.ev_leader_ping = r.config.ping]
      BY <1>1, <1>4 DEF node_t, update_view, become_leader, initialize_leader_ping
    <2> HIDE DEF s
    <2>2. evtimer_del(r.ev_expect_ping) \in {NULL, DISARMED}
      BY DEF evtimer_del
    <2>3. s \in node_t
      <3>1. evtimer_del(r.ev_expect_ping) \in Timer /\ r.config.ping \in Timer
        BY <1>1, <2>2 DEF Timer
      <3> QED
        BY <1>1, <1>2, <2>1, <3>1, SetView, Zenon
    <2>4. /\ s.leader_id = n /\ s.ev_leader_ping = r.config.ping
          /\ s.ev_expect_ping = evtimer_del(r.ev_expect_ping)
          /\ s.up = r.up /\ s.config = r.config /\ s.last_ping_msg = r.last_ping_msg
      BY <1>1, <2>1 DEF node_t
    <2>5. RecordOK(n, s) /\ s.up = r.up /\ (Suspecting(n, r) => Suspecting(n, s))
      BY <1>1, <2>2, <2>3, <2>4 DEF RecordOK, Watching, HasTimer, Suspecting
    <2> QED
      BY <2>5 DEF s
  <1>5. CASE r.view_id + 1 = v.view_id /\ v.leader_id # n
    <2>1. s = [r EXCEPT !.view_id = v.view_id, !.leader_id = v.leader_id,
                        !.state = NODE_ACTIVE,
                        !.ev_leader_ping = evtimer_del(r.ev_leader_ping),
                        !.ev_expect_ping = r.config.expect_ping, !.silence = 0]
      BY <1>1, <1>5 DEF node_t, update_view, become_secondary, initialize_expect_ping
    <2> HIDE DEF s
    <2>2. evtimer_del(r.ev_leader_ping) \in {NULL, DISARMED}
      BY DEF evtimer_del
    <2>3. s \in node_t
      <3>1. /\ evtimer_del(r.ev_leader_ping) \in Timer /\ r.config.expect_ping \in Timer
            /\ 0 \in 0 .. MaxSilence
        BY <1>1, <2>2 DEF Timer
      <3> QED
        BY <1>1, <2>1, <3>1, SetView, Zenon
    <2>4. /\ s.leader_id # n /\ s.ev_expect_ping = r.config.expect_ping
          /\ s.ev_leader_ping = evtimer_del(r.ev_leader_ping)
          /\ s.state = NODE_ACTIVE /\ s.silence = 0
          /\ s.up = r.up /\ s.config = r.config /\ s.last_ping_msg = r.last_ping_msg
      BY <1>1, <1>5, <2>1 DEF node_t
    <2>5. RecordOK(n, s) /\ s.up = r.up /\ (Suspecting(n, r) => Suspecting(n, s))
      BY <1>1, <2>2, <2>3, <2>4 DEF RecordOK, Watching, HasTimer, Suspecting, node_t
    <2> QED
      BY <2>5 DEF s
  <1> QED
    BY <1>3, <1>4, <1>5
(* handle_ping_req. *)
LEMMA PingReq ==
    ASSUME NEW n \in Replica, NEW r, RecordOK(n, r), r.up, NEW m \in sys_msg, m.age > 0
    PROVE  LET s == handle_ping_req(n, r, m) IN
           /\ RecordOK(n, s)
           /\ s.up = r.up
           /\ Suspecting(n, r) => Suspecting(n, s)
  <1> DEFINE s == handle_ping_req(n, r, m)
  <1>1. /\ r.config.expect_ping \in Nat /\ MaxSilence \in Nat
        /\ r \in node_t /\ r.last_ping_msg \in Int
        /\ m.view_id \in 0 .. MaxView /\ m.leader_id \in Replica \cup {NONE}
        /\ m.age \in Int /\ m.from \in Replica
        /\ LocalAge(n, m) = m.age + Skew[n] - Skew[m.from]
        /\ Skew[n] \in Int /\ Skew[m.from] \in Int
    BY Times, Constants DEF RecordOK, node_t, sys_msg, LocalAge
  <1>2. CASE r.view_id + 1 = m.view_id
    <2>1. s = update_view(n, r, m)
      BY <1>2 DEF handle_ping_req
    <2> QED
      <3> DEFINE u == update_view(n, r, m)
      <3>1. RecordOK(n, u) /\ u.up = r.up /\ (Suspecting(n, r) => Suspecting(n, u))
        BY <1>1, UpdateView
      <3> QED
        BY <2>1, <3>1
  <1>3. CASE r.view_id + 1 # m.view_id /\ r.view_id # m.view_id
    BY <1>3 DEF handle_ping_req
  <1>4. CASE r.view_id = m.view_id /\ r.leader_id = n
    <2>1. s = [r EXCEPT !.state = NODE_ACTIVE]
      BY <1>1, <1>4 DEF handle_ping_req, node_t
    <2> HIDE DEF s
    <2>2. s \in node_t
      <3>1. NODE_ACTIVE \in {NODE_ACTIVE, NODE_INLELE, NODE_POSTLELE} /\ DISARMED \in Timer
        BY DEF Timer
      <3> QED
        BY <1>1, <2>1, <3>1, SetTimer, Zenon
    <2>3. /\ s.leader_id = n /\ s.ev_leader_ping = r.ev_leader_ping
          /\ s.ev_expect_ping = r.ev_expect_ping
          /\ s.up = r.up /\ s.config = r.config /\ s.last_ping_msg = r.last_ping_msg
      BY <1>1, <1>4, <2>1 DEF node_t
    <2>4. RecordOK(n, s) /\ s.up = r.up /\ (Suspecting(n, r) => Suspecting(n, s))
      BY <1>4, <2>2, <2>3 DEF RecordOK, Watching, HasTimer, Suspecting
    <2> QED
      BY <2>4 DEF s
  <1>5. CASE r.view_id = m.view_id /\ r.leader_id # n
    <2> DEFINE last == IF LocalAge(n, m) < r.last_ping_msg THEN LocalAge(n, m)
                       ELSE r.last_ping_msg
    <2>1. r.ev_expect_ping # NULL
      BY <1>5 DEF RecordOK, HasTimer
    <2>2. s = [r EXCEPT !.state = NODE_ACTIVE, !.last_ping_msg = last,
                        !.ev_expect_ping = r.config.expect_ping, !.silence = 0]
      BY <1>1, <1>5, <2>1 DEF handle_ping_req, node_t
    <2>3. /\ last \in Int
          /\ last = r.last_ping_msg \/ last = m.age + Skew[n] - Skew[m.from]
          /\ r.config.expect_ping \in Timer /\ 0 \in 0 .. MaxSilence
      BY <1>1 DEF Timer
    <2> HIDE DEF s, last
    <2>4. s \in node_t
      BY <1>1, <2>2, <2>3, SetTimer, Zenon
    <2>5. /\ s.leader_id # n /\ s.ev_leader_ping = r.ev_leader_ping
          /\ s.ev_expect_ping = r.config.expect_ping
          /\ s.state = NODE_ACTIVE /\ s.silence = 0
          /\ s.up = r.up /\ s.config = r.config /\ s.last_ping_msg = last
      BY <1>1, <1>5, <2>2 DEF node_t
    <2>6. RecordOK(n, s)
      BY <1>1, <1>5, <2>4, <2>5 DEF RecordOK, Watching, HasTimer
    <2>7. ASSUME Suspecting(n, r) PROVE Suspecting(n, s)
      <3>1. /\ r.last_ping_msg > -r.config.expect_ping
            /\ ClockClose(n, r.config)
        BY <2>7 DEF Suspecting
      <3>2. Skew[m.from] - Skew[n] <= r.config.expect_ping
        BY <1>1, <3>1 DEF ClockClose
      <3>3. last > -r.config.expect_ping
        BY <1>1, <2>3, <3>1, <3>2
      <3> QED
        BY <1>1, <2>3, <2>5, <3>1, <3>3 DEF Suspecting
    <2> QED
      BY <2>5, <2>6, <2>7 DEF s
  <1> QED
    BY <1>2, <1>3, <1>4, <1>5

(* What a message does to the record of its receiver. *)
LEMMA HandledRecord ==
    ASSUME NEW n \in Replica, NEW r, RecordOK(n, r), r.up, NEW m \in sys_msg, m.age > 0
    PROVE  LET s == Handled(n, r, m) IN
           /\ RecordOK(n, s)
           /\ s.up = r.up
           /\ Suspecting(n, r) => Suspecting(n, s)
  <1> DEFINE p == handle_ping_req(n, r, m)
             u == update_view(n, r, m)
  <1>1. RecordOK(n, p) /\ p.up = r.up /\ (Suspecting(n, r) => Suspecting(n, p))
    BY PingReq
  <1>2. RecordOK(n, u) /\ u.up = r.up /\ (Suspecting(n, r) => Suspecting(n, u))
    <2>1. m.view_id \in 0 .. MaxView /\ m.leader_id \in Replica \cup {NONE}
      BY DEF sys_msg
    <2> QED
      BY <2>1, UpdateView
  <1>3. Handled(n, r, m) \in {r, p, u}
    BY DEF Handled, leader_election_handle_close, handle_ping_ack
  <1> HIDE DEF p, u
  <1> QED
    BY <1>1, <1>2, <1>3

(* A node that learns of the new leader waits for its FIN. *)
LEMMA Announced ==
    ASSUME NEW n \in Replica, NEW r, RecordOK(n, r), NEW l \in Replica,
           r.state \in {NODE_INLELE, NODE_POSTLELE}
    PROVE  LET s == [r EXCEPT !.state = NODE_POSTLELE, !.new_leader = l] IN
           /\ RecordOK(n, s)
           /\ s.up = r.up
           /\ Suspecting(n, r) => Suspecting(n, s)
  <1> DEFINE s == [r EXCEPT !.state = NODE_POSTLELE, !.new_leader = l]
  <1>1. r \in node_t /\ DISARMED \in Timer
    BY DEF RecordOK, Timer
  <1>2. s \in node_t
    BY <1>1, SetTimer, Zenon
  <1>3. /\ s.leader_id = r.leader_id /\ s.state = NODE_POSTLELE
        /\ s.ev_leader_ping = r.ev_leader_ping /\ s.ev_expect_ping = r.ev_expect_ping
        /\ s.up = r.up /\ s.config = r.config
        /\ s.last_ping_msg = r.last_ping_msg /\ s.silence = r.silence
    BY <1>1 DEF node_t
  <1> HIDE DEF s
  <1>4. RecordOK(n, s) /\ (Suspecting(n, r) => Suspecting(n, s))
    BY <1>2, <1>3 DEF RecordOK, Watching, HasTimer, Suspecting
  <1> QED
    BY <1>3, <1>4 DEF s

(* expected_leader_ping_period: the timer of node n fires. *)
LEMMA ExpectPeriod ==
    ASSUME NEW n \in Replica, NEW r, RecordOK(n, r), r.up, r.ev_expect_ping = 0,
           NEW recent \in Recent(r)
    PROVE  LET s == IF recent THEN initialize_expect_ping(r)
                    ELSE lost_connection_with_leader(r) IN
           /\ ~isLeader(n, r)
           /\ RecordOK(n, s)
           /\ s.up = r.up
           /\ Suspecting(n, r) => Suspecting(n, s)
  <1> DEFINE s == IF recent THEN initialize_expect_ping(r) ELSE lost_connection_with_leader(r)
             E == r.config.expect_ping
  <1>1. /\ E \in Nat /\ MaxSilence \in Nat /\ r \in node_t
        /\ r.last_ping_msg \in Int /\ r.silence \in 0 .. MaxSilence
        /\ evtimer_del(r.ev_leader_ping) \in {NULL, DISARMED}
    BY Times, Constants DEF RecordOK, node_t, evtimer_del
  <1>2. ~isLeader(n, r) /\ r.state = NODE_ACTIVE /\ r.ev_leader_ping < 0
    BY <1>1 DEF RecordOK, Watching, node_t, Timer
  <1>3. CASE recent
    <2>1. s = [r EXCEPT !.ev_leader_ping = evtimer_del(r.ev_leader_ping), !.ev_expect_ping = E]
      BY <1>1, <1>3 DEF initialize_expect_ping, node_t
    <2>2. r.last_ping_msg <= E
      BY <1>1, <1>3 DEF Recent
    <2> HIDE DEF s
    <2>3. s \in node_t
      <3>1. evtimer_del(r.ev_leader_ping) \in Timer /\ E \in Timer
        BY <1>1 DEF Timer
      <3> QED
        BY <1>1, <2>1, <3>1, SetTimer, Zenon
    <2>4. /\ s.leader_id = r.leader_id
          /\ s.ev_leader_ping = evtimer_del(r.ev_leader_ping)
          /\ s.ev_expect_ping = E
          /\ s.state = NODE_ACTIVE /\ s.silence = r.silence
          /\ s.up = r.up /\ s.config = r.config /\ s.last_ping_msg = r.last_ping_msg
      BY <1>1, <1>2, <2>1 DEF node_t
    <2>5. RecordOK(n, s)
      BY <1>1, <1>2, <2>3, <2>4 DEF RecordOK, Watching, HasTimer
    <2>6. ASSUME Suspecting(n, r) PROVE Suspecting(n, s)
      <3>1. /\ r.last_ping_msg > -E /\ r.silence <= 2 * E /\ ClockClose(n, r.config)
            /\ 2 * E < MaxSilence =>
                 /\ r.silence + 0 \in {E, 2 * E}
                 /\ r.last_ping_msg > E \/ r.last_ping_msg > r.silence - E
        BY <1>2, <2>6 DEF Suspecting
      <3>2. 2 * E < MaxSilence => r.silence = E
        BY <1>1, <2>2, <3>1
      <3> QED
        BY <1>1, <2>4, <3>1, <3>2 DEF Suspecting
    <2> QED
      BY <1>2, <2>4, <2>5, <2>6 DEF s
  <1>4. CASE ~recent
    <2>1. s = [r EXCEPT !.state = NODE_INLELE, !.ev_expect_ping = DISARMED]
      BY <1>4 DEF lost_connection_with_leader
    <2> HIDE DEF s
    <2>2. s \in node_t
      <3>1. DISARMED \in Timer /\ NODE_INLELE \in {NODE_ACTIVE, NODE_INLELE, NODE_POSTLELE}
        BY DEF Timer
      <3> QED
        BY <1>1, <2>1, <3>1, SetTimer, Zenon
    <2>3. /\ s.leader_id = r.leader_id
          /\ s.ev_leader_ping = r.ev_leader_ping
          /\ s.ev_expect_ping = DISARMED
          /\ s.state = NODE_INLELE /\ s.silence = r.silence
          /\ s.up = r.up /\ s.config = r.config /\ s.last_ping_msg = r.last_ping_msg
      BY <1>1, <2>1 DEF node_t
    <2>4. RecordOK(n, s)
      BY <1>1, <1>2, <2>2, <2>3 DEF RecordOK, Watching, HasTimer
    <2>5. ASSUME Suspecting(n, r) PROVE Suspecting(n, s)
      BY <1>1, <1>2, <2>3, <2>5 DEF Suspecting
    <2> QED
      BY <1>2, <2>3, <2>4, <2>5 DEF s
  <1> QED
    BY <1>3, <1>4
(* system_initialize: a node that has read its configuration. *)
LEMMA Starts ==
    ASSUME NEW n \in Replica, NEW mode \in {"s", "r"}, NEW c \in [DOMAIN DefaultTime -> Nat]
    PROVE  LET s == system_initialize(n, mode, c) IN
           /\ RecordOK(n, s)
           /\ s.up
           /\ ClockClose(n, c) => Suspecting(n, s)
  <1> DEFINE s == system_initialize(n, mode, c)
             v == IF mode = "s" THEN 1 ELSE 0
             l == IF mode = "s" THEN n ELSE NONE
             r == [Down EXCEPT !.up = TRUE, !.config = c, !.view_id = v, !.leader_id = l]
  <1>1. /\ c.make_progress \in Nat /\ c.ping \in Nat /\ c.expect_ping \in Nat
        /\ MaxSilence \in Nat /\ n # NONE
        /\ v \in 0 .. MaxView /\ l \in Replica \cup {NONE}
    BY Times, Constants
  <1>2. Down \in node_t
    BY DownType
  <1>3. r \in node_t
    <2> HIDE DEF v, l
    <2> QED
      BY <1>1, <1>2, SetStart, Zenon
  <1>4. /\ r.up = TRUE /\ r.config = c /\ r.leader_id = l /\ r.state = NODE_ACTIVE
        /\ r.ev_leader_ping = NULL /\ r.ev_expect_ping = NULL
        /\ r.last_ping_msg = 0 /\ r.silence = 0
    BY DEF Down
  <1>5. s = IF l = n THEN initialize_leader_make_progress(initialize_leader_ping(r))
                     ELSE initialize_expect_ping(r)
    BY <1>4 DEF system_initialize
  <1> HIDE DEF r, s, v
  <1>6. CASE mode = "s"
    <2> DEFINE q == [r EXCEPT !.ev_leader_ping = c.ping, !.ev_expect_ping = NULL]
    <2>1. l = n
      BY <1>6
    <2>2. initialize_leader_ping(r) = q
      BY <1>4 DEF initialize_leader_ping, evtimer_del
    <2>3. NULL \in Timer /\ c.ping \in Timer /\ c.make_progress \in Timer
          /\ NODE_ACTIVE \in {NODE_ACTIVE, NODE_INLELE, NODE_POSTLELE}
      BY <1>1 DEF Timer
    <2>4. q \in node_t
      BY <1>3, <2>3, SetTimer, Zenon
    <2>5. /\ q.up = TRUE /\ q.config = c /\ q.leader_id = n
          /\ q.ev_leader_ping = c.ping /\ q.ev_expect_ping = NULL /\ q.last_ping_msg = 0
      BY <1>3, <1>4, <2>1 DEF node_t
    <2> HIDE DEF q
    <2>6. s = [q EXCEPT !.ev_make_progress = c.make_progress]
      BY <1>5, <2>1, <2>2, <2>5 DEF initialize_leader_make_progress
    <2>7. s \in node_t
      BY <2>3, <2>4, <2>6, SetTimer, Zenon
    <2>8. /\ s.up = TRUE /\ s.config = c /\ s.leader_id = n
          /\ s.ev_leader_ping = c.ping /\ s.ev_expect_ping = NULL /\ s.last_ping_msg = 0
      BY <2>4, <2>5, <2>6 DEF node_t
    <2> QED
      BY <1>1, <2>7, <2>8 DEF RecordOK, Watching, HasTimer, Suspecting, ClockClose, s
  <1>7. CASE mode = "r"
    <2>1. l # n
      BY <1>1, <1>7
    <2>2. s = [r EXCEPT !.ev_leader_ping = NULL, !.ev_expect_ping = c.expect_ping]
      BY <1>4, <1>5, <2>1 DEF initialize_expect_ping, evtimer_del
    <2>3. NULL \in Timer /\ c.expect_ping \in Timer
          /\ NODE_ACTIVE \in {NODE_ACTIVE, NODE_INLELE, NODE_POSTLELE}
      BY <1>1 DEF Timer
    <2>4. s \in node_t
      BY <1>3, <2>2, <2>3, SetTimer, Zenon
    <2>5. /\ s.up = TRUE /\ s.config = c /\ s.leader_id # n /\ s.state = NODE_ACTIVE
          /\ s.ev_leader_ping = NULL /\ s.ev_expect_ping = c.expect_ping
          /\ s.last_ping_msg = 0 /\ s.silence = 0
      BY <1>3, <1>4, <2>1, <2>2 DEF node_t
    <2> QED
      BY <1>1, <2>4, <2>5 DEF RecordOK, Watching, HasTimer, Suspecting, ClockClose, s
  <1> QED
    BY <1>6, <1>7

(* The record of a running node when a tick has passed. *)
Ticked(r) ==
    [r EXCEPT !.ev_leader_ping = Later(@), !.ev_expect_ping = Later(@),
              !.ev_make_progress = Later(@),
              !.last_ping_msg = Older(@, r.config.expect_ping + 1),
              !.silence = IF r.state = NODE_ACTIVE THEN Older(@, MaxSilence) ELSE @]

(* A tick, when no timer of the node is due. *)
LEMMA TickRecord ==
    ASSUME NEW n \in Replica, NEW r, RecordOK(n, r), r.up, r.ev_expect_ping # 0
    PROVE  LET s == Ticked(r) IN
           /\ RecordOK(n, s)
           /\ s.up = r.up
           /\ Suspecting(n, r) => Suspecting(n, s)
  <1> DEFINE s == Ticked(r)
             E == r.config.expect_ping
             a == Later(r.ev_leader_ping)
             b == Later(r.ev_expect_ping)
             c == Later(r.ev_make_progress)
             t == Older(r.last_ping_msg, E + 1)
             q == IF r.state = NODE_ACTIVE THEN Older(r.silence, MaxSilence) ELSE r.silence
  <1>1. /\ E \in Nat /\ MaxSilence \in Nat /\ r \in node_t
        /\ r.last_ping_msg \in Int /\ r.silence \in 0 .. MaxSilence
        /\ r.ev_leader_ping \in Timer /\ r.ev_expect_ping \in Timer
        /\ r.ev_make_progress \in Timer
    BY Times, Constants DEF RecordOK, node_t
  <1>2. /\ a \in Timer /\ b \in Timer /\ c \in Timer
        /\ t \in Int /\ q \in 0 .. MaxSilence
        /\ (a >= 0) = (r.ev_leader_ping >= 0) /\ (b >= 0) = (r.ev_expect_ping >= 0)
        /\ a = FREED <=> r.ev_leader_ping = FREED
        /\ b = NULL <=> r.ev_expect_ping = NULL
        /\ r.ev_expect_ping >= 0 => b = r.ev_expect_ping - 1
        /\ t = r.last_ping_msg + 1 \/ (t = r.last_ping_msg /\ t > E)
        /\ r.silence < MaxSilence /\ r.state = NODE_ACTIVE => q = r.silence + 1
        /\ r.state # NODE_ACTIVE => q = r.silence
    BY <1>1 DEF Timer, Later, Older
  <1>3. s = [r EXCEPT !.ev_leader_ping = a, !.ev_expect_ping = b, !.ev_make_progress = c,
                      !.last_ping_msg = t, !.silence = q]
    BY <1>1 DEF Ticked, node_t
  <1> HIDE DEF a, b, c, t, q, s
  <1>4. s \in node_t
    <2>1. /\ r \in node_t /\ a \in Timer /\ b \in Timer /\ c \in Timer
          /\ t \in Int /\ q \in 0 .. MaxSilence
          /\ NODE_ACTIVE \in {NODE_ACTIVE, NODE_INLELE, NODE_POSTLELE}
      BY <1>1, <1>2
    <2> QED
      BY <1>3, <2>1, SetTimer, ZenonT(60)
  <1>5. /\ s.leader_id = r.leader_id /\ s.state = r.state
        /\ s.ev_leader_ping = a /\ s.ev_expect_ping = b
        /\ s.up = r.up /\ s.config = r.config /\ s.last_ping_msg = t /\ s.silence = q
    BY <1>1, <1>3 DEF node_t
  <1>6. RecordOK(n, s)
    BY <1>2, <1>4, <1>5 DEF RecordOK, Watching, HasTimer
  <1>7. ASSUME Suspecting(n, r) PROVE Suspecting(n, s)
    <2>1. /\ r.last_ping_msg > -E /\ ClockClose(n, r.config)
          /\ ~isLeader(n, r) =>
               /\ r.silence <= 2 * E
               /\ r.state = NODE_ACTIVE /\ 2 * E < MaxSilence =>
                    /\ r.silence + r.ev_expect_ping \in {E, 2 * E}
                    /\ r.last_ping_msg > E \/ r.last_ping_msg > r.silence - E
      BY <1>7 DEF Suspecting
    <2>2. t > -E
      BY <1>1, <1>2, <2>1
    <2>3. ASSUME ~isLeader(n, r)
          PROVE  /\ q <= 2 * E
                 /\ r.state = NODE_ACTIVE /\ 2 * E < MaxSilence =>
                      /\ q + b \in {E, 2 * E}
                      /\ t > E \/ t > q - E
      <3>1. CASE r.state = NODE_ACTIVE /\ 2 * E < MaxSilence
        <4>1. r.ev_expect_ping \in Nat /\ b = r.ev_expect_ping - 1 /\ r.ev_expect_ping # 0
          BY <1>1, <1>2, <2>3, <3>1 DEF RecordOK, Watching, Timer
        <4>2. r.silence < 2 * E /\ q = r.silence + 1
          BY <1>1, <1>2, <2>1, <2>3, <3>1, <4>1
        <4> QED
          BY <1>1, <1>2, <2>1, <2>3, <3>1, <4>1, <4>2
      <3>2. CASE r.state = NODE_ACTIVE /\ ~(2 * E < MaxSilence)
        BY <1>1, <1>2, <3>2
      <3>3. CASE r.state # NODE_ACTIVE
        BY <1>2, <2>1, <2>3, <3>3
      <3> QED
        BY <3>1, <3>2, <3>3
    <2> QED
      BY <1>5, <2>1, <2>2, <2>3 DEF Suspecting
  <1> QED
    BY <1>5, <1>6, <1>7 DEF s--------------------------------------------------------------------------------
(* The actions. *)

(* What every step keeps; the suspicion only if the clocks are close. *)
Kept == TypeOK' /\ NodeInv' /\ (ClocksClose /\ SuspectInv => SuspectInv')

(* What the step has to show of the links and messages, given that no node   *)
(* has gone down.                                                            *)
LinkStep ==
    /\ peer' \in [Replica -> [Replica -> Int]]
    /\ \A p, q \in Replica : peer'[p][q] = ACTIVE => Up(q)
    /\ net' \subseteq sys_msg
    /\ \A m \in net' : Up(m.to)
    /\ cut' \subseteq Replica
    /\ budget' \in [start : Nat, fault : Nat]

(* A step that gives node n the record s. *)
LEMMA OneNode ==
    ASSUME TypeOK, NodeInv, NEW n \in Replica, NEW s,
           node' = [node EXCEPT ![n] = s],
           RecordOK(n, s), Up(n) => s.up,
           ClocksClose /\ Suspecting(n, node[n]) => Suspecting(n, s),
           LinkStep
    PROVE  Kept
  <1>1. node \in [Replica -> node_t] /\ s \in node_t
    BY DEF TypeOK, RecordOK
  <1>2. node' \in [Replica -> node_t]
    BY <1>1
  <1>3. \A m \in Replica : node'[m] = IF m = n THEN s ELSE node[m]
    BY <1>1
  <1>4. \A m \in Replica : node[m].up => node'[m].up
    BY <1>3 DEF Up
  <1>5. \A m \in Replica : Watching(m, node'[m]) /\ HasTimer(m, node'[m])
    BY <1>3 DEF RecordOK, NodeInv
  <1>6. ClocksClose /\ SuspectInv => \A m \in Replica : Suspecting(m, node'[m])
    BY <1>3 DEF SuspectInv
  <1>7. TypeOK'
    BY <1>2 DEF TypeOK, LinkStep
  <1>8. LinksLive'
    BY <1>4 DEF LinksLive, LinkStep, Up, sys_msg
  <1> QED
    BY <1>5, <1>6, <1>7, <1>8 DEF Kept, NodeInv, SuspectInv

(* A step that changes no node. *)
LEMMA NoNode ==
    ASSUME TypeOK, NodeInv, node' = node, LinkStep
    PROVE  Kept
  <1>1. TypeOK' /\ LinksLive'
    BY DEF TypeOK, LinksLive, LinkStep, Up
  <1>2. \A m \in Replica : Watching(m, node'[m]) /\ HasTimer(m, node'[m])
    BY DEF NodeInv
  <1>3. SuspectInv => \A m \in Replica : Suspecting(m, node'[m])
    BY DEF SuspectInv
  <1> QED
    BY <1>1, <1>2, <1>3 DEF Kept, NodeInv, SuspectInv

(* The links and messages, when they stay as they are. *)
LEMMA SameLinks ==
    ASSUME TypeOK, NodeInv, UNCHANGED <<peer, cut, budget>>,
           NEW sent, sent \subseteq sys_msg, \A m \in sent : Up(m.to),
           net' \subseteq net \cup sent
    PROVE  LinkStep
  BY DEF LinkStep, TypeOK, NodeInv, LinksLive

(* What a node sends goes to running nodes. *)
LEMMA Sent ==
    ASSUME TypeOK, NodeInv, NEW n \in Replica, NEW q \in Replica
    PROVE  /\ send_to_other_nodes(n) \subseteq sys_msg
           /\ \A m \in send_to_other_nodes(n) : Up(m.to)
           /\ send_to_one_node(n, q) \subseteq sys_msg
           /\ \A m \in send_to_one_node(n, q) : Up(m.to)
  <1>1. node[n].view_id \in 0 .. MaxView /\ node[n].leader_id \in Replica \cup {NONE}
    BY DEF TypeOK, node_t
  <1>2. 0 \in 0 .. Delay
    BY Constants
  <1>3. ASSUME NEW t \in {"PING_REQ", "PING_ACK", "FIN"}, NEW d \in Replica
        PROVE  build_ping(t, n, d) \in sys_msg /\ build_ping(t, n, d).to = d
    BY <1>1, <1>2 DEF build_ping, sys_msg
  <1>4. \A d \in Replica : peer[n][d] = ACTIVE => Up(d)
    BY DEF NodeInv, LinksLive
  <1> QED
    BY <1>3, <1>4 DEF send_to_other_nodes, send_to_one_node

(* peer_node_on_event and peer_node_on_timeout. *)
LEMMA LinkEvents ==
    ASSUME TypeOK, NodeInv, NEW n \in Replica,
           peer_node_on_event(n) \/ peer_node_on_timeout(n)
    PROVE  Kept
  <1>1. /\ node \in [Replica -> node_t] /\ peer \in [Replica -> [Replica -> Int]]
        /\ node[n].config.reconnect \in Nat
    BY Times DEF TypeOK, node_t
  <1>2. \A p, q \in Replica : peer[p][q] = ACTIVE => Up(q)
    BY DEF NodeInv, LinksLive
  <1>3. UNCHANGED <<node, net, cut, budget>>
    BY DEF peer_node_on_event, peer_node_on_timeout
  <1>4. /\ peer' \in [Replica -> [Replica -> Int]]
        /\ \A p, q \in Replica : peer'[p][q] = ACTIVE => Up(q)
    <2>1. CASE peer_node_on_event(n)
      BY <1>1, <1>2, <2>1 DEF peer_node_on_event, Reachable
    <2>2. CASE peer_node_on_timeout(n)
      BY <1>1, <1>2, <2>2 DEF peer_node_on_timeout
    <2> QED
      BY <2>1, <2>2
  <1>5. LinkStep
    BY <1>3, <1>4 DEF LinkStep, TypeOK, NodeInv, LinksLive
  <1> QED
    BY <1>3, <1>5, NoNode

(* leader_ping_period: only a leader's timer fires, and it is added again. *)
LEMMA PingPeriod ==
    ASSUME TypeOK, NodeInv, NEW n \in Replica, leader_ping_period(n)
    PROVE  Kept
  <1> DEFINE r == node[n]
             s == [r EXCEPT !.ev_leader_ping = r.config.ping]
  <1>1. /\ r \in node_t /\ r.up /\ r.ev_leader_ping = 0
        /\ r.config.ping \in Nat /\ Watching(n, r) /\ HasTimer(n, r)
    BY Times DEF TypeOK, node_t, NodeInv, leader_ping_period, Turn, Up
  <1>2. isLeader(n, r)
    BY <1>1 DEF Watching
  <1>3. /\ node' = [node EXCEPT ![n] = s]
        /\ net' = net \cup send_to_other_nodes(n)
        /\ UNCHANGED <<peer, cut, budget>>
    BY <1>2 DEF leader_ping_period
  <1>4. s \in node_t
    <2>1. r.config.ping \in Timer /\ NODE_ACTIVE \in {NODE_ACTIVE, NODE_INLELE, NODE_POSTLELE}
      BY <1>1 DEF Timer
    <2> HIDE DEF r
    <2> QED
      BY <1>1, <2>1, SetTimer, Zenon
  <1>5. /\ s.up = r.up /\ s.leader_id = r.leader_id /\ s.ev_leader_ping = r.config.ping
        /\ s.ev_expect_ping = r.ev_expect_ping /\ s.config = r.config
        /\ s.last_ping_msg = r.last_ping_msg
    BY <1>1 DEF node_t
  <1> HIDE DEF s
  <1>6. RecordOK(n, s)
    BY <1>1, <1>2, <1>4, <1>5 DEF RecordOK, Watching, HasTimer
  <1>7. Suspecting(n, r) => Suspecting(n, s)
    BY <1>2, <1>5 DEF Suspecting
  <1>8. LinkStep
    BY <1>3, Sent, SameLinks
  <1> QED
    BY <1>1, <1>3, <1>5, <1>6, <1>7, <1>8, OneNode

(* expected_leader_ping_period. *)
LEMMA ExpectTimer ==
    ASSUME TypeOK, NodeInv, NEW n \in Replica, expected_leader_ping_period(n)
    PROVE  Kept
  <1> DEFINE r == node[n]
  <1>1. RecordOK(n, r) /\ r.up /\ r.ev_expect_ping = 0
    BY DEF TypeOK, NodeInv, RecordOK, expected_leader_ping_period, Turn, Up
  <1>2. PICK recent \in Recent(r) :
          node' = [node EXCEPT ![n] =
                     IF isLeader(n, r)
                     THEN IF r.ev_leader_ping # NULL THEN initialize_leader_ping(r)
                          ELSE [r EXCEPT !.ev_expect_ping = DISARMED]
                     ELSE IF recent THEN initialize_expect_ping(r)
                     ELSE lost_connection_with_leader(r)]
    BY DEF expected_leader_ping_period
  <1> DEFINE s == IF recent THEN initialize_expect_ping(r) ELSE lost_connection_with_leader(r)
  <1>3. /\ ~isLeader(n, r) /\ RecordOK(n, s) /\ s.up = r.up
        /\ Suspecting(n, r) => Suspecting(n, s)
    BY <1>1, ExpectPeriod
  <1>4. node' = [node EXCEPT ![n] = s]
    BY <1>2, <1>3
  <1>5. UNCHANGED <<peer, net, cut, budget>>
    BY DEF expected_leader_ping_period
  <1>6. LinkStep
    BY <1>5 DEF LinkStep, TypeOK, NodeInv, LinksLive
  <1> HIDE DEF s
  <1> QED
    BY <1>1, <1>3, <1>4, <1>6, OneNode
(* A process that ends: nothing leads to it any more. *)
LEMMA DiesStep ==
    ASSUME TypeOK, NodeInv, NEW n \in Replica, Dies(n), cut' = cut,
           budget' \in [start : Nat, fault : Nat]
    PROVE  Kept
  <1>1. /\ node' = [node EXCEPT ![n] = Down]
        /\ net' = {m \in net : m.to # n}
        /\ peer' = [p \in Replica |-> [q \in Replica |->
                       IF p = n THEN NOLINK
                       ELSE IF q = n /\ peer[p][q] = ACTIVE THEN BROKEN ELSE peer[p][q]]]
    BY DEF Dies
  <1>2. /\ node \in [Replica -> node_t] /\ peer \in [Replica -> [Replica -> Int]]
        /\ net \subseteq sys_msg
    BY DEF TypeOK
  <1>3. \A m \in Replica : node'[m] = IF m = n THEN Down ELSE node[m]
    BY <1>1, <1>2
  <1>4. TypeOK'
    <2>1. node' \in [Replica -> node_t]
      BY <1>1, <1>2, DownType
    <2>2. peer' \in [Replica -> [Replica -> Int]]
      BY <1>1, <1>2
    <2>3. net' \subseteq sys_msg
      BY <1>1, <1>2
    <2> QED
      BY <2>1, <2>2, <2>3 DEF TypeOK
  <1>5. LinksLive'
    <2>1. ASSUME NEW p \in Replica, NEW q \in Replica, peer'[p][q] = ACTIVE
          PROVE  node'[q].up
      <3>1. q # n /\ peer[p][q] = ACTIVE
        BY <1>1, <2>1
      <3> QED
        BY <1>3, <3>1 DEF NodeInv, LinksLive, Up
    <2>2. ASSUME NEW m \in net' PROVE node'[m.to].up
      <3>1. m \in net /\ m.to # n /\ m.to \in Replica
        BY <1>1, <1>2 DEF sys_msg
      <3> QED
        BY <1>3, <3>1 DEF NodeInv, LinksLive, Up
    <2> QED
      BY <2>1, <2>2 DEF LinksLive, Up
  <1>6. \A m \in Replica : /\ Watching(m, node'[m]) /\ HasTimer(m, node'[m])
                           /\ Suspecting(m, node[m]) => Suspecting(m, node'[m])
    <2> SUFFICES ASSUME NEW m \in Replica
        PROVE  /\ Watching(m, node'[m]) /\ HasTimer(m, node'[m])
               /\ Suspecting(m, node[m]) => Suspecting(m, node'[m])
      OBVIOUS
    <2>1. CASE m = n
      <3>1. ~node'[m].up
        BY <1>3, <2>1, DownType
      <3> QED
        BY <3>1 DEF Watching, HasTimer, Suspecting
    <2>2. CASE m # n
      BY <1>3, <2>2 DEF NodeInv
    <2> QED
      BY <2>1, <2>2
  <1> QED
    BY <1>4, <1>5, <1>6 DEF Kept, NodeInv, SuspectInv

(* make_progress_on: the timer goes on, or the process dies of it. *)
LEMMA ProgressTimer ==
    ASSUME TypeOK, NodeInv, NEW n \in Replica, make_progress_on(n)
    PROVE  Kept
  <1>1. UNCHANGED <<cut, budget>> /\ budget \in [start : Nat, fault : Nat]
    BY DEF make_progress_on, TypeOK
  <1>2. CASE Dies(n)
    BY <1>1, <1>2, DiesStep
  <1>3. CASE /\ node' = [node EXCEPT ![n] = initialize_leader_make_progress(@)]
             /\ UNCHANGED <<net, peer>>
    <2> DEFINE r == node[n]
               s == [r EXCEPT !.ev_make_progress = r.config.make_progress]
    <2>1. RecordOK(n, r) /\ r \in node_t /\ r.config.make_progress \in Nat
      BY Times DEF TypeOK, NodeInv, RecordOK, node_t
    <2>2. node' = [node EXCEPT ![n] = s]
      BY <1>3 DEF initialize_leader_make_progress, TypeOK
    <2>3. s \in node_t
      <3>1. r.config.make_progress \in Timer /\ NODE_ACTIVE \in {NODE_ACTIVE, NODE_INLELE, NODE_POSTLELE}
        BY <2>1 DEF Timer
      <3> HIDE DEF r
      <3> QED
        BY <2>1, <3>1, SetTimer, Zenon
    <2>4. /\ s.up = r.up /\ s.leader_id = r.leader_id /\ s.ev_leader_ping = r.ev_leader_ping
          /\ s.ev_expect_ping = r.ev_expect_ping /\ s.config = r.config
          /\ s.last_ping_msg = r.last_ping_msg /\ s.state = r.state /\ s.silence = r.silence
      BY <2>1 DEF node_t
    <2> HIDE DEF s
    <2>5. RecordOK(n, s) /\ (Suspecting(n, r) => Suspecting(n, s))
      BY <2>1, <2>3, <2>4 DEF RecordOK, Watching, HasTimer, Suspecting
    <2>6. LinkStep
      BY <1>1, <1>3 DEF LinkStep, TypeOK, NodeInv, LinksLive
    <2> QED
      BY <2>2, <2>4, <2>5, <2>6, OneNode DEF Up
  <1> QED
    BY <1>2, <1>3 DEF make_progress_on

(* handle_msg. *)
LEMMA HandleMsg ==
    ASSUME TypeOK, NodeInv, NEW m \in net, handle_msg(m)
    PROVE  Kept
  <1> DEFINE n == m.to
             r == node[n]
             s == Handled(n, r, m)
  <1>1. m \in sys_msg /\ n \in Replica /\ m.from \in Replica
    BY DEF TypeOK, sys_msg
  <1>2. RecordOK(n, r) /\ r.up /\ m.age > 0
    BY <1>1 DEF TypeOK, NodeInv, RecordOK, handle_msg, Turn, Up
  <1>3. /\ UNCHANGED <<peer, cut, budget>>
        /\ net' \subseteq net \cup send_to_one_node(n, m.from)
    BY DEF handle_msg
  <1>4. node' = [node EXCEPT ![n] = s]
    BY <1>1 DEF handle_msg, TypeOK
  <1>5. RecordOK(n, s) /\ s.up = r.up /\ (Suspecting(n, r) => Suspecting(n, s))
    BY <1>1, <1>2, HandledRecord
  <1>6. LinkStep
    BY <1>1, <1>3, Sent, SameLinks
  <1> HIDE DEF s
  <1> QED
    BY <1>1, <1>4, <1>5, <1>6, OneNode DEF Up

(* main. *)
LEMMA MainStep ==
    ASSUME TypeOK, NodeInv, NEW n \in Replica, main(n)
    PROVE  Kept
  <1>1. PICK f \in File, mode \in {"s", "r"} :
          LET config == consensus_read_config(n, f)
              started == proxy_read_config(n, f) /\ config # {}
          IN /\ node' = [node EXCEPT ![n] =
                           IF started
                           THEN system_initialize(n, mode, CHOOSE c \in config : TRUE)
                           ELSE @]
             /\ peer' = [peer EXCEPT ![n] =
                           IF started THEN connect_peers(n) ELSE @]
    BY DEF main
  <1>2. /\ UNCHANGED <<net, cut>> /\ budget' \in [start : Nat, fault : Nat] /\ ~Up(n)
    BY DEF main, TypeOK
  <1> DEFINE config == consensus_read_config(n, f)
             started == proxy_read_config(n, f) /\ config # {}
  <1>3. CASE ~started
    <2>1. node' = node /\ peer' = peer
      BY <1>1, <1>3 DEF TypeOK
    <2>2. LinkStep
      BY <1>2, <2>1 DEF LinkStep, TypeOK, NodeInv, LinksLive
    <2> QED
      BY <2>1, <2>2, NoNode
  <1>4. CASE started
    <2> DEFINE c == CHOOSE x \in config : TRUE
               s == system_initialize(n, mode, c)
    <2>1. c \in config
      BY <1>4
    <2>2. c \in [DOMAIN DefaultTime -> Nat] /\ (ClocksClose => ClockClose(n, c))
      BY <2>1, ReadConfig DEF ClocksClose
    <2>3. node' = [node EXCEPT ![n] = s] /\ peer' = [peer EXCEPT ![n] = connect_peers(n)]
      BY <1>1, <1>4
    <2> HIDE DEF c
    <2>4. RecordOK(n, s) /\ s.up /\ (ClockClose(n, c) => Suspecting(n, s))
      BY <2>2, Starts
    <2>5. LinkStep
      <3>1. /\ peer \in [Replica -> [Replica -> Int]] /\ net \subseteq sys_msg
            /\ cut \subseteq Replica
            /\ \A p, q \in Replica : peer[p][q] = ACTIVE => Up(q)
            /\ \A m \in net : Up(m.to)
        BY DEF TypeOK, NodeInv, LinksLive
      <3>2. /\ peer' \in [Replica -> [Replica -> Int]]
            /\ \A p, q \in Replica : peer'[p][q] = ACTIVE => Up(q)
        BY <2>3, <3>1 DEF connect_peers
      <3> QED
        BY <1>2, <3>1, <3>2 DEF LinkStep
    <2> HIDE DEF s
    <2> QED
      BY <2>2, <2>3, <2>4, <2>5, OneNode
  <1> QED
    BY <1>3, <1>4
(* A step in which every node keeps running and keeps what it promises. *)
LEMMA AllNodes ==
    ASSUME TypeOK, NodeInv, node' \in [Replica -> node_t],
           \A n \in Replica : /\ RecordOK(n, node'[n])
                              /\ Up(n) => node'[n].up
                              /\ Suspecting(n, node[n]) => Suspecting(n, node'[n]),
           LinkStep
    PROVE  Kept
  <1>1. TypeOK'
    BY DEF TypeOK, LinkStep
  <1>2. LinksLive'
    BY DEF LinksLive, LinkStep, Up, sys_msg
  <1> QED
    BY <1>1, <1>2 DEF Kept, NodeInv, SuspectInv, RecordOK

(* leader_election_handle_announce. *)
LEMMA AnnounceStep ==
    ASSUME TypeOK, NodeInv, NEW S \in SUBSET Replica, NEW l \in S,
           leader_election_handle_announce(S, l)
    PROVE  Kept
  <1> DEFINE u(n) == [node[n] EXCEPT !.state = NODE_POSTLELE, !.new_leader = l]
  <1>1. /\ node' = [n \in Replica |-> IF n \in S THEN u(n) ELSE node[n]]
        /\ UNCHANGED <<peer, net, cut, budget>>
    BY DEF leader_election_handle_announce
  <1>2. LinkStep
    BY <1>1 DEF LinkStep, TypeOK, NodeInv, LinksLive
  <1>3. ASSUME NEW n \in Replica
        PROVE  /\ RecordOK(n, node'[n])
               /\ Up(n) => node'[n].up
               /\ Suspecting(n, node[n]) => Suspecting(n, node'[n])
    <2>1. RecordOK(n, node[n])
      BY DEF TypeOK, NodeInv, RecordOK
    <2>2. CASE n \in S
      <3>1. node[n].state \in {NODE_INLELE, NODE_POSTLELE} /\ l \in Replica
        BY <2>2 DEF leader_election_handle_announce
      <3>2. /\ RecordOK(n, u(n)) /\ u(n).up = node[n].up
            /\ Suspecting(n, node[n]) => Suspecting(n, u(n))
        BY <2>1, <3>1, Announced
      <3>3. node'[n] = u(n)
        BY <1>1, <2>2
      <3> HIDE DEF u
      <3> QED
        BY <3>2, <3>3 DEF Up
    <2>3. CASE n \notin S
      <3>1. node'[n] = node[n]
        BY <1>1, <2>3
      <3> QED
        BY <2>1, <3>1 DEF Up
    <2> QED
      BY <2>2, <2>3
  <1>4. node' \in [Replica -> node_t]
    <2>1. \A n \in Replica : node'[n] \in node_t
      BY <1>3 DEF RecordOK
    <2> QED
      BY <1>1, <2>1
  <1> QED
    BY <1>2, <1>3, <1>4, AllNodes

(* leader_election_leader_close. *)
LEMMA CloseStep ==
    ASSUME TypeOK, NodeInv, NEW l \in Replica, leader_election_leader_close(l)
    PROVE  Kept
  <1> DEFINE v == [view_id |-> node[l].view_id + 1, leader_id |-> l]
             s == update_view(l, node[l], v)
             sent == {leader_election_build_close(l, m) :
                        m \in {p \in Replica \ {l} : peer[l][p] = ACTIVE}}
  <1>1. /\ node' = [node EXCEPT ![l] = s] /\ net' = net \cup sent
        /\ UNCHANGED <<peer, cut, budget>>
    BY DEF leader_election_leader_close, TypeOK
  <1>2. v.view_id \in 0 .. MaxView /\ v.leader_id \in Replica \cup {NONE}
    <2>1. node[l].view_id \in 0 .. MaxView /\ node[l].view_id < MaxView
      BY DEF TypeOK, node_t, leader_election_leader_close
    <2> QED
      BY <2>1, Constants
  <1>3. sent \subseteq sys_msg /\ \A m \in sent : Up(m.to)
    <2>1. 0 \in 0 .. Delay
      BY Constants
    <2>2. \A d \in Replica : peer[l][d] = ACTIVE => Up(d)
      BY DEF NodeInv, LinksLive
    <2>3. \A d \in Replica :  /\ leader_election_build_close(l, d) \in sys_msg
                              /\ leader_election_build_close(l, d).to = d
      BY <1>2, <2>1 DEF leader_election_build_close, sys_msg
    <2> QED
      BY <2>2, <2>3
  <1>4. RecordOK(l, node[l])
    BY DEF TypeOK, NodeInv, RecordOK
  <1> HIDE DEF v, sent
  <1>5. /\ RecordOK(l, s) /\ s.up = node[l].up
        /\ Suspecting(l, node[l]) => Suspecting(l, s)
    BY <1>2, <1>4, UpdateView
  <1>6. LinkStep
    BY <1>1, <1>3, SameLinks
  <1> HIDE DEF s
  <1> QED
    BY <1>1, <1>5, <1>6, OneNode DEF Up

(* Time goes on: what is due has been handled, so no message grows too old. *)
LEMMA TickStep ==
    ASSUME TypeOK, NodeInv, Tick
    PROVE  Kept
  <1>1. /\ node' = [n \in Replica |-> IF ~Up(n) THEN node[n] ELSE Ticked(node[n])]
        /\ peer' = [n \in Replica |-> [m \in Replica |-> Later(peer[n][m])]]
        /\ net' = {[m EXCEPT !.age = @ + 1] : m \in net}
        /\ UNCHANGED <<cut, budget>>
    BY DEF Tick, Ticked
  <1>2. \A n \in Replica : ~Due(n)
    BY DEF Tick, Quiet
  <1>3. /\ peer \in [Replica -> [Replica -> Int]] /\ net \subseteq sys_msg
        /\ \A p, q \in Replica : peer[p][q] = ACTIVE => Up(q)
        /\ \A m \in net : Up(m.to)
    BY DEF TypeOK, NodeInv, LinksLive
  <1>4. ASSUME NEW n \in Replica
        PROVE  /\ RecordOK(n, node'[n])
               /\ Up(n) => node'[n].up
               /\ Suspecting(n, node[n]) => Suspecting(n, node'[n])
    <2>1. RecordOK(n, node[n])
      BY DEF TypeOK, NodeInv, RecordOK
    <2>2. CASE ~Up(n)
      BY <1>1, <2>1, <2>2
    <2>3. CASE Up(n)
      <3>1. node[n].ev_expect_ping # 0 /\ node[n].up
        BY <1>2, <2>3 DEF Due, Up
      <3> DEFINE t == Ticked(node[n])
      <3>2. /\ RecordOK(n, t) /\ t.up = node[n].up
            /\ Suspecting(n, node[n]) => Suspecting(n, t)
        BY <2>1, <3>1, TickRecord
      <3>3. node'[n] = t
        BY <1>1, <2>3
      <3> HIDE DEF t
      <3> QED
        BY <3>1, <3>2, <3>3
    <2> QED
      BY <2>2, <2>3
  <1>5. node' \in [Replica -> node_t]
    <2>1. \A n \in Replica : node'[n] \in node_t
      BY <1>4 DEF RecordOK
    <2> QED
      BY <1>1, <2>1
  <1>6. /\ peer' \in [Replica -> [Replica -> Int]]
        /\ \A p, q \in Replica : peer'[p][q] = ACTIVE => Up(q)
    BY <1>1, <1>3 DEF Later
  <1>7. ASSUME NEW k \in net' PROVE k \in sys_msg /\ Up(k.to)
    <2>1. PICK m \in net : k = [m EXCEPT !.age = @ + 1]
      BY <1>1
    <2>2. m \in sys_msg /\ m.to \in Replica /\ m.age \in 0 .. Delay /\ Up(m.to)
      BY <1>3 DEF sys_msg
    <2>3. m.age # Delay
      BY <1>2, <2>2 DEF Due
    <2>4. m.age + 1 \in 0 .. Delay
      BY <2>2, <2>3, Constants
    <2> QED
      BY <2>1, <2>2, <2>4 DEF sys_msg
  <1>8. LinkStep
    BY <1>1, <1>6, <1>7 DEF LinkStep, TypeOK
  <1> QED
    BY <1>4, <1>5, <1>8, AllNodes

(* Every step keeps the invariant. *)
LEMMA NodeNext ==
    ASSUME TypeOK, NodeInv, [Next]_vars
    PROVE  Kept
  <1>1. CASE \E n \in Replica : peer_node_on_event(n) \/ peer_node_on_timeout(n)
    BY <1>1, LinkEvents
  <1>2. CASE \E n \in Replica : leader_ping_period(n)
    BY <1>2, PingPeriod
  <1>3. CASE \E n \in Replica : expected_leader_ping_period(n)
    BY <1>3, ExpectTimer
  <1>4. CASE \E n \in Replica : make_progress_on(n)
    BY <1>4, ProgressTimer
  <1>5. CASE \E m \in net : handle_msg(m)
    BY <1>5, HandleMsg
  <1>6. CASE \E n \in Replica : main(n)
    BY <1>6, MainStep
  <1>7. CASE \E n \in Replica : Crash(n)
    <2>1. PICK n \in Replica : Crash(n)
      BY <1>7
    <2>2. Dies(n) /\ cut' = cut /\ budget' \in [start : Nat, fault : Nat]
      BY <2>1 DEF Crash, TypeOK
    <2> QED
      BY <2>2, DiesStep
  <1>8. CASE \E n \in Replica : CutOff(n)
    <2>1. PICK n \in Replica : CutOff(n)
      BY <1>8
    <2>2. /\ node' = node /\ cut' = {n} /\ budget' \in [start : Nat, fault : Nat]
          /\ net' \subseteq net
          /\ peer' = [p \in Replica |-> [q \in Replica |->
                         IF n \in {p, q} /\ peer[p][q] = ACTIVE THEN BROKEN ELSE peer[p][q]]]
      BY <2>1 DEF CutOff, TypeOK
    <2>3. LinkStep
      BY <2>2 DEF LinkStep, TypeOK, NodeInv, LinksLive
    <2> QED
      BY <2>2, <2>3, NoNode
  <1>9. CASE \E S \in SUBSET Replica : \E l \in S : leader_election_handle_announce(S, l)
    BY <1>9, AnnounceStep
  <1>10. CASE Back
    <2>1. node' = node /\ LinkStep
      BY <1>10 DEF Back, LinkStep, TypeOK, NodeInv, LinksLive
    <2> QED
      BY <2>1, NoNode
  <1>11. CASE Tick
    BY <1>11, TickStep
  <1>13. CASE \E l \in Replica : leader_election_leader_close(l)
    BY <1>13, CloseStep
  <1>12. CASE UNCHANGED vars
    <2>1. node' = node /\ LinkStep
      BY <1>12 DEF vars, LinkStep, TypeOK, NodeInv, LinksLive
    <2> QED
      BY <2>1, NoNode
  <1> QED
    BY <1>1, <1>2, <1>3, <1>4, <1>5, <1>6, <1>7, <1>8, <1>9, <1>10, <1>11, <1>12, <1>13
    DEF Next, Handler

(* Before the first start. *)
LEMMA NodeStart == Init => TypeOK /\ NodeInv /\ SuspectInv
  <1> SUFFICES ASSUME Init PROVE TypeOK /\ NodeInv /\ SuspectInv
    OBVIOUS
  <1>1. \A n \in Replica : node[n] = Down /\ ~node[n].up
    BY DownType DEF Init
  <1>2. TypeOK
    BY DownType DEF Init, TypeOK
  <1>3. LinksLive
    BY DEF Init, LinksLive
  <1> QED
    BY <1>1, <1>2, <1>3 DEF NodeInv, SuspectInv, Watching, HasTimer, Suspecting
--------------------------------------------------------------------------------
(* The two inductive invariants that hold of any group, clocks and files. *)
THEOREM NodeInvariance == Spec => [](TypeOK /\ NodeInv)
  <1>1. Init => TypeOK /\ NodeInv
    BY NodeStart
  <1>2. (TypeOK /\ NodeInv) /\ [Next]_vars => (TypeOK /\ NodeInv)'
    BY NodeNext DEF Kept
  <1> QED
    BY <1>1, <1>2, PTL DEF Spec

(* Type correctness: start, pings, timers, elections and faults leave every  *)
(* node, link and message well typed; no message outlives its delay.         *)
THEOREM NodeTypeCorrect == Spec => []TypeOK
  BY NodeInvariance, PTL

(* Watches: in every reachable state the timers of node_t follow the role.   *)
THEOREM WatchesHold == Spec => []Watches
  <1>1. NodeInv => Watches
    BY DEF NodeInv, Watches
  <1> QED
    BY <1>1, NodeInvariance, PTL

(* If no clock is more than an expect period ahead of another, the timestamp *)
(* that expected_leader_ping_period compares grows with the silence.         *)
THEOREM SuspectInvHolds ==
    ASSUME ClocksClose
    PROVE  Spec => []SuspectInv
  <1>1. Init => SuspectInv
    BY NodeStart
  <1>2. (TypeOK /\ NodeInv) /\ SuspectInv /\ [Next]_vars => SuspectInv'
    BY NodeNext DEF Kept
  <1> QED
    BY <1>1, <1>2, NodeInvariance, PTL DEF Spec

(* SuspectsInTime: a leader that is not heard is suspected before the expect *)
(* timer has run out a third time.                                           *)
THEOREM SuspectsInTimeHolds ==
    ASSUME ClocksClose
    PROVE  Spec => []SuspectsInTime
  <1>1. SuspectInv => SuspectsInTime
    BY DEF SuspectInv, Suspecting, SuspectsInTime, Up
  <1> QED
    BY <1>1, SuspectInvHolds, PTL

--------------------------------------------------------------------------------
(* A group that is only started.  The bounds of WillHear fall together with  *)
(* the expect timer when time passes, and are renewed by every ping.         *)

LEMMA SeedIsReplica == 0 \in Replica
  BY NodeAssumption DEF NodeAssumption, Replica

(* What the seed and a member have in their files. *)
LEMMA TimesFit ==
    ASSUME StartsInTime, NEW n \in Replica \ {0}, NEW c, NEW d,
           \E f \in File : c \in consensus_read_config(0, f),
           \E f \in File : d \in consensus_read_config(n, f)
    PROVE  /\ c.reconnect \in Nat /\ c.ping \in Nat /\ Delay \in Nat /\ d.expect_ping \in Nat
           /\ c.reconnect + c.ping + Delay < d.expect_ping
  <1>1. PICK f \in File : c \in consensus_read_config(0, f)
    OBVIOUS
  <1>2. PICK g \in File : d \in consensus_read_config(n, g)
    OBVIOUS
  <1>3. 0 \in Replica
    BY SeedIsReplica
  <1>4. c \in [DOMAIN DefaultTime -> Nat] /\ d \in [DOMAIN DefaultTime -> Nat]
    BY <1>1, <1>2, <1>3, ReadConfig
  <1>5. c.reconnect + c.ping + Delay < d.expect_ping
    BY <1>1, <1>2 DEF StartsInTime
  <1> QED
    BY <1>4, <1>5, Times, Constants

(* What QuietInv says before the first fault, and what a step has to show. *)
Quietly ==
    /\ cut = {}
    /\ \A n \in Replica : ~Up(n) => node[n] = Down
    /\ \A n \in Replica : Up(n) => SeedLeads(node[0])
    /\ \A n \in Replica \ {0} : Up(n) => Joins(n, node[n]) /\ WillHear(n)
    /\ \A m \in net : /\ m.type = "PING_REQ" /\ m.from = 0 /\ m.to # 0
                      /\ m.view_id = 1 /\ m.leader_id = 0

LEMMA QuietMeaning == QuietInv <=> (budget.fault = 0 => Quietly)
  BY DEF QuietInv, Quietly

(* The numbers that WillHear of a running member compares. *)
LEMMA Bounds ==
    ASSUME TypeOK, NodeInv, Quietly, StartsInTime, NEW n \in Replica \ {0}, Up(n)
    PROVE  /\ 0 \in Replica /\ Up(0)
           /\ node[0].ev_leader_ping \in Nat /\ node[0].config.ping \in Nat
           /\ node[0].config.reconnect \in Nat /\ Delay \in Nat
           /\ node[n].ev_expect_ping \in Int
           /\ peer[0][n] \in {ACTIVE, CONNECTING} \cup 0 .. node[0].config.reconnect
           /\ node[0].ev_leader_ping <= node[0].config.ping
           /\ node[n].config.expect_ping \in Nat
           /\ node[0].config.reconnect + node[0].config.ping + Delay
                < node[n].config.expect_ping
           /\ \A m \in net : m.age \in 0 .. Delay
           /\ SeedLeads(node[0]) /\ Joins(n, node[n]) /\ WillHear(n)
  <1>1. 0 \in Replica
    BY SeedIsReplica
  <1>2. SeedLeads(node[0]) /\ Joins(n, node[n]) /\ WillHear(n)
    BY DEF Quietly
  <1>3. node[0] \in node_t /\ node[n] \in node_t /\ Watching(0, node[0])
    BY <1>1 DEF TypeOK, NodeInv
  <1>4. node[0].ev_leader_ping \in Nat /\ node[n].ev_expect_ping \in Int
    BY <1>2, <1>3 DEF SeedLeads, Watching, node_t, Timer
  <1>5. /\ node[0].config.reconnect \in Nat /\ node[0].config.ping \in Nat /\ Delay \in Nat
        /\ node[n].config.expect_ping \in Nat
        /\ node[0].config.reconnect + node[0].config.ping + Delay < node[n].config.expect_ping
    BY <1>2, TimesFit DEF SeedLeads, Joins
  <1>6. \A m \in net : m.age \in 0 .. Delay
    BY DEF TypeOK, sys_msg
  <1> QED
    BY <1>1, <1>2, <1>4, <1>5, <1>6 DEF SeedLeads, Up

(* The expect timer of a running node does not fire. *)
LEMMA NeverExpires ==
    ASSUME TypeOK, NodeInv, Quietly, StartsInTime, NEW n \in Replica, Up(n)
    PROVE  node[n].ev_expect_ping # 0
  <1>1. CASE n = 0
    <2>1. node[0].leader_id = 0 /\ node[0].up /\ Watching(0, node[0])
      BY <1>1 DEF Quietly, SeedLeads, NodeInv
    <2> QED
      BY <1>1, <2>1 DEF Watching
  <1>2. CASE n # 0
    <2>1. n \in Replica \ {0}
      BY <1>2
    <2> QED
      BY <2>1, Bounds DEF WillHear
  <1> QED
    BY <1>1, <1>2

(* A timer that has just been set leaves time to hear of the seed. *)
LEMMA Renewed ==
    ASSUME NEW r, NEW link, NEW e,
           r.ev_leader_ping \in Nat, r.config.ping \in Nat, r.config.reconnect \in Nat,
           Delay \in Nat, e \in Nat,
           r.ev_leader_ping <= r.config.ping,
           r.config.reconnect + r.config.ping + Delay < e,
           link \in {ACTIVE, CONNECTING} \cup 0 .. r.config.reconnect
    PROVE  LET wait == IF link = CONNECTING THEN 0 ELSE link IN
           \/ link = ACTIVE /\ r.ev_leader_ping + Delay < e
           \/ link # ACTIVE /\ wait + r.config.ping + Delay < e
  OBVIOUS

(* The links of the seed: a running member is reachable, so its link is      *)
(* connected at the first attempt.                                           *)
LEMMA LinksQuiet ==
    ASSUME TypeOK, NodeInv, Quietly, StartsInTime, NEW n \in Replica,
           peer_node_on_event(n) \/ peer_node_on_timeout(n)
    PROVE  Quietly'
  <1>1. UNCHANGED <<node, net, cut, budget>> /\ Up(n)
    BY DEF peer_node_on_event, peer_node_on_timeout, Turn
  <1>2. peer \in [Replica -> [Replica -> Int]] /\ 0 \in Replica
    BY SeedIsReplica DEF TypeOK
  <1>3. SeedLeads(node[0])
    BY <1>1 DEF Quietly
  <1>4. node[0].config.reconnect \in Nat /\ node[0] \in node_t
    BY <1>2, Times DEF TypeOK, node_t
  <1>5. ASSUME NEW q \in Replica \ {0}
        PROVE  /\ peer'[0][q] \in {ACTIVE, CONNECTING} \cup 0 .. node[0].config.reconnect
               /\ Up(q) => \/ peer'[0][q] = peer[0][q]
                           \/ peer[0][q] = CONNECTING /\ peer'[0][q] = ACTIVE
                           \/ peer[0][q] = 0 /\ peer'[0][q] = CONNECTING
    <2>1. peer[0][q] \in {ACTIVE, CONNECTING} \cup 0 .. node[0].config.reconnect
      BY <1>3 DEF SeedLeads
    <2>2. CASE n # 0
      BY <1>2, <2>1, <2>2 DEF peer_node_on_event, peer_node_on_timeout
    <2>3. CASE n = 0 /\ peer_node_on_event(0)
      <3>1. peer'[0][q] = IF peer[0][q] = CONNECTING /\ Reachable(0, q) THEN ACTIVE
                          ELSE IF peer[0][q] \in {CONNECTING, BROKEN}
                               THEN node[0].config.reconnect ELSE peer[0][q]
        BY <1>2, <2>3 DEF peer_node_on_event
      <3>2. Up(q) => Reachable(0, q)
        BY DEF Quietly, Reachable
      <3> QED
        BY <1>4, <2>1, <3>1, <3>2
    <2>4. CASE n = 0 /\ peer_node_on_timeout(0)
      <3>1. peer'[0][q] = IF peer[0][q] = 0 THEN CONNECTING ELSE peer[0][q]
        BY <1>2, <2>4 DEF peer_node_on_timeout
      <3> QED
        BY <2>1, <3>1
    <2> QED
      BY <2>2, <2>3, <2>4
  <1>6. SeedLeads(node[0])'
    BY <1>1, <1>3, <1>5 DEF SeedLeads
  <1>7. ASSUME NEW q \in Replica \ {0}, Up(q) PROVE WillHear(q)'
    <2>1. /\ node[0].ev_leader_ping \in Nat /\ node[0].config.ping \in Nat
          /\ Delay \in Nat /\ node[q].ev_expect_ping \in Int
          /\ node[0].ev_leader_ping <= node[0].config.ping /\ WillHear(q)
      BY <1>7, Bounds
    <2> QED
      BY <1>1, <1>5, <1>7, <2>1 DEF WillHear
  <1> QED
    BY <1>1, <1>6, <1>7 DEF Quietly, Up, Joins

(* leader_ping_period: the ping that was to be sent is on its way. *)
LEMMA PingQuiet ==
    ASSUME TypeOK, NodeInv, Quietly, StartsInTime, NEW n \in Replica, leader_ping_period(n)
    PROVE  Quietly'
  <1>1. Up(n) /\ node[n].ev_leader_ping = 0 /\ UNCHANGED <<peer, cut, budget>>
    BY DEF leader_ping_period, Turn
  <1>2. node[n].leader_id = n
    BY <1>1 DEF NodeInv, Watching, Up
  <1>3. n = 0
    BY <1>1, <1>2, Constants DEF Quietly, Joins
  <1>4. SeedLeads(node[0]) /\ node[0] \in node_t /\ node \in [Replica -> node_t]
    BY <1>1, <1>3 DEF Quietly, TypeOK
  <1> DEFINE s == [node[0] EXCEPT !.ev_leader_ping = node[0].config.ping]
  <1>5. /\ node' = [node EXCEPT ![0] = s]
        /\ net' = net \cup send_to_other_nodes(0)
    BY <1>2, <1>3 DEF leader_ping_period
  <1>6. /\ s.up = node[0].up /\ s.state = node[0].state /\ s.view_id = node[0].view_id
        /\ s.leader_id = node[0].leader_id /\ s.config = node[0].config
        /\ s.ev_leader_ping = node[0].config.ping
    BY <1>4 DEF node_t
  <1> HIDE DEF s
  <1>7. node'[0] = s /\ \A q \in Replica \ {0} : node'[q] = node[q]
    BY <1>3, <1>4, <1>5
  <1>8. node[0].config.ping \in Nat
    BY <1>4, Times DEF node_t
  <1>9. SeedLeads(node[0])'
    <2>1. node'[0].ev_leader_ping <= node'[0].config.ping
      BY <1>6, <1>7, <1>8
    <2> QED
      BY <1>1, <1>4, <1>6, <1>7, <2>1 DEF SeedLeads
  <1>10. \A m \in send_to_other_nodes(0) :
            /\ m.type = "PING_REQ" /\ m.from = 0 /\ m.to # 0
            /\ m.view_id = 1 /\ m.leader_id = 0
    BY <1>4 DEF send_to_other_nodes, build_ping, SeedLeads
  <1>11. ASSUME NEW q \in Replica \ {0}, Up(q) PROVE WillHear(q)'
    <2>1. /\ Delay \in Nat /\ node[q].ev_expect_ping \in Int /\ WillHear(q)
      BY <1>11, Bounds
    <2>2. /\ peer' = peer /\ node'[q].ev_expect_ping = node[q].ev_expect_ping
          /\ node'[0].config = node[0].config
      BY <1>1, <1>6, <1>7
    <2>3. CASE \E m \in net : m.to = q /\ Delay - m.age < node[q].ev_expect_ping
      BY <1>5, <2>2, <2>3 DEF WillHear
    <2>4. CASE peer[0][q] = ACTIVE /\ node[0].ev_leader_ping + Delay < node[q].ev_expect_ping
      <3> DEFINE b == build_ping("PING_REQ", 0, q)
      <3>1. b \in net' /\ b.to = q /\ b.age = 0
        BY <1>5, <2>4 DEF send_to_other_nodes, build_ping
      <3>2. Delay - b.age < node'[q].ev_expect_ping
        BY <1>1, <1>3, <2>1, <2>2, <2>4, <3>1
      <3> HIDE DEF b
      <3> QED
        BY <3>1, <3>2 DEF WillHear
    <2>5. CASE \/ \E m \in net : m.to = q /\ Delay - m.age < node[q].ev_expect_ping
               \/ peer[0][q] # ACTIVE
      BY <1>5, <2>1, <2>2, <2>3, <2>5 DEF WillHear
    <2> QED
      BY <2>1, <2>3, <2>4, <2>5 DEF WillHear
  <1>12. \A q \in Replica : (~Up(q))' => node'[q] = Down
    BY <1>4, <1>6, <1>7 DEF Quietly, Up, SeedLeads
  <1>13. \A q \in Replica \ {0} : Up(q)' => Joins(q, node'[q])
    BY <1>7 DEF Quietly, Up
  <1> QED
    BY <1>1, <1>5, <1>7, <1>9, <1>10, <1>11, <1>12, <1>13 DEF Quietly, Up, Joins

(* make_progress_on: only the seed has the timer, and it leads. *)
LEMMA ProgressQuiet ==
    ASSUME TypeOK, NodeInv, Quietly, StartsInTime, NEW n \in Replica, make_progress_on(n)
    PROVE  Quietly'
  <1>1. Up(n) /\ node[n].ev_make_progress = 0 /\ UNCHANGED <<cut, budget>>
    BY DEF make_progress_on, Turn
  <1>2. n = 0
    BY <1>1 DEF Quietly, Joins
  <1>3. SeedLeads(node[0]) /\ node[0] \in node_t /\ node \in [Replica -> node_t]
    BY <1>1, <1>2 DEF Quietly, TypeOK
  <1> DEFINE s == [node[0] EXCEPT !.ev_make_progress = node[0].config.make_progress]
  <1>4. node' = [node EXCEPT ![0] = s] /\ UNCHANGED <<net, peer>>
    BY <1>2, <1>3 DEF make_progress_on, initialize_leader_make_progress, SeedLeads
  <1>5. /\ s.up = node[0].up /\ s.state = node[0].state /\ s.view_id = node[0].view_id
        /\ s.leader_id = node[0].leader_id /\ s.config = node[0].config
        /\ s.ev_leader_ping = node[0].ev_leader_ping
    BY <1>3 DEF node_t
  <1> HIDE DEF s
  <1>6. node'[0] = s /\ \A q \in Replica \ {0} : node'[q] = node[q]
    BY <1>2, <1>3, <1>4
  <1>7. SeedLeads(node[0])'
    BY <1>3, <1>4, <1>5, <1>6 DEF SeedLeads
  <1>8. \A q \in Replica \ {0} : WillHear(q) => WillHear(q)'
    BY <1>4, <1>5, <1>6 DEF WillHear
  <1>9. \A q \in Replica : (~Up(q))' => node'[q] = Down
    BY <1>3, <1>5, <1>6 DEF Quietly, Up, SeedLeads
  <1>10. \A q \in Replica \ {0} : Up(q)' => Joins(q, node'[q]) /\ WillHear(q)
    BY <1>6 DEF Quietly, Up
  <1> QED
    BY <1>1, <1>4, <1>7, <1>8, <1>9, <1>10 DEF Quietly, Joins

(* handle_msg: the ping renews the timer of its receiver. *)
LEMMA MsgQuiet ==
    ASSUME TypeOK, NodeInv, Quietly, StartsInTime, NEW m \in net, handle_msg(m)
    PROVE  Quietly'
  <1> DEFINE n == m.to
             s == handle_ping_req(n, node[n], m)
  <1>1. /\ m.type = "PING_REQ" /\ m.from = 0 /\ m.to # 0 /\ m.view_id = 1 /\ m.leader_id = 0
        /\ n \in Replica \ {0} /\ Up(n) /\ UNCHANGED <<peer, cut, budget>>
    BY DEF Quietly, TypeOK, sys_msg, handle_msg, Turn
  <1>2. /\ node \in [Replica -> node_t] /\ node[n] \in node_t /\ 0 \in Replica
        /\ node[n].ev_expect_ping # NULL
    <2>1. node[n].leader_id # n
      BY <1>1, Constants DEF Quietly, Joins
    <2> QED
      BY <1>1, <2>1, SeedIsReplica DEF TypeOK, NodeInv, HasTimer, Up
  <1>3. Joins(n, node[n]) /\ SeedLeads(node[0])
    BY <1>1 DEF Quietly
  <1>4. node' = [node EXCEPT ![n] = s] /\ net' = net \ {m}
    BY <1>1, <1>2, <1>3 DEF handle_msg, Handled, Joins
  <1>5. /\ Joins(n, s) /\ s.up = node[n].up /\ s.config = node[n].config
        /\ s.ev_expect_ping = node[n].config.expect_ping
    <2>1. CASE node[n].view_id = 0
      BY <1>1, <1>2, <1>3, <2>1
      DEF handle_ping_req, update_view, become_secondary, initialize_expect_ping, Joins, node_t
    <2>2. CASE node[n].view_id = 1 /\ node[n].leader_id = 0
      BY <1>1, <1>2, <1>3, <2>2 DEF handle_ping_req, Joins, node_t
    <2> QED
      BY <1>3, <2>1, <2>2 DEF Joins
  <1> HIDE DEF s
  <1>6. node'[n] = s /\ \A q \in Replica : q # n => node'[q] = node[q]
    BY <1>1, <1>2, <1>4
  <1>7. node'[0] = node[0]
    BY <1>1, <1>2, <1>6
  <1>8. SeedLeads(node[0])'
    BY <1>1, <1>3, <1>7 DEF SeedLeads
  <1>9. WillHear(n)'
    <2> DEFINE link == peer[0][n]
               wait == IF link = CONNECTING THEN 0 ELSE link
               r == node[0]
               e == node[n].config.expect_ping
    <2>1. /\ r.ev_leader_ping \in Nat /\ r.config.ping \in Nat /\ r.config.reconnect \in Nat
          /\ Delay \in Nat /\ e \in Nat /\ r.ev_leader_ping <= r.config.ping
          /\ r.config.reconnect + r.config.ping + Delay < e
          /\ link \in {ACTIVE, CONNECTING} \cup 0 .. r.config.reconnect
      BY <1>1, Bounds
    <2>2. \/ link = ACTIVE /\ r.ev_leader_ping + Delay < e
          \/ link # ACTIVE /\ wait + r.config.ping + Delay < e
      BY <2>1, Renewed
    <2> QED
      BY <1>1, <1>5, <1>6, <1>7, <2>2 DEF WillHear
  <1>10. ASSUME NEW q \in Replica \ {0}, q # n, Up(q) PROVE WillHear(q)'
    <2>1. WillHear(q)
      BY <1>10 DEF Quietly
    <2>2. node'[q] = node[q] /\ peer' = peer /\ \A k \in net : k.to = q => k \in net'
      BY <1>1, <1>4, <1>6, <1>10
    <2> QED
      BY <1>7, <2>1, <2>2 DEF WillHear
  <1>11. \A q \in Replica \ {0} : Up(q)' => Joins(q, node'[q]) /\ WillHear(q)'
    BY <1>1, <1>5, <1>6, <1>9, <1>10 DEF Quietly, Up
  <1>12. \A q \in Replica : (~Up(q))' => node'[q] = Down
    BY <1>1, <1>5, <1>6 DEF Quietly, Up
  <1>13. \A k \in net' : k \in net
    BY <1>4
  <1> QED
    BY <1>1, <1>8, <1>11, <1>12, <1>13 DEF Quietly, Joins

(* Time goes on: the expect timers and what they wait for come nearer alike. *)
LEMMA TickQuiet ==
    ASSUME TypeOK, NodeInv, Quietly, StartsInTime, Tick
    PROVE  Quietly'
  <1>1. /\ node' = [n \in Replica |-> IF ~Up(n) THEN node[n] ELSE Ticked(node[n])]
        /\ peer' = [n \in Replica |-> [m \in Replica |-> Later(peer[n][m])]]
        /\ net' = {[m EXCEPT !.age = @ + 1] : m \in net}
        /\ UNCHANGED <<cut, budget>>
    BY DEF Tick, Ticked
  <1>2. \A n \in Replica : ~Due(n)
    BY DEF Tick, Quiet
  <1>3. /\ node \in [Replica -> node_t] /\ 0 \in Replica /\ net \subseteq sys_msg
        /\ Delay \in Nat
    BY Constants, SeedIsReplica DEF TypeOK
  <1>4. ASSUME NEW n \in Replica, Up(n)
        PROVE  /\ node'[n].up /\ node'[n].state = node[n].state
               /\ node'[n].view_id = node[n].view_id /\ node'[n].leader_id = node[n].leader_id
               /\ node'[n].config = node[n].config
               /\ node'[n].ev_leader_ping = Later(node[n].ev_leader_ping)
               /\ node'[n].ev_expect_ping = Later(node[n].ev_expect_ping)
               /\ node'[n].ev_make_progress = Later(node[n].ev_make_progress)
    <2>1. node'[n] = Ticked(node[n]) /\ node[n] \in node_t
      BY <1>1, <1>3, <1>4
    <2> QED
      BY <1>4, <2>1 DEF Ticked, node_t, Up
  <1>5. ASSUME NEW n \in Replica, ~Up(n) PROVE node'[n] = Down /\ (~Up(n))'
    BY <1>1, <1>5, DownType DEF Quietly, Up
  <1>6. \A n \in Replica : Up(n)' <=> Up(n)
    BY <1>4, <1>5 DEF Up
  <1>7. \A m \in net' : /\ m.type = "PING_REQ" /\ m.from = 0 /\ m.to # 0
                        /\ m.view_id = 1 /\ m.leader_id = 0
    BY <1>1, <1>3 DEF Quietly, sys_msg
  <1>8. ASSUME Up(0) PROVE SeedLeads(node[0])'
    <2>1. SeedLeads(node[0])
      BY <1>3, <1>8 DEF Quietly
    <2>2. node[0].ev_leader_ping \in Int /\ node[0].config.ping \in Nat
          /\ node[0].config.reconnect \in Nat
      BY <1>3, Times DEF node_t, Timer
    <2>3. node'[0].ev_leader_ping <= node'[0].config.ping
      BY <1>3, <1>4, <1>8, <2>1, <2>2 DEF SeedLeads, Later
    <2>4. \A n \in Replica \ {0} :
             peer'[0][n] \in {ACTIVE, CONNECTING} \cup 0 .. node[0].config.reconnect
      BY <1>1, <1>3, <2>1, <2>2 DEF SeedLeads, Later
    <2> QED
      BY <1>3, <1>4, <1>8, <2>1, <2>3, <2>4 DEF SeedLeads
  <1>9. ASSUME NEW n \in Replica \ {0}, Up(n) PROVE Joins(n, node'[n]) /\ WillHear(n)'
    <2>1. Joins(n, node[n]) /\ WillHear(n)
      BY <1>9 DEF Quietly
    <2>2. Joins(n, node'[n])
      BY <1>4, <1>9, <2>1 DEF Joins, Later
    <2> DEFINE e == node[n].ev_expect_ping
               link == peer[0][n]
               a == node[0].ev_leader_ping
    <2>3. /\ Up(0) /\ a \in Nat /\ node[0].config.ping \in Nat
          /\ node[0].config.reconnect \in Nat /\ e \in Int
          /\ link \in {ACTIVE, CONNECTING} \cup 0 .. node[0].config.reconnect
          /\ \A m \in net : m.age \in 0 .. Delay
      BY <1>9, Bounds
    <2>4. a # 0 /\ link # 0 /\ link # CONNECTING
      BY <1>2, <1>3, <2>3 DEF Due
    <2>5. /\ node'[n].ev_expect_ping = Later(e) /\ node'[0].ev_leader_ping = Later(a)
          /\ peer'[0][n] = Later(link) /\ node'[0].config = node[0].config
          /\ Later(e) \in Int /\ Later(a) \in Int /\ Later(link) \in Int
      BY <1>1, <1>3, <1>4, <1>9, <2>3 DEF Later
    <2>6. CASE \E m \in net : m.to = n /\ Delay - m.age < e
      <3>1. PICK m \in net : m.to = n /\ Delay - m.age < e
        BY <2>6
      <3> DEFINE k == [m EXCEPT !.age = @ + 1]
      <3>2. m \in sys_msg /\ m.age \in 0 .. Delay
        BY <1>3, <3>1, <2>3
      <3>3. k \in net' /\ k.to = n /\ k.age = m.age + 1
        BY <1>1, <3>1, <3>2 DEF sys_msg
      <3> HIDE DEF k
      <3>4. Delay - k.age < Later(e)
        BY <1>3, <2>3, <3>1, <3>2, <3>3 DEF Later
      <3>5. Delay - k.age < node'[n].ev_expect_ping
        BY <2>5, <3>4
      <3> QED
        BY <2>2, <3>3, <3>5 DEF WillHear
    <2>7. CASE link = ACTIVE /\ a + Delay < e
      <3>1. Later(link) = ACTIVE /\ Later(a) + Delay < Later(e)
        BY <1>3, <2>3, <2>4, <2>7 DEF Later
      <3>2. peer'[0][n] = ACTIVE /\ node'[0].ev_leader_ping + Delay < node'[n].ev_expect_ping
        BY <2>5, <3>1
      <3> QED
        BY <2>2, <3>2 DEF WillHear
    <2>8. CASE link # ACTIVE /\ link + node[0].config.ping + Delay < e
      <3>1. /\ Later(link) # ACTIVE /\ Later(link) # CONNECTING
            /\ Later(link) + node[0].config.ping + Delay < Later(e)
        BY <1>3, <2>3, <2>4, <2>8 DEF Later
      <3>2. /\ peer'[0][n] # ACTIVE /\ peer'[0][n] # CONNECTING
            /\ peer'[0][n] + node'[0].config.ping + Delay < node'[n].ev_expect_ping
        BY <2>5, <3>1
      <3> QED
        BY <2>2, <3>2 DEF WillHear
    <2>9. WillHear(n)'
      BY <2>1, <2>4, <2>6, <2>7, <2>8 DEF WillHear
    <2> QED
      BY <2>2, <2>9
  <1>10. \A n \in Replica : Up(n) => Up(0)
    BY <1>3 DEF Quietly, SeedLeads, Up
  <1> QED
    BY <1>1, <1>5, <1>6, <1>7, <1>8, <1>9, <1>10 DEF Quietly, Joins

(* main: the seed is started first and leads; the link to any other node is  *)
(* tried again within the reconnect period after that node has started.      *)
LEMMA MainQuiet ==
    ASSUME TypeOK, NodeInv, Quietly, StartsInTime, NEW n \in Replica, main(n),
           budget.fault = 0
    PROVE  Quietly'
  <1>1. PICK f \in File, mode \in {"s", "r"} :
          /\ mode = "s" <=> budget.fault = 0 /\ \A m \in Replica : ~Up(m)
          /\ mode = "s" => n = 0
          /\ LET config == consensus_read_config(n, f)
                 started == proxy_read_config(n, f) /\ config # {}
             IN /\ node' = [node EXCEPT ![n] =
                              IF started
                              THEN system_initialize(n, mode, CHOOSE c \in config : TRUE)
                              ELSE @]
                /\ peer' = [peer EXCEPT ![n] =
                              IF started THEN connect_peers(n) ELSE @]
    BY DEF main
  <1>2. /\ UNCHANGED <<net, cut>> /\ ~Up(n) /\ 0 \in Replica
        /\ node \in [Replica -> node_t] /\ peer \in [Replica -> [Replica -> Int]]
    BY SeedIsReplica DEF main, TypeOK
  <1> DEFINE config == consensus_read_config(n, f)
             started == proxy_read_config(n, f) /\ config # {}
  <1>3. CASE ~started
    <2>1. node' = node /\ peer' = peer
      BY <1>1, <1>2, <1>3
    <2> QED
      BY <1>2, <2>1 DEF Quietly, Up, SeedLeads, Joins, WillHear
  <1>4. CASE started
    <2> DEFINE c == CHOOSE x \in config : TRUE
               s == system_initialize(n, mode, c)
    <2>1. c \in config
      BY <1>4
    <2>2. node' = [node EXCEPT ![n] = s] /\ peer' = [peer EXCEPT ![n] = connect_peers(n)]
      BY <1>1, <1>4
    <2>3. c \in [DOMAIN DefaultTime -> Nat] /\ c.ping \in Nat /\ c.reconnect \in Nat
      BY <2>1, ReadConfig, Times
    <2> HIDE DEF c
    <2>4. node'[n] = s /\ \A q \in Replica : q # n => node'[q] = node[q]
      BY <1>2, <2>2
    <2>5. CASE mode = "s"
      <3>1. n = 0 /\ \A m \in Replica : ~Up(m)
        BY <1>1, <2>5
      <3>2. /\ s.up /\ s.state = NODE_ACTIVE /\ s.view_id = 1 /\ s.leader_id = 0
            /\ s.ev_leader_ping = c.ping /\ s.config = c
        BY <2>5, <3>1 DEF system_initialize, initialize_leader_make_progress,
                          initialize_leader_ping, Down
      <3> HIDE DEF s
      <3>3. \A q \in Replica \ {0} : peer'[0][q] = CONNECTING
        BY <1>2, <2>2, <3>1 DEF connect_peers
      <3>4. s.ev_leader_ping <= s.config.ping
        BY <2>3, <3>2
      <3>5. SeedLeads(node[0])'
        BY <2>1, <2>4, <3>1, <3>2, <3>3, <3>4 DEF SeedLeads
      <3>6. \A q \in Replica \ {0} : node'[q] = Down /\ ~node'[q].up
        BY <2>4, <3>1, DownType DEF Quietly
      <3> QED
        BY <1>2, <2>4, <3>1, <3>2, <3>5, <3>6 DEF Quietly, Up
    <2>6. CASE mode = "r"
      <3>1. PICK m \in Replica : Up(m)
        BY <1>1, <2>6
      <3>2. SeedLeads(node[0]) /\ Up(0) /\ n # 0 /\ n # NONE /\ n \in Replica \ {0}
        BY <1>2, <3>1, Constants DEF Quietly, SeedLeads, Up
      <3>3. /\ s.up /\ s.state = NODE_ACTIVE /\ s.view_id = 0 /\ s.leader_id = NONE
            /\ s.ev_expect_ping = c.expect_ping /\ s.config = c /\ s.ev_make_progress = NULL
        BY <2>6, <3>2 DEF system_initialize, initialize_expect_ping, Down
      <3> HIDE DEF s
      <3>4. Joins(n, s)
        BY <2>1, <3>3 DEF Joins
      <3>5. peer'[0] = peer[0] /\ node'[0] = node[0]
        BY <1>2, <2>2, <2>4, <3>2
      <3>6. SeedLeads(node[0])'
        BY <3>2, <3>5 DEF SeedLeads
      <3>7. WillHear(n)'
        <4> DEFINE link == peer[0][n]
                   wait == IF link = CONNECTING THEN 0 ELSE link
                   r == node[0]
                   e == c.expect_ping
        <4>1. /\ r.config.ping \in Nat /\ r.config.reconnect \in Nat
              /\ Delay \in Nat /\ e \in Nat /\ r.config.reconnect + r.config.ping + Delay < e
          BY <2>1, <3>2, TimesFit DEF SeedLeads
        <4>2. /\ r.ev_leader_ping <= r.config.ping
              /\ link \in {ACTIVE, CONNECTING} \cup 0 .. r.config.reconnect
          BY <3>2 DEF SeedLeads
        <4>3. r.ev_leader_ping \in Nat
          BY <1>2, <3>2 DEF NodeInv, Watching, SeedLeads, node_t, Timer
        <4>4. \/ link = ACTIVE /\ r.ev_leader_ping + Delay < e
              \/ link # ACTIVE /\ wait + r.config.ping + Delay < e
          BY <4>1, <4>2, <4>3, Renewed
        <4> QED
          BY <2>4, <3>3, <3>5, <4>4 DEF WillHear
      <3>8. \A q \in Replica \ {0} : q # n /\ Up(q) => Joins(q, node'[q]) /\ WillHear(q)'
        BY <1>2, <2>4, <3>5 DEF Quietly, WillHear
      <3> QED
        BY <1>2, <2>4, <3>3, <3>4, <3>6, <3>7, <3>8 DEF Quietly, Up
    <2> QED
      BY <2>5, <2>6
  <1> QED
    BY <1>3, <1>4

(* Every step keeps QuietInv. *)
LEMMA QuietNext ==
    ASSUME TypeOK, NodeInv, QuietInv, StartsInTime, [Next]_vars
    PROVE  QuietInv'
  <1> SUFFICES ASSUME budget'.fault = 0 PROVE Quietly'
    BY DEF QuietInv, Quietly
  <1>1. budget \in [start : Nat, fault : Nat]
    BY DEF TypeOK
  <1>2. CASE \E n \in Replica : Crash(n) \/ CutOff(n)
    <2>1. budget'.fault = budget.fault + 1
      BY <1>1, <1>2 DEF Crash, CutOff
    <2> QED
      BY <1>1, <2>1
  <1>3. CASE ~\E n \in Replica : Crash(n) \/ CutOff(n)
    <2>1. budget'.fault = budget.fault
      BY <1>1, <1>3 DEF Next, Handler, vars, peer_node_on_event, peer_node_on_timeout,
         leader_ping_period, expected_leader_ping_period, make_progress_on, handle_msg,
         main, leader_election_handle_announce, leader_election_leader_close, Back, Tick
    <2>2. Quietly
      BY <2>1, QuietMeaning
    <2>3. CASE \E n \in Replica : peer_node_on_event(n) \/ peer_node_on_timeout(n)
      BY <2>2, <2>3, LinksQuiet
    <2>4. CASE \E n \in Replica : leader_ping_period(n)
      BY <2>2, <2>4, PingQuiet
    <2>5. CASE \E n \in Replica : expected_leader_ping_period(n)
      BY <2>2, <2>5, NeverExpires DEF expected_leader_ping_period, Turn
    <2>6. CASE \E n \in Replica : make_progress_on(n)
      BY <2>2, <2>6, ProgressQuiet
    <2>7. CASE \E m \in net : handle_msg(m)
      BY <2>2, <2>7, MsgQuiet
    <2>8. CASE \E n \in Replica : main(n)
      BY <2>1, <2>2, <2>8, MainQuiet
    <2>9. CASE \/ \E S \in SUBSET Replica : \E l \in S : leader_election_handle_announce(S, l)
               \/ \E l \in Replica : leader_election_leader_close(l)
      <3>1. PICK l \in Replica : Up(l) /\ node[l].state # NODE_ACTIVE
        BY <2>9 DEF leader_election_handle_announce, leader_election_leader_close
      <3>2. node[l].state = NODE_ACTIVE
        BY <2>2, <3>1 DEF Quietly, SeedLeads, Joins
      <3> QED
        BY <3>1, <3>2
    <2>10. CASE Back
      BY <2>2, <2>10 DEF Back, Quietly
    <2>11. CASE Tick
      BY <2>2, <2>11, TickQuiet
    <2>12. CASE UNCHANGED vars
      BY <2>2, <2>12 DEF vars, Quietly, Up, SeedLeads, Joins, WillHear
    <2> QED
      BY <1>3, <2>3, <2>4, <2>5, <2>6, <2>7, <2>8, <2>9, <2>10, <2>11, <2>12
      DEF Next, Handler
  <1> QED
    BY <1>2, <1>3

(* QuietInv: while a group is only started, a ping of the seed is always on  *)
(* its way or due before the expect timer of every other node.               *)
THEOREM QuietInvHolds ==
    ASSUME StartsInTime
    PROVE  Spec => []QuietInv
  <1>1. Init => QuietInv
    BY DownType DEF Init, QuietInv, Up
  <1>2. (TypeOK /\ NodeInv) /\ QuietInv /\ [Next]_vars => QuietInv'
    BY QuietNext
  <1> QED
    BY <1>1, <1>2, NodeInvariance, PTL DEF Spec

(* QuietStart: if a reconnect, a ping and a delay fit into the expect period *)
(* no node of a group that has met no fault ever starts an election, however *)
(* the starts of its processes are spread over time.                         *)
THEOREM QuietStartHolds ==
    ASSUME StartsInTime
    PROVE  Spec => []QuietStart
  <1>1. QuietInv => QuietStart
    BY DEF QuietInv, QuietStart, SeedLeads, Joins, Down
  <1> QED
    BY <1>1, QuietInvHolds, PTL
================================================================================
