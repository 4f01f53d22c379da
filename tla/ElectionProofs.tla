----------------------------- MODULE ElectionProofs ----------------------------
(***************************************************************************)
(* TLAPS proofs about Election: its type invariant, and what view 2 keeps  *)
(* of view 1.  The handlers are operators that return a node's module, its *)
(* network and its state, so each is shown once to return well typed ones  *)
(* and to leave the edge alone or to announce a leader.                    *)
(***************************************************************************)
EXTENDS Election, TLAPS, FiniteSetTheorems, WellFoundedInduction

LEMMA Constants ==
    /\ GroupSize \in Nat /\ GroupSize > 0 /\ MaxReq \in Nat /\ MaxPnum \in Nat
    /\ OldLeader \in Node /\ Node \subseteq Nat /\ None \notin Node /\ None \notin Nat
    /\ Pnum \subseteq Nat /\ Slot \subseteq 0..MaxReq
  BY GroupAssumption, CapAssumption DEF Node, None, Pnum, Slot

(* A nonempty set of natural numbers has a smallest element, *)
LEMMA MinFacts ==
    ASSUME NEW S \in SUBSET Nat, S # {}
    PROVE  Min(S) \in S /\ \A y \in S : Min(S) <= y
  <1>1. PICK x \in S : \A y \in S : ~(<<y, x>> \in OpToRel(<, Nat))
    <2>1. IsWellFoundedOn(OpToRel(<, Nat), Nat)
      BY NatLessThanWellFounded
    <2> QED
      BY <2>1, WFMin, Zenon
  <1>2. ASSUME NEW y \in S PROVE x <= y
    <2>1. <<y, x>> \in Nat \X Nat /\ <<y, x>>[1] = y /\ <<y, x>>[2] = x
      OBVIOUS
    <2>2. ~(y < x)
      BY <1>1, <2>1 DEF OpToRel
    <2> QED
      BY <2>2
  <1> QED
    BY <1>2 DEF Min

(* and one that is bounded has a largest one. *)
LEMMA MaxFacts ==
    ASSUME NEW b \in Nat, NEW S \in SUBSET Int, S # {}, \A y \in S : y <= b
    PROVE  Max(S) \in S /\ \A y \in S : Max(S) >= y
  <1> DEFINE T == {k \in Nat : b - k \in S}
  <1>1. T # {}
    <2>1. PICK y \in S : TRUE
      OBVIOUS
    <2>2. b - y \in Nat /\ b - (b - y) = y
      BY <2>1
    <2> QED
      BY <2>2
  <1>2. T \in SUBSET Nat
    OBVIOUS
  <1> HIDE DEF T
  <1>3. Min(T) \in T /\ \A y \in T : Min(T) <= y
    BY <1>1, <1>2, MinFacts
  <1>4. Min(T) \in Nat /\ b - Min(T) \in S
    BY <1>3 DEF T
  <1>5. ASSUME NEW y \in S PROVE b - Min(T) >= y
    <2>1. y \in Int /\ y <= b /\ b - y \in Nat /\ b - (b - y) = y
      OBVIOUS
    <2>2. b - y \in T
      BY <2>1 DEF T
    <2> QED
      BY <1>3, <1>4, <2>1, <2>2
  <1>6. \E x \in S : \A y \in S : x >= y
    BY <1>4, <1>5
  <1> QED
    BY <1>6 DEF Max

(* The larger of two numbers. *)
LEMMA MaxOfTwo ==
    ASSUME NEW a \in Int, NEW b \in Int
    PROVE  /\ Max({a, b}) \in {a, b}
           /\ Max({a, b}) >= a /\ Max({a, b}) >= b
  <1>1. \E x \in {a, b} : \A y \in {a, b} : x >= y
    <2>1. CASE a >= b
      BY <2>1
    <2>2. CASE b >= a
      BY <2>2
    <2> QED
      BY <2>1, <2>2
  <1> QED
    BY <1>1 DEF Max

LEMMA NodeFinite == IsFiniteSet(Node) /\ Cardinality(Node) = GroupSize
  <1>1. 0 \in Int /\ GroupSize - 1 \in Int /\ 0 <= GroupSize - 1
    BY Constants
  <1>2. IsFiniteSet(Node) /\ Cardinality(Node) = (GroupSize - 1) - 0 + 1
    BY <1>1, FS_Interval DEF Node
  <1> QED
    BY <1>2, Constants

(* Two majorities meet. *)
LEMMA MajoritiesMeet ==
    ASSUME NEW P \in SUBSET Node, NEW Q \in SUBSET Node, Majority(P), Majority(Q)
    PROVE  \E s \in Node : s \in P /\ s \in Q
  <1>1. Cardinality(P) >= (GroupSize \div 2) + 1 /\ Cardinality(Q) >= (GroupSize \div 2) + 1
    BY DEF Majority
  <1>2. Cardinality(P) \in Nat /\ Cardinality(Q) \in Nat
    BY NodeFinite, FS_Subset, FS_CardinalityType
  <1>3. \E h \in Nat : h = GroupSize \div 2 /\ GroupSize < 2 * h + 2
    BY Constants
  <1>4. Cardinality(P) + Cardinality(Q) > Cardinality(Node)
    BY <1>1, <1>2, <1>3, NodeFinite, Constants
  <1>5. P \cap Q # {}
    BY <1>4, NodeFinite, FS_MajoritiesIntersect
  <1> QED
    BY <1>5

LEMMA MajorityNonempty ==
    ASSUME NEW Q, Majority(Q)
    PROVE  Q # {}
  <1>1. GroupSize \div 2 \in Nat
    BY Constants
  <1> QED
    BY <1>1, FS_EmptySet DEF Majority

(* A larger set of nodes is a majority as well. *)
LEMMA MajorityGrows ==
    ASSUME NEW P \in SUBSET Node, NEW Q \in SUBSET Node, P \subseteq Q, Majority(P)
    PROVE  Majority(Q)
  <1>1. IsFiniteSet(Q) /\ Cardinality(P) <= Cardinality(Q)
    BY NodeFinite, FS_Subset
  <1>2. Cardinality(P) \in Nat /\ Cardinality(Q) \in Nat
    BY NodeFinite, FS_Subset, FS_CardinalityType
  <1>3. GroupSize \div 2 \in Nat
    BY Constants
  <1> QED
    BY <1>1, <1>2, <1>3 DEF Majority
--------------------------------------------------------------------------------
(* The network. *)

(* The elements of a sequence after its head is taken off. *)
LEMMA TailFacts ==
    ASSUME NEW S, NEW s \in Seq(S), s # <<>>
    PROVE  /\ Head(s) \in S
           /\ Head(s) = s[1]
           /\ 1 \in 1..Len(s)
           /\ Tail(s) \in Seq(S)
           /\ Len(Tail(s)) = Len(s) - 1
           /\ \A i \in 1..Len(Tail(s)) : Tail(s)[i] = s[i + 1]
  OBVIOUS

(* An element of an extended sequence is an old one or the new one. *)
LEMMA AppendFacts ==
    ASSUME NEW S, NEW s \in Seq(S), NEW e \in S
    PROVE  /\ Append(s, e) \in Seq(S)
           /\ \A i \in 1..Len(Append(s, e)) :
                 (i \in 1..Len(s) /\ Append(s, e)[i] = s[i]) \/ Append(s, e)[i] = e
  OBVIOUS

Network == [Chan -> Seq(Msg)]

MsgsOf(N, c) == {N[c][i] : i \in 1..Len(N[c])}

Dequeue(N, c) == [N EXCEPT ![c] = Tail(@)]

(* Taking a message off a connection leaves a network whose messages were    *)
(* all there before, and the message taken is a message.                     *)
LEMMA DequeueFacts ==
    ASSUME NEW N \in Network, NEW c \in Chan, N[c] # <<>>,
           NEW M, M = Dequeue(N, c)
    PROVE  /\ M \in Network
           /\ \A x \in Chan : MsgsOf(M, x) \subseteq MsgsOf(N, x)
           /\ Head(N[c]) \in Msg
           /\ Head(N[c]) \in MsgsOf(N, c)
  <1>1. N[c] \in Seq(Msg)
    BY DEF Network
  <1>2. /\ Head(N[c]) \in Msg
        /\ Head(N[c]) = N[c][1]
        /\ 1 \in 1..Len(N[c])
        /\ Tail(N[c]) \in Seq(Msg)
        /\ Len(Tail(N[c])) = Len(N[c]) - 1
        /\ \A i \in 1..Len(Tail(N[c])) : Tail(N[c])[i] = N[c][i + 1]
    BY <1>1, TailFacts
  <1>3. M \in Network
    BY <1>2 DEF Network, Dequeue
  <1>4. ASSUME NEW x \in Chan PROVE MsgsOf(M, x) \subseteq MsgsOf(N, x)
    <2>1. CASE x = c
      <3>1. M[x] = Tail(N[c])
        BY <2>1 DEF Network, Dequeue
      <3>2. ASSUME NEW i \in 1..Len(M[x]) PROVE M[x][i] \in MsgsOf(N, x)
        <4>1. Len(N[c]) \in Nat
          BY <1>1
        <4>2. i \in 1..Len(Tail(N[c]))
          BY <3>1
        <4>3. i + 1 \in 1..Len(N[c])
          BY <1>2, <4>1, <4>2
        <4>4. M[x][i] = N[c][i + 1]
          BY <1>2, <3>1, <4>2
        <4> QED
          BY <4>3, <4>4, <2>1 DEF MsgsOf
      <3> QED
        BY <3>2 DEF MsgsOf
    <2>2. CASE x # c
      BY <2>2 DEF MsgsOf, Network, Dequeue
    <2> QED
      BY <2>1, <2>2
  <1> QED
    BY <1>2, <1>3, <1>4 DEF MsgsOf

(* send_to_one_node adds its message to one connection at most. *)
LEMMA SendFacts ==
    ASSUME NEW N \in Network, NEW s, NEW d, <<s, d>> \in Chan, NEW m \in Msg,
           NEW M, M = send_to_one_node(N, s, d, m)
    PROVE  /\ M \in Network
           /\ \A x \in Chan : \A e \in MsgsOf(M, x) :
                 e \in MsgsOf(N, x) \/ (x = <<s, d>> /\ e = m)
  <1>1. CASE d \notin up
    BY <1>1 DEF send_to_one_node
  <1>2. CASE d \in up
    <2> DEFINE c == <<s, d>>
    <2>1. c \in Chan /\ N[c] \in Seq(Msg) /\ M = [N EXCEPT ![c] = Append(N[c], m)]
      BY <1>2 DEF Network, send_to_one_node
    <2> HIDE DEF c
    <2>2. /\ Append(N[c], m) \in Seq(Msg)
          /\ \A i \in 1..Len(Append(N[c], m)) :
                (i \in 1..Len(N[c]) /\ Append(N[c], m)[i] = N[c][i])
                  \/ Append(N[c], m)[i] = m
      BY <2>1, AppendFacts
    <2>3. M \in Network
      BY <2>1, <2>2 DEF Network
    <2>4. M[c] = Append(N[c], m)
      BY <2>1 DEF Network
    <2>5. MsgsOf(M, c) \subseteq MsgsOf(N, c) \cup {m}
      BY <2>2, <2>4 DEF MsgsOf
    <2>6. \A x \in Chan : x # c => MsgsOf(M, x) = MsgsOf(N, x)
      BY <2>1 DEF MsgsOf, Network
    <2> QED
      BY <2>3, <2>5, <2>6 DEF c
  <1> QED
    BY <1>1, <1>2

(* send_to_other_nodes adds nothing but its message. *)
LEMMA BroadcastFacts ==
    ASSUME NEW N \in Network, NEW s, NEW m \in Msg,
           NEW M, M = send_to_other_nodes(N, s, m)
    PROVE  /\ M \in Network
           /\ \A x \in Chan : \A e \in MsgsOf(M, x) : e \in MsgsOf(N, x) \/ e = m
  <1>1. ASSUME NEW x \in Chan
        PROVE  /\ M[x] \in Seq(Msg)
               /\ \A e \in MsgsOf(M, x) : e \in MsgsOf(N, x) \/ e = m
    <2>1. N[x] \in Seq(Msg) /\ (M[x] = N[x] \/ M[x] = Append(N[x], m))
      BY DEF Network, send_to_other_nodes
    <2>2. /\ Append(N[x], m) \in Seq(Msg)
          /\ \A i \in 1..Len(Append(N[x], m)) :
                (i \in 1..Len(N[x]) /\ Append(N[x], m)[i] = N[x][i])
                  \/ Append(N[x], m)[i] = m
      BY <2>1, AppendFacts
    <2> QED
      BY <2>1, <2>2 DEF MsgsOf
  <1>2. M = [x \in Chan |-> M[x]]
    BY DEF send_to_other_nodes
  <1> QED
    BY <1>1, <1>2 DEF Network

(* What was on the way to a node that stops is gone, the rest stays. *)
LEMMA EraseFacts ==
    ASSUME NEW N \in Network, NEW n,
           NEW M, M = [c \in Chan |-> IF c[2] = n THEN <<>> ELSE N[c]]
    PROVE  /\ M \in Network
           /\ \A x \in Chan : MsgsOf(M, x) \subseteq MsgsOf(N, x)
  <1>1. <<>> \in Seq(Msg) /\ Len(<<>>) = 0
    OBVIOUS
  <1>2. \A x \in Chan : M[x] = <<>> \/ M[x] = N[x]
    OBVIOUS
  <1> QED
    BY <1>1, <1>2 DEF Network, MsgsOf

(* A broken connection keeps a part of its messages. *)
LEMMA TruncateFacts ==
    ASSUME NEW N \in Network, NEW c \in Chan, NEW k \in 0..(Len(N[c]) - 1),
           NEW M, M = [N EXCEPT ![c] = SubSeq(@, 1, k)]
    PROVE  /\ M \in Network
           /\ \A x \in Chan : MsgsOf(M, x) \subseteq MsgsOf(N, x)
  <1>1. N[c] \in Seq(Msg) /\ Len(N[c]) \in Nat
    BY DEF Network
  <1>2. /\ SubSeq(N[c], 1, k) \in Seq(Msg)
        /\ Len(SubSeq(N[c], 1, k)) = k
        /\ \A i \in 1..k : SubSeq(N[c], 1, k)[i] = N[c][i]
    BY <1>1
  <1>3. M \in Network /\ M[c] = SubSeq(N[c], 1, k)
    BY <1>2 DEF Network
  <1>4. MsgsOf(M, c) \subseteq MsgsOf(N, c)
    <2>1. \A i \in 1..k : i \in 1..Len(N[c])
      BY <1>1
    <2> QED
      BY <1>2, <1>3, <2>1 DEF MsgsOf
  <1>5. \A x \in Chan : x # c => M[x] = N[x]
    BY DEF Network
  <1> QED
    BY <1>3, <1>4, <1>5 DEF MsgsOf
--------------------------------------------------------------------------------
(* A node's module, one assignment at a time. *)
LEMMA ModUpdates ==
    ASSUME NEW md \in Mod
    PROVE  /\ \A k \in Nat : [md EXCEPT !.next_pnum = k] \in Mod
           /\ \A a \in Acceptor : [md EXCEPT !.acceptor = a] \in Mod
           /\ \A f \in [Node -> Promise] : [md EXCEPT !.proposer_arr = f] \in Mod
           /\ \A f \in [Node -> Learned] : [md EXCEPT !.learner_arr = f] \in Mod
           /\ \A l \in Node : [md EXCEPT !.new_leader = l] \in Mod
           /\ \A e \in Edge : [md EXCEPT !.edge = e] \in Mod
           /\ [md EXCEPT !.announce_ack = TRUE] \in Mod
  BY ZenonT(60) DEF Mod

LEMMA NewModType == NewMod \in Mod
  <1>1. /\ [highest_seen_pnum |-> 0, accepted_pnum |-> 0, content |-> 0] \in Acceptor
        /\ [p_pnum |-> None, a_pnum |-> None, content |-> None] \in Promise
        /\ [pnum |-> None, content |-> None] \in Learned
        /\ [start |-> None, end |-> 0, empty |-> {}, count |-> {}] \in Edge
        /\ 0 \in Node
    BY Constants DEF Acceptor, Promise, Learned, Edge, Pnum, Node
  <1> QED
    BY <1>1 DEF NewMod, Mod

LEMMA ModFields ==
    ASSUME NEW md \in Mod
    PROVE  /\ md.next_pnum \in Nat /\ md.acceptor \in Acceptor
           /\ md.acceptor.highest_seen_pnum \in Pnum /\ md.acceptor.accepted_pnum \in Pnum
           /\ md.acceptor.content \in Node \cup {None}
           /\ md.proposer_arr \in [Node -> Promise] /\ md.learner_arr \in [Node -> Learned]
           /\ md.new_leader \in Node /\ md.edge \in Edge /\ md.announce_ack \in BOOLEAN
           /\ md.edge.start \in 0..MaxReq \cup {None} /\ md.edge.end \in 0..MaxReq
           /\ md.edge.empty \in SUBSET (0..MaxReq) /\ md.edge.count \in SUBSET Node
  BY DEF Mod, Edge, Acceptor

(* refresh_leader_election forgets promises and votes. *)
LEMMA RefreshFacts ==
    ASSUME NEW md \in Mod
    PROVE  /\ refresh_leader_election(md) \in Mod
           /\ refresh_leader_election(md).edge = md.edge
           /\ refresh_leader_election(md).new_leader = md.new_leader
  <1> DEFINE L == [i \in Node |-> [md.learner_arr[i] EXCEPT !.pnum = None]]
             P == [i \in Node |-> [md.proposer_arr[i] EXCEPT !.a_pnum = None, !.content = None]]
             A == [md.acceptor EXCEPT !.content = None]
  <1>1. L \in [Node -> Learned]
    <2>1. ASSUME NEW i \in Node PROVE [md.learner_arr[i] EXCEPT !.pnum = None] \in Learned
      <3>1. md.learner_arr[i] \in Learned
        BY ModFields
      <3> QED
        BY <3>1 DEF Learned
    <2> QED
      BY <2>1
  <1>2. P \in [Node -> Promise]
    <2>1. ASSUME NEW i \in Node
          PROVE [md.proposer_arr[i] EXCEPT !.a_pnum = None, !.content = None] \in Promise
      <3>1. md.proposer_arr[i] \in Promise
        BY ModFields
      <3> QED
        BY <3>1 DEF Promise
    <2> QED
      BY <2>1
  <1>3. A \in Acceptor
    BY ModFields DEF Acceptor
  <1>4. refresh_leader_election(md) =
          [md EXCEPT !.learner_arr = L, !.proposer_arr = P, !.acceptor = A]
    BY DEF refresh_leader_election
  <1> HIDE DEF L, P, A
  <1> QED
    BY <1>1, <1>2, <1>3, <1>4 DEF Mod
--------------------------------------------------------------------------------
(* What a handler returns. *)

States == {"ACTIVE", "INLELE", "POSTLELE"}

(* The messages that say nothing about the log. *)
Plain == {"PREPARE", "PREPARE_ACK", "ACCEPT", "ACCEPT_ACK", "ANNOUNCE"}

WellTyped(r) == r.mod \in Mod /\ r.net \in Network /\ r.state \in States

(* Result r of a handler at node n that does not end in an announcement. *)
Quiet(n, md, N, r) ==
    /\ WellTyped(r)
    /\ r.mod.edge = md.edge /\ r.mod.new_leader = md.new_leader /\ r.state = state[n]
    /\ \A c \in Chan : \A m \in MsgsOf(r.net, c) : m \in MsgsOf(N, c) \/ m.type \in Plain

(* The report of node n to leader l. *)
Report(n, l, md, m) ==
    /\ m.type = "ANNOUNCE_ACK" /\ m.content = l /\ m.last_req = highest_seen[n]
    /\ md.edge.start = None => m.empty = {}

(* Result r of a handler at node n that ends in the announcement of l. *)
Announced(n, l, md, N, r) ==
    /\ WellTyped(r)
    /\ r.state = "POSTLELE" /\ l \in Node /\ r.mod.new_leader = l
    /\ r.mod.edge = IF l = n THEN leader_election_initialize_edge_mod(n) ELSE md.edge
    /\ \A c \in Chan : \A m \in MsgsOf(r.net, c) :
          \/ m \in MsgsOf(N, c) \/ m.type \in Plain
          \/ c = <<n, l>> /\ Report(n, l, md, m)

LEMMA ResultFacts ==
    ASSUME NEW n \in Node, state[n] \in States, NEW md \in Mod, NEW N \in Network
    PROVE  Quiet(n, md, N, Result(n, md, N))
  BY DEF Quiet, WellTyped, Result

(* The candidate of the proposer is a node, and its number a number. *)
LEMMA ProposedContent ==
    ASSUME NEW n \in Node, NEW md \in Mod, proposer_check_prepare(md)
    PROVE  proposed_content(n, md) \in Node /\ origin(md) \in Pnum
  <1> DEFINE P == Promises(md)
             A == {md.proposer_arr[i].a_pnum : i \in P}
             top == Max(A)
             F == {i \in P : md.proposer_arr[i].a_pnum = top}
             b == MaxPnum + GroupSize
  <1>1. P # {} /\ P \subseteq Node
    BY MajorityNonempty DEF proposer_check_prepare, Promises
  <1>2. ASSUME NEW i \in P
        PROVE  /\ md.proposer_arr[i].a_pnum \in Pnum
               /\ origin(md) \in Pnum
               /\ md.proposer_arr[i].content \in Node \cup {None}
    <2>1. i \in Node /\ md.proposer_arr[i].a_pnum # None /\ md.proposer_arr[i].p_pnum = origin(md)
      BY DEF Promises
    <2>2. md.proposer_arr[i] \in Promise
      BY <2>1, ModFields
    <2> QED
      BY <2>1, <2>2 DEF Promise
  <1>3. A \in SUBSET Int /\ A # {} /\ b \in Nat /\ \A y \in A : y <= b
    <2>1. \A y \in Pnum : y \in Int /\ y <= b
      BY Constants DEF Pnum
    <2>2. b \in Nat
      BY Constants
    <2> QED
      BY <1>1, <1>2, <2>1, <2>2
  <1>4. top \in A
    BY <1>3, MaxFacts
  <1>5. F # {} /\ F \in SUBSET Nat
    BY <1>1, <1>4, Constants
  <1>6. Min(F) \in F
    BY <1>5, MinFacts
  <1>7. proposed_content(n, md) = IF md.proposer_arr[Min(F)].content = None THEN n
                                  ELSE md.proposer_arr[Min(F)].content
    BY DEF proposed_content
  <1> QED
    BY <1>1, <1>2, <1>6, <1>7

(* leader_election_proposer_phase_two. *)
LEMMA PhaseTwo ==
    ASSUME NEW n \in Node, state[n] \in States, NEW md \in Mod, NEW N \in Network
    PROVE  Quiet(n, md, N, leader_election_proposer_phase_two(n, md, N))
  <1>1. CASE ~proposer_check_prepare(md)
    BY <1>1, ResultFacts DEF leader_election_proposer_phase_two
  <1>2. CASE proposer_check_prepare(md)
    <2> DEFINE x == proposed_content(n, md)
               m == [type |-> "ACCEPT", pnum |-> origin(md), content |-> x]
               L == [md.learner_arr EXCEPT ![n] = [pnum |-> origin(md), content |-> x]]
               md2 == [md EXCEPT !.learner_arr = L]
               M == send_to_other_nodes(N, n, m)
    <2>1. x \in Node /\ origin(md) \in Pnum
      BY <1>2, ProposedContent
    <2> HIDE DEF x
    <2>2. m \in Msg /\ m.type \in Plain
      BY <2>1 DEF Msg, Plain
    <2>3. [pnum |-> origin(md), content |-> x] \in Learned
      BY <2>1 DEF Learned
    <2>4. L \in [Node -> Learned]
      BY <2>3, ModFields
    <2>5. md2 \in Mod /\ md2.edge = md.edge /\ md2.new_leader = md.new_leader
      BY <2>4, ModUpdates DEF Mod
    <2>6. /\ M \in Network
          /\ \A c \in Chan : \A e \in MsgsOf(M, c) : e \in MsgsOf(N, c) \/ e.type \in Plain
      BY <2>2, BroadcastFacts
    <2>7. leader_election_proposer_phase_two(n, md, N) = [mod |-> md2, net |-> M, state |-> state[n]]
      BY <1>2 DEF leader_election_proposer_phase_two, Result, x
    <2> HIDE DEF m, L, md2, M
    <2> QED
      BY <2>5, <2>6, <2>7 DEF Quiet, WellTyped
  <1> QED
    BY <1>1, <1>2

(* Two steps of a handler, the second one quiet. *)
LEMMA QuietAfter ==
    ASSUME NEW n, NEW md, NEW N, NEW md2, NEW N2, NEW r, Quiet(n, md2, N2, r),
           md2.edge = md.edge, md2.new_leader = md.new_leader,
           \A c \in Chan : \A m \in MsgsOf(N2, c) : m \in MsgsOf(N, c) \/ m.type \in Plain
    PROVE  Quiet(n, md, N, r)
  BY DEF Quiet

(* A new PREPARE, of the timer. *)
LEMMA ProposerDo ==
    ASSUME NEW n \in Node, state[n] \in States, NEW md \in Mod, NEW N \in Network,
           md.next_pnum <= MaxPnum
    PROVE  Quiet(n, md, N, leader_election_proposer_do(n, md, N))
  <1> DEFINE p == md.next_pnum
             next == [md EXCEPT !.next_pnum = p + GroupSize]
             m == [type |-> "PREPARE", pnum |-> p]
             sent == send_to_other_nodes(N, n, m)
             mine == [p_pnum |-> p, a_pnum |-> md.acceptor.accepted_pnum,
                      content |-> md.acceptor.content]
             A == [md.acceptor EXCEPT !.highest_seen_pnum = p]
             P == [md.proposer_arr EXCEPT ![n] = mine]
             md2 == [md EXCEPT !.next_pnum = p + GroupSize, !.acceptor = A, !.proposer_arr = P]
  <1>1. p \in Pnum /\ p \in Nat /\ p + GroupSize \in Nat
    BY ModFields, Constants DEF Pnum
  <1>2. m \in Msg /\ m.type \in Plain
    BY <1>1 DEF Msg, Plain
  <1>3. /\ sent \in Network
        /\ \A c \in Chan : \A e \in MsgsOf(sent, c) : e \in MsgsOf(N, c) \/ e.type \in Plain
    BY <1>2, BroadcastFacts
  <1>4. next \in Mod /\ next.edge = md.edge /\ next.new_leader = md.new_leader
    BY <1>1 DEF Mod
  <1>5. mine \in Promise
    BY <1>1, ModFields DEF Promise
  <1>6. A \in Acceptor /\ P \in [Node -> Promise]
    BY <1>1, <1>5, ModFields DEF Acceptor
  <1>7. md2 \in Mod /\ md2.edge = md.edge /\ md2.new_leader = md.new_leader
    BY <1>1, <1>6, Zenon DEF Mod
  <1>8. CASE md.acceptor.highest_seen_pnum < p
    <2>1. md2 = [next EXCEPT !.acceptor.highest_seen_pnum = p, !.proposer_arr[n] = mine]
      BY DEF Mod
    <2>2. leader_election_proposer_do(n, md, N) = leader_election_proposer_phase_two(n, md2, sent)
      BY <1>8, <2>1 DEF leader_election_proposer_do
    <2> HIDE DEF md2, sent
    <2>3. Quiet(n, md2, sent, leader_election_proposer_phase_two(n, md2, sent))
      BY <1>3, <1>7, PhaseTwo
    <2> QED
      BY <1>3, <1>7, <2>2, <2>3, QuietAfter
  <1>9. CASE ~(md.acceptor.highest_seen_pnum < p)
    <2>1. leader_election_proposer_do(n, md, N) = Result(n, next, sent)
      BY <1>9 DEF leader_election_proposer_do
    <2> HIDE DEF next, sent
    <2>2. Quiet(n, next, sent, Result(n, next, sent))
      BY <1>3, <1>4, ResultFacts
    <2> QED
      BY <1>3, <1>4, <2>1, <2>2, QuietAfter
  <1> QED
    BY <1>8, <1>9

(* What a message carries. *)
LEMMA MsgFields ==
    ASSUME NEW m \in Msg
    PROVE  /\ m.type = "PREPARE" => m.pnum \in Pnum
           /\ m.type = "PREPARE_ACK" =>
                m.pnum \in Pnum /\ m.p_pnum \in Pnum /\ m.content \in Node \cup {None}
           /\ m.type \in {"ACCEPT", "ACCEPT_ACK"} => m.pnum \in Pnum /\ m.content \in Node
           /\ m.type = "ANNOUNCE" => m.content \in Node
           /\ m.type = "ANNOUNCE_ACK" =>
                /\ m.content \in Node /\ m.start_req \in 0..MaxReq /\ m.last_req \in 0..MaxReq
                /\ m.empty \in SUBSET (0..MaxReq)
           /\ m.type = "FIN" => m.view \in View
  BY DEF Msg

LEMMA PrepareAck ==
    ASSUME NEW n \in Node, NEW s \in Node, state[n] \in States, NEW md \in Mod, NEW N \in Network,
           NEW m \in Msg, m.type = "PREPARE_ACK"
    PROVE  Quiet(n, md, N, handle_prepare_ack(s, n, m, md, N))
  <1>1. CASE m.p_pnum # origin(md)
    BY <1>1, ResultFacts DEF handle_prepare_ack
  <1>2. CASE m.p_pnum = origin(md)
    <2> DEFINE a == [p_pnum |-> m.p_pnum, a_pnum |-> m.pnum, content |-> m.content]
               P == [md.proposer_arr EXCEPT ![s] = a]
               md2 == [md EXCEPT !.proposer_arr = P]
    <2>1. a \in Promise
      BY MsgFields DEF Promise
    <2>2. P \in [Node -> Promise]
      BY <2>1, ModFields
    <2>3. md2 \in Mod /\ md2.edge = md.edge /\ md2.new_leader = md.new_leader
      BY <2>2, ModUpdates DEF Mod
    <2>4. handle_prepare_ack(s, n, m, md, N) = leader_election_proposer_phase_two(n, md2, N)
      BY <1>2 DEF handle_prepare_ack
    <2> HIDE DEF md2
    <2>5. Quiet(n, md2, N, leader_election_proposer_phase_two(n, md2, N))
      BY <2>3, PhaseTwo
    <2> QED
      BY <2>3, <2>4, <2>5, QuietAfter
  <1> QED
    BY <1>1, <1>2

LEMMA Prepare ==
    ASSUME NEW n \in Node, NEW s \in Node, <<n, s>> \in Chan, state[n] \in States,
           NEW md \in Mod, NEW N \in Network, NEW m \in Msg, m.type = "PREPARE"
    PROVE  Quiet(n, md, N, handle_prepare(s, n, m, md, N))
  <1>1. CASE ~(m.pnum > md.acceptor.highest_seen_pnum)
    BY <1>1, ResultFacts DEF handle_prepare
  <1>2. CASE m.pnum > md.acceptor.highest_seen_pnum
    <2> DEFINE A == [md.acceptor EXCEPT !.highest_seen_pnum = m.pnum, !.content = None]
               md2 == [md EXCEPT !.acceptor = A]
               a == [type |-> "PREPARE_ACK", pnum |-> md.acceptor.accepted_pnum,
                     p_pnum |-> m.pnum, content |-> None]
               M == send_to_one_node(N, n, s, a)
    <2>1. m.pnum \in Pnum /\ md.acceptor.accepted_pnum \in Pnum
      BY MsgFields, ModFields
    <2>2. a \in Msg /\ a.type \in Plain
      BY <2>1 DEF Msg, Plain
    <2>3. A \in Acceptor
      BY <2>1, ModFields DEF Acceptor
    <2>4. md2 \in Mod /\ md2.edge = md.edge /\ md2.new_leader = md.new_leader
      BY <2>3, ModUpdates DEF Mod
    <2>5. /\ M \in Network
          /\ \A c \in Chan : \A e \in MsgsOf(M, c) : e \in MsgsOf(N, c) \/ e.type \in Plain
      BY <2>2, SendFacts
    <2>6. handle_prepare(s, n, m, md, N) = Result(n, md2, M)
      <3>1. [md EXCEPT !.acceptor.highest_seen_pnum = m.pnum, !.acceptor.content = None] = md2
        BY DEF Mod
      <3> QED
        BY <1>2, <3>1 DEF handle_prepare
    <2> HIDE DEF md2, M
    <2>7. Quiet(n, md2, M, Result(n, md2, M))
      BY <2>4, <2>5, ResultFacts
    <2> QED
      BY <2>4, <2>5, <2>6, <2>7, QuietAfter
  <1> QED
    BY <1>1, <1>2
--------------------------------------------------------------------------------
(* The result of the election. *)

(* The edge a new leader starts from. *)
LEMMA OwnEdge ==
    ASSUME TypeOK, NEW n \in Node
    PROVE  leader_election_initialize_edge_mod(n) \in Edge
  <1>1. highest_to_commit[n] \in 0..MaxReq /\ highest_seen[n] \in 0..MaxReq
    BY DEF TypeOK
  <1>2. EmptySlots(n, highest_to_commit[n], highest_seen[n]) \in SUBSET (0..MaxReq)
    BY <1>1, Constants DEF EmptySlots
  <1> QED
    BY <1>1, <1>2 DEF leader_election_initialize_edge_mod, Edge

(* The report is a message. *)
LEMMA ReportFacts ==
    ASSUME TypeOK, NEW n \in Node, NEW l \in Node, NEW md \in Mod,
           NEW m, m = leader_election_cal_edge(n, l, md)
    PROVE  m \in Msg /\ Report(n, l, md, m)
  <1>1. highest_to_commit[n] \in 0..MaxReq /\ highest_seen[n] \in 0..MaxReq
    BY DEF TypeOK
  <1>2. m.empty \in SUBSET (0..MaxReq)
    <2>1. md.edge.start \in 0..MaxReq \cup {None} /\ md.edge.end \in 0..MaxReq
      BY ModFields
    <2>2. CASE md.edge.start = None
      BY <2>2 DEF leader_election_cal_edge
    <2>3. CASE md.edge.start # None
      <3>1. EmptySlots(n, md.edge.start, md.edge.end) \in SUBSET (0..MaxReq)
        BY <2>1, <2>3, Constants DEF EmptySlots
      <3> QED
        BY <2>3, <3>1 DEF leader_election_cal_edge
    <2> QED
      BY <2>2, <2>3
  <1>3. m \in [type : {"ANNOUNCE_ACK"}, content : Node, start_req : 0..MaxReq,
               last_req : 0..MaxReq, empty : SUBSET (0..MaxReq)]
    BY <1>1, <1>2 DEF leader_election_cal_edge
  <1>4. m \in Msg
    BY <1>3 DEF Msg
  <1> QED
    BY <1>4 DEF Report, leader_election_cal_edge

LEMMA Announce ==
    ASSUME TypeOK, NEW n \in Node, NEW l \in Node, NEW md \in Mod, NEW N \in Network
    PROVE  Announced(n, l, md, N, leader_election_handle_announce(n, l, md, N))
  <1> DEFINE new == [md EXCEPT !.new_leader = l]
             r == leader_election_handle_announce(n, l, md, N)
  <1>1. new \in Mod /\ new.edge = md.edge /\ new.new_leader = l
    BY ModUpdates DEF Mod
  <1>2. new = leader_election_enter_post_stage(md, l)
    BY DEF leader_election_enter_post_stage
  <1> HIDE DEF new
  <1>3. CASE l = n
    <2> DEFINE e == leader_election_initialize_edge_mod(n)
               md2 == [new EXCEPT !.edge = e]
    <2>1. e \in Edge
      BY OwnEdge
    <2>2. r = [mod |-> md2, net |-> N, state |-> "POSTLELE"]
      BY <1>2, <1>3 DEF leader_election_handle_announce
    <2> HIDE DEF e
    <2>3. md2 \in Mod /\ md2.edge = e /\ md2.new_leader = l
      BY <1>1, <2>1, ModUpdates DEF Mod
    <2> HIDE DEF md2, r
    <2> QED
      BY <1>3, <2>2, <2>3 DEF Announced, WellTyped, States, e, r
  <1>4. CASE l # n
    <2> DEFINE a == leader_election_cal_edge(n, l, md)
               md2 == [new EXCEPT !.announce_ack = TRUE]
               M == send_to_one_node(N, n, l, a)
    <2>1. a \in Msg /\ Report(n, l, md, a)
      BY ReportFacts
    <2>2. r = [mod |-> md2, net |-> M, state |-> "POSTLELE"]
      BY <1>2, <1>4 DEF leader_election_handle_announce
    <2>3. <<n, l>> \in Chan
      BY <1>4 DEF Chan
    <2> HIDE DEF a
    <2>4. /\ M \in Network
          /\ \A c \in Chan : \A e \in MsgsOf(M, c) : e \in MsgsOf(N, c) \/ (c = <<n, l>> /\ e = a)
      BY <2>1, <2>3, SendFacts
    <2>5. md2 \in Mod /\ md2.edge = md.edge /\ md2.new_leader = l
      BY <1>1, ModUpdates DEF Mod
    <2> HIDE DEF md2, M, r
    <2> QED
      BY <1>4, <2>1, <2>2, <2>4, <2>5 DEF Announced, WellTyped, States, r
  <1> QED
    BY <1>3, <1>4

(* An announcement after something quiet. *)
LEMMA AnnouncedAfter ==
    ASSUME NEW n, NEW l, NEW md, NEW N, NEW md2, NEW N2, NEW r, Announced(n, l, md2, N2, r),
           md2.edge = md.edge,
           \A c \in Chan : \A m \in MsgsOf(N2, c) : m \in MsgsOf(N, c) \/ m.type \in Plain
    PROVE  Announced(n, l, md, N, r)
  BY DEF Announced, Report

(* leader_election_learner_do announces what a majority has accepted. *)
LEMMA Learner ==
    ASSUME TypeOK, NEW n \in Node, NEW s \in Node, NEW md \in Mod, NEW N \in Network,
           NEW p \in Pnum, NEW x \in Node, NEW m, m.pnum = p, m.content = x
    PROVE  LET r == leader_election_learner_do(s, n, m, md, N) IN
           Quiet(n, md, N, r) \/ \E l \in Node : Announced(n, l, md, N, r)
  <1> DEFINE L == [md.learner_arr EXCEPT ![s] = [pnum |-> p, content |-> x]]
             new == [md EXCEPT !.learner_arr = L]
             C == learner_check_accept(new)
             l == new.learner_arr[Min(C)].content
             a == [type |-> "ANNOUNCE", content |-> l]
             M == send_to_other_nodes(N, n, a)
             r == leader_election_learner_do(s, n, m, md, N)
  <1>1. [pnum |-> p, content |-> x] \in Learned
    BY DEF Learned
  <1>2. L \in [Node -> Learned]
    BY <1>1, ModFields
  <1>3. new \in Mod /\ new.edge = md.edge /\ new.new_leader = md.new_leader
    BY <1>2, ModUpdates DEF Mod
  <1>4. state[n] \in States
    BY DEF TypeOK, States
  <1>5. new = [md EXCEPT !.learner_arr[s] = [pnum |-> m.pnum, content |-> m.content]]
    OBVIOUS
  <1>6. r = IF m.pnum <= md.learner_arr[s].pnum THEN Result(n, md, N)
            ELSE IF C = {} THEN Result(n, new, N)
            ELSE leader_election_handle_announce(n, l, new, M)
    BY <1>5 DEF leader_election_learner_do
  <1> HIDE DEF new, r
  <1>7. Quiet(n, md, N, Result(n, md, N))
    BY <1>4, ResultFacts
  <1>8. Quiet(n, md, N, Result(n, new, N))
    <2>1. Quiet(n, new, N, Result(n, new, N))
      BY <1>3, <1>4, ResultFacts
    <2> QED
      BY <1>3, <2>1, QuietAfter
  <1>9. CASE C # {}
    <2>1. Min(C) \in C
      BY <1>9, MinFacts, Constants DEF learner_check_accept
    <2>2. l \in Node
      <3>1. Min(C) \in Node /\ new.learner_arr[Min(C)].pnum # None
        BY <2>1 DEF learner_check_accept
      <3>2. new.learner_arr[Min(C)] \in Learned
        BY <1>3, <3>1, ModFields
      <3> QED
        BY <3>1, <3>2 DEF Learned
    <2> HIDE DEF l
    <2>3. a \in Msg /\ a.type \in Plain
      BY <2>2 DEF Msg, Plain
    <2>4. /\ M \in Network
          /\ \A c \in Chan : \A e \in MsgsOf(M, c) : e \in MsgsOf(N, c) \/ e.type \in Plain
      BY <2>3, BroadcastFacts
    <2> HIDE DEF M
    <2>5. Announced(n, l, new, M, leader_election_handle_announce(n, l, new, M))
      BY <1>3, <2>2, <2>4, Announce
    <2>6. Announced(n, l, md, N, leader_election_handle_announce(n, l, new, M))
      BY <1>3, <2>4, <2>5, AnnouncedAfter
    <2> QED
      BY <1>6, <1>7, <1>9, <2>2, <2>6 DEF r
  <1> QED
    BY <1>6, <1>7, <1>8, <1>9 DEF r

(* An ACCEPT, with the node's own learner. *)
LEMMA Accept ==
    ASSUME TypeOK, NEW n \in Node, NEW s \in Node, NEW md \in Mod, NEW N \in Network,
           NEW m \in Msg, m.type = "ACCEPT"
    PROVE  LET r == handle_accept(s, n, m, md, N) IN
           Quiet(n, md, N, r) \/ \E l \in Node : Announced(n, l, md, N, r)
  <1> DEFINE p == m.pnum
             x == m.content
             ack == [type |-> "ACCEPT_ACK", pnum |-> p, content |-> x]
             A == [highest_seen_pnum |-> p, accepted_pnum |-> p, content |-> x]
             md2 == [md EXCEPT !.acceptor = A]
             q == leader_election_learner_do(n, n, ack, md2, N)
             r == handle_accept(s, n, m, md, N)
             M == send_to_other_nodes(q.net, n, ack)
  <1>1. p \in Pnum /\ x \in Node
    BY MsgFields
  <1> HIDE DEF p, x
  <1>2. A \in Acceptor
    BY <1>1 DEF Acceptor
  <1>3. md2 \in Mod /\ md2.edge = md.edge /\ md2.new_leader = md.new_leader
    BY <1>2, ModUpdates DEF Mod
  <1>4. state[n] \in States
    BY DEF TypeOK, States
  <1>5. ack \in Msg /\ ack.type \in Plain /\ ack.pnum = p /\ ack.content = x
    BY <1>1 DEF Msg, Plain
  <1>6. r = IF m.pnum >= md.acceptor.highest_seen_pnum
            THEN [q EXCEPT !.net = M] ELSE Result(n, md, N)
    BY DEF handle_accept, p, x
  <1> HIDE DEF md2, ack
  <1>7. Quiet(n, md2, N, q) \/ \E l \in Node : Announced(n, l, md2, N, q)
    BY <1>1, <1>3, <1>5, Learner
  <1>8. Quiet(n, md, N, Result(n, md, N))
    BY <1>4, ResultFacts
  <1>9. DOMAIN q = {"mod", "net", "state"}
    BY DEF leader_election_learner_do, leader_election_handle_announce, Result
  <1> HIDE DEF q, r
  <1> DEFINE t == [q EXCEPT !.net = M]
  <1>10. t.mod = q.mod /\ t.state = q.state /\ t.net = M
    BY <1>9
  <1>11. /\ M \in Network
         /\ \A c \in Chan : \A e \in MsgsOf(M, c) : e \in MsgsOf(q.net, c) \/ e.type \in Plain
    <2>1. q.net \in Network
      BY <1>7 DEF Quiet, Announced, WellTyped
    <2> QED
      BY <1>5, <2>1, BroadcastFacts
  <1> HIDE DEF t, M
  <1>12. CASE Quiet(n, md2, N, q)
    <2>1. Quiet(n, md, N, t)
      BY <1>3, <1>10, <1>11, <1>12 DEF Quiet, WellTyped
    <2> QED
      BY <1>6, <1>8, <2>1 DEF t, r
  <1>13. ASSUME NEW l \in Node, Announced(n, l, md2, N, q)
         PROVE  Quiet(n, md, N, r) \/ Announced(n, l, md, N, r)
    <2>1. Announced(n, l, md, N, t)
      BY <1>3, <1>10, <1>11, <1>13 DEF Announced, WellTyped, Report
    <2> QED
      BY <1>6, <1>8, <2>1 DEF t
  <1> QED
    BY <1>7, <1>12, <1>13 DEF r
--------------------------------------------------------------------------------
(* The edge and the close of the election. *)

(* Merging a report gives an edge without slot 0. *)
LEMMA MergeType ==
    ASSUME NEW edge \in Edge, NEW s \in Node, NEW m \in Msg, m.type = "ANNOUNCE_ACK",
           NEW garbage \in SUBSET (1..(Cardinality(m.empty) - 1)),
           NEW e, e = merge_edge(edge, s, m, garbage)
    PROVE  e \in Edge /\ 0 \notin e.empty /\ e.start # None /\ e.count = edge.count \cup {s}
  <1>1. /\ m.start_req \in 0..MaxReq /\ m.last_req \in 0..MaxReq
        /\ m.empty \in SUBSET (0..MaxReq)
    BY MsgFields
  <1>2. /\ edge.start \in 0..MaxReq \cup {None} /\ edge.end \in 0..MaxReq
        /\ edge.empty \in SUBSET (0..MaxReq) /\ edge.count \in SUBSET Node
    BY DEF Edge
  <1>3. garbage \in SUBSET (0..MaxReq)
    <2>1. IsFiniteSet(0..MaxReq) /\ Cardinality(0..MaxReq) = MaxReq + 1
      <3>1. 0 \in Int /\ MaxReq \in Int /\ 0 <= MaxReq
        BY Constants
      <3>2. IsFiniteSet(0..MaxReq) /\ Cardinality(0..MaxReq) = MaxReq - 0 + 1
        BY <3>1, FS_Interval
      <3> QED
        BY <3>2, Constants
    <2>2. IsFiniteSet(m.empty) /\ Cardinality(m.empty) <= MaxReq + 1
      BY <1>1, <2>1, FS_Subset
    <2>3. Cardinality(m.empty) \in Nat
      BY <2>2, FS_CardinalityType
    <2> QED
      BY <2>2, <2>3, Constants
  <1>4. Max({edge.start, m.start_req}) \in 0..MaxReq
    <2>1. edge.start \in Int /\ m.start_req \in Int /\ m.start_req >= 0
      BY <1>1, <1>2 DEF None
    <2>2. /\ Max({edge.start, m.start_req}) \in {edge.start, m.start_req}
          /\ Max({edge.start, m.start_req}) >= m.start_req
      BY <2>1, MaxOfTwo
    <2> QED
      BY <1>1, <1>2, <2>1, <2>2 DEF None
  <1>5. Max({edge.end, m.last_req}) \in 0..MaxReq
    <2>1. edge.end \in Int /\ m.last_req \in Int
      BY <1>1, <1>2
    <2>2. Max({edge.end, m.last_req}) \in {edge.end, m.last_req}
      BY <2>1, MaxOfTwo
    <2> QED
      BY <1>1, <1>2, <2>2
  <1>6. e.empty \in SUBSET (0..MaxReq) /\ 0 \notin e.empty
    BY <1>1, <1>2, <1>3 DEF merge_edge
  <1>7. e = [start |-> Max({edge.start, m.start_req}), end |-> Max({edge.end, m.last_req}),
             empty |-> e.empty, count |-> edge.count \cup {s}]
    BY DEF merge_edge
  <1>8. Max({edge.start, m.start_req}) # None
    BY <1>4 DEF None
  <1> QED
    BY <1>2, <1>4, <1>5, <1>6, <1>7, <1>8 DEF Edge

(* The last request of view 1: the one before the first empty slot. *)
LEMMA CloseFacts ==
    ASSUME NEW n \in Node, NEW md \in Mod, 0 \notin md.edge.empty,
           NEW v, v = leader_election_leader_close(n, md)
    PROVE  /\ v \in View /\ v.view_id = 2
           /\ \/ md.edge.empty = {} /\ v.req_id = md.edge.end
              \/ v.req_id + 1 \in md.edge.empty
  <1>1. /\ md.edge.empty \in SUBSET (0..MaxReq) /\ md.edge.end \in 0..MaxReq
        /\ md.new_leader \in Node
    BY ModFields
  <1>2. CASE md.edge.empty = {}
    <2>1. v = [view_id |-> 2, leader_id |-> md.new_leader, req_id |-> md.edge.end]
      BY <1>2 DEF leader_election_leader_close
    <2> QED
      BY <1>1, <1>2, <2>1 DEF View
  <1>3. CASE md.edge.empty # {}
    <2> DEFINE e == Min(md.edge.empty)
    <2>1. e \in md.edge.empty
      BY <1>1, <1>3, MinFacts, Constants
    <2>2. v = [view_id |-> 2, leader_id |-> md.new_leader, req_id |-> e - 1]
      BY <1>3 DEF leader_election_leader_close
    <2> HIDE DEF e
    <2>3. e \in 1..MaxReq /\ e - 1 \in 0..MaxReq /\ (e - 1) + 1 = e
      BY <1>1, <2>1, Constants
    <2> QED
      BY <1>1, <2>1, <2>2, <2>3 DEF View
  <1> QED
    BY <1>2, <1>3
--------------------------------------------------------------------------------
(* The type invariant, action by action. *)

LEMMA TypeFields ==
    ASSUME TypeOK, NEW n \in Node
    PROVE  /\ cur_view[n] \in View /\ state[n] \in States /\ election_mod[n] \in Mod
           /\ net \in Network
           /\ highest_seen[n] \in 0..MaxReq /\ highest_to_commit[n] \in 0..MaxReq
  BY DEF TypeOK, States, Network

LEMMA ApplyType ==
    ASSUME TypeOK, NEW n \in Node, NEW r, WellTyped(r), Apply(n, r), UNCHANGED budget
    PROVE  TypeOK'
  BY DEF TypeOK, WellTyped, Apply, States, Network, log, budget

LEMMA UpdateViewType ==
    ASSUME TypeOK, NEW n \in Node, NEW v \in View, update_view(n, v),
           election_mod' \in [Node -> Mod], net' \in Network, up' \subseteq Node,
           UNCHANGED budget
    PROVE  TypeOK'
  <1>1. 0 \in 0..MaxReq
    BY Constants
  <1>2. /\ cur_view' \in [Node -> View]
        /\ state' \in [Node -> {"ACTIVE", "INLELE", "POSTLELE"}]
        /\ db' \in [Node -> SUBSET Slot]
        /\ highest_seen' \in [Node -> 0..MaxReq] /\ highest_to_commit' \in [Node -> 0..MaxReq]
        /\ acks' = acks /\ agreed' = agreed
    BY <1>1 DEF TypeOK, update_view
  <1> QED
    BY <1>2 DEF TypeOK, Network, budget

(* The requests of view 1. *)
LEMMA LogType ==
    ASSUME TypeOK,
           \/ leader_handle_submit_req \/ leader_try_to_execute
           \/ \E n \in Node, k \in Slot : handle_accept_req(n, k) \/ handle_missing_ack(n, k)
           \/ \E n \in Node : handle_force_exec(n)
    PROVE  TypeOK'
  <1>1. CASE leader_handle_submit_req
    <2> DEFINE k == highest_seen[OldLeader] + 1
    <2>1. k \in Slot /\ k \in 0..MaxReq /\ OldLeader \in Node
      BY <1>1, TypeFields, Constants DEF leader_handle_submit_req, Slot
    <2> HIDE DEF k
    <2>2. /\ db' = [db EXCEPT ![OldLeader] = @ \cup {k}]
          /\ highest_seen' = [highest_seen EXCEPT ![OldLeader] = k]
          /\ acks' = [acks EXCEPT ![k] = {OldLeader}]
      BY <1>1 DEF leader_handle_submit_req, k
    <2> QED
      BY <1>1, <2>1, <2>2 DEF TypeOK, leader_handle_submit_req, budget
  <1>2. CASE leader_try_to_execute
    <2>1. agreed + 1 \in 0..MaxReq
      BY <1>2, TypeFields, Constants DEF leader_try_to_execute, TypeOK
    <2> QED
      BY <1>2, <2>1 DEF TypeOK, leader_try_to_execute, budget
  <1>3. ASSUME NEW n \in Node, NEW k \in Slot, handle_accept_req(n, k) PROVE TypeOK'
    <2>1. Max({highest_seen[n], k}) \in 0..MaxReq
      <3>1. highest_seen[n] \in 0..MaxReq /\ k \in 0..MaxReq
        BY TypeFields, Constants
      <3>2. highest_seen[n] \in Int /\ k \in Int
        BY <3>1
      <3>3. Max({highest_seen[n], k}) \in {highest_seen[n], k}
        BY <3>2, MaxOfTwo
      <3> QED
        BY <3>1, <3>3
    <2> QED
      BY <1>3, <2>1 DEF TypeOK, handle_accept_req, budget
  <1>4. ASSUME NEW n \in Node, NEW k \in Slot, handle_missing_ack(n, k) PROVE TypeOK'
    BY <1>4 DEF TypeOK, handle_missing_ack, budget
  <1>5. ASSUME NEW n \in Node, handle_force_exec(n) PROVE TypeOK'
    BY <1>5 DEF TypeOK, handle_force_exec, budget
  <1> QED
    BY <1>1, <1>2, <1>3, <1>4, <1>5

(* Suspicions and pings. *)
LEMMA ViewType ==
    ASSUME TypeOK,
           \/ \E n \in Node : initialize_leader_election(n)
           \/ \E l, n \in Node : handle_ping_req(l, n)
    PROVE  TypeOK'
  <1>1. ASSUME NEW n \in Node, initialize_leader_election(n) PROVE TypeOK'
    <2> DEFINE md == [election_mod[n] EXCEPT !.next_pnum = n]
    <2>1. md \in Mod
      BY TypeFields, ModUpdates, Constants
    <2>2. refresh_leader_election(md) \in Mod
      BY <2>1, RefreshFacts
    <2>3. election_mod' = [election_mod EXCEPT ![n] = refresh_leader_election(md)]
      BY <1>1 DEF initialize_leader_election
    <2> HIDE DEF md
    <2>4. election_mod' \in [Node -> Mod]
      BY <2>2, <2>3 DEF TypeOK
    <2>5. faults' \in Nat
      BY <1>1 DEF initialize_leader_election, expected_leader_ping_period, TypeOK
    <2> QED
      BY <1>1, <2>4, <2>5 DEF TypeOK, initialize_leader_election, log
  <1>2. ASSUME NEW l \in Node, NEW n \in Node, handle_ping_req(l, n) PROVE TypeOK'
    <2>1. CASE update_view(n, cur_view[l])
      BY <1>2, <2>1, TypeFields, UpdateViewType DEF handle_ping_req, TypeOK, Network
    <2>2. CASE state' = [state EXCEPT ![n] = "ACTIVE"] /\ UNCHANGED <<cur_view, log>>
      BY <1>2, <2>2 DEF TypeOK, handle_ping_req, budget, log
    <2> QED
      BY <1>2, <2>1, <2>2 DEF handle_ping_req
  <1> QED
    BY <1>1, <1>2

(* Faults. *)
LEMMA FaultType ==
    ASSUME TypeOK,
           \/ \E c \in Chan : LoseMsg(c)
           \/ \E n \in Node : Crash(n) \/ Restart(n)
    PROVE  TypeOK'
  <1>1. ASSUME NEW c \in Chan, LoseMsg(c) PROVE TypeOK'
    <2>1. net \in Network
      BY DEF TypeOK, Network
    <2>2. net' \in Network
      BY <1>1, <2>1, TruncateFacts DEF LoseMsg
    <2> QED
      BY <1>1, <2>2 DEF TypeOK, LoseMsg, log, Network
  <1>2. ASSUME NEW n \in Node, Crash(n) PROVE TypeOK'
    <2>1. net' \in Network
      BY <1>2, EraseFacts DEF Crash, TypeOK, Network
    <2> QED
      BY <1>2, <2>1 DEF TypeOK, Crash, log, Network
  <1>3. ASSUME NEW n \in Node, Restart(n) PROVE TypeOK'
    <2>1. net' \in Network
      BY <1>3, EraseFacts DEF Restart, TypeOK, Network
    <2>2. 0 \in 0..MaxReq /\ [view_id |-> 0, leader_id |-> 9999, req_id |-> 0] \in View
      BY Constants DEF View
    <2>3. election_mod' \in [Node -> Mod]
      BY <1>3, NewModType DEF TypeOK, Restart
    <2>4. /\ cur_view' \in [Node -> View]
          /\ state' \in [Node -> {"ACTIVE", "INLELE", "POSTLELE"}]
          /\ highest_seen' \in [Node -> 0..MaxReq] /\ highest_to_commit' \in [Node -> 0..MaxReq]
      BY <1>3, <2>2 DEF TypeOK, Restart
    <2> QED
      BY <1>3, <2>1, <2>3, <2>4 DEF TypeOK, Restart, Network
  <1> QED
    BY <1>1, <1>2, <1>3

(* What leader_election_handle_announce_ack works on: the node's own edge,   *)
(* which it makes first if it has none and the report is for it.             *)
AckResult(n, m, N) ==
    IF election_mod[n].edge.start = None /\ n = m.content
    THEN leader_election_handle_announce(n, n, election_mod[n], N)
    ELSE Result(n, election_mod[n], N)

LEMMA AckResultFacts ==
    ASSUME TypeOK, NEW n \in Node, NEW m, NEW N \in Network, NEW r, r = AckResult(n, m, N)
    PROVE  /\ DOMAIN r = {"mod", "net", "state"}
           /\ \/ Quiet(n, election_mod[n], N, r) /\ r.mod = election_mod[n]
                 /\ ~(election_mod[n].edge.start = None /\ n = m.content)
              \/ Announced(n, n, election_mod[n], N, r)
  <1>1. election_mod[n] \in Mod /\ state[n] \in States
    BY TypeFields
  <1>2. Quiet(n, election_mod[n], N, Result(n, election_mod[n], N))
        /\ Result(n, election_mod[n], N).mod = election_mod[n]
    BY <1>1, ResultFacts DEF Result
  <1>3. Announced(n, n, election_mod[n], N,
                  leader_election_handle_announce(n, n, election_mod[n], N))
    BY <1>1, Announce
  <1>4. DOMAIN r = {"mod", "net", "state"}
    BY DEF AckResult, leader_election_handle_announce, Result
  <1> QED
    BY <1>2, <1>3, <1>4 DEF AckResult

(* The three ways it ends: a report that was counted before, a merge that    *)
(* never ends, and a merge, which may close the election.                    *)
AckMerges(s, n, m, N, r, e) ==
    LET md == [r.mod EXCEPT !.edge = e]
        v  == leader_election_leader_close(n, md)
    IN  IF Majority(e.count)
        THEN /\ update_view(n, v)
             /\ election_mod' = [election_mod EXCEPT ![n] = md]
             /\ net' = send_to_other_nodes(N, n, leader_election_build_close(v))
             /\ UNCHANGED up
        ELSE Apply(n, [r EXCEPT !.mod = md])

LEMMA AckCases ==
    ASSUME NEW s, NEW n, NEW m, NEW N, leader_election_handle_announce_ack(s, n, m, N),
           NEW r, r = AckResult(n, m, N)
    PROVE  \/ Apply(n, r)
           \/ /\ merge_hangs(r.mod.edge, m)
              /\ up' = up \ {n}
              /\ net' = [c \in Chan |-> IF c[2] = n THEN <<>> ELSE N[c]]
              /\ UNCHANGED <<cur_view, state, election_mod, log>>
           \/ \E garbage \in SUBSET (1..(Cardinality(m.empty) - 1)) :
                AckMerges(s, n, m, N, r, merge_edge(r.mod.edge, s, m, garbage))
  BY DEF leader_election_handle_announce_ack, AckResult, AckMerges

(* What a merge leaves, when it closes the election and when it does not. *)
Closed(n, N, e, md) ==
    /\ Majority(e.count)
    /\ \E v \in View :
         /\ v.view_id = 2
         /\ (e.empty = {} /\ v.req_id = e.end) \/ v.req_id + 1 \in e.empty
         /\ update_view(n, v)
         /\ \A c \in Chan : \A x \in MsgsOf(net', c) :
               x \in MsgsOf(N, c) \/ x = leader_election_build_close(v)
    /\ net' \in Network
    /\ election_mod' = [election_mod EXCEPT ![n] = md]
    /\ UNCHANGED up

Merged(n, N, r, e, md) ==
    /\ md \in Mod /\ md.edge = e /\ md.new_leader = r.mod.new_leader
    /\ \/ Closed(n, N, e, md)
       \/ \E t : Apply(n, t) /\ t.mod = md /\ t.net = r.net /\ t.state = r.state

LEMMA MergedFacts ==
    ASSUME TypeOK, NEW s \in Node, NEW n \in Node, NEW m \in Msg, m.type = "ANNOUNCE_ACK",
           NEW N \in Network, NEW r, WellTyped(r), DOMAIN r = {"mod", "net", "state"},
           NEW garbage \in SUBSET (1..(Cardinality(m.empty) - 1)),
           NEW e, e = merge_edge(r.mod.edge, s, m, garbage),
           AckMerges(s, n, m, N, r, e)
    PROVE  \E md : Merged(n, N, r, e, md)
  <1> DEFINE md == [r.mod EXCEPT !.edge = e]
             v == leader_election_leader_close(n, md)
             f == leader_election_build_close(v)
  <1>1. r.mod \in Mod /\ r.mod.edge \in Edge
    BY ModFields DEF WellTyped
  <1>2. e \in Edge /\ 0 \notin e.empty
    BY <1>1, MergeType
  <1>3. md \in Mod /\ md.edge = e /\ md.new_leader = r.mod.new_leader
    BY <1>1, <1>2, ModUpdates DEF Mod
  <1>4. IF Majority(e.count)
        THEN /\ update_view(n, v)
             /\ election_mod' = [election_mod EXCEPT ![n] = md]
             /\ net' = send_to_other_nodes(N, n, f)
             /\ UNCHANGED up
        ELSE Apply(n, [r EXCEPT !.mod = md])
    BY DEF AckMerges
  <1>5. CASE Majority(e.count)
    <2> HIDE DEF md
    <2>1. /\ v \in View /\ v.view_id = 2
          /\ (e.empty = {} /\ v.req_id = e.end) \/ v.req_id + 1 \in e.empty
      BY <1>2, <1>3, CloseFacts
    <2> HIDE DEF v
    <2>2. f \in Msg
      BY <2>1 DEF leader_election_build_close, Msg
    <2> HIDE DEF f
    <2>3. /\ net' \in Network
          /\ \A c \in Chan : \A x \in MsgsOf(net', c) : x \in MsgsOf(N, c) \/ x = f
      BY <1>4, <1>5, <2>2, BroadcastFacts
    <2>4. Closed(n, N, e, md)
      BY <1>4, <1>5, <2>1, <2>3 DEF Closed, f
    <2> QED
      BY <1>3, <2>4 DEF Merged
  <1>6. CASE ~Majority(e.count)
    <2> HIDE DEF md
    <2> DEFINE t == [r EXCEPT !.mod = md]
    <2>1. t.mod = md /\ t.net = r.net /\ t.state = r.state
      OBVIOUS
    <2>2. Apply(n, t)
      BY <1>4, <1>6
    <2> HIDE DEF t
    <2> QED
      BY <1>3, <2>1, <2>2 DEF Merged
  <1> QED
    BY <1>5, <1>6

(* The ways a message is handled. *)
LEMMA MsgCases ==
    ASSUME TypeOK, NEW s \in Node, NEW n \in Node, <<s, n>> \in Chan,
           handle_leader_election_msg(s, n),
           NEW m, m = Head(net[<<s, n>>]), NEW N, N = [net EXCEPT ![<<s, n>>] = Tail(@)]
    PROVE  /\ m \in Msg /\ m \in MsgsOf(net, <<s, n>>) /\ N \in Network
           /\ \A x \in Chan : MsgsOf(N, x) \subseteq MsgsOf(net, x)
           /\ UNCHANGED budget
           /\ \/ net' = N /\ UNCHANGED <<cur_view, state, election_mod, up, log>>
              \/ \E r : Quiet(n, election_mod[n], N, r) /\ Apply(n, r)
              \/ /\ state[n] # "ACTIVE"
                 /\ \/ \E r : \E l \in Node :
                         Announced(n, l, election_mod[n], N, r) /\ Apply(n, r)
                    \/ m.type = "ANNOUNCE_ACK" /\ leader_election_handle_announce_ack(s, n, m, N)
                    \/ m.type = "FIN" /\ leader_election_handle_close(n, m, N)
  <1> DEFINE md == election_mod[n]
  <1>1. md \in Mod /\ state[n] \in States /\ net \in Network
    BY TypeFields
  <1>2. net[<<s, n>>] # <<>>
    BY DEF handle_leader_election_msg
  <1>3. /\ m \in Msg /\ m \in MsgsOf(net, <<s, n>>) /\ N \in Network
        /\ \A x \in Chan : MsgsOf(N, x) \subseteq MsgsOf(net, x)
    BY <1>1, <1>2, DequeueFacts DEF Dequeue
  <1>4. <<n, s>> \in Chan
    BY DEF Chan
  <1>5. IF state[n] = "ACTIVE"
        THEN net' = N /\ UNCHANGED <<cur_view, state, election_mod, up, log>>
        ELSE \/ m.type = "PREPARE" /\ Apply(n, handle_prepare(s, n, m, md, N))
             \/ m.type = "PREPARE_ACK" /\ Apply(n, handle_prepare_ack(s, n, m, md, N))
             \/ m.type = "ACCEPT" /\ Apply(n, handle_accept(s, n, m, md, N))
             \/ m.type = "ACCEPT_ACK" /\ Apply(n, leader_election_learner_do(s, n, m, md, N))
             \/ m.type = "ANNOUNCE"
                  /\ Apply(n, leader_election_handle_announce(n, m.content, md, N))
             \/ m.type = "ANNOUNCE_ACK" /\ leader_election_handle_announce_ack(s, n, m, N)
             \/ m.type = "FIN" /\ leader_election_handle_close(n, m, N)
    BY DEF handle_leader_election_msg
  <1>6. UNCHANGED budget
    BY DEF handle_leader_election_msg
  <1> HIDE DEF md
  <1>7. CASE state[n] = "ACTIVE"
    BY <1>3, <1>5, <1>6, <1>7
  <1>8. CASE state[n] # "ACTIVE"
    <2>1. CASE m.type = "PREPARE" /\ Apply(n, handle_prepare(s, n, m, md, N))
      <3>1. Quiet(n, md, N, handle_prepare(s, n, m, md, N))
        BY <1>1, <1>3, <1>4, <2>1, Prepare
      <3> QED
        BY <1>3, <1>6, <2>1, <3>1 DEF md
    <2>2. CASE m.type = "PREPARE_ACK" /\ Apply(n, handle_prepare_ack(s, n, m, md, N))
      <3>1. Quiet(n, md, N, handle_prepare_ack(s, n, m, md, N))
        BY <1>1, <1>3, <2>2, PrepareAck
      <3> QED
        BY <1>3, <1>6, <2>2, <3>1 DEF md
    <2>3. CASE m.type = "ACCEPT" /\ Apply(n, handle_accept(s, n, m, md, N))
      <3> DEFINE r == handle_accept(s, n, m, md, N)
      <3>1. Quiet(n, md, N, r) \/ \E l \in Node : Announced(n, l, md, N, r)
        BY <1>1, <1>3, <2>3, Accept
      <3> HIDE DEF r
      <3> QED
        BY <1>3, <1>6, <1>8, <2>3, <3>1 DEF md, r
    <2>4. CASE m.type = "ACCEPT_ACK" /\ Apply(n, leader_election_learner_do(s, n, m, md, N))
      <3> DEFINE r == leader_election_learner_do(s, n, m, md, N)
      <3>1. m.pnum \in Pnum /\ m.content \in Node
        BY <1>3, <2>4, MsgFields
      <3>2. Quiet(n, md, N, r) \/ \E l \in Node : Announced(n, l, md, N, r)
        BY <1>1, <1>3, <3>1, Learner
      <3> HIDE DEF r
      <3> QED
        BY <1>3, <1>6, <1>8, <2>4, <3>2 DEF md, r
    <2>5. CASE m.type = "ANNOUNCE" /\ Apply(n, leader_election_handle_announce(n, m.content, md, N))
      <3>1. m.content \in Node
        BY <1>3, <2>5, MsgFields
      <3>2. Announced(n, m.content, md, N, leader_election_handle_announce(n, m.content, md, N))
        BY <1>1, <1>3, <3>1, Announce
      <3> QED
        BY <1>3, <1>6, <1>8, <2>5, <3>1, <3>2 DEF md
    <2>6. CASE m.type = "ANNOUNCE_ACK" /\ leader_election_handle_announce_ack(s, n, m, N)
      BY <1>3, <1>6, <1>8, <2>6
    <2>7. CASE m.type = "FIN" /\ leader_election_handle_close(n, m, N)
      BY <1>3, <1>6, <1>8, <2>7
    <2> QED
      BY <1>5, <1>8, <2>1, <2>2, <2>3, <2>4, <2>5, <2>6, <2>7
  <1> QED
    BY <1>7, <1>8

LEMMA AckType ==
    ASSUME TypeOK, NEW s \in Node, NEW n \in Node, NEW m \in Msg, m.type = "ANNOUNCE_ACK",
           NEW N \in Network, leader_election_handle_announce_ack(s, n, m, N), UNCHANGED budget
    PROVE  TypeOK'
  <1> DEFINE r == AckResult(n, m, N)
  <1>1. DOMAIN r = {"mod", "net", "state"} /\ WellTyped(r)
    <2>1. DOMAIN r = {"mod", "net", "state"}
      BY AckResultFacts
    <2>2. Quiet(n, election_mod[n], N, r) \/ Announced(n, n, election_mod[n], N, r)
      BY AckResultFacts
    <2> QED
      BY <2>1, <2>2 DEF Quiet, Announced
  <1>2. \/ Apply(n, r)
        \/ /\ up' = up \ {n}
           /\ net' = [c \in Chan |-> IF c[2] = n THEN <<>> ELSE N[c]]
           /\ UNCHANGED <<cur_view, state, election_mod, log>>
        \/ \E garbage \in SUBSET (1..(Cardinality(m.empty) - 1)) :
             AckMerges(s, n, m, N, r, merge_edge(r.mod.edge, s, m, garbage))
    BY AckCases
  <1> HIDE DEF r
  <1>3. CASE Apply(n, r)
    BY <1>1, <1>3, ApplyType
  <1>4. CASE /\ up' = up \ {n}
             /\ net' = [c \in Chan |-> IF c[2] = n THEN <<>> ELSE N[c]]
             /\ UNCHANGED <<cur_view, state, election_mod, log>>
    <2>1. net' \in Network
      BY <1>4, EraseFacts
    <2> QED
      BY <1>4, <2>1 DEF TypeOK, Network, log, budget
  <1>5. ASSUME NEW garbage \in SUBSET (1..(Cardinality(m.empty) - 1)),
               AckMerges(s, n, m, N, r, merge_edge(r.mod.edge, s, m, garbage))
        PROVE  TypeOK'
    <2> DEFINE e == merge_edge(r.mod.edge, s, m, garbage)
    <2>1. PICK md : Merged(n, N, r, e, md)
      <3>1. e = merge_edge(r.mod.edge, s, m, garbage) /\ AckMerges(s, n, m, N, r, e)
        BY <1>5
      <3> HIDE DEF e
      <3> QED
        BY <1>1, <3>1, MergedFacts
    <2> HIDE DEF e
    <2>2. ASSUME NEW v \in View, update_view(n, v), Closed(n, N, e, md)
          PROVE  TypeOK'
      BY <2>1, <2>2, UpdateViewType DEF TypeOK, Closed, Merged
    <2>3. ASSUME NEW t, Apply(n, t), t.mod = md, t.net = r.net, t.state = r.state
          PROVE  TypeOK'
      BY <1>1, <2>1, <2>3, ApplyType DEF WellTyped, Merged
    <2> QED
      BY <2>1, <2>2, <2>3 DEF Merged, Closed
  <1> QED
    BY <1>2, <1>3, <1>4, <1>5

LEMMA MsgType ==
    ASSUME TypeOK, NEW c \in Chan, handle_leader_election_msg(c[1], c[2])
    PROVE  TypeOK'
  <1> DEFINE s == c[1]
             n == c[2]
             m == Head(net[<<s, n>>])
             N == [net EXCEPT ![<<s, n>>] = Tail(@)]
  <1>1. s \in Node /\ n \in Node /\ <<s, n>> \in Chan
    BY DEF Chan
  <1> HIDE DEF s, n
  <1>2. handle_leader_election_msg(s, n)
    BY DEF s, n
  <1>3. /\ m \in Msg /\ N \in Network /\ UNCHANGED budget
        /\ \/ net' = N /\ UNCHANGED <<cur_view, state, election_mod, up, log>>
           \/ \E r : Quiet(n, election_mod[n], N, r) /\ Apply(n, r)
           \/ \E r : \E l \in Node : Announced(n, l, election_mod[n], N, r) /\ Apply(n, r)
           \/ m.type = "ANNOUNCE_ACK" /\ leader_election_handle_announce_ack(s, n, m, N)
           \/ m.type = "FIN" /\ leader_election_handle_close(n, m, N)
    BY <1>1, <1>2, MsgCases
  <1> HIDE DEF m, N
  <1>4. CASE net' = N /\ UNCHANGED <<cur_view, state, election_mod, up, log>>
    BY <1>3, <1>4 DEF TypeOK, Network, log, budget
  <1>5. ASSUME NEW r, WellTyped(r), Apply(n, r) PROVE TypeOK'
    BY <1>1, <1>3, <1>5, ApplyType
  <1>6. CASE m.type = "ANNOUNCE_ACK" /\ leader_election_handle_announce_ack(s, n, m, N)
    BY <1>1, <1>3, <1>6, AckType
  <1>7. CASE m.type = "FIN" /\ leader_election_handle_close(n, m, N)
    <2>1. m.view \in View
      BY <1>3, <1>7, MsgFields
    <2> QED
      BY <1>1, <1>3, <1>7, <2>1, UpdateViewType DEF leader_election_handle_close, TypeOK
  <1> QED
    BY <1>3, <1>4, <1>5, <1>6, <1>7 DEF Quiet, Announced

(* The timer sends a new proposal or the report again. *)
LEMMA TimerCases ==
    ASSUME TypeOK, NEW n \in Node, leader_election_on_timeout(n)
    PROVE  /\ UNCHANGED budget
           /\ \E r : /\ Apply(n, r)
                     /\ \/ Quiet(n, election_mod[n], net, r)
                        \/ /\ state[n] = "POSTLELE" /\ election_mod[n].new_leader # n
                           /\ Announced(n, election_mod[n].new_leader, election_mod[n], net, r)
  <1> DEFINE md == election_mod[n]
  <1>1. md \in Mod /\ state[n] \in States /\ net \in Network
    BY TypeFields
  <1>2. UNCHANGED budget
    BY DEF leader_election_on_timeout
  <1>3. CASE md.next_pnum <= MaxPnum /\ Apply(n, leader_election_proposer_do(n, md, net))
    <2>1. Quiet(n, md, net, leader_election_proposer_do(n, md, net))
      BY <1>1, <1>3, ProposerDo
    <2> QED
      BY <1>2, <1>3, <2>1
  <1>4. CASE /\ state[n] = "POSTLELE" /\ md.new_leader # n
             /\ Apply(n, Result(n, md, send_to_one_node(net, n, md.new_leader,
                                        leader_election_cal_edge(n, md.new_leader, md))))
    <2> DEFINE l == md.new_leader
               a == leader_election_cal_edge(n, l, md)
               M == send_to_one_node(net, n, l, a)
               r == Result(n, md, M)
    <2>1. l \in Node /\ <<n, l>> \in Chan
      BY <1>1, <1>4, ModFields DEF Chan
    <2>2. a \in Msg /\ Report(n, l, md, a)
      BY <1>1, <2>1, ReportFacts
    <2> HIDE DEF a
    <2>3. /\ M \in Network
          /\ \A c \in Chan : \A e \in MsgsOf(M, c) : e \in MsgsOf(net, c) \/ (c = <<n, l>> /\ e = a)
      BY <1>1, <2>1, <2>2, SendFacts
    <2>4. r = [mod |-> md, net |-> M, state |-> "POSTLELE"]
      BY <1>4 DEF Result
    <2>5. Apply(n, r)
      BY <1>4 DEF a
    <2> HIDE DEF M, r
    <2>6. Announced(n, l, md, net, r)
      BY <1>1, <1>4, <2>1, <2>2, <2>3, <2>4 DEF Announced, WellTyped
    <2> QED
      BY <1>2, <1>4, <2>5, <2>6
  <1> QED
    BY <1>3, <1>4 DEF leader_election_on_timeout

LEMMA TypeInit == Init => TypeOK
  <1> SUFFICES ASSUME Init PROVE TypeOK
    OBVIOUS
  <1>1. 0 \in 0..MaxReq /\ [view_id |-> 1, leader_id |-> OldLeader, req_id |-> 0] \in View
    BY Constants DEF View
  <1>2. NewMod \in Mod /\ <<>> \in Seq(Msg)
    BY NewModType
  <1> QED
    BY <1>1, <1>2 DEF Init, TypeOK

LEMMA TypeNext == TypeOK /\ [Next]_vars => TypeOK'
  <1> SUFFICES ASSUME TypeOK, [Next]_vars PROVE TypeOK'
    OBVIOUS
  <1>1. CASE \/ leader_handle_submit_req \/ leader_try_to_execute
             \/ \E n \in Node, k \in Slot : handle_accept_req(n, k) \/ handle_missing_ack(n, k)
             \/ \E n \in Node : handle_force_exec(n)
    BY <1>1, LogType
  <1>2. CASE \/ \E n \in Node : initialize_leader_election(n)
             \/ \E l, n \in Node : handle_ping_req(l, n)
    BY <1>2, ViewType
  <1>3. ASSUME NEW c \in Chan, handle_leader_election_msg(c[1], c[2]) PROVE TypeOK'
    BY <1>3, MsgType
  <1>4. ASSUME NEW n \in Node, leader_election_on_timeout(n) PROVE TypeOK'
    BY <1>4, TimerCases, ApplyType DEF Quiet, Announced
  <1>5. CASE \/ \E c \in Chan : LoseMsg(c)
             \/ \E n \in Node : Crash(n) \/ Restart(n)
    BY <1>5, FaultType
  <1>6. CASE UNCHANGED vars
    BY <1>6 DEF TypeOK, vars, log, budget
  <1> QED
    BY <1>1, <1>2, <1>3, <1>4, <1>5, <1>6 DEF Next

(* Every reachable state of the election is well typed: a proposal never    *)
(* lacks a candidate, what a learner announces is a node, the edge of a     *)
(* log and the boundary of view 2 stay within the requests of view 1.       *)
THEOREM ElectionTypeCorrect == Spec => []TypeOK
  BY TypeInit, TypeNext, PTL DEF Spec
--------------------------------------------------------------------------------
(* What view 2 keeps.  KeptInv is preserved by every step between two       *)
(* states in which no elected node has been told of another leader.         *)

ReportsIn == \A c \in Chan : \A m \in MsgsOf(net, c) : ReportOK(c, m)

LEMMA ReportMeaning == (ReportInv <=> ReportsIn) /\ (ReportInv' <=> ReportsIn')
  BY DEF ReportInv, ReportsIn, MsgsOf

Parts == ViewInv /\ AckInv /\ EdgeInv /\ ReportInv /\ BoundaryInv

(* What a step must not do: nobody comes back to view 1, and whoever has     *)
(* left it acknowledges nothing more.                                        *)
Stays ==
    \A s \in Node : Left(s) => Left(s)' /\ \A k \in Slot : s \in acks'[k] => s \in acks[k]

LEMMA CoversStays ==
    ASSUME Stays, NEW s \in Node, NEW end, NEW empty, Covers(s, end, empty)
    PROVE  Covers(s, end, empty)'
  BY DEF Stays, Covers

LEMMA SealedStays ==
    ASSUME Stays, NEW r, Sealed(r)
    PROVE  Sealed(r)'
  <1>1. PICK Q \in SUBSET Node :
          Majority(Q) /\ \A s \in Q : Left(s) /\ (r + 1 \in Slot => s \notin acks[r + 1])
    BY DEF Sealed
  <1>2. \A s \in Q : Left(s)' /\ (r + 1 \in Slot => s \notin acks'[r + 1])
    BY <1>1 DEF Stays
  <1> QED
    BY <1>1, <1>2 DEF Sealed

LEMMA ReportStays ==
    ASSUME Stays, NEW c \in Chan, NEW m, ReportOK(c, m)
    PROVE  ReportOK(c, m)'
  <1>1. c[1] \in Node
    BY DEF Chan
  <1>2. CASE m.type = "ANNOUNCE_ACK"
    <2>1. Covers(c[1], m.last_req, m.empty)
      BY <1>2 DEF ReportOK
    <2>2. Covers(c[1], m.last_req, m.empty)'
      BY <1>1, <2>1, CoversStays
    <2> QED
      BY <1>2, <2>2 DEF ReportOK
  <1>3. CASE m.type = "FIN"
    <2>1. Sealed(m.view.req_id)
      BY <1>3 DEF ReportOK
    <2>2. Sealed(m.view.req_id)'
      BY <2>1, SealedStays
    <2> QED
      BY <1>3, <2>2 DEF ReportOK
  <1> QED
    BY <1>2, <1>3 DEF ReportOK

LEMMA EdgeStays ==
    ASSUME Stays, TypeOK, NEW n \in Node, NEW edge, edge.count \in SUBSET Node, EdgeOK(n, edge)
    PROVE  EdgeOK(n, edge)'
  BY CoversStays DEF EdgeOK

(* The parts that a step which stays preserves where it changes nothing. *)
LEMMA OldEdge ==
    ASSUME Stays, TypeOK, EdgeInv, NEW n \in Node, election_mod'[n].edge = election_mod[n].edge
    PROVE  EdgeOK(n, election_mod[n].edge)'
  <1> DEFINE e == election_mod[n].edge
  <1>1. e.count \in SUBSET Node
    BY TypeFields, ModFields
  <1>2. EdgeOK(n, e)
    BY DEF EdgeInv
  <1>3. PICK x : x = e
    OBVIOUS
  <1>4. EdgeOK(n, x)'
    BY <1>1, <1>2, <1>3, EdgeStays
  <1> QED
    BY <1>3, <1>4 DEF EdgeOK, Covers, Left

LEMMA OldReports ==
    ASSUME Stays, ReportInv, NEW c \in Chan, NEW m, m \in MsgsOf(net, c)
    PROVE  ReportOK(c, m)'
  BY ReportMeaning, ReportStays DEF ReportsIn

LEMMA OldBoundary ==
    ASSUME Stays, BoundaryInv, NEW n \in Node, cur_view'[n] = cur_view[n],
           cur_view[n].view_id = 2
    PROVE  Sealed(cur_view[n].req_id)'
  <1>1. PICK r : r = cur_view[n].req_id
    OBVIOUS
  <1>2. Sealed(r)'
    BY <1>1, SealedStays DEF BoundaryInv
  <1> QED
    BY <1>1, <1>2 DEF Sealed, Left

(* A boundary that is sealed lies behind everything that is executed. *)
LEMMA SealedKeeps ==
    ASSUME TypeOK, AckInv, NEW r \in 0..MaxReq, Sealed(r)
    PROVE  agreed <= r
  <1> SUFFICES ASSUME ~(agreed <= r) PROVE FALSE
    OBVIOUS
  <1>1. agreed \in 0..MaxReq
    BY DEF TypeOK
  <1>2. r + 1 \in 1..agreed /\ r + 1 \in Slot
    BY <1>1, Constants DEF Slot
  <1>3. Majority(acks[r + 1]) /\ acks[r + 1] \in SUBSET Node
    BY <1>2 DEF AckInv, TypeOK
  <1>4. PICK Q \in SUBSET Node :
          Majority(Q) /\ \A s \in Q : Left(s) /\ (r + 1 \in Slot => s \notin acks[r + 1])
    BY DEF Sealed
  <1> QED
    BY <1>2, <1>3, <1>4, MajoritiesMeet

(* The requests of view 1: nothing of the election changes. *)
LEMMA LogKept ==
    ASSUME TypeOK, Parts, Stays, AckInv', UNCHANGED <<cur_view, state, election_mod, net>>
    PROVE  Parts'
  <1>1. ViewInv'
    BY DEF Parts, ViewInv
  <1>2. EdgeInv'
    BY OldEdge DEF Parts, EdgeInv
  <1>3. ReportInv'
    <2>1. \A c \in Chan : MsgsOf(net', c) = MsgsOf(net, c)
      BY DEF MsgsOf
    <2>2. ReportsIn'
      BY <2>1, OldReports DEF Parts, ReportsIn
    <2> QED
      BY <2>2, ReportMeaning
  <1>4. BoundaryInv'
    BY OldBoundary DEF Parts, BoundaryInv
  <1> QED
    BY <1>1, <1>2, <1>3, <1>4 DEF Parts

(* Nobody who follows view 1 has left it. *)
LEMMA FollowerStays ==
    ASSUME NEW n \in Node, Follows(n)
    PROVE  ~Left(n)
  BY DEF Follows, Left

LEMMA SubmitKept ==
    ASSUME TypeOK, Parts, leader_handle_submit_req
    PROVE  Parts'
  <1> DEFINE k == highest_seen[OldLeader] + 1
  <1>1. /\ OldLeader \in Node /\ k \in Slot /\ k \in Nat /\ ~Left(OldLeader)
        /\ highest_seen[OldLeader] \in 0..MaxReq /\ agreed \in 0..MaxReq
    BY TypeFields, Constants, FollowerStays DEF leader_handle_submit_req, Slot, TypeOK
  <1>2. cur_view[OldLeader].view_id = 1
    BY <1>1 DEF Parts, ViewInv, Left
  <1>3. /\ db' = [db EXCEPT ![OldLeader] = @ \cup {k}]
        /\ highest_seen' = [highest_seen EXCEPT ![OldLeader] = k]
        /\ acks' = [acks EXCEPT ![k] = {OldLeader}]
        /\ UNCHANGED <<cur_view, state, election_mod, net, highest_to_commit, agreed>>
    BY DEF leader_handle_submit_req
  <1>4. acks[k] = {}
    BY <1>1, <1>2 DEF Parts, AckInv
  <1>5. /\ \A j \in Slot : acks'[j] = IF j = k THEN {OldLeader} ELSE acks[j]
        /\ \A n \in Node : db'[n] = IF n = OldLeader THEN db[n] \cup {k} ELSE db[n]
        /\ \A n \in Node : highest_seen'[n] = IF n = OldLeader THEN k ELSE highest_seen[n]
    BY <1>1, <1>3 DEF TypeOK
  <1>6. k = highest_seen[OldLeader] + 1
    OBVIOUS
  <1> HIDE DEF k
  <1>7. Stays
    BY <1>1, <1>3, <1>5 DEF Stays, Left
  <1>8. AckInv'
    <2>1. ASSUME NEW j \in 1..agreed PROVE Majority(acks'[j])
      <3>1. j \in Slot /\ j # k
        BY <1>1, <1>2, <1>6, Constants DEF Parts, AckInv, Slot
      <3> QED
        BY <1>5, <3>1 DEF Parts, AckInv
    <2>2. \A n \in Node : highest_to_commit[n] <= agreed
      BY DEF Parts, AckInv
    <2>3. /\ agreed <= k
          /\ \A j \in Slot : acks'[j] # {} \/ j \in db'[OldLeader] => j <= k
      <3>1. /\ agreed <= highest_seen[OldLeader]
            /\ \A j \in Slot : acks[j] # {} \/ j \in db[OldLeader] => j <= highest_seen[OldLeader]
        BY <1>2 DEF Parts, AckInv
      <3>2. ASSUME NEW j \in Slot, acks'[j] # {} \/ j \in db'[OldLeader] PROVE j <= k
        <4>1. j = k \/ acks[j] # {} \/ j \in db[OldLeader]
          BY <1>1, <1>5, <3>2
        <4>2. j \in Int
          BY DEF Slot
        <4> QED
          BY <1>1, <1>6, <3>1, <4>1, <4>2
      <3> QED
        BY <1>1, <1>6, <3>1, <3>2
    <2>4. ASSUME NEW n \in Node, NEW j \in Slot, n \in acks'[j]
          PROVE  /\ cur_view[n].view_id = 1 => j \in db'[n] /\ j <= highest_seen'[n]
                 /\ cur_view[n].view_id = 2 /\ j # cur_view[n].req_id + 1 => j \in db'[n]
      <3>1. CASE n \in acks[j]
        <4>1. /\ cur_view[n].view_id = 1 => j \in db[n] /\ j <= highest_seen[n]
              /\ cur_view[n].view_id = 2 /\ j # cur_view[n].req_id + 1 => j \in db[n]
          BY <3>1 DEF Parts, AckInv
        <4>2. j \in Int
          BY DEF Slot
        <4>3. cur_view[n].view_id = 1 => j <= highest_seen'[n]
          BY <1>1, <1>5, <1>6, <4>1, <4>2
        <4> QED
          BY <1>5, <4>1, <4>3
      <3>2. CASE n \notin acks[j]
        <4>1. n = OldLeader /\ j = k
          BY <1>5, <2>4, <3>2
        <4>2. j \in db'[n] /\ highest_seen'[n] = k
          BY <1>1, <1>5, <4>1
        <4> QED
          BY <1>1, <4>1, <4>2
      <3> QED
        BY <3>1, <3>2
    <2> QED
      BY <1>1, <1>3, <1>5, <2>1, <2>2, <2>3, <2>4 DEF AckInv
  <1> QED
    BY <1>3, <1>7, <1>8, LogKept

LEMMA AcceptKept ==
    ASSUME TypeOK, Parts, NEW n \in Node, NEW k \in Slot, handle_accept_req(n, k)
    PROVE  Parts'
  <1>1. /\ k \in Nat /\ ~Left(n) /\ n # OldLeader /\ k \in db[OldLeader]
        /\ highest_seen[n] \in 0..MaxReq
    BY TypeFields, Constants, FollowerStays DEF handle_accept_req, Slot
  <1>2. cur_view[n].view_id = 1
    BY <1>1 DEF Parts, ViewInv, Left
  <1>3. /\ db' = [db EXCEPT ![n] = @ \cup {k}]
        /\ highest_seen' = [highest_seen EXCEPT ![n] = Max({@, k})]
        /\ acks' = [acks EXCEPT ![k] = @ \cup {n}]
        /\ UNCHANGED <<cur_view, state, election_mod, net, highest_to_commit, agreed>>
    BY DEF handle_accept_req
  <1>4. /\ \A j \in Slot : acks'[j] = IF j = k THEN acks[j] \cup {n} ELSE acks[j]
        /\ \A x \in Node : db'[x] = IF x = n THEN db[x] \cup {k} ELSE db[x]
        /\ \A x \in Node : x # n => highest_seen'[x] = highest_seen[x]
        /\ highest_seen'[n] = Max({highest_seen[n], k})
    BY <1>1, <1>3 DEF TypeOK
  <1>5. highest_seen'[n] \in Nat /\ highest_seen'[n] >= highest_seen[n] /\ highest_seen'[n] >= k
    <2>1. highest_seen[n] \in Int /\ k \in Int
      BY <1>1
    <2> QED
      <3> DEFINE h == highest_seen[n]
      <3>1. Max({h, k}) \in {h, k} /\ Max({h, k}) >= h /\ Max({h, k}) >= k
        BY <2>1, MaxOfTwo
      <3>2. highest_seen'[n] = Max({h, k})
        BY <1>4
      <3>3. h \in Nat
        BY <1>1
      <3> HIDE DEF h
      <3>4. highest_seen'[n] \in Nat /\ highest_seen'[n] >= h /\ highest_seen'[n] >= k
        BY <1>1, <3>1, <3>2, <3>3
      <3> QED
        BY <3>4 DEF h
  <1>6. Stays
    BY <1>1, <1>3, <1>4 DEF Stays, Left
  <1>7. AckInv'
    <2>1. ASSUME NEW j \in 1..agreed PROVE Majority(acks'[j])
      <3>1. j \in Slot
        BY Constants DEF TypeOK, Slot
      <3>2. acks[j] \in SUBSET Node /\ acks'[j] \in SUBSET Node /\ acks[j] \subseteq acks'[j]
        BY <1>4, <3>1 DEF TypeOK
      <3> QED
        BY <3>2, MajorityGrows DEF Parts, AckInv
    <2>2. \A x \in Node : highest_to_commit[x] <= agreed
      BY DEF Parts, AckInv
    <2>3. cur_view[OldLeader].view_id = 1 =>
            /\ agreed <= highest_seen'[OldLeader]
            /\ \A j \in Slot : acks'[j] # {} \/ j \in db'[OldLeader] => j <= highest_seen'[OldLeader]
      BY <1>1, <1>4, Constants DEF Parts, AckInv
    <2>4. ASSUME NEW x \in Node, NEW j \in Slot, x \in acks'[j]
          PROVE  /\ cur_view[x].view_id = 1 => j \in db'[x] /\ j <= highest_seen'[x]
                 /\ cur_view[x].view_id = 2 /\ j # cur_view[x].req_id + 1 => j \in db'[x]
      <3>1. CASE x \in acks[j]
        <4>1. j \in Nat
          BY DEF Slot
        <4> QED
          <5>1. /\ cur_view[x].view_id = 1 => j \in db[x] /\ j <= highest_seen[x]
                /\ cur_view[x].view_id = 2 /\ j # cur_view[x].req_id + 1 => j \in db[x]
            BY <3>1 DEF Parts, AckInv
          <5>2. j <= highest_seen[x] => j <= highest_seen'[x]
            BY <1>1, <1>4, <1>5, <4>1
          <5> QED
            BY <1>4, <5>1, <5>2
      <3>2. CASE x \notin acks[j]
        BY <1>1, <1>2, <1>4, <1>5, <2>4, <3>2
      <3> QED
        BY <3>1, <3>2
    <2> QED
      BY <1>3, <2>1, <2>2, <2>3, <2>4 DEF AckInv
  <1> QED
    BY <1>3, <1>6, <1>7, LogKept

LEMMA ExecuteKept ==
    ASSUME TypeOK, Parts, leader_try_to_execute
    PROVE  Parts'
  <1>1. /\ OldLeader \in Node /\ ~Left(OldLeader) /\ agreed \in 0..MaxReq
        /\ highest_seen[OldLeader] \in 0..MaxReq /\ agreed < highest_seen[OldLeader]
        /\ agreed + 1 \in Slot /\ Majority(acks[agreed + 1])
    BY TypeFields, Constants, FollowerStays DEF leader_try_to_execute, Slot, TypeOK
  <1>2. /\ agreed' = agreed + 1
        /\ highest_to_commit' = [highest_to_commit EXCEPT ![OldLeader] = agreed + 1]
        /\ UNCHANGED <<cur_view, state, election_mod, net, db, highest_seen, acks>>
    BY DEF leader_try_to_execute
  <1>3. Stays
    BY <1>2 DEF Stays, Left
  <1>4. AckInv'
    <2>1. ASSUME NEW j \in 1..(agreed + 1) PROVE Majority(acks[j])
      <3>1. j = agreed + 1 \/ j \in 1..agreed
        BY <1>1
      <3> QED
        BY <1>1, <3>1 DEF Parts, AckInv
    <2>2. \A x \in Node : highest_to_commit'[x] <= agreed + 1
      <3>1. ASSUME NEW x \in Node PROVE highest_to_commit'[x] <= agreed + 1
        <4>1. highest_to_commit[x] \in Int /\ highest_to_commit[x] <= agreed
          BY TypeFields DEF Parts, AckInv
        <4>2. highest_to_commit'[x] = IF x = OldLeader THEN agreed + 1 ELSE highest_to_commit[x]
          BY <1>1, <1>2 DEF TypeOK
        <4> QED
          BY <1>1, <4>1, <4>2
      <3> QED
        BY <3>1
    <2>3. agreed + 1 <= highest_seen[OldLeader]
      BY <1>1
    <2> QED
      BY <1>2, <2>1, <2>2, <2>3 DEF Parts, AckInv
  <1> QED
    BY <1>2, <1>3, <1>4, LogKept

LEMMA ForceKept ==
    ASSUME TypeOK, Parts, NEW n \in Node, handle_force_exec(n)
    PROVE  Parts'
  <1>1. /\ highest_to_commit' = [highest_to_commit EXCEPT ![n] = agreed]
        /\ UNCHANGED <<cur_view, state, election_mod, net, db, highest_seen, acks, agreed>>
        /\ agreed \in 0..MaxReq
    BY DEF handle_force_exec, TypeOK
  <1>2. Stays
    BY <1>1 DEF Stays, Left
  <1>3. \A x \in Node : highest_to_commit'[x] <= agreed
    <2>1. ASSUME NEW x \in Node PROVE highest_to_commit'[x] <= agreed
      <3>1. highest_to_commit'[x] = IF x = n THEN agreed ELSE highest_to_commit[x]
        BY <1>1 DEF TypeOK
      <3> QED
        BY <1>1, <3>1 DEF Parts, AckInv
    <2> QED
      BY <2>1
  <1>4. AckInv'
    BY <1>1, <1>3 DEF Parts, AckInv
  <1> QED
    BY <1>1, <1>2, <1>4, LogKept

LEMMA MissingKept ==
    ASSUME TypeOK, Parts, NEW n \in Node, NEW k \in Slot, handle_missing_ack(n, k)
    PROVE  Parts'
  <1>1. /\ db' = [db EXCEPT ![n] = @ \cup {k}]
        /\ UNCHANGED <<cur_view, state, election_mod, net, highest_seen, highest_to_commit,
                       acks, agreed>>
        /\ k <= highest_to_commit[n] /\ highest_to_commit[n] \in Int /\ k \in Int
        /\ agreed \in 0..MaxReq /\ OldLeader \in Node /\ highest_seen[OldLeader] \in 0..MaxReq
    BY TypeFields, Constants DEF handle_missing_ack, Slot, TypeOK
  <1>2. \A x \in Node : db'[x] = IF x = n THEN db[x] \cup {k} ELSE db[x]
    BY <1>1 DEF TypeOK
  <1>3. Stays
    BY <1>1 DEF Stays, Left
  <1>4. cur_view[OldLeader].view_id = 1 /\ n = OldLeader => k <= highest_seen[OldLeader]
    <2>1. highest_to_commit[n] <= agreed
      BY DEF Parts, AckInv
    <2> QED
      BY <1>1, <2>1 DEF Parts, AckInv
  <1>5. AckInv'
    BY <1>1, <1>2, <1>4 DEF Parts, AckInv
  <1> QED
    BY <1>1, <1>3, <1>5, LogKept
--------------------------------------------------------------------------------
(* The steps of the election. *)

(* A step preserves the parts if what it changes of edges, messages and      *)
(* views is in order.                                                        *)
LEMMA StepKept ==
    ASSUME TypeOK, Parts, Stays, ViewInv', AckInv',
           \A n \in Node : \/ election_mod'[n].edge = election_mod[n].edge
                           \/ EdgeOK(n, election_mod[n].edge)',
           \A c \in Chan : \A m \in MsgsOf(net', c) : m \in MsgsOf(net, c) \/ ReportOK(c, m)',
           \A n \in Node : cur_view'[n] = cur_view[n] \/ Sealed(cur_view[n].req_id)'
    PROVE  Parts'
  <1>1. EdgeInv'
    BY OldEdge DEF Parts, EdgeInv
  <1>2. ReportInv'
    <2>1. ReportsIn'
      BY OldReports DEF Parts, ReportsIn
    <2> QED
      BY <2>1, ReportMeaning
  <1>3. BoundaryInv'
    BY OldBoundary DEF Parts, BoundaryInv
  <1> QED
    BY <1>1, <1>2, <1>3 DEF Parts

(* A step that changes neither views nor logs. *)
LEMMA ElectionKept ==
    ASSUME TypeOK, Parts, UNCHANGED <<cur_view, log>>,
           \A n \in Node : /\ state[n] = "POSTLELE" => state'[n] = "POSTLELE"
                           /\ state'[n] # "ACTIVE" => cur_view[n].view_id = 1,
           \A n \in Node : \/ election_mod'[n].edge = election_mod[n].edge
                           \/ EdgeOK(n, election_mod[n].edge)',
           \A c \in Chan : \A m \in MsgsOf(net', c) : m \in MsgsOf(net, c) \/ ReportOK(c, m)'
    PROVE  Parts'
  <1>1. Stays
    BY DEF Stays, Left, log
  <1>2. ViewInv'
    BY DEF Parts, ViewInv
  <1>3. AckInv'
    BY DEF Parts, AckInv, log
  <1> QED
    BY <1>1, <1>2, <1>3, StepKept

LEMMA InitializeKept ==
    ASSUME TypeOK, Parts, NEW n \in Node, initialize_leader_election(n)
    PROVE  Parts'
  <1>1. /\ state' = [state EXCEPT ![n] = "INLELE"]
        /\ state[n] = "ACTIVE" /\ cur_view[n].view_id = 1
        /\ election_mod' = [election_mod EXCEPT ![n] =
                              refresh_leader_election([@ EXCEPT !.next_pnum = n])]
        /\ UNCHANGED <<cur_view, net, log>>
    BY DEF initialize_leader_election
  <1>2. \A x \in Node : state'[x] = IF x = n THEN "INLELE" ELSE state[x]
    BY <1>1 DEF TypeOK
  <1>3. \A x \in Node : /\ state[x] = "POSTLELE" => state'[x] = "POSTLELE"
                        /\ state'[x] # "ACTIVE" => cur_view[x].view_id = 1
    BY <1>1, <1>2 DEF Parts, ViewInv
  <1>4. \A x \in Node : election_mod'[x].edge = election_mod[x].edge
    <2> DEFINE md == election_mod[n]
               md2 == [md EXCEPT !.next_pnum = n]
    <2>1. md \in Mod /\ n \in Nat
      BY TypeFields DEF Node
    <2>2. md2 \in Mod /\ md2.edge = md.edge
      BY <2>1, ModUpdates DEF Mod
    <2>3. election_mod' = [election_mod EXCEPT ![n] = refresh_leader_election(md2)]
      BY <1>1
    <2> HIDE DEF md2
    <2>4. refresh_leader_election(md2).edge = md.edge
      BY <2>2, RefreshFacts
    <2> QED
      BY <2>3, <2>4 DEF TypeOK
  <1>5. \A c \in Chan : MsgsOf(net', c) = MsgsOf(net, c)
    BY <1>1 DEF MsgsOf
  <1> QED
    BY <1>1, <1>3, <1>4, <1>5, ElectionKept

(* Giving up an election because a ping of the leader arrives. *)
LEMMA GiveUpKept ==
    ASSUME TypeOK, Parts, NEW n \in Node, state[n] = "INLELE",
           state' = [state EXCEPT ![n] = "ACTIVE"], UNCHANGED <<cur_view, log, election_mod, net>>
    PROVE  Parts'
  <1>1. \A x \in Node : state'[x] = IF x = n THEN "ACTIVE" ELSE state[x]
    BY DEF TypeOK
  <1>2. \A x \in Node : /\ state[x] = "POSTLELE" => state'[x] = "POSTLELE"
                        /\ state'[x] # "ACTIVE" => cur_view[x].view_id = 1
    BY <1>1 DEF Parts, ViewInv
  <1>3. \A c \in Chan : MsgsOf(net', c) = MsgsOf(net, c)
    BY DEF MsgsOf
  <1> QED
    BY <1>2, <1>3, ElectionKept

(* Messages get lost, nothing else changes. *)
LEMMA LossKept ==
    ASSUME TypeOK, Parts, UNCHANGED <<cur_view, state, election_mod, log>>,
           \A c \in Chan : MsgsOf(net', c) \subseteq MsgsOf(net, c)
    PROVE  Parts'
  <1>1. \A x \in Node : /\ state[x] = "POSTLELE" => state'[x] = "POSTLELE"
                        /\ state'[x] # "ACTIVE" => cur_view[x].view_id = 1
    BY DEF Parts, ViewInv
  <1> QED
    BY <1>1, ElectionKept

(* The messages of the Paxos round report nothing. *)
LEMMA PlainReport ==
    ASSUME NEW c, NEW m, m.type \in Plain
    PROVE  ReportOK(c, m)'
  BY DEF Plain, ReportOK

(* A handler that leaves result r at node n. *)
LEMMA ApplyKept ==
    ASSUME TypeOK, Parts, NEW n \in Node, NEW r, Apply(n, r),
           \/ r.state = state[n]
           \/ state[n] # "ACTIVE" /\ r.state = "POSTLELE",
           r.mod.edge = election_mod[n].edge \/ EdgeOK(n, r.mod.edge)',
           \A c \in Chan : \A m \in MsgsOf(r.net, c) : m \in MsgsOf(net, c) \/ ReportOK(c, m)'
    PROVE  Parts'
  <1>1. /\ \A x \in Node : state'[x] = IF x = n THEN r.state ELSE state[x]
        /\ \A x \in Node : election_mod'[x] = IF x = n THEN r.mod ELSE election_mod[x]
        /\ net' = r.net /\ UNCHANGED <<cur_view, log>>
    BY DEF Apply, TypeOK
  <1>2. \A x \in Node : /\ state[x] = "POSTLELE" => state'[x] = "POSTLELE"
                        /\ state'[x] # "ACTIVE" => cur_view[x].view_id = 1
    BY <1>1 DEF Parts, ViewInv
  <1>3. \A x \in Node : \/ election_mod'[x].edge = election_mod[x].edge
                        \/ EdgeOK(x, election_mod[x].edge)'
    <2>1. EdgeOK(n, r.mod.edge)' => EdgeOK(n, election_mod[n].edge)'
      BY <1>1 DEF EdgeOK, Covers, Left
    <2> QED
      BY <1>1, <2>1
  <1>4. \A c \in Chan : \A m \in MsgsOf(net', c) : m \in MsgsOf(net, c) \/ ReportOK(c, m)'
    BY <1>1
  <1> QED
    BY <1>1, <1>2, <1>3, <1>4, ElectionKept

(* A handler that does not end in an announcement. *)
LEMMA QuietKept ==
    ASSUME TypeOK, Parts, NEW n \in Node, NEW r, NEW N, Apply(n, r),
           Quiet(n, election_mod[n], N, r),
           \A c \in Chan : MsgsOf(N, c) \subseteq MsgsOf(net, c)
    PROVE  Parts'
  <1>1. \A c \in Chan : \A m \in MsgsOf(r.net, c) : m \in MsgsOf(net, c) \/ ReportOK(c, m)'
    BY PlainReport DEF Quiet
  <1> QED
    BY <1>1, ApplyKept DEF Quiet

(* A node that learns the result of the election covers itself. *)
LEMMA OwnCovers ==
    ASSUME TypeOK, Parts, NEW n \in Node, state[n] # "ACTIVE", Left(n)', UNCHANGED acks,
           NEW end, end = highest_seen[n], NEW empty, \A k \in empty : k \notin db[n]
    PROVE  Covers(n, end, empty)'
  <1>1. cur_view[n].view_id = 1
    BY DEF Parts, ViewInv
  <1>2. \A k \in Slot : n \in acks[k] => k \in db[n] /\ k <= highest_seen[n]
    BY <1>1 DEF Parts, AckInv
  <1> QED
    BY <1>2 DEF Covers

(* A handler that ends in the announcement of l. *)
LEMMA AnnouncedKept ==
    ASSUME TypeOK, Parts, Unchallenged', NEW n \in Node, NEW l \in Node, NEW r, NEW N,
           Apply(n, r), state[n] # "ACTIVE",
           Announced(n, l, election_mod[n], N, r),
           \A c \in Chan : MsgsOf(N, c) \subseteq MsgsOf(net, c)
    PROVE  Parts'
  <1>1. /\ r.state = "POSTLELE" /\ r.mod.new_leader = l
        /\ r.mod.edge = IF l = n THEN leader_election_initialize_edge_mod(n)
                        ELSE election_mod[n].edge
        /\ \A c \in Chan : \A m \in MsgsOf(r.net, c) :
              \/ m \in MsgsOf(N, c) \/ m.type \in Plain
              \/ c = <<n, l>> /\ Report(n, l, election_mod[n], m)
    BY DEF Announced
  <1>2. Left(n)' /\ election_mod'[n] = r.mod /\ UNCHANGED acks
    BY <1>1 DEF Apply, TypeOK, log, Left
  <1>3. CASE l = n
    <2> DEFINE e == r.mod.edge
    <2>1. e = leader_election_initialize_edge_mod(n)
      BY <1>1, <1>3
    <2>2. e.count = {n} /\ e.end = highest_seen[n] /\ \A k \in e.empty : k \notin db[n]
      BY <2>1 DEF leader_election_initialize_edge_mod, EmptySlots
    <2>3. Covers(n, e.end, e.empty)'
      BY <1>2, <2>2, OwnCovers
    <2>4. EdgeOK(n, e)'
      BY <2>2, <2>3 DEF EdgeOK
    <2>5. \A c \in Chan : \A m \in MsgsOf(r.net, c) : m \in MsgsOf(net, c) \/ ReportOK(c, m)'
      <3>1. <<n, l>> \notin Chan
        BY <1>3 DEF Chan
      <3> QED
        BY <1>1, <3>1, PlainReport
    <2> QED
      BY <1>1, <2>4, <2>5, ApplyKept
  <1>4. CASE l # n
    <2>1. election_mod[n].edge.start = None
      BY <1>1, <1>2, <1>4 DEF Unchallenged
    <2>2. ASSUME NEW m, Report(n, l, election_mod[n], m) PROVE ReportOK(<<n, l>>, m)'
      <3>1. m.type = "ANNOUNCE_ACK" /\ m.content = l /\ m.last_req = highest_seen[n] /\ m.empty = {}
        BY <2>1, <2>2 DEF Report
      <3>2. Covers(n, m.last_req, m.empty)'
        BY <1>2, <3>1, OwnCovers
      <3> QED
        BY <3>1, <3>2 DEF ReportOK
    <2>3. \A c \in Chan : \A m \in MsgsOf(r.net, c) : m \in MsgsOf(net, c) \/ ReportOK(c, m)'
      BY <1>1, <2>2, PlainReport
    <2> QED
      BY <1>1, <1>4, <2>3, ApplyKept
  <1> QED
    BY <1>3, <1>4
--------------------------------------------------------------------------------
(* Entering view 2. *)

LEMMA EnterFacts ==
    ASSUME TypeOK, Parts, NEW n \in Node, NEW v \in View, v.view_id = 2,
           cur_view[n].view_id = 1, update_view(n, v)
    PROVE  Stays /\ ViewInv' /\ AckInv' /\ Left(n)' /\ UNCHANGED acks
  <1>1. /\ \A x \in Node : cur_view'[x] = IF x = n THEN v ELSE cur_view[x]
        /\ \A x \in Node : state'[x] = IF x = n THEN "ACTIVE" ELSE state[x]
        /\ \A x \in Node : db'[x] = IF x = n THEN db[x] \ {v.req_id + 1} ELSE db[x]
        /\ \A x \in Node : highest_seen'[x] = IF x = n THEN 0 ELSE highest_seen[x]
        /\ \A x \in Node : highest_to_commit'[x] = IF x = n THEN 0 ELSE highest_to_commit[x]
        /\ UNCHANGED <<acks, agreed>>
    <2>1. db' = [db EXCEPT ![n] = db[n] \ {v.req_id + 1}]
      BY DEF update_view, TypeOK
    <2> QED
      BY <2>1 DEF update_view, TypeOK
  <1>2. Stays /\ Left(n)'
    BY <1>1 DEF Stays, Left
  <1>3. ViewInv'
    BY <1>1 DEF Parts, ViewInv
  <1>4. AckInv'
    <2>1. \A x \in Node : highest_to_commit'[x] <= agreed
      <3>1. agreed \in 0..MaxReq
        BY DEF TypeOK
      <3> QED
        BY <1>1, <3>1 DEF Parts, AckInv
    <2>2. OldLeader \in Node
      BY Constants
    <2>3. cur_view'[OldLeader].view_id = 1 =>
             /\ cur_view[OldLeader].view_id = 1
             /\ highest_seen'[OldLeader] = highest_seen[OldLeader]
             /\ db'[OldLeader] = db[OldLeader]
      <3>1. CASE n = OldLeader
        BY <1>1, <2>2, <3>1
      <3>2. CASE n # OldLeader
        BY <1>1, <2>2, <3>2
      <3> QED
        BY <3>1, <3>2
    <2>4. ASSUME NEW x \in Node, NEW k \in Slot, x \in acks[k]
          PROVE  /\ cur_view'[x].view_id = 1 => k \in db'[x] /\ k <= highest_seen'[x]
                 /\ cur_view'[x].view_id = 2 /\ k # cur_view'[x].req_id + 1 => k \in db'[x]
      <3>1. CASE x = n
        <4>1. k \in db[x]
          BY <2>4, <3>1 DEF Parts, AckInv
        <4>2. cur_view'[x] = v /\ db'[x] = db[x] \ {v.req_id + 1}
          BY <1>1, <3>1
        <4> QED
          BY <4>1, <4>2
      <3>2. CASE x # n
        BY <1>1, <2>4, <3>2 DEF Parts, AckInv
      <3> QED
        BY <3>1, <3>2
    <2> QED
      BY <1>1, <2>1, <2>3, <2>4 DEF Parts, AckInv
  <1> QED
    BY <1>1, <1>2, <1>3, <1>4

LEMMA EnterKept ==
    ASSUME TypeOK, Parts, NEW n \in Node, NEW v \in View, v.view_id = 2,
           cur_view[n].view_id = 1, update_view(n, v), Sealed(v.req_id)',
           \A x \in Node : \/ election_mod'[x].edge = election_mod[x].edge
                           \/ EdgeOK(x, election_mod[x].edge)',
           \A c \in Chan : \A m \in MsgsOf(net', c) : m \in MsgsOf(net, c) \/ ReportOK(c, m)'
    PROVE  Parts'
  <1>1. Stays /\ ViewInv' /\ AckInv'
    BY EnterFacts
  <1>2. \A x \in Node : cur_view'[x] = IF x = n THEN v ELSE cur_view[x]
    BY DEF update_view, TypeOK
  <1>3. \A x \in Node : cur_view'[x] = cur_view[x] \/ Sealed(cur_view[x].req_id)'
    <2>1. ASSUME NEW x \in Node PROVE cur_view'[x] = cur_view[x] \/ Sealed(cur_view[x].req_id)'
      <3>1. CASE x = n
        <4>1. cur_view'[x].req_id = v.req_id
          BY <1>2, <3>1
        <4> QED
          BY <4>1 DEF Sealed, Left
      <3>2. CASE x # n
        BY <1>2, <3>2
      <3> QED
        BY <3>1, <3>2
    <2> QED
      BY <2>1
  <1> QED
    BY <1>1, <1>3, StepKept

LEMMA PingKept ==
    ASSUME TypeOK, Parts, NEW l \in Node, NEW n \in Node, handle_ping_req(l, n)
    PROVE  Parts'
  <1>1. UNCHANGED <<election_mod, net>> /\ \A c \in Chan : MsgsOf(net', c) = MsgsOf(net, c)
    BY DEF handle_ping_req, MsgsOf
  <1>2. CASE cur_view[l].view_id = cur_view[n].view_id + 1 /\ update_view(n, cur_view[l])
    <2>1. cur_view[l].view_id = 2 /\ cur_view[n].view_id = 1 /\ cur_view[l] \in View
      BY <1>2, TypeFields DEF Parts, ViewInv
    <2>2. PICK v : v = cur_view[l]
      OBVIOUS
    <2>3. v \in View /\ v.view_id = 2 /\ update_view(n, v) /\ Sealed(v.req_id)
      BY <1>2, <2>1, <2>2 DEF Parts, BoundaryInv
    <2>4. Stays
      BY <2>1, <2>3, EnterFacts
    <2>5. Sealed(v.req_id)'
      BY <2>3, <2>4, SealedStays
    <2> QED
      BY <1>1, <2>1, <2>3, <2>5, EnterKept
  <1>3. CASE /\ state[n] = "INLELE" /\ state' = [state EXCEPT ![n] = "ACTIVE"]
             /\ UNCHANGED <<cur_view, log>>
    BY <1>1, <1>3, GiveUpKept
  <1> QED
    BY <1>2, <1>3 DEF handle_ping_req

(* The message that closes the election arrives. *)
LEMMA CloseKept ==
    ASSUME TypeOK, Parts, NEW c \in Chan, NEW n \in Node, state[n] # "ACTIVE",
           NEW m \in Msg, m.type = "FIN", m \in MsgsOf(net, c), NEW N,
           \A x \in Chan : MsgsOf(N, x) \subseteq MsgsOf(net, x),
           leader_election_handle_close(n, m, N)
    PROVE  Parts'
  <1>1. m.view \in View /\ m.view.view_id = 2 /\ Sealed(m.view.req_id)
    BY MsgFields, ReportMeaning DEF Parts, ReportsIn, ReportOK
  <1>2. cur_view[n].view_id = 1
    BY DEF Parts, ViewInv
  <1>3. update_view(n, m.view) /\ net' = N /\ election_mod' = election_mod
    BY DEF leader_election_handle_close
  <1>4. Stays
    BY <1>1, <1>2, <1>3, EnterFacts
  <1>5. Sealed(m.view.req_id)'
    BY <1>1, <1>4, SealedStays
  <1> QED
    BY <1>1, <1>2, <1>3, <1>5, EnterKept
--------------------------------------------------------------------------------
(* Merging a report. *)

(* A report without empty slots only removes slots from the edge, all up to  *)
(* the last one it has.                                                      *)
LEMMA MergeBounds ==
    ASSUME NEW edge \in Edge, NEW s \in Node, NEW m \in Msg, m.type = "ANNOUNCE_ACK",
           m.empty = {}, NEW e, e = merge_edge(edge, s, m, {})
    PROVE  /\ e.end >= edge.end /\ e.end >= m.last_req /\ e.end \in {edge.end, m.last_req}
           /\ e.empty \subseteq edge.empty
           /\ \A x \in e.empty : x > m.last_req
           /\ e.count = edge.count \cup {s}
  <1>1. m.last_req \in Int /\ edge.end \in Int
    BY MsgFields DEF Edge
  <1>2. /\ Max({edge.end, m.last_req}) >= edge.end
        /\ Max({edge.end, m.last_req}) >= m.last_req
        /\ Max({edge.end, m.last_req}) \in {edge.end, m.last_req}
    BY <1>1, MaxOfTwo
  <1>3. e.end = Max({edge.end, m.last_req}) /\ e.count = edge.count \cup {s}
    BY DEF merge_edge
  <1>4. \A x \in e.empty : x \in edge.empty /\ x > m.last_req
    BY DEF merge_edge
  <1> QED
    BY <1>2, <1>3, <1>4

(* The merged edge covers the nodes that were counted and the reporter. *)
LEMMA MergeCovers ==
    ASSUME NEW n \in Node, NEW edge \in Edge, edge.start # None, EdgeOK(n, edge)',
           NEW s \in Node, NEW m \in Msg, m.type = "ANNOUNCE_ACK",
           m.empty = {}, Covers(s, m.last_req, m.empty)',
           NEW e, e = merge_edge(edge, s, m, {})
    PROVE  /\ EdgeOK(n, e)' /\ \A x \in e.count : Covers(x, e.end, e.empty)'
           /\ e.count \in SUBSET Node /\ e.end \in 0..MaxReq
  <1>1. /\ e.end >= edge.end /\ e.end >= m.last_req /\ e.end \in {edge.end, m.last_req}
        /\ e.empty \subseteq edge.empty
        /\ \A x \in e.empty : x > m.last_req
        /\ e.count = edge.count \cup {s}
    BY MergeBounds
  <1>2. m.last_req \in 0..MaxReq
    BY MsgFields
  <1>3. edge.end \in 0..MaxReq /\ edge.count \in SUBSET Node
    BY DEF Edge
  <1>4. e.count \in SUBSET Node /\ e.end \in 0..MaxReq
    BY <1>1, <1>2, <1>3
  <1>5. n \in edge.count /\ \A x \in edge.count : Covers(x, edge.end, edge.empty)'
    BY DEF EdgeOK
  <1>6. ASSUME NEW x \in edge.count PROVE Covers(x, e.end, e.empty)'
    <2>1. Left(x)' /\ \A k \in Slot : x \in acks'[k] => k <= edge.end /\ k \notin edge.empty
      BY <1>5 DEF Covers
    <2>2. \A k \in Slot : k <= edge.end => k <= e.end
      BY <1>1, <1>3, <1>4 DEF Slot
    <2> QED
      BY <1>1, <2>1, <2>2 DEF Covers
  <1>7. Covers(s, e.end, e.empty)'
    <2>1. Left(s)' /\ \A k \in Slot : s \in acks'[k] => k <= m.last_req
      BY DEF Covers
    <2>2. \A k \in Slot : k <= m.last_req => k <= e.end /\ k \notin e.empty
      BY <1>1, <1>2, <1>4 DEF Slot
    <2> QED
      BY <2>1, <2>2 DEF Covers
  <1>8. \A x \in e.count : Covers(x, e.end, e.empty)'
    BY <1>1, <1>6, <1>7
  <1> QED
    BY <1>1, <1>4, <1>5, <1>8 DEF EdgeOK

(* A boundary fixed from the reports of a majority is sealed. *)
LEMMA CoveredSealed ==
    ASSUME NEW Q \in SUBSET Node, Majority(Q), NEW end \in 0..MaxReq, NEW empty, NEW r \in Int,
           \A x \in Q : Covers(x, end, empty)',
           (empty = {} /\ r = end) \/ r + 1 \in empty
    PROVE  Sealed(r)'
  <1>1. ASSUME NEW x \in Q PROVE Left(x)' /\ (r + 1 \in Slot => x \notin acks'[r + 1])
    <2>1. Left(x)' /\ \A k \in Slot : x \in acks'[k] => k <= end /\ k \notin empty
      BY DEF Covers
    <2>2. ~(r + 1 <= end /\ r + 1 \notin empty)
      OBVIOUS
    <2> QED
      BY <2>1, <2>2
  <1> QED
    BY <1>1 DEF Sealed

(* A handler that leaves a merged edge at node n. *)
LEMMA ApplyStays ==
    ASSUME TypeOK, NEW n \in Node, NEW t, Apply(n, t),
           t.state = state[n] \/ t.state = "POSTLELE"
    PROVE  Stays /\ UNCHANGED acks /\ (t.state = "POSTLELE" => Left(n)')
  BY DEF Stays, Left, Apply, TypeOK, log

(* The edge that a report is merged into, once it is known that the node has *)
(* left view 1.                                                              *)
LEMMA BaseEdge ==
    ASSUME TypeOK, Parts, NEW n \in Node, state[n] # "ACTIVE", Stays, UNCHANGED acks,
           NEW m, m.content = n, NEW N, NEW r,
           \/ /\ r.mod = election_mod[n]
              /\ ~(election_mod[n].edge.start = None /\ n = m.content)
           \/ Left(n)' /\ r.mod.edge = leader_election_initialize_edge_mod(n)
    PROVE  r.mod.edge \in Edge /\ r.mod.edge.start # None /\ EdgeOK(n, r.mod.edge)'
  <1> DEFINE e == r.mod.edge
  <1>1. CASE r.mod = election_mod[n] /\ ~(election_mod[n].edge.start = None /\ n = m.content)
    <2>1. e \in Edge /\ e.start # None /\ e.count \in SUBSET Node
      BY <1>1, TypeFields, ModFields
    <2>2. EdgeOK(n, e)
      BY <1>1 DEF Parts, EdgeInv
    <2> QED
      BY <2>1, <2>2, EdgeStays
  <1>2. CASE Left(n)' /\ e = leader_election_initialize_edge_mod(n)
    <2>1. e \in Edge
      BY <1>2, OwnEdge
    <2>2. highest_to_commit[n] \in 0..MaxReq
      BY TypeFields
    <2>3. /\ e.count = {n} /\ e.end = highest_seen[n] /\ \A k \in e.empty : k \notin db[n]
          /\ e.start # None
      BY <1>2, <2>2 DEF leader_election_initialize_edge_mod, EmptySlots, None
    <2>4. Covers(n, e.end, e.empty)'
      BY <1>2, <2>3, OwnCovers
    <2>5. EdgeOK(n, e)'
      BY <2>3, <2>4 DEF EdgeOK
    <2> QED
      BY <2>1, <2>3, <2>5
  <1> QED
    BY <1>1, <1>2

(* A report is merged: the election goes on or is closed. *)
LEMMA MergeKept ==
    ASSUME TypeOK, Parts, NEW s \in Node, NEW n \in Node, state[n] # "ACTIVE",
           NEW m \in Msg, m.type = "ANNOUNCE_ACK",
           m.content = n, m.empty = {}, Covers(s, m.last_req, m.empty),
           NEW N, \A c \in Chan : MsgsOf(N, c) \subseteq MsgsOf(net, c),
           NEW r, WellTyped(r),
           \/ /\ Quiet(n, election_mod[n], N, r) /\ r.mod = election_mod[n]
              /\ ~(election_mod[n].edge.start = None /\ n = m.content)
           \/ Announced(n, n, election_mod[n], N, r),
           NEW e, e = merge_edge(r.mod.edge, s, m, {}),
           NEW md, Merged(n, N, r, e, md)
    PROVE  Parts'
  <1>1. md.edge = e
    BY DEF Merged
  <1>2. r.state = state[n] \/ r.state = "POSTLELE"
    BY DEF Quiet, Announced
  <1>3. ASSUME Stays, UNCHANGED acks, r.state = "POSTLELE" => Left(n)'
        PROVE  /\ EdgeOK(n, e)' /\ \A x \in e.count : Covers(x, e.end, e.empty)'
               /\ e.count \in SUBSET Node /\ e.end \in 0..MaxReq
    <2>1. \/ /\ r.mod = election_mod[n]
             /\ ~(election_mod[n].edge.start = None /\ n = m.content)
          \/ Left(n)' /\ r.mod.edge = leader_election_initialize_edge_mod(n)
      BY <1>3 DEF Announced
    <2>2. r.mod.edge \in Edge /\ r.mod.edge.start # None /\ EdgeOK(n, r.mod.edge)'
      BY <1>3, <2>1, BaseEdge
    <2>3. Covers(s, m.last_req, m.empty)'
      BY <1>3, CoversStays
    <2> QED
      BY <2>2, <2>3, MergeCovers
  <1>4. ASSUME NEW t, Apply(n, t), t.mod = md, t.net = r.net, t.state = r.state
        PROVE  Parts'
    <2>1. Stays /\ UNCHANGED acks /\ (r.state = "POSTLELE" => Left(n)')
      BY <1>2, <1>4, ApplyStays
    <2>2. EdgeOK(n, t.mod.edge)'
      BY <1>1, <1>3, <1>4, <2>1
    <2>3. \A c \in Chan : \A x \in MsgsOf(t.net, c) : x \in MsgsOf(net, c) \/ ReportOK(c, x)'
      <3>1. <<n, n>> \notin Chan
        BY DEF Chan
      <3>2. \A c \in Chan : \A x \in MsgsOf(r.net, c) : x \in MsgsOf(N, c) \/ x.type \in Plain
        BY <3>1 DEF Quiet, Announced
      <3> QED
        BY <1>4, <3>2, PlainReport
    <2> QED
      BY <1>2, <1>4, <2>2, <2>3, ApplyKept
  <1>5. CASE Closed(n, N, e, md)
    <2>1. PICK v \in View :
            /\ v.view_id = 2
            /\ (e.empty = {} /\ v.req_id = e.end) \/ v.req_id + 1 \in e.empty
            /\ update_view(n, v)
            /\ \A c \in Chan : \A x \in MsgsOf(net', c) :
                  x \in MsgsOf(N, c) \/ x = leader_election_build_close(v)
      BY <1>5 DEF Closed
    <2>2. Majority(e.count) /\ election_mod' = [election_mod EXCEPT ![n] = md]
      BY <1>5 DEF Closed
    <2>3. cur_view[n].view_id = 1
      BY DEF Parts, ViewInv
    <2>4. Stays /\ UNCHANGED acks /\ Left(n)'
      BY <2>1, <2>3, EnterFacts
    <2>5. /\ EdgeOK(n, e)' /\ \A x \in e.count : Covers(x, e.end, e.empty)'
          /\ e.count \in SUBSET Node /\ e.end \in 0..MaxReq
      BY <1>3, <2>4
    <2>6. Sealed(v.req_id)'
      <3>1. v.req_id \in Int
        BY DEF View
      <3> QED
        BY <2>1, <2>2, <2>5, <3>1, CoveredSealed
    <2>7. \A x \in Node : \/ election_mod'[x].edge = election_mod[x].edge
                          \/ EdgeOK(x, election_mod[x].edge)'
      <3>1. \A x \in Node : election_mod'[x] = IF x = n THEN md ELSE election_mod[x]
        BY <2>2 DEF TypeOK
      <3>2. EdgeOK(n, election_mod[n].edge)'
        BY <1>1, <2>5, <3>1 DEF EdgeOK, Covers, Left
      <3> QED
        BY <3>1, <3>2
    <2>8. \A c \in Chan : \A x \in MsgsOf(net', c) : x \in MsgsOf(net, c) \/ ReportOK(c, x)'
      <3>1. ASSUME NEW c \in Chan, NEW x, x = leader_election_build_close(v)
            PROVE  ReportOK(c, x)'
        <4>1. x.type = "FIN" /\ x.view = v
          BY <3>1 DEF leader_election_build_close
        <4> QED
          BY <2>1, <2>6, <4>1 DEF ReportOK
      <3> QED
        BY <2>1, <3>1
    <2> QED
      BY <2>1, <2>3, <2>6, <2>7, <2>8, EnterKept
  <1> QED
    BY <1>4, <1>5 DEF Merged

(* A report arrives.  It lists no empty slot, so the merge does end. *)
LEMMA AckKept ==
    ASSUME TypeOK, Parts, Unchallenged', NEW s \in Node, NEW n \in Node, <<s, n>> \in Chan,
           state[n] # "ACTIVE", NEW m \in Msg, m.type = "ANNOUNCE_ACK", m \in MsgsOf(net, <<s, n>>),
           NEW N \in Network, \A c \in Chan : MsgsOf(N, c) \subseteq MsgsOf(net, c),
           leader_election_handle_announce_ack(s, n, m, N)
    PROVE  Parts'
  <1>1. m.content = n /\ m.empty = {} /\ Covers(s, m.last_req, m.empty)
    <2>1. ReportOK(<<s, n>>, m)
      BY ReportMeaning DEF Parts, ReportsIn
    <2> QED
      BY <2>1 DEF ReportOK
  <1>2. PICK r : r = AckResult(n, m, N)
    OBVIOUS
  <1>3. /\ DOMAIN r = {"mod", "net", "state"}
        /\ \/ Quiet(n, election_mod[n], N, r) /\ r.mod = election_mod[n]
              /\ ~(election_mod[n].edge.start = None /\ n = m.content)
           \/ Announced(n, n, election_mod[n], N, r)
    BY <1>2, AckResultFacts
  <1>4. WellTyped(r)
    BY <1>3 DEF Quiet, Announced
  <1>5. \/ Apply(n, r)
        \/ merge_hangs(r.mod.edge, m)
        \/ \E garbage \in SUBSET (1..(Cardinality(m.empty) - 1)) :
             AckMerges(s, n, m, N, r, merge_edge(r.mod.edge, s, m, garbage))
    BY <1>2, AckCases
  <1>6. CASE Apply(n, r)
    <2>1. CASE Quiet(n, election_mod[n], N, r)
      BY <1>6, <2>1, QuietKept
    <2>2. CASE Announced(n, n, election_mod[n], N, r)
      BY <1>6, <2>2, AnnouncedKept
    <2> QED
      BY <1>3, <2>1, <2>2
  <1>7. CASE merge_hangs(r.mod.edge, m)
    BY <1>1, <1>7 DEF merge_hangs
  <1>8. ASSUME NEW garbage \in SUBSET (1..(Cardinality(m.empty) - 1)),
               AckMerges(s, n, m, N, r, merge_edge(r.mod.edge, s, m, garbage))
        PROVE  Parts'
    <2>1. garbage = {}
      <3>1. Cardinality(m.empty) = 0
        BY <1>1, FS_EmptySet
      <3> QED
        BY <3>1
    <2>2. PICK e : e = merge_edge(r.mod.edge, s, m, garbage)
      OBVIOUS
    <2>3. PICK md : Merged(n, N, r, e, md)
      BY <1>3, <1>4, <1>8, <2>2, MergedFacts
    <2>4. e = merge_edge(r.mod.edge, s, m, {})
      BY <2>1, <2>2
    <2> QED
      BY <1>1, <1>3, <1>4, <2>3, <2>4, MergeKept
  <1> QED
    BY <1>5, <1>6, <1>7, <1>8

LEMMA MsgKept ==
    ASSUME TypeOK, Parts, Unchallenged', NEW s \in Node, NEW n \in Node, <<s, n>> \in Chan,
           handle_leader_election_msg(s, n)
    PROVE  Parts'
  <1>1. PICK m : m = Head(net[<<s, n>>])
    OBVIOUS
  <1>2. PICK N : N = [net EXCEPT ![<<s, n>>] = Tail(@)]
    OBVIOUS
  <1>3. /\ m \in Msg /\ m \in MsgsOf(net, <<s, n>>) /\ N \in Network
        /\ \A x \in Chan : MsgsOf(N, x) \subseteq MsgsOf(net, x)
        /\ \/ net' = N /\ UNCHANGED <<cur_view, state, election_mod, up, log>>
           \/ \E r : Quiet(n, election_mod[n], N, r) /\ Apply(n, r)
           \/ /\ state[n] # "ACTIVE"
              /\ \/ \E r : \E l \in Node :
                      Announced(n, l, election_mod[n], N, r) /\ Apply(n, r)
                 \/ m.type = "ANNOUNCE_ACK" /\ leader_election_handle_announce_ack(s, n, m, N)
                 \/ m.type = "FIN" /\ leader_election_handle_close(n, m, N)
    BY <1>1, <1>2, MsgCases
  <1>4. CASE net' = N /\ UNCHANGED <<cur_view, state, election_mod, up, log>>
    BY <1>3, <1>4, LossKept
  <1>5. ASSUME NEW r, Quiet(n, election_mod[n], N, r), Apply(n, r) PROVE Parts'
    BY <1>3, <1>5, QuietKept
  <1>6. ASSUME NEW r, NEW l \in Node, Announced(n, l, election_mod[n], N, r), Apply(n, r),
               state[n] # "ACTIVE"
        PROVE  Parts'
    BY <1>3, <1>6, AnnouncedKept
  <1>7. CASE state[n] # "ACTIVE" /\ m.type = "ANNOUNCE_ACK"
             /\ leader_election_handle_announce_ack(s, n, m, N)
    BY <1>3, <1>7, AckKept
  <1>8. CASE state[n] # "ACTIVE" /\ m.type = "FIN" /\ leader_election_handle_close(n, m, N)
    BY <1>3, <1>8, CloseKept
  <1> QED
    BY <1>3, <1>4, <1>5, <1>6, <1>7, <1>8

LEMMA TimerKept ==
    ASSUME TypeOK, Parts, Unchallenged', NEW n \in Node, leader_election_on_timeout(n)
    PROVE  Parts'
  <1>1. PICK r : /\ Apply(n, r)
                 /\ \/ Quiet(n, election_mod[n], net, r)
                    \/ /\ state[n] = "POSTLELE"
                       /\ Announced(n, election_mod[n].new_leader, election_mod[n], net, r)
    BY TimerCases
  <1>2. PICK N : N = net
    OBVIOUS
  <1>3. PICK l : l = election_mod[n].new_leader
    OBVIOUS
  <1>4. l \in Node
    BY <1>3, TypeFields, ModFields
  <1>5. CASE Quiet(n, election_mod[n], N, r)
    BY <1>1, <1>2, <1>5, QuietKept
  <1>6. CASE state[n] = "POSTLELE" /\ Announced(n, l, election_mod[n], N, r)
    BY <1>1, <1>2, <1>4, <1>6, AnnouncedKept
  <1> QED
    BY <1>1, <1>2, <1>3, <1>5, <1>6

LEMMA FaultKept ==
    ASSUME TypeOK, Parts, \/ \E c \in Chan : LoseMsg(c)
                          \/ \E n \in Node : Crash(n)
    PROVE  Parts'
  <1>1. net \in Network
    BY DEF TypeOK, Network
  <1>2. ASSUME NEW c \in Chan, LoseMsg(c) PROVE Parts'
    <2>1. \A x \in Chan : MsgsOf(net', x) \subseteq MsgsOf(net, x)
      BY <1>1, <1>2, TruncateFacts DEF LoseMsg
    <2> QED
      BY <1>2, <2>1, LossKept DEF LoseMsg
  <1>3. ASSUME NEW n \in Node, Crash(n) PROVE Parts'
    <2>1. \A x \in Chan : MsgsOf(net', x) \subseteq MsgsOf(net, x)
      <3>1. net' = [c \in Chan |-> IF c[2] = n THEN <<>> ELSE net[c]]
        BY <1>3 DEF Crash
      <3> QED
        BY <1>1, <3>1, EraseFacts
    <2> QED
      BY <1>3, <2>1, LossKept DEF Crash
  <1> QED
    BY <1>2, <1>3

LEMMA KeptInit == Init => KeptInv
  <1> SUFFICES ASSUME Init PROVE Parts
    BY DEF KeptInv, Parts
  <1>1. /\ \A n \in Node : /\ cur_view[n].view_id = 1 /\ state[n] = "ACTIVE"
                           /\ election_mod[n].edge.start = None
                           /\ highest_to_commit[n] = 0 /\ highest_seen[n] = 0 /\ db[n] = {}
        /\ \A k \in Slot : acks[k] = {}
        /\ agreed = 0 /\ OldLeader \in Node
    BY Constants DEF Init, NewMod
  <1>2. AckInv
    BY <1>1 DEF AckInv
  <1>3. ReportInv
    BY DEF Init, ReportInv
  <1> QED
    BY <1>1, <1>2, <1>3 DEF Parts, ViewInv, EdgeInv, EdgeOK, BoundaryInv

LEMMA KeptNext == TypeOK /\ KeptInv /\ Unchallenged' /\ [Next]_vars => KeptInv'
  <1> SUFFICES ASSUME TypeOK, KeptInv, Unchallenged', [Next]_vars, restarts' = 0
               PROVE  Parts'
    BY DEF KeptInv, Parts
  <1>1. restarts \in Nat
    BY DEF TypeOK
  <1>2. ASSUME NEW n \in Node, Restart(n) PROVE FALSE
    BY <1>1, <1>2 DEF Restart
  <1>3. restarts = 0
    BY <1>2 DEF Next, vars, budget, leader_handle_submit_req, handle_accept_req,
       handle_missing_ack, leader_try_to_execute, handle_force_exec, initialize_leader_election,
       handle_ping_req, handle_leader_election_msg, leader_election_on_timeout, LoseMsg, Crash
  <1>4. Parts
    BY <1>3 DEF KeptInv, Parts
  <1>5. CASE \/ leader_handle_submit_req
             \/ \E n \in Node, k \in Slot : handle_accept_req(n, k) \/ handle_missing_ack(n, k)
             \/ leader_try_to_execute
             \/ \E n \in Node : handle_force_exec(n)
    BY <1>4, <1>5, SubmitKept, AcceptKept, MissingKept, ExecuteKept, ForceKept
  <1>6. ASSUME NEW n \in Node, initialize_leader_election(n) PROVE Parts'
    BY <1>4, <1>6, InitializeKept
  <1>7. ASSUME NEW l \in Node, NEW n \in Node, handle_ping_req(l, n) PROVE Parts'
    BY <1>4, <1>7, PingKept
  <1>8. ASSUME NEW c \in Chan, handle_leader_election_msg(c[1], c[2]) PROVE Parts'
    <2>1. c[1] \in Node /\ c[2] \in Node /\ <<c[1], c[2]>> \in Chan
      BY DEF Chan
    <2> QED
      BY <1>4, <1>8, <2>1, MsgKept
  <1>9. ASSUME NEW n \in Node, leader_election_on_timeout(n) PROVE Parts'
    BY <1>4, <1>9, TimerKept
  <1>10. CASE \/ \E c \in Chan : LoseMsg(c)
              \/ \E n \in Node : Crash(n)
    BY <1>4, <1>10, FaultKept
  <1>11. CASE UNCHANGED vars
    <2>1. \A c \in Chan : MsgsOf(net', c) \subseteq MsgsOf(net, c)
      BY <1>11 DEF vars, MsgsOf
    <2> QED
      BY <1>4, <1>11, <2>1, LossKept DEF vars
  <1> QED
    BY <1>2, <1>5, <1>6, <1>7, <1>8, <1>9, <1>10, <1>11 DEF Next

(* Whatever is executed in view 1 lies within the boundary of view 2, and    *)
(* the record that update_view deletes lies behind it.                       *)
LEMMA KeptMeaning == TypeOK /\ KeptInv => CommittedKept
  <1> SUFFICES ASSUME TypeOK, KeptInv, restarts = 0, NEW n \in Node, cur_view[n].view_id = 2
               PROVE  /\ agreed <= cur_view[n].req_id
                      /\ {k \in 1..agreed : n \in acks[k]} \subseteq db[n]
    BY DEF CommittedKept, Keeps
  <1>1. AckInv /\ BoundaryInv
    BY DEF KeptInv
  <1>2. cur_view[n].req_id \in 0..MaxReq /\ agreed \in 0..MaxReq
    BY DEF TypeOK, View
  <1>3. agreed <= cur_view[n].req_id
    BY <1>1, <1>2, SealedKeeps DEF BoundaryInv
  <1>4. ASSUME NEW k \in 1..agreed, n \in acks[k] PROVE k \in db[n]
    <2>1. k \in Slot /\ k # cur_view[n].req_id + 1
      BY <1>2, <1>3, Constants DEF Slot
    <2> QED
      BY <1>1, <1>4, <2>1 DEF AckInv
  <1> QED
    BY <1>3, <1>4
--------------------------------------------------------------------------------
(* As long as no elected node is told of another leader, the strengthening  *)
(* is an invariant: every report that leader_election_handle_announce_ack   *)
(* merges covers its sender, and every boundary that                        *)
(* leader_election_leader_close announces is sealed by a majority.          *)
THEOREM KeptInvariance == Spec /\ []Unchallenged => []KeptInv
  <1>1. Init => KeptInv
    BY KeptInit
  <1>2. TypeOK /\ KeptInv /\ Unchallenged' /\ [Next]_vars => KeptInv'
    BY KeptNext
  <1>3. Spec => []TypeOK
    BY ElectionTypeCorrect
  <1> QED
    BY <1>1, <1>2, <1>3, PTL DEF Spec

(* For every group size, whatever messages and nodes are lost: the view     *)
(* that leader_election_leader_close starts keeps every request that the    *)
(* leader of view 1 has executed or executes later, as long as no node      *)
(* restarts and no elected node is told of another leader.                  *)
THEOREM CommittedKeptHolds == Spec /\ []Unchallenged => []CommittedKept
  <1>1. TypeOK /\ KeptInv => CommittedKept
    BY KeptMeaning
  <1> QED
    BY <1>1, ElectionTypeCorrect, KeptInvariance, PTL
================================================================================
