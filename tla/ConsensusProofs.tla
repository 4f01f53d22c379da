--------------------------- MODULE ConsensusProofs -----------------------------
(* TLAPS proofs about Consensus. *)
EXTENDS Consensus, TLAPS, FiniteSetTheorems

USE DEF build_accept_ack, build_missing_req, build_missing_ack, build_force_exec,
        build_forward_req, forward_submit_req, update_view, consensus_update_role

(* The elements of a sequence after its head is taken off. *)
LEMMA TailFacts ==
    ASSUME NEW S, NEW s \in Seq(S), s # <<>>
    PROVE  /\ Head(s) \in S
           /\ Head(s) = s[1]
           /\ 1 \in 1..Len(s)
           /\ Tail(s) \in Seq(S)
           /\ Len(Tail(s)) = Len(s) - 1
           /\ \A i \in 1..Len(Tail(s)) : Tail(s)[i] = s[i + 1]
  OBVIOUS

(* An element of an extended sequence is an old one or the new one. *)
LEMMA AppendFacts ==
    ASSUME NEW S, NEW s \in Seq(S), NEW e \in S
    PROVE  /\ Append(s, e) \in Seq(S)
           /\ \A i \in 1..Len(Append(s, e)) :
                 (i \in 1..Len(s) /\ Append(s, e)[i] = s[i]) \/ Append(s, e)[i] = e
  OBVIOUS

(* The elements of a concatenation, by their index. *)
LEMMA ConcatFacts ==
    ASSUME NEW S, NEW s \in Seq(S), NEW t \in Seq(S)
    PROVE  /\ s \o t \in Seq(S)
           /\ Len(s \o t) = Len(s) + Len(t)
           /\ \A i \in 1..Len(s \o t) :
                 (s \o t)[i] = IF i <= Len(s) THEN s[i] ELSE t[i - Len(s)]
  OBVIOUS

(* An ascending enumeration of a finite set of slots is a sequence of them. *)
LEMMA AscendingFacts ==
    ASSUME NEW S \in SUBSET Slot, NEW q \in Ascending(S)
    PROVE  /\ q \in Seq(S)
           /\ DOMAIN q = 1..Len(q)
           /\ Len(q) \in Nat
  <1>1. IsFiniteSet(Slot)
    BY FS_Interval, BoundAssumption DEF Slot
  <1>2. IsFiniteSet(S)
    BY <1>1, FS_Subset
  <1>3. Cardinality(S) \in Nat
    BY <1>2, FS_CardinalityType
  <1> QED
    BY <1>3 DEF Ascending
--------------------------------------------------------------------------------
(* The network. *)

Network == [Chan -> Seq(Msg)]

MsgsOf(N, c) == {N[c][i] : i \in 1..Len(N[c])}

Dequeue(N, c) == [N EXCEPT ![c] = Tail(@)]

(* Taking a message off a connection leaves a network whose messages were    *)
(* all there before, and the message taken is a message.                     *)
LEMMA DequeueFacts ==
    ASSUME NEW N \in Network, NEW c \in Chan, N[c] # <<>>,
           NEW M, M = Dequeue(N, c)
    PROVE  /\ M \in Network
           /\ \A x \in Chan : MsgsOf(M, x) \subseteq MsgsOf(N, x)
           /\ Head(N[c]) \in Msg
           /\ Head(N[c]) \in MsgsOf(N, c)
  <1>1. N[c] \in Seq(Msg)
    BY DEF Network
  <1>2. /\ Head(N[c]) \in Msg
        /\ Head(N[c]) = N[c][1]
        /\ 1 \in 1..Len(N[c])
        /\ Tail(N[c]) \in Seq(Msg)
        /\ Len(Tail(N[c])) = Len(N[c]) - 1
        /\ \A i \in 1..Len(Tail(N[c])) : Tail(N[c])[i] = N[c][i + 1]
    BY <1>1, TailFacts
  <1>3. M \in Network
    BY <1>2 DEF Network, Dequeue
  <1>4. ASSUME NEW x \in Chan PROVE MsgsOf(M, x) \subseteq MsgsOf(N, x)
    <2>1. CASE x = c
      <3>1. M[x] = Tail(N[c])
        BY <2>1 DEF Network, Dequeue
      <3>2. ASSUME NEW i \in 1..Len(M[x]) PROVE M[x][i] \in MsgsOf(N, x)
        <4>1. Len(N[c]) \in Nat
          BY <1>1
        <4>2. i \in 1..Len(Tail(N[c]))
          BY <3>1
        <4>3. i + 1 \in 1..Len(N[c])
          BY <1>2, <4>1, <4>2
        <4>4. M[x][i] = N[c][i + 1]
          BY <1>2, <3>1, <4>2
        <4> QED
          BY <4>3, <4>4, <2>1 DEF MsgsOf
      <3> QED
        BY <3>2 DEF MsgsOf
    <2>2. CASE x # c
      BY <2>2 DEF MsgsOf, Network, Dequeue
    <2> QED
      BY <2>1, <2>2
  <1> QED
    BY <1>2, <1>3, <1>4 DEF MsgsOf

(* send_to_one_node adds its message to one connection and to no other. *)
LEMMA SendFacts ==
    ASSUME NEW N \in Network, NEW s, NEW d, <<s, d>> \in Chan, NEW m \in Msg,
           NEW M, M = send_to_one_node(N, s, d, m)
    PROVE  /\ M \in Network
           /\ MsgsOf(M, <<s, d>>) \subseteq MsgsOf(N, <<s, d>>) \cup {m}
           /\ \A x \in Chan : x # <<s, d>> => MsgsOf(M, x) = MsgsOf(N, x)
  <1> DEFINE c == <<s, d>>
  <1>1. c \in Chan /\ N[c] \in Seq(Msg) /\ M = [N EXCEPT ![c] = Append(N[c], m)]
    BY DEF Network, send_to_one_node
  <1> HIDE DEF c
  <1>2. /\ Append(N[c], m) \in Seq(Msg)
        /\ \A i \in 1..Len(Append(N[c], m)) :
              (i \in 1..Len(N[c]) /\ Append(N[c], m)[i] = N[c][i])
                \/ Append(N[c], m)[i] = m
    BY <1>1, AppendFacts
  <1>3. M \in Network
    BY <1>1, <1>2 DEF Network
  <1>4. M[c] = Append(N[c], m)
    BY <1>1 DEF Network
  <1>5. MsgsOf(M, c) \subseteq MsgsOf(N, c) \cup {m}
    BY <1>2, <1>4 DEF MsgsOf
  <1>6. \A x \in Chan : x # c => MsgsOf(M, x) = MsgsOf(N, x)
    BY <1>1 DEF MsgsOf, Network
  <1> QED
    BY <1>3, <1>5, <1>6 DEF c

(* send_to_other_nodes adds nothing to a connection but its own messages. *)
LEMMA BroadcastFacts ==
    ASSUME NEW N \in Network, NEW s, NEW ms \in Seq(Msg),
           NEW M, M = send_to_other_nodes(N, s, ms)
    PROVE  /\ M \in Network
           /\ \A x \in Chan : MsgsOf(M, x) \subseteq
                                MsgsOf(N, x) \cup {ms[i] : i \in 1..Len(ms)}
  <1>1. ASSUME NEW x \in Chan
        PROVE  /\ M[x] \in Seq(Msg)
               /\ MsgsOf(M, x) \subseteq MsgsOf(N, x) \cup {ms[i] : i \in 1..Len(ms)}
    <2>1. N[x] \in Seq(Msg)
      BY DEF Network
    <2>2. CASE x[1] = s
      <3>1. M[x] = N[x] \o ms
        BY <2>2 DEF send_to_other_nodes
      <3>2. /\ N[x] \o ms \in Seq(Msg)
            /\ Len(N[x] \o ms) = Len(N[x]) + Len(ms)
            /\ \A i \in 1..Len(N[x] \o ms) :
                 (N[x] \o ms)[i] = IF i <= Len(N[x]) THEN N[x][i] ELSE ms[i - Len(N[x])]
        BY <2>1, ConcatFacts
      <3>3. ASSUME NEW i \in 1..Len(M[x])
            PROVE M[x][i] \in MsgsOf(N, x) \cup {ms[j] : j \in 1..Len(ms)}
        <4>1. Len(N[x]) \in Nat /\ Len(ms) \in Nat /\ i \in 1..(Len(N[x]) + Len(ms))
          BY <2>1, <3>1, <3>2
        <4>2. CASE i <= Len(N[x])
          BY <3>1, <3>2, <4>1, <4>2 DEF MsgsOf
        <4>3. CASE ~(i <= Len(N[x]))
          <5>1. i - Len(N[x]) \in 1..Len(ms)
            BY <4>1, <4>3
          <5>2. M[x][i] = ms[i - Len(N[x])]
            BY <3>1, <3>2, <4>3
          <5> QED
            BY <5>1, <5>2
        <4> QED
          BY <4>2, <4>3
      <3>4. MsgsOf(M, x) \subseteq MsgsOf(N, x) \cup {ms[i] : i \in 1..Len(ms)}
        BY <3>3 DEF MsgsOf
      <3> QED
        BY <3>1, <3>2, <3>4
    <2>3. CASE x[1] # s
      BY <2>1, <2>3 DEF send_to_other_nodes, MsgsOf
    <2> QED
      BY <2>2, <2>3
  <1>2. M = [x \in Chan |-> M[x]]
    BY DEF send_to_other_nodes
  <1> QED
    BY <1>1, <1>2 DEF Network
--------------------------------------------------------------------------------
(* What try_to_execute does. *)

Row == [Slot -> Data \cup {NoRecord}]

(* Node n has moved its commit point to end and has delivered up to upto,   *)
(* from row or earlier; messages new in the network are requests for        *)
(* missing slots.                                                           *)
Executed(n, end, upto, row, N) ==
    /\ end \in 0..MaxReq /\ upto \in 0..MaxReq
    /\ highest_to_commit' = [highest_to_commit EXCEPT ![n] = end]
    /\ highest_committed' = [highest_committed EXCEPT ![n] = upto]
    /\ highest_committed[n] <= upto /\ upto <= end
    /\ cur_view[n] = 0 => upto = highest_committed[n]
    /\ delivered' \in [Node -> Seq(Data)]
    /\ \A x \in Node : x # n => delivered'[x] = delivered[x]
    /\ Len(delivered'[n]) = upto
    /\ \A i \in 1..upto :
          \/ i \in 1..Len(delivered[n]) /\ delivered'[n][i] = delivered[n][i]
          \/ i \in Slot /\ row[i] # NoRecord /\ delivered'[n][i] = row[i]
    /\ net' \in Network
    /\ \A c \in Chan : \A m \in MsgsOf(net', c) :
          m \in MsgsOf(N, c) \/ m.type = "MISSING_REQ"

(* Where the loops of leader_try_to_execute and try_to_execute stop: every   *)
(* slot passed satisfies P, and the next one, if it is in range, does not.   *)
LEMMA LoopExitFacts ==
    ASSUME NEW c \in Nat, NEW e \in Nat, NEW P, NEW u \in LoopExit(c, e, P)
    PROVE  /\ u \in Nat /\ c <= u
           /\ u = c \/ u <= e
           /\ \A k \in (c + 1)..u : k \in P
           /\ u < e => u + 1 \notin P
  BY DEF LoopExit

(* deliver_msg_data appends the records of the next slots. *)
LEMMA DeliverFacts ==
    ASSUME TypeOK, NodeInv, NEW n \in Node, NEW row \in Row, NEW u \in 0..MaxReq,
           highest_committed[n] <= u,
           \A k \in (highest_committed[n] + 1)..u : row[k] # NoRecord,
           NEW D, D = deliver_msg_data(n, u, row)
    PROVE  /\ D \in [Node -> Seq(Data)]
           /\ \A x \in Node : x # n => D[x] = delivered[x]
           /\ Len(D[n]) = u
           /\ \A i \in 1..u :
                 \/ i \in 1..Len(delivered[n]) /\ D[n][i] = delivered[n][i]
                 \/ i \in Slot /\ row[i] # NoRecord /\ D[n][i] = row[i]
  <1> DEFINE c == highest_committed[n]
             new == [i \in 1..(u - c) |-> row[c + i]]
  <1>1. /\ c \in Nat /\ u \in Nat /\ c <= u /\ u <= MaxReq /\ MaxReq \in Nat
        /\ delivered[n] \in Seq(Data) /\ Len(delivered[n]) = c
    BY BoundAssumption DEF TypeOK, NodeInv
  <1>2. \A i \in 1..(u - c) : c + i \in Slot /\ row[c + i] \in Data
    BY <1>1 DEF Slot, Row
  <1>3. new \in Seq(Data) /\ Len(new) = u - c
    <2>1. u - c \in Nat /\ new \in [1..(u - c) -> Data]
      BY <1>1, <1>2
    <2> QED
      BY <2>1
  <1>4. D = [delivered EXCEPT ![n] = delivered[n] \o new]
    BY DEF deliver_msg_data
  <1>5. \A i \in 1..(u - c) : new[i] = row[c + i]
    OBVIOUS
  <1> HIDE DEF new, c
  <1>6. /\ delivered[n] \o new \in Seq(Data)
        /\ Len(delivered[n] \o new) = Len(delivered[n]) + Len(new)
        /\ \A i \in 1..Len(delivered[n] \o new) :
             (delivered[n] \o new)[i] =
                IF i <= Len(delivered[n]) THEN delivered[n][i] ELSE new[i - Len(delivered[n])]
    BY <1>1, <1>3, ConcatFacts
  <1>7. delivered \in [Node -> Seq(Data)]
    BY DEF TypeOK
  <1>8. D \in [Node -> Seq(Data)] /\ D[n] = delivered[n] \o new
        /\ \A x \in Node : x # n => D[x] = delivered[x]
    BY <1>4, <1>6, <1>7
  <1>9. Len(D[n]) = u
    BY <1>1, <1>3, <1>6, <1>8
  <1>10. ASSUME NEW i \in 1..u
         PROVE  \/ i \in 1..Len(delivered[n]) /\ D[n][i] = delivered[n][i]
                \/ i \in Slot /\ row[i] # NoRecord /\ D[n][i] = row[i]
    <2>1. CASE i <= c
      BY <1>1, <1>6, <1>8, <1>9, <2>1
    <2>2. CASE ~(i <= c)
      <3>1. i - c \in 1..(u - c) /\ c + (i - c) = i
        BY <1>1, <2>2
      <3>2. D[n][i] = new[i - c]
        BY <1>1, <1>6, <1>8, <1>9, <2>2
      <3>3. i \in (c + 1)..u
        BY <1>1, <2>2
      <3>4. row[i] # NoRecord
        BY <3>3 DEF c
      <3> QED
        BY <1>2, <1>5, <3>1, <3>2, <3>4
    <2> QED
      BY <2>1, <2>2
  <1> QED
    BY <1>8, <1>9, <1>10

(* What try_to_execute amounts to: execution up to some slot.  A secondary   *)
(* keeps its commit point; the leader raises it over slots with a quorum.    *)
LEMMA TryToExecuteFacts ==
    ASSUME TypeOK, NodeInv, NEW n \in Node, NEW tc \in 0..MaxReq, NEW seen \in 0..MaxReq,
           NEW row \in Row, NEW bits, NEW N \in Network,
           highest_to_commit[n] <= tc,
           n = Leader => /\ cur_view[n] = 1 /\ tc <= seen
                         /\ \A k \in 1..seen : row[k] # NoRecord,
           try_to_execute(n, tc, seen, row, bits, N)
    PROVE  \E end, upto :
              /\ Executed(n, end, upto, row, N)
              /\ n # Leader => end = tc
              /\ n = Leader => /\ tc <= end /\ end <= seen /\ upto = end
                               /\ \A k \in (tc + 1)..end : reached_quorum(bits[k])
  <1> DEFINE c == highest_committed[n]
  <1>1. /\ c \in 0..MaxReq /\ c <= highest_to_commit[n] /\ highest_to_commit[n] \in 0..MaxReq
        /\ MaxReq \in Nat
    BY BoundAssumption DEF TypeOK, NodeInv
  <1>2. CASE cur_view[n] = 0
    <2>1. /\ highest_to_commit' = [highest_to_commit EXCEPT ![n] = tc]
          /\ net' = N
          /\ highest_committed' = highest_committed /\ delivered' = delivered
      BY <1>2 DEF try_to_execute
    <2>2. highest_committed' = [highest_committed EXCEPT ![n] = c]
      BY <2>1 DEF TypeOK
    <2>3. Len(delivered[n]) = c /\ delivered \in [Node -> Seq(Data)]
      BY DEF TypeOK, NodeInv
    <2>4. /\ delivered' \in [Node -> Seq(Data)]
          /\ \A x \in Node : x # n => delivered'[x] = delivered[x]
          /\ Len(delivered'[n]) = c
          /\ \A i \in 1..c : i \in 1..Len(delivered[n]) /\ delivered'[n][i] = delivered[n][i]
      BY <2>1, <2>3
    <2>5. c <= tc
      BY <1>1
    <2>6. Executed(n, tc, c, row, N)
      <3>1. tc \in 0..MaxReq /\ c \in 0..MaxReq /\ highest_committed[n] <= c /\ c <= tc
        BY <1>1, <2>5
      <3>2. /\ net' \in Network
            /\ \A x \in Chan : \A m \in MsgsOf(net', x) :
                 m \in MsgsOf(N, x) \/ m.type = "MISSING_REQ"
        BY <2>1
      <3> QED
        BY <2>1, <2>2, <2>4, <3>1, <3>2, ZenonT(120) DEF Executed
    <2> QED
      BY <1>2, <2>6, NodeAssumption
  <1>3. CASE cur_view[n] # 0
    <2>1. PICK end \in leader_try_to_execute(n, tc, seen, bits) :
            \E upto \in LoopExit(c, end, Stored(row)) :
            \E missing \in Ascending(((c + 1)..end) \ Stored(row)) :
               /\ highest_to_commit' = [highest_to_commit EXCEPT ![n] = end]
               /\ highest_committed' = [highest_committed EXCEPT ![n] = upto]
               /\ delivered' = deliver_msg_data(n, upto, row)
               /\ net' = send_to_other_nodes(N, n,
                        [i \in DOMAIN missing |->
                            [type |-> "MISSING_REQ", vs |-> missing[i]]])
      BY <1>3 DEF try_to_execute
    <2>2. PICK upto \in LoopExit(c, end, Stored(row)) :
            \E missing \in Ascending(((c + 1)..end) \ Stored(row)) :
               /\ highest_to_commit' = [highest_to_commit EXCEPT ![n] = end]
               /\ highest_committed' = [highest_committed EXCEPT ![n] = upto]
               /\ delivered' = deliver_msg_data(n, upto, row)
               /\ net' = send_to_other_nodes(N, n,
                        [i \in DOMAIN missing |->
                            [type |-> "MISSING_REQ", vs |-> missing[i]]])
      BY <2>1
    <2>3. PICK missing \in Ascending(((c + 1)..end) \ Stored(row)) :
               /\ highest_to_commit' = [highest_to_commit EXCEPT ![n] = end]
               /\ highest_committed' = [highest_committed EXCEPT ![n] = upto]
               /\ delivered' = deliver_msg_data(n, upto, row)
               /\ net' = send_to_other_nodes(N, n,
                        [i \in DOMAIN missing |->
                            [type |-> "MISSING_REQ", vs |-> missing[i]]])
      BY <2>2
    <2>4. /\ end \in 0..MaxReq /\ tc <= end
          /\ n # Leader => end = tc
          /\ n = Leader => /\ end <= seen
                           /\ \A k \in (tc + 1)..end : reached_quorum(bits[k])
      <3>1. CASE n = Leader
        <4>1. end \in LoopExit(tc, seen, {k \in Slot : reached_quorum(bits[k])})
          BY <3>1 DEF leader_try_to_execute
        <4>2. /\ end \in Nat /\ tc <= end
              /\ end = tc \/ end <= seen
              /\ \A k \in (tc + 1)..end : k \in {j \in Slot : reached_quorum(bits[j])}
          BY <4>1, LoopExitFacts, <1>1
        <4> QED
          BY <3>1, <4>2, <1>1
      <3>2. CASE n # Leader
        BY <3>2, <1>1 DEF leader_try_to_execute
      <3> QED
        BY <3>1, <3>2
    <2>5. /\ upto \in 0..MaxReq /\ c <= upto /\ upto <= end
          /\ \A k \in (c + 1)..upto : k \in Stored(row)
          /\ upto < end => upto + 1 \notin Stored(row)
      <3>1. /\ upto \in Nat /\ c <= upto
            /\ upto = c \/ upto <= end
            /\ \A k \in (c + 1)..upto : k \in Stored(row)
            /\ upto < end => upto + 1 \notin Stored(row)
        BY <1>1, <2>4, LoopExitFacts
      <3> QED
        BY <3>1, <1>1, <2>4
    <2>6. n = Leader => upto = end
      <3> SUFFICES ASSUME n = Leader, upto < end PROVE FALSE
        BY <2>4, <2>5
      <3>1. upto + 1 \in 1..seen /\ upto + 1 \in Slot
        BY <1>1, <2>4, <2>5 DEF Slot
      <3> QED
        BY <2>5, <3>1 DEF Stored
    <2>7. /\ delivered' \in [Node -> Seq(Data)]
          /\ \A x \in Node : x # n => delivered'[x] = delivered[x]
          /\ Len(delivered'[n]) = upto
          /\ \A i \in 1..upto :
                \/ i \in 1..Len(delivered[n]) /\ delivered'[n][i] = delivered[n][i]
                \/ i \in Slot /\ row[i] # NoRecord /\ delivered'[n][i] = row[i]
      <3>1. \A k \in (c + 1)..upto : row[k] # NoRecord
        BY <2>5 DEF Stored
      <3>2. delivered' = deliver_msg_data(n, upto, row)
        BY <2>3
      <3>3. highest_committed[n] <= upto
        BY <2>5
      <3> QED
        BY <2>5, <3>1, <3>2, <3>3, DeliverFacts
    <2>8. /\ net' \in Network
          /\ \A x \in Chan : \A m \in MsgsOf(net', x) :
                m \in MsgsOf(N, x) \/ m.type = "MISSING_REQ"
      <3> DEFINE S == ((c + 1)..end) \ Stored(row)
                 ms == [i \in DOMAIN missing |->
                            [type |-> "MISSING_REQ", vs |-> missing[i]]]
      <3>1. S \in SUBSET Slot
        BY <1>1, <2>4 DEF Slot
      <3>2. missing \in Seq(S) /\ DOMAIN missing = 1..Len(missing) /\ Len(missing) \in Nat
        BY <3>1, AscendingFacts
      <3>3. \A i \in 1..Len(missing) : [type |-> "MISSING_REQ", vs |-> missing[i]] \in Msg
        BY <3>1, <3>2 DEF Msg
      <3>4. ms \in Seq(Msg) /\ \A i \in 1..Len(ms) : ms[i].type = "MISSING_REQ"
        BY <3>2, <3>3
      <3>5. net' = send_to_other_nodes(N, n, ms)
        BY <2>3
      <3> HIDE DEF ms
      <3>6. /\ net' \in Network
            /\ \A x \in Chan : MsgsOf(net', x) \subseteq
                                MsgsOf(N, x) \cup {ms[i] : i \in 1..Len(ms)}
        BY <3>4, <3>5, BroadcastFacts
      <3> QED
        BY <3>4, <3>6
    <2>9. Executed(n, end, upto, row, N)
      BY <1>3, <2>3, <2>4, <2>5, <2>7, <2>8 DEF Executed
    <2> QED
      BY <2>4, <2>6, <2>9
  <1> QED
    BY <1>2, <1>3
--------------------------------------------------------------------------------
(* The leader's slots and commit point only grow, so a message stays right. *)
LEMMA MsgOKStable ==
    ASSUME highest_seen[Leader] \in Nat, highest_seen'[Leader] \in Nat,
           highest_to_commit[Leader] \in Nat, highest_to_commit'[Leader] \in Nat,
           highest_seen[Leader] <= highest_seen'[Leader],
           highest_to_commit[Leader] <= highest_to_commit'[Leader],
           \A k \in Slot : k <= highest_seen[Leader] => db'[Leader][k] = db[Leader][k],
           NEW m \in Msg, MsgOK(m)
    PROVE  MsgOK(m)'
  BY BoundAssumption DEF MsgOK, Msg, Slot

(* The part of TypeOK that message handlers change. *)
CoreType ==
    /\ highest_seen \in [Node -> 0..MaxReq]
    /\ highest_to_commit \in [Node -> 0..MaxReq]
    /\ highest_committed \in [Node -> 0..MaxReq]
    /\ db \in [Node -> Row]
    /\ delivered \in [Node -> Seq(Data)]
    /\ net \in Network

(* It is a part of TypeOK. *)
LEMMA CoreOfType ==
    ASSUME TypeOK
    PROVE  CoreType
  BY DEF TypeOK, CoreType, Row, Network

(* row is a row the database of n may get when its highest_seen becomes sn. *)
RowOK(n, sn, row) ==
    /\ n = Leader => /\ highest_seen[n] <= sn
                     /\ \A k \in Slot : row[k] # NoRecord <=> k <= sn
                     /\ \A k \in Slot : k <= highest_seen[n] => row[k] = db[n][k]
    /\ n # Leader => \A k \in Slot : row[k] # NoRecord =>
                       k <= highest_seen[Leader] /\ row[k].req = db[Leader][k].req

(* The step leaves highest_seen of n at sn, and its database at row. *)
Keeps(n, sn, row) ==
    /\ cur_view' = cur_view
    /\ highest_seen' = [highest_seen EXCEPT ![n] = sn]
    /\ db' = [db EXCEPT ![n] = row]

(* Every message of N is right before or after the step. *)
NetOK(N) == \A c \in Chan : \A m \in MsgsOf(N, c) : MsgOK(m) \/ MsgOK(m)'

(* A step of node n that leaves its row of the database at row, its         *)
(* highest_seen at sn, and has executed, preserves the invariant: a leader  *)
(* keeps its old slots and executes all that it finds agreed; another node  *)
(* stays behind the leader and holds only copies of the leader's slots.     *)
LEMMA NodeStep ==
    ASSUME TypeOK, AgreementInv,
           NEW n \in Node, NEW sn \in 0..MaxReq, NEW row \in Row, NEW N \in Network,
           NEW end, NEW upto, Executed(n, end, upto, row, N),
           Keeps(n, sn, row),
           n = Leader => upto = end /\ end <= sn /\ highest_to_commit[n] <= end,
           n # Leader => end <= highest_to_commit[Leader],
           RowOK(n, sn, row), NetOK(N)
    PROVE  AgreementInv' /\ CoreType'
  <1> USE NodeAssumption
  <1>1. /\ LeaderInv /\ NodeInv /\ MsgInv
    BY DEF AgreementInv
  <1>2. /\ end \in 0..MaxReq /\ upto \in 0..MaxReq
        /\ highest_to_commit' = [highest_to_commit EXCEPT ![n] = end]
        /\ highest_committed' = [highest_committed EXCEPT ![n] = upto]
        /\ highest_committed[n] <= upto /\ upto <= end
        /\ cur_view[n] = 0 => upto = highest_committed[n]
        /\ cur_view' = cur_view
        /\ highest_seen' = [highest_seen EXCEPT ![n] = sn]
        /\ db' = [db EXCEPT ![n] = row]
    BY DEF Executed, Keeps
  <1>3. /\ highest_to_commit \in [Node -> 0..MaxReq]
        /\ highest_committed \in [Node -> 0..MaxReq]
        /\ highest_seen \in [Node -> 0..MaxReq]
        /\ db \in [Node -> Row]
        /\ MaxReq \in Nat
    BY CoreOfType, BoundAssumption, SMTT(60) DEF CoreType
  <1>4. LeaderInv'
    BY <1>1, <1>2, <1>3 DEF LeaderInv, RowOK
  <1>5. /\ highest_to_commit[Leader] <= highest_to_commit'[Leader]
        /\ highest_seen[Leader] <= highest_seen'[Leader]
        /\ highest_seen[Leader] \in Nat /\ highest_seen'[Leader] \in Nat
        /\ highest_to_commit[Leader] \in Nat /\ highest_to_commit'[Leader] \in Nat
    BY <1>2, <1>3 DEF RowOK
  <1>6. \A k \in Slot : k <= highest_seen[Leader] => db'[Leader][k] = db[Leader][k]
    BY <1>2, <1>3 DEF RowOK
  <1>7. \A x \in Node :
          /\ highest_committed'[x] <= highest_to_commit'[x]
          /\ highest_to_commit'[x] <= highest_to_commit'[Leader]
          /\ cur_view'[x] = 0 => highest_committed'[x] = 0
    <2> SUFFICES ASSUME NEW x \in Node
                 PROVE  /\ highest_committed'[x] <= highest_to_commit'[x]
                        /\ highest_to_commit'[x] <= highest_to_commit'[Leader]
                        /\ cur_view'[x] = 0 => highest_committed'[x] = 0
      OBVIOUS
    <2>1. /\ highest_committed[x] <= highest_to_commit[x]
          /\ highest_to_commit[x] <= highest_to_commit[Leader]
          /\ cur_view[x] = 0 => highest_committed[x] = 0
      BY <1>1 DEF NodeInv
    <2>2. CASE x = n
      BY <1>2, <1>3, <1>5, <2>1, <2>2, SMTT(60)
    <2>3. CASE x # n
      BY <1>2, <1>3, <1>5, <2>1, <2>3, SMTT(60)
    <2> QED
      BY <2>2, <2>3
  <1>8. \A x \in Node : \A k \in Slot : db'[x][k] # NoRecord =>
              k <= highest_seen'[Leader] /\ db'[x][k].req = db'[Leader][k].req
    <2> SUFFICES ASSUME NEW x \in Node, NEW k \in Slot, db'[x][k] # NoRecord
                 PROVE  k <= highest_seen'[Leader] /\ db'[x][k].req = db'[Leader][k].req
      OBVIOUS
    <2>1. k \in Nat
      BY <1>3 DEF Slot
    <2>2. CASE x = n
      <3>1. db'[x] = row
        BY <1>2, <1>3, <2>2
      <3>2. CASE n = Leader
        BY <1>2, <1>3, <2>2, <3>1, <3>2 DEF RowOK
      <3>3. CASE n # Leader
        BY <1>5, <1>6, <2>1, <3>1, <3>3 DEF RowOK
      <3> QED
        BY <3>2, <3>3
    <2>3. CASE x # n
      <3>1. db'[x][k] = db[x][k]
        BY <1>2, <1>3, <2>3
      <3>2. k <= highest_seen[Leader] /\ db[x][k].req = db[Leader][k].req
        BY <1>1, <3>1 DEF NodeInv
      <3> QED
        BY <1>5, <1>6, <2>1, <3>1, <3>2
    <2> QED
      BY <2>2, <2>3
  <1>9. \A x \in Node :
          /\ Len(delivered'[x]) = highest_committed'[x]
          /\ \A i \in 1..Len(delivered'[x]) : delivered'[x][i].req = db'[Leader][i].req
    <2> SUFFICES ASSUME NEW x \in Node
                 PROVE  /\ Len(delivered'[x]) = highest_committed'[x]
                        /\ \A i \in 1..Len(delivered'[x]) :
                              delivered'[x][i].req = db'[Leader][i].req
      OBVIOUS
    <2>1. /\ Len(delivered[x]) = highest_committed[x]
          /\ highest_committed[x] <= highest_seen[Leader]
          /\ \A i \in 1..Len(delivered[x]) : delivered[x][i].req = db[Leader][i].req
      BY <1>1, <1>3 DEF NodeInv, LeaderInv
    <2>2. \A i \in 1..Len(delivered[x]) : i \in Slot /\ db'[Leader][i] = db[Leader][i]
      <3> SUFFICES ASSUME NEW i \in 1..Len(delivered[x])
                   PROVE  i \in Slot /\ db'[Leader][i] = db[Leader][i]
        OBVIOUS
      <3>1. highest_seen[Leader] \in 0..MaxReq /\ highest_committed[x] \in 0..MaxReq
        BY <1>3
      <3>2. i \in Nat /\ 1 <= i /\ i <= highest_seen[Leader]
        BY <2>1, <3>1
      <3>3. i \in Slot
        BY <1>3, <3>1, <3>2 DEF Slot
      <3> QED
        BY <1>6, <3>2, <3>3
    <2>3. CASE x = n
      <3>1. /\ Len(delivered'[n]) = upto
            /\ \A i \in 1..upto :
                \/ i \in 1..Len(delivered[n]) /\ delivered'[n][i] = delivered[n][i]
                \/ i \in Slot /\ row[i] # NoRecord /\ delivered'[n][i] = row[i]
        BY DEF Executed
      <3>2. ASSUME NEW i \in 1..upto PROVE delivered'[n][i].req = db'[Leader][i].req
        <4>1. CASE i \in 1..Len(delivered[n]) /\ delivered'[n][i] = delivered[n][i]
          BY <2>1, <2>2, <2>3, <4>1
        <4>2. CASE i \in Slot /\ row[i] # NoRecord /\ delivered'[n][i] = row[i]
          <5>1. db'[n][i] = row[i]
            BY <1>2, <1>3
          <5> QED
            BY <1>8, <4>2, <5>1
        <4> QED
          BY <3>1, <4>1, <4>2
      <3> QED
        BY <1>2, <1>3, <2>3, <3>1, <3>2
    <2>4. CASE x # n
      <3>1. delivered'[x] = delivered[x]
        BY <2>4 DEF Executed
      <3>2. highest_committed'[x] = highest_committed[x]
        BY <1>2, <1>3, <2>4
      <3> QED
        BY <2>1, <2>2, <3>1, <3>2
    <2> QED
      BY <2>3, <2>4
  <1>10. NodeInv'
    BY <1>7, <1>8, <1>9 DEF NodeInv
  <1>11. MsgInv'
    <2>1. net' \in Network
      BY DEF Executed
    <2>2. ASSUME NEW c \in Chan, NEW m \in MsgsOf(net', c) PROVE MsgOK(m)'
      <3>1. m \in Msg
        BY <2>1 DEF MsgsOf, Network
      <3>2. m \in MsgsOf(N, c) \/ m.type = "MISSING_REQ"
        BY DEF Executed
      <3>3. CASE m.type = "MISSING_REQ"
        BY <3>3 DEF MsgOK
      <3>4. CASE m \in MsgsOf(N, c)
        BY <1>5, <1>6, <3>1, <3>4, MsgOKStable DEF NetOK
      <3> QED
        BY <3>2, <3>3, <3>4
    <2> QED
      BY <2>2 DEF MsgInv, MsgOK, MsgsOf
  <1>12. CoreType'
    <2>1. delivered' \in [Node -> Seq(Data)] /\ net' \in Network
      BY DEF Executed
    <2>2. /\ highest_to_commit' \in [Node -> 0..MaxReq]
          /\ highest_committed' \in [Node -> 0..MaxReq]
          /\ highest_seen' \in [Node -> 0..MaxReq]
      BY <1>2, <1>3
    <2>3. db' \in [Node -> Row]
      BY <1>2, <1>3
    <2> QED
      BY <2>1, <2>2, <2>3, SMTT(60) DEF CoreType
  <1> QED
    BY <1>4, <1>10, <1>11, <1>12 DEF AgreementInv

(* A step of node n that ends in try_to_execute. *)
LEMMA TryStep ==
    ASSUME TypeOK, AgreementInv,
           NEW n \in Node, NEW tc \in 0..MaxReq, NEW sn \in 0..MaxReq, NEW row \in Row,
           NEW bits, NEW N \in Network,
           try_to_execute(n, tc, sn, row, bits, N),
           Keeps(n, sn, row),
           highest_to_commit[n] <= tc, tc <= highest_to_commit[Leader],
           RowOK(n, sn, row), NetOK(N)
    PROVE  AgreementInv' /\ CoreType'
  <1>1. /\ LeaderInv /\ NodeInv
        /\ highest_to_commit[Leader] \in 0..MaxReq /\ highest_seen[n] \in 0..MaxReq
        /\ highest_seen[Leader] \in 0..MaxReq
        /\ MaxReq \in Nat
    BY NodeAssumption, BoundAssumption DEF TypeOK, AgreementInv
  <1>2. n = Leader => /\ cur_view[n] = 1 /\ tc <= sn
                      /\ \A k \in 1..sn : row[k] # NoRecord
    BY <1>1 DEF LeaderInv, RowOK, Slot
  <1>3. PICK end, upto :
              /\ Executed(n, end, upto, row, N)
              /\ n # Leader => end = tc
              /\ n = Leader => tc <= end /\ end <= sn /\ upto = end
    BY <1>1, <1>2, TryToExecuteFacts
  <1>4. end \in 0..MaxReq
    BY <1>3 DEF Executed
  <1>5. /\ n = Leader => upto = end /\ end <= sn /\ highest_to_commit[n] <= end
        /\ n # Leader => end <= highest_to_commit[Leader]
    BY <1>1, <1>3, <1>4
  <1> QED
    BY <1>3, <1>5, NodeStep

(* A step of node n that does not execute anything. *)
LEMMA QuietStep ==
    ASSUME TypeOK, AgreementInv,
           NEW n \in Node, NEW sn \in 0..MaxReq, NEW row \in Row, NEW N \in Network,
           Keeps(n, sn, row),
           UNCHANGED stamps, net' = N,
           RowOK(n, sn, row), NetOK(N)
    PROVE  AgreementInv' /\ CoreType'
  <1> DEFINE end == highest_to_commit[n]
             upto == highest_committed[n]
  <1>1. /\ LeaderInv /\ NodeInv
        /\ highest_to_commit \in [Node -> 0..MaxReq]
        /\ highest_committed \in [Node -> 0..MaxReq]
        /\ highest_seen \in [Node -> 0..MaxReq]
        /\ delivered \in [Node -> Seq(Data)]
        /\ MaxReq \in Nat
    BY NodeAssumption, BoundAssumption, SMTT(60) DEF TypeOK, AgreementInv
  <1>2. /\ highest_to_commit' = highest_to_commit
        /\ highest_committed' = highest_committed
        /\ delivered' = delivered
    BY DEF stamps
  <1>3. /\ end \in 0..MaxReq /\ upto \in 0..MaxReq
        /\ highest_to_commit' = [highest_to_commit EXCEPT ![n] = end]
        /\ highest_committed' = [highest_committed EXCEPT ![n] = upto]
        /\ highest_committed[n] <= upto /\ upto <= end
        /\ end <= highest_to_commit[Leader]
    BY <1>1, <1>2 DEF NodeInv
  <1>4. /\ Len(delivered'[n]) = upto
        /\ \A i \in 1..upto : i \in 1..Len(delivered[n]) /\ delivered'[n][i] = delivered[n][i]
    BY <1>1, <1>2 DEF NodeInv
  <1>5. Executed(n, end, upto, row, N)
    BY <1>1, <1>2, <1>3, <1>4, ZenonT(120) DEF Executed
  <1>6. n = Leader => upto = end /\ end <= sn /\ highest_to_commit[n] <= end
    BY <1>1, <1>3 DEF LeaderInv, RowOK
  <1> QED
    BY <1>3, <1>5, <1>6, NodeStep
--------------------------------------------------------------------------------
(* The handlers. *)

(* The fields a handler reads have the types that the message set gives them. *)
LEMMA MsgFields ==
    ASSUME NEW m \in Msg
    PROVE  /\ m.type \in {"ACCEPT_REQ", "ACCEPT_ACK", "MISSING_REQ", "MISSING_ACK"} => m.vs \in Slot
           /\ m.type \in {"ACCEPT_REQ", "MISSING_ACK", "FORWARD_REQ"} => m.data \in Data
           /\ m.type = "ACCEPT_REQ" => m.exed \in 0..MaxReq
           /\ m.type = "FORCE_EXEC" => m.committed \in 0..MaxReq
  BY DEF Msg

(* What the build functions of consensus.c make are messages. *)
LEMMA MakeMsg ==
    /\ \A k \in Slot : [type |-> "ACCEPT_ACK", vs |-> k] \in Msg
    /\ \A k \in Slot, e \in 0..MaxReq, d \in Data :
          [type |-> "ACCEPT_REQ", vs |-> k, exed |-> e, data |-> d] \in Msg
    /\ \A k \in Slot, d \in Data : [type |-> "MISSING_ACK", vs |-> k, data |-> d] \in Msg
    /\ \A e \in 0..MaxReq : [type |-> "FORCE_EXEC", committed |-> e] \in Msg
    /\ \A d \in Data : [type |-> "FORWARD_REQ", data |-> d] \in Msg
  BY DEF Msg

(* The row a node has is a row it may keep. *)
LEMMA OwnRow ==
    ASSUME TypeOK, AgreementInv, NEW n \in Node
    PROVE  /\ db[n] \in Row
           /\ db = [db EXCEPT ![n] = db[n]]
           /\ highest_seen[n] \in 0..MaxReq
           /\ highest_seen = [highest_seen EXCEPT ![n] = highest_seen[n]]
           /\ highest_to_commit[n] \in 0..MaxReq
           /\ highest_to_commit[n] <= highest_to_commit[Leader]
           /\ RowOK(n, highest_seen[n], db[n])
           /\ UNCHANGED <<cur_view, highest_seen, db>> => Keeps(n, highest_seen[n], db[n])
  BY DEF TypeOK, AgreementInv, LeaderInv, NodeInv, Row, RowOK, Keeps

(* A copy of a leader's slot may be stored by any other node. *)
LEMMA CopiedRow ==
    ASSUME TypeOK, AgreementInv, NEW n \in Node, n # Leader, NEW sn, NEW k \in Slot,
           NEW d \in Data, k <= highest_seen[Leader], d.req = db[Leader][k].req
    PROVE  /\ [db[n] EXCEPT ![k] = d] \in Row
           /\ RowOK(n, sn, [db[n] EXCEPT ![k] = d])
  <1>1. db[n] \in Row
    BY DEF TypeOK, Row
  <1>2. \A j \in Slot : db[n][j] # NoRecord =>
              j <= highest_seen[Leader] /\ db[n][j].req = db[Leader][j].req
    BY DEF AgreementInv, NodeInv
  <1> QED
    BY <1>1, <1>2 DEF Row, RowOK

(* handle_accept_req preserves the invariant: it stores a copy of the slot of *)
(* the leader, and the commit point it takes over is one of the leader.      *)
LEMMA HandleAcceptReq ==
    ASSUME TypeOK, AgreementInv,
           NEW s \in Node, NEW n \in Node, <<s, n>> \in Chan, <<n, s>> \in Chan, s # n,
           NEW m \in Msg, m.type = "ACCEPT_REQ", MsgOK(m),
           NEW N \in Network, \A c \in Chan : \A x \in MsgsOf(N, c) : MsgOK(x),
           cur_view' = cur_view,
           handle_accept_req(s, n, m, N)
    PROVE  AgreementInv' /\ CoreType'
  <1> USE NodeAssumption, BoundAssumption
  <1>1. /\ m.vs \in Slot /\ m.data \in Data /\ m.exed \in 0..MaxReq
        /\ m.vs <= highest_seen[Leader] /\ m.data.req = db[Leader][m.vs].req
        /\ m.exed <= highest_to_commit[Leader]
    BY MsgFields DEF MsgOK
  <1>2. NetOK(N)
    BY DEF NetOK
  <1>3. CASE (cur_view[n] = 1 /\ s # leader_id(n)) \/ m.vs <= highest_committed[n]
    <2>1. /\ Keeps(n, highest_seen[n], db[n])
          /\ try_to_execute(n, highest_to_commit[n], highest_seen[n], db[n], bit_map, N)
      BY <1>3, OwnRow DEF handle_accept_req
    <2>2. highest_to_commit[n] <= highest_to_commit[n]
      BY OwnRow
    <2> QED
      BY <1>2, <2>1, <2>2, OwnRow, TryStep
  <1>4. CASE ~((cur_view[n] = 1 /\ s # leader_id(n)) \/ m.vs <= highest_committed[n])
    <2> DEFINE seen == Larger(m.vs, highest_seen[n])
               tc   == Larger(m.exed, highest_to_commit[n])
               row  == [db[n] EXCEPT ![m.vs] = m.data]
               ack  == [type |-> "ACCEPT_ACK", vs |-> m.vs]
               A    == send_to_one_node(N, n, s, ack)
    <2>1. n # Leader
      BY <1>4 DEF leader_id, AgreementInv, LeaderInv
    <2>2. seen \in 0..MaxReq /\ tc \in 0..MaxReq
          /\ highest_to_commit[n] <= tc /\ tc <= highest_to_commit[Leader]
      BY <1>1, OwnRow DEF Larger, Slot
    <2>3. row \in Row /\ RowOK(n, seen, row)
      BY <1>1, <2>1, CopiedRow, SMTT(60)
    <2>4. db[n] \in Row /\ RowOK(n, seen, db[n])
      <3>1. db[n] \in Row /\ RowOK(n, highest_seen[n], db[n])
        BY OwnRow
      <3> QED
        BY <2>1, <3>1 DEF RowOK
    <2>5. A \in Network /\ NetOK(A)
      <3>1. ack \in Msg
        BY <1>1, MakeMsg
      <3>2. /\ A \in Network
            /\ MsgsOf(A, <<n, s>>) \subseteq MsgsOf(N, <<n, s>>) \cup {ack}
            /\ \A x \in Chan : x # <<n, s>> => MsgsOf(A, x) = MsgsOf(N, x)
        BY <3>1, SendFacts
      <3>3. MsgOK(ack)
        BY DEF MsgOK
      <3> QED
        BY <3>2, <3>3 DEF NetOK
    <2>6. \/ Keeps(n, seen, row) /\ try_to_execute(n, tc, seen, row, bit_map, A)
          \/ Keeps(n, seen, db[n]) /\ try_to_execute(n, tc, seen, db[n], bit_map, N)
      <3>1. db = [db EXCEPT ![n] = db[n]]
        BY OwnRow
      <3> QED
        BY <1>4, <3>1 DEF handle_accept_req, Keeps
    <2> HIDE DEF seen, tc, row, A
    <2>7. CASE Keeps(n, seen, row) /\ try_to_execute(n, tc, seen, row, bit_map, A)
      BY <2>2, <2>3, <2>5, <2>7, TryStep
    <2>8. CASE Keeps(n, seen, db[n]) /\ try_to_execute(n, tc, seen, db[n], bit_map, N)
      BY <1>2, <2>2, <2>4, <2>8, TryStep
    <2> QED
      BY <2>6, <2>7, <2>8
  <1> QED
    BY <1>3, <1>4

(* try_to_execute after nothing has changed at n but the network. *)
LEMMA IdleTry ==
    ASSUME TypeOK, AgreementInv, NEW n \in Node, NEW bits, NEW N \in Network, NetOK(N),
           UNCHANGED <<cur_view, highest_seen, db>>,
           try_to_execute(n, highest_to_commit[n], highest_seen[n], db[n], bits, N)
    PROVE  AgreementInv' /\ CoreType'
  <1>1. highest_to_commit[n] <= highest_to_commit[n]
    BY OwnRow
  <1> QED
    BY <1>1, OwnRow, TryStep

(* A step that only changes the network. *)
LEMMA IdleStep ==
    ASSUME TypeOK, AgreementInv, NEW n \in Node, NEW N \in Network, NetOK(N),
           UNCHANGED <<cur_view, highest_seen, db>>, UNCHANGED stamps, net' = N
    PROVE  AgreementInv' /\ CoreType'
  BY OwnRow, QuietStep

(* handle_accept_ack preserves the invariant: it only sets a bit and executes. *)
LEMMA HandleAcceptAck ==
    ASSUME TypeOK, AgreementInv, NEW s \in Node, NEW n \in Node, NEW m \in Msg,
           NEW N \in Network, NetOK(N), cur_view' = cur_view,
           handle_accept_ack(s, n, m, N)
    PROVE  AgreementInv' /\ CoreType'
  <1>1. PICK b : try_to_execute(n, highest_to_commit[n], highest_seen[n], db[n], b, N)
    BY DEF handle_accept_ack
  <1>2. UNCHANGED <<cur_view, highest_seen, db>>
    BY DEF handle_accept_ack
  <1> QED
    BY <1>1, <1>2, IdleTry

(* handle_missing_req preserves the invariant: the record it sends is a copy *)
(* of the slot of the leader.                                                *)
LEMMA HandleMissingReq ==
    ASSUME TypeOK, AgreementInv, NEW s \in Node, NEW n \in Node, <<n, s>> \in Chan,
           NEW m \in Msg, m.type = "MISSING_REQ",
           NEW N \in Network, NetOK(N), cur_view' = cur_view,
           handle_missing_req(s, n, m, N)
    PROVE  AgreementInv' /\ CoreType'
  <1>1. UNCHANGED <<cur_view, highest_seen, db>> /\ UNCHANGED stamps
    BY DEF handle_missing_req
  <1>2. m.vs \in Slot
    BY MsgFields
  <1>3. CASE db[n][m.vs] = NoRecord
    BY <1>1, <1>3, IdleStep DEF handle_missing_req
  <1>4. CASE db[n][m.vs] # NoRecord
    <2>1. PICK same \in BOOLEAN :
            net' = send_to_one_node(N, n, s,
                      [type |-> "MISSING_ACK", vs |-> m.vs,
                       data |-> [db[n][m.vs] EXCEPT !.intact = db[n][m.vs].intact /\ same]])
      BY <1>4, ZenonT(120) DEF handle_missing_req
    <2> DEFINE d == [db[n][m.vs] EXCEPT !.intact = db[n][m.vs].intact /\ same]
               r == [type |-> "MISSING_ACK", vs |-> m.vs, data |-> d]
    <2>2. db[n][m.vs] \in Data
      BY <1>2, <1>4 DEF TypeOK
    <2>3. d \in Data /\ d.req = db[n][m.vs].req
      BY <2>2 DEF Data
    <2>4. m.vs <= highest_seen[Leader] /\ db[n][m.vs].req = db[Leader][m.vs].req
      BY <1>2, <1>4 DEF AgreementInv, NodeInv
    <2> HIDE DEF d
    <2>5. r \in Msg /\ MsgOK(r)
      BY <1>2, <2>3, <2>4, MakeMsg DEF MsgOK
    <2>6. net' = send_to_one_node(N, n, s, r)
      BY <2>1 DEF d
    <2> HIDE DEF r
    <2>7. /\ net' \in Network
          /\ MsgsOf(net', <<n, s>>) \subseteq MsgsOf(N, <<n, s>>) \cup {r}
          /\ \A x \in Chan : x # <<n, s>> => MsgsOf(net', x) = MsgsOf(N, x)
      BY <2>5, <2>6, SendFacts
    <2>8. NetOK(net')
      BY <2>5, <2>7 DEF NetOK
    <2> QED
      BY <1>1, <2>7, <2>8, IdleStep
  <1> QED
    BY <1>3, <1>4

(* handle_missing_ack preserves the invariant: it fills an empty slot with a *)
(* copy of the slot of the leader.                                           *)
LEMMA HandleMissingAck ==
    ASSUME TypeOK, AgreementInv, NEW s \in Node, NEW n \in Node,
           NEW m \in Msg, m.type = "MISSING_ACK", MsgOK(m),
           NEW N \in Network, NetOK(N), cur_view' = cur_view,
           handle_missing_ack(s, n, m, N)
    PROVE  AgreementInv' /\ CoreType'
  <1>1. /\ m.vs \in Slot /\ m.data \in Data
        /\ m.vs <= highest_seen[Leader] /\ m.data.req = db[Leader][m.vs].req
    BY MsgFields DEF MsgOK
  <1>2. highest_seen' = highest_seen
    BY DEF handle_missing_ack
  <1>3. CASE net' = N /\ UNCHANGED <<stamps, db>>
    BY <1>2, <1>3, IdleStep
  <1>4. CASE UNCHANGED db /\ try_to_execute(n, highest_to_commit[n], highest_seen[n], db[n], bit_map, N)
    BY <1>2, <1>4, IdleTry
  <1> DEFINE row == [db[n] EXCEPT ![m.vs] = m.data]
  <1>5. CASE /\ db[n][m.vs] = NoRecord
             /\ db' = [db EXCEPT ![n] = row]
             /\ try_to_execute(n, highest_to_commit[n], highest_seen[n], row, bit_map, N)
    <2>1. n # Leader
      BY <1>1, <1>5 DEF AgreementInv, LeaderInv
    <2>2. row \in Row /\ RowOK(n, highest_seen[n], row)
      BY <1>1, <2>1, CopiedRow, SMTT(60)
    <2>3. Keeps(n, highest_seen[n], row)
      BY <1>2, <1>5, OwnRow DEF Keeps
    <2>4. highest_to_commit[n] <= highest_to_commit[n]
      BY OwnRow
    <2> HIDE DEF row
    <2> QED
      BY <1>5, <2>2, <2>3, <2>4, OwnRow, TryStep
  <1> QED
    BY <1>3, <1>4, <1>5 DEF handle_missing_ack

(* handle_force_exec preserves the invariant: the commit point it takes over *)
(* is one that the leader has reached.                                       *)
LEMMA HandleForceExec ==
    ASSUME TypeOK, AgreementInv, NEW s \in Node, NEW n \in Node,
           NEW m \in Msg, m.type = "FORCE_EXEC", MsgOK(m),
           NEW N \in Network, NetOK(N), cur_view' = cur_view,
           handle_force_exec(s, n, m, N)
    PROVE  AgreementInv' /\ CoreType'
  <1>1. m.committed \in 0..MaxReq /\ m.committed <= highest_to_commit[Leader]
    BY MsgFields DEF MsgOK
  <1>2. UNCHANGED <<cur_view, highest_seen, db>>
    BY DEF handle_force_exec
  <1>3. CASE net' = N /\ UNCHANGED stamps
    BY <1>2, <1>3, IdleStep
  <1>4. CASE /\ highest_to_commit[n] < m.committed
             /\ try_to_execute(n, m.committed, highest_seen[n], db[n], bit_map, N)
    <2>1. highest_to_commit[n] <= m.committed
      BY <1>1, <1>4, OwnRow, BoundAssumption
    <2> QED
      BY <1>1, <1>2, <1>4, <2>1, OwnRow, TryStep
  <1> QED
    BY <1>3, <1>4 DEF handle_force_exec

(* The leader puts a new request in its next slot. *)
LEMMA LeaderSubmit ==
    ASSUME TypeOK, AgreementInv, NEW data \in Data,
           NEW N \in Network, \A c \in Chan : \A x \in MsgsOf(N, c) : MsgOK(x),
           cur_view' = cur_view,
           leader_handle_submit_req(Leader, data, N)
    PROVE  AgreementInv' /\ CoreType'
  <1> USE NodeAssumption, BoundAssumption
  <1> DEFINE next == highest_seen[Leader] + 1
             row  == [db[Leader] EXCEPT ![next] = data]
             bits == [bit_map EXCEPT ![next] = node_bit(Leader)]
  <1>1. /\ highest_seen \in [Node -> 0..MaxReq] /\ db \in [Node -> Row]
        /\ highest_to_commit \in [Node -> 0..MaxReq]
        /\ LeaderInv
    BY DEF TypeOK, AgreementInv, Row
  <1>2. next <= MaxReq /\ next \in Slot /\ next \in 0..MaxReq
    BY <1>1 DEF leader_handle_submit_req, Slot
  <1>3. data # NoRecord
    BY RecordAssumption
  <1>4. row \in Row /\ RowOK(Leader, next, row)
    <2>1. row \in Row
      BY <1>1, <1>2 DEF Row
    <2>2. \A k \in Slot : row[k] = IF k = next THEN data ELSE db[Leader][k]
      BY <1>1, <1>2 DEF Row
    <2>3. \A k \in Slot : k \in Nat
      BY DEF Slot
    <2>4. \A k \in Slot : db[Leader][k] # NoRecord <=> k <= highest_seen[Leader]
      BY <1>1 DEF LeaderInv
    <2>5. highest_seen[Leader] \in Nat
      BY <1>1
    <2> HIDE DEF row
    <2> QED
      BY <1>3, <2>1, <2>2, <2>3, <2>4, <2>5 DEF RowOK
  <1>5. NetOK(N)
    BY DEF NetOK
  <1>6. CASE /\ highest_seen' = [highest_seen EXCEPT ![Leader] = next]
             /\ db' = [db EXCEPT ![Leader] = row]
             /\ net' = send_to_other_nodes(N, Leader, <<build_accept_req(Leader, next, data)>>)
             /\ UNCHANGED stamps
    <2> DEFINE r == build_accept_req(Leader, next, data)
    <2>1. r = [type |-> "ACCEPT_REQ", vs |-> next, exed |-> highest_to_commit[Leader], data |-> data]
      BY DEF build_accept_req
    <2>2. r \in Msg
      BY <1>1, <1>2, <2>1, MakeMsg
    <2>3. /\ highest_seen'[Leader] = next /\ db'[Leader][next] = data
          /\ highest_to_commit'[Leader] = highest_to_commit[Leader]
      BY <1>1, <1>2, <1>6 DEF stamps, Row
    <2>4. ASSUME NEW m, m = r PROVE MsgOK(m)'
      <3>1. /\ m.type = "ACCEPT_REQ" /\ m.vs = next /\ m.data = data
            /\ m.exed = highest_to_commit[Leader]
        BY <2>1, <2>4
      <3> QED
        BY <1>1, <1>2, <2>3, <3>1 DEF MsgOK
    <2> HIDE DEF r
    <2> DEFINE ms == <<r>>
    <2>5. ms \in Seq(Msg) /\ \A i \in 1..Len(ms) : ms[i] = r
      BY <2>2
    <2>6. /\ net' \in Network
          /\ \A x \in Chan : MsgsOf(net', x) \subseteq MsgsOf(N, x) \cup {r}
      <3>1. net' = send_to_other_nodes(N, Leader, ms)
        BY <1>6 DEF r
      <3> HIDE DEF ms
      <3>2. /\ net' \in Network
            /\ \A x \in Chan : MsgsOf(net', x) \subseteq
                                MsgsOf(N, x) \cup {ms[i] : i \in 1..Len(ms)}
        BY <2>5, <3>1, BroadcastFacts
      <3> QED
        BY <2>5, <3>2
    <2>7. NetOK(net')
      BY <2>4, <2>6 DEF NetOK
    <2>8. Keeps(Leader, next, row)
      BY <1>6 DEF Keeps
    <2> HIDE DEF next, row
    <2> QED
      BY <1>2, <1>4, <1>6, <2>6, <2>7, <2>8, QuietStep
  <1>7. CASE /\ highest_seen' = [highest_seen EXCEPT ![Leader] = next]
             /\ db' = [db EXCEPT ![Leader] = row]
             /\ try_to_execute(Leader, highest_to_commit[Leader], next, row, bits, N)
    <2>1. Keeps(Leader, next, row)
      BY <1>7 DEF Keeps
    <2>2. highest_to_commit[Leader] \in 0..MaxReq
          /\ highest_to_commit[Leader] <= highest_to_commit[Leader]
      BY <1>1
    <2> HIDE DEF next, row, bits
    <2> QED
      BY <1>2, <1>4, <1>5, <1>7, <2>1, <2>2, TryStep
  <1>8. CASE net' = N /\ UNCHANGED <<highest_seen, db, stamps>>
    BY <1>5, <1>8, IdleStep
  <1> QED
    BY <1>6, <1>7, <1>8 DEF leader_handle_submit_req

(* A client request handed to any node preserves the invariant, whether it is *)
(* given a slot or forwarded.                                                *)
LEMMA SubmitStep ==
    ASSUME TypeOK, AgreementInv, NEW n \in Node, NEW r \in Request,
           consensus_submit_request(n, r)
    PROVE  AgreementInv' /\ CoreType'
  <1> USE NodeAssumption
  <1> DEFINE data == [req |-> r, intact |-> TRUE]
  <1>1. data \in Data /\ cur_view' = cur_view /\ cur_view[n] = 1
    BY DEF Data, consensus_submit_request
  <1>2. net \in Network
    BY DEF TypeOK, Network
  <1>3. \A c \in Chan : \A x \in MsgsOf(net, c) : MsgOK(x)
    BY DEF AgreementInv, MsgInv, MsgsOf
  <1>4. CASE n = Leader
    BY <1>1, <1>2, <1>3, <1>4, LeaderSubmit DEF consensus_submit_request
  <1>5. CASE n # Leader
    <2> DEFINE m == [type |-> "FORWARD_REQ", data |-> data]
    <2>1. /\ net' = send_to_one_node(net, n, Leader, m)
          /\ UNCHANGED <<cur_view, highest_seen, db>> /\ UNCHANGED stamps
      BY <1>1, <1>5 DEF consensus_submit_request, leader_id
    <2>2. m \in Msg /\ MsgOK(m)
      <3> HIDE DEF data
      <3>1. m \in Msg
        BY <1>1, MakeMsg
      <3> QED
        BY <3>1 DEF MsgOK
    <2>3. <<n, Leader>> \in Chan
      BY <1>5 DEF Chan
    <2> HIDE DEF m
    <2>4. /\ net' \in Network
          /\ MsgsOf(net', <<n, Leader>>) \subseteq MsgsOf(net, <<n, Leader>>) \cup {m}
          /\ \A x \in Chan : x # <<n, Leader>> => MsgsOf(net', x) = MsgsOf(net, x)
      BY <1>2, <2>1, <2>2, <2>3, SendFacts
    <2>5. NetOK(net')
      BY <1>3, <2>2, <2>4 DEF NetOK
    <2> QED
      BY <2>1, <2>4, <2>5, IdleStep
  <1> QED
    BY <1>4, <1>5

(* A handled message is taken off its connection and given to the handler of  *)
(* its type.                                                                 *)
LEMMA HandleMsgCases ==
    ASSUME NEW s, NEW n, consensus_handle_msg(s, n)
    PROVE  LET m == Head(net[<<s, n>>])
               N == Dequeue(net, <<s, n>>)
           IN  \/ m.type = "ACCEPT_REQ"  /\ handle_accept_req(s, n, m, N)
               \/ m.type = "ACCEPT_ACK"  /\ handle_accept_ack(s, n, m, N)
               \/ m.type = "MISSING_REQ" /\ handle_missing_req(s, n, m, N)
               \/ m.type = "MISSING_ACK" /\ handle_missing_ack(s, n, m, N)
               \/ m.type = "FORCE_EXEC"  /\ handle_force_exec(s, n, m, N)
               \/ m.type = "FORWARD_REQ" /\ handle_forward_req(s, n, m, N)
  BY ZenonT(120) DEF consensus_handle_msg, Dequeue

(* Handling a message of any type preserves the invariant. *)
LEMMA MessageStep ==
    ASSUME TypeOK, AgreementInv, NEW s \in Node, NEW n \in Node, s # n,
           consensus_handle_msg(s, n)
    PROVE  AgreementInv' /\ CoreType'
  <1> USE NodeAssumption
  <1> DEFINE c == <<s, n>>
             m == Head(net[c])
             N == Dequeue(net, c)
  <1>1. <<s, n>> \in Chan /\ <<n, s>> \in Chan
    BY DEF Chan
  <1>2. net[c] # <<>> /\ cur_view' = cur_view
    BY DEF consensus_handle_msg
  <1>3. \/ m.type = "ACCEPT_REQ"  /\ handle_accept_req(s, n, m, N)
        \/ m.type = "ACCEPT_ACK"  /\ handle_accept_ack(s, n, m, N)
        \/ m.type = "MISSING_REQ" /\ handle_missing_req(s, n, m, N)
        \/ m.type = "MISSING_ACK" /\ handle_missing_ack(s, n, m, N)
        \/ m.type = "FORCE_EXEC"  /\ handle_force_exec(s, n, m, N)
        \/ m.type = "FORWARD_REQ" /\ handle_forward_req(s, n, m, N)
    BY HandleMsgCases
  <1>4. net \in Network /\ c \in Chan
    BY <1>1 DEF TypeOK, Network
  <1>5. /\ N \in Network /\ m \in Msg
        /\ \A x \in Chan : MsgsOf(N, x) \subseteq MsgsOf(net, x)
        /\ m \in MsgsOf(net, c)
    <2> HIDE DEF c
    <2> QED
      BY <1>2, <1>4, DequeueFacts
  <1>6. \A x \in Chan : \A y \in MsgsOf(net, x) : MsgOK(y)
    BY DEF AgreementInv, MsgInv, MsgsOf
  <1> HIDE DEF m, N, c
  <1>7. MsgOK(m) /\ (\A x \in Chan : \A y \in MsgsOf(N, x) : MsgOK(y)) /\ NetOK(N)
    <2>1. MsgOK(m)
      BY <1>4, <1>5, <1>6
    <2>2. \A x \in Chan : \A y \in MsgsOf(N, x) : MsgOK(y)
      BY <1>5, <1>6
    <2> QED
      BY <2>1, <2>2 DEF NetOK
  <1>8. CASE m.type = "ACCEPT_REQ" /\ handle_accept_req(s, n, m, N)
    BY <1>1, <1>2, <1>5, <1>7, <1>8, HandleAcceptReq
  <1>9. CASE m.type = "ACCEPT_ACK" /\ handle_accept_ack(s, n, m, N)
    BY <1>2, <1>5, <1>7, <1>9, HandleAcceptAck
  <1>10. CASE m.type = "MISSING_REQ" /\ handle_missing_req(s, n, m, N)
    BY <1>1, <1>2, <1>5, <1>7, <1>10, HandleMissingReq
  <1>11. CASE m.type = "MISSING_ACK" /\ handle_missing_ack(s, n, m, N)
    BY <1>2, <1>5, <1>7, <1>11, HandleMissingAck
  <1>12. CASE m.type = "FORCE_EXEC" /\ handle_force_exec(s, n, m, N)
    BY <1>2, <1>5, <1>7, <1>12, HandleForceExec
  <1>13. CASE m.type = "FORWARD_REQ" /\ handle_forward_req(s, n, m, N)
    <2>1. m.data \in Data
      BY <1>5, <1>13, MsgFields
    <2>2. CASE n = Leader
      BY <1>2, <1>5, <1>7, <1>13, <2>1, <2>2, LeaderSubmit DEF handle_forward_req
    <2>3. CASE n # Leader
      <3>1. net' = N /\ UNCHANGED <<cur_view, highest_seen, db>> /\ UNCHANGED stamps
        BY <1>2, <1>13, <2>3 DEF handle_forward_req
      <3> QED
        BY <1>5, <1>7, <3>1, IdleStep
    <2> QED
      BY <2>2, <2>3
  <1> QED
    BY <1>3, <1>8, <1>9, <1>10, <1>11, <1>12, <1>13

(* The messages of consensus_make_progress. *)
LEMMA ProgressMsgs ==
    ASSUME TypeOK, AgreementInv, NEW end \in 0..MaxReq, NEW again \in Ascending(Unagreed(end)),
           NEW ms, ms = build_progress_msgs(again, end, end)
    PROVE  /\ ms \in Seq(Msg)
           /\ \A i \in 1..Len(ms) :
                 \/ /\ ms[i].type = "ACCEPT_REQ" /\ ms[i].exed = end
                    /\ ms[i].vs \in Slot /\ ms[i].vs <= highest_seen[Leader]
                    /\ ms[i].data = db[Leader][ms[i].vs]
                 \/ ms[i].type = "FORCE_EXEC" /\ ms[i].committed = end
  <1> USE NodeAssumption, BoundAssumption
  <1> DEFINE S == Unagreed(end)
             sn == highest_seen[Leader]
             row == db[Leader]
             A == [i \in DOMAIN again |-> [type |-> "ACCEPT_REQ", vs |-> again[i],
                                           exed |-> end, data |-> row[again[i]]]]
             F == <<[type |-> "FORCE_EXEC", committed |-> end]>>
  <1>1. sn \in 0..MaxReq /\ row \in Row /\ \A k \in Slot : row[k] # NoRecord <=> k <= sn
    BY DEF TypeOK, AgreementInv, LeaderInv, Row
  <1>2. S \in SUBSET Slot /\ \A k \in S : k <= sn
    BY <1>1 DEF Slot, Unagreed
  <1>3. again \in Seq(S) /\ DOMAIN again = 1..Len(again) /\ Len(again) \in Nat
    BY <1>2, AscendingFacts
  <1>4. ms = A \o F
    BY DEF build_progress_msgs
  <1>5. ASSUME NEW i \in 1..Len(again)
        PROVE  again[i] \in Slot /\ again[i] <= sn /\ row[again[i]] \in Data
    <2>1. again[i] \in S
      BY <1>3
    <2>2. again[i] \in Slot /\ again[i] <= sn
      BY <1>2, <2>1
    <2> QED
      BY <1>1, <2>2 DEF Row
  <1>6. \A i \in DOMAIN again : A[i] \in Msg
    <2> SUFFICES ASSUME NEW i \in DOMAIN again PROVE A[i] \in Msg
      OBVIOUS
    <2>1. again[i] \in Slot /\ row[again[i]] \in Data
      BY <1>3, <1>5
    <2>2. A[i] = [type |-> "ACCEPT_REQ", vs |-> again[i], exed |-> end, data |-> row[again[i]]]
      OBVIOUS
    <2> HIDE DEF row, A
    <2> QED
      BY <2>1, <2>2, MakeMsg
  <1>7. /\ A \in Seq(Msg) /\ Len(A) = Len(again)
        /\ \A i \in 1..Len(A) : /\ A[i].type = "ACCEPT_REQ" /\ A[i].exed = end
                                /\ A[i].vs = again[i] /\ A[i].data = row[again[i]]
    <2>1. A = [i \in 1..Len(again) |-> A[i]]
      BY <1>3
    <2>2. \A i \in 1..Len(again) :
             /\ A[i].type = "ACCEPT_REQ" /\ A[i].exed = end
             /\ A[i].vs = again[i] /\ A[i].data = row[again[i]]
      BY <1>3
    <2> HIDE DEF A, row
    <2>3. A \in Seq(Msg) /\ Len(A) = Len(again)
      BY <1>3, <1>6, <2>1
    <2> QED
      BY <2>2, <2>3
  <1>8. /\ F \in Seq(Msg)
        /\ \A i \in 1..Len(F) : F[i].type = "FORCE_EXEC" /\ F[i].committed = end
    <2>1. [type |-> "FORCE_EXEC", committed |-> end] \in Msg
      BY MakeMsg
    <2> QED
      BY <2>1
  <1> HIDE DEF A, F, row, sn
  <1>9. A \in Seq(Msg) /\ F \in Seq(Msg) /\ Len(A) \in Nat /\ Len(F) \in Nat
    BY <1>7, <1>8
  <1>10. /\ A \o F \in Seq(Msg)
         /\ Len(A \o F) = Len(A) + Len(F)
         /\ \A i \in 1..Len(A \o F) :
               (A \o F)[i] = IF i <= Len(A) THEN A[i] ELSE F[i - Len(A)]
    BY <1>9, ConcatFacts
  <1>11. ASSUME NEW i \in 1..Len(ms)
         PROVE  \/ /\ ms[i].type = "ACCEPT_REQ" /\ ms[i].exed = end
                   /\ ms[i].vs \in Slot /\ ms[i].vs <= sn
                   /\ ms[i].data = row[ms[i].vs]
                \/ ms[i].type = "FORCE_EXEC" /\ ms[i].committed = end
    <2>1. CASE i <= Len(A)
      <3>1. i \in 1..Len(A) /\ ms[i] = A[i]
        BY <1>4, <1>9, <1>10, <2>1
      <3> QED
        BY <1>5, <1>7, <3>1
    <2>2. CASE ~(i <= Len(A))
      <3>1. i - Len(A) \in 1..Len(F) /\ ms[i] = F[i - Len(A)]
        BY <1>4, <1>9, <1>10, <2>2
      <3> QED
        BY <1>8, <3>1
    <2> QED
      BY <2>1, <2>2
  <1> QED
    BY <1>4, <1>10, <1>11 DEF sn, row

(* What a run of the make-progress timer does, once the leader's loop stopped *)
(* at end, it has executed up to upto and found the slots again unagreed.     *)
Effect(end, upto, again) ==
    /\ highest_to_commit' = [highest_to_commit EXCEPT ![Leader] = end]
    /\ highest_committed' = [highest_committed EXCEPT ![Leader] = upto]
    /\ delivered' = deliver_msg_data(Leader, upto, db[Leader])
    /\ net' = send_to_other_nodes(net, Leader, build_progress_msgs(again, end, upto))

(* A run of the make-progress timer has this effect for some end of its loop. *)
LEMMA ProgressEffect ==
    ASSUME consensus_make_progress
    PROVE  \E end \in leader_try_to_execute(Leader, highest_to_commit[Leader],
                                            highest_seen[Leader], bit_map) :
           \E upto \in {IF highest_committed[Leader] = highest_to_commit[Leader]
                       THEN end ELSE highest_committed[Leader]} :
           \E again \in Ascending(Unagreed(upto)) : Effect(end, upto, again)
  BY ZenonT(120) DEF consensus_make_progress, Effect

(* The make-progress timer preserves the invariant: it executes as the leader *)
(* and sends only slots and commit points of the leader.                     *)
LEMMA ProgressStep ==
    ASSUME TypeOK, AgreementInv, consensus_make_progress
    PROVE  AgreementInv' /\ CoreType'
  <1> USE NodeAssumption, BoundAssumption
  <1> DEFINE tc == highest_to_commit[Leader]
             sn == highest_seen[Leader]
             row == db[Leader]
  <1>1. /\ tc \in 0..MaxReq /\ sn \in 0..MaxReq /\ row \in Row
        /\ highest_committed[Leader] = tc /\ tc <= sn
        /\ \A k \in Slot : row[k] # NoRecord <=> k <= sn
        /\ NodeInv /\ net \in Network
    BY DEF TypeOK, AgreementInv, LeaderInv, Row, Network
  <1>2. UNCHANGED <<cur_view, highest_seen, db>>
    BY DEF consensus_make_progress
  <1>3. PICK end \in leader_try_to_execute(Leader, tc, sn, bit_map) :
          \E upto \in {IF highest_committed[Leader] = tc
                      THEN end ELSE highest_committed[Leader]} :
          \E again \in Ascending(Unagreed(upto)) : Effect(end, upto, again)
    BY ProgressEffect
  <1>4. PICK again \in Ascending(Unagreed(end)) : Effect(end, end, again)
    BY <1>1, <1>3
  <1>5. end \in 0..MaxReq /\ tc <= end /\ end <= sn
    <2>1. end \in LoopExit(tc, sn, {k \in Slot : reached_quorum(bit_map[k])})
      BY DEF leader_try_to_execute
    <2>2. end \in Nat /\ tc <= end /\ (end = tc \/ end <= sn)
      BY <1>1, <2>1, LoopExitFacts
    <2> QED
      BY <1>1, <2>2
  <1>6. \A k \in (tc + 1)..end : row[k] # NoRecord
    BY <1>1, <1>5 DEF Slot
  <1>7. /\ delivered' \in [Node -> Seq(Data)]
        /\ \A x \in Node : x # Leader => delivered'[x] = delivered[x]
        /\ Len(delivered'[Leader]) = end
        /\ \A i \in 1..end :
              \/ i \in 1..Len(delivered[Leader]) /\ delivered'[Leader][i] = delivered[Leader][i]
              \/ i \in Slot /\ row[i] # NoRecord /\ delivered'[Leader][i] = row[i]
    <2>1. highest_committed[Leader] <= end
          /\ \A k \in (highest_committed[Leader] + 1)..end : row[k] # NoRecord
      BY <1>1, <1>5, <1>6
    <2>2. delivered' = deliver_msg_data(Leader, end, row)
      BY <1>4 DEF Effect
    <2> HIDE DEF row
    <2> QED
      BY <1>1, <1>5, <2>1, <2>2, DeliverFacts, SMTT(60)
  <1> DEFINE ms == build_progress_msgs(again, end, end)
  <1>8. /\ ms \in Seq(Msg)
        /\ \A i \in 1..Len(ms) :
              \/ /\ ms[i].type = "ACCEPT_REQ" /\ ms[i].exed = end
                 /\ ms[i].vs \in Slot /\ ms[i].vs <= sn
                 /\ ms[i].data = row[ms[i].vs]
              \/ ms[i].type = "FORCE_EXEC" /\ ms[i].committed = end
    BY <1>5, ProgressMsgs
  <1>9. net' = send_to_other_nodes(net, Leader, ms)
    BY <1>4 DEF Effect
  <1> HIDE DEF ms
  <1>10. /\ net' \in Network
         /\ \A x \in Chan : MsgsOf(net', x) \subseteq
                             MsgsOf(net, x) \cup {ms[i] : i \in 1..Len(ms)}
    BY <1>1, <1>8, <1>9, BroadcastFacts
  <1>11. /\ highest_to_commit' = [highest_to_commit EXCEPT ![Leader] = end]
         /\ highest_committed' = [highest_committed EXCEPT ![Leader] = end]
    BY <1>4 DEF Effect
  <1>12. /\ highest_seen'[Leader] = sn /\ db'[Leader] = row
         /\ highest_to_commit'[Leader] = end
    BY <1>2, <1>11 DEF TypeOK
  <1>13. NetOK(net')
    <2> SUFFICES ASSUME NEW x \in Chan, NEW m \in MsgsOf(net', x)
                 PROVE  MsgOK(m) \/ MsgOK(m)'
      BY DEF NetOK
    <2>1. CASE m \in MsgsOf(net, x)
      BY <2>1 DEF AgreementInv, MsgInv, MsgsOf
    <2>2. CASE \E i \in 1..Len(ms) : m = ms[i]
      <3> HIDE DEF row, sn
      <3>1. CASE m.type = "FORCE_EXEC" /\ m.committed = end
        BY <1>5, <1>12, <3>1 DEF MsgOK
      <3>2. CASE /\ m.type = "ACCEPT_REQ" /\ m.exed = end
                 /\ m.vs \in Slot /\ m.vs <= sn
                 /\ m.data = row[m.vs]
        BY <1>5, <1>12, <3>2 DEF MsgOK
      <3> QED
        BY <1>8, <2>2, <3>1, <3>2
    <2> QED
      BY <1>10, <2>1, <2>2
  <1>14. Executed(Leader, end, end, row, net')
    <2>1. cur_view[Leader] = 1 /\ highest_committed[Leader] <= end /\ end <= end
      BY <1>1, <1>5 DEF AgreementInv, LeaderInv
    <2>2. cur_view[Leader] = 0 => end = highest_committed[Leader]
      BY <2>1
    <2>3. /\ net' \in Network
          /\ \A c \in Chan : \A m \in MsgsOf(net', c) :
                m \in MsgsOf(net', c) \/ m.type = "MISSING_REQ"
      BY <1>10
    <2> HIDE DEF row
    <2>4. /\ end \in 0..MaxReq
          /\ Len(delivered'[Leader]) = end
          /\ delivered' \in [Node -> Seq(Data)]
          /\ \A x \in Node : x # Leader => delivered'[x] = delivered[x]
      BY <1>5, <1>7
    <2>5. \A i \in 1..end :
             \/ i \in 1..Len(delivered[Leader]) /\ delivered'[Leader][i] = delivered[Leader][i]
             \/ i \in Slot /\ row[i] # NoRecord /\ delivered'[Leader][i] = row[i]
      BY <1>7
    <2> QED
      BY <1>11, <2>1, <2>2, <2>3, <2>4, <2>5 DEF Executed
  <1>15. RowOK(Leader, sn, row) /\ Keeps(Leader, sn, row)
    BY <1>2, OwnRow
  <1> QED
    <2>1. end = end /\ end <= sn /\ highest_to_commit[Leader] <= end
      BY <1>5
    <2>2. net' \in Network
      BY <1>10
    <2> HIDE DEF row, sn
    <2> QED
      BY <1>1, <1>13, <1>14, <1>15, <2>1, <2>2, NodeStep

(* A lost message leaves only messages that were in the network before. *)
LEMMA LoseStep ==
    ASSUME TypeOK, AgreementInv, NEW c \in Chan, LoseMsg(c)
    PROVE  AgreementInv' /\ CoreType'
  <1>1. /\ net[c] # <<>> /\ net' = Dequeue(net, c)
        /\ UNCHANGED <<cur_view, highest_seen, db>> /\ UNCHANGED stamps
    BY ZenonT(120) DEF LoseMsg, Dequeue
  <1>2. net \in Network
    BY DEF TypeOK, Network
  <1>3. net' \in Network /\ \A x \in Chan : MsgsOf(net', x) \subseteq MsgsOf(net, x)
    BY <1>1, <1>2, DequeueFacts
  <1>4. \A x \in Chan : \A y \in MsgsOf(net, x) : MsgOK(y)
    BY DEF AgreementInv, MsgInv, MsgsOf
  <1>5. NetOK(net')
    BY <1>3, <1>4 DEF NetOK
  <1> QED
    BY <1>1, <1>3, <1>5, NodeAssumption, IdleStep

(* Node n starts to count from 0, with its row of the database at row. *)
Resets(n, row) ==
    /\ cur_view'[Leader] = cur_view[Leader]
    /\ \A x \in Node : x # n => cur_view'[x] = cur_view[x]
    /\ highest_seen' = [highest_seen EXCEPT ![n] = 0]
    /\ highest_to_commit' = [highest_to_commit EXCEPT ![n] = 0]
    /\ highest_committed' = [highest_committed EXCEPT ![n] = 0]
    /\ delivered' = [delivered EXCEPT ![n] = <<>>]
    /\ db' = [db EXCEPT ![n] = row]

(* A secondary that joins the view, or starts again, counts from 0 and has  *)
(* delivered nothing; it keeps some of its records.  The leader is not      *)
(* touched, so what the messages say of the leader stays right.             *)
LEMMA ResetStep ==
    ASSUME TypeOK, AgreementInv, NEW n \in Node, n # Leader,
           NEW row \in Row, Resets(n, row),
           \A k \in Slot : row[k] # NoRecord => row[k] = db[n][k],
           net' \in Network,
           \A c \in Chan : MsgsOf(net', c) \subseteq MsgsOf(net, c)
    PROVE  AgreementInv' /\ CoreType'
  <1> USE NodeAssumption, BoundAssumption DEF Resets
  <1>1. /\ highest_seen \in [Node -> 0..MaxReq] /\ highest_to_commit \in [Node -> 0..MaxReq]
        /\ highest_committed \in [Node -> 0..MaxReq] /\ db \in [Node -> Row]
        /\ delivered \in [Node -> Seq(Data)]
    BY CoreOfType DEF CoreType
  <1>2. CoreType'
    BY <1>1 DEF CoreType
  <1>3. LeaderInv /\ NodeInv /\ MsgInv
    BY DEF AgreementInv
  <1>4. /\ highest_seen'[Leader] = highest_seen[Leader]
        /\ highest_to_commit'[Leader] = highest_to_commit[Leader]
        /\ highest_committed'[Leader] = highest_committed[Leader]
        /\ db'[Leader] = db[Leader]
    BY <1>1
  <1>5. LeaderInv'
    BY <1>3, <1>4 DEF LeaderInv
  <1>6. NodeInv'
    <2> SUFFICES ASSUME NEW x \in Node
        PROVE  /\ highest_committed'[x] <= highest_to_commit'[x]
               /\ highest_to_commit'[x] <= highest_to_commit'[Leader]
               /\ cur_view'[x] = 0 => highest_committed'[x] = 0
               /\ Len(delivered'[x]) = highest_committed'[x]
               /\ \A i \in 1..Len(delivered'[x]) : delivered'[x][i].req = db'[Leader][i].req
               /\ \A k \in Slot : db'[x][k] # NoRecord =>
                     k <= highest_seen'[Leader] /\ db'[x][k].req = db'[Leader][k].req
      BY DEF NodeInv
    <2>1. CASE x = n
      <3>1. /\ highest_committed'[x] = 0 /\ highest_to_commit'[x] = 0
            /\ delivered'[x] = <<>> /\ db'[x] = row
        BY <1>1, <2>1
      <3>2. \A k \in Slot : row[k] # NoRecord =>
                     k <= highest_seen[Leader] /\ row[k].req = db[Leader][k].req
        BY <1>3 DEF NodeInv
      <3>3. highest_to_commit[Leader] \in 0..MaxReq /\ Len(<<>>) = 0
        BY <1>1
      <3> QED
        BY <1>4, <3>1, <3>2, <3>3
    <2>2. CASE x # n
      <3>1. /\ highest_committed'[x] = highest_committed[x]
            /\ highest_to_commit'[x] = highest_to_commit[x]
            /\ delivered'[x] = delivered[x] /\ db'[x] = db[x] /\ cur_view'[x] = cur_view[x]
        BY <1>1, <2>2
      <3> QED
        BY <1>3, <1>4, <3>1 DEF NodeInv
    <2> QED
      BY <2>1, <2>2
  <1>7. MsgInv'
    <2>1. ASSUME NEW m, MsgOK(m) PROVE MsgOK(m)'
      BY <1>4, <2>1 DEF MsgOK
    <2>2. \A c \in Chan : \A m \in MsgsOf(net, c) : MsgOK(m)
      BY <1>3 DEF MsgInv, MsgsOf
    <2>3. \A c \in Chan : \A m \in MsgsOf(net', c) : MsgOK(m)'
      BY <2>1, <2>2
    <2> QED
      BY <2>3 DEF MsgInv, MsgsOf
  <1> QED
    BY <1>2, <1>5, <1>6, <1>7 DEF AgreementInv

(* A ping that brings a node into view 1 preserves the invariant: a node in  *)
(* view 0 has executed nothing, so resetting its counters loses nothing.     *)
LEMMA JoinStep ==
    ASSUME TypeOK, AgreementInv, NEW n \in Node, n # Leader, handle_ping_req(n)
    PROVE  AgreementInv' /\ CoreType'
  <1> USE NodeAssumption
  <1>1. /\ cur_view'[Leader] = cur_view[Leader]
        /\ \A x \in Node : x # n => cur_view'[x] = cur_view[x]
    BY DEF TypeOK, handle_ping_req
  <1>2. /\ highest_seen' = [highest_seen EXCEPT ![n] = 0]
        /\ highest_to_commit' = [highest_to_commit EXCEPT ![n] = 0]
        /\ highest_committed' = [highest_committed EXCEPT ![n] = 0]
    BY DEF handle_ping_req
  <1>3. delivered' = delivered /\ db' = db /\ net' = net /\ cur_view[n] = 0
    BY DEF handle_ping_req
  <1>4. delivered = [delivered EXCEPT ![n] = <<>>]
    <2>1. delivered[n] \in Seq(Data) /\ Len(delivered[n]) = 0
      BY <1>3 DEF TypeOK, AgreementInv, NodeInv
    <2>2. delivered[n] = <<>>
      BY <2>1
    <2> QED
      BY <2>2 DEF TypeOK
  <1>5. db[n] \in Row /\ db' = [db EXCEPT ![n] = db[n]]
    BY <1>3, OwnRow
  <1>6. net' \in Network /\ \A c \in Chan : MsgsOf(net', c) \subseteq MsgsOf(net, c)
    BY <1>3 DEF TypeOK, Network
  <1>7. \A k \in Slot : db[n][k] # NoRecord => db[n][k] = db[n][k]
    OBVIOUS
  <1>8. delivered' = [delivered EXCEPT ![n] = <<>>]
    BY <1>4, <1>3
  <1>9. Resets(n, db[n])
    BY <1>1, <1>2, <1>5, <1>8 DEF Resets
  <1> QED
    BY <1>5, <1>6, <1>7, <1>9, ResetStep

(* A restart preserves the invariant, whichever records the node has kept. *)
LEMMA CrashStep ==
    ASSUME TypeOK, AgreementInv, NEW n \in Node, n # Leader, NEW kept, Reinitialize(n, kept)
    PROVE  AgreementInv' /\ CoreType'
  <1> USE NodeAssumption
  <1> DEFINE row == [k \in Slot |-> IF k \in kept THEN db[n][k] ELSE NoRecord]
  <1>1. /\ cur_view'[Leader] = cur_view[Leader]
        /\ \A x \in Node : x # n => cur_view'[x] = cur_view[x]
    BY DEF TypeOK, Reinitialize
  <1>2. /\ highest_seen' = [highest_seen EXCEPT ![n] = 0]
        /\ highest_to_commit' = [highest_to_commit EXCEPT ![n] = 0]
        /\ highest_committed' = [highest_committed EXCEPT ![n] = 0]
        /\ delivered' = [delivered EXCEPT ![n] = <<>>]
        /\ db' = [db EXCEPT ![n] = row]
    BY DEF Reinitialize
  <1>3. row \in Row
    BY DEF TypeOK, Row
  <1>4. \A k \in Slot : row[k] # NoRecord => row[k] = db[n][k]
    OBVIOUS
  <1>5. net' \in Network /\ \A c \in Chan : MsgsOf(net', c) \subseteq MsgsOf(net, c)
    <2>1. net' = [c \in Chan |-> IF c[2] = n THEN <<>> ELSE net[c]] /\ net \in Network
      BY DEF Reinitialize, TypeOK, Network
    <2>2. <<>> \in Seq(Msg) /\ Len(<<>>) = 0
      OBVIOUS
    <2>3. net' \in Network
      BY <2>1, <2>2 DEF Network
    <2>4. ASSUME NEW c \in Chan PROVE MsgsOf(net', c) \subseteq MsgsOf(net, c)
      <3>1. net'[c] = <<>> \/ net'[c] = net[c]
        BY <2>1
      <3> QED
        BY <2>2, <3>1 DEF MsgsOf
    <2> QED
      BY <2>3, <2>4
  <1> HIDE DEF row
  <1>6. Resets(n, row)
    BY <1>1, <1>2 DEF Resets
  <1> QED
    BY <1>3, <1>4, <1>5, <1>6, ResetStep

--------------------------------------------------------------------------------
(* The variables that AgreementInv does not speak of. *)
Maps == [Slot -> SUBSET (0..(MAP_BITS - 1))]

RestType ==
    /\ cur_view \in [Node -> 0..1]
    /\ bit_map \in Maps
    /\ submitted \subseteq Request
    /\ faults \in Nat
    /\ outages \in Nat

(* Every bit that 1<<id sets is a bit of bit_map. *)
LEMMA NodeBits ==
    \A n \in Node : node_bit(n) \in SUBSET (0..(MAP_BITS - 1))
  <1> SUFFICES ASSUME NEW n \in Node PROVE node_bit(n) \in SUBSET (0..(MAP_BITS - 1))
    OBVIOUS
  <1>1. n \in Nat
    BY NodeAssumption, SizeAssumption
  <1>2. n % INT_BITS \in 0..(INT_BITS - 1)
    BY <1>1, SizeAssumption
  <1> QED
    BY <1>2, SizeAssumption DEF node_bit

(* A new request keeps the types of the bit maps and of the fault counter. *)
LEMMA SubmitRest ==
    ASSUME RestType, NEW data, NEW N, leader_handle_submit_req(Leader, data, N)
    PROVE  bit_map' \in Maps /\ faults' \in Nat
  <1> DEFINE next == highest_seen[Leader] + 1
  <1>1. \/ bit_map' = [bit_map EXCEPT ![next] = node_bit(Leader)]
        \/ bit_map' = bit_map
    BY DEF leader_handle_submit_req
  <1>2. faults' = faults \/ faults' = faults + 1
    BY DEF leader_handle_submit_req, StoreFails
  <1>3. node_bit(Leader) \in SUBSET (0..(MAP_BITS - 1))
    BY NodeBits, NodeAssumption
  <1> HIDE DEF next
  <1> QED
    BY <1>1, <1>2, <1>3 DEF RestType, Maps

(* Handling a message keeps the types of the variables outside CoreType. *)
LEMMA MessageRest ==
    ASSUME RestType, NEW s \in Node, NEW n \in Node, consensus_handle_msg(s, n)
    PROVE  RestType'
  <1> DEFINE m == Head(net[<<s, n>>])
             N == [net EXCEPT ![<<s, n>>] = Tail(@)]
  <1>1. /\ cur_view' = cur_view /\ submitted' = submitted /\ outages' = outages
        /\ \/ handle_accept_req(s, n, m, N)
           \/ handle_accept_ack(s, n, m, N)
           \/ handle_missing_req(s, n, m, N)
           \/ handle_missing_ack(s, n, m, N)
           \/ handle_force_exec(s, n, m, N)
           \/ handle_forward_req(s, n, m, N)
    BY ZenonT(120) DEF consensus_handle_msg
  <1> HIDE DEF m, N
  <1>2. CASE \/ handle_accept_req(s, n, m, N)
             \/ handle_missing_req(s, n, m, N)
             \/ handle_missing_ack(s, n, m, N)
             \/ handle_force_exec(s, n, m, N)
    <2>1. bit_map' = bit_map /\ (faults' = faults \/ faults' = faults + 1)
      BY <1>2 DEF handle_accept_req, handle_missing_req, handle_missing_ack,
                  handle_force_exec, StoreFails
    <2> QED
      BY <1>1, <2>1 DEF RestType
  <1>3. CASE handle_accept_ack(s, n, m, N)
    <2>1. /\ \/ bit_map' = bit_map
             \/ bit_map' = [bit_map EXCEPT ![m.vs] = @ \cup node_bit(s)]
          /\ faults' = faults \/ faults' = faults + 1
      BY <1>3 DEF handle_accept_ack, StoreFails
    <2>2. bit_map' \in Maps
      BY <2>1, NodeBits DEF RestType, Maps
    <2>3. faults' \in Nat
      BY <2>1 DEF RestType
    <2> QED
      BY <1>1, <2>2, <2>3 DEF RestType
  <1>4. CASE handle_forward_req(s, n, m, N)
    <2>1. CASE n = Leader
      <3>1. leader_handle_submit_req(Leader, m.data, N)
        BY <1>4, <2>1 DEF handle_forward_req
      <3> QED
        BY <1>1, <3>1, SubmitRest DEF RestType
    <2>2. CASE n # Leader
      BY <1>1, <1>4, <2>2 DEF handle_forward_req, RestType
    <2> QED
      BY <2>1, <2>2
  <1> QED
    BY <1>1, <1>2, <1>3, <1>4

(* A submission keeps the types of the variables outside CoreType. *)
LEMMA ClientRest ==
    ASSUME RestType, NEW n \in Node, NEW r \in Request, consensus_submit_request(n, r)
    PROVE  RestType'
  <1>1. /\ cur_view' = cur_view /\ outages' = outages
        /\ submitted' = submitted \cup {r}
    BY DEF consensus_submit_request
  <1>2. CASE n = Leader
    <2>1. PICK data : leader_handle_submit_req(Leader, data, net)
      BY <1>2, ZenonT(120) DEF consensus_submit_request
    <2> QED
      BY <1>1, <2>1, SubmitRest DEF RestType
  <1>3. CASE n # Leader
    <2>1. bit_map' = bit_map /\ faults' = faults
      BY <1>3 DEF consensus_submit_request
    <2> QED
      BY <1>1, <2>1 DEF RestType
  <1> QED
    BY <1>2, <1>3

(* Joining a view and restarting keep the types outside CoreType. *)
LEMMA ResetRest ==
    ASSUME RestType, NEW n \in Node,
           NEW v \in 0..1, cur_view' = [cur_view EXCEPT ![n] = v],
           bit_map' = bit_map, submitted' = submitted,
           faults' = faults \/ faults' = faults + 1,
           outages' = outages \/ outages' = outages + 1
    PROVE  RestType'
  BY DEF RestType
--------------------------------------------------------------------------------
(* The inductive invariant holds when the group starts. *)
LEMMA InitInv == Init => TypeOK /\ AgreementInv
  <1> SUFFICES ASSUME Init PROVE TypeOK /\ AgreementInv
    OBVIOUS
  <1> USE NodeAssumption, BoundAssumption, SizeAssumption
  <1>1. <<>> \in Seq(Data) /\ <<>> \in Seq(Msg) /\ Len(<<>>) = 0
    OBVIOUS
  <1>2. TypeOK
    BY <1>1 DEF Init, TypeOK
  <1>3. LeaderInv
    BY DEF Init, LeaderInv, Slot
  <1>4. NodeInv
    BY <1>1 DEF Init, NodeInv
  <1>5. MsgInv
    BY <1>1 DEF Init, MsgInv
  <1> QED
    BY <1>2, <1>3, <1>4, <1>5 DEF AgreementInv

(* Every step of the component preserves the inductive invariant. *)
LEMMA NextInv ==
    ASSUME TypeOK, AgreementInv, [Next]_vars
    PROVE  TypeOK' /\ AgreementInv'
  <1>1. RestType
    BY DEF TypeOK, RestType, Maps
  <1>2. SUFFICES (AgreementInv' /\ CoreType') /\ RestType'
    BY DEF TypeOK, CoreType, RestType, Maps, Row, Network
  <1>3. CASE \E n \in Entry, r \in Request : consensus_submit_request(n, r)
    BY <1>1, <1>3, EntryAssumption, SubmitStep, ClientRest
  <1>4. CASE \E c \in Chan : consensus_handle_msg(c[1], c[2])
    <2>1. PICK c \in Chan : consensus_handle_msg(c[1], c[2])
      BY <1>4
    <2>2. c[1] \in Node /\ c[2] \in Node /\ c[1] # c[2]
      BY DEF Chan
    <2> QED
      BY <1>1, <2>1, <2>2, MessageStep, MessageRest
  <1>5. CASE consensus_make_progress
    <2>1. RestType'
      BY <1>1, <1>5 DEF consensus_make_progress, RestType
    <2> QED
      BY <1>5, <2>1, ProgressStep
  <1>6. CASE \E n \in Node \ {Leader} : handle_ping_req(n)
    <2>1. PICK n \in Node \ {Leader} : handle_ping_req(n)
      BY <1>6
    <2>2. /\ cur_view' = [cur_view EXCEPT ![n] = 1] /\ bit_map' = bit_map
          /\ submitted' = submitted /\ faults' = faults /\ outages' = outages
      BY <2>1 DEF handle_ping_req
    <2>3. RestType'
      BY <1>1, <2>2 DEF RestType
    <2> QED
      BY <2>1, <2>3, JoinStep
  <1>7. CASE \E c \in Chan : LoseMsg(c)
    <2>1. PICK c \in Chan : LoseMsg(c)
      BY <1>7
    <2>2. RestType'
      BY <1>1, <2>1 DEF LoseMsg, RestType
    <2> QED
      BY <2>1, <2>2, LoseStep
  <1>8. CASE \E n \in Node \ {Leader} : Restart(n) \/ PowerLoss(n)
    <2>1. PICK n \in Node \ {Leader} : Restart(n) \/ PowerLoss(n)
      BY <1>8
    <2>2. /\ \E kept : Reinitialize(n, kept)
          /\ faults' = faults \/ faults' = faults + 1
          /\ outages' = outages \/ outages' = outages + 1
      BY <2>1 DEF Restart, PowerLoss
    <2>3. PICK kept : Reinitialize(n, kept)
      BY <2>2
    <2>4. RestType'
      BY <1>1, <2>2, <2>3 DEF Reinitialize, RestType
    <2> QED
      BY <2>3, <2>4, CrashStep
  <1>9. CASE UNCHANGED vars
    <2>1. UNCHANGED <<cur_view, highest_seen, db>> /\ UNCHANGED stamps /\ net' = net
          /\ UNCHANGED <<bit_map, submitted, faults, outages>>
      BY <1>9 DEF vars, stamps
    <2>2. net \in Network /\ NetOK(net)
      BY DEF TypeOK, Network, AgreementInv, MsgInv, MsgsOf, NetOK
    <2>3. RestType'
      BY <1>1, <2>1 DEF RestType
    <2> QED
      BY <2>1, <2>2, <2>3, NodeAssumption, IdleStep
  <1> QED
    BY <1>3, <1>4, <1>5, <1>6, <1>7, <1>8, <1>9 DEF Next

(* The inductive invariant holds in every reachable state. *)
THEOREM Invariance == Spec => [](TypeOK /\ AgreementInv)
  <1>1. Init => TypeOK /\ AgreementInv
    BY InitInv
  <1>2. (TypeOK /\ AgreementInv) /\ [Next]_vars => (TypeOK /\ AgreementInv)'
    BY NextInv
  <1> QED
    BY <1>1, <1>2, PTL DEF Spec

(* Type correctness: whatever is lost, resent or restarted, the counters,   *)
(* databases, bit maps and connections of consensus.c keep their types.     *)
THEOREM TypeCorrect == Spec => []TypeOK
  BY Invariance, PTL

(* Agreement (TypeOK and the inductive invariant imply it): every node's    *)
(* deliveries are a prefix of the leader's, for every group, number of      *)
(* requests and number of faults.                                           *)
THEOREM AgreementHolds == Spec => []Agreement
  <1>1. TypeOK /\ AgreementInv => Agreement
    <2> SUFFICES ASSUME TypeOK, AgreementInv, NEW n \in Node
        PROVE  /\ Len(delivered[n]) <= Len(delivered[Leader])
               /\ \A i \in 1..Len(delivered[n]) :
                     delivered[n][i].req = delivered[Leader][i].req
      BY DEF Agreement
    <2>1. /\ Len(delivered[n]) = highest_committed[n]
          /\ Len(delivered[Leader]) = highest_committed[Leader]
          /\ highest_committed[n] \in 0..MaxReq /\ highest_committed[Leader] \in 0..MaxReq
          /\ highest_to_commit[n] \in 0..MaxReq
          /\ highest_committed[n] <= highest_to_commit[n]
          /\ highest_to_commit[n] <= highest_committed[Leader]
      BY NodeAssumption DEF TypeOK, AgreementInv, LeaderInv, NodeInv
    <2>2. Len(delivered[n]) <= Len(delivered[Leader])
      BY <2>1, BoundAssumption
    <2>3. ASSUME NEW i \in 1..Len(delivered[n])
          PROVE  delivered[n][i].req = delivered[Leader][i].req
      <3>1. i \in 1..Len(delivered[Leader])
        BY <2>1, <2>2, BoundAssumption
      <3> QED
        BY <3>1, NodeAssumption DEF AgreementInv, NodeInv
    <2> QED
      BY <2>2, <2>3
  <1> QED
    BY <1>1, Invariance, PTL

(* The assertion of leader_try_to_execute never fails. *)
THEOREM LeaderRecordHolds == Spec => []LeaderRecordPresent
  <1>1. TypeOK /\ AgreementInv => LeaderRecordPresent
    <2> SUFFICES ASSUME TypeOK, AgreementInv PROVE LeaderRecordPresent
      OBVIOUS
    <2>1. highest_seen[Leader] \in 0..MaxReq
      BY NodeAssumption DEF TypeOK
    <2>2. \A k \in 1..highest_seen[Leader] : k \in Slot /\ db[Leader][k] # NoRecord
      BY <2>1, BoundAssumption DEF AgreementInv, LeaderInv, Slot
    <2> QED
      BY <2>2 DEF AgreementInv, LeaderInv, LeaderRecordPresent, Stored
  <1> QED
    BY <1>1, Invariance, PTL
================================================================================
