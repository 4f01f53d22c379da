--------------------------- MODULE ConsensusLogProofs --------------------------
(***************************************************************************)
(* TLAPS proofs about Consensus that rest on the inductive invariant of    *)
(* ConsensusProofs: what one step may change, and from it that a slot is   *)
(* stable, that what is executed is stored by a majority, that nothing is  *)
(* executed twice, and that the component implements CommittedLog.         *)
(***************************************************************************)
EXTENDS ConsensusProofs

USE DEF build_accept_ack, build_missing_req, build_missing_ack, build_force_exec,
        build_forward_req, forward_submit_req, update_view, consensus_update_role

(* What a step may do to the databases: a record changes only at a node     *)
(* other than the leader, by a host crash or an ACCEPT_REQ; a record that   *)
(* is new at the leader is the client's, or was forwarded.                  *)
DbStep ==
    \A n \in Node, k \in Slot :
        \/ db'[n][k] = db[n][k]
        \/ n # Leader /\ outages' # outages /\ db'[n][k] = NoRecord
        \/ n # Leader /\ \E c \in Chan : \E m \in MsgsOf(net, c) :
               m.type = "ACCEPT_REQ" /\ m.vs = k /\ db'[n][k] = m.data
        \/ n # Leader /\ db[n][k] = NoRecord
        \/ /\ n = Leader /\ db[n][k] = NoRecord
           /\ \/ db'[n][k].intact
              \/ \E c \in Chan : \E m \in MsgsOf(net, c) :
                    m.type = "FORWARD_REQ" /\ db'[n][k] = m.data

(* The messages a step may send on connection c: an ACCEPT_REQ carries the  *)
(* leader's record, an ACCEPT_ACK speaks of a record that its sender holds, *)
(* a FORWARD_REQ has the client's bytes.                                    *)
NewMsg(c, m) ==
    \/ m.type \in {"MISSING_REQ", "MISSING_ACK", "FORCE_EXEC"}
    \/ m.type = "ACCEPT_REQ" /\ m.vs \in Slot /\ m.data = db'[Leader][m.vs]
    \/ m.type = "ACCEPT_ACK" /\ m.vs \in Slot /\ db'[c[1]][m.vs] # NoRecord
    \/ m.type = "FORWARD_REQ" /\ m.data.intact

NetStep ==
    \A c \in Chan : \A m \in MsgsOf(net', c) : m \in MsgsOf(net, c) \/ NewMsg(c, m)

(* The bits a step may set: the leader's own in a new slot, or those of a   *)
(* node whose ACCEPT_ACK is being handled.                                  *)
BitStep ==
    \A k \in Slot :
        \/ bit_map'[k] = bit_map[k]
        \/ /\ k > highest_seen[Leader] /\ db'[Leader][k] # NoRecord
           /\ bit_map'[k] = node_bit(Leader)
        \/ \E s \in Node : <<s, Leader>> \in Chan /\ \E m \in MsgsOf(net, <<s, Leader>>) :
              /\ m.type = "ACCEPT_ACK" /\ m.vs = k
              /\ bit_map'[k] = bit_map[k] \cup node_bit(s)

(* How far the nodes have executed: one node goes on, or a node other than  *)
(* the leader starts again.                                                 *)
CommitStep ==
    \E n \in Node :
        /\ \A x \in Node : x # n => highest_committed'[x] = highest_committed[x]
        /\ \/ highest_committed[n] <= highest_committed'[n]
           \/ n # Leader /\ highest_committed'[n] = 0

(* The leader raises its commit point only over slots with a quorum. *)
QuorumStep ==
    \A k \in (highest_to_commit[Leader] + 1)..highest_to_commit'[Leader] :
        reached_quorum(bit_map'[k])

StepOK == DbStep /\ NetStep /\ BitStep /\ CommitStep /\ QuorumStep

(* What is left to a handler that ends in try_to_execute, or does not       *)
(* execute: how it counts, and which messages it adds to the network N.     *)
Handled(n, N) ==
    /\ CommitStep /\ QuorumStep
    /\ \A c \in Chan : \A m \in MsgsOf(net', c) :
          m \in MsgsOf(N, c) \/ m.type = "MISSING_REQ"

(* A handler that ends in try_to_execute. *)
LEMMA TryHandled ==
    ASSUME TypeOK, AgreementInv,
           NEW n \in Node, NEW tc \in 0..MaxReq, NEW sn \in 0..MaxReq, NEW row \in Row,
           NEW N \in Network,
           try_to_execute(n, tc, sn, row, bit_map', N),
           highest_to_commit[n] <= tc, n = Leader => tc = highest_to_commit[n],
           RowOK(n, sn, row)
    PROVE  Handled(n, N)
  <1>1. /\ LeaderInv /\ NodeInv
        /\ highest_to_commit \in [Node -> 0..MaxReq]
        /\ highest_committed \in [Node -> 0..MaxReq]
        /\ highest_seen[n] \in 0..MaxReq
        /\ Leader \in Node /\ MaxReq \in Nat
    BY NodeAssumption, BoundAssumption DEF TypeOK, AgreementInv
  <1>2. n = Leader => /\ cur_view[n] = 1 /\ tc <= sn
                      /\ \A k \in 1..sn : row[k] # NoRecord
    BY <1>1 DEF LeaderInv, RowOK, Slot
  <1>3. PICK end, upto :
              /\ Executed(n, end, upto, row, N)
              /\ n # Leader => end = tc
              /\ n = Leader => /\ tc <= end /\ end <= sn /\ upto = end
                               /\ \A k \in (tc + 1)..end : reached_quorum(bit_map'[k])
    BY <1>1, <1>2, TryToExecuteFacts
  <1>4. /\ end \in 0..MaxReq /\ upto \in 0..MaxReq
        /\ highest_to_commit' = [highest_to_commit EXCEPT ![n] = end]
        /\ highest_committed' = [highest_committed EXCEPT ![n] = upto]
        /\ highest_committed[n] <= upto
        /\ \A c \in Chan : \A m \in MsgsOf(net', c) :
              m \in MsgsOf(N, c) \/ m.type = "MISSING_REQ"
    BY <1>3 DEF Executed
  <1>5. CommitStep
    BY <1>1, <1>4 DEF CommitStep
  <1>6. QuorumStep
    <2>1. CASE n = Leader
      BY <1>1, <1>3, <1>4, <2>1 DEF QuorumStep
    <2>2. CASE n # Leader
      <3>1. highest_to_commit'[Leader] = highest_to_commit[Leader]
        BY <1>1, <1>4, <2>2
      <3> QED
        BY <1>1, <3>1 DEF QuorumStep
    <2> QED
      BY <2>1, <2>2
  <1> QED
    BY <1>4, <1>5, <1>6 DEF Handled

(* A handler that does not execute. *)
LEMMA QuietHandled ==
    ASSUME TypeOK, NEW n \in Node, UNCHANGED stamps
    PROVE  Handled(n, net')
  <1>1. /\ highest_to_commit' = highest_to_commit
        /\ highest_committed' = highest_committed
        /\ highest_to_commit[Leader] \in 0..MaxReq /\ highest_committed[n] \in 0..MaxReq
        /\ MaxReq \in Nat
    BY NodeAssumption, BoundAssumption DEF stamps, TypeOK
  <1>2. CommitStep
    BY <1>1 DEF CommitStep
  <1>3. QuorumStep
    BY <1>1 DEF QuorumStep
  <1> QED
    BY <1>2, <1>3 DEF Handled
--------------------------------------------------------------------------------
(* What row node n may be left with by a handler: see DbStep. *)
RowStep(n, row) ==
    \A k \in Slot :
        \/ row[k] = db[n][k]
        \/ n # Leader /\ \E c \in Chan : \E m \in MsgsOf(net, c) :
               m.type = "ACCEPT_REQ" /\ m.vs = k /\ row[k] = m.data
        \/ n # Leader /\ db[n][k] = NoRecord
        \/ /\ n = Leader /\ db[n][k] = NoRecord
           /\ \/ row[k].intact
              \/ \E c \in Chan : \E m \in MsgsOf(net, c) :
                    m.type = "FORWARD_REQ" /\ row[k] = m.data

(* A handler at node n does what a step may do, if it does so to its row and *)
(* to the messages it leaves.                                                *)
LEMMA HandlerStep ==
    ASSUME TypeOK, NEW n \in Node, NEW row, NEW N, Handled(n, N), BitStep,
           db' = [db EXCEPT ![n] = row], RowStep(n, row),
           \A x \in Chan : \A y \in MsgsOf(N, x) : y \in MsgsOf(net, x) \/ NewMsg(x, y)
    PROVE  StepOK
  <1>1. NetStep
    BY DEF NetStep, Handled, NewMsg
  <1>2. DbStep
    <2> SUFFICES ASSUME NEW x \in Node, NEW k \in Slot
        PROVE \/ db'[x][k] = db[x][k]
              \/ x # Leader /\ outages' # outages /\ db'[x][k] = NoRecord
              \/ x # Leader /\ \E d \in Chan : \E y \in MsgsOf(net, d) :
                     y.type = "ACCEPT_REQ" /\ y.vs = k /\ db'[x][k] = y.data
              \/ x # Leader /\ db[x][k] = NoRecord
              \/ /\ x = Leader /\ db[x][k] = NoRecord
                 /\ \/ db'[x][k].intact
                    \/ \E d \in Chan : \E y \in MsgsOf(net, d) :
                          y.type = "FORWARD_REQ" /\ db'[x][k] = y.data
      BY DEF DbStep
    <2>1. db \in [Node -> [Slot -> Data \cup {NoRecord}]]
      BY DEF TypeOK
    <2>2. CASE x # n
      <3>1. db'[x] = db[x]
        BY <2>1, <2>2
      <3> QED
        BY <3>1
    <2>3. CASE x = n
      <3>1. db'[x] = row
        BY <2>1, <2>3
      <3> QED
        BY <2>3, <3>1 DEF RowStep
    <2> QED
      BY <2>2, <2>3
  <1> QED
    BY <1>1, <1>2 DEF StepOK, Handled

(* The row a node has is a row it may be left with, and bit maps may stay.   *)
LEMMA SameStep ==
    ASSUME TypeOK, NEW n \in Node
    PROVE  /\ RowStep(n, db[n])
           /\ bit_map' = bit_map => BitStep
           /\ db = [db EXCEPT ![n] = db[n]]
  BY DEF TypeOK, RowStep, BitStep

(* handle_accept_req: the ACCEPT_ACK is sent only once the record is stored.  *)
LEMMA AcceptReqStep ==
    ASSUME TypeOK, AgreementInv,
           NEW s \in Node, NEW n \in Node, s # n, <<s, n>> \in Chan, <<n, s>> \in Chan,
           NEW m \in MsgsOf(net, <<s, n>>), m \in Msg, m.type = "ACCEPT_REQ", MsgOK(m),
           NEW N \in Network, \A x \in Chan : MsgsOf(N, x) \subseteq MsgsOf(net, x),
           handle_accept_req(s, n, m, N)
    PROVE  StepOK
  <1> DEFINE c == <<s, n>>
  <1>1. /\ m.vs \in Slot /\ m.data \in Data /\ m.exed \in 0..MaxReq
        /\ m.vs <= highest_seen[Leader] /\ m.data.req = db[Leader][m.vs].req
        /\ m.exed <= highest_to_commit[Leader]
    BY MsgFields DEF MsgOK
  <1>2. c \in Chan /\ m \in MsgsOf(net, c) /\ bit_map' = bit_map /\ BitStep
    BY SameStep DEF handle_accept_req
  <1>3. db \in [Node -> Row]
    BY DEF TypeOK, Row
  <1>4. \A x \in Chan : \A y \in MsgsOf(N, x) : y \in MsgsOf(net, x) \/ NewMsg(x, y)
    OBVIOUS
  <1> HIDE DEF c
  <1>5. CASE (cur_view[n] = 1 /\ s # leader_id(n)) \/ m.vs <= highest_committed[n]
    <2>1. /\ db' = [db EXCEPT ![n] = db[n]]
          /\ try_to_execute(n, highest_to_commit[n], highest_seen[n], db[n], bit_map', N)
      <3>1. try_to_execute(n, highest_to_commit[n], highest_seen[n], db[n], bit_map, N)
            /\ db' = db
        BY <1>5 DEF handle_accept_req
      <3> QED
        BY <1>2, <3>1, SameStep
    <2>2. highest_to_commit[n] <= highest_to_commit[n]
      BY OwnRow, BoundAssumption
    <2>3. Handled(n, N)
      BY <2>1, <2>2, OwnRow, TryHandled
    <2>4. RowStep(n, db[n])
      BY SameStep
    <2> QED
      BY <1>2, <1>4, <2>1, <2>3, <2>4, HandlerStep
  <1>6. CASE ~((cur_view[n] = 1 /\ s # leader_id(n)) \/ m.vs <= highest_committed[n])
    <2> DEFINE seen == Larger(m.vs, highest_seen[n])
               tc   == Larger(m.exed, highest_to_commit[n])
               row  == [db[n] EXCEPT ![m.vs] = m.data]
               ack  == [type |-> "ACCEPT_ACK", vs |-> m.vs]
               A    == send_to_one_node(N, n, s, ack)
    <2>1. n # Leader
      BY <1>6, NodeAssumption DEF leader_id, AgreementInv, LeaderInv
    <2>2. seen \in 0..MaxReq /\ tc \in 0..MaxReq /\ highest_to_commit[n] <= tc
      BY <1>1, OwnRow, BoundAssumption DEF Larger, Slot
    <2>3. row \in Row /\ RowOK(n, seen, row)
      BY <1>1, <2>1, CopiedRow, SMTT(60)
    <2>4. db[n] \in Row /\ RowOK(n, seen, db[n])
      <3>1. db[n] \in Row /\ RowOK(n, highest_seen[n], db[n])
        BY OwnRow
      <3> QED
        BY <2>1, <3>1 DEF RowOK
    <2>5. /\ A \in Network
          /\ MsgsOf(A, <<n, s>>) \subseteq MsgsOf(N, <<n, s>>) \cup {ack}
          /\ \A x \in Chan : x # <<n, s>> => MsgsOf(A, x) = MsgsOf(N, x)
      <3>1. ack \in Msg
        BY <1>1, MakeMsg
      <3> QED
        BY <3>1, SendFacts
    <2>6. \/ /\ db' = [db EXCEPT ![n] = row]
             /\ try_to_execute(n, tc, seen, row, bit_map', A)
          \/ /\ db' = db
             /\ try_to_execute(n, tc, seen, db[n], bit_map', N)
      <3>1. \/ /\ db' = [db EXCEPT ![n] = row]
               /\ try_to_execute(n, tc, seen, row, bit_map, A)
            \/ /\ db' = db
               /\ try_to_execute(n, tc, seen, db[n], bit_map, N)
        BY <1>6 DEF handle_accept_req
      <3> HIDE DEF row, tc, seen, A
      <3> QED
        BY <1>2, <3>1
    <2>7. RowStep(n, row)
      <3>1. \A k \in Slot : row[k] = IF k = m.vs THEN m.data ELSE db[n][k]
        BY <1>1, <1>3 DEF Row
      <3> HIDE DEF row
      <3> QED
        BY <1>2, <2>1, <3>1 DEF RowStep
    <2> HIDE DEF seen, tc, A
    <2>8. CASE /\ db' = [db EXCEPT ![n] = row]
               /\ try_to_execute(n, tc, seen, row, bit_map', A)
      <3>1. db'[n][m.vs] = m.data /\ m.data # NoRecord
        BY <1>1, <1>3, <2>8, RecordAssumption DEF Row
      <3>2. NewMsg(<<n, s>>, ack)
        BY <1>1, <3>1 DEF NewMsg
      <3> HIDE DEF row, ack
      <3>3. Handled(n, A)
        BY <2>1, <2>2, <2>3, <2>5, <2>8, TryHandled
      <3>4. \A x \in Chan : \A y \in MsgsOf(A, x) : y \in MsgsOf(net, x) \/ NewMsg(x, y)
        BY <1>4, <2>5, <3>2
      <3> QED
        BY <1>2, <2>7, <2>8, <3>3, <3>4, HandlerStep
    <2>9. CASE /\ db' = db
               /\ try_to_execute(n, tc, seen, db[n], bit_map', N)
      <3>1. Handled(n, N)
        BY <2>1, <2>2, <2>4, <2>9, TryHandled
      <3>2. db' = [db EXCEPT ![n] = db[n]] /\ RowStep(n, db[n])
        BY <2>9, SameStep
      <3> QED
        BY <1>2, <1>4, <3>1, <3>2, HandlerStep
    <2> QED
      BY <2>6, <2>8, <2>9
  <1> QED
    BY <1>5, <1>6

(* handle_accept_ack sets the bits of the node whose ACCEPT_ACK it handles.  *)
LEMMA AcceptAckStep ==
    ASSUME TypeOK, AgreementInv,
           NEW s \in Node, NEW n \in Node, <<s, n>> \in Chan,
           NEW m \in MsgsOf(net, <<s, n>>), m \in Msg, m.type = "ACCEPT_ACK",
           NEW N \in Network, \A x \in Chan : MsgsOf(N, x) \subseteq MsgsOf(net, x),
           handle_accept_ack(s, n, m, N)
    PROVE  StepOK
  <1> DEFINE c == <<s, n>>
             bits == [bit_map EXCEPT ![m.vs] = @ \cup node_bit(s)]
  <1>1. /\ try_to_execute(n, highest_to_commit[n], highest_seen[n], db[n], bit_map', N)
        /\ db' = db
        /\ bit_map' = bit_map \/ (n = Leader /\ bit_map' = bits)
    BY DEF handle_accept_ack
  <1>2. BitStep
    <2>1. CASE bit_map' = bit_map
      BY <2>1, SameStep
    <2>2. CASE n = Leader /\ bit_map' = bits
      <3>1. \A k \in Slot : bit_map'[k] = IF k = m.vs THEN bit_map[k] \cup node_bit(s)
                                          ELSE bit_map[k]
        BY <2>2, MsgFields DEF TypeOK
      <3> QED
        BY <2>2, <3>1 DEF BitStep
    <2> QED
      BY <1>1, <2>1, <2>2
  <1>3. c \in Chan /\ m \in MsgsOf(net, c)
    OBVIOUS
  <1>4. \A x \in Chan : \A y \in MsgsOf(N, x) : y \in MsgsOf(net, x) \/ NewMsg(x, y)
    OBVIOUS
  <1> HIDE DEF c
  <1>5. highest_to_commit[n] <= highest_to_commit[n]
    BY OwnRow, BoundAssumption
  <1>6. Handled(n, N)
    BY <1>1, <1>5, OwnRow, TryHandled
  <1>7. db' = [db EXCEPT ![n] = db[n]] /\ RowStep(n, db[n])
    BY <1>1, SameStep
  <1> QED
    BY <1>2, <1>3, <1>4, <1>6, <1>7, HandlerStep

(* handle_missing_req only sends a MISSING_ACK. *)
LEMMA MissingReqStep ==
    ASSUME TypeOK, AgreementInv,
           NEW s \in Node, NEW n \in Node, <<n, s>> \in Chan,
           NEW m \in Msg, m.type = "MISSING_REQ",
           NEW N \in Network, \A x \in Chan : MsgsOf(N, x) \subseteq MsgsOf(net, x),
           handle_missing_req(s, n, m, N)
    PROVE  StepOK
  <1>1. db' = db /\ bit_map' = bit_map /\ UNCHANGED stamps
    BY DEF handle_missing_req
  <1>2. /\ db' = [db EXCEPT ![n] = db[n]] /\ RowStep(n, db[n]) /\ BitStep
        /\ Handled(n, net')
    BY <1>1, SameStep, QuietHandled
  <1>3. m.vs \in Slot
    BY MsgFields
  <1>4. CASE db[n][m.vs] = NoRecord
    <2>1. net' = N
      BY <1>4 DEF handle_missing_req
    <2> QED
      BY <1>2, <2>1, HandlerStep
  <1>5. CASE db[n][m.vs] # NoRecord
    <2>1. PICK same \in BOOLEAN :
            net' = send_to_one_node(N, n, s,
                      [type |-> "MISSING_ACK", vs |-> m.vs,
                       data |-> [db[n][m.vs] EXCEPT !.intact = db[n][m.vs].intact /\ same]])
      BY <1>5, ZenonT(120) DEF handle_missing_req
    <2> DEFINE d == [db[n][m.vs] EXCEPT !.intact = db[n][m.vs].intact /\ same]
               r == [type |-> "MISSING_ACK", vs |-> m.vs, data |-> d]
    <2>2. db[n][m.vs] \in Data
      BY <1>3, <1>5 DEF TypeOK
    <2>3. d \in Data
      BY <2>2 DEF Data
    <2> HIDE DEF d
    <2>4. r \in Msg /\ \A x : NewMsg(x, r)
      BY <1>3, <2>3, MakeMsg DEF NewMsg
    <2>5. net' = send_to_one_node(N, n, s, r)
      BY <2>1 DEF d
    <2> HIDE DEF r
    <2>6. /\ MsgsOf(net', <<n, s>>) \subseteq MsgsOf(N, <<n, s>>) \cup {r}
          /\ \A x \in Chan : x # <<n, s>> => MsgsOf(net', x) = MsgsOf(N, x)
      BY <2>4, <2>5, SendFacts
    <2>7. \A x \in Chan : \A y \in MsgsOf(net', x) : y \in MsgsOf(net, x) \/ NewMsg(x, y)
      BY <2>4, <2>6
    <2> QED
      BY <1>2, <2>7, HandlerStep
  <1> QED
    BY <1>4, <1>5

(* handle_missing_ack fills an empty slot, never one of the leader.          *)
LEMMA MissingAckStep ==
    ASSUME TypeOK, AgreementInv, NEW s \in Node, NEW n \in Node,
           NEW m \in Msg, m.type = "MISSING_ACK", MsgOK(m),
           NEW N \in Network, \A x \in Chan : MsgsOf(N, x) \subseteq MsgsOf(net, x),
           handle_missing_ack(s, n, m, N)
    PROVE  StepOK
  <1> DEFINE row == [db[n] EXCEPT ![m.vs] = m.data]
  <1>1. /\ m.vs \in Slot /\ m.data \in Data
        /\ m.vs <= highest_seen[Leader] /\ m.data.req = db[Leader][m.vs].req
    BY MsgFields DEF MsgOK
  <1>2. bit_map' = bit_map /\ BitStep
    BY SameStep DEF handle_missing_ack
  <1>3. \A x \in Chan : \A y \in MsgsOf(N, x) : y \in MsgsOf(net, x) \/ NewMsg(x, y)
    OBVIOUS
  <1>4. highest_to_commit[n] <= highest_to_commit[n]
    BY OwnRow, BoundAssumption
  <1>5. RowStep(n, db[n]) /\ db = [db EXCEPT ![n] = db[n]]
    BY SameStep
  <1>6. CASE net' = N /\ UNCHANGED <<stamps, db>>
    <2>1. Handled(n, N)
      BY <1>6, QuietHandled
    <2> QED
      BY <1>2, <1>3, <1>5, <1>6, <2>1, HandlerStep
  <1>7. CASE UNCHANGED db /\ try_to_execute(n, highest_to_commit[n], highest_seen[n], db[n], bit_map', N)
    <2>1. Handled(n, N)
      BY <1>4, <1>7, OwnRow, TryHandled
    <2> QED
      BY <1>2, <1>3, <1>5, <1>7, <2>1, HandlerStep
  <1>8. CASE /\ db[n][m.vs] = NoRecord
             /\ db' = [db EXCEPT ![n] = row]
             /\ try_to_execute(n, highest_to_commit[n], highest_seen[n], row, bit_map', N)
    <2>1. n # Leader
      BY <1>1, <1>8 DEF AgreementInv, LeaderInv
    <2>2. row \in Row /\ RowOK(n, highest_seen[n], row)
      BY <1>1, <2>1, CopiedRow, SMTT(60)
    <2>3. RowStep(n, row)
      <3>1. db[n] \in Row
        BY OwnRow
      <3>2. \A k \in Slot : row[k] = IF k = m.vs THEN m.data ELSE db[n][k]
        BY <1>1, <3>1 DEF Row
      <3> HIDE DEF row
      <3> QED
        BY <1>8, <2>1, <3>2 DEF RowStep
    <2> HIDE DEF row
    <2>4. Handled(n, N)
      BY <1>4, <1>8, <2>2, OwnRow, TryHandled
    <2> QED
      BY <1>2, <1>3, <1>8, <2>3, <2>4, HandlerStep
  <1>9. \/ net' = N /\ UNCHANGED <<stamps, db>>
        \/ UNCHANGED db /\ try_to_execute(n, highest_to_commit[n], highest_seen[n], db[n], bit_map, N)
        \/ /\ db[n][m.vs] = NoRecord
           /\ db' = [db EXCEPT ![n] = row]
           /\ try_to_execute(n, highest_to_commit[n], highest_seen[n], row, bit_map, N)
    BY DEF handle_missing_ack
  <1> HIDE DEF row
  <1> QED
    BY <1>2, <1>6, <1>7, <1>8, <1>9

(* handle_force_exec executes and changes nothing else. *)
LEMMA ForceExecStep ==
    ASSUME TypeOK, AgreementInv, NEW s \in Node, NEW n \in Node, s # n,
           NEW m \in Msg, m.type = "FORCE_EXEC",
           NEW N \in Network, \A x \in Chan : MsgsOf(N, x) \subseteq MsgsOf(net, x),
           handle_force_exec(s, n, m, N)
    PROVE  StepOK
  <1>1. m.committed \in 0..MaxReq
    BY MsgFields
  <1>2. db' = db /\ bit_map' = bit_map
    BY DEF handle_force_exec
  <1>3. db' = [db EXCEPT ![n] = db[n]] /\ RowStep(n, db[n]) /\ BitStep
    BY <1>2, SameStep
  <1>4. \A x \in Chan : \A y \in MsgsOf(N, x) : y \in MsgsOf(net, x) \/ NewMsg(x, y)
    OBVIOUS
  <1>5. Handled(n, N)
    <2>1. CASE net' = N /\ UNCHANGED stamps
      BY <2>1, QuietHandled
    <2>2. CASE /\ s = leader_id(n) /\ highest_to_commit[n] < m.committed
               /\ try_to_execute(n, m.committed, highest_seen[n], db[n], bit_map, N)
      <3>1. n # Leader
        BY <2>2, NodeAssumption DEF leader_id
      <3>2. highest_to_commit[n] <= m.committed
        BY <1>1, <2>2, OwnRow, BoundAssumption
      <3>3. try_to_execute(n, m.committed, highest_seen[n], db[n], bit_map', N)
        BY <1>2, <2>2
      <3> QED
        BY <1>1, <3>1, <3>2, <3>3, OwnRow, TryHandled
    <2> QED
      BY <2>1, <2>2 DEF handle_force_exec
  <1> QED
    BY <1>3, <1>4, <1>5, HandlerStep

(* The leader stores a new request in an empty slot, sets its own bits there  *)
(* and sends the record it has stored.                                       *)
LEMMA LeaderSubmitStep ==
    ASSUME TypeOK, AgreementInv, NEW data \in Data,
           \/ data.intact
           \/ \E c \in Chan : \E m \in MsgsOf(net, c) : m.type = "FORWARD_REQ" /\ m.data = data,
           NEW N \in Network, \A x \in Chan : MsgsOf(N, x) \subseteq MsgsOf(net, x),
           leader_handle_submit_req(Leader, data, N)
    PROVE  StepOK
  <1> DEFINE next == highest_seen[Leader] + 1
             row  == [db[Leader] EXCEPT ![next] = data]
             bits == [bit_map EXCEPT ![next] = node_bit(Leader)]
  <1>1. /\ highest_seen \in [Node -> 0..MaxReq] /\ db \in [Node -> Row]
        /\ highest_to_commit \in [Node -> 0..MaxReq]
        /\ LeaderInv /\ Leader \in Node
        /\ bit_map \in [Slot -> SUBSET (0..(MAP_BITS - 1))]
    BY NodeAssumption DEF TypeOK, AgreementInv, Row
  <1>2. next <= MaxReq /\ next \in Slot /\ next \in 0..MaxReq /\ next > highest_seen[Leader]
    BY <1>1, BoundAssumption DEF leader_handle_submit_req, Slot
  <1>3. \A k \in Slot : row[k] = IF k = next THEN data ELSE db[Leader][k]
    BY <1>1, <1>2 DEF Row
  <1>4. row \in Row
    BY <1>1, <1>2 DEF Row
  <1>5. /\ \A k \in Slot : db[Leader][k] # NoRecord <=> k <= highest_seen[Leader]
        /\ \A k \in Slot : k \in Nat
        /\ highest_seen[Leader] \in Nat
        /\ data # NoRecord
    BY <1>1, RecordAssumption DEF LeaderInv, Slot
  <1>6. RowOK(Leader, next, row)
    <2> HIDE DEF row
    <2> QED
      BY <1>3, <1>5 DEF RowOK
  <1>7. RowStep(Leader, row)
    <2>1. db[Leader][next] = NoRecord
      BY <1>2, <1>5
    <2> HIDE DEF row, next
    <2> QED
      BY <1>3, <2>1 DEF RowStep
  <1>8. \A x \in Chan : \A y \in MsgsOf(N, x) : y \in MsgsOf(net, x) \/ NewMsg(x, y)
    OBVIOUS
  <1>9. ASSUME db' = [db EXCEPT ![Leader] = row], bit_map' = bits
        PROVE  BitStep
    <2>1. db'[Leader][next] = data
      BY <1>1, <1>2, <1>3, <1>9
    <2>2. \A k \in Slot : bit_map'[k] = IF k = next THEN node_bit(Leader) ELSE bit_map[k]
      BY <1>1, <1>2, <1>9
    <2> QED
      BY <1>2, <1>5, <2>1, <2>2 DEF BitStep
  <1>10. CASE /\ db' = [db EXCEPT ![Leader] = row] /\ bit_map' = bits
              /\ net' = send_to_other_nodes(N, Leader, <<build_accept_req(Leader, next, data)>>)
              /\ UNCHANGED stamps
    <2> DEFINE r == build_accept_req(Leader, next, data)
    <2>1. r = [type |-> "ACCEPT_REQ", vs |-> next, exed |-> highest_to_commit[Leader], data |-> data]
      BY DEF build_accept_req
    <2>2. r \in Msg
      BY <1>1, <1>2, <2>1, MakeMsg
    <2>3. db'[Leader][next] = data
      BY <1>1, <1>2, <1>3, <1>10
    <2>4. \A x : NewMsg(x, r)
      BY <1>2, <2>1, <2>3 DEF NewMsg
    <2> HIDE DEF r
    <2> DEFINE ms == <<r>>
    <2>5. ms \in Seq(Msg) /\ \A i \in 1..Len(ms) : ms[i] = r
      BY <2>2
    <2>6. \A x \in Chan : MsgsOf(net', x) \subseteq MsgsOf(N, x) \cup {r}
      <3>1. net' = send_to_other_nodes(N, Leader, ms)
        BY <1>10 DEF r
      <3> HIDE DEF ms
      <3>2. \A x \in Chan : MsgsOf(net', x) \subseteq
                              MsgsOf(N, x) \cup {ms[i] : i \in 1..Len(ms)}
        BY <2>5, <3>1, BroadcastFacts
      <3> QED
        BY <2>5, <3>2
    <2>7. \A x \in Chan : \A y \in MsgsOf(net', x) : y \in MsgsOf(net, x) \/ NewMsg(x, y)
      BY <2>4, <2>6
    <2>8. Handled(Leader, net')
      BY <1>1, <1>10, QuietHandled
    <2> HIDE DEF row, bits, next
    <2> QED
      BY <1>1, <1>7, <1>9, <1>10, <2>7, <2>8, HandlerStep
  <1>11. CASE /\ db' = [db EXCEPT ![Leader] = row] /\ bit_map' = bits
              /\ try_to_execute(Leader, highest_to_commit[Leader], next, row, bits, N)
    <2>1. highest_to_commit[Leader] \in 0..MaxReq
          /\ highest_to_commit[Leader] <= highest_to_commit[Leader]
      BY <1>1, BoundAssumption
    <2> HIDE DEF row, bits, next
    <2>2. try_to_execute(Leader, highest_to_commit[Leader], next, row, bit_map', N)
      BY <1>11
    <2>3. Handled(Leader, N)
      BY <1>1, <1>2, <1>4, <1>6, <2>1, <2>2, TryHandled
    <2> QED
      BY <1>1, <1>7, <1>8, <1>9, <1>11, <2>3, HandlerStep
  <1>12. CASE net' = N /\ UNCHANGED <<db, bit_map, stamps>>
    <2>1. /\ db' = [db EXCEPT ![Leader] = db[Leader]] /\ RowStep(Leader, db[Leader])
          /\ BitStep /\ Handled(Leader, N)
      BY <1>1, <1>12, SameStep, QuietHandled
    <2> QED
      BY <1>1, <1>8, <2>1, HandlerStep
  <1> QED
    BY <1>10, <1>11, <1>12 DEF leader_handle_submit_req

(* A client request is given a slot or forwarded with the client's bytes.    *)
LEMMA ClientStep ==
    ASSUME TypeOK, AgreementInv, NEW n \in Node, NEW r \in Request,
           consensus_submit_request(n, r)
    PROVE  StepOK
  <1> DEFINE data == [req |-> r, intact |-> TRUE]
  <1>1. data \in Data /\ data.intact /\ cur_view[n] = 1
    BY DEF Data, consensus_submit_request
  <1>2. net \in Network /\ Leader \in Node
    BY NodeAssumption DEF TypeOK, Network
  <1>3. CASE n = Leader
    <2>1. leader_handle_submit_req(Leader, data, net)
      BY <1>3 DEF consensus_submit_request
    <2> HIDE DEF data
    <2> QED
      BY <1>1, <1>2, <2>1, LeaderSubmitStep
  <1>4. CASE n # Leader
    <2> DEFINE m == [type |-> "FORWARD_REQ", data |-> data]
    <2>1. /\ net' = send_to_one_node(net, n, Leader, m)
          /\ UNCHANGED <<db, bit_map>> /\ UNCHANGED stamps
      BY <1>1, <1>4 DEF consensus_submit_request, leader_id
    <2>2. m \in Msg /\ \A x : NewMsg(x, m)
      <3> HIDE DEF data
      <3> QED
        BY <1>1, MakeMsg DEF NewMsg
    <2>3. <<n, Leader>> \in Chan
      BY <1>2, <1>4 DEF Chan
    <2> HIDE DEF m
    <2>4. /\ MsgsOf(net', <<n, Leader>>) \subseteq MsgsOf(net, <<n, Leader>>) \cup {m}
          /\ \A x \in Chan : x # <<n, Leader>> => MsgsOf(net', x) = MsgsOf(net, x)
      BY <1>2, <2>1, <2>2, <2>3, SendFacts
    <2>5. \A x \in Chan : \A y \in MsgsOf(net', x) : y \in MsgsOf(net, x) \/ NewMsg(x, y)
      BY <2>2, <2>4
    <2>6. /\ db' = [db EXCEPT ![n] = db[n]] /\ RowStep(n, db[n])
          /\ BitStep /\ Handled(n, net')
      BY <2>1, SameStep, QuietHandled
    <2> QED
      BY <2>5, <2>6, HandlerStep
  <1> QED
    BY <1>3, <1>4

(* A handled message. *)
LEMMA MsgStep ==
    ASSUME TypeOK, AgreementInv, NEW s \in Node, NEW n \in Node, s # n,
           consensus_handle_msg(s, n)
    PROVE  StepOK
  <1> DEFINE c == <<s, n>>
             m == Head(net[c])
             N == Dequeue(net, c)
  <1>1. <<s, n>> \in Chan /\ <<n, s>> \in Chan
    BY DEF Chan
  <1>2. net[c] # <<>>
    BY DEF consensus_handle_msg
  <1>3. \/ m.type = "ACCEPT_REQ"  /\ handle_accept_req(s, n, m, N)
        \/ m.type = "ACCEPT_ACK"  /\ handle_accept_ack(s, n, m, N)
        \/ m.type = "MISSING_REQ" /\ handle_missing_req(s, n, m, N)
        \/ m.type = "MISSING_ACK" /\ handle_missing_ack(s, n, m, N)
        \/ m.type = "FORCE_EXEC"  /\ handle_force_exec(s, n, m, N)
        \/ m.type = "FORWARD_REQ" /\ handle_forward_req(s, n, m, N)
    BY HandleMsgCases
  <1>4. net \in Network /\ c \in Chan
    BY <1>1 DEF TypeOK, Network
  <1>5. /\ N \in Network /\ m \in Msg
        /\ \A x \in Chan : MsgsOf(N, x) \subseteq MsgsOf(net, x)
        /\ m \in MsgsOf(net, c)
    <2> HIDE DEF c
    <2> QED
      BY <1>2, <1>4, DequeueFacts
  <1> HIDE DEF m, N
  <1>6. MsgOK(m)
    BY <1>4, <1>5 DEF AgreementInv, MsgInv, MsgsOf
  <1>7. CASE m.type = "ACCEPT_REQ" /\ handle_accept_req(s, n, m, N)
    BY <1>1, <1>5, <1>6, <1>7, AcceptReqStep
  <1>8. CASE m.type = "ACCEPT_ACK" /\ handle_accept_ack(s, n, m, N)
    BY <1>1, <1>5, <1>8, AcceptAckStep
  <1>9. CASE m.type = "MISSING_REQ" /\ handle_missing_req(s, n, m, N)
    BY <1>1, <1>5, <1>9, MissingReqStep
  <1>10. CASE m.type = "MISSING_ACK" /\ handle_missing_ack(s, n, m, N)
    BY <1>5, <1>6, <1>10, MissingAckStep
  <1>11. CASE m.type = "FORCE_EXEC" /\ handle_force_exec(s, n, m, N)
    BY <1>5, <1>11, ForceExecStep
  <1>12. CASE m.type = "FORWARD_REQ" /\ handle_forward_req(s, n, m, N)
    <2>1. m.data \in Data
      BY <1>5, <1>12, MsgFields
    <2>2. CASE n = Leader
      <3>1. leader_handle_submit_req(Leader, m.data, N)
        BY <1>12, <2>2 DEF handle_forward_req
      <3>2. \E x \in Chan : \E y \in MsgsOf(net, x) : y.type = "FORWARD_REQ" /\ y.data = m.data
        BY <1>4, <1>5, <1>12
      <3> QED
        BY <1>5, <2>1, <3>1, <3>2, LeaderSubmitStep
    <2>3. CASE n # Leader
      <3>1. net' = N /\ UNCHANGED <<db, bit_map>> /\ UNCHANGED stamps
        BY <1>12, <2>3 DEF handle_forward_req
      <3>2. /\ db' = [db EXCEPT ![n] = db[n]] /\ RowStep(n, db[n])
            /\ BitStep /\ Handled(n, N)
        BY <3>1, SameStep, QuietHandled
      <3>3. \A x \in Chan : \A y \in MsgsOf(N, x) : y \in MsgsOf(net, x) \/ NewMsg(x, y)
        BY <1>5
      <3> QED
        BY <3>2, <3>3, HandlerStep
    <2> QED
      BY <2>2, <2>3
  <1> QED
    BY <1>3, <1>7, <1>8, <1>9, <1>10, <1>11, <1>12

(* The make-progress timer executes over slots with a quorum and sends the   *)
(* leader's records.                                                         *)
LEMMA TimerStep ==
    ASSUME TypeOK, AgreementInv, consensus_make_progress
    PROVE  StepOK
  <1> DEFINE tc == highest_to_commit[Leader]
             sn == highest_seen[Leader]
  <1>1. /\ Leader \in Node /\ MaxReq \in Nat
        /\ tc \in 0..MaxReq /\ sn \in 0..MaxReq
        /\ highest_to_commit \in [Node -> 0..MaxReq]
        /\ highest_committed \in [Node -> 0..MaxReq]
        /\ highest_committed[Leader] = tc /\ tc <= sn
        /\ net \in Network
    BY NodeAssumption, BoundAssumption DEF TypeOK, AgreementInv, LeaderInv, Network
  <1>2. UNCHANGED <<db, bit_map>>
    BY DEF consensus_make_progress
  <1>3. PICK end \in leader_try_to_execute(Leader, tc, sn, bit_map) :
          \E upto \in {IF highest_committed[Leader] = tc
                      THEN end ELSE highest_committed[Leader]} :
          \E again \in Ascending(Unagreed(upto)) : Effect(end, upto, again)
    BY ProgressEffect
  <1>4. PICK again \in Ascending(Unagreed(end)) : Effect(end, end, again)
    BY <1>1, <1>3
  <1>5. /\ end \in 0..MaxReq /\ tc <= end
        /\ \A k \in (tc + 1)..end : reached_quorum(bit_map[k])
    <2>1. end \in LoopExit(tc, sn, {k \in Slot : reached_quorum(bit_map[k])})
      BY DEF leader_try_to_execute
    <2>2. /\ end \in Nat /\ tc <= end /\ (end = tc \/ end <= sn)
          /\ \A k \in (tc + 1)..end : k \in {j \in Slot : reached_quorum(bit_map[j])}
      BY <1>1, <2>1, LoopExitFacts
    <2> QED
      BY <1>1, <2>2
  <1>6. /\ highest_to_commit' = [highest_to_commit EXCEPT ![Leader] = end]
        /\ highest_committed' = [highest_committed EXCEPT ![Leader] = end]
    BY <1>4 DEF Effect
  <1>7. CommitStep
    BY <1>1, <1>5, <1>6 DEF CommitStep
  <1>8. QuorumStep
    <2>1. highest_to_commit'[Leader] = end
      BY <1>1, <1>6
    <2> QED
      BY <1>2, <1>5, <2>1 DEF QuorumStep
  <1> DEFINE ms == build_progress_msgs(again, end, end)
  <1>9. /\ ms \in Seq(Msg)
        /\ \A i \in 1..Len(ms) :
              \/ /\ ms[i].type = "ACCEPT_REQ"
                 /\ ms[i].vs \in Slot
                 /\ ms[i].data = db[Leader][ms[i].vs]
              \/ ms[i].type = "FORCE_EXEC"
    BY <1>5, ProgressMsgs
  <1>10. net' = send_to_other_nodes(net, Leader, ms)
    BY <1>4 DEF Effect
  <1> HIDE DEF ms
  <1>11. \A x \in Chan : MsgsOf(net', x) \subseteq MsgsOf(net, x) \cup {ms[i] : i \in 1..Len(ms)}
    BY <1>1, <1>9, <1>10, BroadcastFacts
  <1>12. NetStep
    BY <1>2, <1>9, <1>11 DEF NetStep, NewMsg
  <1>13. DbStep /\ BitStep
    BY <1>2 DEF DbStep, BitStep
  <1> QED
    BY <1>7, <1>8, <1>12, <1>13 DEF StepOK

(* A step of the network, and a ping, leave records and bits alone.          *)
LEMMA LostStep ==
    ASSUME TypeOK, NEW c \in Chan, LoseMsg(c)
    PROVE  StepOK
  <1>1. /\ net[c] # <<>> /\ net' = Dequeue(net, c)
        /\ UNCHANGED <<db, bit_map>> /\ UNCHANGED stamps
    BY ZenonT(120) DEF LoseMsg, Dequeue
  <1>2. net \in Network /\ Leader \in Node
    BY NodeAssumption DEF TypeOK, Network
  <1>3. \A x \in Chan : MsgsOf(net', x) \subseteq MsgsOf(net, x)
    BY <1>1, <1>2, DequeueFacts
  <1>4. Handled(Leader, net')
    BY <1>1, <1>2, QuietHandled
  <1> QED
    BY <1>1, <1>3, <1>4 DEF StepOK, Handled, NetStep, DbStep, BitStep

(* A secondary that counts from 0 again. *)
LEMMA CountersReset ==
    ASSUME TypeOK, NEW n \in Node, n # Leader,
           highest_to_commit' = [highest_to_commit EXCEPT ![n] = 0],
           highest_committed' = [highest_committed EXCEPT ![n] = 0]
    PROVE  CommitStep /\ QuorumStep
  <1>1. /\ highest_to_commit \in [Node -> 0..MaxReq]
        /\ highest_committed \in [Node -> 0..MaxReq]
        /\ Leader \in Node /\ MaxReq \in Nat
    BY NodeAssumption, BoundAssumption DEF TypeOK
  <1>2. CommitStep
    BY <1>1 DEF CommitStep
  <1>3. highest_to_commit'[Leader] = highest_to_commit[Leader]
    BY <1>1
  <1> QED
    BY <1>1, <1>2, <1>3 DEF QuorumStep

(* A secondary that joins the view. *)
LEMMA PingStep ==
    ASSUME TypeOK, NEW n \in Node, n # Leader, handle_ping_req(n)
    PROVE  StepOK
  <1>1. /\ highest_to_commit' = [highest_to_commit EXCEPT ![n] = 0]
        /\ highest_committed' = [highest_committed EXCEPT ![n] = 0]
        /\ UNCHANGED <<db, bit_map, net>>
    BY DEF handle_ping_req
  <1>2. CommitStep /\ QuorumStep
    BY <1>1, CountersReset
  <1> QED
    BY <1>1, <1>2 DEF StepOK, NetStep, DbStep, BitStep

(* A secondary that starts again: unless its host crashed it has kept all    *)
(* its records.                                                              *)
LEMMA CrashedStep ==
    ASSUME TypeOK, NEW n \in Node, n # Leader, Restart(n) \/ PowerLoss(n)
    PROVE  StepOK
  <1>1. PICK kept : /\ Reinitialize(n, kept)
                    /\ outages' # outages \/ kept = Slot
    BY DEF Restart, PowerLoss, TypeOK
  <1> DEFINE row == [k \in Slot |-> IF k \in kept THEN db[n][k] ELSE NoRecord]
  <1>2. /\ highest_to_commit' = [highest_to_commit EXCEPT ![n] = 0]
        /\ highest_committed' = [highest_committed EXCEPT ![n] = 0]
        /\ db' = [db EXCEPT ![n] = row] /\ bit_map' = bit_map
        /\ net' = [c \in Chan |-> IF c[2] = n THEN <<>> ELSE net[c]]
    BY <1>1 DEF Reinitialize
  <1>3. CommitStep /\ QuorumStep
    BY <1>2, CountersReset
  <1>4. BitStep
    BY <1>2 DEF BitStep
  <1>5. NetStep
    <2> SUFFICES ASSUME NEW c \in Chan, NEW m \in MsgsOf(net', c)
                 PROVE  m \in MsgsOf(net, c)
      BY DEF NetStep
    <2>1. net'[c] = <<>> \/ net'[c] = net[c]
      BY <1>2
    <2>2. Len(<<>>) = 0
      OBVIOUS
    <2> QED
      BY <2>1, <2>2 DEF MsgsOf
  <1>6. DbStep
    <2>1. db \in [Node -> [Slot -> Data \cup {NoRecord}]]
      BY DEF TypeOK
    <2>2. \A x \in Node, k \in Slot :
             \/ db'[x][k] = db[x][k]
             \/ x = n /\ k \notin kept /\ db'[x][k] = NoRecord
      BY <1>2, <2>1
    <2> QED
      BY <1>1, <2>2 DEF DbStep
  <1> QED
    BY <1>3, <1>4, <1>5, <1>6 DEF StepOK

(* What any step of the component may change. *)
LEMMA StepFacts ==
    ASSUME TypeOK, AgreementInv, [Next]_vars
    PROVE  StepOK
  <1>1. CASE \E n \in Entry, r \in Request : consensus_submit_request(n, r)
    BY <1>1, EntryAssumption, ClientStep
  <1>2. CASE \E c \in Chan : consensus_handle_msg(c[1], c[2])
    <2>1. PICK c \in Chan : consensus_handle_msg(c[1], c[2])
      BY <1>2
    <2>2. c[1] \in Node /\ c[2] \in Node /\ c[1] # c[2]
      BY DEF Chan
    <2> QED
      BY <2>1, <2>2, MsgStep
  <1>3. CASE consensus_make_progress
    BY <1>3, TimerStep
  <1>4. CASE \E n \in Node \ {Leader} : handle_ping_req(n)
    BY <1>4, PingStep
  <1>5. CASE \E c \in Chan : LoseMsg(c)
    BY <1>5, LostStep
  <1>6. CASE \E n \in Node \ {Leader} : Restart(n) \/ PowerLoss(n)
    BY <1>6, CrashedStep
  <1>7. CASE UNCHANGED vars
    <2>1. UNCHANGED <<db, bit_map, net>> /\ UNCHANGED stamps
      BY <1>7 DEF vars, stamps
    <2>2. Handled(Leader, net')
      BY <2>1, NodeAssumption, QuietHandled
    <2> QED
      BY <2>1, <2>2 DEF StepOK, Handled, NetStep, DbStep, BitStep
  <1> QED
    BY <1>1, <1>2, <1>3, <1>4, <1>5, <1>6, <1>7 DEF Next
--------------------------------------------------------------------------------
(* A slot of the leader keeps its record. *)
LEMMA LeaderKeeps ==
    ASSUME TypeOK, AgreementInv, StepOK, NEW k \in Slot, k <= highest_seen[Leader]
    PROVE  db'[Leader][k] = db[Leader][k]
  <1>1. db[Leader][k] # NoRecord
    BY DEF AgreementInv, LeaderInv
  <1> QED
    BY <1>1, NodeAssumption DEF StepOK, DbStep

(* Every step preserves IntactInv. *)
LEMMA IntactStep ==
    ASSUME TypeOK, AgreementInv, IntactInv, StepOK, TypeOK', AgreementInv'
    PROVE  IntactInv'
  <1>1. \A c \in Chan : \A m \in MsgsOf(net, c) :
           m.type \in {"ACCEPT_REQ", "FORWARD_REQ"} => m.data.intact
    BY DEF IntactInv, MsgsOf
  <1>2. ASSUME NEW k \in Slot, db'[Leader][k] # NoRecord
        PROVE  db'[Leader][k].intact
    BY <1>1, <1>2, NodeAssumption DEF StepOK, DbStep, IntactInv
  <1>3. ASSUME NEW c \in Chan, NEW m \in MsgsOf(net', c),
               m.type \in {"ACCEPT_REQ", "FORWARD_REQ"}
        PROVE  m.data.intact
    <2>1. m \in MsgsOf(net, c) \/ NewMsg(c, m)
      BY DEF StepOK, NetStep
    <2>2. CASE m \in MsgsOf(net, c)
      BY <1>1, <1>3, <2>2
    <2>3. CASE m.type = "FORWARD_REQ" /\ m.data.intact
      BY <2>3
    <2>4. CASE m.type = "ACCEPT_REQ" /\ m.vs \in Slot /\ m.data = db'[Leader][m.vs]
      <3>1. m.vs <= highest_seen'[Leader]
        BY <2>4 DEF AgreementInv, MsgInv, MsgOK, MsgsOf
      <3>2. db'[Leader][m.vs] # NoRecord
        BY <2>4, <3>1 DEF AgreementInv, LeaderInv
      <3> QED
        BY <1>2, <2>4, <3>2
    <2> QED
      BY <1>3, <2>1, <2>2, <2>3, <2>4 DEF NewMsg
  <1> QED
    BY <1>2, <1>3 DEF IntactInv, MsgsOf

(* The client's bytes are damaged nowhere but in MISSING_ACKs and in the     *)
(* records that secondaries take from them.                                  *)
THEOREM IntactHolds == Spec => []IntactInv
  <1>1. Init => IntactInv
    BY NodeAssumption DEF Init, IntactInv
  <1>2. /\ TypeOK /\ AgreementInv /\ IntactInv /\ [Next]_vars
        /\ (TypeOK /\ AgreementInv)'
        => IntactInv'
    BY StepFacts, IntactStep
  <1> QED
    BY <1>1, <1>2, Invariance, PTL DEF Spec

(* SlotStable: whatever a step of any node does, a slot that holds a record  *)
(* keeps its request, and the client's bytes if it has them.                 *)
THEOREM SlotStableHolds == Spec => SlotStable
  <1> DEFINE P == \A n \in Node, k \in Slot :
                    db[n][k] # NoRecord /\ db'[n][k] # NoRecord
                      => /\ db'[n][k].req = db[n][k].req
                         /\ db[n][k].intact => db'[n][k].intact
  <1>1. ASSUME TypeOK, AgreementInv, IntactInv, TypeOK', AgreementInv', [Next]_vars
        PROVE  P
    <2> SUFFICES ASSUME NEW n \in Node, NEW k \in Slot,
                        db[n][k] # NoRecord, db'[n][k] # NoRecord
                 PROVE  /\ db'[n][k].req = db[n][k].req
                        /\ db[n][k].intact => db'[n][k].intact
      OBVIOUS
    <2>1. StepOK
      BY <1>1, StepFacts
    <2>2. k <= highest_seen[Leader] /\ db[n][k].req = db[Leader][k].req
      BY <1>1 DEF AgreementInv, NodeInv
    <2>3. db'[n][k].req = db'[Leader][k].req
      BY <1>1 DEF AgreementInv, NodeInv
    <2>4. db'[n][k].req = db[n][k].req
      BY <1>1, <2>1, <2>2, <2>3, LeaderKeeps
    <2>5. ASSUME db[n][k].intact PROVE db'[n][k].intact
      <3>1. \/ db'[n][k] = db[n][k]
            \/ \E c \in Chan : \E m \in MsgsOf(net, c) :
                  m.type = "ACCEPT_REQ" /\ db'[n][k] = m.data
        BY <2>1 DEF StepOK, DbStep
      <3>2. \A c \in Chan : \A m \in MsgsOf(net, c) :
               m.type = "ACCEPT_REQ" => m.data.intact
        BY <1>1 DEF IntactInv, MsgsOf
      <3> QED
        BY <2>5, <3>1, <3>2
    <2> QED
      BY <2>4, <2>5
  <1>2. (TypeOK /\ AgreementInv) /\ IntactInv /\ (TypeOK /\ AgreementInv)' /\ [Next]_vars
        => [P]_vars
    BY <1>1
  <1> QED
    <2>1. [][P]_vars => SlotStable
      BY DEF SlotStable
    <2> HIDE DEF P
    <2> QED
      BY <1>2, <2>1, Invariance, IntactHolds, PTL DEF Spec
--------------------------------------------------------------------------------
(* The requests of a sequence of deliveries that follows a row. *)
LEMMA ReqsFacts ==
    ASSUME NEW D \in Seq(Data), NEW h \in Nat, Len(D) = h, NEW row,
           \A i \in 1..Len(D) : D[i].req = row[i].req
    PROVE  /\ Reqs(D) = [i \in 1..h |-> row[i].req]
           /\ Reqs(D) \in Seq(Request)
           /\ Len(Reqs(D)) = h
           /\ DOMAIN Reqs(D) = 1..h
           /\ \A i \in 1..h : Reqs(D)[i] = row[i].req
  <1>1. DOMAIN D = 1..h
    OBVIOUS
  <1>2. Reqs(D) = [i \in 1..h |-> D[i].req]
    BY <1>1 DEF Reqs
  <1>3. ASSUME NEW i \in 1..h PROVE D[i].req = row[i].req /\ D[i].req \in Request
    <2>1. D[i] \in Data
      OBVIOUS
    <2> QED
      BY <2>1 DEF Data
  <1>4. Reqs(D) = [i \in 1..h |-> row[i].req]
    BY <1>2, <1>3
  <1>5. [i \in 1..h |-> row[i].req] \in Seq(Request)
    BY <1>3
  <1> HIDE DEF Reqs
  <1> QED
    BY <1>4, <1>5

(* Sequences with the same elements are equal. *)
LEMMA SameSeq ==
    ASSUME NEW S, NEW s \in Seq(S), NEW t \in Seq(S), Len(s) = Len(t),
           \A i \in 1..Len(s) : s[i] = t[i]
    PROVE  s = t
  <1>1. s = [i \in 1..Len(s) |-> s[i]] /\ t = [i \in 1..Len(s) |-> t[i]]
    OBVIOUS
  <1> QED
    BY <1>1

(* The outputs are prefixes, of lengths h, of one log a, and the leader's is *)
(* the longest.                                                              *)
Follows(out, h, a) ==
    /\ h \in [Node -> Nat] /\ out \in [Node -> Seq(Request)]
    /\ \A x \in Node : /\ h[x] <= h[Leader]
                       /\ Len(out[x]) = h[x]
                       /\ \A i \in 1..h[x] : out[x][i] = a[i]

(* Node n moves on, or starts again if it is not the leader. *)
Moves(n, h, g) ==
    /\ \A x \in Node : x # n => g[x] = h[x]
    /\ h[n] <= g[n] \/ (n # Leader /\ g[n] = 0)

(* What becomes of the outputs then. *)
LEMMA PrefixStep ==
    ASSUME NEW h, NEW g, NEW out, NEW new, NEW a, NEW b, NEW n \in Node,
           Follows(out, h, a), Follows(new, g, b), Moves(n, h, g),
           \A i \in 1..h[Leader] : a[i] = b[i]
    PROVE  \/ new = out
           \/ /\ Len(new[Leader]) > Len(out[Leader])
              /\ \A i \in 1..Len(out[Leader]) : new[Leader][i] = out[Leader][i]
              /\ new = [out EXCEPT ![Leader] = new[Leader]]
           \/ /\ n \in Node \ {Leader}
              /\ new[Leader] = out[Leader]
              /\ \/ \E k \in (Len(out[n]) + 1)..Len(out[Leader]) :
                       new = [out EXCEPT ![n] = [i \in 1..k |-> out[Leader][i]]]
                 \/ new = [out EXCEPT ![n] = <<>>]
  <1> USE DEF Follows, Moves
  <1>a. Leader \in Node /\ h[n] \in Nat /\ g[n] \in Nat
        /\ h[Leader] \in Nat /\ g[Leader] \in Nat
    BY NodeAssumption
  <1>1. ASSUME NEW x \in Node, g[x] = h[x] PROVE new[x] = out[x]
    <2>1. h[x] \in Nat /\ h[Leader] \in Nat /\ h[x] <= h[Leader]
      BY <1>a
    <2>2. \A i \in 1..h[x] : new[x][i] = out[x][i]
      BY <1>1, <2>1
    <2>3. new[x] \in Seq(Request) /\ out[x] \in Seq(Request) /\ Len(new[x]) = h[x] /\ Len(out[x]) = h[x]
      BY <1>1
    <2> QED
      BY <2>2, <2>3, SameSeq
  <1>2. new = [out EXCEPT ![n] = new[n]]
    BY <1>1
  <1>3. CASE g[n] = h[n]
    BY <1>1, <1>2, <1>3
  <1>4. CASE n = Leader /\ h[n] < g[n]
    <2>1. \A i \in 1..h[Leader] : new[Leader][i] = out[Leader][i]
      BY <1>4, <1>a
    <2> QED
      BY <1>2, <1>4, <1>a, <2>1
  <1>5. CASE n # Leader /\ h[n] < g[n]
    <2>1. new[Leader] = out[Leader] /\ g[Leader] = h[Leader]
      BY <1>1, <1>5, <1>a
    <2>2. g[n] \in (Len(out[n]) + 1)..Len(out[Leader])
      BY <1>5, <1>a, <2>1
    <2>3. new[n] = [i \in 1..g[n] |-> out[Leader][i]]
      <3>1. \A i \in 1..g[n] : new[n][i] = out[Leader][i]
        BY <1>5, <1>a, <2>1
      <3>2. new[n] \in Seq(Request) /\ Len(new[n]) = g[n] /\ g[n] \in Nat
        OBVIOUS
      <3>3. new[n] = [i \in 1..g[n] |-> new[n][i]]
        BY <3>2
      <3> QED
        BY <3>1, <3>3
    <2> QED
      BY <1>2, <1>5, <2>1, <2>2, <2>3
  <1>6. CASE n # Leader /\ g[n] = 0
    <2>1. new[n] \in Seq(Request) /\ Len(new[n]) = 0
      BY <1>6
    <2>2. new[n] = <<>>
      BY <2>1
    <2> QED
      BY <1>1, <1>2, <1>6, <1>a, <2>2
  <1> QED
    <2>1. h[n] <= g[n] \/ (n # Leader /\ g[n] = 0)
      OBVIOUS
    <2>2. g[n] = h[n] \/ h[n] < g[n] \/ (n # Leader /\ g[n] = 0)
      BY <1>a, <2>1
    <2> QED
      BY <1>3, <1>4, <1>5, <1>6, <2>2, Zenon

(* A step of the component is a step of the log it implements, or leaves the *)
(* log as it is: the leader's execution appends, another node's execution    *)
(* follows the log, and a node that starts again starts the log over.        *)
LEMMA LogStep ==
    ASSUME TypeOK, AgreementInv, StepOK, TypeOK', AgreementInv'
    PROVE  [Log!Next]_(Log!vars)
  <1>1. PICK n \in Node :
          /\ \A x \in Node : x # n => highest_committed'[x] = highest_committed[x]
          /\ \/ highest_committed[n] <= highest_committed'[n]
             \/ n # Leader /\ highest_committed'[n] = 0
    BY DEF StepOK, CommitStep
  <1>2. Leader \in Node /\ MaxReq \in Nat
    BY NodeAssumption, BoundAssumption
  <1> DEFINE a == [k \in Slot |-> db[Leader][k].req]
             b == [k \in Slot |-> db'[Leader][k].req]
             out == [x \in Node |-> Reqs(delivered[x])]
             new == [x \in Node |-> Reqs(delivered'[x])]
  <1>3. ASSUME NEW x \in Node
        PROVE  /\ highest_committed[x] \in Nat
               /\ highest_committed[x] <= highest_committed[Leader]
               /\ out[x] \in Seq(Request)
               /\ Len(out[x]) = highest_committed[x]
               /\ \A i \in 1..highest_committed[x] : out[x][i] = a[i]
    <2>1. /\ delivered[x] \in Seq(Data)
          /\ Len(delivered[x]) = highest_committed[x]
          /\ \A i \in 1..Len(delivered[x]) : delivered[x][i].req = db[Leader][i].req
          /\ highest_committed[x] <= highest_to_commit[x]
          /\ highest_to_commit[x] <= highest_to_commit[Leader]
      BY DEF TypeOK, AgreementInv, NodeInv
    <2>2. /\ highest_committed[x] \in 0..MaxReq /\ highest_to_commit[x] \in 0..MaxReq
          /\ highest_committed[Leader] = highest_to_commit[Leader]
          /\ highest_committed[Leader] \in 0..MaxReq
      BY <1>2 DEF TypeOK, AgreementInv, LeaderInv
    <2>3. /\ highest_committed[x] <= highest_committed[Leader]
          /\ \A i \in 1..highest_committed[x] : i \in Slot
      BY <1>2, <2>1, <2>2 DEF Slot
    <2>4. /\ out[x] \in Seq(Request) /\ Len(out[x]) = highest_committed[x]
          /\ \A i \in 1..highest_committed[x] : out[x][i] = db[Leader][i].req
      BY <2>1, <2>2, ReqsFacts
    <2> QED
      BY <2>2, <2>3, <2>4
  <1>4. ASSUME NEW x \in Node
        PROVE  /\ highest_committed'[x] \in Nat
               /\ highest_committed'[x] <= highest_committed'[Leader]
               /\ new[x] \in Seq(Request)
               /\ Len(new[x]) = highest_committed'[x]
               /\ \A i \in 1..highest_committed'[x] : new[x][i] = b[i]
    <2>1. /\ delivered'[x] \in Seq(Data)
          /\ Len(delivered'[x]) = highest_committed'[x]
          /\ \A i \in 1..Len(delivered'[x]) : delivered'[x][i].req = db'[Leader][i].req
          /\ highest_committed'[x] <= highest_to_commit'[x]
          /\ highest_to_commit'[x] <= highest_to_commit'[Leader]
      BY DEF TypeOK, AgreementInv, NodeInv
    <2>2. /\ highest_committed'[x] \in 0..MaxReq /\ highest_to_commit'[x] \in 0..MaxReq
          /\ highest_committed'[Leader] = highest_to_commit'[Leader]
          /\ highest_committed'[Leader] \in 0..MaxReq
      BY <1>2 DEF TypeOK, AgreementInv, LeaderInv
    <2>3. /\ highest_committed'[x] <= highest_committed'[Leader]
          /\ \A i \in 1..highest_committed'[x] : i \in Slot
      BY <1>2, <2>1, <2>2 DEF Slot
    <2>4. /\ new[x] \in Seq(Request) /\ Len(new[x]) = highest_committed'[x]
          /\ \A i \in 1..highest_committed'[x] : new[x][i] = db'[Leader][i].req
      BY <2>1, <2>2, ReqsFacts
    <2> QED
      BY <2>2, <2>3, <2>4
  <1>5. \A i \in 1..highest_committed[Leader] : a[i] = b[i]
    <2> SUFFICES ASSUME NEW i \in 1..highest_committed[Leader] PROVE a[i] = b[i]
      OBVIOUS
    <2>1. /\ highest_committed[Leader] \in 0..MaxReq /\ highest_seen[Leader] \in 0..MaxReq
          /\ highest_committed[Leader] <= highest_seen[Leader]
      BY <1>2 DEF TypeOK, AgreementInv, LeaderInv
    <2>2. i \in Slot /\ i <= highest_seen[Leader]
      BY <1>2, <2>1 DEF Slot
    <2> QED
      BY <2>2, LeaderKeeps
  <1>6. /\ out \in [Node -> Seq(Request)] /\ new \in [Node -> Seq(Request)]
        /\ highest_committed \in [Node -> Nat] /\ highest_committed' \in [Node -> Nat]
    <2>1. highest_committed \in [Node -> 0..MaxReq] /\ highest_committed' \in [Node -> 0..MaxReq]
      BY DEF TypeOK
    <2> QED
      BY <1>3, <1>4, <2>1
  <1>7. /\ Follows(out, highest_committed, a) /\ Follows(new, highest_committed', b)
        /\ Moves(n, highest_committed, highest_committed')
    <2> HIDE DEF a, b, out, new
    <2> QED
      BY <1>1, <1>3, <1>4, <1>6 DEF Follows, Moves
  <1>8. /\ out[Leader] = Reqs(delivered[Leader]) /\ new[Leader] = Reqs(delivered'[Leader])
        /\ new[Leader] \in Seq(Request)
    BY <1>2, <1>4
  <1> HIDE DEF a, b, out, new
  <1>10. \/ new = out
         \/ /\ Len(new[Leader]) > Len(out[Leader])
            /\ \A i \in 1..Len(out[Leader]) : new[Leader][i] = out[Leader][i]
            /\ new = [out EXCEPT ![Leader] = new[Leader]]
         \/ /\ n \in Node \ {Leader}
            /\ new[Leader] = out[Leader]
            /\ \/ \E k \in (Len(out[n]) + 1)..Len(out[Leader]) :
                     new = [out EXCEPT ![n] = [i \in 1..k |-> out[Leader][i]]]
               \/ new = [out EXCEPT ![n] = <<>>]
    BY <1>5, <1>7, PrefixStep
  <1>11. CASE new = out
    <2>1. UNCHANGED Log!vars
      BY <1>8, <1>11 DEF out, new, Log!vars
    <2> QED
      BY <2>1
  <1>12. CASE /\ Len(new[Leader]) > Len(out[Leader])
              /\ \A i \in 1..Len(out[Leader]) : new[Leader][i] = out[Leader][i]
              /\ new = [out EXCEPT ![Leader] = new[Leader]]
    <2>1. Log!Agree
      BY <1>8, <1>12 DEF out, new, Log!Agree
    <2> QED
      BY <2>1 DEF Log!Next
  <1>13. CASE /\ n \in Node \ {Leader}
              /\ new[Leader] = out[Leader]
              /\ \E k \in (Len(out[n]) + 1)..Len(out[Leader]) :
                     new = [out EXCEPT ![n] = [i \in 1..k |-> out[Leader][i]]]
    <2>1. PICK k \in (Len(out[n]) + 1)..Len(out[Leader]) :
            new = [out EXCEPT ![n] = [i \in 1..k |-> out[Leader][i]]]
      BY <1>13
    <2>2. [i \in 1..k |-> out[Leader][i]] = [i \in 1..k |-> Reqs(delivered[Leader])[i]]
      BY <1>8
    <2>3. Log!Execute(n)
      BY <1>8, <1>13, <2>1, <2>2 DEF out, new, Log!Execute
    <2> QED
      BY <1>13, <2>3 DEF Log!Next
  <1>14. CASE /\ n \in Node \ {Leader}
              /\ new[Leader] = out[Leader]
              /\ new = [out EXCEPT ![n] = <<>>]
    <2>1. Log!StartOver(n)
      BY <1>8, <1>14 DEF out, new, Log!StartOver
    <2> QED
      BY <1>14, <2>1 DEF Log!Next
  <1> QED
    BY <1>10, <1>11, <1>12, <1>13, <1>14

(* When the group starts, the log and the outputs are empty. *)
LEMMA LogInit ==
    ASSUME Init
    PROVE  Log!Init
  <1>1. Reqs(<<>>) = <<>>
    BY DEF Reqs
  <1>2. \A x \in Node : Reqs(delivered[x]) = <<>>
    BY <1>1 DEF Init
  <1> QED
    BY <1>2, NodeAssumption DEF Log!Init

(* ImplementsLog: for every group and number of requests and faults, the     *)
(* consensus component implements one log that the leader extends and that   *)
(* every user call back is given in order from its start.                    *)
THEOREM Refinement == Spec => ImplementsLog
  <1>1. Init => Log!Init
    BY LogInit
  <1>2. (TypeOK /\ AgreementInv) /\ (TypeOK /\ AgreementInv)' /\ [Next]_vars
        => [Log!Next]_(Log!vars)
    BY StepFacts, LogStep
  <1> QED
    BY <1>1, <1>2, Invariance, PTL DEF Spec, ImplementsLog, Log!Spec
--------------------------------------------------------------------------------
(* Durability, in a group whose ids stay below the sign bit of int and whose *)
(* hosts do not crash.                                                       *)
SafeGroup ==
    /\ MaxPowerLoss = 0
    /\ \A n \in Node : n < INT_BITS - 1

(* Below the sign bit, 1<<id is the bit of the node and no other. *)
LEMMA OwnBit ==
    ASSUME SafeGroup, NEW n \in Node
    PROVE  node_bit(n) = {n}
  <1>1. n \in Nat /\ INT_BITS \in Nat /\ n < INT_BITS - 1
    BY NodeAssumption, SizeAssumption DEF SafeGroup
  <1>2. n % INT_BITS = n
    BY <1>1
  <1> QED
    BY <1>1, <1>2 DEF node_bit

(* Only a host crash counts as an outage, and the cap bounds them. *)
LEMMA OutageStep ==
    ASSUME [Next]_vars
    PROVE  outages' = outages \/ outages < MaxPowerLoss
  <1>1. CASE \E n \in Entry, r \in Request : consensus_submit_request(n, r)
    BY <1>1 DEF consensus_submit_request
  <1>2. CASE \E c \in Chan : consensus_handle_msg(c[1], c[2])
    BY <1>2, ZenonT(60) DEF consensus_handle_msg
  <1>3. CASE consensus_make_progress
    BY <1>3 DEF consensus_make_progress
  <1>4. CASE \E n \in Node \ {Leader} : handle_ping_req(n)
    BY <1>4 DEF handle_ping_req
  <1>5. CASE \E c \in Chan : LoseMsg(c)
    BY <1>5 DEF LoseMsg
  <1>6. CASE \E n \in Node \ {Leader} : Restart(n)
    BY <1>6 DEF Restart
  <1>7. CASE \E n \in Node \ {Leader} : PowerLoss(n)
    BY <1>7 DEF PowerLoss
  <1>8. CASE UNCHANGED vars
    BY <1>8 DEF vars
  <1> QED
    BY <1>1, <1>2, <1>3, <1>4, <1>5, <1>6, <1>7, <1>8 DEF Next

(* More bits are no fewer. *)
LEMMA MoreBits ==
    ASSUME NEW S, NEW T, IsFiniteSet(T), S \subseteq T, reached_quorum(S)
    PROVE  reached_quorum(T)
  <1>1. IsFiniteSet(S) /\ Cardinality(S) <= Cardinality(T)
        /\ Cardinality(S) \in Nat /\ Cardinality(T) \in Nat
    BY FS_Subset, FS_CardinalityType
  <1>2. (GroupSize \div 2) + 1 \in Int
    BY SizeAssumption
  <1> QED
    BY <1>1, <1>2 DEF reached_quorum

(* Every step preserves DurabilityInv in such a group. *)
LEMMA DurableStep ==
    ASSUME SafeGroup, TypeOK, AgreementInv, DurabilityInv, [Next]_vars,
           TypeOK', AgreementInv'
    PROVE  DurabilityInv'
  <1>1. StepOK
    BY StepFacts
  <1>2. outages' = 0 /\ outages' = outages
    BY OutageStep DEF DurabilityInv, SafeGroup
  <1>3. ASSUME NEW n \in Node, NEW k \in Slot, db[n][k] # NoRecord
        PROVE  db'[n][k] # NoRecord
    <2>1. \/ db'[n][k] = db[n][k]
          \/ \E c \in Chan : \E m \in MsgsOf(net, c) :
                m.type = "ACCEPT_REQ" /\ db'[n][k] = m.data
      BY <1>1, <1>2, <1>3 DEF StepOK, DbStep
    <2>2. ASSUME NEW c \in Chan, NEW m \in MsgsOf(net, c), m.type = "ACCEPT_REQ"
          PROVE  m.data # NoRecord
      <3>1. m \in Msg
        BY DEF TypeOK, MsgsOf
      <3> QED
        BY <2>2, <3>1, MsgFields, RecordAssumption
    <2> QED
      BY <1>3, <2>1, <2>2
  <1>4. \A c \in Chan : \A m \in MsgsOf(net, c) :
           m.type = "ACCEPT_ACK" => m.vs \in Slot /\ db[c[1]][m.vs] # NoRecord
    <2> SUFFICES ASSUME NEW c \in Chan, NEW m \in MsgsOf(net, c), m.type = "ACCEPT_ACK"
                 PROVE  m.vs \in Slot /\ db[c[1]][m.vs] # NoRecord
      OBVIOUS
    <2>1. m \in Msg
      BY DEF TypeOK, MsgsOf
    <2> QED
      BY <2>1, MsgFields DEF DurabilityInv, MsgsOf
  <1>5. ASSUME NEW k \in Slot, NEW n \in bit_map'[k]
        PROVE  n \in Node /\ db'[n][k] # NoRecord
    <2>1. bit_map[k] \subseteq {x \in Node : db[x][k] # NoRecord}
      BY DEF DurabilityInv
    <2>2. CASE bit_map'[k] = bit_map[k]
      BY <1>3, <1>5, <2>1, <2>2
    <2>3. CASE db'[Leader][k] # NoRecord /\ bit_map'[k] = node_bit(Leader)
      BY <1>5, <2>3, NodeAssumption, OwnBit
    <2>4. CASE \E s \in Node : <<s, Leader>> \in Chan /\ \E m \in MsgsOf(net, <<s, Leader>>) :
                 /\ m.type = "ACCEPT_ACK" /\ m.vs = k
                 /\ bit_map'[k] = bit_map[k] \cup node_bit(s)
      <3>1. PICK s \in Node : <<s, Leader>> \in Chan /\ \E m \in MsgsOf(net, <<s, Leader>>) :
                 /\ m.type = "ACCEPT_ACK" /\ m.vs = k
                 /\ bit_map'[k] = bit_map[k] \cup node_bit(s)
        BY <2>4
      <3>2. db[s][k] # NoRecord
        BY <1>4, <3>1
      <3>3. n \in bit_map[k] \/ n = s
        BY <1>5, <3>1, OwnBit
      <3> QED
        BY <1>3, <2>1, <3>2, <3>3
    <2> QED
      BY <1>1, <2>2, <2>3, <2>4 DEF StepOK, BitStep
  <1>6. ASSUME NEW c \in Chan, NEW m \in MsgsOf(net', c), m.type = "ACCEPT_ACK"
        PROVE  db'[c[1]][m.vs] # NoRecord
    <2>1. m \in MsgsOf(net, c) \/ db'[c[1]][m.vs] # NoRecord
      BY <1>1, <1>6 DEF StepOK, NetStep, NewMsg
    <2>2. c[1] \in Node
      BY DEF Chan
    <2> QED
      BY <1>3, <1>4, <1>6, <2>1, <2>2
  <1>7. ASSUME NEW k \in 1..highest_to_commit'[Leader]
        PROVE  reached_quorum(bit_map'[k])
    <2>1. /\ highest_to_commit[Leader] \in 0..MaxReq /\ highest_to_commit'[Leader] \in 0..MaxReq
          /\ highest_seen[Leader] \in 0..MaxReq /\ MaxReq \in Nat
          /\ highest_to_commit[Leader] <= highest_seen[Leader]
      BY NodeAssumption, BoundAssumption DEF TypeOK, AgreementInv, LeaderInv
    <2>2. CASE k > highest_to_commit[Leader]
      BY <1>1, <1>7, <2>1, <2>2 DEF StepOK, QuorumStep
    <2>3. CASE ~(k > highest_to_commit[Leader])
      <3>1. k \in 1..highest_to_commit[Leader] /\ k \in Slot /\ ~(k > highest_seen[Leader])
        BY <1>7, <2>1, <2>3 DEF Slot
      <3>2. bit_map[k] \subseteq bit_map'[k]
        BY <1>1, <3>1 DEF StepOK, BitStep
      <3>3. IsFiniteSet(bit_map'[k])
        <4>1. IsFiniteSet(0..(MAP_BITS - 1))
          BY FS_Interval, SizeAssumption
        <4>2. bit_map'[k] \subseteq 0..(MAP_BITS - 1)
          BY <3>1 DEF TypeOK
        <4> QED
          BY <4>1, <4>2, FS_Subset
      <3>4. reached_quorum(bit_map[k])
        BY <3>1 DEF DurabilityInv
      <3> QED
        BY <3>2, <3>3, <3>4, MoreBits
    <2> QED
      BY <2>2, <2>3
  <1> QED
    BY <1>2, <1>5, <1>6, <1>7 DEF DurabilityInv, MsgsOf

(* There are finitely many nodes. *)
LEMMA NodeFinite == IsFiniteSet(Node)
  <1>1. IsFiniteSet(0..(GroupSize - 1))
    BY FS_Interval, SizeAssumption
  <1>2. \A n \in Node : n \in 0..(GroupSize - 1)
    BY NodeAssumption, SizeAssumption
  <1> QED
    BY <1>1, <1>2, FS_Subset, Zenon

(* DurabilityInv: in such a group a bit of bit_map is set only for a node    *)
(* that stores the record, and the leader counts a quorum of such nodes.     *)
THEOREM DurabilityHolds ==
    ASSUME SafeGroup
    PROVE  Spec => []DurabilityInv
  <1>1. Init => DurabilityInv
    <2> SUFFICES ASSUME Init PROVE DurabilityInv
      OBVIOUS
    <2>1. Len(<<>>) = 0
      OBVIOUS
    <2>2. highest_to_commit[Leader] = 0
      BY NodeAssumption DEF Init
    <2> QED
      BY <2>1, <2>2 DEF Init, DurabilityInv
  <1>2. /\ TypeOK /\ AgreementInv /\ DurabilityInv /\ [Next]_vars
        /\ (TypeOK /\ AgreementInv)'
        => DurabilityInv'
    BY DurableStep
  <1> QED
    BY <1>1, <1>2, Invariance, PTL DEF Spec

(* QuorumDurability: in such a group a request that any node has executed is *)
(* in the databases of a majority, and stays there.                          *)
THEOREM QuorumDurabilityHolds ==
    ASSUME SafeGroup
    PROVE  Spec => []QuorumDurability
  <1>1. TypeOK /\ AgreementInv /\ DurabilityInv => QuorumDurability
    <2> SUFFICES ASSUME TypeOK, AgreementInv, DurabilityInv,
                        NEW n \in Node, NEW k \in 1..Len(delivered[n])
                 PROVE  Cardinality(Holders(k)) >= (GroupSize \div 2) + 1
      BY DEF QuorumDurability
    <2>1. /\ Len(delivered[n]) = highest_committed[n]
          /\ highest_committed[n] <= highest_to_commit[n]
          /\ highest_to_commit[n] <= highest_to_commit[Leader]
          /\ highest_committed[n] \in 0..MaxReq /\ highest_to_commit[n] \in 0..MaxReq
          /\ highest_to_commit[Leader] \in 0..MaxReq /\ MaxReq \in Nat
      BY NodeAssumption, BoundAssumption DEF TypeOK, AgreementInv, NodeInv
    <2>2. k \in 1..highest_to_commit[Leader] /\ k \in Slot
      BY <2>1 DEF Slot
    <2>3. reached_quorum(bit_map[k])
      BY <2>2 DEF DurabilityInv
    <2>4. bit_map[k] \subseteq Holders(k)
      BY <2>2 DEF DurabilityInv, Holders, AgreementInv, NodeInv
    <2>5. IsFiniteSet(Holders(k))
      <3>1. Holders(k) \in SUBSET Node
        BY DEF Holders
      <3> QED
        BY <3>1, NodeFinite, FS_Subset
    <2>6. reached_quorum(Holders(k))
      BY <2>3, <2>4, <2>5, MoreBits
    <2> QED
      BY <2>6 DEF reached_quorum
  <1> QED
    BY <1>1, Invariance, DurabilityHolds, PTL
--------------------------------------------------------------------------------
(* Executed once. *)

(* M forwards no more than N, and nothing twice. *)
NoMore(M, N) == ForwardedOnce(M) /\ FwdReqs(M) \subseteq FwdReqs(N)

(* If each connection of M is the one of N, or empty, M forwards no more. *)
LEMMA OnceErase ==
    ASSUME NEW N, NEW M, ForwardedOnce(N),
           \A c \in Chan : M[c] = N[c] \/ M[c] = <<>>
    PROVE  NoMore(M, N)
  <1>1. Len(<<>>) = 0
    OBVIOUS
  <1>2. \A c \in Chan : \A i \in 1..Len(M[c]) : M[c] = N[c]
    BY <1>1
  <1> QED
    BY <1>2 DEF NoMore, ForwardedOnce, FwdReqs

(* A FORWARD_REQ that is taken off a connection was the only one of its       *)
(* request.                                                                  *)
LEMMA OnceDequeue ==
    ASSUME NEW N \in Network, NEW c \in Chan, N[c] # <<>>, ForwardedOnce(N),
           NEW M, M = Dequeue(N, c), NEW m, m = Head(N[c])
    PROVE  /\ NoMore(M, N)
           /\ m.type = "FORWARD_REQ" =>
                 m.data.req \in FwdReqs(N) /\ m.data.req \notin FwdReqs(M)
  <1>1. N[c] \in Seq(Msg)
    BY DEF Network
  <1>2. /\ m \in Msg
        /\ m = N[c][1]
        /\ 1 \in 1..Len(N[c])
        /\ Len(Tail(N[c])) = Len(N[c]) - 1
        /\ \A i \in 1..Len(Tail(N[c])) : Tail(N[c])[i] = N[c][i + 1]
    BY <1>1, TailFacts
  <1>3. M[c] = Tail(N[c]) /\ \A x \in Chan : x # c => M[x] = N[x]
    BY DEF Network, Dequeue
  <1> DEFINE pos(x, i) == IF x = c THEN i + 1 ELSE i
  <1>4. ASSUME NEW x \in Chan, NEW i \in 1..Len(M[x])
        PROVE  pos(x, i) \in 1..Len(N[x]) /\ M[x][i] = N[x][pos(x, i)]
    <2>1. CASE x = c
      <3>1. Len(N[c]) \in Nat
        BY <1>1
      <3>2. M[x] = Tail(N[c]) /\ i \in 1..Len(Tail(N[c]))
        BY <1>3, <2>1
      <3>3. i \in 1..(Len(N[c]) - 1)
        BY <1>2, <3>2
      <3>4. M[x][i] = N[c][i + 1] /\ i + 1 \in 1..Len(N[c])
        BY <1>2, <3>1, <3>2, <3>3
      <3> QED
        BY <2>1, <3>4
    <2>2. CASE x # c
      BY <1>3, <2>2
    <2> QED
      BY <2>1, <2>2
  <1>5. ForwardedOnce(M)
    <2> SUFFICES ASSUME NEW x \in Chan, NEW y \in Chan,
                        NEW i \in 1..Len(M[x]), NEW j \in 1..Len(M[y]),
                        M[x][i].type = "FORWARD_REQ", M[y][j].type = "FORWARD_REQ",
                        M[x][i].data.req = M[y][j].data.req
                 PROVE  x = y /\ i = j
      BY DEF ForwardedOnce
    <2>1. /\ pos(x, i) \in 1..Len(N[x]) /\ M[x][i] = N[x][pos(x, i)]
          /\ pos(y, j) \in 1..Len(N[y]) /\ M[y][j] = N[y][pos(y, j)]
      BY <1>4
    <2> HIDE DEF pos
    <2>2. x = y /\ pos(x, i) = pos(y, j)
      BY <2>1 DEF ForwardedOnce
    <2> QED
      BY <2>2 DEF pos
  <1>6. FwdReqs(M) \subseteq FwdReqs(N)
    <2> HIDE DEF pos
    <2> QED
      BY <1>4 DEF FwdReqs
  <1>7. ASSUME m.type = "FORWARD_REQ"
        PROVE  m.data.req \in FwdReqs(N) /\ m.data.req \notin FwdReqs(M)
    <2>1. m.data.req \in Request
      BY <1>2, <1>7, MsgFields DEF Data
    <2>2. m.data.req \in FwdReqs(N)
      BY <1>2, <1>7, <2>1 DEF FwdReqs
    <2>3. ASSUME NEW x \in Chan, NEW i \in 1..Len(M[x]),
                 M[x][i].type = "FORWARD_REQ", M[x][i].data.req = m.data.req
          PROVE  FALSE
      <3>1. pos(x, i) \in 1..Len(N[x]) /\ M[x][i] = N[x][pos(x, i)]
        BY <1>4
      <3> HIDE DEF pos
      <3>2. x = c /\ pos(x, i) = 1
        BY <1>2, <1>7, <2>3, <3>1 DEF ForwardedOnce
      <3> QED
        BY <3>2 DEF pos
    <2> QED
      BY <2>2, <2>3 DEF FwdReqs
  <1> QED
    BY <1>5, <1>6, <1>7 DEF NoMore

(* A connection extended by messages that forward nothing forwards no more.  *)
LEMMA OnceExtend ==
    ASSUME NEW N, NEW M, ForwardedOnce(N),
           \A c \in Chan : \A i \in 1..Len(M[c]) :
              \/ i \in 1..Len(N[c]) /\ M[c][i] = N[c][i]
              \/ M[c][i].type # "FORWARD_REQ"
    PROVE  NoMore(M, N)
  <1>1. ForwardedOnce(M)
    <2> SUFFICES ASSUME NEW x \in Chan, NEW y \in Chan,
                        NEW i \in 1..Len(M[x]), NEW j \in 1..Len(M[y]),
                        M[x][i].type = "FORWARD_REQ", M[y][j].type = "FORWARD_REQ",
                        M[x][i].data.req = M[y][j].data.req
                 PROVE  x = y /\ i = j
      BY DEF ForwardedOnce
    <2>1. /\ i \in 1..Len(N[x]) /\ M[x][i] = N[x][i]
          /\ j \in 1..Len(N[y]) /\ M[y][j] = N[y][j]
      OBVIOUS
    <2> QED
      BY <2>1 DEF ForwardedOnce
  <1>2. FwdReqs(M) \subseteq FwdReqs(N)
    BY DEF FwdReqs
  <1> QED
    BY <1>1, <1>2 DEF NoMore

(* send_to_one_node, of a message that is not a FORWARD_REQ, or is the first  *)
(* one of its request.                                                       *)
LEMMA OnceSend ==
    ASSUME NEW N \in Network, ForwardedOnce(N), NEW s, NEW d, <<s, d>> \in Chan,
           NEW m \in Msg, NEW M, M = send_to_one_node(N, s, d, m)
    PROVE  /\ m.type # "FORWARD_REQ" => NoMore(M, N)
           /\ m.type = "FORWARD_REQ" /\ m.data.req \notin FwdReqs(N)
                => ForwardedOnce(M) /\ FwdReqs(M) \subseteq FwdReqs(N) \cup {m.data.req}
  <1> DEFINE c == <<s, d>>
  <1>1. c \in Chan /\ N[c] \in Seq(Msg) /\ M = [N EXCEPT ![c] = Append(N[c], m)]
    BY DEF Network, send_to_one_node
  <1> HIDE DEF c
  <1>2. M[c] = Append(N[c], m) /\ \A x \in Chan : x # c => M[x] = N[x]
    BY <1>1 DEF Network
  <1>3. Len(M[c]) = Len(N[c]) + 1 /\ Len(N[c]) \in Nat /\ M[c][Len(N[c]) + 1] = m
        /\ \A i \in 1..Len(N[c]) : M[c][i] = N[c][i]
    BY <1>1, <1>2
  <1>4. \A x \in Chan : \A i \in 1..Len(M[x]) :
          \/ i \in 1..Len(N[x]) /\ M[x][i] = N[x][i]
          \/ x = c /\ i = Len(N[c]) + 1 /\ M[x][i] = m
    <2> SUFFICES ASSUME NEW x \in Chan, NEW i \in 1..Len(M[x])
                 PROVE  \/ i \in 1..Len(N[x]) /\ M[x][i] = N[x][i]
                        \/ x = c /\ i = Len(N[c]) + 1 /\ M[x][i] = m
      OBVIOUS
    <2>1. CASE x = c
      BY <1>3, <2>1
    <2>2. CASE x # c
      BY <1>2, <2>2
    <2> QED
      BY <2>1, <2>2
  <1>5. CASE m.type # "FORWARD_REQ"
    BY <1>4, <1>5, OnceExtend
  <1>6. ASSUME m.type = "FORWARD_REQ", m.data.req \notin FwdReqs(N)
        PROVE  ForwardedOnce(M) /\ FwdReqs(M) \subseteq FwdReqs(N) \cup {m.data.req}
    <2>1. m.data.req \in Request
      BY <1>6, MsgFields DEF Data
    <2>2. \A x \in Chan : \A i \in 1..Len(N[x]) :
             N[x][i].type = "FORWARD_REQ" => N[x][i].data.req # m.data.req
      BY <1>6, <2>1 DEF FwdReqs
    <2>3. ForwardedOnce(M)
      <3> SUFFICES ASSUME NEW x \in Chan, NEW y \in Chan,
                          NEW i \in 1..Len(M[x]), NEW j \in 1..Len(M[y]),
                          M[x][i].type = "FORWARD_REQ", M[y][j].type = "FORWARD_REQ",
                          M[x][i].data.req = M[y][j].data.req
                   PROVE  x = y /\ i = j
        BY DEF ForwardedOnce
      <3>1. \/ i \in 1..Len(N[x]) /\ M[x][i] = N[x][i]
            \/ x = c /\ i = Len(N[c]) + 1 /\ M[x][i] = m
        BY <1>4
      <3>2. \/ j \in 1..Len(N[y]) /\ M[y][j] = N[y][j]
            \/ y = c /\ j = Len(N[c]) + 1 /\ M[y][j] = m
        BY <1>4
      <3>3. CASE i \in 1..Len(N[x]) /\ M[x][i] = N[x][i]
        <4>1. j \in 1..Len(N[y]) /\ M[y][j] = N[y][j]
          BY <2>2, <3>2, <3>3
        <4> QED
          BY <3>3, <4>1 DEF ForwardedOnce
      <3>4. CASE x = c /\ i = Len(N[c]) + 1 /\ M[x][i] = m
        <4>1. y = c /\ j = Len(N[c]) + 1
          BY <2>2, <3>2, <3>4
        <4> QED
          BY <3>4, <4>1
      <3> QED
        BY <3>1, <3>3, <3>4
    <2>4. FwdReqs(M) \subseteq FwdReqs(N) \cup {m.data.req}
      BY <1>4 DEF FwdReqs
    <2> QED
      BY <2>3, <2>4
  <1> QED
    BY <1>5, <1>6

(* send_to_other_nodes, of messages that are not FORWARD_REQs. *)
LEMMA OnceBroadcast ==
    ASSUME NEW N \in Network, ForwardedOnce(N), NEW s, NEW ms \in Seq(Msg),
           \A i \in 1..Len(ms) : ms[i].type # "FORWARD_REQ",
           NEW M, M = send_to_other_nodes(N, s, ms)
    PROVE  NoMore(M, N)
  <1>1. ASSUME NEW x \in Chan, NEW i \in 1..Len(M[x])
        PROVE  \/ i \in 1..Len(N[x]) /\ M[x][i] = N[x][i]
               \/ M[x][i].type # "FORWARD_REQ"
    <2>1. N[x] \in Seq(Msg)
      BY DEF Network
    <2>2. CASE x[1] = s
      <3>1. M[x] = N[x] \o ms
        BY <2>2 DEF send_to_other_nodes
      <3>2. /\ Len(N[x] \o ms) = Len(N[x]) + Len(ms)
            /\ \A j \in 1..Len(N[x] \o ms) :
                 (N[x] \o ms)[j] = IF j <= Len(N[x]) THEN N[x][j] ELSE ms[j - Len(N[x])]
        BY <2>1, ConcatFacts
      <3>3. Len(N[x]) \in Nat /\ Len(ms) \in Nat /\ i \in 1..(Len(N[x]) + Len(ms))
        BY <2>1, <3>1, <3>2
      <3>4. CASE i <= Len(N[x])
        BY <3>1, <3>2, <3>3, <3>4
      <3>5. CASE ~(i <= Len(N[x]))
        <4>1. i - Len(N[x]) \in 1..Len(ms) /\ M[x][i] = ms[i - Len(N[x])]
          BY <3>1, <3>2, <3>3, <3>5
        <4> QED
          BY <4>1
      <3> QED
        BY <3>4, <3>5
    <2>3. CASE x[1] # s
      <3>1. M[x] = N[x]
        BY <2>3 DEF send_to_other_nodes
      <3> QED
        BY <3>1
    <2> QED
      BY <2>2, <2>3
  <1> QED
    BY <1>1, OnceExtend

(* try_to_execute forwards nothing. *)
LEMMA OnceTry ==
    ASSUME TypeOK, NEW n \in Node, NEW tc \in 0..MaxReq, NEW seen \in 0..MaxReq,
           NEW row, NEW bits, NEW N \in Network, ForwardedOnce(N),
           try_to_execute(n, tc, seen, row, bits, N)
    PROVE  NoMore(net', N)
  <1> DEFINE c == highest_committed[n]
  <1>1. c \in 0..MaxReq /\ MaxReq \in Nat
    BY BoundAssumption DEF TypeOK
  <1>2. CASE cur_view[n] = 0
    <2>1. net' = N
      BY <1>2 DEF try_to_execute
    <2> QED
      BY <2>1 DEF NoMore
  <1>3. CASE cur_view[n] # 0
    <2>1. PICK end \in leader_try_to_execute(n, tc, seen, bits) :
            \E missing \in Ascending(((c + 1)..end) \ Stored(row)) :
               net' = send_to_other_nodes(N, n,
                        [i \in DOMAIN missing |->
                            [type |-> "MISSING_REQ", vs |-> missing[i]]])
      BY <1>3 DEF try_to_execute
    <2>2. end \in 0..MaxReq
      <3>1. CASE n = Leader
        <4>1. end \in LoopExit(tc, seen, {k \in Slot : reached_quorum(bits[k])})
          BY <3>1 DEF leader_try_to_execute
        <4>2. end \in Nat /\ (end = tc \/ end <= seen)
          BY <1>1, <4>1, LoopExitFacts
        <4> QED
          BY <1>1, <4>2
      <3>2. CASE n # Leader
        BY <3>2 DEF leader_try_to_execute
      <3> QED
        BY <3>1, <3>2
    <2> DEFINE S == ((c + 1)..end) \ Stored(row)
    <2>3. PICK missing \in Ascending(S) :
            net' = send_to_other_nodes(N, n,
                        [i \in DOMAIN missing |->
                            [type |-> "MISSING_REQ", vs |-> missing[i]]])
      BY <2>1
    <2> DEFINE ms == [i \in DOMAIN missing |-> [type |-> "MISSING_REQ", vs |-> missing[i]]]
    <2>4. S \in SUBSET Slot
      BY <1>1, <2>2 DEF Slot
    <2>5. missing \in Seq(S) /\ DOMAIN missing = 1..Len(missing) /\ Len(missing) \in Nat
      BY <2>4, AscendingFacts
    <2>6. \A i \in 1..Len(missing) : [type |-> "MISSING_REQ", vs |-> missing[i]] \in Msg
      BY <2>4, <2>5 DEF Msg
    <2>7. ms \in Seq(Msg) /\ \A i \in 1..Len(ms) : ms[i].type # "FORWARD_REQ"
      BY <2>5, <2>6
    <2>8. net' = send_to_other_nodes(N, n, ms)
      BY <2>3
    <2> HIDE DEF ms
    <2> QED
      BY <2>7, <2>8, OnceBroadcast
  <1> QED
    BY <1>2, <1>3

(* Forwarding no more is transitive. *)
LEMMA NoMoreTrans ==
    ASSUME NEW K, NEW M, NEW N, NoMore(K, M), NoMore(M, N)
    PROVE  NoMore(K, N)
  BY DEF NoMore

(* If the leader has put no new request in a slot, its records are the same. *)
LEMMA LeaderSame ==
    ASSUME TypeOK, AgreementInv, StepOK, TypeOK', AgreementInv',
           highest_seen'[Leader] = highest_seen[Leader], NEW k \in Slot
    PROVE  db'[Leader][k] = db[Leader][k]
  <1>1. /\ db[Leader][k] # NoRecord <=> k <= highest_seen[Leader]
        /\ db'[Leader][k] # NoRecord <=> k <= highest_seen[Leader]
    BY DEF AgreementInv, LeaderInv
  <1> QED
    BY <1>1, LeaderKeeps

(* A step that forwards no more and gives no slot preserves OnceInv. *)
LEMMA OnceQuiet ==
    ASSUME OnceInv, TypeOK, AgreementInv, StepOK, TypeOK', AgreementInv',
           highest_seen'[Leader] = highest_seen[Leader],
           NoMore(net', net), submitted \subseteq submitted'
    PROVE  OnceInv'
  <1>1. \A k \in Slot : db'[Leader][k] = db[Leader][k]
    BY LeaderSame
  <1>2. ForwardedOnce(net') /\ FwdReqs(net') \subseteq FwdReqs(net)
    BY DEF NoMore
  <1>3. /\ FwdReqs(net) \subseteq submitted
        /\ \A k \in Slot : db[Leader][k] # NoRecord =>
              db[Leader][k].req \in submitted \ FwdReqs(net)
        /\ \A j, k \in Slot :
              /\ db[Leader][j] # NoRecord /\ db[Leader][k] # NoRecord
              /\ db[Leader][j].req = db[Leader][k].req
              => j = k
    BY DEF OnceInv
  <1>4. /\ FwdReqs(net') \subseteq submitted'
        /\ \A k \in Slot : db'[Leader][k] # NoRecord =>
              db'[Leader][k].req \in submitted' \ FwdReqs(net')
        /\ \A j, k \in Slot :
              /\ db'[Leader][j] # NoRecord /\ db'[Leader][k] # NoRecord
              /\ db'[Leader][j].req = db'[Leader][k].req
              => j = k
    BY <1>1, <1>2, <1>3
  <1> QED
    BY <1>2, <1>4 DEF OnceInv, ForwardedOnce, FwdReqs

(* A step that gives the next slot to a request which is nowhere else        *)
(* preserves OnceInv.                                                        *)
LEMMA OncePlace ==
    ASSUME OnceInv, TypeOK, AgreementInv, StepOK, TypeOK', AgreementInv',
           highest_seen'[Leader] = highest_seen[Leader] + 1,
           NEW r, db'[Leader][highest_seen[Leader] + 1].req = r,
           NoMore(net', net), r \notin FwdReqs(net'),
           submitted \subseteq submitted', r \in submitted',
           \A k \in Slot : db[Leader][k] # NoRecord => db[Leader][k].req # r
    PROVE  OnceInv'
  <1> DEFINE next == highest_seen[Leader] + 1
  <1>1. /\ highest_seen[Leader] \in Nat
        /\ \A k \in Slot : k \in Nat
        /\ \A k \in Slot : db[Leader][k] # NoRecord <=> k <= highest_seen[Leader]
        /\ \A k \in Slot : db'[Leader][k] # NoRecord <=> k <= next
    BY NodeAssumption, BoundAssumption DEF TypeOK, AgreementInv, LeaderInv, Slot
  <1>2. \A k \in Slot : k <= highest_seen[Leader] => db'[Leader][k] = db[Leader][k]
    BY LeaderKeeps
  <1>3. \A k \in Slot : db'[Leader][k] # NoRecord =>
           \/ k = next /\ db'[Leader][k].req = r
           \/ db[Leader][k] # NoRecord /\ db'[Leader][k] = db[Leader][k]
    <2> SUFFICES ASSUME NEW k \in Slot, db'[Leader][k] # NoRecord
        PROVE  \/ k = next /\ db'[Leader][k].req = r
               \/ db[Leader][k] # NoRecord /\ db'[Leader][k] = db[Leader][k]
      OBVIOUS
    <2>1. k = next \/ k <= highest_seen[Leader]
      BY <1>1
    <2> QED
      BY <1>1, <1>2, <2>1
  <1>4. ForwardedOnce(net') /\ FwdReqs(net') \subseteq FwdReqs(net)
    BY DEF NoMore
  <1>5. /\ FwdReqs(net) \subseteq submitted
        /\ \A k \in Slot : db[Leader][k] # NoRecord =>
              db[Leader][k].req \in submitted \ FwdReqs(net)
        /\ \A j, k \in Slot :
              /\ db[Leader][j] # NoRecord /\ db[Leader][k] # NoRecord
              /\ db[Leader][j].req = db[Leader][k].req
              => j = k
    BY DEF OnceInv
  <1> HIDE DEF next
  <1>6. FwdReqs(net') \subseteq submitted'
    BY <1>4, <1>5
  <1>7. \A k \in Slot : db'[Leader][k] # NoRecord =>
           db'[Leader][k].req \in submitted' \ FwdReqs(net')
    BY <1>3, <1>4, <1>5
  <1>8. \A j, k \in Slot :
           /\ db'[Leader][j] # NoRecord /\ db'[Leader][k] # NoRecord
           /\ db'[Leader][j].req = db'[Leader][k].req
           => j = k
    BY <1>3, <1>5
  <1> QED
    BY <1>4, <1>6, <1>7, <1>8 DEF OnceInv, ForwardedOnce, FwdReqs

(* The leader gives a slot to a request that is nowhere else, or fails to    *)
(* store it.                                                                 *)
LEMMA OnceSubmit ==
    ASSUME OnceInv, TypeOK, AgreementInv, StepOK, TypeOK', AgreementInv',
           NEW data \in Data, NEW N \in Network, NoMore(N, net),
           leader_handle_submit_req(Leader, data, N),
           data.req \notin FwdReqs(N),
           submitted \subseteq submitted', data.req \in submitted',
           \A k \in Slot : db[Leader][k] # NoRecord => db[Leader][k].req # data.req
    PROVE  OnceInv'
  <1> DEFINE next == highest_seen[Leader] + 1
             row  == [db[Leader] EXCEPT ![next] = data]
             bits == [bit_map EXCEPT ![next] = node_bit(Leader)]
  <1>1. /\ highest_seen \in [Node -> 0..MaxReq] /\ db \in [Node -> Row]
        /\ highest_to_commit \in [Node -> 0..MaxReq]
        /\ Leader \in Node /\ MaxReq \in Nat
        /\ ForwardedOnce(N)
    BY NodeAssumption, BoundAssumption DEF TypeOK, Row, NoMore
  <1>2. next \in Slot /\ next \in 0..MaxReq
    BY <1>1 DEF leader_handle_submit_req, Slot
  <1>3. ASSUME highest_seen' = [highest_seen EXCEPT ![Leader] = next],
               db' = [db EXCEPT ![Leader] = row], NoMore(net', N)
        PROVE  OnceInv'
    <2>1. highest_seen'[Leader] = highest_seen[Leader] + 1 /\ db'[Leader][next] = data
      BY <1>1, <1>2, <1>3 DEF Row
    <2>2. NoMore(net', net) /\ data.req \notin FwdReqs(net')
      BY <1>3, NoMoreTrans DEF NoMore
    <2> QED
      BY <2>1, <2>2, OncePlace
  <1>4. CASE /\ highest_seen' = [highest_seen EXCEPT ![Leader] = next]
             /\ db' = [db EXCEPT ![Leader] = row]
             /\ net' = send_to_other_nodes(N, Leader, <<build_accept_req(Leader, next, data)>>)
    <2> DEFINE r == build_accept_req(Leader, next, data)
               ms == <<r>>
    <2>1. r = [type |-> "ACCEPT_REQ", vs |-> next, exed |-> highest_to_commit[Leader], data |-> data]
      BY DEF build_accept_req
    <2>2. r \in Msg /\ r.type # "FORWARD_REQ"
      BY <1>1, <1>2, <2>1, MakeMsg
    <2> HIDE DEF r
    <2>3. ms \in Seq(Msg) /\ \A i \in 1..Len(ms) : ms[i].type # "FORWARD_REQ"
      BY <2>2
    <2>4. net' = send_to_other_nodes(N, Leader, ms)
      BY <1>4 DEF r
    <2> HIDE DEF ms
    <2>5. NoMore(net', N)
      BY <1>1, <2>3, <2>4, OnceBroadcast
    <2> QED
      BY <1>3, <1>4, <2>5
  <1>5. CASE /\ highest_seen' = [highest_seen EXCEPT ![Leader] = next]
             /\ db' = [db EXCEPT ![Leader] = row]
             /\ try_to_execute(Leader, highest_to_commit[Leader], next, row, bits, N)
    <2>1. highest_to_commit[Leader] \in 0..MaxReq
      BY <1>1
    <2> HIDE DEF row, bits, next
    <2>2. NoMore(net', N)
      BY <1>1, <1>2, <1>5, <2>1, OnceTry
    <2> QED
      BY <1>3, <1>5, <2>2
  <1>6. CASE net' = N /\ highest_seen' = highest_seen
    BY <1>6, OnceQuiet
  <1> QED
    BY <1>4, <1>5, <1>6 DEF leader_handle_submit_req

(* A client request is new, and goes to a slot or into one FORWARD_REQ.      *)
LEMMA OnceClient ==
    ASSUME OnceInv, TypeOK, AgreementInv, StepOK, TypeOK', AgreementInv',
           NEW n \in Node, NEW r \in Request, consensus_submit_request(n, r)
    PROVE  OnceInv'
  <1> DEFINE data == [req |-> r, intact |-> TRUE]
  <1>1. /\ data \in Data /\ data.req = r /\ cur_view[n] = 1
        /\ submitted' = submitted \cup {r} /\ r \notin submitted
    BY DEF Data, consensus_submit_request
  <1>2. net \in Network /\ Leader \in Node
    BY NodeAssumption DEF TypeOK, Network
  <1>3. /\ NoMore(net, net) /\ ForwardedOnce(net) /\ r \notin FwdReqs(net)
        /\ FwdReqs(net) \subseteq submitted
        /\ \A k \in Slot : db[Leader][k] # NoRecord =>
              db[Leader][k].req # r /\ db[Leader][k].req \in submitted \ FwdReqs(net)
    BY <1>1 DEF OnceInv, NoMore
  <1>4. CASE n = Leader
    <2>1. leader_handle_submit_req(Leader, data, net)
      BY <1>4 DEF consensus_submit_request
    <2> HIDE DEF data
    <2>2. submitted \subseteq submitted' /\ data.req \in submitted'
      BY <1>1
    <2> QED
      BY <1>1, <1>2, <1>3, <2>1, <2>2, OnceSubmit
  <1>5. CASE n # Leader
    <2> DEFINE m == [type |-> "FORWARD_REQ", data |-> data]
    <2>1. /\ net' = send_to_one_node(net, n, Leader, m)
          /\ highest_seen' = highest_seen
      BY <1>1, <1>5 DEF consensus_submit_request, leader_id
    <2>2. m \in Msg /\ m.type = "FORWARD_REQ" /\ m.data.req = r
      <3> HIDE DEF data
      <3> QED
        BY <1>1, MakeMsg
    <2>3. <<n, Leader>> \in Chan
      BY <1>2, <1>5 DEF Chan
    <2> HIDE DEF m
    <2>4. ForwardedOnce(net') /\ FwdReqs(net') \subseteq FwdReqs(net) \cup {r}
      BY <1>2, <1>3, <2>1, <2>2, <2>3, OnceSend
    <2>5. \A k \in Slot : db'[Leader][k] = db[Leader][k]
      BY <2>1, LeaderSame
    <2>6. FwdReqs(net') \subseteq submitted'
      BY <1>1, <1>3, <2>4
    <2>7. \A k \in Slot : db'[Leader][k] # NoRecord =>
             db'[Leader][k].req \in submitted' \ FwdReqs(net')
      BY <1>1, <1>3, <2>4, <2>5
    <2>8. \A j, k \in Slot :
             /\ db'[Leader][j] # NoRecord /\ db'[Leader][k] # NoRecord
             /\ db'[Leader][j].req = db'[Leader][k].req
             => j = k
      BY <2>5 DEF OnceInv
    <2> QED
      BY <2>4, <2>6, <2>7, <2>8 DEF OnceInv, ForwardedOnce, FwdReqs
  <1> QED
    BY <1>4, <1>5

(* Of the message handlers only that of FORWARD_REQ gives a slot, and none   *)
(* sends a FORWARD_REQ.                                                      *)
LEMMA OnceMsg ==
    ASSUME OnceInv, TypeOK, AgreementInv, StepOK, TypeOK', AgreementInv',
           NEW s \in Node, NEW n \in Node, s # n, consensus_handle_msg(s, n)
    PROVE  OnceInv'
  <1> DEFINE c == <<s, n>>
             m == Head(net[c])
             N == Dequeue(net, c)
  <1>1. <<s, n>> \in Chan /\ <<n, s>> \in Chan
    BY DEF Chan
  <1>2. net[c] # <<>> /\ submitted' = submitted
    BY DEF consensus_handle_msg
  <1>3. \/ m.type = "ACCEPT_REQ"  /\ handle_accept_req(s, n, m, N)
        \/ m.type = "ACCEPT_ACK"  /\ handle_accept_ack(s, n, m, N)
        \/ m.type = "MISSING_REQ" /\ handle_missing_req(s, n, m, N)
        \/ m.type = "MISSING_ACK" /\ handle_missing_ack(s, n, m, N)
        \/ m.type = "FORCE_EXEC"  /\ handle_force_exec(s, n, m, N)
        \/ m.type = "FORWARD_REQ" /\ handle_forward_req(s, n, m, N)
    BY HandleMsgCases
  <1>4. net \in Network /\ c \in Chan /\ ForwardedOnce(net)
    BY <1>1 DEF TypeOK, Network, OnceInv
  <1>5. /\ N \in Network /\ m \in Msg /\ NoMore(N, net)
        /\ m.type = "FORWARD_REQ" =>
              m.data.req \in FwdReqs(net) /\ m.data.req \notin FwdReqs(N)
    <2> HIDE DEF c
    <2> QED
      BY <1>2, <1>4, DequeueFacts, OnceDequeue
  <1> HIDE DEF m, N, c
  <1>6. /\ ForwardedOnce(N)
        /\ Leader \in Node /\ MaxReq \in Nat
        /\ highest_seen \in [Node -> 0..MaxReq]
        /\ highest_to_commit \in [Node -> 0..MaxReq]
    <2>1. ForwardedOnce(N)
      BY <1>5 DEF NoMore
    <2>2. highest_seen \in [Node -> 0..MaxReq] /\ highest_to_commit \in [Node -> 0..MaxReq]
      BY DEF TypeOK
    <2> QED
      BY <2>1, <2>2, NodeAssumption, BoundAssumption
  <1>7. ASSUME highest_seen'[Leader] = highest_seen[Leader], NoMore(net', N)
        PROVE  OnceInv'
    <2>1. NoMore(net', net)
      BY <1>5, <1>7, NoMoreTrans
    <2> QED
      BY <1>2, <1>7, <2>1, OnceQuiet
  <1>8. ASSUME NEW tc \in 0..MaxReq, NEW sn \in 0..MaxReq, NEW row, NEW bits,
               try_to_execute(n, tc, sn, row, bits, N)
        PROVE  NoMore(net', N)
    BY <1>5, <1>6, <1>8, OnceTry
  <1>9. CASE m.type = "ACCEPT_REQ" /\ handle_accept_req(s, n, m, N)
    <2>1. m.vs \in Slot /\ m.exed \in 0..MaxReq
      BY <1>5, <1>9, MsgFields
    <2> DEFINE seen == Larger(m.vs, highest_seen[n])
               tc   == Larger(m.exed, highest_to_commit[n])
               row  == [db[n] EXCEPT ![m.vs] = m.data]
               ack  == [type |-> "ACCEPT_ACK", vs |-> m.vs]
               A    == send_to_one_node(N, n, s, ack)
    <2>2. seen \in 0..MaxReq /\ tc \in 0..MaxReq
      BY <1>6, <2>1 DEF Larger, Slot
    <2>3. A \in Network /\ NoMore(A, N)
      <3>1. ack \in Msg /\ ack.type # "FORWARD_REQ"
        BY <2>1, MakeMsg
      <3> HIDE DEF ack
      <3> QED
        BY <1>1, <1>5, <1>6, <3>1, SendFacts, OnceSend
    <2>4. highest_seen'[Leader] = highest_seen[Leader]
      <3>1. CASE highest_seen' = highest_seen
        BY <3>1
      <3>2. CASE /\ highest_seen' = [highest_seen EXCEPT ![n] = seen]
                 /\ ~(cur_view[n] = 1 /\ s # leader_id(n))
        <4>1. n # Leader
          BY <3>2 DEF leader_id, AgreementInv, LeaderInv
        <4> QED
          BY <1>6, <3>2, <4>1
      <3> QED
        BY <1>9, <3>1, <3>2 DEF handle_accept_req
    <2>5. \/ try_to_execute(n, highest_to_commit[n], highest_seen[n], db[n], bit_map, N)
          \/ try_to_execute(n, tc, seen, row, bit_map, A)
          \/ try_to_execute(n, tc, seen, db[n], bit_map, N)
      BY <1>9 DEF handle_accept_req
    <2> HIDE DEF seen, tc, row, A
    <2>6. highest_to_commit[n] \in 0..MaxReq /\ highest_seen[n] \in 0..MaxReq
      BY <1>6
    <2>7. NoMore(net', N)
      <3>1. CASE try_to_execute(n, tc, seen, row, bit_map, A)
        <4>1. NoMore(net', A)
          BY <2>2, <2>3, <3>1, OnceTry DEF NoMore
        <4> QED
          BY <2>3, <4>1, NoMoreTrans
      <3> QED
        BY <1>8, <2>2, <2>5, <2>6, <3>1
    <2> QED
      BY <1>7, <2>4, <2>7
  <1>10. CASE m.type = "ACCEPT_ACK" /\ handle_accept_ack(s, n, m, N)
    <2>1. PICK b : try_to_execute(n, highest_to_commit[n], highest_seen[n], db[n], b, N)
      BY <1>10 DEF handle_accept_ack
    <2>2. highest_seen' = highest_seen
      BY <1>10 DEF handle_accept_ack
    <2>3. NoMore(net', N)
      BY <1>6, <1>8, <2>1
    <2> QED
      BY <1>7, <2>2, <2>3
  <1>11. CASE m.type = "MISSING_REQ" /\ handle_missing_req(s, n, m, N)
    <2>1. highest_seen' = highest_seen
      BY <1>11 DEF handle_missing_req
    <2>2. m.vs \in Slot
      BY <1>5, <1>11, MsgFields
    <2>3. CASE db[n][m.vs] = NoRecord
      <3>1. net' = N
        BY <1>11, <2>3 DEF handle_missing_req
      <3> QED
        BY <1>6, <1>7, <2>1, <3>1 DEF NoMore
    <2>4. CASE db[n][m.vs] # NoRecord
      <3>1. PICK same \in BOOLEAN :
              net' = send_to_one_node(N, n, s,
                        [type |-> "MISSING_ACK", vs |-> m.vs,
                         data |-> [db[n][m.vs] EXCEPT !.intact = db[n][m.vs].intact /\ same]])
        BY <1>11, <2>4, ZenonT(120) DEF handle_missing_req
      <3> DEFINE d == [db[n][m.vs] EXCEPT !.intact = db[n][m.vs].intact /\ same]
                 r == [type |-> "MISSING_ACK", vs |-> m.vs, data |-> d]
      <3>2. db[n][m.vs] \in Data
        BY <2>2, <2>4 DEF TypeOK
      <3>3. d \in Data
        BY <3>2 DEF Data
      <3> HIDE DEF d
      <3>4. r \in Msg /\ r.type # "FORWARD_REQ"
        BY <2>2, <3>3, MakeMsg
      <3>5. net' = send_to_one_node(N, n, s, r)
        BY <3>1 DEF d
      <3> HIDE DEF r
      <3>6. NoMore(net', N)
        BY <1>1, <1>5, <1>6, <3>4, <3>5, OnceSend
      <3> QED
        BY <1>7, <2>1, <3>6
    <2> QED
      BY <2>3, <2>4
  <1>12. CASE m.type = "MISSING_ACK" /\ handle_missing_ack(s, n, m, N)
    <2>1. highest_seen' = highest_seen
      BY <1>12 DEF handle_missing_ack
    <2>2. \/ net' = N
          \/ \E r : try_to_execute(n, highest_to_commit[n], highest_seen[n], r, bit_map, N)
      BY <1>12 DEF handle_missing_ack
    <2>3. NoMore(net', N)
      BY <1>6, <1>8, <2>2 DEF NoMore
    <2> QED
      BY <1>7, <2>1, <2>3
  <1>13. CASE m.type = "FORCE_EXEC" /\ handle_force_exec(s, n, m, N)
    <2>1. highest_seen' = highest_seen
      BY <1>13 DEF handle_force_exec
    <2>2. m.committed \in 0..MaxReq
      BY <1>5, <1>13, MsgFields
    <2>3. \/ net' = N
          \/ try_to_execute(n, m.committed, highest_seen[n], db[n], bit_map, N)
      BY <1>13 DEF handle_force_exec
    <2>4. NoMore(net', N)
      BY <1>6, <1>8, <2>2, <2>3 DEF NoMore
    <2> QED
      BY <1>7, <2>1, <2>4
  <1>14. CASE m.type = "FORWARD_REQ" /\ handle_forward_req(s, n, m, N)
    <2>1. CASE n = Leader
      <3>1. leader_handle_submit_req(Leader, m.data, N) /\ m.data \in Data
        BY <1>5, <1>14, <2>1, MsgFields DEF handle_forward_req
      <3>2. /\ m.data.req \in submitted' /\ submitted \subseteq submitted'
            /\ \A k \in Slot : db[Leader][k] # NoRecord => db[Leader][k].req # m.data.req
        BY <1>2, <1>5, <1>14 DEF OnceInv
      <3> QED
        BY <1>5, <1>14, <3>1, <3>2, OnceSubmit
    <2>2. CASE n # Leader
      <3>1. net' = N /\ highest_seen' = highest_seen
        BY <1>14, <2>2 DEF handle_forward_req
      <3> QED
        BY <1>6, <1>7, <3>1 DEF NoMore
    <2> QED
      BY <2>1, <2>2
  <1> QED
    BY <1>3, <1>9, <1>10, <1>11, <1>12, <1>13, <1>14

(* The timer sends ACCEPT_REQs and a FORCE_EXEC. *)
LEMMA OnceTimer ==
    ASSUME TypeOK, AgreementInv, consensus_make_progress, ForwardedOnce(net)
    PROVE  NoMore(net', net)
  <1> DEFINE tc == highest_to_commit[Leader]
             sn == highest_seen[Leader]
  <1>1. /\ tc \in 0..MaxReq /\ sn \in 0..MaxReq /\ MaxReq \in Nat
        /\ highest_committed[Leader] = tc /\ tc <= sn
        /\ net \in Network
    BY NodeAssumption, BoundAssumption DEF TypeOK, AgreementInv, LeaderInv, Network
  <1>2. PICK end \in leader_try_to_execute(Leader, tc, sn, bit_map) :
          \E upto \in {IF highest_committed[Leader] = tc
                      THEN end ELSE highest_committed[Leader]} :
          \E again \in Ascending(Unagreed(upto)) : Effect(end, upto, again)
    BY ProgressEffect
  <1>3. PICK again \in Ascending(Unagreed(end)) : Effect(end, end, again)
    BY <1>1, <1>2
  <1>4. end \in 0..MaxReq
    <2>1. end \in LoopExit(tc, sn, {k \in Slot : reached_quorum(bit_map[k])})
      BY DEF leader_try_to_execute
    <2>2. end \in Nat /\ (end = tc \/ end <= sn)
      BY <1>1, <2>1, LoopExitFacts
    <2> QED
      BY <1>1, <2>2
  <1> DEFINE ms == build_progress_msgs(again, end, end)
  <1>5. /\ ms \in Seq(Msg)
        /\ \A i \in 1..Len(ms) : ms[i].type # "FORWARD_REQ"
    BY <1>4, ProgressMsgs
  <1>6. net' = send_to_other_nodes(net, Leader, ms)
    BY <1>3 DEF Effect
  <1> HIDE DEF ms
  <1> QED
    BY <1>1, <1>5, <1>6, OnceBroadcast

(* Every step preserves OnceInv. *)
LEMMA OnceStep ==
    ASSUME OnceInv, TypeOK, AgreementInv, [Next]_vars, TypeOK', AgreementInv'
    PROVE  OnceInv'
  <1>1. StepOK
    BY StepFacts
  <1>2. /\ net \in Network /\ ForwardedOnce(net)
        /\ Leader \in Node
        /\ highest_seen \in [Node -> 0..MaxReq]
    BY NodeAssumption DEF TypeOK, Network, OnceInv
  <1>3. NoMore(net, net)
    BY <1>2 DEF NoMore
  <1>4. ASSUME highest_seen'[Leader] = highest_seen[Leader], submitted' = submitted,
               NoMore(net', net)
        PROVE  OnceInv'
    BY <1>1, <1>4, OnceQuiet
  <1>5. CASE \E n \in Entry, r \in Request : consensus_submit_request(n, r)
    BY <1>1, <1>5, EntryAssumption, OnceClient
  <1>6. CASE \E c \in Chan : consensus_handle_msg(c[1], c[2])
    <2>1. PICK c \in Chan : consensus_handle_msg(c[1], c[2])
      BY <1>6
    <2>2. c[1] \in Node /\ c[2] \in Node /\ c[1] # c[2]
      BY DEF Chan
    <2> QED
      BY <1>1, <2>1, <2>2, OnceMsg
  <1>7. CASE consensus_make_progress
    <2>1. highest_seen' = highest_seen /\ submitted' = submitted
      BY <1>7 DEF consensus_make_progress
    <2>2. NoMore(net', net)
      BY <1>2, <1>7, OnceTimer
    <2> QED
      BY <1>4, <2>1, <2>2
  <1>8. CASE \E n \in Node \ {Leader} : handle_ping_req(n)
    <2>1. PICK n \in Node \ {Leader} : handle_ping_req(n)
      BY <1>8
    <2>2. /\ highest_seen' = [highest_seen EXCEPT ![n] = 0]
          /\ submitted' = submitted /\ net' = net
      BY <2>1 DEF handle_ping_req, update_view, consensus_update_role
    <2> QED
      BY <1>2, <1>3, <1>4, <2>2
  <1>9. CASE \E c \in Chan : LoseMsg(c)
    <2>1. PICK c \in Chan : LoseMsg(c)
      BY <1>9
    <2>2. /\ net[c] # <<>> /\ net' = Dequeue(net, c)
          /\ highest_seen' = highest_seen /\ submitted' = submitted
      BY <2>1, ZenonT(120) DEF LoseMsg, Dequeue
    <2>3. NoMore(net', net)
      BY <1>2, <2>2, OnceDequeue
    <2> QED
      BY <1>4, <2>2, <2>3
  <1>10. CASE \E n \in Node \ {Leader} : Restart(n) \/ PowerLoss(n)
    <2>1. PICK n \in Node \ {Leader} : \E kept : Reinitialize(n, kept)
      BY <1>10 DEF Restart, PowerLoss
    <2>2. /\ highest_seen' = [highest_seen EXCEPT ![n] = 0]
          /\ submitted' = submitted
          /\ net' = [c \in Chan |-> IF c[2] = n THEN <<>> ELSE net[c]]
      BY <2>1 DEF Reinitialize
    <2>3. NoMore(net', net)
      BY <1>2, <2>2, OnceErase
    <2> QED
      BY <1>2, <1>4, <2>2, <2>3
  <1>11. CASE UNCHANGED vars
    <2>1. highest_seen' = highest_seen /\ submitted' = submitted /\ net' = net
      BY <1>11 DEF vars
    <2> QED
      BY <1>3, <1>4, <2>1
  <1> QED
    BY <1>5, <1>6, <1>7, <1>8, <1>9, <1>10, <1>11 DEF Next

(* A client's request is in one FORWARD_REQ or in one slot of the leader,    *)
(* never in two places, whatever is lost, resent or restarted.               *)
THEOREM OnceHolds == Spec => []OnceInv
  <1>1. Init => OnceInv
    BY NodeAssumption DEF Init, OnceInv, ForwardedOnce, FwdReqs
  <1>2. (TypeOK /\ AgreementInv) /\ OnceInv /\ [Next]_vars /\ (TypeOK /\ AgreementInv)'
        => OnceInv'
    BY OnceStep
  <1> QED
    BY <1>1, <1>2, Invariance, PTL DEF Spec

(* ExecutedOnce: no process hands one client request to its user call back   *)
(* twice.                                                                    *)
THEOREM ExecutedOnceHolds == Spec => []ExecutedOnce
  <1>1. TypeOK /\ AgreementInv /\ OnceInv => ExecutedOnce
    <2> SUFFICES ASSUME TypeOK, AgreementInv, OnceInv, NEW n \in Node,
                        NEW i \in 1..Len(delivered[n]), NEW j \in 1..Len(delivered[n]),
                        delivered[n][i].req = delivered[n][j].req
                 PROVE  i = j
      BY DEF ExecutedOnce
    <2>1. /\ Len(delivered[n]) = highest_committed[n]
          /\ highest_committed[n] \in 0..MaxReq /\ highest_to_commit[n] \in 0..MaxReq
          /\ highest_to_commit[Leader] \in 0..MaxReq /\ highest_seen[Leader] \in 0..MaxReq
          /\ highest_committed[n] <= highest_to_commit[n]
          /\ highest_to_commit[n] <= highest_to_commit[Leader]
          /\ highest_to_commit[Leader] <= highest_seen[Leader]
      BY NodeAssumption DEF TypeOK, AgreementInv, LeaderInv, NodeInv
    <2>2. /\ i \in Slot /\ i <= highest_seen[Leader]
          /\ j \in Slot /\ j <= highest_seen[Leader]
      BY <2>1, BoundAssumption DEF Slot
    <2>3. db[Leader][i] # NoRecord /\ db[Leader][j] # NoRecord
      BY <2>2 DEF AgreementInv, LeaderInv
    <2>4. db[Leader][i].req = db[Leader][j].req
      BY DEF AgreementInv, NodeInv
    <2> QED
      BY <2>2, <2>3, <2>4 DEF OnceInv
  <1> QED
    BY <1>1, Invariance, OnceHolds, PTL
================================================================================
