------------------------------ MODULE ProxyProofs ------------------------------
(***************************************************************************)
(* Proofs about view stamps and times (module CommonStructure), for every  *)
(* width of the ids, and about module Proxy: the arithmetic of the keys    *)
(* first, so that the rest compares them by view and request only; then    *)
(* the inductive invariant, action by action.                              *)
(***************************************************************************)
EXTENDS Proxy, TLAPS

--------------------------------------------------------------------------------
(* View stamps and times. *)

LEMMA KeyStep ==
    ASSUME NEW u \in Nat, NEW v \in Nat, u < v
    PROVE  u * KEY_BASE + KEY_BASE <= v * KEY_BASE
<1>1. PICK d \in Nat : v = u + 1 + d
  BY v - u - 1 \in Nat, v = u + 1 + (v - u - 1)
<1>2. d * KEY_BASE >= 0
  BY KeyBaseAssumption
<1>3. v * KEY_BASE = u * KEY_BASE + KEY_BASE + d * KEY_BASE
  BY <1>1, KeyBaseAssumption
<1>4. u * KEY_BASE \in Nat /\ v * KEY_BASE \in Nat /\ d * KEY_BASE \in Nat
  BY KeyBaseAssumption
<1> QED
  BY <1>2, <1>3, <1>4, KeyBaseAssumption

(* vstol keeps the order of view_stamp_comp: the database, which is sorted   *)
(* by key, and the comparisons of the handlers agree, and no two stamps      *)
(* share a record.                                                           *)
THEOREM KeysInOrder ==
    ASSUME NEW a \in view_stamp, NEW b \in view_stamp
    PROVE  /\ view_stamp_comp(a, b) < 0 <=> vstol(a.view_id, a.req_id) < vstol(b.view_id, b.req_id)
           /\ view_stamp_comp(a, b) = 0 <=> vstol(a.view_id, a.req_id) = vstol(b.view_id, b.req_id)
<1> DEFINE av == a.view_id
           ar == a.req_id
           bv == b.view_id
           br == b.req_id
<1>1. av \in Nat /\ ar \in Nat /\ bv \in Nat /\ br \in Nat /\ ar < KEY_BASE /\ br < KEY_BASE
  BY KeyBaseAssumption DEF view_stamp, Id
<1>2. av * KEY_BASE \in Nat /\ bv * KEY_BASE \in Nat
  BY <1>1, KeyBaseAssumption
<1>3. CASE av < bv
  <2>1. av * KEY_BASE + KEY_BASE <= bv * KEY_BASE
    BY <1>1, <1>3, KeyStep
  <2> HIDE DEF av, bv, ar, br
  <2>2. av * KEY_BASE + ar < bv * KEY_BASE + br
    BY <1>1, <1>2, <2>1, KeyBaseAssumption
  <2>3. view_stamp_comp(a, b) = -1
    BY <1>1, <1>3 DEF view_stamp_comp, av, bv
  <2> QED
    BY <1>1, <1>2, <2>2, <2>3, KeyBaseAssumption DEF vstol, av, ar, bv, br
<1>4. CASE bv < av
  <2>1. bv * KEY_BASE + KEY_BASE <= av * KEY_BASE
    BY <1>1, <1>4, KeyStep
  <2> HIDE DEF av, bv, ar, br
  <2>2. av * KEY_BASE + ar > bv * KEY_BASE + br
    BY <1>1, <1>2, <2>1, KeyBaseAssumption
  <2>3. view_stamp_comp(a, b) = 1
    BY <1>1, <1>4 DEF view_stamp_comp, av, bv
  <2> QED
    BY <1>1, <1>2, <2>2, <2>3, KeyBaseAssumption DEF vstol, av, ar, bv, br
<1>5. CASE av = bv
  BY <1>1, <1>2, <1>5, KeyBaseAssumption DEF vstol, view_stamp_comp
<1> QED
  BY <1>1, <1>3, <1>4, <1>5

LEMMA NotEarlier ==
    ASSUME NEW a, NEW b, a.tv_sec \in Nat, b.tv_sec \in Nat,
           a.tv_usec \in Nat, b.tv_usec \in Nat
    PROVE  timeval_comp(a, b) >= 0
             <=> a.tv_sec > b.tv_sec \/ (a.tv_sec = b.tv_sec /\ a.tv_usec >= b.tv_usec)
<1>1. CASE a.tv_sec > b.tv_sec
  BY <1>1 DEF timeval_comp
<1>2. CASE a.tv_sec = b.tv_sec /\ a.tv_usec > b.tv_usec
  BY <1>2 DEF timeval_comp
<1>3. CASE a.tv_sec = b.tv_sec /\ a.tv_usec = b.tv_usec
  BY <1>3 DEF timeval_comp
<1>4. CASE a.tv_sec < b.tv_sec \/ (a.tv_sec = b.tv_sec /\ a.tv_usec < b.tv_usec)
  <2>1. timeval_comp(a, b) = -1
    BY <1>4 DEF timeval_comp
  <2> QED
    BY <1>4, <2>1
<1> QED
  BY <1>1, <1>2, <1>3, <1>4

(* expected_leader_ping_period trusts the leader only while the true time   *)
(* of its last ping lies within the period: the carry that timeval_add      *)
(* leaves out can only make a follower suspect too early, by less than a    *)
(* second, never too late.                                                  *)
THEOREM TrustIsRecent ==
    ASSUME NEW last \in timeval, NEW period \in timeval, NEW cur \in timeval
    PROVE  /\ timeval_comp(timeval_add(last, period), cur) >= 0
                => Micro(last) + Micro(period) >= Micro(cur)
           /\ Micro(last) + Micro(period) >= Micro(cur) + 1000000
                => timeval_comp(timeval_add(last, period), cur) >= 0
<1> DEFINE sum == timeval_add(last, period)
<1>1. /\ last.tv_sec \in Nat /\ last.tv_usec \in Usec
      /\ period.tv_sec \in Nat /\ period.tv_usec \in Usec
      /\ cur.tv_sec \in Nat /\ cur.tv_usec \in Usec
  BY DEF timeval
<1>2. /\ last.tv_usec \in Nat /\ last.tv_usec < 1000000
      /\ period.tv_usec \in Nat /\ period.tv_usec < 1000000
      /\ cur.tv_usec \in Nat /\ cur.tv_usec < 1000000
  BY <1>1, SMT DEF Usec
<1>3. /\ sum.tv_sec = last.tv_sec + period.tv_sec
      /\ sum.tv_usec = last.tv_usec + period.tv_usec
  BY DEF timeval_add
<1>4. timeval_comp(sum, cur) >= 0
        <=> \/ last.tv_sec + period.tv_sec > cur.tv_sec
            \/ /\ last.tv_sec + period.tv_sec = cur.tv_sec
               /\ last.tv_usec + period.tv_usec >= cur.tv_usec
  <2> HIDE DEF sum
  <2>1. sum.tv_sec \in Nat /\ sum.tv_usec \in Nat
    BY <1>1, <1>2, <1>3, SMT
  <2> QED
    BY <1>1, <1>2, <1>3, <2>1, NotEarlier, SMT
<1> DEFINE ls == last.tv_sec
           lu == last.tv_usec
           ps == period.tv_sec
           pu == period.tv_usec
           cs == cur.tv_sec
           cu == cur.tv_usec
<1>5. /\ Micro(last) = ls * 1000000 + lu
      /\ Micro(period) = ps * 1000000 + pu
      /\ Micro(cur) = cs * 1000000 + cu
  BY SMT DEF Micro
<1>6. ls \in Nat /\ ps \in Nat /\ cs \in Nat
  BY <1>1
<1> HIDE DEF sum, ls, lu, ps, pu, cs, cu
<1>7. ls + ps > cs \/ (ls + ps = cs /\ lu + pu >= cu)
        => (ls * 1000000 + lu) + (ps * 1000000 + pu) >= cs * 1000000 + cu
  BY <1>2, <1>6, SMT DEF lu, pu, cu
<1>8. (ls * 1000000 + lu) + (ps * 1000000 + pu) >= cs * 1000000 + cu + 1000000
        => ls + ps > cs \/ (ls + ps = cs /\ lu + pu >= cu)
  BY <1>2, <1>6, SMT DEF lu, pu, cu
<1>9. timeval_comp(sum, cur) >= 0 <=> ls + ps > cs \/ (ls + ps = cs /\ lu + pu >= cu)
  BY <1>4, SMT DEF ls, lu, ps, pu, cs, cu
<1> QED
  BY <1>5, <1>7, <1>8, <1>9, SMT DEF sum

--------------------------------------------------------------------------------
(* The proxies. *)

LEMMA Caps ==
    /\ KEY_BASE \in Nat /\ KEY_BASE > 1 /\ MaxView \in Nat /\ MaxReq \in Nat
    /\ MaxReq + 1 < KEY_BASE
  BY KeyAssumption, KeyBaseAssumption

(* Keys compare as their views, and within a view as their requests. *)
LEMMA KeyOrder ==
    ASSUME NEW v \in Nat, NEW r \in Nat, r < KEY_BASE,
           NEW w \in Nat, NEW s \in Nat, s < KEY_BASE
    PROVE  /\ vstol(v, r) \in Nat
           /\ vstol(v, r) < vstol(w, s) <=> v < w \/ (v = w /\ r < s)
           /\ vstol(v, r) = vstol(w, s) <=> v = w /\ r = s
  <1>1. v * KEY_BASE \in Nat /\ w * KEY_BASE \in Nat
    BY KeyBaseAssumption
  <1>2. CASE v < w
    <2>1. v * KEY_BASE + KEY_BASE <= w * KEY_BASE
      BY <1>2, KeyStep
    <2> QED
      BY <1>1, <1>2, <2>1, KeyBaseAssumption DEF vstol
  <1>3. CASE w < v
    <2>1. w * KEY_BASE + KEY_BASE <= v * KEY_BASE
      BY <1>3, KeyStep
    <2> QED
      BY <1>1, <1>3, <2>1, KeyBaseAssumption DEF vstol
  <1>4. CASE v = w
    BY <1>1, <1>4 DEF vstol
  <1> QED
    BY <1>2, <1>3, <1>4

(* A key can be taken apart again, and the cursor arithmetic of              *)
(* real_do_action moves to the next request or to the next view.             *)
LEMMA KeyParts ==
    ASSUME NEW v \in Nat, NEW r \in Nat, r < KEY_BASE
    PROVE  /\ ltovs(vstol(v, r)) = [view_id |-> v, req_id |-> r]
           /\ cross_view(vstol(v, r)) = vstol(v + 1, 1)
           /\ vstol(v, r) + 1 = vstol(v, r + 1)
  <1> DEFINE k == vstol(v, r)
             q == k \div KEY_BASE
             m == k % KEY_BASE
  <1>1. v * KEY_BASE \in Nat /\ k = v * KEY_BASE + r /\ k \in Nat
    BY KeyBaseAssumption DEF vstol
  <1> HIDE DEF k
  <1>2. q \in Nat /\ m \in Nat /\ m < KEY_BASE /\ k = q * KEY_BASE + m
    BY <1>1, KeyBaseAssumption, Z3
  <1> HIDE DEF q, m
  <1>3. vstol(q, m) = vstol(v, r)
    BY <1>2 DEF vstol, k
  <1>4. q = v /\ m = r
    BY <1>2, <1>3, KeyOrder
  <1>5. ltovs(k) = [view_id |-> q, req_id |-> m] /\ cross_view(k) = vstol(q + 1, 1)
    BY DEF ltovs, cross_view, vstol, q, m
  <1>6. k + 1 = vstol(v, r + 1)
    BY <1>1 DEF vstol
  <1> QED
    BY <1>4, <1>5, <1>6 DEF k

(* The keys of the views are within the type of a key. *)
LEMMA KeyRange ==
    ASSUME NEW v \in 1..(MaxView + 1), NEW r \in 0..(MaxReq + 1)
    PROVE  vstol(v, r) \in 1..MaxKey
  <1>1. /\ v \in Nat /\ r \in Nat /\ r < KEY_BASE
        /\ MaxView + 1 \in Nat /\ MaxReq + 1 \in Nat /\ MaxReq + 1 < KEY_BASE
        /\ v <= MaxView + 1 /\ r <= MaxReq + 1 /\ 0 < v /\ 0 < KEY_BASE
    BY Caps
  <1>2. vstol(0, 0) = 0
    BY Caps DEF vstol
  <1>3. vstol(v, r) \in Nat /\ vstol(0, 0) < vstol(v, r)
    BY <1>1, KeyOrder
  <1>4. /\ vstol(v, r) < vstol(MaxView + 1, MaxReq + 1)
           \/ vstol(v, r) = vstol(MaxView + 1, MaxReq + 1)
        /\ vstol(MaxView + 1, MaxReq + 1) \in Nat
    BY <1>1, KeyOrder
  <1> QED
    BY <1>2, <1>3, <1>4 DEF MaxKey

(* What the invariant says of the numbers of a replica. *)
LEMMA Numbers ==
    ASSUME TypeOK, LogInv
    PROVE  /\ view \in 1..MaxView /\ view \in View
           /\ \A v \in View :
                /\ v \in Nat /\ v > 0 /\ v <= MaxView
                /\ agreed[v] \in Nat /\ agreed[v] <= Len(proposed[v])
                /\ Len(proposed[v]) \in Nat /\ Len(proposed[v]) <= MaxReq
                /\ agreed[v] + 1 < KEY_BASE
           /\ \A n \in Node :
                /\ cur_view[n] \in View /\ cur_view[n] <= view
                /\ \A v \in 1..cur_view[n] : v \in View
                /\ committed[n] \in Nat
                /\ committed[n] <= Len(proposed[cur_view[n]])
                /\ committed[n] <= MaxReq
                /\ loop_end[n] # "garbage" => committed[n] <= agreed[cur_view[n]]
  <1>1. \A v \in View : Len(proposed[v]) \in Nat
    BY DEF TypeOK
  <1> QED
    BY <1>1, Caps DEF TypeOK, LogInv, View

(* The keys of agreed requests. *)
LEMMA AgreedFacts ==
    ASSUME TypeOK, LogInv
    PROVE  \A k : k \in AgreedKeys <=> \E v \in View : \E r \in 1..agreed[v] : k = vstol(v, r)
  BY DEF AgreedKeys

(* The keys that a replica may execute, and their requests. *)
LEMMA ReplayFacts ==
    ASSUME NEW n \in Node
    PROVE  \A k : k \in Replayable(n) <=>
              \E v \in 1..cur_view[n] : \E r \in 1..MaxReq : Reachable(n, v, r) /\ k = vstol(v, r)
  BY DEF Replayable

LEMMA ReachRange ==
    ASSUME TypeOK, LogInv, NEW n \in Node, NEW v \in 1..cur_view[n], NEW r \in 1..MaxReq,
           Reachable(n, v, r)
    PROVE  /\ v \in View /\ v \in Nat /\ v > 0 /\ v <= MaxView
           /\ r \in 1..Len(proposed[v]) /\ r \in Nat /\ r < KEY_BASE
  <1>1. /\ v \in View /\ cur_view[n] \in View /\ committed[n] \in Nat
        /\ committed[n] <= Len(proposed[cur_view[n]])
        /\ \A u \in View : /\ u \in Nat /\ u > 0 /\ u <= MaxView /\ agreed[u] \in Nat
                           /\ agreed[u] <= Len(proposed[u]) /\ Len(proposed[u]) \in Nat
    <2>1. /\ cur_view[n] \in View /\ committed[n] \in Nat
          /\ committed[n] <= Len(proposed[cur_view[n]]) /\ \A u \in 1..cur_view[n] : u \in View
      BY Numbers
    <2>2. \A u \in View : /\ u \in Nat /\ u > 0 /\ u <= MaxView /\ agreed[u] \in Nat
                          /\ agreed[u] <= Len(proposed[u]) /\ Len(proposed[u]) \in Nat
      BY Numbers
    <2> QED
      BY <2>1, <2>2
  <1>2. r \in Nat /\ r >= 1 /\ r < KEY_BASE
    BY Caps
  <1>3. r <= Len(proposed[v])
    BY <1>1, <1>2 DEF Reachable
  <1> QED
    BY <1>1, <1>2, <1>3

(* A step that leaves what the replay depends on as it is. *)
LEMMA ReplaySame ==
    ASSUME ReplayInv, UNCHANGED consensus, UNCHANGED cursor, highest_rec' = highest_rec
    PROVE  ReplayInv'
  <1>1. LogInv'
    BY DEF ReplayInv, LogInv, consensus
  <1>2. ASSUME NEW n \in Node PROVE DbInv(n)'
    BY DEF ReplayInv, DbInv, consensus
  <1>3. ASSUME NEW n \in Node PROVE HighInv(n)'
    BY DEF ReplayInv, HighInv, consensus, cursor
  <1>4. ASSUME NEW n \in Node PROVE CursorInv(n)'
    <2>1. \A v, r : Reachable(n, v, r)' <=> Reachable(n, v, r)
      BY DEF Reachable, consensus
    <2>2. Replayable(n)' = Replayable(n)
      BY <2>1 DEF Replayable, consensus
    <2> QED
      BY <2>1, <2>2 DEF ReplayInv, CursorInv, consensus, cursor
  <1> QED
    BY <1>1, <1>2, <1>3, <1>4 DEF ReplayInv

(* The database of a replica, when its records, view and deliveries stay and *)
(* the views it has left keep what is agreed in them.                        *)
LEMMA DbSame ==
    ASSUME TypeOK, LogInv, NEW n \in Node, DbInv(n), LogInv', TypeOK',
           db'[n] = db[n], cur_view'[n] = cur_view[n], committed'[n] = committed[n],
           \A v \in View : Len(proposed'[v]) >= Len(proposed[v]),
           \A v \in View : v < cur_view[n] => agreed'[v] = agreed[v]
    PROVE  DbInv(n)'
  <1>1. \A v \in View : Len(proposed'[v]) \in Nat /\ Len(proposed[v]) \in Nat
    <2>1. \A v \in View : Len(proposed'[v]) \in Nat
      BY DEF TypeOK
    <2> QED
      BY <2>1, Numbers
  <1>2. \A k \in db'[n] : \E v \in View : \E r \in 0..Len(proposed'[v]) : k = vstol(v, r)
    BY <1>1 DEF DbInv
  <1>3. \A v \in View : v < cur_view'[n] => vstol(v, agreed'[v] + 1) \notin db'[n]
    BY DEF DbInv
  <1>4. \A r \in 1..committed'[n] : vstol(cur_view'[n], r) \in db'[n]
    BY DEF DbInv
  <1> QED
    BY <1>2, <1>3, <1>4 DEF DbInv

(* The cursor of a replica that does not move, when what it may execute      *)
(* grows, and only at or after the cursor.                                   *)
LEMMA CursorGrows ==
    ASSUME NEW n \in Node, CursorInv(n), cur_rec'[n] = cur_rec[n],
           executed'[n] = executed[n], cur_view[n] \in Nat, cur_view'[n] \in Nat,
           cur_view'[n] >= cur_view[n], MaxReq \in Nat,
           \A v \in 1..cur_view[n] : \A r \in 1..MaxReq :
              Reachable(n, v, r) => Reachable(n, v, r)',
           \A v \in 1..cur_view'[n] : \A r \in 1..MaxReq :
              Reachable(n, v, r)' /\ ~(v <= cur_view[n] /\ Reachable(n, v, r))
                => ~(vstol(v, r) < cur_rec[n])
    PROVE  CursorInv(n)'
  <1>1. \/ cur_rec'[n] = 0
        \/ \E v \in 1..cur_view'[n] : \E r \in 1..(MaxReq + 1) :
             cur_rec'[n] = vstol(v, r) /\ (r > 1 => Reachable(n, v, r - 1)')
    <2>1. CASE cur_rec[n] = 0
      BY <2>1
    <2>2. CASE \E v \in 1..cur_view[n] : \E r \in 1..(MaxReq + 1) :
                 cur_rec[n] = vstol(v, r) /\ (r > 1 => Reachable(n, v, r - 1))
      <3>1. PICK v \in 1..cur_view[n], r \in 1..(MaxReq + 1) :
                   cur_rec[n] = vstol(v, r) /\ (r > 1 => Reachable(n, v, r - 1))
        BY <2>2
      <3>2. r > 1 => r - 1 \in 1..MaxReq
        OBVIOUS
      <3>3. r > 1 => Reachable(n, v, r - 1)'
        BY <3>1, <3>2
      <3>4. v \in 1..cur_view'[n]
        OBVIOUS
      <3> QED
        BY <3>1, <3>3, <3>4
    <2> QED
      BY <2>1, <2>2 DEF CursorInv
  <1>2. ASSUME NEW k, k < cur_rec[n] PROVE k \in Replayable(n)' <=> k \in Replayable(n)
    <2>1. ASSUME k \in Replayable(n) PROVE k \in Replayable(n)'
      <3>1. PICK v \in 1..cur_view[n], r \in 1..MaxReq : Reachable(n, v, r) /\ k = vstol(v, r)
        BY <2>1, ReplayFacts
      <3>2. v \in 1..cur_view'[n] /\ Reachable(n, v, r)'
        BY <3>1
      <3> QED
        BY <3>1, <3>2 DEF Replayable
    <2>2. ASSUME k \in Replayable(n)' PROVE k \in Replayable(n)
      <3>1. PICK v \in 1..cur_view'[n], r \in 1..MaxReq : Reachable(n, v, r)' /\ k = vstol(v, r)
        BY <2>2 DEF Replayable
      <3>2. v <= cur_view[n] /\ Reachable(n, v, r)
        BY <1>2, <3>1
      <3>3. v \in 1..cur_view[n]
        BY <3>2
      <3> QED
        BY <3>1, <3>2, <3>3, ReplayFacts
    <2> QED
      BY <2>1, <2>2
  <1>3. {k \in Replayable(n)' : k < cur_rec'[n]} = {k \in Replayable(n) : k < cur_rec[n]}
    BY <1>2
  <1> QED
    BY <1>1, <1>3 DEF CursorInv

(* The same, for a replica whose records below the current view, view and    *)
(* deliveries stay.                                                          *)
LEMMA CursorSame ==
    ASSUME TypeOK, LogInv, NEW n \in Node, CursorInv(n), cur_rec'[n] = cur_rec[n],
           executed'[n] = executed[n], cur_view'[n] = cur_view[n],
           committed'[n] = committed[n],
           \A v \in 1..cur_view[n] : v # cur_view[n] =>
              /\ agreed'[v] = agreed[v]
              /\ \A q \in 1..MaxReq : vstol(v, q) \in db'[n] <=> vstol(v, q) \in db[n]
    PROVE  CursorInv(n)'
  <1>1. cur_view[n] \in Nat /\ MaxReq \in Nat
    BY Numbers, Caps
  <1>2. ASSUME NEW v \in 1..cur_view[n], NEW r \in 1..MaxReq
        PROVE  Reachable(n, v, r)' <=> Reachable(n, v, r)
    <2>1. \A q \in 1..r : q \in 1..MaxReq
      BY <1>1
    <2> QED
      BY <2>1 DEF Reachable
  <1>3. \A v \in 1..cur_view'[n] : v \in 1..cur_view[n] /\ v <= cur_view[n]
    BY <1>1
  <1> QED
    BY <1>1, <1>2, <1>3, CursorGrows

(* The cursor is not beyond the request after the last one delivered. *)
LEMMA CursorBelow ==
    ASSUME TypeOK, LogInv, NEW n \in Node, CursorInv(n),
           NEW u \in Nat, NEW q \in Nat, q < KEY_BASE, u >= cur_view[n], q >= 1,
           u = cur_view[n] => q > committed[n]
    PROVE  ~(vstol(u, q) < cur_rec[n])
  <1>1. /\ cur_view[n] \in Nat /\ cur_view[n] \in View /\ committed[n] \in Nat
        /\ \A v \in 1..cur_view[n] : v \in Nat /\ v <= cur_view[n]
    <2>1. cur_view[n] \in View /\ committed[n] \in Nat
      BY Numbers
    <2>2. cur_view[n] \in Nat
      BY <2>1, Numbers
    <2> QED
      BY <2>1, <2>2
  <1>2. CASE cur_rec[n] = 0
    <2>1. vstol(u, q) \in Nat
      BY KeyOrder
    <2> QED
      BY <1>2, <2>1
  <1>3. CASE cur_rec[n] # 0
    <2>1. PICK v \in 1..cur_view[n], r \in 1..(MaxReq + 1) :
                 cur_rec[n] = vstol(v, r) /\ (r > 1 => Reachable(n, v, r - 1))
      BY <1>3 DEF CursorInv
    <2>2. r \in Nat /\ r < KEY_BASE /\ r >= 1 /\ v \in Nat /\ v <= cur_view[n]
      BY <1>1, Caps
    <2>3. v = cur_view[n] => r <= committed[n] + 1
      BY <1>1, <2>1, <2>2 DEF Reachable
    <2>4. ~(u < v \/ (u = v /\ q < r))
      BY <1>1, <2>2, <2>3
    <2> QED
      BY <2>1, <2>2, <2>4, KeyOrder
  <1> QED
    BY <1>2, <1>3
--------------------------------------------------------------------------------
(* The handlers of clients, of the server and of con_conn. *)

LEMMA SubmitType ==
    ASSUME TypeOK, NEW n \in Node, NEW m \in Msg, Submit(n, m)
    PROVE  queue' \in [Node -> Seq(Msg)]
  BY DEF TypeOK, Submit

LEMMA ClientActions ==
    ASSUME TypeOK, ReplayInv, NEW c \in Conn,
           proxy_on_accept(c) \/ client_side_on_read(c) \/ client_side_on_err(c)
    PROVE  TypeOK' /\ ReplayInv'
  <1>1. Home[c] \in Node
    BY HomeAssumption
  <1>5. /\ hash_map \in [Node -> [Conn -> Pair]] /\ sent \in [Conn -> 0..MaxSend]
        /\ client \in [Conn -> {"new", "open", "refused", "eof"}]
        /\ queue \in [Node -> Seq(Msg)]
    BY DEF TypeOK
  <1>2. CASE proxy_on_accept(c)
    <2>1. [action |-> "CONNECT", conn |-> c] \in Msg
      BY DEF Msg
    <2>2. queue' \in [Node -> Seq(Msg)]
      BY <1>1, <1>2, <2>1, SubmitType DEF proxy_on_accept, TypeOK
    <2>3. hash_map' \in [Node -> [Conn -> Pair]]
      <3>1. \/ hash_map' = hash_map
            \/ hash_map' = [hash_map EXCEPT ![Home[c]][c] =
                              [set |-> TRUE, p_s |-> "null", p_c |-> TRUE]]
        BY <1>2 DEF proxy_on_accept
      <3>2. [set |-> TRUE, p_s |-> "null", p_c |-> TRUE] \in Pair
        BY DEF Pair
      <3> DEFINE q == [set |-> TRUE, p_s |-> "null", p_c |-> TRUE]
                 n == Home[c]
      <3>3. n \in Node /\ q \in Pair
        BY <1>1, <3>2
      <3> HIDE DEF q, n
      <3>4. [hash_map EXCEPT ![n][c] = q] \in [Node -> [Conn -> Pair]]
        BY <1>5, <3>3
      <3> QED
        BY <1>5, <3>1, <3>4 DEF q, n
    <2>4. client' \in [Conn -> {"new", "open", "refused", "eof"}]
      <3>1. client' \in {[client EXCEPT ![c] = "open"], [client EXCEPT ![c] = "refused"]}
        BY <1>2 DEF proxy_on_accept
      <3> QED
        BY <1>5, <3>1
    <2>5. /\ UNCHANGED consensus /\ UNCHANGED cursor /\ UNCHANGED signal
          /\ UNCHANGED <<con_conn, sent, faults>>
      BY <1>2 DEF proxy_on_accept
    <2> QED
      BY <2>2, <2>3, <2>4, <2>5, ReplaySame DEF TypeOK, consensus, cursor, signal
  <1>3. CASE client_side_on_read(c)
    <2>1. sent[c] + 1 \in 1..MaxSend /\ sent' \in [Conn -> 0..MaxSend]
      BY <1>3, <1>5, SendAssumption DEF client_side_on_read
    <2>2. [action |-> "SEND", conn |-> c, data |-> sent[c] + 1] \in Msg
      BY <2>1 DEF Msg
    <2>3. queue' \in [Node -> Seq(Msg)]
      BY <1>1, <1>3, <2>2, SubmitType DEF client_side_on_read
    <2>4. /\ UNCHANGED consensus /\ UNCHANGED cursor /\ UNCHANGED signal
          /\ UNCHANGED <<hash_map, con_conn, client, faults>>
      BY <1>3 DEF client_side_on_read
    <2> QED
      BY <2>1, <2>3, <2>4, ReplaySame DEF TypeOK, consensus, cursor, signal
  <1>4. CASE client_side_on_err(c)
    <2>1. [action |-> "CLOSE", conn |-> c] \in Msg
      BY DEF Msg
    <2>2. queue' \in [Node -> Seq(Msg)]
      BY <1>1, <1>4, <2>1, SubmitType DEF client_side_on_err
    <2>3. client' \in [Conn -> {"new", "open", "refused", "eof"}]
      BY <1>4 DEF client_side_on_err, TypeOK
    <2>4. /\ UNCHANGED consensus /\ UNCHANGED cursor /\ UNCHANGED signal
          /\ UNCHANGED <<hash_map, con_conn, sent, faults>>
      BY <1>4 DEF client_side_on_err
    <2> QED
      BY <2>2, <2>3, <2>4, ReplaySame DEF TypeOK, consensus, cursor, signal
  <1> QED
    BY <1>2, <1>3, <1>4

LEMMA ServerActions ==
    ASSUME TypeOK, ReplayInv, NEW n \in Node, NEW c \in Conn, server_side_on_err(n, c)
    PROVE  TypeOK' /\ ReplayInv'
  <1>1. [action |-> "CLOSE", conn |-> c] \in Msg
    BY DEF Msg
  <1>2. queue' \in [Node -> Seq(Msg)]
    BY <1>1, SubmitType DEF server_side_on_err
  <1>3. hash_map' \in [Node -> [Conn -> Pair]] /\ faults' \in Nat
    <2>1. /\ hash_map \in [Node -> [Conn -> Pair]] /\ faults \in Nat
          /\ hash_map' = [hash_map EXCEPT ![n][c].p_s = "eof"] /\ faults' = faults + 1
      BY DEF server_side_on_err, TypeOK
    <2>2. [hash_map[n][c] EXCEPT !.p_s = "eof"] \in Pair
      BY <2>1 DEF Pair
    <2> QED
      BY <2>1, <2>2
  <1>4. /\ UNCHANGED consensus /\ UNCHANGED cursor /\ UNCHANGED signal
        /\ UNCHANGED <<con_conn, client, sent>>
    BY DEF server_side_on_err
  <1> QED
    BY <1>2, <1>3, <1>4, ReplaySame DEF TypeOK, consensus, cursor, signal

LEMMA LinkActions ==
    ASSUME TypeOK, ReplayInv, NEW n \in Node,
           consensus_on_event(n) \/ reconnect_on_timeout(n)
    PROVE  TypeOK' /\ ReplayInv'
  <1>1. /\ UNCHANGED consensus /\ UNCHANGED cursor /\ UNCHANGED signal
        /\ UNCHANGED <<hash_map, client, sent>>
    BY DEF consensus_on_event, reconnect_on_timeout
  <1>2. con_conn' \in [Node -> BOOLEAN] /\ queue' \in [Node -> Seq(Msg)] /\ faults' \in Nat
    <2>1. con_conn \in [Node -> BOOLEAN] /\ queue \in [Node -> Seq(Msg)] /\ faults \in Nat
      BY DEF TypeOK
    <2>2. CASE consensus_on_event(n)
      BY <2>1, <2>2 DEF consensus_on_event
    <2>3. CASE reconnect_on_timeout(n)
      BY <2>1, <2>3 DEF reconnect_on_timeout
    <2> QED
      BY <2>2, <2>3
  <1> QED
    BY <1>1, <1>2, ReplaySame DEF TypeOK, consensus, cursor, signal

(* The signal handler, the end of the loop, and the signal itself. *)
LEMMA SignalActions ==
    ASSUME TypeOK, ReplayInv, NEW n \in Node,
           proxy_singnal_handler(n) \/ LeaveLoop(n) \/ wake_up(n)
    PROVE  TypeOK' /\ ReplayInv'
  <1>1. /\ UNCHANGED consensus /\ UNCHANGED clients
        /\ UNCHANGED <<hash_map, highest_rec, cur_rec, executed>>
    BY DEF proxy_singnal_handler, LeaveLoop, wake_up, cursor, signal
  <1>2. TypeOK'
    <2>1. /\ sigusr2' \in [Node -> BOOLEAN] /\ waking' \in [Node -> BOOLEAN]
          /\ acting' \in [Node -> BOOLEAN] /\ cur_highest' \in [Node -> 0..MaxKey]
      BY DEF TypeOK, proxy_singnal_handler, LeaveLoop, wake_up, cursor, signal
    <2> QED
      BY <1>1, <2>1 DEF TypeOK, consensus, clients
  <1>3. \A m \in Node : cur_highest'[m] <= highest_rec[m]
    <2>1. \A m \in Node : cur_highest[m] <= highest_rec[m] /\ highest_rec[m] \in Int
      BY DEF ReplayInv, HighInv, TypeOK
    <2> QED
      <3>1. \/ cur_highest' = [cur_highest EXCEPT ![n] = highest_rec[n]]
            \/ cur_highest' = cur_highest
        BY DEF proxy_singnal_handler, LeaveLoop, wake_up, cursor
      <3>2. cur_highest \in [Node -> 0..MaxKey]
        BY DEF TypeOK
      <3> QED
        BY <2>1, <3>1, <3>2
  <1>4. LogInv'
    BY <1>1 DEF ReplayInv, LogInv, consensus
  <1>5. ASSUME NEW m \in Node PROVE DbInv(m)'
    BY <1>1 DEF ReplayInv, DbInv, consensus
  <1>6. ASSUME NEW m \in Node PROVE HighInv(m)'
    BY <1>1, <1>3 DEF ReplayInv, HighInv, consensus
  <1>8. ASSUME NEW m \in Node PROVE CursorInv(m)'
    BY <1>1, CursorSame DEF ReplayInv, consensus
  <1> QED
    BY <1>2, <1>4, <1>5, <1>6, <1>8 DEF ReplayInv
--------------------------------------------------------------------------------
(* The consensus thread. *)

(* A request is proposed, or dropped. *)
LEMMA SubmitAction ==
    ASSUME TypeOK, ReplayInv, NEW n \in Node, handle_request_submit(n)
    PROVE  TypeOK' /\ ReplayInv'
  <1>1. /\ proposed \in [View -> Seq(Msg)] /\ queue \in [Node -> Seq(Msg)]
        /\ view \in View /\ faults \in Nat /\ LogInv
    BY DEF TypeOK, ReplayInv
  <1>2. queue[n] # <<>> /\ queue' = [queue EXCEPT ![n] = Tail(@)]
    BY DEF handle_request_submit
  <1>3. /\ UNCHANGED <<view, agreed, cur_view, committed, db, loop_end>>
        /\ UNCHANGED cursor /\ UNCHANGED signal
        /\ UNCHANGED <<hash_map, con_conn, client, sent>>
    BY DEF handle_request_submit
  <1>4. \/ proposed' = proposed
        \/ /\ Len(proposed[view]) < MaxReq
           /\ proposed' = [proposed EXCEPT ![view] = Append(@, Head(queue[n]))]
    BY DEF handle_request_submit
  <1>5. faults' \in Nat
    BY <1>1 DEF handle_request_submit
  <1>6. queue[n] \in Seq(Msg) /\ Head(queue[n]) \in Msg
    BY <1>1, <1>2
  <1>7. queue' \in [Node -> Seq(Msg)]
    BY <1>1, <1>2, <1>6
  <1>8. /\ proposed' \in [View -> Seq(Msg)]
        /\ \A v \in View : /\ Len(proposed'[v]) >= Len(proposed[v])
                           /\ Len(proposed'[v]) <= MaxReq
    <2>1. \A v \in View : Len(proposed[v]) \in Nat /\ Len(proposed[v]) <= MaxReq
      BY <1>1, Numbers
    <2>2. CASE proposed' = proposed
      BY <1>1, <2>1, <2>2
    <2>3. CASE /\ Len(proposed[view]) < MaxReq
               /\ proposed' = [proposed EXCEPT ![view] = Append(@, Head(queue[n]))]
      <3>1. \A v \in View : proposed'[v] = IF v = view THEN Append(proposed[v], Head(queue[n]))
                                                     ELSE proposed[v]
        BY <1>1, <2>3
      <3>2. /\ Append(proposed[view], Head(queue[n])) \in Seq(Msg)
            /\ Len(Append(proposed[view], Head(queue[n]))) = Len(proposed[view]) + 1
        BY <1>1, <1>6
      <3>3. proposed' \in [View -> Seq(Msg)]
        BY <1>1, <2>3, <3>2
      <3> QED
        BY <2>1, <2>3, <3>1, <3>2, <3>3, Caps
    <2> QED
      BY <1>4, <2>2, <2>3
  <1>9. TypeOK'
    BY <1>3, <1>5, <1>7, <1>8 DEF TypeOK, cursor, signal
  <1>10. LogInv'
    <2>1. /\ \A v \in View : agreed[v] <= Len(proposed[v]) /\ agreed[v] \in Nat
          /\ \A v \in View : Len(proposed[v]) \in Nat
      BY <1>1, Numbers
    <2>2. \A v \in View : Len(proposed'[v]) \in Nat
      BY <1>8
    <2>3. \A v \in View : agreed'[v] <= Len(proposed'[v])
      BY <1>3, <1>8, <2>1, <2>2
    <2>4. \A m \in Node : /\ cur_view[m] \in View /\ committed[m] \in Nat
                          /\ committed[m] <= Len(proposed[cur_view[m]])
      BY <1>1, Numbers
    <2>5. \A m \in Node : committed'[m] <= Len(proposed'[cur_view'[m]])
      BY <1>3, <1>8, <2>1, <2>2, <2>4
    <2> QED
      BY <1>1, <1>3, <1>8, <2>3, <2>5 DEF LogInv
  <1>11. ASSUME NEW m \in Node PROVE DbInv(m)'
    BY <1>1, <1>3, <1>8, <1>9, <1>10, DbSame DEF ReplayInv
  <1>12. ASSUME NEW m \in Node PROVE HighInv(m)'
    BY <1>3 DEF ReplayInv, HighInv, cursor, signal
  <1>14. ASSUME NEW m \in Node PROVE CursorInv(m)'
    BY <1>1, <1>3, CursorSame DEF ReplayInv, cursor
  <1> QED
    BY <1>9, <1>10, <1>11, <1>12, <1>14 DEF ReplayInv

(* One more request of the newest view is agreed: no replica has left it. *)
LEMMA AgreeAction ==
    ASSUME TypeOK, ReplayInv, Agree
    PROVE  TypeOK' /\ ReplayInv'
  <1>1. LogInv /\ agreed \in [View -> 0..MaxReq]
    BY DEF TypeOK, ReplayInv
  <1>2. /\ agreed[view] < Len(proposed[view])
        /\ agreed' = [agreed EXCEPT ![view] = @ + 1]
        /\ UNCHANGED <<view, proposed, cur_view, committed, db, loop_end, hash_map>>
        /\ UNCHANGED cursor /\ UNCHANGED signal /\ UNCHANGED clients
    BY DEF Agree
  <1>3. /\ view \in View
        /\ \A v \in View : /\ v \in Nat /\ v > 0 /\ agreed[v] \in Nat
                           /\ agreed[v] <= Len(proposed[v])
                           /\ Len(proposed[v]) \in Nat /\ Len(proposed[v]) <= MaxReq
        /\ \A n \in Node : /\ cur_view[n] \in View /\ cur_view[n] <= view
                           /\ committed[n] \in Nat
                           /\ \A v \in 1..cur_view[n] : v \in View
    BY <1>1, Numbers
  <1>4. \A v \in View : agreed'[v] = IF v = view THEN agreed[v] + 1 ELSE agreed[v]
    BY <1>1, <1>2
  <1>5. agreed' \in [View -> 0..MaxReq]
    BY <1>1, <1>2, <1>3, Caps
  <1>6. TypeOK'
    BY <1>2, <1>5 DEF TypeOK, cursor, signal, clients
  <1>7. LogInv'
    <2>1. \A v \in View : agreed'[v] <= Len(proposed[v])
      BY <1>2, <1>3, <1>4
    <2>2. \A n \in Node : committed[n] <= agreed[cur_view[n]] => committed[n] <= agreed'[cur_view[n]]
      BY <1>3, <1>4
    <2> QED
      BY <1>1, <1>2, <1>3, <2>1, <2>2 DEF LogInv
  <1>8. ASSUME NEW n \in Node PROVE \A v \in View : v < cur_view[n] => agreed'[v] = agreed[v]
    BY <1>3, <1>4
  <1>9. ASSUME NEW n \in Node PROVE DbInv(n)'
    BY <1>1, <1>2, <1>3, <1>6, <1>7, <1>8, DbSame DEF ReplayInv
  <1>10. ASSUME NEW n \in Node PROVE HighInv(n)'
    BY <1>2 DEF ReplayInv, HighInv, signal, cursor
  <1>11. ASSUME NEW n \in Node PROVE CursorInv(n)'
    <2>1. \A v \in 1..cur_view[n] : v # cur_view[n] => v < cur_view[n] /\ v \in View
      BY <1>3
    <2> QED
      BY <1>1, <1>2, <1>8, <2>1, CursorSame DEF ReplayInv, cursor
  <1> QED
    BY <1>6, <1>7, <1>9, <1>10, <1>11 DEF ReplayInv

(* A key of the current view of a replica, or of a later one, gets a record. *)
LEMMA StoreKeeps ==
    ASSUME TypeOK, ReplayInv, NEW n \in Node, NEW v \in View, NEW r \in 0..MaxReq,
           cur_view[n] <= v, r <= Len(proposed[v]),
           db' = [db EXCEPT ![n] = @ \cup {vstol(v, r)}],
           loop_end' \in [Node -> LoopEnd],
           \A m \in Node : loop_end'[m] # "garbage" => loop_end[m] # "garbage",
           UNCHANGED <<view, proposed, agreed, cur_view, committed, hash_map>>,
           UNCHANGED cursor, UNCHANGED signal, UNCHANGED clients
    PROVE  TypeOK' /\ ReplayInv'
  <1> DEFINE key == vstol(v, r)
  <1>1. LogInv /\ db \in [Node -> SUBSET (1..MaxKey)]
    BY DEF TypeOK, ReplayInv
  <1>3. /\ v \in Nat /\ v > 0 /\ v <= MaxView /\ cur_view[n] \in View /\ cur_view[n] \in Nat
        /\ \A u \in View : u \in Nat /\ agreed[u] \in Nat /\ agreed[u] + 1 < KEY_BASE
        /\ r \in Nat /\ r < KEY_BASE /\ r <= MaxReq /\ MaxView \in Nat /\ MaxReq \in Nat
    <2>1. /\ cur_view[n] \in View
          /\ \A u \in View : /\ u \in Nat /\ u > 0 /\ u <= MaxView
                             /\ agreed[u] \in Nat /\ agreed[u] + 1 < KEY_BASE
      BY <1>1, Numbers
    <2> QED
      BY <2>1, Caps
  <1>4. key \in 1..MaxKey
    BY <1>3, KeyRange
  <1>2. ASSUME NEW u \in Nat, NEW q \in Nat, q < KEY_BASE, u < cur_view[n]
        PROVE  vstol(u, q) # key
    BY <1>2, <1>3, KeyOrder
  <1> HIDE DEF key
  <1>5. db' \in [Node -> SUBSET (1..MaxKey)]
    BY <1>1, <1>4 DEF key
  <1>6. TypeOK'
    BY <1>5 DEF TypeOK, cursor, signal, clients
  <1>7. LogInv'
    BY <1>1 DEF LogInv
  <1>8. /\ db'[n] = db[n] \cup {key}
        /\ \A m \in Node : m # n => db'[m] = db[m]
    BY <1>1 DEF key
  <1>9. ASSUME NEW m \in Node PROVE DbInv(m)'
    <2>1. CASE m # n
      <3>1. \A u \in View : Len(proposed'[u]) >= Len(proposed[u])
        BY <1>1, Numbers
      <3> QED
        BY <1>1, <1>6, <1>7, <1>8, <2>1, <3>1, DbSame DEF ReplayInv
    <2>2. CASE m = n
      <3>1. DbInv(n)
        BY DEF ReplayInv
      <3>2. \A k \in db'[n] : \E u \in View : \E q \in 0..Len(proposed[u]) : k = vstol(u, q)
        <4>1. r \in 0..Len(proposed[v])
          BY <1>1, <1>3, Numbers
        <4>2. \E u \in View : \E q \in 0..Len(proposed[u]) : key = vstol(u, q)
          BY <4>1 DEF key
        <4> QED
          BY <1>8, <3>1, <4>2 DEF DbInv
      <3>3. ASSUME NEW u \in View, u < cur_view[n] PROVE vstol(u, agreed[u] + 1) # key
        <4> DEFINE x == agreed[u] + 1
        <4>1. u \in Nat /\ x \in Nat /\ x < KEY_BASE
          BY <1>3
        <4> HIDE DEF x
        <4>2. vstol(u, x) # key
          BY <1>2, <3>3, <4>1
        <4> QED
          BY <4>2 DEF x
      <3> QED
        BY <1>8, <2>2, <3>1, <3>2, <3>3 DEF DbInv
    <2> QED
      BY <2>1, <2>2
  <1>10. ASSUME NEW m \in Node PROVE HighInv(m)'
    BY DEF ReplayInv, HighInv, cursor, signal
  <1>11. ASSUME NEW m \in Node PROVE CursorInv(m)'
    <2>1. CASE m # n
      BY <1>1, <1>8, <2>1, CursorSame DEF ReplayInv, cursor
    <2>2. CASE m = n
      <3>1. ASSUME NEW u \in 1..cur_view[n], u # cur_view[n], NEW q \in 1..MaxReq
            PROVE  vstol(u, q) \in db'[n] <=> vstol(u, q) \in db[n]
        <4>1. u \in Nat /\ u < cur_view[n] /\ q \in Nat /\ q < KEY_BASE
          BY <1>3, <3>1, Caps
        <4>2. vstol(u, q) # key
          BY <1>2, <4>1
        <4> QED
          BY <1>8, <4>2
      <3>2. CursorInv(n)'
        BY <1>1, <3>1, CursorSame DEF ReplayInv, cursor
      <3> QED
        BY <2>2, <3>2
    <2> QED
      BY <2>1, <2>2
  <1> QED
    BY <1>6, <1>7, <1>9, <1>10, <1>11 DEF ReplayInv

(* A record is stored, of the view of the replica or of a later one. *)
LEMMA StoreAction ==
    ASSUME TypeOK, ReplayInv, NEW n \in Node, NEW v \in View, NEW r \in 1..MaxReq,
           StoreRecord(n, v, r)
    PROVE  TypeOK' /\ ReplayInv'
  <1>1. /\ loop_end[n] # "garbage" /\ cur_view[n] <= v /\ r <= Len(proposed[v])
        /\ db' = [db EXCEPT ![n] = @ \cup {vstol(v, r)}]
        /\ loop_end' = [loop_end EXCEPT ![n] = IF cur_view[n] < v THEN "later" ELSE @]
        /\ UNCHANGED <<view, proposed, agreed, cur_view, committed, hash_map>>
        /\ UNCHANGED cursor /\ UNCHANGED signal /\ UNCHANGED clients
    BY DEF StoreRecord, Handles
  <1>2. loop_end \in [Node -> LoopEnd] /\ r \in 0..MaxReq
    BY DEF TypeOK
  <1>3. /\ loop_end' \in [Node -> LoopEnd]
        /\ \A m \in Node : loop_end'[m] # "garbage" => loop_end[m] # "garbage"
    BY <1>1, <1>2 DEF LoopEnd
  <1> QED
    BY <1>1, <1>2, <1>3, StoreKeeps

(* The commit point of a later view stops the deliveries. *)
LEMMA ForceAction ==
    ASSUME TypeOK, ReplayInv, NEW n \in Node, handle_force_exec(n)
    PROVE  TypeOK' /\ ReplayInv'
  <1>1. /\ loop_end[n] # "garbage"
        /\ loop_end' = [loop_end EXCEPT ![n] = "later"]
        /\ UNCHANGED <<view, proposed, agreed, cur_view, committed, db, hash_map>>
        /\ UNCHANGED cursor /\ UNCHANGED signal /\ UNCHANGED clients
    BY DEF handle_force_exec, Handles
  <1>2. loop_end \in [Node -> LoopEnd] /\ LogInv
    BY DEF TypeOK, ReplayInv
  <1>3. /\ loop_end' \in [Node -> LoopEnd]
        /\ \A m \in Node : loop_end'[m] # "garbage" => loop_end[m] # "garbage"
    BY <1>1, <1>2 DEF LoopEnd
  <1>4. TypeOK'
    BY <1>1, <1>3 DEF TypeOK, cursor, signal, clients
  <1>5. LogInv'
    BY <1>1, <1>2, <1>3 DEF LogInv
  <1>6. ASSUME NEW m \in Node PROVE DbInv(m)' /\ HighInv(m)'
    BY <1>1 DEF ReplayInv, DbInv, HighInv, cursor, signal
  <1>7. ASSUME NEW m \in Node PROVE CursorInv(m)'
    BY <1>1, <1>2, CursorSame DEF ReplayInv, cursor
  <1> QED
    BY <1>4, <1>5, <1>6, <1>7 DEF ReplayInv

(* The boundary record of the next view comes from a peer that has it. *)
LEMMA BoundaryAction ==
    ASSUME TypeOK, ReplayInv, NEW n \in Node, handle_missing_ack(n)
    PROVE  TypeOK' /\ ReplayInv'
  <1> DEFINE w == cur_view[n] + 1
  <1>1. /\ \E m \in Node : vstol(w, 0) \in db[m]
        /\ db' = [db EXCEPT ![n] = @ \cup {vstol(w, 0)}]
        /\ loop_end' = [loop_end EXCEPT ![n] = "garbage"]
        /\ UNCHANGED <<view, proposed, agreed, cur_view, committed, hash_map>>
        /\ UNCHANGED cursor /\ UNCHANGED signal /\ UNCHANGED clients
    BY DEF handle_missing_ack
  <1>2. LogInv /\ loop_end \in [Node -> LoopEnd]
    BY DEF TypeOK, ReplayInv
  <1>3. /\ cur_view[n] \in Nat /\ w \in Nat /\ 0 \in Nat /\ 0 < KEY_BASE
        /\ \A v \in View : v \in Nat /\ Len(proposed[v]) \in Nat /\ Len(proposed[v]) <= MaxReq
    <2>1. cur_view[n] \in View
      BY <1>2, Numbers
    <2>2. \A v \in View : v \in Nat /\ Len(proposed[v]) \in Nat /\ Len(proposed[v]) <= MaxReq
      BY <1>2, Numbers
    <2> QED
      BY <2>1, <2>2, Caps
  <1> HIDE DEF w
  <1>4. w \in View
    <2>1. PICK m \in Node : vstol(w, 0) \in db[m]
      BY <1>1
    <2>0. PICK v \in View : \E r \in 0..Len(proposed[v]) : vstol(w, 0) = vstol(v, r)
      BY <2>1 DEF ReplayInv, DbInv
    <2>2. PICK r \in 0..Len(proposed[v]) : vstol(w, 0) = vstol(v, r)
      BY <2>0
    <2>3. v \in Nat /\ r \in Nat /\ r < KEY_BASE
      BY <1>3, Caps
    <2>4. w = v
      BY <1>3, <2>2, <2>3, KeyOrder
    <2> QED
      BY <2>4
  <1>5. /\ loop_end' \in [Node -> LoopEnd]
        /\ \A m \in Node : loop_end'[m] # "garbage" => loop_end[m] # "garbage"
    BY <1>1, <1>2 DEF LoopEnd
  <1>6. /\ 0 \in 0..MaxReq /\ cur_view[n] <= w /\ 0 <= Len(proposed[w])
    BY <1>3, <1>4, Caps DEF w
  <1> QED
    BY <1>1, <1>4, <1>5, <1>6, StoreKeeps

(* A record is delivered and becomes the highest one. *)
LEMMA DeliverAction ==
    ASSUME TypeOK, ReplayInv, NEW n \in Node, update_state(n)
    PROVE  TypeOK' /\ ReplayInv'
  <1> DEFINE cv == cur_view[n]
             c == committed[n] + 1
             key == vstol(cv, c)
  <1>1. /\ LogInv /\ committed \in [Node -> 0..MaxReq] /\ waking \in [Node -> BOOLEAN]
        /\ highest_rec \in [Node -> 0..MaxKey] /\ DbInv(n) /\ CursorInv(n)
    BY DEF TypeOK, ReplayInv
  <1>2. /\ loop_end[n] # "garbage" => committed[n] < agreed[cv]
        /\ key \in db[n]
        /\ committed' = [committed EXCEPT ![n] = c]
        /\ highest_rec' = [highest_rec EXCEPT ![n] = IF @ < key THEN key ELSE @]
        /\ waking' = [waking EXCEPT ![n] = TRUE]
        /\ UNCHANGED <<view, proposed, agreed, cur_view, db, loop_end, sigusr2, hash_map>>
        /\ UNCHANGED cursor /\ UNCHANGED clients
    BY DEF update_state
  <1>3. /\ cv \in View /\ cv \in Nat /\ cv > 0 /\ cv <= MaxView
        /\ committed[n] \in Nat /\ c \in 1..Len(proposed[cv]) /\ c \in 1..MaxReq
        /\ MaxView \in Nat /\ MaxReq \in Nat /\ agreed[cv] \in Nat /\ c \in Nat /\ c < KEY_BASE
    <2>1. /\ cv \in View /\ committed[n] \in Nat /\ committed[n] <= MaxReq
          /\ MaxView \in Nat /\ MaxReq \in Nat /\ MaxReq + 1 < KEY_BASE /\ KEY_BASE \in Nat
      BY <1>1, Numbers, Caps
    <2>2. \A v \in View : /\ v \in Nat /\ v > 0 /\ v <= MaxView /\ agreed[v] \in Nat
                          /\ Len(proposed[v]) \in Nat /\ Len(proposed[v]) <= MaxReq
      BY <1>1, Numbers
    <2>3. c \in Nat /\ c < KEY_BASE
      BY <2>1
    <2>0. PICK v \in View : \E r \in 0..Len(proposed[v]) : key = vstol(v, r)
      BY <1>1, <1>2 DEF DbInv
    <2>4. PICK r \in 0..Len(proposed[v]) : key = vstol(v, r)
      BY <2>0
    <2>5. v \in Nat /\ r \in Nat /\ r < KEY_BASE
      BY <2>1, <2>2
    <2>6. cv = v /\ c = r
      <3>1. cv \in Nat
        BY <2>1, <2>2
      <3> HIDE DEF cv, c
      <3> QED
        BY <2>3, <2>4, <2>5, <3>1, KeyOrder
    <2> QED
      BY <2>1, <2>2, <2>3, <2>6
  <1>4. key \in 1..MaxKey
    BY <1>3, KeyRange
  <1>0. /\ \A m \in Node : committed'[m] = IF m = n THEN c ELSE committed[m]
        /\ \A m \in Node : highest_rec'[m] = IF m = n /\ highest_rec[n] < key THEN key ELSE highest_rec[m]
    BY <1>1, <1>2
  <1>c. c = committed[n] + 1
    OBVIOUS
  <1> HIDE DEF key, c
  <1>5. /\ committed' \in [Node -> 0..MaxReq] /\ highest_rec' \in [Node -> 0..MaxKey]
        /\ waking' \in [Node -> BOOLEAN]
    BY <1>1, <1>2, <1>3, <1>4
  <1>6. TypeOK'
    BY <1>2, <1>5 DEF TypeOK, cursor, clients
  <1>7. LogInv'
    <2>1. \A m \in Node : /\ committed'[m] <= Len(proposed[cur_view[m]])
                          /\ loop_end[m] # "garbage" => committed'[m] <= agreed[cur_view[m]]
      BY <1>0, <1>1, <1>2, <1>3, <1>c DEF LogInv
    <2>2. LogInv /\ UNCHANGED <<view, proposed, agreed, cur_view, loop_end>>
      BY <1>1, <1>2
    <2> QED
      BY <2>1, <2>2 DEF LogInv
  <1>8. ASSUME NEW m \in Node PROVE DbInv(m)'
    <2>1. \A q \in 1..committed'[m] : vstol(cur_view[m], q) \in db[m]
      <3>1. CASE m # n
        BY <1>0, <3>1 DEF ReplayInv, DbInv
      <3>2. CASE m = n
        <4>1. \A q \in 1..c : q \in 1..committed[n] \/ q = c
          BY <1>3 DEF c
        <4> QED
          BY <1>0, <1>2, <3>2, <4>1 DEF ReplayInv, DbInv, key
      <3> QED
        BY <3>1, <3>2
    <2> QED
      BY <1>2, <2>1 DEF ReplayInv, DbInv
  <1>9. ASSUME NEW m \in Node PROVE HighInv(m)'
    <2>1. HighInv(m) /\ highest_rec[m] \in Nat /\ cur_highest[m] \in Nat /\ key \in Nat
      BY <1>4 DEF ReplayInv, TypeOK
    <2>2. cur_highest[m] <= highest_rec'[m]
      BY <1>0, <2>1 DEF HighInv
    <2>3. \/ highest_rec'[m] = 0
          \/ \E v \in 1..cur_view[m] : \E q \in 1..MaxReq :
                highest_rec'[m] = vstol(v, q) /\ (v = cur_view[m] => q <= committed'[m])
      <3>1. CASE m = n /\ highest_rec[n] < key
        <4>1. cv \in 1..cur_view[m] /\ c <= committed'[m] /\ highest_rec'[m] = vstol(cv, c)
          BY <1>0, <1>3, <3>1 DEF key
        <4> QED
          BY <1>3, <4>1
      <3>2. CASE ~(m = n /\ highest_rec[n] < key)
        <4>1. highest_rec'[m] = highest_rec[m]
          BY <1>0, <3>2
        <4>2. committed[m] \in Nat /\ committed'[m] \in Nat /\ committed[m] <= committed'[m]
          BY <1>0, <1>1, <1>3 DEF c
        <4>3. MaxReq \in Nat
          BY Caps
        <4> QED
          BY <2>1, <4>1, <4>2, <4>3 DEF HighInv
      <3> QED
        BY <3>1, <3>2
    <2> QED
      BY <1>2, <2>2, <2>3 DEF HighInv, cursor
  <1>10. CursorInv(n)'
    <2>1. ASSUME NEW v \in 1..cur_view[n], NEW r \in 1..MaxReq
          PROVE  /\ Reachable(n, v, r) => Reachable(n, v, r)'
                 /\ Reachable(n, v, r)' /\ ~Reachable(n, v, r) => ~(vstol(v, r) < cur_rec[n])
      <3>1. r \in Nat /\ r < KEY_BASE /\ v \in Nat /\ r >= 1
        BY <1>3, Caps
      <3>2. CASE v = cur_view[n]
        <4>1. (Reachable(n, v, r) <=> r <= committed[n]) /\ (Reachable(n, v, r)' <=> r <= c)
          BY <1>0, <1>2, <3>2 DEF Reachable
        <4>2. ~(r <= committed[n]) => ~(vstol(v, r) < cur_rec[n])
          BY <1>1, <1>3, <3>1, <3>2, CursorBelow
        <4> QED
          BY <1>3, <3>1, <4>1, <4>2, <1>c
      <3>3. CASE v # cur_view[n]
        BY <1>2, <3>3 DEF Reachable
      <3> QED
        BY <3>2, <3>3
    <2>2. cur_view'[n] = cur_view[n] /\ cur_rec'[n] = cur_rec[n] /\ executed'[n] = executed[n]
      BY <1>2 DEF cursor
    <2>3. \A v \in 1..cur_view[n] : v <= cur_view[n]
      BY <1>3
    <2> QED
      BY <1>1, <1>3, <2>1, <2>2, <2>3, CursorGrows
  <1>11. ASSUME NEW m \in Node, m # n PROVE CursorInv(m)'
    BY <1>0, <1>1, <1>2, <1>11, CursorSame DEF ReplayInv, cursor
  <1> QED
    BY <1>6, <1>7, <1>8, <1>9, <1>10, <1>11 DEF ReplayInv

LEMMA NewViewAction ==
    ASSUME TypeOK, ReplayInv, NewView
    PROVE  TypeOK' /\ ReplayInv'
  <1>1. LogInv /\ view \in 1..MaxView /\ MaxView \in Nat
    BY Numbers, Caps DEF ReplayInv
  <1>2. /\ view < MaxView /\ view' = view + 1
        /\ UNCHANGED <<proposed, agreed, cur_view, committed, db, loop_end, hash_map>>
        /\ UNCHANGED cursor /\ UNCHANGED signal /\ UNCHANGED clients
    BY DEF NewView
  <1>3. view' \in View
    BY <1>1, <1>2 DEF View
  <1>4. TypeOK'
    BY <1>2, <1>3 DEF TypeOK, cursor, signal, clients
  <1>5. LogInv'
    <2>1. \A m \in Node : cur_view[m] \in Nat /\ cur_view[m] <= view
      BY <1>1, Numbers
    <2>2. \A m \in Node : cur_view[m] <= view'
      BY <1>1, <1>2, <2>1
    <2> QED
      BY <1>1, <1>2, <2>2 DEF LogInv
  <1>6. ASSUME NEW m \in Node PROVE DbInv(m)'
    BY <1>2 DEF ReplayInv, DbInv
  <1>7. ASSUME NEW m \in Node PROVE HighInv(m)'
    BY <1>2 DEF ReplayInv, HighInv, cursor, signal
  <1>9. ASSUME NEW m \in Node PROVE CursorInv(m)'
    BY <1>1, <1>2, CursorSame DEF ReplayInv, cursor
  <1> QED
    BY <1>4, <1>5, <1>6, <1>7, <1>9 DEF ReplayInv

(* A replica enters the next view with the records it has, and deletes the   *)
(* one after the agreed ones, where the cursor must turn.                    *)
LEMMA UpdateViewAction ==
    ASSUME TypeOK, ReplayInv, NEW n \in Node, update_view(n)
    PROVE  TypeOK' /\ ReplayInv'
  <1> DEFINE v == cur_view[n]
             w == v + 1
             start == vstol(w, 0)
             gone == vstol(v, agreed[v] + 1)
  <1>1. /\ LogInv /\ committed \in [Node -> 0..MaxReq] /\ cur_view \in [Node -> View]
        /\ db \in [Node -> SUBSET (1..MaxKey)] /\ loop_end \in [Node -> LoopEnd]
        /\ DbInv(n) /\ CursorInv(n)
    BY DEF TypeOK, ReplayInv
  <1>2. /\ v < view /\ loop_end[n] # "garbage"
        /\ db' = [db EXCEPT ![n] = (@ \cup {start}) \ {gone}]
        /\ cur_view' = [cur_view EXCEPT ![n] = w]
        /\ committed' = [committed EXCEPT ![n] = 0]
        /\ loop_end' = [loop_end EXCEPT ![n] = "own"]
        /\ UNCHANGED <<view, proposed, agreed, hash_map>>
        /\ UNCHANGED cursor /\ UNCHANGED signal /\ UNCHANGED clients
    BY DEF update_view, delete_record, Handles
  <1>3. /\ v \in Nat /\ v > 0 /\ v \in View /\ w \in View /\ w \in Nat /\ w <= view
        /\ w \in 1..(MaxView + 1) /\ 0 \in 0..(MaxReq + 1) /\ 0 \in 0..MaxReq /\ 0 < KEY_BASE
        /\ \A u \in View : /\ u \in Nat /\ u > 0 /\ agreed[u] \in Nat /\ agreed[u] + 1 < KEY_BASE
                           /\ Len(proposed[u]) \in Nat
        /\ \A m \in Node : cur_view[m] \in Nat /\ cur_view[m] <= view
        /\ committed[n] \in Nat /\ committed[n] <= agreed[v] /\ MaxReq \in Nat
    <2>1. /\ v \in View /\ v \in Nat /\ v > 0 /\ view \in Nat /\ view <= MaxView
          /\ MaxView \in Nat /\ MaxReq \in Nat /\ 0 < KEY_BASE
      BY <1>1, Numbers, Caps
    <2>2. w \in View
      BY <1>2, <2>1 DEF View
    <2>3. committed[n] \in Nat /\ committed[n] <= agreed[v]
      BY <1>1, <1>2, Numbers
    <2> QED
      BY <1>1, <1>2, <2>1, <2>2, <2>3, Numbers
  <1>4. start \in 1..MaxKey
    BY <1>3, KeyRange
  <1>0. /\ cur_view'[n] = w /\ committed'[n] = 0 /\ db'[n] = (db[n] \cup {start}) \ {gone}
        /\ \A m \in Node : m # n => /\ cur_view'[m] = cur_view[m] /\ committed'[m] = committed[m]
                                    /\ db'[m] = db[m]
    BY <1>1, <1>2
  <1>5. /\ db' \in [Node -> SUBSET (1..MaxKey)] /\ cur_view' \in [Node -> View]
        /\ committed' \in [Node -> 0..MaxReq]
    <2> HIDE DEF start, gone, w
    <2> QED
      BY <1>1, <1>2, <1>3, <1>4
  <1>l. /\ loop_end' \in [Node -> LoopEnd]
        /\ \A m \in Node : m # n => loop_end'[m] = loop_end[m]
    BY <1>1, <1>2 DEF LoopEnd
  <1>6. TypeOK'
    BY <1>2, <1>5, <1>l DEF TypeOK, cursor, signal, clients
  <1>7. LogInv'
    <2>1. 0 <= Len(proposed[w]) /\ 0 <= agreed[w]
      BY <1>3
    <2>2. ASSUME NEW m \in Node
          PROVE  /\ cur_view'[m] <= view /\ committed'[m] <= Len(proposed[cur_view'[m]])
                 /\ loop_end'[m] # "garbage" => committed'[m] <= agreed[cur_view'[m]]
      <3> HIDE DEF w
      <3>1. CASE m = n
        BY <1>0, <1>3, <2>1, <3>1
      <3>2. CASE m # n
        BY <1>0, <1>1, <1>l, <3>2 DEF LogInv
      <3> QED
        BY <3>1, <3>2
    <2> QED
      BY <1>1, <1>2, <2>2 DEF LogInv
  <1>k. ASSUME NEW u \in Nat, NEW q \in Nat, q < KEY_BASE, q >= 1,
               u < v \/ (u = v /\ q <= agreed[v])
        PROVE  vstol(u, q) \in db'[n] <=> vstol(u, q) \in db[n]
    <2>1. agreed[v] + 1 \in Nat /\ agreed[v] + 1 < KEY_BASE /\ agreed[v] \in Nat
      BY <1>3
    <2>2. u # w /\ ~(u = v /\ q = agreed[v] + 1)
      BY <1>3, <1>k, <2>1
    <2> HIDE DEF w
    <2>3. vstol(u, q) # start
      BY <1>3, <1>k, <2>2, KeyOrder
    <2>4. vstol(u, q) # gone
      <3> DEFINE x == agreed[v] + 1
      <3>1. x \in Nat /\ x < KEY_BASE /\ ~(u = v /\ q = x) /\ v \in Nat
        BY <1>3, <2>1, <2>2
      <3> HIDE DEF x, v
      <3>2. vstol(u, q) # vstol(v, x)
        BY <1>k, <3>1, KeyOrder
      <3> QED
        BY <3>2 DEF x
    <2> HIDE DEF start, gone
    <2> QED
      BY <1>0, <2>3, <2>4
  <1>8. ASSUME NEW m \in Node PROVE DbInv(m)'
    <2>1. CASE m # n
      <3>1. \A u \in View : Len(proposed'[u]) >= Len(proposed[u])
        BY <1>2, <1>3
      <3> QED
        BY <1>0, <1>1, <1>2, <1>6, <1>7, <2>1, <3>1, DbSame DEF ReplayInv
    <2>2. CASE m = n
      <3>2. \A k \in db'[n] : \E u \in View : \E r \in 0..Len(proposed[u]) : k = vstol(u, r)
        <4>2. w \in View /\ 0 \in 0..Len(proposed[w])
          BY <1>3
        <4>3. \E u \in View : \E r \in 0..Len(proposed[u]) : start = vstol(u, r)
          BY <4>2
        <4>4. \A k \in db[n] : \E u \in View : \E r \in 0..Len(proposed[u]) : k = vstol(u, r)
          BY <1>1 DEF DbInv
        <4> HIDE DEF start, gone, w
        <4> QED
          BY <1>0, <4>3, <4>4
      <3>3. ASSUME NEW u \in View, u < w
            PROVE  vstol(u, agreed[u] + 1) \notin db'[n]
        <4>1. u \in Nat /\ (u < v \/ u = v) /\ agreed[u] + 1 \in Nat /\ agreed[u] + 1 < KEY_BASE
              /\ agreed[u] + 1 >= 1
          BY <1>3, <3>3
        <4>2. CASE u = v
          <5> HIDE DEF start
          <5> QED
            BY <1>0, <4>2
        <4>3. CASE u < v
          <5>1. vstol(u, agreed[u] + 1) \notin db[n]
            BY <1>1, <4>3 DEF DbInv
          <5> DEFINE x == agreed[u] + 1
          <5>2. x \in Nat /\ x < KEY_BASE /\ x >= 1
            BY <4>1
          <5> HIDE DEF x, v
          <5>3. vstol(u, x) \in db'[n] <=> vstol(u, x) \in db[n]
            BY <1>k, <4>1, <4>3, <5>2
          <5> QED
            BY <5>1, <5>3 DEF x
        <4> QED
          BY <4>1, <4>2, <4>3
      <3>4. \A r \in 1..0 : vstol(w, r) \in db'[n]
        OBVIOUS
      <3> HIDE DEF w
      <3> QED
        BY <1>0, <1>2, <2>2, <3>2, <3>3, <3>4 DEF DbInv
    <2> QED
      BY <2>1, <2>2
  <1>9. ASSUME NEW m \in Node PROVE HighInv(m)'
    <2>1. CASE m # n
      BY <1>0, <1>2, <2>1 DEF ReplayInv, HighInv, cursor, signal
    <2>2. CASE m = n
      <3>1. HighInv(n) /\ highest_rec' = highest_rec /\ cur_highest' = cur_highest
        BY <1>2 DEF ReplayInv, cursor, signal
      <3>2. \A u \in 1..v : u \in 1..w /\ u # w
        BY <1>3
      <3>3. \/ highest_rec[n] = 0
            \/ \E u \in 1..w : \E r \in 1..MaxReq :
                 highest_rec[n] = vstol(u, r) /\ (u = w => r <= 0)
        <4> HIDE DEF w
        <4> QED
          BY <3>1, <3>2 DEF HighInv
      <3> HIDE DEF w
      <3> QED
        BY <1>0, <1>2, <2>2, <3>1, <3>3 DEF HighInv
    <2> QED
      BY <2>1, <2>2
  <1>10. CursorInv(n)'
    <2>1. ASSUME NEW u \in 1..w, NEW r \in 1..MaxReq
          PROVE  /\ u <= v /\ Reachable(n, u, r) => Reachable(n, u, r)'
                 /\ Reachable(n, u, r)' /\ ~(u <= v /\ Reachable(n, u, r))
                      => ~(vstol(u, r) < cur_rec[n])
      <3>1. u \in Nat /\ r \in Nat /\ r < KEY_BASE /\ r >= 1
        BY <1>3, Caps
      <3>2. CASE u = w
        <4>1. ~Reachable(n, u, r)'
          BY <1>0, <3>1, <3>2 DEF Reachable
        <4> QED
          BY <1>3, <3>2, <4>1
      <3>3. CASE u = v
        <4>1. Reachable(n, u, r) <=> r <= committed[n]
          BY <3>3 DEF Reachable
        <4>2. r <= committed[n] => Reachable(n, u, r)'
          <5>1. ASSUME r <= committed[n] PROVE r <= agreed[v] /\ \A q \in 1..r : vstol(u, q) \in db'[n]
            <6>1. ASSUME NEW q \in 1..r PROVE vstol(u, q) \in db'[n]
              <7>1. q \in Nat /\ q < KEY_BASE /\ q >= 1 /\ q <= agreed[v] /\ q \in 1..committed[n]
                BY <1>3, <3>1, <5>1, Caps
              <7>2. vstol(u, q) \in db[n]
                BY <1>1, <3>3, <7>1 DEF DbInv
              <7> QED
                BY <1>k, <3>1, <3>3, <7>1, <7>2
            <6> QED
              BY <1>3, <3>1, <5>1, <6>1
          <5>2. u # w
            BY <1>3, <3>3
          <5> HIDE DEF w
          <5> QED
            BY <1>0, <1>2, <3>3, <5>1, <5>2 DEF Reachable
        <4>3. ~(r <= committed[n]) => ~(vstol(u, r) < cur_rec[n])
          BY <1>1, <1>3, <3>1, <3>3, CursorBelow
        <4> QED
          BY <4>1, <4>2, <4>3, <1>3, <3>3
      <3>4. CASE u < v
        <4>1. \A q \in 1..r : vstol(u, q) \in db'[n] <=> vstol(u, q) \in db[n]
          <5>1. ASSUME NEW q \in 1..r PROVE vstol(u, q) \in db'[n] <=> vstol(u, q) \in db[n]
            <6>1. q \in Nat /\ q < KEY_BASE /\ q >= 1
              BY <3>1, Caps
            <6> QED
              BY <1>k, <3>1, <3>4, <6>1
          <5> QED
            BY <5>1
        <4>2. u # v /\ u # w
          BY <1>3, <3>1, <3>4
        <4>3. Reachable(n, u, r)' <=> Reachable(n, u, r)
          <5> HIDE DEF w
          <5> QED
            BY <1>0, <1>2, <4>1, <4>2 DEF Reachable
        <4>4. u <= v
          BY <1>3, <3>1, <3>4
        <4> QED
          BY <4>3, <4>4
      <3> QED
        BY <1>3, <3>1, <3>2, <3>3, <3>4
    <2>2. /\ cur_rec'[n] = cur_rec[n] /\ executed'[n] = executed[n]
      BY <1>2 DEF cursor
    <2>3. /\ \A u \in 1..v : u \in 1..w /\ u <= v
          /\ cur_view'[n] = w /\ w >= cur_view[n] /\ cur_view[n] \in Nat /\ w \in Nat
          /\ MaxReq \in Nat
      BY <1>0, <1>3
    <2> HIDE DEF w
    <2> QED
      BY <1>1, <2>1, <2>2, <2>3, CursorGrows
  <1>11. ASSUME NEW m \in Node, m # n PROVE CursorInv(m)'
    BY <1>0, <1>1, <1>2, <1>11, CursorSame DEF ReplayInv, cursor
  <1> QED
    BY <1>6, <1>7, <1>8, <1>9, <1>10, <1>11 DEF ReplayInv
--------------------------------------------------------------------------------
(* The loop of real_do_action. *)

(* Where the cursor is when the loop goes on: at the start, at a request     *)
(* that may be executed and whose record is there, or at the first key       *)
(* without a record of a view that the replica has left.                     *)
LEMMA CursorAt ==
    ASSUME TypeOK, ReplayInv, NEW n \in Node, cur_rec[n] <= cur_highest[n]
    PROVE  \/ cur_rec[n] = 0 /\ cur_rec[n] \notin db[n]
           \/ \E v \in 1..cur_view[n] : \E r \in 1..MaxReq :
                 cur_rec[n] = vstol(v, r) /\ cur_rec[n] \in db[n] /\ Reachable(n, v, r)
           \/ \E v \in 1..cur_view[n] : \E r \in 1..(MaxReq + 1) :
                 v < cur_view[n] /\ cur_rec[n] = vstol(v, r) /\ cur_rec[n] \notin db[n]
  <1>1. /\ LogInv /\ DbInv(n) /\ HighInv(n) /\ CursorInv(n)
        /\ db[n] \subseteq 1..MaxKey /\ cur_rec[n] \in Nat /\ cur_highest[n] \in Nat
        /\ highest_rec[n] \in Nat
    BY DEF ReplayInv, TypeOK
  <1>2. CASE cur_rec[n] = 0
    BY <1>1, <1>2
  <1>3. CASE cur_rec[n] # 0
    <2>1. PICK v \in 1..cur_view[n], r \in 1..(MaxReq + 1) :
                 cur_rec[n] = vstol(v, r) /\ (r > 1 => Reachable(n, v, r - 1))
      BY <1>1, <1>3 DEF CursorInv
    <2>3. highest_rec[n] # 0 /\ cur_rec[n] <= highest_rec[n]
      BY <1>1, <1>3 DEF HighInv
    <2>4. PICK u \in 1..cur_view[n], q \in 1..MaxReq :
             highest_rec[n] = vstol(u, q) /\ (u = cur_view[n] => q <= committed[n])
      BY <1>1, <2>3 DEF HighInv
    <2>6. /\ u \in Nat /\ v \in Nat /\ v \in View /\ q \in Nat /\ q < KEY_BASE
          /\ r \in Nat /\ r < KEY_BASE /\ cur_view[n] \in Nat /\ committed[n] \in Nat
          /\ agreed[v] \in Nat /\ agreed[v] <= MaxReq /\ u <= cur_view[n] /\ v <= cur_view[n]
          /\ committed[n] <= MaxReq /\ 1 <= r /\ r <= MaxReq + 1 /\ MaxReq \in Nat
      <3>1. /\ v \in View /\ cur_view[n] \in View /\ committed[n] \in Nat /\ committed[n] <= MaxReq
        BY <1>1, Numbers
      <3>2. \A x \in View : /\ x \in Nat /\ agreed[x] \in Nat /\ agreed[x] <= Len(proposed[x])
                            /\ Len(proposed[x]) \in Nat /\ Len(proposed[x]) <= MaxReq
        BY <1>1, Numbers
      <3> QED
        BY <3>1, <3>2, Caps
    <2>7. v < u \/ (v = u /\ r <= q)
      <3>1. vstol(v, r) < vstol(u, q) \/ vstol(v, r) = vstol(u, q)
        <4>1. vstol(v, r) <= vstol(u, q) /\ vstol(v, r) \in Nat /\ vstol(u, q) \in Nat
          BY <1>1, <2>1, <2>3, <2>4
        <4> QED
          BY <4>1
      <3>2. v < u \/ (v = u /\ r < q) \/ (v = u /\ r = q)
        BY <2>6, <3>1, KeyOrder
      <3> QED
        BY <2>6, <3>2
    <2>8. CASE v = cur_view[n]
      <3>1. r <= committed[n]
        BY <2>4, <2>6, <2>7, <2>8
      <3>2. r \in 1..committed[n] /\ r \in 1..MaxReq /\ Reachable(n, v, r)
        BY <2>6, <2>8, <3>1 DEF Reachable
      <3>3. cur_rec[n] \in db[n]
        BY <1>1, <2>1, <2>8, <3>2 DEF DbInv
      <3> QED
        BY <2>1, <3>2, <3>3
    <2>9. CASE v # cur_view[n]
      <3>1. v < cur_view[n]
        BY <2>6, <2>9
      <3>2. CASE cur_rec[n] \notin db[n]
        BY <2>1, <3>1, <3>2
      <3>3. CASE cur_rec[n] \in db[n]
        <4>1. r > 1 => r - 1 <= agreed[v] /\ \A x \in 1..(r - 1) : vstol(v, x) \in db[n]
          BY <2>1, <2>9 DEF Reachable
        <4>2. r # agreed[v] + 1
          BY <1>1, <2>1, <2>6, <3>1, <3>3 DEF DbInv
        <4>3. r <= agreed[v] /\ r \in 1..MaxReq
          BY <2>6, <4>1, <4>2
        <4>4. \A x \in 1..r : x = r \/ (r > 1 /\ x \in 1..(r - 1))
          BY <2>6
        <4>5. \A x \in 1..r : vstol(v, x) \in db[n]
          BY <2>1, <3>3, <4>1, <4>4
        <4>6. Reachable(n, v, r)
          BY <2>9, <4>3, <4>5 DEF Reachable
        <4> QED
          BY <2>1, <3>3, <4>3, <4>6
      <3> QED
        BY <3>2, <3>3
    <2> QED
      BY <2>8, <2>9
  <1> QED
    BY <1>2, <1>3

(* The keys that a replica may execute are compared as their parts. *)
LEMMA ReplayBelow ==
    ASSUME TypeOK, LogInv, NEW n \in Node, NEW v \in Nat, NEW r \in Nat, r < KEY_BASE,
           NEW k \in Replayable(n)
    PROVE  \E u \in 1..cur_view[n] : \E q \in 1..MaxReq :
              /\ k = vstol(u, q) /\ k \in Nat /\ Reachable(n, u, q)
              /\ k < vstol(v, r) <=> u < v \/ (u = v /\ q < r)
  <1>1. PICK u \in 1..cur_view[n], q \in 1..MaxReq : Reachable(n, u, q) /\ k = vstol(u, q)
    BY ReplayFacts
  <1>2. u \in Nat /\ q \in Nat /\ q < KEY_BASE
    BY <1>1, ReachRange
  <1> QED
    BY <1>1, <1>2, KeyOrder

(* What a request does to the socket pair of its connection. *)
LEMMA ReplayType ==
    ASSUME hash_map \in [Node -> [Conn -> Pair]], NEW n \in Node, NEW m \in Msg,
           do_action_to_server(n, m)
    PROVE  /\ m.conn \in Conn
           /\ hash_map' \in [Node -> [Conn -> Pair]]
           /\ \A x \in Node, c \in Conn : hash_map'[x][c] =
                 IF x = n /\ c = m.conn
                 THEN CASE m.action = "CONNECT" -> do_action_connect(hash_map[x][c])
                        [] m.action = "SEND"    -> do_action_send(hash_map[x][c])
                        [] m.action = "CLOSE"   -> do_action_close(hash_map[x][c])
                 ELSE hash_map[x][c]
  <1> DEFINE p == hash_map[n][m.conn]
             q == CASE m.action = "CONNECT" -> do_action_connect(p)
                    [] m.action = "SEND"    -> do_action_send(p)
                    [] m.action = "CLOSE"   -> do_action_close(p)
  <1>1. m.conn \in Conn /\ m.action \in {"CONNECT", "SEND", "CLOSE"}
    BY DEF Msg
  <1>2. p \in Pair
    BY <1>1
  <1>3. q \in Pair
    <2>1. do_action_send(p) \in Pair
      BY <1>2 DEF do_action_send
    <2> HIDE DEF p
    <2>2. [p EXCEPT !.set = TRUE, !.p_s = "up"] \in Pair
      BY <1>2, Zenon DEF Pair
    <2>3. [p EXCEPT !.set = TRUE, !.p_s = p.p_s] \in Pair
      BY <1>2, Zenon DEF Pair
    <2>4. do_action_connect(p) \in Pair
      BY <2>2, <2>3 DEF do_action_connect
    <2>5. do_action_close(p) \in Pair
      BY <1>2, Zenon DEF Pair, do_action_close
    <2> QED
      BY <1>1, <2>1, <2>4, <2>5
  <1>4. hash_map' = [hash_map EXCEPT ![n][m.conn] = q]
    BY DEF do_action_to_server
  <1> HIDE DEF q
  <1>5. /\ hash_map' \in [Node -> [Conn -> Pair]]
        /\ \A x \in Node, c \in Conn : hash_map'[x][c] =
              IF x = n /\ c = m.conn THEN q ELSE hash_map[x][c]
    BY <1>1, <1>3, <1>4
  <1> QED
    BY <1>1, <1>5 DEF q

(* What may be executed has a request in the log. *)
LEMMA ReplayContent ==
    ASSUME TypeOK, LogInv, NEW n \in Node, NEW k \in Replayable(n)
    PROVE  /\ Content(k) \in Msg /\ k \in 1..MaxKey
           /\ \E v \in View : \E r \in 1..Len(proposed[v]) :
                 /\ ltovs(k) = [view_id |-> v, req_id |-> r]
                 /\ Content(k) = proposed[v][r]
  <1>1. PICK v \in 1..cur_view[n], r \in 1..MaxReq : Reachable(n, v, r) /\ k = vstol(v, r)
    BY ReplayFacts
  <1>2. /\ v \in View /\ v \in Nat /\ v > 0 /\ v <= MaxView
        /\ r \in 1..Len(proposed[v]) /\ r \in Nat /\ r < KEY_BASE
    BY <1>1, ReachRange
  <1>3. v \in 1..(MaxView + 1) /\ r \in 0..(MaxReq + 1)
    BY <1>2, Caps
  <1>5. ltovs(k) = [view_id |-> v, req_id |-> r]
    BY <1>1, <1>2, KeyParts
  <1>6. Content(k) = proposed[v][r]
    BY <1>5 DEF Content
  <1>7. proposed[v] \in Seq(Msg)
    BY <1>2 DEF TypeOK
  <1>8. proposed[v][r] \in Msg
    BY <1>2, <1>7
  <1>9. k \in 1..MaxKey
    BY <1>1, <1>3, KeyRange
  <1> QED
    BY <1>2, <1>5, <1>6, <1>8, <1>9

(* One turn of the loop executes the request at the cursor, or takes the     *)
(* cursor to the next view, past no request that may be executed.            *)
LEMMA ReplayAction ==
    ASSUME TypeOK, ReplayInv, NEW n \in Node, real_do_action(n)
    PROVE  TypeOK' /\ ReplayInv'
  <1> DEFINE k == cur_rec[n]
  <1>1. /\ LogInv /\ CursorInv(n) /\ cur_rec \in [Node -> 0..MaxKey]
        /\ executed \in [Node -> Seq(1..MaxKey)] /\ hash_map \in [Node -> [Conn -> Pair]]
    BY DEF TypeOK, ReplayInv
  <1>2. /\ k <= cur_highest[n]
        /\ UNCHANGED consensus /\ UNCHANGED clients /\ UNCHANGED signal
        /\ UNCHANGED <<cur_highest, acting>>
    BY DEF real_do_action
  <1>3. \/ /\ k \in db[n]
           /\ do_action_to_server(n, Content(k))
           /\ executed' = [executed EXCEPT ![n] = Append(@, k)]
           /\ cur_rec' = [cur_rec EXCEPT ![n] = @ + 1]
        \/ /\ k \notin db[n]
           /\ cur_rec' = [cur_rec EXCEPT ![n] = cross_view(@)]
           /\ UNCHANGED <<executed, hash_map>>
    BY DEF real_do_action
  <1>4. LogInv'
    BY <1>1, <1>2 DEF LogInv, consensus
  <1>5. ASSUME NEW m \in Node PROVE DbInv(m)'
    BY <1>2 DEF ReplayInv, DbInv, consensus
  <1>6. ASSUME NEW m \in Node PROVE HighInv(m)'
    BY <1>2 DEF ReplayInv, HighInv, consensus, signal
  <1>7. \A m \in Node : Replayable(m)' = Replayable(m)
    BY <1>2 DEF Replayable, Reachable, consensus
  <1>8. ASSUME NEW m \in Node, m # n PROVE CursorInv(m)'
    <2>1. cur_rec'[m] = cur_rec[m] /\ executed'[m] = executed[m]
      BY <1>1, <1>3, <1>8
    <2>2. CursorInv(m)
      BY DEF ReplayInv
    <2> QED
      BY <1>1, <1>2, <2>1, <2>2, CursorSame DEF consensus
  <1>9. /\ \A v \in View : v \in Nat /\ v > 0 /\ v <= MaxView
        /\ cur_view[n] \in View /\ \A v \in 1..cur_view[n] : v \in View
        /\ MaxView \in Nat /\ MaxReq \in Nat /\ KEY_BASE \in Nat /\ KEY_BASE > 1
        /\ MaxReq + 1 < KEY_BASE
    BY <1>1, Numbers, Caps
  <1>10. CASE \E v \in 1..cur_view[n] : \E r \in 1..MaxReq :
                 k = vstol(v, r) /\ k \in db[n] /\ Reachable(n, v, r)
    <2>2. PICK v \in 1..cur_view[n], r \in 1..MaxReq :
                 k = vstol(v, r) /\ k \in db[n] /\ Reachable(n, v, r)
      BY <1>10
    <2>3. /\ v \in View /\ v \in Nat /\ r \in Nat /\ r < KEY_BASE /\ r + 1 \in 1..(MaxReq + 1)
          /\ v \in 1..(MaxView + 1) /\ r + 1 \in 0..(MaxReq + 1) /\ r + 1 \in Nat /\ r + 1 < KEY_BASE
          /\ (r + 1) - 1 = r
      BY <1>9
    <2>4. k + 1 = vstol(v, r + 1) /\ k + 1 \in 1..MaxKey /\ k \in Nat
      BY <1>1, <2>2, <2>3, KeyParts, KeyRange
    <2>5. k \in Replayable(n)
      BY <2>2, ReplayFacts
    <2>6. Content(k) \in Msg /\ k \in 1..MaxKey
      BY <1>1, <2>5, ReplayContent
    <2>7. /\ do_action_to_server(n, Content(k))
          /\ executed' = [executed EXCEPT ![n] = Append(@, k)]
          /\ cur_rec' = [cur_rec EXCEPT ![n] = k + 1]
      BY <1>3, <2>2
    <2>8. hash_map' \in [Node -> [Conn -> Pair]]
      BY <1>1, <2>6, <2>7, ReplayType
    <2>9. /\ executed[n] \in Seq(1..MaxKey) /\ executed'[n] = Append(executed[n], k)
          /\ executed' \in [Node -> Seq(1..MaxKey)]
      <3> HIDE DEF k
      <3>1. executed[n] \in Seq(1..MaxKey)
        BY <1>1
      <3>2. Append(executed[n], k) \in Seq(1..MaxKey)
        BY <2>6, <3>1
      <3> QED
        BY <1>1, <2>7, <3>1, <3>2
    <2>10. cur_rec' \in [Node -> 0..MaxKey] /\ cur_rec'[n] = k + 1
      <3> DEFINE j == k + 1
      <3>1. j \in 0..MaxKey /\ cur_rec' = [cur_rec EXCEPT ![n] = j]
        BY <2>4, <2>7
      <3> HIDE DEF j
      <3>2. cur_rec' \in [Node -> 0..MaxKey] /\ cur_rec'[n] = j
        BY <1>1, <3>1
      <3> QED
        BY <3>2 DEF j
    <2>11. TypeOK'
      BY <1>2, <2>8, <2>9, <2>10 DEF TypeOK, consensus, clients, signal
    <2>12. CursorInv(n)'
      <3> DEFINE e == executed[n]
                 f == executed'[n]
      <3>1. /\ Len(e) \in Nat /\ Len(f) = Len(e) + 1 /\ f[Len(e) + 1] = k
            /\ \A i \in 1..Len(e) : f[i] = e[i]
        BY <2>6, <2>9
      <3>2. /\ {e[i] : i \in 1..Len(e)} = {j \in Replayable(n) : j < k}
            /\ \A i, j \in 1..Len(e) : i < j => e[i] < e[j]
        BY <1>1 DEF CursorInv
      <3>3. \A j \in Replayable(n) : j \in Nat
        <4>1. \A j \in Replayable(n) : j \in 1..MaxKey
          BY <1>1, ReplayContent
        <4> QED
          BY <4>1
      <3>4. {j \in Replayable(n) : j < k + 1} = {j \in Replayable(n) : j < k} \cup {k}
        BY <2>4, <2>5, <3>3
      <3>5. \A i \in 1..Len(f) : i \in 1..Len(e) \/ i = Len(e) + 1
        BY <3>1
      <3>6. \A i \in 1..Len(e) : i \in 1..Len(f)
        BY <3>1
      <3>7. Len(e) + 1 \in 1..Len(f)
        BY <3>1
      <3>8. {f[i] : i \in 1..Len(f)} = {e[i] : i \in 1..Len(e)} \cup {k}
        BY <3>1, <3>5, <3>6, <3>7
      <3>9. \A i, j \in 1..Len(f) : i < j => f[i] < f[j]
        <4>1. \A i \in 1..Len(e) : e[i] < k
          BY <3>2
        <4>2. ASSUME NEW i \in 1..Len(f), NEW j \in 1..Len(f), i < j PROVE f[i] < f[j]
          <5>1. i \in 1..Len(e)
            BY <3>1, <4>2
          <5>2. CASE j \in 1..Len(e)
            BY <3>1, <3>2, <4>2, <5>1, <5>2
          <5>3. CASE j = Len(e) + 1
            BY <3>1, <4>1, <5>1, <5>3
          <5> QED
            BY <3>5, <5>2, <5>3
        <4> QED
          BY <4>2
      <3>11. cur_view'[n] = cur_view[n] /\ (Reachable(n, v, r)' <=> Reachable(n, v, r))
        BY <1>2 DEF consensus, Reachable
      <3>10. \E u \in 1..cur_view'[n] : \E q \in 1..(MaxReq + 1) :
                cur_rec'[n] = vstol(u, q) /\ (q > 1 => Reachable(n, u, q - 1)')
        <4> DEFINE q == r + 1
        <4>1. q \in 1..(MaxReq + 1) /\ cur_rec'[n] = vstol(v, q) /\ q - 1 = r /\ v \in 1..cur_view'[n]
          BY <2>3, <2>4, <2>10, <3>11
        <4> HIDE DEF q
        <4>2. Reachable(n, v, q - 1)'
          BY <2>2, <3>11, <4>1
        <4> QED
          BY <4>1, <4>2
      <3>12. {f[i] : i \in 1..Len(f)} = {j \in Replayable(n)' : j < cur_rec'[n]}
        BY <1>7, <2>10, <3>2, <3>4, <3>8
      <3> QED
        BY <3>9, <3>10, <3>12 DEF CursorInv
    <2> QED
      BY <1>4, <1>5, <1>6, <1>8, <2>11, <2>12 DEF ReplayInv
  <1>11. CASE \/ k = 0 /\ k \notin db[n]
              \/ \E v \in 1..cur_view[n] : \E r \in 1..(MaxReq + 1) :
                    v < cur_view[n] /\ k = vstol(v, r) /\ k \notin db[n]
    <2>1. \E v \in View : /\ v \in 1..cur_view[n] /\ cross_view(k) = vstol(v, 1)
                          /\ \A j \in Replayable(n) : j < vstol(v, 1) <=> j < k
      <3>1. CASE k = 0
        <4>1. vstol(0, 0) = 0 /\ 1 \in View /\ 1 \in 1..cur_view[n]
          BY <1>9, Caps, KeyAssumption DEF vstol, View
        <4>2. cross_view(k) = vstol(1, 1)
          BY <1>9, <3>1, <4>1, KeyParts
        <4>3. ASSUME NEW j \in Replayable(n) PROVE ~(j < vstol(1, 1)) /\ ~(j < k)
          <5>1. PICK u \in 1..cur_view[n], q \in 1..MaxReq :
                   /\ j = vstol(u, q) /\ j \in Nat
                   /\ j < vstol(1, 1) <=> u < 1 \/ (u = 1 /\ q < 1)
            BY <1>1, <1>9, <4>3, ReplayBelow
          <5>2. u \in Nat /\ u > 0
            BY <1>9
          <5> QED
            BY <3>1, <5>1, <5>2
        <4> QED
          BY <4>1, <4>2, <4>3
      <3>2. CASE k # 0
        <4>1. PICK v \in 1..cur_view[n], r \in 1..(MaxReq + 1) :
                 v < cur_view[n] /\ k = vstol(v, r) /\ k \notin db[n]
          BY <1>11, <3>2
        <4>2. /\ v \in View /\ v \in Nat /\ r \in Nat /\ r < KEY_BASE /\ r >= 1
              /\ v + 1 \in 1..cur_view[n] /\ v + 1 \in View /\ v + 1 \in Nat
          <5>1. v \in View /\ v \in Nat /\ cur_view[n] \in Nat
            BY <1>9
          <5>2. v + 1 \in 1..cur_view[n]
            BY <4>1, <5>1
          <5> QED
            BY <1>9, <5>1, <5>2
        <4>3. cross_view(k) = vstol(v + 1, 1)
          BY <4>1, <4>2, KeyParts
        <4>4. ASSUME NEW j \in Replayable(n) PROVE j < vstol(v + 1, 1) <=> j < k
          <5>2. PICK u \in 1..cur_view[n], q \in 1..MaxReq :
                   /\ j = vstol(u, q) /\ j \in Nat /\ Reachable(n, u, q)
                   /\ j < vstol(v, r) <=> u < v \/ (u = v /\ q < r)
            BY <1>1, <4>2, <4>4, ReplayBelow
          <5>3. u \in Nat /\ q \in Nat /\ q >= 1 /\ q < KEY_BASE
            BY <1>9
          <5>4. 1 \in Nat /\ 1 < KEY_BASE
            BY <1>9
          <5> DEFINE w == v + 1
          <5>5. w \in Nat
            BY <4>2
          <5> HIDE DEF w
          <5>6. vstol(u, q) < vstol(w, 1) <=> u < w \/ (u = w /\ q < 1)
            BY ONLY <5>3, <5>4, <5>5, KeyOrder
          <5>7. j < vstol(v + 1, 1) <=> u < v + 1
            BY <5>2, <5>3, <5>6 DEF w
          <5>8. u = v => q < r
            <6>1. ASSUME u = v, q >= r PROVE FALSE
              <7>1. r \in 1..q /\ u # cur_view[n]
                BY <4>1, <4>2, <5>3, <6>1
              <7> QED
                BY <4>1, <5>2, <6>1, <7>1 DEF Reachable
            <6> QED
              BY <4>2, <5>3, <6>1
          <5>9. u < v + 1 <=> u < v \/ (u = v /\ q < r)
            BY <4>2, <5>3, <5>8
          <5> QED
            BY <4>1, <5>2, <5>7, <5>9
        <4> QED
          BY <4>2, <4>3, <4>4
      <3> QED
        BY <3>1, <3>2
    <2>2. PICK v \in View : /\ v \in 1..cur_view[n] /\ cross_view(k) = vstol(v, 1)
                            /\ \A j \in Replayable(n) : j < vstol(v, 1) <=> j < k
      BY <2>1
    <2>3. v \in 1..(MaxView + 1) /\ 1 \in 0..(MaxReq + 1) /\ 1 \in 1..(MaxReq + 1)
      BY <1>9
    <2>4. vstol(v, 1) \in 0..MaxKey
      BY <2>3, KeyRange
    <2>5. /\ cur_rec' = [cur_rec EXCEPT ![n] = vstol(v, 1)] /\ executed' = executed
          /\ hash_map' = hash_map
      BY <1>3, <1>11, <2>2
    <2>6. cur_rec' \in [Node -> 0..MaxKey] /\ cur_rec'[n] = vstol(v, 1)
      BY <1>1, <2>4, <2>5
    <2>7. TypeOK'
      BY <1>2, <2>5, <2>6 DEF TypeOK, consensus, clients, signal
    <2>8. CursorInv(n)'
      <3>1. {j \in Replayable(n)' : j < cur_rec'[n]} = {j \in Replayable(n) : j < cur_rec[n]}
        BY <1>7, <2>2, <2>6
      <3>2. cur_view'[n] = cur_view[n]
        BY <1>2 DEF consensus
      <3>3. \E u \in 1..cur_view'[n] : \E r \in 1..(MaxReq + 1) :
               cur_rec'[n] = vstol(u, r) /\ (r > 1 => Reachable(n, u, r - 1)')
        <4>1. ~(1 > 1)
          OBVIOUS
        <4> QED
          BY <2>2, <2>3, <2>6, <3>2, <4>1
      <3> QED
        BY <1>1, <2>5, <3>1, <3>3 DEF CursorInv
    <2> QED
      BY <1>4, <1>5, <1>6, <1>8, <2>7, <2>8 DEF ReplayInv
  <1> QED
    BY <1>2, <1>10, <1>11, CursorAt
--------------------------------------------------------------------------------
(* The inductive invariant. *)

LEMMA InitHolds ==
    ASSUME Init
    PROVE  TypeOK /\ ReplayInv
  <1>1. MaxView \in Nat /\ 1 \in View /\ 0 \in 0..MaxReq
    BY Caps, KeyAssumption DEF View
  <1>2. 0 \in 0..MaxKey
    <2>1. 1 \in 1..(MaxView + 1) /\ 0 \in 0..(MaxReq + 1)
      BY Caps
    <2>2. vstol(1, 0) \in 1..MaxKey
      BY <2>1, KeyRange
    <2>3. MaxKey \in Int
      BY Caps DEF MaxKey, vstol
    <2> QED
      BY <2>2, <2>3
  <1>3. NoPair \in Pair
    BY DEF NoPair, Pair
  <1>4. TypeOK
    <2>1. hash_map \in [Node -> [Conn -> Pair]]
      BY <1>3 DEF Init
    <2>2. sent \in [Conn -> 0..MaxSend]
      BY SendAssumption DEF Init
    <2>3. /\ executed \in [Node -> Seq(1..MaxKey)] /\ queue \in [Node -> Seq(Msg)]
          /\ proposed \in [View -> Seq(Msg)]
      BY DEF Init
    <2>4. loop_end \in [Node -> LoopEnd]
      BY DEF Init, LoopEnd
    <2> QED
      BY <1>1, <1>2, <2>1, <2>2, <2>3, <2>4 DEF Init, TypeOK
  <1>5. LogInv
    BY <1>1, Caps DEF Init, LogInv, View
  <1>6. ASSUME NEW n \in Node PROVE Replayable(n) = {}
    <2>1. \A v, r : v \in 1..1 /\ r \in 1..MaxReq => ~(v = 1 /\ r <= 0)
      OBVIOUS
    <2>2. committed[n] = 0 /\ cur_view[n] = 1 /\ \A v \in 1..1 : v = 1
      BY DEF Init
    <2> QED
      BY <2>1, <2>2 DEF Replayable, Reachable
  <1>7. ASSUME NEW n \in Node PROVE DbInv(n) /\ HighInv(n) /\ CursorInv(n)
    <2>1. DbInv(n)
      <3>1. db[n] = {} /\ committed[n] = 0 /\ cur_view[n] = 1
        BY DEF Init
      <3>2. \A v \in View : ~(v < 1)
        BY <1>1 DEF View
      <3> QED
        BY <3>1, <3>2 DEF DbInv
    <2>2. HighInv(n)
      BY DEF Init, HighInv
    <2>3. CursorInv(n)
      <3>1. cur_rec[n] = 0 /\ executed[n] = <<>>
        BY DEF Init
      <3>2. 1..Len(<<>>) = {}
        OBVIOUS
      <3> QED
        BY <1>6, <3>1, <3>2 DEF CursorInv
    <2> QED
      BY <2>1, <2>2, <2>3
  <1> QED
    BY <1>4, <1>5, <1>7 DEF ReplayInv

LEMMA StepHolds ==
    ASSUME TypeOK, ReplayInv, [Next]_vars
    PROVE  TypeOK' /\ ReplayInv'
  <1>1. CASE UNCHANGED vars
    BY <1>1, ReplaySame DEF vars, consensus, cursor, signal, clients, TypeOK
  <1>2. ASSUME NEW c \in Conn, proxy_on_accept(c) \/ client_side_on_read(c) \/ client_side_on_err(c)
        PROVE  TypeOK' /\ ReplayInv'
    BY <1>2, ClientActions
  <1>3. ASSUME NEW n \in Node, NEW c \in Conn, server_side_on_err(n, c)
        PROVE  TypeOK' /\ ReplayInv'
    BY <1>3, ServerActions
  <1>4. ASSUME NEW n \in Node, consensus_on_event(n) \/ reconnect_on_timeout(n)
        PROVE  TypeOK' /\ ReplayInv'
    BY <1>4, LinkActions
  <1>5. ASSUME NEW n \in Node, proxy_singnal_handler(n) \/ LeaveLoop(n) \/ wake_up(n)
        PROVE  TypeOK' /\ ReplayInv'
    BY <1>5, SignalActions
  <1>6. ASSUME NEW n \in Node, real_do_action(n) PROVE TypeOK' /\ ReplayInv'
    BY <1>6, ReplayAction
  <1>7. ASSUME NEW n \in Node, handle_request_submit(n) PROVE TypeOK' /\ ReplayInv'
    BY <1>7, SubmitAction
  <1>8. ASSUME NEW n \in Node, NEW v \in View, NEW r \in 1..MaxReq, StoreRecord(n, v, r)
        PROVE  TypeOK' /\ ReplayInv'
    BY <1>8, StoreAction
  <1>11. ASSUME NEW n \in Node, handle_force_exec(n) \/ handle_missing_ack(n)
         PROVE  TypeOK' /\ ReplayInv'
    BY <1>11, ForceAction, BoundaryAction
  <1>9. ASSUME NEW n \in Node, update_state(n) PROVE TypeOK' /\ ReplayInv'
    BY <1>9, DeliverAction
  <1>10. ASSUME NEW n \in Node, update_view(n) PROVE TypeOK' /\ ReplayInv'
    BY <1>10, UpdateViewAction
  <1> QED
    BY <1>1, <1>2, <1>3, <1>4, <1>5, <1>6, <1>7, <1>8, <1>9, <1>10, <1>11,
       AgreeAction, NewViewAction DEF Next

(* The type invariant and ReplayInv hold in every state of the proxies, also *)
(* when a replica enters a view without agreed records of the last one: for  *)
(* any number of replicas, connections, views and requests.                  *)
THEOREM ReplayInvariance == Spec => [](TypeOK /\ ReplayInv)
  <1>1. Init => TypeOK /\ ReplayInv
    BY InitHolds
  <1>2. TypeOK /\ ReplayInv /\ [Next]_vars => TypeOK' /\ ReplayInv'
    BY StepHolds
  <1> QED
    BY <1>1, <1>2, PTL DEF Spec

(* Type correctness: in particular the cursor never leaves the keys of the  *)
(* views, whatever real_do_action adds to it.                                *)
THEOREM ProxyTypeCorrect == Spec => []TypeOK
  BY ReplayInvariance, PTL

(* Every proxy executes, each once and in order, exactly the agreed requests *)
(* up to its cursor without those after a hole in a view that its replica    *)
(* has left (real_do_action, across update_view), unless a garbage boundary  *)
(* record has sent try_to_execute beyond what is agreed.                     *)
THEOREM ExecutesAgreedHolds == Spec => []ExecutesAgreed
  <1>1. ASSUME TypeOK, ReplayInv, NEW n \in Node, loop_end[n] # "garbage",
               NEW v \in 1..cur_view[n], NEW r \in 1..MaxReq, Reachable(n, v, r)
        PROVE  vstol(v, r) \in AgreedKeys \ Skipped(n)
    <2>1. /\ LogInv /\ v \in View /\ v \in Nat /\ r \in Nat /\ r < KEY_BASE
      BY <1>1, ReachRange DEF ReplayInv
    <2>2. /\ cur_view[n] \in Nat /\ agreed[v] \in Nat /\ committed[n] \in Nat
          /\ committed[n] <= agreed[cur_view[n]]
          /\ \A u \in View : u \in Nat /\ agreed[u] \in Nat /\ agreed[u] + 1 < KEY_BASE
          /\ \A u \in 1..cur_view[n] : u \in View
      <3>1. /\ committed[n] \in Nat /\ committed[n] <= agreed[cur_view[n]]
            /\ cur_view[n] \in View /\ \A u \in 1..cur_view[n] : u \in View
        BY <1>1, <2>1, Numbers
      <3>2. \A u \in View : u \in Nat /\ agreed[u] \in Nat /\ agreed[u] + 1 < KEY_BASE
        BY <1>1, <2>1, Numbers
      <3> QED
        BY <2>1, <3>1, <3>2
    <2>3. r <= agreed[v]
      BY <1>1, <2>1, <2>2 DEF Reachable
    <2>4. vstol(v, r) \in AgreedKeys
      <3>1. r \in 1..agreed[v]
        BY <2>1, <2>2, <2>3
      <3> QED
        BY <2>1, <3>1 DEF AgreedKeys
    <2>5. ASSUME vstol(v, r) \in Skipped(n) PROVE FALSE
      <3>1. PICK u \in 1..(cur_view[n] - 1) :
               \E q \in 1..agreed[u] : /\ vstol(v, r) = vstol(u, q)
                                       /\ \E x \in 1..q : vstol(u, x) \notin db[n]
        BY <2>5 DEF Skipped
      <3>2. PICK q \in 1..agreed[u] : /\ vstol(v, r) = vstol(u, q)
                                      /\ \E x \in 1..q : vstol(u, x) \notin db[n]
        BY <3>1
      <3>3. u \in 1..cur_view[n] /\ u # cur_view[n]
        BY <2>2
      <3>4. u \in Nat /\ agreed[u] \in Nat /\ agreed[u] + 1 < KEY_BASE
        BY <2>2, <3>3
      <3>5. q \in Nat /\ q < KEY_BASE
        BY <3>4, Caps
      <3>6. u = v /\ q = r
        BY <2>1, <3>2, <3>4, <3>5, KeyOrder
      <3> QED
        BY <1>1, <3>2, <3>3, <3>6 DEF Reachable
    <2> QED
      BY <2>4, <2>5
  <1>2. ASSUME TypeOK, ReplayInv, NEW n \in Node, NEW k \in AgreedKeys, k \notin Skipped(n),
               NEW d \in Replayable(n), k <= d
        PROVE  k \in Replayable(n)
    <2>0. LogInv
      BY <1>2 DEF ReplayInv
    <2>1. PICK v \in View : \E r \in 1..agreed[v] : k = vstol(v, r)
      BY <1>2, <2>0, AgreedFacts
    <2>2. PICK r \in 1..agreed[v] : k = vstol(v, r)
      BY <2>1
    <2>3. /\ v \in Nat /\ v > 0 /\ r \in Nat /\ r < KEY_BASE /\ r \in 1..MaxReq /\ cur_view[n] \in Nat
          /\ agreed[v] \in Nat /\ committed[n] \in Nat
      <3>1. /\ v \in Nat /\ v > 0 /\ agreed[v] \in Nat /\ agreed[v] <= Len(proposed[v])
            /\ Len(proposed[v]) \in Nat /\ Len(proposed[v]) <= MaxReq
        BY <1>2, <2>0, Numbers
      <3>2. cur_view[n] \in View /\ committed[n] \in Nat /\ \A u \in View : u \in Nat
        BY <1>2, <2>0, Numbers
      <3>3. r \in Nat /\ 1 <= r /\ r <= agreed[v]
        BY <3>1
      <3>4. r <= MaxReq
        BY <3>1, <3>3, Caps
      <3>5. r < KEY_BASE /\ r \in 1..MaxReq
        BY <3>3, <3>4, Caps
      <3> QED
        BY <3>1, <3>2, <3>3, <3>5
    <2>4. PICK u \in 1..cur_view[n], q \in 1..MaxReq :
             /\ d = vstol(u, q) /\ d \in Nat /\ Reachable(n, u, q)
             /\ d < vstol(v, r) <=> u < v \/ (u = v /\ q < r)
      BY <1>2, <2>0, <2>3, ReplayBelow
    <2>5. u \in Nat /\ u <= cur_view[n] /\ q \in Nat
      BY <2>3
    <2>6. ~(u < v \/ (u = v /\ q < r))
      <3>1. vstol(v, r) \in Nat
        BY <2>3, KeyOrder
      <3> QED
        BY <1>2, <2>2, <2>4, <3>1
    <2>7. v <= cur_view[n] /\ v \in 1..cur_view[n]
      BY <2>3, <2>5, <2>6
    <2>8. Reachable(n, v, r)
      <3>1. CASE v = cur_view[n]
        <4>1. u = v /\ r <= q
          BY <2>3, <2>5, <2>6, <3>1
        <4> QED
          BY <2>3, <2>4, <2>5, <3>1, <4>1 DEF Reachable
      <3>2. CASE v # cur_view[n]
        <4>1. v \in 1..(cur_view[n] - 1)
          BY <2>3, <2>7, <3>2
        <4>2. \A x \in 1..r : vstol(v, x) \in db[n]
          BY <1>2, <2>2, <4>1 DEF Skipped
        <4>3. r <= agreed[v]
          BY <2>3
        <4> QED
          BY <3>2, <4>2, <4>3 DEF Reachable
      <3> QED
        BY <3>1, <3>2
    <2> QED
      BY <2>2, <2>3, <2>7, <2>8, ReplayFacts
  <1>3. ASSUME TypeOK, ReplayInv PROVE ExecutesAgreed
    <2>1. ASSUME NEW n \in Node
          PROVE  LET done == {executed[n][i] : i \in 1..Len(executed[n])}
                 IN  /\ \A i, j \in 1..Len(executed[n]) : i < j => executed[n][i] < executed[n][j]
                     /\ loop_end[n] # "garbage" =>
                          done = {k \in AgreedKeys \ Skipped(n) : \E d \in done : k <= d}
      <3> DEFINE done == {executed[n][i] : i \in 1..Len(executed[n])}
      <3>1. /\ done = {k \in Replayable(n) : k < cur_rec[n]}
            /\ \A i, j \in 1..Len(executed[n]) : i < j => executed[n][i] < executed[n][j]
        BY <1>3 DEF ReplayInv, CursorInv
      <3>2. LogInv /\ cur_rec[n] \in Nat
        BY <1>3 DEF ReplayInv, TypeOK
      <3> HIDE DEF done
      <3>3. ASSUME loop_end[n] # "garbage"
            PROVE  done = {k \in AgreedKeys \ Skipped(n) : \E d \in done : k <= d}
        <4>1. ASSUME NEW k \in done PROVE k \in AgreedKeys \ Skipped(n) /\ k <= k
          <5>1. k \in 1..MaxKey
            BY <1>3, <3>1, <3>2, ReplayContent
          <5>2. PICK v \in 1..cur_view[n], r \in 1..MaxReq : Reachable(n, v, r) /\ k = vstol(v, r)
            BY <3>1, ReplayFacts
          <5> QED
            BY <1>1, <1>3, <3>3, <5>1, <5>2
        <4>2. ASSUME NEW k \in AgreedKeys \ Skipped(n), NEW d \in done, k <= d PROVE k \in done
          <5>1. d \in Replayable(n) /\ d < cur_rec[n]
            BY <3>1
          <5>2. k \in Replayable(n)
            BY <1>2, <1>3, <4>2, <5>1
          <5>3. k \in 1..MaxKey /\ d \in 1..MaxKey
            BY <1>3, <3>2, <5>1, <5>2, ReplayContent
          <5>4. k < cur_rec[n]
            BY <3>2, <4>2, <5>1, <5>3
          <5> QED
            BY <3>1, <5>2, <5>4
        <4> QED
          BY <4>1, <4>2
      <3> QED
        BY <3>1, <3>3 DEF done
    <2> QED
      BY <2>1 DEF ExecutesAgreed
  <1> QED
    BY <1>3, ReplayInvariance, PTL

(* No signal of the consensus thread to the proxy thread is lost (wake_up    *)
(* and proxy_singnal_handler).                                               *)
THEOREM NoLostWakeUpHolds == Spec => []NoLostWakeUp
  <1>1. Init => NoLostWakeUp
    BY DEF Init, NoLostWakeUp
  <1>2. ASSUME TypeOK, ReplayInv, NoLostWakeUp, [Next]_vars PROVE NoLostWakeUp'
    <2>1. /\ \A m \in Node : /\ cur_highest[m] <= highest_rec[m] /\ cur_rec[m] \in Nat
                             /\ cur_highest[m] \in Nat /\ highest_rec[m] \in Nat
          /\ acting \in [Node -> BOOLEAN] /\ waking \in [Node -> BOOLEAN]
          /\ sigusr2 \in [Node -> BOOLEAN] /\ cur_highest \in [Node -> 0..MaxKey]
          /\ highest_rec \in [Node -> 0..MaxKey] /\ cur_rec \in [Node -> 0..MaxKey]
      BY <1>2 DEF ReplayInv, HighInv, TypeOK
    <2>2. CASE UNCHANGED cursor /\ UNCHANGED signal
      BY <1>2, <2>2 DEF NoLostWakeUp, cursor, signal
    <2>3. ASSUME NEW n \in Node, proxy_singnal_handler(n) PROVE NoLostWakeUp'
      BY <1>2, <2>1, <2>3 DEF NoLostWakeUp, proxy_singnal_handler
    <2>4. ASSUME NEW n \in Node, LeaveLoop(n) PROVE NoLostWakeUp'
      BY <1>2, <2>1, <2>4 DEF NoLostWakeUp, LeaveLoop, signal
    <2>5. ASSUME NEW n \in Node, wake_up(n) PROVE NoLostWakeUp'
      BY <1>2, <2>1, <2>5 DEF NoLostWakeUp, wake_up, cursor
    <2>6. ASSUME NEW n \in Node, update_state(n) PROVE NoLostWakeUp'
      <3>1. /\ waking'[n] /\ UNCHANGED cursor /\ UNCHANGED sigusr2
            /\ \A m \in Node : m # n => waking'[m] = waking[m] /\ highest_rec'[m] = highest_rec[m]
        BY <2>1, <2>6 DEF update_state
      <3> QED
        BY <1>2, <3>1 DEF NoLostWakeUp, cursor
    <2>7. ASSUME NEW n \in Node, real_do_action(n) PROVE NoLostWakeUp'
      <3>1. /\ cur_rec[n] <= cur_highest[n] /\ UNCHANGED signal /\ UNCHANGED <<cur_highest, acting>>
            /\ \A m \in Node : m # n => cur_rec'[m] = cur_rec[m]
        BY <2>1, <2>7 DEF real_do_action
      <3> QED
        BY <1>2, <2>1, <3>1 DEF NoLostWakeUp, signal
    <2>8. UNCHANGED vars => UNCHANGED cursor /\ UNCHANGED signal
      BY DEF vars
    <2>9. \A c \in Conn : proxy_on_accept(c) \/ client_side_on_read(c) \/ client_side_on_err(c)
             => UNCHANGED cursor /\ UNCHANGED signal
      BY DEF proxy_on_accept, client_side_on_read, client_side_on_err
    <2>10. \A n \in Node, c \in Conn : server_side_on_err(n, c) => UNCHANGED cursor /\ UNCHANGED signal
      BY DEF server_side_on_err
    <2>11. \A n \in Node : consensus_on_event(n) \/ reconnect_on_timeout(n) \/ handle_request_submit(n)
                              \/ update_view(n) \/ handle_force_exec(n) \/ handle_missing_ack(n)
             => UNCHANGED cursor /\ UNCHANGED signal
      BY DEF consensus_on_event, reconnect_on_timeout, handle_request_submit, update_view,
             handle_force_exec, handle_missing_ack
    <2>12. \A n \in Node, v \in View, r \in 1..MaxReq :
             StoreRecord(n, v, r) => UNCHANGED cursor /\ UNCHANGED signal
      BY DEF StoreRecord
    <2>13. Agree \/ NewView => UNCHANGED cursor /\ UNCHANGED signal
      BY DEF Agree, NewView
    <2> QED
      BY <1>2, <2>2, <2>3, <2>4, <2>5, <2>6, <2>7, <2>8, <2>9, <2>10, <2>11, <2>12, <2>13 DEF Next
  <1> QED
    BY <1>1, <1>2, ReplayInvariance, PTL DEF Spec
--------------------------------------------------------------------------------
(* Connections. *)

(* What a replica has executed is in the log. *)
LEMMA ExecutedContent ==
    ASSUME TypeOK, ReplayInv, NEW n \in Node, NEW i \in 1..Len(executed[n])
    PROVE  /\ Content(executed[n][i]) \in Msg
           /\ \E v \in View : \E r \in 1..Len(proposed[v]) :
                 /\ ltovs(executed[n][i]) = [view_id |-> v, req_id |-> r]
                 /\ Content(executed[n][i]) = proposed[v][r]
  <1>1. LogInv /\ executed[n][i] \in Replayable(n)
    BY DEF ReplayInv, CursorInv
  <1> QED
    BY <1>1, ReplayContent

(* A client that has not connected is in no request, so not connected. *)
LEMMA NewUnconnected ==
    ASSUME TypeOK, ReplayInv, ClientInv, NEW n \in Node, NEW c \in Conn, client[c] = "new"
    PROVE  ~Connected(executed[n], c)
  <1>1. ASSUME NEW i \in 1..Len(executed[n]) PROVE Content(executed[n][i]).conn # c
    <2>1. PICK v \in View : \E r \in 1..Len(proposed[v]) : Content(executed[n][i]) = proposed[v][r]
      BY ExecutedContent
    <2> QED
      BY <2>1 DEF ClientInv
  <1> QED
    BY <1>1 DEF Connected

(* The log only grows, so what has been executed stays what it was. *)
LEMMA ConnectedSame ==
    ASSUME TypeOK, ReplayInv, NEW n \in Node, NEW c \in Conn, executed'[n] = executed[n],
           \A v \in View : \A r \in 1..Len(proposed[v]) : proposed'[v][r] = proposed[v][r]
    PROVE  Connected(executed[n], c)' <=> Connected(executed[n], c)
  <1>1. ASSUME NEW i \in 1..Len(executed[n])
        PROVE  Content(executed[n][i])' = Content(executed[n][i])
    <2>1. PICK v \in View : \E r \in 1..Len(proposed[v]) :
                 /\ ltovs(executed[n][i]) = [view_id |-> v, req_id |-> r]
                 /\ Content(executed[n][i]) = proposed[v][r]
      BY ExecutedContent
    <2>2. PICK r \in 1..Len(proposed[v]) :
                 /\ ltovs(executed[n][i]) = [view_id |-> v, req_id |-> r]
                 /\ Content(executed[n][i]) = proposed[v][r]
      BY <2>1
    <2>3. ltovs(executed'[n][i]) = [view_id |-> v, req_id |-> r]
      BY <2>2
    <2>4. Content(executed[n][i])' = proposed'[v][r]
      BY <2>3 DEF Content, ltovs
    <2> QED
      BY <2>2, <2>4
  <1>2. Len(executed[n]) \in Nat
    BY DEF TypeOK
  <1>3. ASSUME NEW i \in 1..Len(executed[n]), NEW j \in (i + 1)..Len(executed[n])
        PROVE  j \in 1..Len(executed[n])
    BY <1>2
  <1> DEFINE q == executed[n]
             On(i) == Content(q[i]).action = "CONNECT" /\ Content(q[i]).conn = c
             Off(i) == Content(q[i]).action = "CLOSE" /\ Content(q[i]).conn = c
  <1>4. \A i \in 1..Len(q) : (On(i)' <=> On(i)) /\ (Off(i)' <=> Off(i))
    BY <1>1
  <1>5. /\ Connected(q, c) <=> \E i \in 1..Len(q) : On(i) /\ \A j \in (i + 1)..Len(q) : ~Off(j)
        /\ Connected(q, c)' <=> \E i \in 1..Len(q) : On(i)' /\ \A j \in (i + 1)..Len(q) : ~Off(j)'
    BY DEF Connected
  <1> HIDE DEF On, Off
  <1>6. ASSUME NEW i \in 1..Len(q)
        PROVE  (\A j \in (i + 1)..Len(q) : ~Off(j)') <=> (\A j \in (i + 1)..Len(q) : ~Off(j))
    BY <1>3, <1>4
  <1> QED
    BY <1>4, <1>5, <1>6

(* One more request executed. *)
LEMMA ConnectedAppend ==
    ASSUME NEW q \in Seq(1..MaxKey), NEW k \in 1..MaxKey, NEW c \in Conn,
           Content(k) \in Msg
    PROVE  Connected(Append(q, k), c) <=>
              \/ Content(k).action = "CONNECT" /\ Content(k).conn = c
              \/ ~(Content(k).action = "CLOSE" /\ Content(k).conn = c) /\ Connected(q, c)
  <1> DEFINE p == Append(q, k)
             l == Len(q)
  <1>1. /\ l \in Nat /\ Len(p) = l + 1 /\ p[l + 1] = k /\ \A i \in 1..l : p[i] = q[i]
    OBVIOUS
  <1> HIDE DEF p, l
  <1>2. CASE Content(k).action = "CONNECT" /\ Content(k).conn = c
    <2>1. l + 1 \in 1..Len(p) /\ \A j \in (l + 2)..Len(p) : FALSE
      BY <1>1
    <2>2. \A j \in ((l + 1) + 1)..Len(p) : FALSE
      BY <1>1
    <2>3. Connected(p, c)
      BY <1>1, <1>2, <2>1, <2>2 DEF Connected
    <2> QED
      BY <1>2, <2>3 DEF p
  <1>3. CASE Content(k).action = "CLOSE" /\ Content(k).conn = c
    <2>1. ASSUME NEW i \in 1..Len(p) PROVE i = l + 1 \/ l + 1 \in (i + 1)..Len(p)
      BY <1>1
    <2>2. ~Connected(p, c)
      BY <1>1, <1>3, <2>1 DEF Connected
    <2> QED
      BY <1>3, <2>2 DEF p
  <1>4. CASE /\ ~(Content(k).action = "CONNECT" /\ Content(k).conn = c)
             /\ ~(Content(k).action = "CLOSE" /\ Content(k).conn = c)
    <2>1. Connected(p, c) => Connected(q, c)
      <3>1. SUFFICES ASSUME Connected(p, c) PROVE Connected(q, c)
        OBVIOUS
      <3>2. PICK i \in 1..Len(p) :
               /\ Content(p[i]).action = "CONNECT" /\ Content(p[i]).conn = c
               /\ \A j \in (i + 1)..Len(p) :
                     ~(Content(p[j]).action = "CLOSE" /\ Content(p[j]).conn = c)
        BY <3>1 DEF Connected
      <3>3. i \in 1..l
        BY <1>1, <1>4, <3>2
      <3>4. \A j \in (i + 1)..l : j \in (i + 1)..Len(p) /\ p[j] = q[j]
        BY <1>1
      <3>5. \A j \in (i + 1)..l : ~(Content(q[j]).action = "CLOSE" /\ Content(q[j]).conn = c)
        BY <3>2, <3>4
      <3>6. Content(q[i]).action = "CONNECT" /\ Content(q[i]).conn = c
        BY <1>1, <3>2, <3>3
      <3> QED
        BY <3>3, <3>5, <3>6 DEF Connected, l
    <2>2. Connected(q, c) => Connected(p, c)
      <3>1. SUFFICES ASSUME Connected(q, c) PROVE Connected(p, c)
        OBVIOUS
      <3>2. PICK i \in 1..l :
               /\ Content(q[i]).action = "CONNECT" /\ Content(q[i]).conn = c
               /\ \A j \in (i + 1)..l :
                     ~(Content(q[j]).action = "CLOSE" /\ Content(q[j]).conn = c)
        BY <3>1 DEF Connected, l
      <3>3. i \in 1..Len(p) /\ p[i] = q[i]
        BY <1>1
      <3>4. \A j \in (i + 1)..Len(p) : (j \in (i + 1)..l /\ p[j] = q[j]) \/ p[j] = k
        BY <1>1
      <3>5. \A j \in (i + 1)..Len(p) : ~(Content(p[j]).action = "CLOSE" /\ Content(p[j]).conn = c)
        BY <1>4, <3>2, <3>4
      <3> QED
        BY <3>2, <3>3, <3>5 DEF Connected
    <2> QED
      BY <1>4, <2>1, <2>2 DEF p
  <1> QED
    BY <1>2, <1>3, <1>4

(* A step that executes nothing and keeps every connection to a server. *)
LEMMA ConnectionsSame ==
    ASSUME TypeOK, ReplayInv, ConnectionsFollowLog, executed' = executed,
           \A v \in View : \A r \in 1..Len(proposed[v]) : proposed'[v][r] = proposed[v][r],
           \A n \in Node, c \in Conn :
              hash_map'[n][c].p_s # "null" <=> hash_map[n][c].p_s # "null"
    PROVE  ConnectionsFollowLog'
  <1>1. ASSUME NEW n \in Node, NEW c \in Conn
        PROVE  Connected(executed[n], c)' <=> Connected(executed[n], c)
    BY ConnectedSame
  <1> QED
    BY <1>1 DEF ConnectionsFollowLog

(* A request of a client that has connected is written to con_conn. *)
LEMMA SubmitKeeps ==
    ASSUME TypeOK, ClientInv, NEW n \in Node, NEW m \in Msg, Submit(n, m), proposed' = proposed,
           \A c \in Conn : client'[c] = "new" => client[c] = "new" /\ c # m.conn
    PROVE  ClientInv'
  <1>1. queue \in [Node -> Seq(Msg)]
    BY DEF TypeOK
  <1>2. ASSUME NEW c \in Conn, client'[c] = "new", NEW x \in Node, NEW i \in 1..Len(queue'[x])
        PROVE  queue'[x][i].conn # c
    <2>1. /\ c # m.conn
          /\ \A y \in Node : \A j \in 1..Len(queue[y]) : queue[y][j].conn # c
      BY <1>2 DEF ClientInv
    <2>2. CASE queue'[x] = queue[x]
      BY <1>2, <2>1, <2>2
    <2>3. CASE queue'[x] = Append(queue[x], m)
      <3>1. queue[x] \in Seq(Msg)
        BY <1>1
      <3>2. /\ Len(queue[x]) \in Nat /\ Len(queue'[x]) = Len(queue[x]) + 1
            /\ queue'[x][Len(queue[x]) + 1] = m
            /\ \A j \in 1..Len(queue[x]) : queue'[x][j] = queue[x][j]
        BY <2>3, <3>1
      <3>3. i \in 1..Len(queue[x]) \/ i = Len(queue[x]) + 1
        BY <1>2, <3>2
      <3> QED
        BY <2>1, <3>2, <3>3
    <2> QED
      BY <1>1, <2>2, <2>3 DEF Submit
  <1>3. ASSUME NEW c \in Conn, client'[c] = "new", NEW v \in View, NEW i \in 1..Len(proposed'[v])
        PROVE  proposed'[v][i].conn # c
    BY <1>3 DEF ClientInv
  <1> QED
    BY <1>2, <1>3 DEF ClientInv

LEMMA ConnectionInit ==
    ASSUME Init
    PROVE  ClientInv /\ ConnectionsFollowLog
  <1>1. ClientInv
    BY DEF Init, ClientInv
  <1>2. \A n \in Node, c \in Conn : hash_map[n][c].p_s = "null" /\ ~Connected(executed[n], c)
    BY DEF Init, NoPair, Connected
  <1> QED
    BY <1>1, <1>2 DEF ConnectionsFollowLog

(* The steps of clients and of servers.  A server that closes a connection   *)
(* has one, so the client's CONNECT was executed and it is not new.          *)
LEMMA ConnectionClients ==
    ASSUME TypeOK, ReplayInv, ClientInv, ConnectionsFollowLog, NEW c \in Conn,
           \/ proxy_on_accept(c) \/ client_side_on_read(c) \/ client_side_on_err(c)
           \/ \E n \in Node : server_side_on_err(n, c)
    PROVE  ClientInv' /\ ConnectionsFollowLog'
  <1>1. /\ Home[c] \in Node /\ hash_map \in [Node -> [Conn -> Pair]]
        /\ client \in [Conn -> {"new", "open", "refused", "eof"}]
        /\ sent \in [Conn -> 0..MaxSend]
    BY HomeAssumption DEF TypeOK
  <1>2. proposed' = proposed /\ executed' = executed
    BY DEF proxy_on_accept, client_side_on_read, client_side_on_err, server_side_on_err,
           consensus, cursor
  <1>3. [action |-> "CONNECT", conn |-> c] \in Msg /\ [action |-> "CLOSE", conn |-> c] \in Msg
    BY DEF Msg
  <1>4. CASE proxy_on_accept(c)
    <2>1. client[c] = "new"
      BY <1>4 DEF proxy_on_accept
    <2>2. ClientInv'
      <3>1. client'[c] # "new" /\ \A d \in Conn : d # c => client'[d] = client[d]
        BY <1>1, <1>4 DEF proxy_on_accept
      <3>2. CASE con_conn[Home[c]]
        <4>1. Submit(Home[c], [action |-> "CONNECT", conn |-> c])
          BY <1>4, <3>2 DEF proxy_on_accept
        <4>2. \A d \in Conn : client'[d] = "new" =>
                 client[d] = "new" /\ d # [action |-> "CONNECT", conn |-> c].conn
          BY <3>1
        <4> QED
          BY <1>1, <1>2, <1>3, <4>1, <4>2, SubmitKeeps
      <3>3. CASE ~con_conn[Home[c]]
        BY <1>2, <1>4, <3>1, <3>3 DEF proxy_on_accept, ClientInv
      <3> QED
        BY <3>2, <3>3
    <2>3. \A n \in Node, d \in Conn : hash_map'[n][d].p_s # "null" <=> hash_map[n][d].p_s # "null"
      <3>1. \A n \in Node : hash_map[n][c].p_s = "null"
        BY <2>1, NewUnconnected DEF ConnectionsFollowLog
      <3>2. \/ hash_map' = hash_map
            \/ hash_map' = [hash_map EXCEPT ![Home[c]][c] =
                              [set |-> TRUE, p_s |-> "null", p_c |-> TRUE]]
        BY <1>4 DEF proxy_on_accept
      <3> DEFINE q == [set |-> TRUE, p_s |-> "null", p_c |-> TRUE]
                 h == Home[c]
      <3>3. h \in Node /\ q.p_s = "null" /\ (\/ hash_map' = hash_map
                                             \/ hash_map' = [hash_map EXCEPT ![h][c] = q])
        BY <1>1, <3>2
      <3> HIDE DEF q, h
      <3>4. \A n \in Node, d \in Conn :
               hash_map'[n][d] = hash_map[n][d] \/ (d = c /\ hash_map'[n][d] = q)
        BY <1>1, <3>3
      <3> QED
        BY <3>1, <3>3, <3>4
    <2> QED
      BY <1>2, <2>2, <2>3, ConnectionsSame
  <1>5. CASE client_side_on_read(c)
    <2> DEFINE m == [action |-> "SEND", conn |-> c, data |-> sent[c] + 1]
    <2>1. sent[c] + 1 \in 1..MaxSend
      BY <1>1, <1>5, SendAssumption DEF client_side_on_read
    <2>2. m \in Msg /\ m.conn = c
      BY <2>1 DEF Msg
    <2>3. /\ Submit(Home[c], m) /\ client[c] = "open" /\ client' = client
          /\ hash_map' = hash_map
      BY <1>5 DEF client_side_on_read
    <2> HIDE DEF m
    <2>4. ClientInv'
      BY <1>1, <1>2, <2>2, <2>3, SubmitKeeps
    <2> QED
      BY <1>2, <2>3, <2>4, ConnectionsSame
  <1>6. CASE client_side_on_err(c)
    <2>1. /\ Submit(Home[c], [action |-> "CLOSE", conn |-> c])
          /\ client'[c] = "eof" /\ \A d \in Conn : d # c => client'[d] = client[d]
          /\ hash_map' = hash_map
      BY <1>1, <1>6 DEF client_side_on_err
    <2>2. \A d \in Conn : client'[d] = "new" =>
             client[d] = "new" /\ d # [action |-> "CLOSE", conn |-> c].conn
      BY <2>1
    <2>3. ClientInv'
      BY <1>1, <1>2, <1>3, <2>1, <2>2, SubmitKeeps
    <2> QED
      BY <1>2, <2>1, <2>3, ConnectionsSame
  <1>7. ASSUME NEW n \in Node, server_side_on_err(n, c)
        PROVE  ClientInv' /\ ConnectionsFollowLog'
    <2>1. /\ Submit(n, [action |-> "CLOSE", conn |-> c])
          /\ hash_map[n][c].p_s = "up" /\ client' = client
          /\ hash_map' = [hash_map EXCEPT ![n][c].p_s = "eof"]
      BY <1>7 DEF server_side_on_err
    <2>2. client[c] # "new"
      <3>1. Connected(executed[n], c)
        BY <2>1 DEF ConnectionsFollowLog
      <3> QED
        BY <3>1, NewUnconnected
    <2>3. \A d \in Conn : client'[d] = "new" =>
             client[d] = "new" /\ d # [action |-> "CLOSE", conn |-> c].conn
      BY <2>1, <2>2
    <2>4. ClientInv'
      BY <1>2, <1>3, <2>1, <2>3, SubmitKeeps
    <2>5. \A x \in Node, d \in Conn : hash_map'[x][d].p_s # "null" <=> hash_map[x][d].p_s # "null"
      <3>1. [hash_map[n][c] EXCEPT !.p_s = "eof"].p_s = "eof"
        BY <1>1 DEF Pair
      <3> DEFINE q == [hash_map[n][c] EXCEPT !.p_s = "eof"]
      <3>2. hash_map' = [hash_map EXCEPT ![n][c] = q] /\ q.p_s = "eof"
        BY <2>1, <3>1
      <3> HIDE DEF q
      <3>3. \A x \in Node, d \in Conn :
               hash_map'[x][d] = IF x = n /\ d = c THEN q ELSE hash_map[x][d]
        BY <1>1, <3>2
      <3> QED
        BY <2>1, <3>2, <3>3
    <2> QED
      BY <1>2, <2>4, <2>5, ConnectionsSame
  <1> QED
    BY <1>4, <1>5, <1>6, <1>7

(* A request goes from the queue to the log. *)
LEMMA ConnectionSubmit ==
    ASSUME TypeOK, ReplayInv, ClientInv, ConnectionsFollowLog, NEW n \in Node,
           handle_request_submit(n)
    PROVE  ClientInv' /\ ConnectionsFollowLog'
  <1> DEFINE m == Head(queue[n])
  <1>1. /\ proposed \in [View -> Seq(Msg)] /\ queue \in [Node -> Seq(Msg)] /\ view \in View
    BY DEF TypeOK
  <1>2. /\ queue[n] # <<>> /\ queue' = [queue EXCEPT ![n] = Tail(@)]
        /\ proposed' = proposed \/ proposed' = [proposed EXCEPT ![view] = Append(@, m)]
        /\ executed' = executed /\ client' = client /\ hash_map' = hash_map
    BY DEF handle_request_submit, cursor
  <1>3. /\ queue[n] \in Seq(Msg) /\ 1 \in 1..Len(queue[n]) /\ m = queue[n][1] /\ m \in Msg
        /\ Len(queue[n]) \in Nat /\ Len(Tail(queue[n])) = Len(queue[n]) - 1
        /\ \A i \in 1..Len(Tail(queue[n])) : Tail(queue[n])[i] = queue[n][i + 1]
    BY <1>1, <1>2
  <1> HIDE DEF m
  <1>4. ASSUME NEW v \in View
        PROVE  /\ \A r \in 1..Len(proposed[v]) : proposed'[v][r] = proposed[v][r]
               /\ \A r \in 1..Len(proposed'[v]) : r \in 1..Len(proposed[v]) \/ proposed'[v][r] = m
    <2>1. proposed'[v] = proposed[v] \/ proposed'[v] = Append(proposed[v], m)
      BY <1>1, <1>2
    <2>2. proposed[v] \in Seq(Msg)
      BY <1>1
    <2>3. CASE proposed'[v] = proposed[v]
      BY <2>3
    <2>4. CASE proposed'[v] = Append(proposed[v], m)
      <3>1. /\ Len(proposed[v]) \in Nat /\ Len(proposed'[v]) = Len(proposed[v]) + 1
            /\ proposed'[v][Len(proposed[v]) + 1] = m
            /\ \A r \in 1..Len(proposed[v]) : proposed'[v][r] = proposed[v][r]
        BY <1>3, <2>2, <2>4
      <3>2. \A r \in 1..Len(proposed'[v]) : r \in 1..Len(proposed[v]) \/ r = Len(proposed[v]) + 1
        BY <3>1
      <3> QED
        BY <3>1, <3>2
    <2> QED
      BY <2>1, <2>3, <2>4
  <1>5. ASSUME NEW c \in Conn, client'[c] = "new"
        PROVE  /\ \A x \in Node : \A i \in 1..Len(queue'[x]) : queue'[x][i].conn # c
               /\ \A v \in View : \A i \in 1..Len(proposed'[v]) : proposed'[v][i].conn # c
    <2>1. /\ \A x \in Node : \A i \in 1..Len(queue[x]) : queue[x][i].conn # c
          /\ \A v \in View : \A i \in 1..Len(proposed[v]) : proposed[v][i].conn # c
      BY <1>2, <1>5 DEF ClientInv
    <2>2. m.conn # c
      BY <1>3, <2>1
    <2>3. \A v \in View : \A i \in 1..Len(proposed'[v]) : proposed'[v][i].conn # c
      BY <1>4, <2>1, <2>2
    <2>4. ASSUME NEW x \in Node, NEW i \in 1..Len(queue'[x]) PROVE queue'[x][i].conn # c
      <3>1. CASE x # n
        <4>1. queue'[x] = queue[x]
          BY <1>1, <1>2, <3>1
        <4> QED
          BY <2>1, <2>4, <4>1
      <3>2. CASE x = n
        <4>1. queue'[x] = Tail(queue[n])
          BY <1>1, <1>2, <3>2
        <4>2. i \in 1..Len(Tail(queue[n])) /\ i + 1 \in 1..Len(queue[n])
          BY <1>3, <2>4, <4>1
        <4> QED
          BY <1>3, <2>1, <4>1, <4>2
      <3> QED
        BY <3>1, <3>2
    <2> QED
      BY <2>3, <2>4
  <1>6. ClientInv'
    BY <1>5 DEF ClientInv
  <1> QED
    BY <1>2, <1>4, <1>6, ConnectionsSame

(* An executed request connects or closes its connection in both. *)
LEMMA ConnectionReplay ==
    ASSUME TypeOK, ReplayInv, ClientInv, ConnectionsFollowLog, NEW n \in Node,
           real_do_action(n)
    PROVE  ClientInv' /\ ConnectionsFollowLog'
  <1> DEFINE k == cur_rec[n]
             m == Content(k)
  <1>1. /\ LogInv /\ executed \in [Node -> Seq(1..MaxKey)] /\ hash_map \in [Node -> [Conn -> Pair]]
    BY DEF TypeOK, ReplayInv
  <1>2. UNCHANGED <<proposed, queue, client>>
    BY DEF real_do_action, consensus, clients
  <1>3. ClientInv'
    BY <1>2 DEF ClientInv
  <1>4. CASE k \notin db[n]
    BY <1>2, <1>3, <1>4, ConnectionsSame DEF real_do_action
  <1>5. CASE k \in db[n]
    <2>1. /\ do_action_to_server(n, m) /\ k <= cur_highest[n]
          /\ executed' = [executed EXCEPT ![n] = Append(@, k)]
      BY <1>5 DEF real_do_action
    <2>2. k \in Replayable(n)
      BY <1>5, <2>1, CursorAt, ReplayFacts
    <2>3. m \in Msg /\ k \in 1..MaxKey
      BY <1>1, <2>2, ReplayContent
    <2> HIDE DEF k, m
    <2>4. /\ executed[n] \in Seq(1..MaxKey) /\ executed'[n] = Append(executed[n], k)
          /\ \A x \in Node : x # n => executed'[x] = executed[x]
      BY <1>1, <2>1
    <2>5. \A x \in Node, c \in Conn : hash_map'[x][c] =
             IF x = n /\ c = m.conn
             THEN CASE m.action = "CONNECT" -> do_action_connect(hash_map[x][c])
                    [] m.action = "SEND"    -> do_action_send(hash_map[x][c])
                    [] m.action = "CLOSE"   -> do_action_close(hash_map[x][c])
             ELSE hash_map[x][c]
      BY <1>1, <2>1, <2>3, ReplayType
    <2>6. ASSUME NEW x \in Node, NEW c \in Conn, x # n
          PROVE  hash_map'[x][c].p_s # "null" <=> Connected(executed[x], c)'
      <3>1. Connected(executed[x], c)' <=> Connected(executed[x], c)
        BY <1>2, <2>4, <2>6, ConnectedSame
      <3> QED
        BY <2>5, <2>6, <3>1 DEF ConnectionsFollowLog
    <2>7. ASSUME NEW c \in Conn
          PROVE  hash_map'[n][c].p_s # "null" <=> Connected(executed[n], c)'
      <3>1. Connected(executed[n], c)' <=> Connected(Append(executed[n], k), c)
        <4>1. \A j : Content(j)' = Content(j)
          BY <1>2 DEF Content
        <4> QED
          BY <1>2, <2>4 DEF Connected, Content
      <3>2. Connected(Append(executed[n], k), c) <=>
              \/ m.action = "CONNECT" /\ m.conn = c
              \/ ~(m.action = "CLOSE" /\ m.conn = c) /\ Connected(executed[n], c)
        BY <2>3, <2>4, ConnectedAppend DEF m
      <3>3. hash_map[n][c].p_s # "null" <=> Connected(executed[n], c)
        BY DEF ConnectionsFollowLog
      <3>4. hash_map'[n][c].p_s # "null" <=>
              \/ m.action = "CONNECT" /\ m.conn = c
              \/ ~(m.action = "CLOSE" /\ m.conn = c) /\ hash_map[n][c].p_s # "null"
        <4> DEFINE p == hash_map[n][c]
        <4>1. p \in Pair /\ m.action \in {"CONNECT", "SEND", "CLOSE"}
          BY <1>1, <2>3 DEF Msg
        <4>2. hash_map'[n][c] =
                 IF c = m.conn
                 THEN CASE m.action = "CONNECT" -> do_action_connect(p)
                        [] m.action = "SEND"    -> do_action_send(p)
                        [] m.action = "CLOSE"   -> do_action_close(p)
                 ELSE p
          BY <2>5
        <4> HIDE DEF p
        <4>3. do_action_connect(p).p_s # "null"
          BY <4>1 DEF do_action_connect, Pair
        <4>4. do_action_close(p).p_s = "null"
          BY <4>1 DEF do_action_close, Pair
        <4>5. do_action_send(p) = p
          BY DEF do_action_send
        <4>6. hash_map'[n][c].p_s # "null" <=>
              \/ m.action = "CONNECT" /\ m.conn = c
              \/ ~(m.action = "CLOSE" /\ m.conn = c) /\ p.p_s # "null"
          BY <4>1, <4>2, <4>3, <4>4, <4>5
        <4> QED
          BY <4>6 DEF p
      <3> QED
        BY <3>1, <3>2, <3>3, <3>4
    <2>8. ConnectionsFollowLog'
      BY <2>6, <2>7 DEF ConnectionsFollowLog
    <2> QED
      BY <1>3, <2>8
  <1> QED
    BY <1>4, <1>5

LEMMA ConnectionStep ==
    ASSUME TypeOK, ReplayInv, ClientInv, ConnectionsFollowLog, [Next]_vars
    PROVE  ClientInv' /\ ConnectionsFollowLog'
  <1>1. ASSUME UNCHANGED <<proposed, executed, hash_map, client>>,
               queue' = queue \/ \E n \in Node : queue' = [queue EXCEPT ![n] = <<>>]
        PROVE  ClientInv' /\ ConnectionsFollowLog'
    <2>1. queue \in [Node -> Seq(Msg)]
      BY DEF TypeOK
    <2>2. \A n \in Node : queue'[n] = queue[n] \/ queue'[n] = <<>>
      BY <1>1, <2>1
    <2>3. \A n \in Node : \A i \in 1..Len(queue'[n]) :
             i \in 1..Len(queue[n]) /\ queue'[n][i] = queue[n][i]
      BY <2>2
    <2>4. ClientInv'
      BY <1>1, <2>3 DEF ClientInv
    <2> QED
      BY <1>1, <2>4, ConnectionsSame
  <1>2. \A n \in Node : consensus_on_event(n) \/ reconnect_on_timeout(n) =>
           /\ UNCHANGED <<proposed, executed, hash_map, client>>
           /\ queue' = queue \/ queue' = [queue EXCEPT ![n] = <<>>]
    BY DEF consensus_on_event, reconnect_on_timeout, consensus, cursor
  <1>3. \A n \in Node : proxy_singnal_handler(n) \/ LeaveLoop(n) \/ update_state(n) \/ wake_up(n)
                           \/ update_view(n) \/ handle_force_exec(n) \/ handle_missing_ack(n)
           => UNCHANGED <<proposed, executed, hash_map, client, queue>>
    BY DEF proxy_singnal_handler, LeaveLoop, update_state, wake_up, update_view,
           handle_force_exec, handle_missing_ack, consensus, cursor, clients
  <1>4. \A n \in Node, v \in View, r \in 1..MaxReq : StoreRecord(n, v, r)
           => UNCHANGED <<proposed, executed, hash_map, client, queue>>
    BY DEF StoreRecord, cursor, clients
  <1>5. Agree \/ NewView => UNCHANGED <<proposed, executed, hash_map, client, queue>>
    BY DEF Agree, NewView, cursor, clients
  <1>6. UNCHANGED vars => UNCHANGED <<proposed, executed, hash_map, client, queue>>
    BY DEF vars, consensus, cursor, clients
  <1>7. ASSUME UNCHANGED <<proposed, executed, hash_map, client, queue>>
        PROVE  ClientInv' /\ ConnectionsFollowLog'
    BY <1>1, <1>7
  <1> QED
    BY <1>1, <1>2, <1>3, <1>4, <1>5, <1>6, <1>7, ConnectionClients, ConnectionSubmit,
       ConnectionReplay DEF Next

(* A client that has not connected is in no request, and whether a replica  *)
(* has a connection to its server follows from what it has executed          *)
(* (proxy_on_accept, do_action_connect, do_action_close).                    *)
THEOREM ConnectionInvariance == Spec => [](ClientInv /\ ConnectionsFollowLog)
  <1>1. Init => ClientInv /\ ConnectionsFollowLog
    BY ConnectionInit
  <1>2. TypeOK /\ ReplayInv /\ ClientInv /\ ConnectionsFollowLog /\ [Next]_vars
          => ClientInv' /\ ConnectionsFollowLog'
    BY ConnectionStep
  <1> QED
    BY <1>1, <1>2, ReplayInvariance, PTL DEF Spec

(* Whether a replica has a connection to its server depends on the requests *)
(* it has executed and on nothing else, for any number of replicas and       *)
(* clients.                                                                  *)
THEOREM ConnectionsFollowLogHolds == Spec => []ConnectionsFollowLog
  BY ConnectionInvariance, PTL
================================================================================
