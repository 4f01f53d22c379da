-------------------------------- MODULE UTHash ---------------------------------
(***************************************************************************)
(* The hash table of the proxy (src/src/include/proxy/uthash.h), by which  *)
(* it finds the socket pair of a connection. An element is on two doubly   *)
(* linked lists, the one of the table in application order (prev, next)    *)
(* and the chain of its bucket (hh_prev, hh_next); the number of buckets   *)
(* is doubled when a chain gets long. The macros are operators on a table  *)
(* record, the actions are calls by a program.                             *)
(*                                                                         *)
(* Definitions with a capitalised suffix are mutated forms.                *)
(***************************************************************************)
EXTENDS Integers, SequencesExt, FiniteSets

CONSTANTS
    Elem,     \* the elements a program has allocated
    KeyOf,    \* [Elem -> key]
    Hash,     \* [key -> Nat], the hash function
    Rank,     \* [Elem -> Int], the order of the program's cmpfcn
    HASH_INITIAL_NUM_BUCKETS,  \* 32 in the code; a power of two
    HASH_BKT_CAPACITY_THRESH,  \* 10 in the code
    MaxRemovals                \* bound: calls that take elements out

Key == {KeyOf[e] : e \in Elem}

ASSUME TableAssumption ==
    /\ IsFiniteSet(Elem) /\ Elem \subseteq Nat \ {0}   \* addresses
    /\ Hash \in [Key -> Nat]
    /\ Rank \in [Elem -> Int]
    /\ HASH_INITIAL_NUM_BUCKETS \in Nat \ {0}
    /\ HASH_BKT_CAPACITY_THRESH \in Nat \ {0}

NULL == 0

VARIABLES
    tbl,      \* the table and, as tbl.head, the program's pointer to it
    removals  \* calls that take elements out, counted against MaxRemovals

vars == <<tbl, removals>>

(* A field of all elements is written through a pointer that may be NULL. *)
Write(field, p, v) == IF p = NULL THEN field ELSE [field EXCEPT ![p] = v]

(* The list that starts at p, cut off where it must have become a cycle. *)
Walk(next, p) ==
    LET further == [s \in Seq(Elem) |->
          LET e == IF s = <<>> THEN p ELSE next[s[Len(s)]]
          IN IF e = NULL THEN s ELSE Append(s, e)]
        upTo[n \in 0 .. Cardinality(Elem) + 1] ==
          IF n = 0 THEN <<>> ELSE further[upTo[n - 1]]
    IN upTo[Cardinality(Elem) + 1]

HASH_TO_BKT(hashv, num_bkts) == hashv % num_bkts
Bkt(t, k) == HASH_TO_BKT(Hash[k], t.num_buckets)

UT_hash_bucket == [hh_head |-> NULL, count |-> 0, expand_mult |-> 0]
NoBuckets(n) == [b \in 0 .. n - 1 |-> UT_hash_bucket]

HASH_MAKE_TABLE(head) ==
    [head |-> head, tail |-> head, num_items |-> 0,
     num_buckets |-> HASH_INITIAL_NUM_BUCKETS,
     buckets |-> NoBuckets(HASH_INITIAL_NUM_BUCKETS),
     ideal_chain_maxlen |-> 0, nonideal_items |-> 0, ineff_expands |-> 0, noexpand |-> 0,
     prev |-> [e \in Elem |-> NULL], next |-> [e \in Elem |-> NULL],
     hh_prev |-> [e \in Elem |-> NULL], hh_next |-> [e \in Elem |-> NULL]]

(***************************************************************************)
(* Buckets.                                                                *)
(***************************************************************************)
HASH_FIND_IN_BKT_First(t, b, k) == t.buckets[b].hh_head

HASH_FIND_IN_BKT(t, b, k) ==
    LET chain == Walk(t.hh_next, t.buckets[b].hh_head)
        hits == {i \in 1 .. Len(chain) : KeyOf[chain[i]] = k}
    IN IF hits = {} THEN NULL ELSE chain[Min(hits)]

HASH_FIND(t, k) == IF t.head = NULL THEN NULL ELSE HASH_FIND_IN_BKT(t, Bkt(t, k), k)

(* The new element goes to the front of the chain. *)
Push(t, b, e) ==
    LET first == t.buckets[b].hh_head
    IN [t EXCEPT !.hh_next[e] = first,
                 !.hh_prev = Write([@ EXCEPT ![e] = NULL], first, e),
                 !.buckets[b].hh_head = e,
                 !.buckets[b].count = @ + 1]

(* One element on its way to the doubled table; a bucket that gets more     *)
(* than its share tolerates a longer chain from now on.                     *)
Redistribute(t, e) ==
    LET b == Bkt(t, KeyOf[e])
        u == Push(t, b, e)
    IN IF u.buckets[b].count > t.ideal_chain_maxlen
       THEN [u EXCEPT !.nonideal_items = @ + 1,
                      !.buckets[b].expand_mult = u.buckets[b].count \div t.ideal_chain_maxlen]
       ELSE u

RedistributeAll(t, chain) ==
    LET after[i \in 0 .. Len(chain)] ==
          IF i = 0 THEN t ELSE Redistribute(after[i - 1], chain[i])
    IN after[Len(chain)]

(* Two doublings in a row that helped less than half of the items are the   *)
(* last ones.                                                               *)
HASH_EXPAND_BUCKETS(t) ==
    LET n == 2 * t.num_buckets
        empty == [t EXCEPT !.num_buckets = n, !.buckets = NoBuckets(n), !.nonideal_items = 0,
                           !.ideal_chain_maxlen = (t.num_items + n - 1) \div n]
        after[b \in 0 .. t.num_buckets] ==
          IF b = 0 THEN empty
          ELSE RedistributeAll(after[b - 1], Walk(t.hh_next, t.buckets[b - 1].hh_head))
        u == after[t.num_buckets]
        ineff == IF u.nonideal_items > u.num_items \div 2 THEN t.ineff_expands + 1 ELSE 0
    IN [u EXCEPT !.ineff_expands = ineff, !.noexpand = IF ineff > 1 THEN 1 ELSE @]

HASH_ADD_TO_BKT_Late(t, b, e) ==
    LET u == Push(t, b, e)
        bkt == u.buckets[b]
    IN IF /\ bkt.count > (bkt.expand_mult + 1) * HASH_BKT_CAPACITY_THRESH
          /\ t.noexpand # 1
       THEN HASH_EXPAND_BUCKETS(u)
       ELSE u

HASH_ADD_TO_BKT(t, b, e) ==
    LET u == Push(t, b, e)
        bkt == u.buckets[b]
    IN IF /\ bkt.count >= (bkt.expand_mult + 1) * HASH_BKT_CAPACITY_THRESH
          /\ t.noexpand # 1
       THEN HASH_EXPAND_BUCKETS(u)
       ELSE u

HASH_DEL_IN_BKT_KeepsBack(t, b, e) ==
    LET first == t.buckets[b].hh_head
    IN [t EXCEPT !.buckets[b].hh_head = IF first = e THEN t.hh_next[e] ELSE first,
                 !.buckets[b].count = @ - 1,
                 !.hh_next = Write(@, t.hh_prev[e], t.hh_next[e])]

HASH_DEL_IN_BKT(t, b, e) ==
    LET first == t.buckets[b].hh_head
    IN [t EXCEPT !.buckets[b].hh_head = IF first = e THEN t.hh_next[e] ELSE first,
                 !.buckets[b].count = @ - 1,
                 !.hh_next = Write(@, t.hh_prev[e], t.hh_next[e]),
                 !.hh_prev = Write(@, t.hh_next[e], t.hh_prev[e])]

(***************************************************************************)
(* The table.                                                              *)
(***************************************************************************)
HASH_ADD_KEYPTR(t, e) ==
    LET u == IF t.head = NULL
             THEN HASH_MAKE_TABLE(e)
             ELSE [t EXCEPT !.next = [Write(@, t.tail, e) EXCEPT ![e] = NULL],
                            !.prev[e] = t.tail,
                            !.tail = e]
        v == [u EXCEPT !.num_items = @ + 1]
    IN HASH_ADD_TO_BKT(v, Bkt(v, KeyOf[e]), e)

HASH_CLEAR(t) == HASH_MAKE_TABLE(NULL)

(* The table goes with its last element. *)
HASH_DELETE(t, e) ==
    IF t.prev[e] = NULL /\ t.next[e] = NULL THEN HASH_CLEAR(t)
    ELSE LET u == [t EXCEPT !.tail = IF @ = e THEN t.prev[e] ELSE @,
                            !.head = IF t.prev[e] = NULL THEN t.next[e] ELSE @,
                            !.next = Write(@, t.prev[e], t.next[e]),
                            !.prev = Write(@, t.next[e], t.prev[e]),
                            !.num_items = @ - 1]
         IN HASH_DEL_IN_BKT(u, Bkt(u, KeyOf[e]), e)

HASH_REPLACE(t, e) ==
    LET replaced == HASH_FIND(t, KeyOf[e])
    IN HASH_ADD_KEYPTR(IF replaced = NULL THEN t ELSE HASH_DELETE(t, replaced), e)

(***************************************************************************)
(* HASH_SRT: merge sort of the list in application order, from runs of one *)
(* element upwards, until a pass has merged everything into one run.       *)
(***************************************************************************)
Merge_Unstable(p, q) ==
    LET fromP(m) == m.i <= Len(p) /\ (m.j > Len(q) \/ Rank[p[m.i]] < Rank[q[m.j]])
        after[k \in 0 .. Len(p) + Len(q)] ==
          IF k = 0 THEN [i |-> 1, j |-> 1, out |-> <<>>]
          ELSE LET m == after[k - 1]
               IN IF fromP(m)
                  THEN [m EXCEPT !.i = @ + 1, !.out = Append(@, p[m.i])]
                  ELSE [m EXCEPT !.j = @ + 1, !.out = Append(@, q[m.j])]
    IN after[Len(p) + Len(q)].out

Merge(p, q) ==
    LET fromP(m) == m.i <= Len(p) /\ (m.j > Len(q) \/ Rank[p[m.i]] <= Rank[q[m.j]])
        after[k \in 0 .. Len(p) + Len(q)] ==
          IF k = 0 THEN [i |-> 1, j |-> 1, out |-> <<>>]
          ELSE LET m == after[k - 1]
               IN IF fromP(m)
                  THEN [m EXCEPT !.i = @ + 1, !.out = Append(@, p[m.i])]
                  ELSE [m EXCEPT !.j = @ + 1, !.out = Append(@, q[m.j])]
    IN after[Len(p) + Len(q)].out

Take(s, n) == SubSeq(s, 1, IF n < Len(s) THEN n ELSE Len(s))
Drop(s, n) == SubSeq(s, n + 1, Len(s))

SortPass(s, insize) ==
    LET after[k \in 0 .. Len(s)] ==
          IF k = 0 THEN [rest |-> s, out |-> <<>>]
          ELSE LET m == after[k - 1]
                   p == Take(m.rest, insize)
                   q == Take(Drop(m.rest, insize), insize)
               IN [rest |-> Drop(m.rest, 2 * insize), out |-> m.out \o Merge(p, q)]
    IN after[Len(s)].out

SortList(s) ==
    LET after[k \in 0 .. Len(s)] ==
          IF k = 0 THEN [list |-> s, insize |-> 1, looping |-> TRUE]
          ELSE LET m == after[k - 1]
               IN IF m.looping
                  THEN [list |-> SortPass(m.list, m.insize), insize |-> 2 * m.insize,
                        looping |-> Len(s) > 2 * m.insize]
                  ELSE m
    IN after[Len(s)].list

HASH_SRT(t) ==
    LET s == SortList(Walk(t.next, t.head))
        n == Len(s)
        at(e) == CHOOSE i \in 1 .. n : s[i] = e
    IN [t EXCEPT !.head = s[1], !.tail = s[n],
                 !.next = [e \in Elem |-> IF e \notin ToSet(s) THEN @[e]
                                          ELSE IF at(e) = n THEN NULL ELSE s[at(e) + 1]],
                 !.prev = [e \in Elem |-> IF e \notin ToSet(s) THEN @[e]
                                          ELSE IF at(e) = 1 THEN NULL ELSE s[at(e) - 1]]]

(***************************************************************************)
(* Calls by a program: as the proxy does, it looks a key up before it adds *)
(* an element with it. It frees an element that it has taken out, and      *)
(* clears a new one.                                                       *)
(***************************************************************************)
Freed(t, e) ==
    [t EXCEPT !.prev = Write(@, e, NULL), !.next = Write(@, e, NULL),
              !.hh_prev = Write(@, e, NULL), !.hh_next = Write(@, e, NULL)]

InTable == ToSet(Walk(tbl.next, tbl.head))

Init == tbl = HASH_MAKE_TABLE(NULL) /\ removals = 0

Removal == removals < MaxRemovals /\ removals' = removals + 1

Add(e) ==
    /\ HASH_FIND(tbl, KeyOf[e]) = NULL
    /\ tbl' = HASH_ADD_KEYPTR(tbl, e)
    /\ UNCHANGED removals

Replace(e) ==
    /\ e \notin InTable
    /\ Removal
    /\ tbl' = Freed(HASH_REPLACE(tbl, e), HASH_FIND(tbl, KeyOf[e]))

Delete(e) ==
    /\ e \in InTable
    /\ Removal
    /\ tbl' = Freed(HASH_DELETE(tbl, e), e)

Sort == tbl.head # NULL /\ tbl' = HASH_SRT(tbl) /\ UNCHANGED removals

Clear == Removal /\ tbl' = HASH_CLEAR(tbl)

Next ==
    \/ \E e \in Elem : Add(e) \/ Replace(e) \/ Delete(e)
    \/ Sort
    \/ Clear

Spec == Init /\ [][Next]_vars

(***************************************************************************)
(* Properties.                                                             *)
(***************************************************************************)
(* What HASH_FSCK checks, as the consistency of the two kinds of lists: the  *)
(* chains of the buckets and the list of the table have the same elements,   *)
(* each once, in the bucket of its hash value; back pointers mirror forward  *)
(* pointers; tail, the counts of the buckets and num_items are right. No     *)
(* call of any sequence of calls leaves a half-linked element behind.        *)
Mirrors(next, prev, first) ==
    LET s == Walk(next, first)
    IN \A i \in 1 .. Len(s) : prev[s[i]] = IF i = 1 THEN NULL ELSE s[i - 1]

HASH_FSCK ==
    LET list == Walk(tbl.next, tbl.head)
        chain(b) == Walk(tbl.hh_next, tbl.buckets[b].hh_head)
    IN tbl.head # NULL =>
         /\ Mirrors(tbl.next, tbl.prev, tbl.head)
         /\ tbl.tail = list[Len(list)]
         /\ tbl.num_items = Len(list)
         /\ IsInjective(list)
         /\ \A b \in DOMAIN tbl.buckets :
              /\ Mirrors(tbl.hh_next, tbl.hh_prev, tbl.buckets[b].hh_head)
              /\ tbl.buckets[b].count = Len(chain(b))
              /\ ToSet(chain(b)) = {e \in ToSet(list) : Bkt(tbl, KeyOf[e]) = b}

(* "Thus by expanding buckets the hash keeps a bound on the chain length"    *)
(* (uthash.h): a chain never reaches the multiple of the threshold that its  *)
(* bucket tolerates, unless it is no longer than an even distribution makes  *)
(* it, or expansion is inhibited.                                            *)
ChainsBounded ==
    \A b \in DOMAIN tbl.buckets :
      LET bkt == tbl.buckets[b]
      IN \/ bkt.count < (bkt.expand_mult + 1) * HASH_BKT_CAPACITY_THRESH
         \/ bkt.count <= tbl.ideal_chain_maxlen
         \/ tbl.noexpand = 1

(* A look-up finds the element with the key that the list of the table has,  *)
(* also right after the buckets were doubled.                                *)
FindsItem ==
    \A k \in Key :
      LET found == HASH_FIND(tbl, k)
      IN IF \E e \in InTable : KeyOf[e] = k THEN found \in InTable /\ KeyOf[found] = k
         ELSE found = NULL

(* Every call does to the elements, in application order, what OrderedMap    *)
(* says: additions go to the end, deletions and expansions keep the order,   *)
(* the merge sort is stable.                                                 *)
Map == INSTANCE OrderedMap WITH items <- Walk(tbl.next, tbl.head)
ImplementsMap == Map!Spec
================================================================================
