----------------------------- MODULE UTHashProofs ------------------------------
(***************************************************************************)
(* Proofs about module UTHash, for any elements, keys, hash function and   *)
(* order, any initial number of buckets and any threshold, and any number  *)
(* of calls.                                                               *)
(***************************************************************************)
EXTENDS UTHash, FiniteSetTheorems, WellFoundedInduction, TLAPS

--------------------------------------------------------------------------------
(* Induction and recursion over numbers, with sets and functions in place   *)
(* of operators.                                                            *)

LEMMA LeastNumber ==
    ASSUME NEW T, T \subseteq Nat, T # {}
    PROVE  \E x \in T : \A y \in T : x <= y
  <1> DEFINE R == {ss \in Nat \X Nat : ss[1] < ss[2]}
  <1>1. IsWellFoundedOn(R, Nat)
    BY NatLessThanWellFounded DEF OpToRel
  <1>2. PICK x \in T : \A y \in T : ~(<<y, x>> \in R)
    <2> HIDE DEF R
    <2> QED
      BY <1>1, WFMin
  <1>3. \A y \in T : ~(y < x)
    BY <1>2
  <1> QED
    BY <1>3

LEMMA Induction ==
    ASSUME NEW S, 0 \in S, \A n \in Nat : n \in S => n + 1 \in S
    PROVE  \A n \in Nat : n \in S
  <1> DEFINE T == Nat \ S
  <1>1. SUFFICES ASSUME T # {} PROVE FALSE
    OBVIOUS
  <1>2. PICK x \in T : \A y \in T : x <= y
    BY <1>1, LeastNumber
  <1>3. x # 0 /\ x - 1 \in Nat /\ x - 1 \notin T
    BY <1>2
  <1>4. x - 1 \in S /\ (x - 1) + 1 = x
    BY <1>3
  <1> QED
    BY <1>3, <1>4

(* A set of the numbers up to n. *)
LEMMA InductionUpTo ==
    ASSUME NEW n \in Nat, NEW S, 0 \in S, \A i \in 0..(n - 1) : i \in S => i + 1 \in S
    PROVE  \A i \in 0..n : i \in S
  <1> DEFINE T == {i \in Nat : i <= n => i \in S}
  <1>1. 0 \in T
    OBVIOUS
  <1>2. ASSUME NEW i \in Nat, i \in T PROVE i + 1 \in T
    BY <1>2
  <1>3. \A i \in Nat : i \in T
    <2> HIDE DEF T
    <2> QED
      BY <1>1, <1>2, Induction
  <1> QED
    BY <1>3

(* f takes base through the steps 1 to n. *)
Runs(f, n, base, step) ==
    f[0] = base /\ \A i \in 1..n : f[i] = step[<<i, f[i - 1]>>]

LEMMA Recursion ==
    ASSUME NEW n \in Nat, NEW T, NEW base \in T, NEW step \in [(1..n) \X T -> T]
    PROVE  \E f \in [0..n -> T] : Runs(f, n, base, step)
  <1> DEFINE S == {m \in 0..n : \E f \in [0..m -> T] : Runs(f, m, base, step)}
  <1>1. 0 \in S
    <2> DEFINE f == [i \in 0..0 |-> base]
    <2>1. f \in [0..0 -> T] /\ Runs(f, 0, base, step)
      BY DEF Runs
    <2> HIDE DEF f
    <2> QED
      BY <2>1
  <1>2. ASSUME NEW m \in 0..(n - 1), m \in S PROVE m + 1 \in S
    <2>1. PICK f \in [0..m -> T] : Runs(f, m, base, step)
      BY <1>2
    <2> DEFINE x == step[<<m + 1, f[m]>>]
               g == [i \in 0..(m + 1) |-> IF i <= m THEN f[i] ELSE x]
    <2>2. m + 1 \in 1..n /\ f[m] \in T
      OBVIOUS
    <2>3. x \in T
      BY <2>2
    <2> HIDE DEF x
    <2>4. g \in [0..(m + 1) -> T]
      BY <2>3
    <2>5. g[0] = base
      BY <2>1 DEF Runs
    <2>6. ASSUME NEW i \in 1..(m + 1) PROVE g[i] = step[<<i, g[i - 1]>>]
      <3>1. CASE i <= m
        <4>1. i \in 1..m /\ g[i] = f[i] /\ g[i - 1] = f[i - 1]
          BY <3>1
        <4> QED
          BY <2>1, <4>1 DEF Runs
      <3>2. CASE i = m + 1
        <4>1. g[i] = x /\ g[i - 1] = f[m] /\ i = m + 1
          BY <3>2
        <4> QED
          BY <4>1 DEF x
      <3> QED
        BY <3>1, <3>2
    <2> HIDE DEF g
    <2>7. Runs(g, m + 1, base, step)
      BY <2>5, <2>6 DEF Runs
    <2> QED
      BY <2>2, <2>4, <2>7
  <1>3. \A m \in 0..n : m \in S
    <2> HIDE DEF S
    <2> QED
      BY <1>1, <1>2, InductionUpTo
  <1> QED
    BY <1>3

LEMMA SeqEqual ==
    ASSUME NEW S, NEW s \in Seq(S), NEW t \in Seq(S), Len(s) = Len(t),
           \A i \in 1..Len(s) : s[i] = t[i]
    PROVE  s = t
  OBVIOUS

--------------------------------------------------------------------------------
(* Linked lists. *)

Ptr == Elem \cup {NULL}
Ptrs == [Elem -> Ptr]

(* The i-th element of s, and NULL beyond both ends. *)
Nth(s, i) == IF i \in 1..Len(s) THEN s[i] ELSE NULL
OneToOne(s) == \A i, j \in 1..Len(s) : s[i] = s[j] => i = j

(* The list from first on is s, in both directions. *)
IsList(next, prev, first, s) ==
    /\ s \in Seq(Elem) /\ OneToOne(s)
    /\ first = Nth(s, 1)
    /\ \A i \in 1..Len(s) : next[s[i]] = Nth(s, i + 1) /\ prev[s[i]] = Nth(s, i - 1)

LEMMA Caps ==
    /\ NULL \notin Elem /\ Elem \subseteq Nat
    /\ IsFiniteSet(Elem) /\ Cardinality(Elem) \in Nat
    /\ HASH_INITIAL_NUM_BUCKETS \in Nat /\ HASH_INITIAL_NUM_BUCKETS > 0
    /\ HASH_BKT_CAPACITY_THRESH \in Nat /\ HASH_BKT_CAPACITY_THRESH > 0
  BY TableAssumption, FS_CardinalityType DEF NULL

Further(next, p, s) ==
    LET e == IF s = <<>> THEN p ELSE next[s[Len(s)]]
    IN IF e = NULL THEN s ELSE Append(s, e)

LEMMA FurtherType ==
    ASSUME NEW next \in Ptrs, NEW p \in Ptr, NEW s \in Seq(Elem)
    PROVE  Further(next, p, s) \in Seq(Elem)
  <1> DEFINE e == IF s = <<>> THEN p ELSE next[s[Len(s)]]
  <1>1. e \in Ptr
    BY DEF Ptrs
  <1>2. e # NULL => e \in Elem
    BY <1>1 DEF Ptr
  <1> HIDE DEF e
  <1>3. (IF e = NULL THEN s ELSE Append(s, e)) \in Seq(Elem)
    BY <1>2
  <1> QED
    BY <1>3 DEF Further, e

LEMMA WalkDef ==
    ASSUME NEW next \in Ptrs, NEW p \in Ptr
    PROVE  \E f \in [0..(Cardinality(Elem) + 1) -> Seq(Elem)] :
              /\ f[0] = <<>>
              /\ \A i \in 1..(Cardinality(Elem) + 1) : f[i] = Further(next, p, f[i - 1])
              /\ Walk(next, p) = f[Cardinality(Elem) + 1]
  <1> DEFINE N == Cardinality(Elem) + 1
             further == [s \in Seq(Elem) |->
                           LET e == IF s = <<>> THEN p ELSE next[s[Len(s)]]
                           IN IF e = NULL THEN s ELSE Append(s, e)]
             upTo == CHOOSE f : f = [n \in 0..N |-> IF n = 0 THEN <<>> ELSE further[f[n - 1]]]
             step == [x \in (1..N) \X Seq(Elem) |-> Further(next, p, x[2])]
  <1>1. N \in Nat
    BY Caps
  <1>2. Walk(next, p) = upTo[N]
    BY DEF Walk
  <1>3. \A s \in Seq(Elem) : further[s] = Further(next, p, s)
    BY DEF Further
  <1> HIDE DEF N, further
  <1>4. <<>> \in Seq(Elem)
    OBVIOUS
  <1>5. step \in [(1..N) \X Seq(Elem) -> Seq(Elem)]
    BY FurtherType
  <1>6. \A i \in 1..N, s \in Seq(Elem) : step[<<i, s>>] = Further(next, p, s)
    OBVIOUS
  <1> HIDE DEF step
  <1>7. PICK f \in [0..N -> Seq(Elem)] : Runs(f, N, <<>>, step)
    BY <1>1, <1>4, <1>5, Recursion
  <1>8. \A n \in 0..N : f[n] = IF n = 0 THEN <<>> ELSE further[f[n - 1]]
    <2> SUFFICES ASSUME NEW n \in 0..N, n # 0 PROVE f[n] = further[f[n - 1]]
      BY <1>7 DEF Runs
    <2>1. n \in 1..N /\ n - 1 \in 0..N
      BY <1>1
    <2>2. f[n - 1] \in Seq(Elem)
      BY <2>1
    <2> QED
      BY <1>3, <1>6, <1>7, <2>1, <2>2 DEF Runs
  <1>9. f = [n \in 0..N |-> IF n = 0 THEN <<>> ELSE further[f[n - 1]]]
    BY <1>8
  <1>10. upTo = [n \in 0..N |-> IF n = 0 THEN <<>> ELSE further[upTo[n - 1]]]
    BY <1>9
  <1> HIDE DEF upTo
  <1>11. \A n \in 0..N : upTo[n] = IF n = 0 THEN <<>> ELSE further[upTo[n - 1]]
    BY <1>10
  <1> DEFINE S == {n \in 0..N : upTo[n] = f[n]}
  <1>12. 0 \in S
    <2>1. 0 \in 0..N
      BY <1>1
    <2>2. upTo[0] = <<>> /\ f[0] = <<>>
      BY <1>8, <1>11, <2>1
    <2> QED
      BY <2>1, <2>2
  <1>13. ASSUME NEW n \in 0..(N - 1), n \in S PROVE n + 1 \in S
    <2>1. n + 1 \in 0..N /\ n + 1 # 0 /\ (n + 1) - 1 = n
      BY <1>1
    <2> QED
      BY <1>8, <1>11, <1>13, <2>1
  <1>14. \A n \in 0..N : n \in S
    <2> HIDE DEF S
    <2> QED
      BY <1>1, <1>12, <1>13, InductionUpTo
  <1>15. N \in 0..N
    BY <1>1
  <1>16. Walk(next, p) = f[N]
    BY <1>2, <1>14, <1>15
  <1>17. \A i \in 1..N : f[i] = Further(next, p, f[i - 1])
    <2> SUFFICES ASSUME NEW i \in 1..N PROVE f[i] = Further(next, p, f[i - 1])
      OBVIOUS
    <2>1. i - 1 \in 0..N
      BY <1>1
    <2>2. f[i - 1] \in Seq(Elem)
      BY <2>1
    <2> QED
      BY <1>6, <1>7, <2>2 DEF Runs
  <1> QED
    BY <1>7, <1>16, <1>17 DEF N, Runs

(* A list without repetition is no longer than there are elements. *)
LEMMA ShortList ==
    ASSUME NEW s \in Seq(Elem), OneToOne(s)
    PROVE  Len(s) \in Nat /\ Len(s) <= Cardinality(Elem)
  <1>1. Len(s) \in Nat /\ s \in [1..Len(s) -> Elem]
    OBVIOUS
  <1>2. s \in Injection(1..Len(s), Elem)
    BY <1>1 DEF Injection, OneToOne, IsInjective
  <1>3. IsFiniteSet(Elem)
    BY Caps
  <1>4. Cardinality(1..Len(s)) <= Cardinality(Elem)
    BY <1>2, <1>3, FS_Injection DEF ExistsInjection
  <1>5. Cardinality(1..Len(s)) = Len(s)
    BY <1>1, FS_Interval
  <1> QED
    BY <1>1, <1>4, <1>5

Start(s, n) == [i \in 1..n |-> s[i]]

LEMMA StartFacts ==
    ASSUME NEW s \in Seq(Elem), NEW n \in 0..Len(s)
    PROVE  /\ Start(s, n) \in Seq(Elem) /\ Len(Start(s, n)) = n
           /\ \A i \in 1..n : Start(s, n)[i] = s[i]
           /\ n < Len(s) => Append(Start(s, n), s[n + 1]) = Start(s, n + 1)
  <1>1. /\ Start(s, n) \in Seq(Elem) /\ Len(Start(s, n)) = n
        /\ \A i \in 1..n : Start(s, n)[i] = s[i]
    BY DEF Start
  <1>2. ASSUME n < Len(s) PROVE Append(Start(s, n), s[n + 1]) = Start(s, n + 1)
    <2> DEFINE t == Append(Start(s, n), s[n + 1])
               u == Start(s, n + 1)
    <2>1. n + 1 \in 1..Len(s) /\ s[n + 1] \in Elem /\ n \in Nat
      BY <1>2
    <2>2. /\ t \in Seq(Elem) /\ Len(t) = n + 1
          /\ \A i \in 1..n : t[i] = s[i]
          /\ t[n + 1] = s[n + 1]
      BY <1>1, <2>1
    <2>3. /\ u \in Seq(Elem) /\ Len(u) = n + 1
          /\ \A i \in 1..(n + 1) : u[i] = s[i]
      BY <2>1 DEF Start
    <2> HIDE DEF t, u
    <2>4. \A i \in 1..(n + 1) : t[i] = u[i]
      BY <2>1, <2>2, <2>3
    <2> QED
      BY <2>2, <2>3, <2>4, SeqEqual DEF t, u
  <1> QED
    BY <1>1, <1>2

(* Walk follows a list to its end. *)
LEMMA WalkIs ==
    ASSUME NEW next \in Ptrs, NEW prev, NEW first, NEW s, IsList(next, prev, first, s)
    PROVE  first \in Ptr /\ Walk(next, first) = s
  <1> DEFINE N == Cardinality(Elem) + 1
             L == Len(s)
  <1>1. s \in Seq(Elem) /\ L \in Nat /\ L < N /\ N \in Nat
    BY ShortList, Caps DEF IsList
  <1>2. first \in Ptr
    BY <1>1 DEF IsList, Nth, Ptr
  <1>3. PICK f \in [0..N -> Seq(Elem)] :
           /\ f[0] = <<>>
           /\ \A i \in 1..N : f[i] = Further(next, first, f[i - 1])
           /\ Walk(next, first) = f[N]
    BY <1>2, WalkDef
  <1> HIDE DEF N, L
  <1>4. ASSUME NEW n \in 0..L PROVE Further(next, first, Start(s, n)) = IF n < L THEN Start(s, n + 1) ELSE Start(s, n)
    <2> DEFINE t == Start(s, n)
               e == IF t = <<>> THEN first ELSE next[t[Len(t)]]
    <2>1. /\ t \in Seq(Elem) /\ Len(t) = n /\ \A i \in 1..n : t[i] = s[i]
          /\ n < L => Append(t, s[n + 1]) = Start(s, n + 1)
      BY <1>1, StartFacts DEF L
    <2> HIDE DEF t
    <2>2. e = Nth(s, n + 1)
      <3>1. CASE n = 0
        BY <2>1, <3>1 DEF IsList
      <3>2. CASE n # 0
        <4>1. n \in 1..Len(s) /\ t # <<>> /\ t[Len(t)] = s[n]
          BY <1>1, <2>1, <3>2 DEF L
        <4> QED
          BY <4>1 DEF IsList
      <3> QED
        BY <3>1, <3>2
    <2> HIDE DEF e
    <2>3. CASE n < L
      <3>1. e = s[n + 1] /\ e # NULL
        BY <1>1, <2>2, <2>3, Caps DEF Nth, L
      <3> QED
        BY <2>1, <2>3, <3>1 DEF Further, e, t
    <2>4. CASE n = L
      <3>1. e = NULL
        BY <1>1, <2>2, <2>4 DEF Nth, L
      <3> QED
        BY <1>1, <2>1, <2>4, <3>1 DEF Further, e, t
    <2> QED
      BY <1>1, <2>3, <2>4
  <1> DEFINE S == {n \in 0..N : f[n] = IF n <= L THEN Start(s, n) ELSE Start(s, L)}
  <1>5. 0 \in S
    <2>1. Start(s, 0) = <<>>
      <3>1. Start(s, 0) \in Seq(Elem) /\ Len(Start(s, 0)) = 0
        BY <1>1, StartFacts DEF L
      <3> QED
        BY <3>1
    <2> QED
      BY <1>1, <1>3, <2>1
  <1>6. ASSUME NEW n \in 0..(N - 1), n \in S PROVE n + 1 \in S
    <2>1. n + 1 \in 1..N /\ (n + 1) - 1 = n
      BY <1>1
    <2>2. f[n + 1] = Further(next, first, f[n])
      BY <1>3, <2>1
    <2>3. CASE n <= L
      <3>1. n \in 0..L /\ f[n] = Start(s, n)
        BY <1>1, <1>6, <2>3
      <3>2. f[n + 1] = IF n < L THEN Start(s, n + 1) ELSE Start(s, n)
        BY <1>4, <2>2, <3>1
      <3> QED
        BY <1>1, <2>1, <2>3, <3>2
    <2>4. CASE ~(n <= L)
      <3>1. f[n] = Start(s, L) /\ L \in 0..L
        BY <1>1, <1>6, <2>4
      <3>2. f[n + 1] = Start(s, L)
        BY <1>1, <1>4, <2>2, <3>1
      <3> QED
        BY <1>1, <2>1, <2>4, <3>2
    <2> QED
      BY <2>3, <2>4
  <1>7. \A n \in 0..N : n \in S
    <2> HIDE DEF S
    <2> QED
      BY <1>1, <1>5, <1>6, InductionUpTo
  <1>8. f[N] = Start(s, L)
    <2>1. N \in 0..N
      BY <1>1
    <2>2. N \in S
      BY <1>7, <2>1
    <2> QED
      BY <1>1, <2>2
  <1>9. Start(s, L) = s
    BY <1>1 DEF Start, L
  <1> QED
    BY <1>2, <1>3, <1>8, <1>9

LEMMA InSet ==
    ASSUME NEW S, NEW s \in Seq(S)
    PROVE  /\ ToSet(s) = {s[i] : i \in 1..Len(s)} /\ ToSet(s) \subseteq S
           /\ \A i \in 1..Len(s) : s[i] \in ToSet(s)
  BY DEF ToSet

(* What a list says does not depend on the pointers of other elements. *)
LEMMA ListFrame ==
    ASSUME NEW next, NEW prev, NEW first, NEW s, IsList(next, prev, first, s),
           NEW next2, NEW prev2,
           \A e \in ToSet(s) : next2[e] = next[e] /\ prev2[e] = prev[e]
    PROVE  IsList(next2, prev2, first, s)
  <1>1. \A i \in 1..Len(s) : s[i] \in ToSet(s)
    BY InSet DEF IsList
  <1> QED
    BY <1>1 DEF IsList

LEMMA EmptyList ==
    ASSUME NEW next, NEW prev
    PROVE  IsList(next, prev, NULL, <<>>) /\ ToSet(<<>>) = {}
  BY DEF IsList, OneToOne, Nth, ToSet

LEMMA ListOfOne ==
    ASSUME NEW next, NEW prev, NEW e \in Elem, next[e] = NULL, prev[e] = NULL
    PROVE  IsList(next, prev, e, <<e>>) /\ ToSet(<<e>>) = {e} /\ Len(<<e>>) = 1
  <1> DEFINE s == <<e>>
  <1>1. s \in Seq(Elem) /\ Len(s) = 1 /\ s[1] = e
    OBVIOUS
  <1> HIDE DEF s
  <1>2. \A i \in 1..Len(s) : i = 1
    BY <1>1
  <1>3. OneToOne(s) /\ Nth(s, 1) = e /\ Nth(s, 2) = NULL /\ Nth(s, 0) = NULL
    BY <1>1, <1>2 DEF OneToOne, Nth
  <1>4. IsList(next, prev, e, s)
    BY <1>1, <1>2, <1>3 DEF IsList
  <1>5. ToSet(s) = {e}
    BY <1>1, InSet
  <1> QED
    BY <1>1, <1>4, <1>5 DEF s

(* An element in front of a list. *)
LEMMA ListPush ==
    ASSUME NEW next \in Ptrs, NEW prev \in Ptrs, NEW first, NEW s,
           IsList(next, prev, first, s), NEW e \in Elem, e \notin ToSet(s)
    PROVE  /\ IsList([next EXCEPT ![e] = first], Write([prev EXCEPT ![e] = NULL], first, e), e,
                     <<e>> \o s)
           /\ Len(<<e>> \o s) = Len(s) + 1 /\ ToSet(<<e>> \o s) = ToSet(s) \cup {e}
  <1> DEFINE u == <<e>> \o s
             n2 == [next EXCEPT ![e] = first]
             p1 == [prev EXCEPT ![e] = NULL]
             p2 == Write(p1, first, e)
  <1>1. s \in Seq(Elem) /\ Len(s) \in Nat
    BY DEF IsList
  <1>2. /\ u \in Seq(Elem) /\ Len(u) = Len(s) + 1 /\ u[1] = e
        /\ \A i \in 1..Len(s) : u[i + 1] = s[i]
    BY <1>1
  <1> HIDE DEF u
  <1>3. \A i \in 1..Len(u) : i = 1 \/ (i - 1 \in 1..Len(s) /\ u[i] = s[i - 1])
    <2> SUFFICES ASSUME NEW i \in 1..Len(u), i # 1 PROVE i - 1 \in 1..Len(s) /\ u[i] = s[i - 1]
      OBVIOUS
    <2>1. i - 1 \in 1..Len(s) /\ (i - 1) + 1 = i
      BY <1>1, <1>2
    <2> QED
      BY <1>2, <2>1
  <1>4. \A i \in 1..Len(s) : s[i] # e /\ s[i] \in Elem
    BY <1>1, InSet
  <1>5. OneToOne(u)
    <2> SUFFICES ASSUME NEW i \in 1..Len(u), NEW j \in 1..Len(u), u[i] = u[j] PROVE i = j
      BY DEF OneToOne
    <2>1. CASE i = 1 \/ j = 1
      BY <1>2, <1>3, <1>4, <2>1
    <2>2. CASE i # 1 /\ j # 1
      <3>1. /\ i - 1 \in 1..Len(s) /\ u[i] = s[i - 1]
            /\ j - 1 \in 1..Len(s) /\ u[j] = s[j - 1]
        BY <1>3, <2>2
      <3>2. OneToOne(s)
        BY DEF IsList
      <3>3. i - 1 = j - 1
        BY <3>1, <3>2 DEF OneToOne
      <3> QED
        BY <3>3
    <2> QED
      BY <2>1, <2>2
  <1>6. e = Nth(u, 1) /\ first = Nth(u, 2) /\ first = Nth(s, 1)
    <2>1. first = Nth(s, 1)
      BY DEF IsList
    <2>2. Nth(u, 2) = Nth(s, 1)
      BY <1>1, <1>2 DEF Nth
    <2> QED
      BY <1>1, <1>2, <2>1, <2>2 DEF Nth
  <1>7. /\ n2[e] = first /\ \A x \in Elem : x # e => n2[x] = next[x]
        /\ p1 \in Ptrs /\ p1[e] = NULL /\ \A x \in Elem : x # e => p1[x] = prev[x]
    BY DEF Ptrs, Ptr
  <1>8. first = NULL \/ (first \in Elem /\ first = s[1] /\ Len(s) > 0 /\ first # e)
    BY <1>1, <1>4, <1>6 DEF Nth
  <1> HIDE DEF p1
  <1>9. /\ p2[e] = NULL
        /\ Len(s) > 0 => p2[s[1]] = e
        /\ \A x \in Elem : x # e /\ x # first => p2[x] = prev[x]
    <2>1. CASE first = NULL
      <3>1. Len(s) = 0
        BY <1>1, <1>4, <1>6, <2>1, Caps DEF Nth
      <3> QED
        BY <1>7, <2>1, <3>1 DEF Write
    <2>2. CASE first \in Elem /\ first = s[1] /\ Len(s) > 0 /\ first # e
      <3>1. p2 = [p1 EXCEPT ![first] = e]
        BY <2>2, Caps DEF Write
      <3> QED
        BY <1>7, <2>2, <3>1 DEF Ptrs
    <2> QED
      BY <1>8, <2>1, <2>2
  <1> HIDE DEF n2, p2
  <1>10. ASSUME NEW i \in 1..Len(u) PROVE n2[u[i]] = Nth(u, i + 1) /\ p2[u[i]] = Nth(u, i - 1)
    <2>1. CASE i = 1
      BY <1>2, <1>6, <1>7, <1>9, <2>1 DEF Nth
    <2>2. CASE i # 1
      <3> DEFINE j == i - 1
      <3>1. j \in 1..Len(s) /\ i = j + 1 /\ u[i] = s[j] /\ s[j] # e /\ s[j] \in Elem
        BY <1>3, <1>4, <2>2
      <3> HIDE DEF j
      <3>2. n2[s[j]] = Nth(s, j + 1)
        BY <1>7, <3>1 DEF IsList
      <3>3. Nth(s, j + 1) = Nth(u, i + 1)
        <4>1. CASE j + 1 \in 1..Len(s)
          BY <1>1, <1>2, <3>1, <4>1 DEF Nth
        <4>2. CASE j + 1 \notin 1..Len(s)
          BY <1>1, <1>2, <3>1, <4>2 DEF Nth
        <4> QED
          BY <4>1, <4>2
      <3>4. CASE j = 1
        <4>1. p2[s[1]] = e /\ i - 1 = 1
          BY <1>1, <1>9, <3>1, <3>4
        <4> QED
          BY <1>1, <1>2, <3>1, <3>2, <3>3, <3>4, <4>1 DEF Nth
      <3>5. CASE j # 1
        <4>1. j - 1 \in 1..Len(s) /\ i - 1 = (j - 1) + 1
          BY <1>1, <3>1, <3>5
        <4>2. s[j] # first
          BY <1>1, <1>8, <3>1, <3>5, Caps DEF IsList, OneToOne
        <4>3. p2[s[j]] = s[j - 1]
          BY <1>9, <3>1, <4>1, <4>2 DEF IsList, Nth
        <4>4. u[i - 1] = s[j - 1] /\ i - 1 \in 1..Len(u)
          BY <1>1, <1>2, <4>1
        <4> QED
          BY <3>1, <3>2, <3>3, <4>3, <4>4 DEF Nth
      <3> QED
        BY <3>4, <3>5
    <2> QED
      BY <2>1, <2>2
  <1>11. IsList(n2, p2, e, u)
    BY <1>2, <1>5, <1>6, <1>10 DEF IsList
  <1>12. ToSet(u) = ToSet(s) \cup {e}
    <2>1. ToSet(u) = {u[i] : i \in 1..Len(u)} /\ ToSet(s) = {s[i] : i \in 1..Len(s)}
      BY <1>1, <1>2, InSet
    <2>2. ASSUME NEW x \in ToSet(u) PROVE x \in ToSet(s) \cup {e}
      <3>1. PICK i \in 1..Len(u) : x = u[i]
        BY <2>1
      <3>2. CASE i = 1
        BY <1>2, <3>1, <3>2
      <3>3. CASE i # 1
        BY <1>3, <2>1, <3>1, <3>3
      <3> QED
        BY <3>2, <3>3
    <2>3. ASSUME NEW x \in ToSet(s) \cup {e} PROVE x \in ToSet(u)
      <3>1. CASE x = e
        BY <1>1, <1>2, <2>1, <3>1
      <3>2. CASE x \in ToSet(s)
        <4>1. PICK i \in 1..Len(s) : x = s[i]
          BY <2>1, <3>2
        <4>2. i + 1 \in 1..Len(u) /\ u[i + 1] = x
          BY <1>1, <1>2, <4>1
        <4> QED
          BY <2>1, <4>2
      <3> QED
        BY <2>3, <3>1, <3>2
    <2> QED
      BY <2>2, <2>3
  <1> QED
    BY <1>2, <1>11, <1>12 DEF u, n2, p2, p1

(* An element behind a list. *)
LEMMA ListAppend ==
    ASSUME NEW next \in Ptrs, NEW prev \in Ptrs, NEW first, NEW s,
           IsList(next, prev, first, s), Len(s) > 0, NEW e \in Elem, e \notin ToSet(s)
    PROVE  /\ IsList([Write(next, Nth(s, Len(s)), e) EXCEPT ![e] = NULL],
                     [prev EXCEPT ![e] = Nth(s, Len(s))], first, Append(s, e))
           /\ Len(Append(s, e)) = Len(s) + 1 /\ ToSet(Append(s, e)) = ToSet(s) \cup {e}
           /\ Nth(Append(s, e), Len(s) + 1) = e
  <1> DEFINE u == Append(s, e)
             l == Nth(s, Len(s))
             n1 == Write(next, l, e)
             n2 == [n1 EXCEPT ![e] = NULL]
             p2 == [prev EXCEPT ![e] = l]
  <1>1. s \in Seq(Elem) /\ Len(s) \in Nat /\ OneToOne(s) /\ first = Nth(s, 1)
    BY DEF IsList
  <1>2. /\ u \in Seq(Elem) /\ Len(u) = Len(s) + 1 /\ u[Len(s) + 1] = e
        /\ \A i \in 1..Len(s) : u[i] = s[i]
    BY <1>1
  <1> HIDE DEF u
  <1>3. \A i \in 1..Len(u) : i = Len(s) + 1 \/ i \in 1..Len(s)
    BY <1>1, <1>2
  <1>4. \A i \in 1..Len(s) : s[i] # e /\ s[i] \in Elem
    BY <1>1, InSet
  <1>5. OneToOne(u)
    <2> SUFFICES ASSUME NEW i \in 1..Len(u), NEW j \in 1..Len(u), u[i] = u[j] PROVE i = j
      BY DEF OneToOne
    <2>1. CASE i = Len(s) + 1 \/ j = Len(s) + 1
      BY <1>2, <1>3, <1>4, <2>1
    <2>2. CASE i \in 1..Len(s) /\ j \in 1..Len(s)
      BY <1>1, <1>2, <2>2 DEF OneToOne
    <2> QED
      BY <1>3, <2>1, <2>2
  <1>6. l = s[Len(s)] /\ l \in Elem /\ l # e /\ Len(s) \in 1..Len(s)
    BY <1>1, <1>4 DEF Nth
  <1>7. n1 = [next EXCEPT ![l] = e]
    BY <1>6, Caps DEF Write
  <1> HIDE DEF l, n1
  <1>8. /\ n2[e] = NULL /\ n2[l] = e /\ \A x \in Elem : x # e /\ x # l => n2[x] = next[x]
        /\ p2[e] = l /\ \A x \in Elem : x # e => p2[x] = prev[x]
    BY <1>6, <1>7 DEF Ptrs
  <1> HIDE DEF n2, p2
  <1>9. ASSUME NEW i \in 1..Len(u) PROVE n2[u[i]] = Nth(u, i + 1) /\ p2[u[i]] = Nth(u, i - 1)
    <2>1. CASE i = Len(s) + 1
      <3>1. u[i] = e /\ i - 1 = Len(s) /\ u[i - 1] = l
        BY <1>1, <1>2, <1>6, <2>1
      <3> QED
        BY <1>1, <1>2, <1>6, <1>8, <2>1, <3>1 DEF Nth
    <2>2. CASE i \in 1..Len(s)
      <3>1. u[i] = s[i] /\ s[i] # e /\ s[i] \in Elem
        BY <1>2, <1>4, <2>2
      <3>2. p2[s[i]] = Nth(s, i - 1)
        BY <1>8, <2>2, <3>1 DEF IsList
      <3>3. Nth(s, i - 1) = Nth(u, i - 1)
        BY <1>1, <1>2, <2>2 DEF Nth
      <3>4. CASE i = Len(s)
        <4>1. s[i] = l /\ i + 1 = Len(s) + 1 /\ i + 1 \in 1..Len(u)
          BY <1>1, <1>2, <1>6, <3>4
        <4> QED
          BY <1>2, <1>8, <3>1, <3>2, <3>3, <4>1 DEF Nth
      <3>5. CASE i # Len(s)
        <4>1. s[i] # l /\ i + 1 \in 1..Len(s) /\ i + 1 \in 1..Len(u)
          BY <1>1, <1>2, <1>6, <2>2, <3>5 DEF OneToOne
        <4>2. n2[s[i]] = Nth(s, i + 1)
          BY <1>8, <2>2, <3>1, <4>1 DEF IsList
        <4> QED
          BY <1>2, <3>1, <3>2, <3>3, <4>1, <4>2 DEF Nth
      <3> QED
        BY <3>4, <3>5
    <2> QED
      BY <1>3, <2>1, <2>2
  <1>10. first = Nth(u, 1)
    BY <1>1, <1>2 DEF Nth
  <1>11. IsList(n2, p2, first, u)
    BY <1>2, <1>5, <1>9, <1>10 DEF IsList
  <1>12. ToSet(u) = ToSet(s) \cup {e}
    <2>1. ToSet(u) = {u[i] : i \in 1..Len(u)} /\ ToSet(s) = {s[i] : i \in 1..Len(s)}
      BY <1>1, <1>2, InSet
    <2>2. ASSUME NEW x \in ToSet(u) PROVE x \in ToSet(s) \cup {e}
      <3>1. PICK i \in 1..Len(u) : x = u[i]
        BY <2>1
      <3> QED
        BY <1>2, <1>3, <2>1, <3>1
    <2>3. ASSUME NEW x \in ToSet(s) \cup {e} PROVE x \in ToSet(u)
      <3>1. CASE x = e
        BY <1>1, <1>2, <2>1, <3>1
      <3>2. CASE x \in ToSet(s)
        <4>1. PICK i \in 1..Len(s) : x = s[i]
          BY <2>1, <3>2
        <4>2. i \in 1..Len(u) /\ u[i] = x
          BY <1>1, <1>2, <4>1
        <4> QED
          BY <2>1, <4>2
      <3> QED
        BY <2>3, <3>1, <3>2
    <2> QED
      BY <2>2, <2>3
  <1>13. Nth(u, Len(s) + 1) = e
    BY <1>1, <1>2 DEF Nth
  <1> QED
    BY <1>2, <1>11, <1>12, <1>13 DEF u, n2, n1, p2, l

LEMMA ConcatFacts ==
    ASSUME NEW S, NEW s \in Seq(S), NEW t \in Seq(S)
    PROVE  /\ s \o t \in Seq(S) /\ Len(s \o t) = Len(s) + Len(t)
           /\ \A i \in 1..Len(s) : (s \o t)[i] = s[i]
           /\ \A i \in 1..Len(t) : (s \o t)[Len(s) + i] = t[i]
  OBVIOUS

(* What is left of a sequence without its k-th element. *)
LEMMA RemoveFacts ==
    ASSUME NEW S, NEW s \in Seq(S), NEW k \in 1..Len(s)
    PROVE  /\ RemoveAt(s, k) \in Seq(S) /\ Len(RemoveAt(s, k)) = Len(s) - 1
           /\ \A i \in 1..(k - 1) : RemoveAt(s, k)[i] = s[i]
           /\ \A i \in k..(Len(s) - 1) : RemoveAt(s, k)[i] = s[i + 1]
  <1> DEFINE a == SubSeq(s, 1, k - 1)
             b == SubSeq(s, k + 1, Len(s))
             u == a \o b
  <1>1. Len(s) \in Nat /\ k \in Nat
    OBVIOUS
  <1>2. a \in Seq(S) /\ Len(a) = k - 1 /\ \A i \in 1..(k - 1) : a[i] = s[i]
    BY <1>1
  <1>3. b \in Seq(S) /\ Len(b) = Len(s) - k /\ \A i \in 1..(Len(s) - k) : b[i] = s[k + i]
    BY <1>1
  <1> HIDE DEF a, b
  <1>4. /\ u \in Seq(S) /\ Len(u) = Len(s) - 1
        /\ \A i \in 1..(k - 1) : u[i] = a[i]
        /\ \A i \in 1..(Len(s) - k) : u[(k - 1) + i] = b[i]
    <2>1. a \in Seq(S) /\ b \in Seq(S)
      BY <1>2, <1>3
    <2>2. /\ u \in Seq(S) /\ Len(u) = Len(a) + Len(b)
          /\ \A i \in 1..Len(a) : u[i] = a[i]
          /\ \A i \in 1..Len(b) : u[Len(a) + i] = b[i]
      BY <2>1, ConcatFacts
    <2> HIDE DEF u
    <2> QED
      BY <1>1, <1>2, <1>3, <2>2
  <1>5. RemoveAt(s, k) = u
    BY DEF RemoveAt, a, b
  <1> HIDE DEF u
  <1>6. ASSUME NEW i \in k..(Len(s) - 1) PROVE u[i] = s[i + 1]
    <2> DEFINE j == i - (k - 1)
    <2>1. j \in 1..(Len(s) - k) /\ (k - 1) + j = i /\ k + j = i + 1
      BY <1>1
    <2> HIDE DEF j
    <2> QED
      BY <1>3, <1>4, <2>1
  <1> QED
    BY <1>2, <1>4, <1>5, <1>6

(* A list without its k-th element. *)
LEMMA ListRemove ==
    ASSUME NEW next \in Ptrs, NEW prev \in Ptrs, NEW first, NEW s,
           IsList(next, prev, first, s), NEW k \in 1..Len(s), NEW e, e = s[k]
    PROVE  /\ IsList(Write(next, prev[e], next[e]), Write(prev, next[e], prev[e]),
                     IF first = e THEN next[e] ELSE first, RemoveAt(s, k))
           /\ ToSet(RemoveAt(s, k)) = ToSet(s) \ {e}
           /\ first = e <=> prev[e] = NULL
           /\ Nth(s, Len(s)) = e <=> next[e] = NULL
           /\ Nth(RemoveAt(s, k), Len(s) - 1)
                = IF Nth(s, Len(s)) = e THEN prev[e] ELSE Nth(s, Len(s))
  <1> DEFINE u == RemoveAt(s, k)
             a == prev[e]
             b == next[e]
             n2 == Write(next, a, b)
             p2 == Write(prev, b, a)
             L == Len(s)
  <1>1. /\ s \in Seq(Elem) /\ L \in Nat /\ k \in Nat /\ k <= L /\ 1 <= k
        /\ OneToOne(s) /\ first = Nth(s, 1)
    BY DEF IsList
  <1>2. /\ u \in Seq(Elem) /\ Len(u) = L - 1
        /\ \A i \in 1..(k - 1) : u[i] = s[i]
        /\ \A i \in k..(L - 1) : u[i] = s[i + 1]
    BY <1>1, RemoveFacts
  <1> HIDE DEF u
  <1>3. a = Nth(s, k - 1) /\ b = Nth(s, k + 1)
    BY DEF IsList
  <1>4. /\ \A i \in 1..L : s[i] \in Elem /\ s[i] # NULL
        /\ \A i, j \in 1..L : s[i] = s[j] => i = j
    BY <1>1, Caps DEF OneToOne
  <1> HIDE DEF a, b, L
  <1>5. /\ k = 1 => a = NULL
        /\ k > 1 => k - 1 \in 1..L /\ a = s[k - 1] /\ a \in Elem /\ a # NULL
        /\ k = L => b = NULL
        /\ k < L => k + 1 \in 1..L /\ b = s[k + 1] /\ b \in Elem /\ b # NULL
    <2>1. k = 1 => k - 1 \notin 1..L
      BY <1>1
    <2>2. k > 1 => k - 1 \in 1..L
      BY <1>1
    <2>3. k = L => k + 1 \notin 1..L
      BY <1>1
    <2>4. k < L => k + 1 \in 1..L
      BY <1>1
    <2> QED
      BY <1>3, <1>4, <2>1, <2>2, <2>3, <2>4 DEF Nth, L
  <1>6. /\ \A x \in Elem : x # a => n2[x] = next[x]
        /\ k > 1 => n2[a] = b
    BY <1>1, <1>5 DEF Write, Ptrs
  <1>7. /\ \A x \in Elem : x # b => p2[x] = prev[x]
        /\ k < L => p2[b] = a
    BY <1>1, <1>5 DEF Write, Ptrs
  <1> HIDE DEF n2, p2
  <1>8. \A i \in 1..Len(u) : \/ i \in 1..(k - 1) /\ i \in 1..L /\ u[i] = s[i]
                             \/ i \in k..(L - 1) /\ i + 1 \in 1..L /\ u[i] = s[i + 1]
    <2> SUFFICES ASSUME NEW i \in 1..Len(u)
                 PROVE  \/ i \in 1..(k - 1) /\ i \in 1..L /\ u[i] = s[i]
                        \/ i \in k..(L - 1) /\ i + 1 \in 1..L /\ u[i] = s[i + 1]
      OBVIOUS
    <2>1. CASE i < k
      <3>1. i \in 1..(k - 1) /\ i \in 1..L
        BY <1>1, <1>2, <2>1
      <3> QED
        BY <1>2, <3>1
    <2>2. CASE ~(i < k)
      <3>1. i \in k..(L - 1) /\ i + 1 \in 1..L
        BY <1>1, <1>2, <2>2
      <3> QED
        BY <1>2, <3>1
    <2> QED
      BY <2>1, <2>2
  <1>9. OneToOne(u)
    <2> SUFFICES ASSUME NEW i \in 1..Len(u), NEW j \in 1..Len(u), u[i] = u[j] PROVE i = j
      BY DEF OneToOne
    <2>1. CASE i \in 1..(k - 1) /\ j \in 1..(k - 1)
      BY <1>2, <1>4, <1>8, <2>1
    <2>2. CASE i \in 1..(k - 1) /\ j \in k..(L - 1)
      <3>1. i \in 1..L /\ j + 1 \in 1..L /\ s[i] = s[j + 1]
        BY <1>1, <1>2, <2>2
      <3>2. i = j + 1
        BY <1>4, <3>1
      <3> QED
        BY <1>1, <2>2, <3>2
    <2>3. CASE i \in k..(L - 1) /\ j \in 1..(k - 1)
      <3>1. j \in 1..L /\ i + 1 \in 1..L /\ s[j] = s[i + 1]
        BY <1>1, <1>2, <2>3
      <3>2. j = i + 1
        BY <1>4, <3>1
      <3> QED
        BY <1>1, <2>3, <3>2
    <2>4. CASE i \in k..(L - 1) /\ j \in k..(L - 1)
      <3>1. i + 1 \in 1..L /\ j + 1 \in 1..L /\ s[i + 1] = s[j + 1]
        BY <1>1, <1>2, <2>4
      <3>2. i + 1 = j + 1
        BY <1>4, <3>1
      <3> QED
        BY <3>2
    <2> QED
      BY <1>8, <2>1, <2>2, <2>3, <2>4
  <1>10. /\ \A i \in 1..(k - 1) : Nth(u, i) = s[i]
         /\ \A i \in k..(L - 1) : Nth(u, i) = s[i + 1]
         /\ Nth(u, 0) = NULL /\ Nth(u, L) = NULL
    <2>1. \A i \in 1..(k - 1) : i \in 1..Len(u)
      BY <1>1, <1>2
    <2>2. \A i \in k..(L - 1) : i \in 1..Len(u)
      BY <1>1, <1>2
    <2>3. 0 \notin 1..Len(u) /\ L \notin 1..Len(u)
      BY <1>1, <1>2
    <2> QED
      BY <1>2, <2>1, <2>2, <2>3 DEF Nth
  <1>11. \A i \in 1..L : next[s[i]] = Nth(s, i + 1) /\ prev[s[i]] = Nth(s, i - 1)
    BY DEF IsList, L
  <1>12. Nth(u, k) = b /\ Nth(u, k - 1) = a
    <2>1. Nth(u, k) = b
      <3>1. CASE k = L
        BY <1>5, <1>10, <3>1
      <3>2. CASE k < L
        <4>1. k \in k..(L - 1)
          BY <1>1, <3>2
        <4> QED
          BY <1>5, <1>10, <3>2, <4>1
      <3> QED
        BY <1>1, <3>1, <3>2
    <2>2. Nth(u, k - 1) = a
      <3>1. CASE k = 1
        BY <1>5, <1>10, <3>1
      <3>2. CASE k > 1
        <4>1. k - 1 \in 1..(k - 1)
          BY <1>1, <3>2
        <4> QED
          BY <1>5, <1>10, <3>2, <4>1
      <3> QED
        BY <1>1, <3>1, <3>2
    <2> QED
      BY <2>1, <2>2
  <1>13. ASSUME NEW i \in 1..Len(u) PROVE n2[u[i]] = Nth(u, i + 1)
    <2>1. CASE i = k - 1
      <3>1. k > 1 /\ i \in 1..(k - 1) /\ i + 1 = k
        BY <1>1, <1>2, <2>1
      <3>2. u[i] = a
        BY <1>2, <1>5, <2>1, <3>1
      <3> QED
        BY <1>6, <1>12, <3>1, <3>2
    <2>2. CASE i < k - 1
      <3>1. i \in 1..(k - 1) /\ i + 1 \in 1..(k - 1) /\ i \in 1..L /\ i + 1 \in 1..L
        BY <1>1, <1>2, <2>2
      <3>2. s[i] # a
        BY <1>1, <1>4, <1>5, <2>2, <3>1
      <3>3. next[s[i]] = s[i + 1]
        BY <1>11, <3>1 DEF Nth, L
      <3> QED
        BY <1>2, <1>4, <1>6, <1>10, <3>1, <3>2, <3>3
    <2>3. CASE i >= k
      <3>1. i \in k..(L - 1) /\ i + 1 \in 1..L
        BY <1>1, <1>2, <2>3
      <3>2. s[i + 1] # a
        BY <1>1, <1>4, <1>5, <2>3, <3>1
      <3>3. next[s[i + 1]] = Nth(s, (i + 1) + 1)
        BY <1>11, <3>1
      <3>4. CASE i = L - 1
        <4>1. (i + 1) + 1 \notin 1..Len(s) /\ i + 1 = L
          BY <1>1, <3>4 DEF L
        <4> QED
          BY <1>2, <1>4, <1>6, <1>10, <3>1, <3>2, <3>3, <4>1 DEF Nth
      <3>5. CASE i < L - 1
        <4>1. (i + 1) + 1 \in 1..Len(s) /\ i + 1 \in k..(L - 1)
          BY <1>1, <3>1, <3>5 DEF L
        <4> QED
          BY <1>2, <1>4, <1>6, <1>10, <3>1, <3>2, <3>3, <4>1 DEF Nth
      <3> QED
        BY <1>1, <3>1, <3>4, <3>5
    <2> QED
      BY <1>1, <2>1, <2>2, <2>3
  <1>14. ASSUME NEW i \in 1..Len(u) PROVE p2[u[i]] = Nth(u, i - 1)
    <2>1. CASE i = k
      <3>1. k < L /\ i \in k..(L - 1)
        BY <1>1, <1>2, <2>1
      <3>2. u[i] = b
        BY <1>2, <1>5, <2>1, <3>1
      <3> QED
        BY <1>7, <1>12, <2>1, <3>1, <3>2
    <2>2. CASE i > k
      <3>1. i \in k..(L - 1) /\ i - 1 \in k..(L - 1) /\ i + 1 \in 1..L /\ i \in 1..Len(s)
        BY <1>1, <1>2, <2>2 DEF L
      <3>2. s[i + 1] # b
        BY <1>1, <1>4, <1>5, <2>2, <3>1
      <3>3. prev[s[i + 1]] = Nth(s, (i + 1) - 1) /\ (i + 1) - 1 = i /\ (i - 1) + 1 = i
        BY <1>11, <3>1
      <3>4. prev[s[i + 1]] = s[i]
        BY <3>1, <3>3 DEF Nth
      <3> QED
        BY <1>2, <1>4, <1>7, <1>10, <3>1, <3>2, <3>3, <3>4
    <2>3. CASE i < k
      <3>1. i \in 1..(k - 1) /\ i \in 1..L
        BY <1>1, <1>2, <2>3
      <3>2. s[i] # b
        BY <1>1, <1>4, <1>5, <2>3, <3>1
      <3>3. prev[s[i]] = Nth(s, i - 1)
        BY <1>11, <3>1
      <3>4. Nth(s, i - 1) = Nth(u, i - 1)
        <4>1. CASE i = 1
          BY <1>10, <4>1 DEF Nth
        <4>2. CASE i # 1
          <5>1. i - 1 \in 1..(k - 1) /\ i - 1 \in 1..Len(s)
            BY <1>1, <3>1, <4>2 DEF L
          <5> QED
            BY <1>10, <5>1 DEF Nth
        <4> QED
          BY <4>1, <4>2
      <3> QED
        BY <1>2, <1>4, <1>7, <3>1, <3>2, <3>3, <3>4
    <2> QED
      BY <1>1, <2>1, <2>2, <2>3
  <1>15. first = s[1] /\ (first = e <=> k = 1) /\ (a = NULL <=> k = 1) /\ (b = NULL <=> k = L)
    BY <1>1, <1>4, <1>5 DEF Nth, L
  <1>16. (IF first = e THEN b ELSE first) = Nth(u, 1)
    <2>1. CASE k = 1
      BY <1>12, <1>15, <2>1
    <2>2. CASE k # 1
      <3>1. 1 \in 1..(k - 1)
        BY <1>1, <2>2
      <3> QED
        BY <1>10, <1>15, <2>2, <3>1
    <2> QED
      BY <2>1, <2>2
  <1>17. IsList(n2, p2, IF first = e THEN b ELSE first, u)
    BY <1>2, <1>9, <1>13, <1>14, <1>16 DEF IsList
  <1>18. ToSet(u) = ToSet(s) \ {e}
    <2>1. ToSet(u) = {u[i] : i \in 1..Len(u)} /\ ToSet(s) = {s[i] : i \in 1..L}
      BY <1>1, <1>2, InSet DEF L
    <2>2. ASSUME NEW x \in ToSet(u) PROVE x \in ToSet(s) /\ x # e
      <3>1. PICK i \in 1..Len(u) : x = u[i]
        BY <2>1
      <3>2. CASE i \in 1..(k - 1) /\ i \in 1..L /\ u[i] = s[i]
        <4>1. s[i] # s[k]
          BY <1>1, <1>4, <3>2
        <4> QED
          BY <2>1, <3>1, <3>2, <4>1
      <3>3. CASE i \in k..(L - 1) /\ i + 1 \in 1..L /\ u[i] = s[i + 1]
        <4>1. s[i + 1] # s[k]
          BY <1>1, <1>4, <3>3
        <4> QED
          BY <2>1, <3>1, <3>3, <4>1
      <3> QED
        BY <1>8, <3>2, <3>3
    <2>3. ASSUME NEW x \in ToSet(s), x # e PROVE x \in ToSet(u)
      <3>1. PICK i \in 1..L : x = s[i]
        BY <2>1
      <3>2. i # k
        BY <2>3, <3>1
      <3>3. CASE i < k
        <4>1. i \in 1..(k - 1) /\ i \in 1..Len(u)
          BY <1>1, <1>2, <3>3
        <4> QED
          BY <1>2, <2>1, <3>1, <4>1
      <3>4. CASE i > k
        <4>1. i - 1 \in k..(L - 1) /\ i - 1 \in 1..Len(u) /\ (i - 1) + 1 = i
          BY <1>1, <1>2, <3>4
        <4>2. u[i - 1] = s[i]
          BY <1>2, <4>1
        <4> QED
          BY <2>1, <3>1, <4>1, <4>2
      <3> QED
        BY <1>1, <3>2, <3>3, <3>4
    <2> QED
      BY <2>2, <2>3
  <1>19. /\ Nth(s, L) = s[L] /\ (s[L] = e <=> k = L)
    BY <1>1, <1>4 DEF Nth, L
  <1>20. Nth(u, L - 1) = IF s[L] = e THEN a ELSE s[L]
    <2>1. CASE k = L
      BY <1>12, <1>19, <2>1
    <2>2. CASE k # L
      <3>1. L - 1 \in k..(L - 1) /\ (L - 1) + 1 = L
        BY <1>1, <2>2
      <3> QED
        BY <1>10, <1>19, <2>2, <3>1
    <2> QED
      BY <2>1, <2>2
  <1> QED
    BY <1>15, <1>17, <1>18, <1>19, <1>20 DEF u, a, b, n2, p2, L

--------------------------------------------------------------------------------
(* Tables. *)

Bucket == [hh_head : Ptr, count : Int, expand_mult : Int]
AnyBuckets == UNION {[0..(n - 1) -> Bucket] : n \in Nat}
UT_hash_table ==
    [head : Ptr, tail : Ptr, num_items : Int, num_buckets : Nat, buckets : AnyBuckets,
     ideal_chain_maxlen : Int, nonideal_items : Int, ineff_expands : Int, noexpand : Int,
     prev : Ptrs, next : Ptrs, hh_prev : Ptrs, hh_next : Ptrs]
Table ==
    {t \in UT_hash_table :
       t.num_buckets > 0 /\ t.buckets \in [0..(t.num_buckets - 1) -> Bucket]}
Buckets(t) == 0..(t.num_buckets - 1)

SameList(t, u) ==
    /\ u.head = t.head /\ u.tail = t.tail /\ u.num_items = t.num_items
    /\ u.next = t.next /\ u.prev = t.prev
SameSize(t, u) ==
    /\ u.num_buckets = t.num_buckets /\ u.ideal_chain_maxlen = t.ideal_chain_maxlen
    /\ u.noexpand = t.noexpand
SameChains(t, u) ==
    u.buckets = t.buckets /\ u.hh_next = t.hh_next /\ u.hh_prev = t.hh_prev

LEMMA TableTypes ==
    ASSUME NEW t \in Table
    PROVE  /\ t.head \in Ptr /\ t.tail \in Ptr /\ t.num_items \in Int
           /\ t.num_buckets \in Nat /\ t.num_buckets > 0
           /\ t.buckets \in [Buckets(t) -> Bucket]
           /\ t.ideal_chain_maxlen \in Int /\ t.nonideal_items \in Int
           /\ t.ineff_expands \in Int /\ t.noexpand \in Int
           /\ t.prev \in Ptrs /\ t.next \in Ptrs /\ t.hh_prev \in Ptrs /\ t.hh_next \in Ptrs
           /\ t \in UT_hash_table
           /\ \A b \in Buckets(t) :
                 /\ t.buckets[b] \in Bucket /\ t.buckets[b].hh_head \in Ptr
                 /\ t.buckets[b].count \in Int /\ t.buckets[b].expand_mult \in Int
  <1>1. t \in UT_hash_table /\ t.num_buckets > 0 /\ t.buckets \in [Buckets(t) -> Bucket]
    BY DEF Table, Buckets
  <1>2. /\ t.head \in Ptr /\ t.tail \in Ptr /\ t.num_items \in Int
        /\ t.num_buckets \in Nat
        /\ t.ideal_chain_maxlen \in Int /\ t.nonideal_items \in Int
        /\ t.ineff_expands \in Int /\ t.noexpand \in Int
        /\ t.prev \in Ptrs /\ t.next \in Ptrs /\ t.hh_prev \in Ptrs /\ t.hh_next \in Ptrs
    BY <1>1 DEF UT_hash_table
  <1>3. ASSUME NEW b \in Buckets(t)
        PROVE  /\ t.buckets[b] \in Bucket /\ t.buckets[b].hh_head \in Ptr
               /\ t.buckets[b].count \in Int /\ t.buckets[b].expand_mult \in Int
    <2>1. t.buckets[b] \in Bucket
      BY <1>1
    <2> QED
      BY <2>1 DEF Bucket
  <1> QED
    BY <1>1, <1>2, <1>3

LEMMA IsTable ==
    ASSUME NEW t,
           t \in [head : Ptr, tail : Ptr, num_items : Int, num_buckets : Nat,
                  buckets : {t.buckets},
                  ideal_chain_maxlen : Int, nonideal_items : Int, ineff_expands : Int,
                  noexpand : Int, prev : Ptrs, next : Ptrs, hh_prev : Ptrs, hh_next : Ptrs],
           t.num_buckets > 0, t.buckets \in [0..(t.num_buckets - 1) -> Bucket]
    PROVE  t \in Table
  <1>1. t.num_buckets \in Nat
    OBVIOUS
  <1>2. t.buckets \in AnyBuckets
    BY <1>1 DEF AnyBuckets
  <1>3. t \in UT_hash_table
    BY <1>2 DEF UT_hash_table
  <1> QED
    BY <1>3 DEF Table

LEMMA WriteType ==
    ASSUME NEW f \in Ptrs, NEW p \in Ptr, NEW v \in Ptr
    PROVE  Write(f, p, v) \in Ptrs
  BY DEF Write, Ptrs, Ptr

LEMMA BktIn ==
    ASSUME NEW t \in Table, NEW k \in Key
    PROVE  Bkt(t, k) \in Buckets(t)
  <1>1. Hash[k] \in Nat
    BY TableAssumption
  <1>2. t.num_buckets \in Nat /\ t.num_buckets > 0
    BY TableTypes
  <1> DEFINE h == Hash[k]
             n == t.num_buckets
  <1> HIDE DEF h, n
  <1>3. h % n \in 0..(n - 1)
    BY <1>1, <1>2 DEF h, n
  <1> QED
    BY <1>3 DEF Bkt, HASH_TO_BKT, Buckets, h, n

LEMMA PushFacts ==
    ASSUME NEW t \in Table, NEW b \in Buckets(t), NEW e \in Elem, NEW u, u = Push(t, b, e),
           NEW first, first = t.buckets[b].hh_head
    PROVE  /\ u \in Table /\ SameList(t, u) /\ SameSize(t, u)
           /\ u.nonideal_items = t.nonideal_items /\ u.ineff_expands = t.ineff_expands
           /\ u.hh_next = [t.hh_next EXCEPT ![e] = first]
           /\ u.hh_prev = Write([t.hh_prev EXCEPT ![e] = NULL], first, e)
           /\ u.buckets = [t.buckets EXCEPT ![b] =
                             [hh_head |-> e, count |-> t.buckets[b].count + 1,
                              expand_mult |-> t.buckets[b].expand_mult]]
  <1> DEFINE n2 == [t.hh_next EXCEPT ![e] = first]
             p1 == [t.hh_prev EXCEPT ![e] = NULL]
             p2 == Write(p1, first, e)
             bkt == [hh_head |-> e, count |-> t.buckets[b].count + 1,
                     expand_mult |-> t.buckets[b].expand_mult]
             b2 == [t.buckets EXCEPT ![b] = bkt]
  <1>1. /\ t \in UT_hash_table /\ t.hh_next \in Ptrs /\ t.hh_prev \in Ptrs
        /\ t.num_buckets \in Nat /\ t.num_buckets > 0
        /\ t.buckets \in [Buckets(t) -> Bucket] /\ t.buckets[b] \in Bucket
        /\ first \in Ptr /\ t.buckets[b].count \in Int /\ t.buckets[b].expand_mult \in Int
    BY TableTypes
  <1>2. n2 \in Ptrs /\ p1 \in Ptrs /\ e \in Ptr
    BY <1>1 DEF Ptrs, Ptr
  <1>3. p2 \in Ptrs
    BY <1>1, <1>2, WriteType
  <1>4. bkt \in Bucket
    BY <1>1, <1>2 DEF Bucket
  <1>5. b2 \in [Buckets(t) -> Bucket]
    BY <1>1, <1>4
  <1>6. u = [t EXCEPT !.hh_next = n2, !.hh_prev = p2, !.buckets = b2]
    <2>1. u = [t EXCEPT !.hh_next[e] = first,
                        !.hh_prev = Write([@ EXCEPT ![e] = NULL], first, e),
                        !.buckets[b].hh_head = e,
                        !.buckets[b].count = @ + 1]
      BY DEF Push
    <2>2. [[t.buckets EXCEPT ![b].hh_head = e] EXCEPT ![b].count = @ + 1] = b2
      BY <1>1 DEF Bucket
    <2> QED
      BY <1>1, <2>1, <2>2 DEF UT_hash_table
  <1> HIDE DEF n2, p2, b2
  <1>7. /\ u.hh_next = n2 /\ u.hh_prev = p2 /\ u.buckets = b2 /\ u.num_buckets = t.num_buckets
        /\ SameList(t, u) /\ SameSize(t, u)
        /\ u.nonideal_items = t.nonideal_items /\ u.ineff_expands = t.ineff_expands
    BY <1>1, <1>6 DEF UT_hash_table, SameList, SameSize
  <1>8. u \in [head : Ptr, tail : Ptr, num_items : Int, num_buckets : Nat,
               buckets : {u.buckets},
               ideal_chain_maxlen : Int, nonideal_items : Int, ineff_expands : Int,
               noexpand : Int, prev : Ptrs, next : Ptrs, hh_prev : Ptrs, hh_next : Ptrs]
    BY <1>1, <1>2, <1>3, <1>6, <1>7 DEF UT_hash_table
  <1>9. u \in Table
    BY <1>1, <1>5, <1>7, <1>8, IsTable DEF Buckets
  <1> QED
    BY <1>7, <1>9 DEF n2, p2, b2

(* The chains of t hold the elements E, each in its bucket. *)
InBucket(t, b, E) == {e \in E : Bkt(t, KeyOf[e]) = b}
ChainIs(t, b, E, c) ==
    /\ IsList(t.hh_next, t.hh_prev, t.buckets[b].hh_head, c)
    /\ t.buckets[b].count = Len(c)
    /\ ToSet(c) = InBucket(t, b, E)
ChainsOK(t, E) == \A b \in Buckets(t) : \E c : ChainIs(t, b, E, c)

(* The elements s, in application order. *)
ListOK(t, s) ==
    /\ IsList(t.next, t.prev, t.head, s)
    /\ t.tail = Nth(s, Len(s)) /\ t.num_items = Len(s)

LEMMA SameBkt ==
    ASSUME NEW t, NEW u, u.num_buckets = t.num_buckets
    PROVE  /\ Buckets(u) = Buckets(t) /\ \A k : Bkt(u, k) = Bkt(t, k)
           /\ \A b, E : InBucket(u, b, E) = InBucket(t, b, E)
  BY DEF Buckets, Bkt, InBucket

LEMMA ChainsSame ==
    ASSUME NEW t, NEW u, NEW E, ChainsOK(t, E), SameChains(t, u), u.num_buckets = t.num_buckets
    PROVE  ChainsOK(u, E)
  BY SameBkt DEF ChainsOK, ChainIs, SameChains

LEMMA PushChains ==
    ASSUME NEW t \in Table, NEW E \in SUBSET Elem, ChainsOK(t, E),
           NEW e \in Elem, e \notin E, NEW b, b = Bkt(t, KeyOf[e]), NEW u, u = Push(t, b, e)
    PROVE  /\ u \in Table /\ SameList(t, u) /\ SameSize(t, u)
           /\ ChainsOK(u, E \cup {e})
  <1> DEFINE first == t.buckets[b].hh_head
             F == E \cup {e}
  <1>1. b \in Buckets(t)
    BY BktIn DEF Key
  <1>2. /\ t.hh_next \in Ptrs /\ t.hh_prev \in Ptrs /\ t.buckets \in [Buckets(t) -> Bucket]
    BY TableTypes
  <1>3. /\ u \in Table /\ SameList(t, u) /\ SameSize(t, u)
        /\ u.hh_next = [t.hh_next EXCEPT ![e] = first]
        /\ u.hh_prev = Write([t.hh_prev EXCEPT ![e] = NULL], first, e)
        /\ u.buckets = [t.buckets EXCEPT ![b] =
                          [hh_head |-> e, count |-> t.buckets[b].count + 1,
                           expand_mult |-> t.buckets[b].expand_mult]]
    BY <1>1, PushFacts
  <1>4. /\ u.buckets[b].hh_head = e /\ u.buckets[b].count = t.buckets[b].count + 1
        /\ \A x \in Buckets(t) : x # b => u.buckets[x] = t.buckets[x]
    BY <1>1, <1>2, <1>3
  <1>5. /\ Buckets(u) = Buckets(t)
        /\ \A x, D : InBucket(u, x, D) = InBucket(t, x, D)
    BY <1>3, SameBkt DEF SameSize
  <1>6. /\ InBucket(t, b, F) = InBucket(t, b, E) \cup {e}
        /\ \A x \in Buckets(t) : x # b => InBucket(t, x, F) = InBucket(t, x, E)
        /\ e \notin InBucket(t, b, E)
    BY DEF InBucket
  <1>7. PICK c : ChainIs(t, b, E, c)
    BY <1>1 DEF ChainsOK
  <1>8. ChainIs(u, b, F, <<e>> \o c)
    <2>1. IsList(t.hh_next, t.hh_prev, first, c) /\ e \notin ToSet(c)
      BY <1>6, <1>7 DEF ChainIs
    <2>2. /\ IsList(u.hh_next, u.hh_prev, e, <<e>> \o c)
          /\ Len(<<e>> \o c) = Len(c) + 1 /\ ToSet(<<e>> \o c) = ToSet(c) \cup {e}
      <3> HIDE DEF first
      <3> DEFINE n == t.hh_next
                 p == t.hh_prev
      <3>1. n \in Ptrs /\ p \in Ptrs /\ IsList(n, p, first, c)
        BY <1>2, <2>1
      <3> HIDE DEF n, p
      <3>2. /\ IsList([n EXCEPT ![e] = first], Write([p EXCEPT ![e] = NULL], first, e), e,
                      <<e>> \o c)
            /\ Len(<<e>> \o c) = Len(c) + 1 /\ ToSet(<<e>> \o c) = ToSet(c) \cup {e}
        BY <2>1, <3>1, ListPush
      <3> QED
        BY <1>3, <3>2 DEF n, p
    <2> QED
      BY <1>4, <1>5, <1>6, <1>7, <2>2 DEF ChainIs
  <1>9. ASSUME NEW x \in Buckets(t), x # b PROVE \E d : ChainIs(u, x, F, d)
    <2>1. PICK d : ChainIs(t, x, E, d)
      BY DEF ChainsOK
    <2>2. ToSet(d) \subseteq Elem /\ \A y \in ToSet(d) : y # e /\ y # first
      <3>1. ToSet(d) = InBucket(t, x, E) /\ ToSet(c) = InBucket(t, b, E)
        BY <1>7, <2>1 DEF ChainIs
      <3>2. first = NULL \/ first \in ToSet(c)
        <4>1. c \in Seq(Elem) /\ first = Nth(c, 1)
          BY <1>7 DEF ChainIs, IsList
        <4> QED
          BY <4>1, InSet DEF Nth
      <3>3. \A y \in ToSet(d) : y \in Elem /\ y # NULL /\ y # e /\ Bkt(t, KeyOf[y]) = x
        BY <3>1, Caps DEF InBucket
      <3>4. \A y \in ToSet(c) : Bkt(t, KeyOf[y]) = b
        BY <3>1 DEF InBucket
      <3> QED
        BY <1>9, <3>2, <3>3, <3>4
    <2>3. \A y \in ToSet(d) : u.hh_next[y] = t.hh_next[y] /\ u.hh_prev[y] = t.hh_prev[y]
      <3> HIDE DEF first
      <3> QED
        BY <1>2, <1>3, <2>2 DEF Write, Ptrs
    <2>4. IsList(u.hh_next, u.hh_prev, t.buckets[x].hh_head, d)
      BY <2>1, <2>3, ListFrame DEF ChainIs
    <2> QED
      BY <1>4, <1>5, <1>6, <1>9, <2>1, <2>4 DEF ChainIs
  <1> QED
    BY <1>3, <1>5, <1>8, <1>9 DEF ChainsOK

--------------------------------------------------------------------------------
(* The doubling of the buckets. *)

(* The sum of f[0] to f[n - 1] is x. *)
Sums(g, f, n) == /\ g \in [0..n -> Int] /\ g[0] = 0
                 /\ \A i \in 1..n : g[i] = g[i - 1] + f[i - 1]
Total(f, n, x) == \E g : Sums(g, f, n) /\ g[n] = x

LEMMA TotalOf ==
    ASSUME NEW n \in Nat, NEW f, \A i \in 0..(n - 1) : f[i] \in Int
    PROVE  \E x \in Int : Total(f, n, x)
  <1> DEFINE step == [y \in (1..n) \X Int |-> y[2] + f[y[1] - 1]]
  <1>1. step \in [(1..n) \X Int -> Int]
    <2>1. \A y \in (1..n) \X Int : y[1] - 1 \in 0..(n - 1) /\ y[2] \in Int
      OBVIOUS
    <2>2. \A y \in (1..n) \X Int : y[2] + f[y[1] - 1] \in Int
      BY <2>1
    <2> QED
      BY <2>2
  <1>2. \A i \in 1..n, x \in Int : step[<<i, x>>] = x + f[i - 1]
    OBVIOUS
  <1> HIDE DEF step
  <1>3. PICK g \in [0..n -> Int] : Runs(g, n, 0, step)
    <2>1. 0 \in Int
      OBVIOUS
    <2> QED
      BY <1>1, <2>1, Recursion
  <1>4. \A i \in 1..n : g[i] = g[i - 1] + f[i - 1]
    <2> SUFFICES ASSUME NEW i \in 1..n PROVE g[i] = g[i - 1] + f[i - 1]
      OBVIOUS
    <2>1. i - 1 \in 0..n
      OBVIOUS
    <2>2. g[i - 1] \in Int
      BY <2>1
    <2> QED
      BY <1>2, <1>3, <2>2 DEF Runs
  <1>5. Sums(g, f, n) /\ g[n] \in Int
    BY <1>3, <1>4 DEF Sums, Runs
  <1> QED
    BY <1>5 DEF Total

LEMMA TotalUpdate ==
    ASSUME NEW n \in Nat, NEW f, NEW x, Total(f, n, x), NEW b \in 0..(n - 1), NEW d \in Int,
           NEW f2, \A i \in 0..(n - 1) : f[i] \in Int, f2[b] = f[b] + d,
           \A i \in 0..(n - 1) : i # b => f2[i] = f[i]
    PROVE  Total(f2, n, x + d)
  <1>1. PICK g : Sums(g, f, n) /\ g[n] = x
    BY DEF Total
  <1> DEFINE h == [i \in 0..n |-> IF i <= b THEN g[i] ELSE g[i] + d]
  <1>2. /\ \A i \in 0..n : g[i] \in Int
        /\ g[0] = 0 /\ \A i \in 1..n : g[i] = g[i - 1] + f[i - 1]
    BY <1>1 DEF Sums
  <1>3. h \in [0..n -> Int] /\ h[0] = 0 /\ h[n] = x + d
    BY <1>1, <1>2
  <1>4. ASSUME NEW i \in 1..n PROVE h[i] = h[i - 1] + f2[i - 1]
    <2>1. i - 1 \in 0..(n - 1) /\ i - 1 \in 0..n /\ i \in 0..n
      OBVIOUS
    <2>2. g[i] = g[i - 1] + f[i - 1] /\ g[i - 1] \in Int /\ f[i - 1] \in Int
      BY <1>2, <2>1
    <2>3. h[i] = (IF i <= b THEN g[i] ELSE g[i] + d)
          /\ h[i - 1] = (IF i - 1 <= b THEN g[i - 1] ELSE g[i - 1] + d)
      BY <2>1
    <2> HIDE DEF h
    <2>4. CASE i - 1 = b
      BY <2>1, <2>2, <2>3, <2>4
    <2>5. CASE i - 1 # b
      <3>1. f2[i - 1] = f[i - 1]
        BY <2>1, <2>5
      <3> QED
        BY <2>1, <2>2, <2>3, <2>5, <3>1
    <2> QED
      BY <2>4, <2>5
  <1> HIDE DEF h
  <1>5. Sums(h, f2, n)
    BY <1>3, <1>4 DEF Sums
  <1> QED
    BY <1>3, <1>5 DEF Total

Counts(t) == [b \in Buckets(t) |-> t.buckets[b].count]

(* A table that is being filled again: the elements E, x in number, have    *)
(* been moved, and the long chains have their multipliers.                  *)
MultOK(t) ==
    \A b \in Buckets(t) :
       t.buckets[b].expand_mult =
          IF t.buckets[b].count > t.ideal_chain_maxlen
          THEN t.buckets[b].count \div t.ideal_chain_maxlen ELSE 0
Growing == {t \in Table : t.ideal_chain_maxlen > 0}
Moved(t, E, x) ==
    /\ t \in Growing /\ E \subseteq Elem
    /\ ChainsOK(t, E) /\ MultOK(t)
    /\ x \in Int /\ Total(Counts(t), t.num_buckets, x)

(* Redistribute is Push, with a new multiplier where the chain is too long. *)
LEMMA RedistributeFacts ==
    ASSUME NEW t \in Growing, NEW e \in Elem, NEW b, b = Bkt(t, KeyOf[e]),
           NEW p, p = Push(t, b, e), NEW u, u = Redistribute(t, e)
    PROVE  /\ u \in Growing /\ SameList(t, u) /\ SameSize(t, u) /\ b \in Buckets(t)
           /\ u.hh_next = p.hh_next /\ u.hh_prev = p.hh_prev
           /\ u.buckets = [p.buckets EXCEPT ![b] =
                 [hh_head |-> e, count |-> t.buckets[b].count + 1,
                  expand_mult |-> IF t.buckets[b].count + 1 > t.ideal_chain_maxlen
                                  THEN (t.buckets[b].count + 1) \div t.ideal_chain_maxlen
                                  ELSE t.buckets[b].expand_mult]]
  <1> DEFINE cnt == t.buckets[b].count + 1
             ideal == t.ideal_chain_maxlen
  <1>1. t \in Table /\ ideal \in Int /\ ideal > 0 /\ b \in Buckets(t)
    <2>1. t \in Table /\ ideal > 0
      BY DEF Growing
    <2> QED
      BY <2>1, TableTypes, BktIn DEF Key
  <1>2. /\ t.buckets \in [Buckets(t) -> Bucket]
        /\ t.buckets[b].count \in Int /\ t.buckets[b].expand_mult \in Int
    BY <1>1, TableTypes
  <1>3. /\ p \in Table /\ SameList(t, p) /\ SameSize(t, p)
        /\ p.buckets = [t.buckets EXCEPT ![b] =
                           [hh_head |-> e, count |-> cnt,
                            expand_mult |-> t.buckets[b].expand_mult]]
    <2> HIDE DEF ideal
    <2>1. t \in Table /\ b \in Buckets(t)
      BY <1>1
    <2> DEFINE first == t.buckets[b].hh_head
    <2>2. /\ p \in Table /\ SameList(t, p) /\ SameSize(t, p)
          /\ p.hh_next = [t.hh_next EXCEPT ![e] = first]
          /\ p.hh_prev = Write([t.hh_prev EXCEPT ![e] = NULL], first, e)
          /\ p.buckets = [t.buckets EXCEPT ![b] =
                             [hh_head |-> e, count |-> t.buckets[b].count + 1,
                              expand_mult |-> t.buckets[b].expand_mult]]
      BY <2>1, PushFacts
    <2> QED
      BY <2>2
  <1>4. p.buckets[b] = [hh_head |-> e, count |-> cnt, expand_mult |-> t.buckets[b].expand_mult]
    BY <1>1, <1>2, <1>3
  <1>5. /\ p \in UT_hash_table /\ p.num_buckets = t.num_buckets /\ Buckets(p) = Buckets(t)
        /\ p.buckets \in [Buckets(t) -> Bucket] /\ p.num_buckets > 0
        /\ p.ideal_chain_maxlen = ideal /\ p.nonideal_items \in Int
    BY <1>3, TableTypes DEF SameSize, Buckets
  <1>6. CASE ~(cnt > ideal)
    <2>1. u = p
      BY <1>4, <1>6 DEF Redistribute
    <2>2. p \in Growing
      BY <1>1, <1>3, <1>5 DEF Growing
    <2>3. p.buckets = [p.buckets EXCEPT ![b] =
                         [hh_head |-> e, count |-> cnt, expand_mult |-> t.buckets[b].expand_mult]]
      BY <1>1, <1>4, <1>5
    <2> QED
      BY <1>1, <1>3, <1>6, <2>1, <2>2, <2>3
  <1>7. CASE cnt > ideal
    <2> DEFINE m == cnt \div ideal
               bkt == [hh_head |-> e, count |-> cnt, expand_mult |-> m]
               b2 == [p.buckets EXCEPT ![b] = bkt]
               ni == p.nonideal_items + 1
    <2>1. m \in Int
      <3> HIDE DEF cnt, ideal
      <3>1. cnt \in Int
        BY <1>2 DEF cnt
      <3> QED
        BY <1>1, <3>1
    <2> HIDE DEF m
    <2>2. bkt \in Bucket
      BY <1>2, <2>1 DEF Bucket, Ptr
    <2>3. b2 \in [Buckets(t) -> Bucket]
      BY <1>5, <2>2
    <2>4. u = [p EXCEPT !.nonideal_items = ni, !.buckets = b2] /\ ni \in Int
      <3>1. p.buckets[b].count = cnt
        BY <1>4
      <3>2. u = [p EXCEPT !.nonideal_items = @ + 1, !.buckets[b].expand_mult = m]
        BY <1>7, <3>1 DEF Redistribute, m
      <3>3. [p.buckets EXCEPT ![b].expand_mult = m] = b2
        BY <1>1, <1>4, <1>5
      <3>4. [p EXCEPT !.nonideal_items = @ + 1, !.buckets[b].expand_mult = m]
              = [p EXCEPT !.nonideal_items = ni, !.buckets = [p.buckets EXCEPT ![b].expand_mult = m]]
        BY <1>5 DEF UT_hash_table
      <3>5. ni \in Int
        BY <1>5
      <3> HIDE DEF ni, b2
      <3> QED
        BY <3>2, <3>3, <3>4, <3>5
    <2> HIDE DEF b2, ni
    <2>5. /\ u.buckets = b2 /\ u.num_buckets = p.num_buckets
          /\ u.ideal_chain_maxlen = p.ideal_chain_maxlen
          /\ u.hh_next = p.hh_next /\ u.hh_prev = p.hh_prev
          /\ SameList(p, u) /\ SameSize(p, u)
      BY <1>5, <2>4 DEF UT_hash_table, SameList, SameSize
    <2>6. u \in [head : Ptr, tail : Ptr, num_items : Int, num_buckets : Nat,
                 buckets : {u.buckets},
                 ideal_chain_maxlen : Int, nonideal_items : Int, ineff_expands : Int,
                 noexpand : Int, prev : Ptrs, next : Ptrs, hh_prev : Ptrs, hh_next : Ptrs]
      BY <1>5, <2>4, <2>5 DEF UT_hash_table
    <2>7. u \in Table
      BY <1>5, <2>3, <2>5, <2>6, IsTable DEF Buckets
    <2>8. u \in Growing /\ SameList(t, u) /\ SameSize(t, u)
      BY <1>1, <1>3, <1>5, <2>5, <2>7 DEF Growing, SameList, SameSize
    <2> QED
      BY <1>1, <1>7, <2>5, <2>8 DEF b2, m
  <1> QED
    BY <1>6, <1>7

LEMMA ChainsHeads ==
    ASSUME NEW t, NEW u, NEW E, ChainsOK(t, E), u.num_buckets = t.num_buckets,
           u.hh_next = t.hh_next, u.hh_prev = t.hh_prev,
           \A b \in Buckets(t) : /\ u.buckets[b].hh_head = t.buckets[b].hh_head
                                 /\ u.buckets[b].count = t.buckets[b].count
    PROVE  ChainsOK(u, E)
  BY SameBkt DEF ChainsOK, ChainIs

LEMMA RedistributeMoved ==
    ASSUME NEW t, NEW E, NEW x, Moved(t, E, x), NEW e \in Elem, e \notin E,
           NEW u, u = Redistribute(t, e)
    PROVE  Moved(u, E \cup {e}, x + 1) /\ SameList(t, u) /\ SameSize(t, u)
  <1> DEFINE b == Bkt(t, KeyOf[e])
             p == Push(t, b, e)
             n == t.num_buckets
             ideal == t.ideal_chain_maxlen
             cnt == t.buckets[b].count + 1
             bkt == [hh_head |-> e, count |-> cnt,
                     expand_mult |-> IF cnt > ideal THEN cnt \div ideal
                                     ELSE t.buckets[b].expand_mult]
  <1>1. /\ t \in Growing /\ t \in Table /\ E \in SUBSET Elem /\ ChainsOK(t, E) /\ MultOK(t)
        /\ x \in Int /\ Total(Counts(t), n, x)
    BY DEF Moved, Growing
  <1>2. /\ u \in Growing /\ SameList(t, u) /\ SameSize(t, u) /\ b \in Buckets(t)
        /\ u.hh_next = p.hh_next /\ u.hh_prev = p.hh_prev
        /\ u.buckets = [p.buckets EXCEPT ![b] = bkt]
    BY <1>1, RedistributeFacts
  <1>3. /\ p \in Table /\ SameSize(t, p) /\ ChainsOK(p, E \cup {e})
    BY <1>1, PushChains
  <1>4. p.buckets = [t.buckets EXCEPT ![b] =
                       [hh_head |-> e, count |-> t.buckets[b].count + 1,
                        expand_mult |-> t.buckets[b].expand_mult]]
    <2> DEFINE first == t.buckets[b].hh_head
    <2>1. b \in Buckets(t)
      BY <1>2
    <2>2. /\ p \in Table /\ SameList(t, p) /\ SameSize(t, p)
          /\ p.hh_next = [t.hh_next EXCEPT ![e] = first]
          /\ p.hh_prev = Write([t.hh_prev EXCEPT ![e] = NULL], first, e)
          /\ p.buckets = [t.buckets EXCEPT ![b] =
                             [hh_head |-> e, count |-> t.buckets[b].count + 1,
                              expand_mult |-> t.buckets[b].expand_mult]]
      <3> HIDE DEF b
      <3> QED
        BY <1>1, <2>1, PushFacts
    <2> QED
      BY <2>2
  <1>5. /\ t.buckets \in [Buckets(t) -> Bucket] /\ n \in Nat /\ n > 0
        /\ \A c \in Buckets(t) : t.buckets[c].count \in Int
        /\ ideal \in Int
    BY <1>1, TableTypes
  <1> HIDE DEF b, p
  <1>6. /\ u.buckets[b] = bkt /\ p.buckets[b].hh_head = e /\ p.buckets[b].count = cnt
        /\ \A c \in Buckets(t) : c # b => u.buckets[c] = t.buckets[c] /\ p.buckets[c] = t.buckets[c]
    BY <1>2, <1>4, <1>5
  <1>7. Buckets(u) = Buckets(t) /\ Buckets(p) = Buckets(t) /\ p.num_buckets = n
        /\ u.num_buckets = n /\ u.ideal_chain_maxlen = ideal
    BY <1>2, <1>3, SameBkt DEF SameSize
  <1>8. ChainsOK(u, E \cup {e})
    <2>1. ASSUME NEW c \in Buckets(p)
          PROVE  /\ u.buckets[c].hh_head = p.buckets[c].hh_head
                 /\ u.buckets[c].count = p.buckets[c].count
      <3>1. CASE c = b
        BY <1>6, <3>1
      <3>2. CASE c # b
        BY <1>6, <1>7, <3>2
      <3> QED
        BY <3>1, <3>2
    <2>2. /\ u.num_buckets = p.num_buckets /\ u.hh_next = p.hh_next /\ u.hh_prev = p.hh_prev
          /\ ChainsOK(p, E \cup {e})
      BY <1>2, <1>3, <1>7
    <2> QED
      BY <2>1, <2>2, ChainsHeads
  <1>9. MultOK(u)
    <2> SUFFICES ASSUME NEW c \in Buckets(t)
                 PROVE  u.buckets[c].expand_mult = IF u.buckets[c].count > ideal
                                                   THEN u.buckets[c].count \div ideal ELSE 0
      BY <1>7 DEF MultOK
    <2>1. CASE c # b
      BY <1>1, <1>6, <2>1 DEF MultOK
    <2>2. CASE c = b
      <3>1. /\ u.buckets[b].count = cnt
            /\ u.buckets[b].expand_mult = IF cnt > ideal THEN cnt \div ideal
                                          ELSE t.buckets[b].expand_mult
        BY <1>6
      <3>2. ~(cnt > ideal) => t.buckets[b].expand_mult = 0
        <4>1. ~(cnt > ideal) => ~(t.buckets[b].count > ideal)
          BY <1>2, <1>5
        <4> QED
          BY <1>1, <1>2, <4>1 DEF MultOK
      <3> HIDE DEF cnt, ideal
      <3> QED
        BY <2>2, <3>1, <3>2
    <2> QED
      BY <2>1, <2>2
  <1>10. Total(Counts(u), n, x + 1)
    <2> DEFINE f == Counts(t)
               g == Counts(u)
    <2>1. \A c \in 0..(n - 1) : c \in Buckets(t) /\ c \in Buckets(u)
      BY <1>7 DEF Buckets
    <2>2. \A c \in 0..(n - 1) : f[c] = t.buckets[c].count /\ g[c] = u.buckets[c].count
      BY <2>1 DEF Counts
    <2>3. b \in 0..(n - 1) /\ \A c \in 0..(n - 1) : f[c] \in Int
      BY <1>2, <1>5, <2>1, <2>2 DEF Buckets
    <2>4. g[b] = f[b] + 1 /\ \A c \in 0..(n - 1) : c # b => g[c] = f[c]
      BY <1>6, <2>1, <2>2, <2>3
    <2> HIDE DEF f, g
    <2>5. Total(g, n, x + 1)
      BY <1>1, <1>5, <2>3, <2>4, TotalUpdate DEF f
    <2> QED
      BY <2>5 DEF g
  <1>11. x + 1 \in Int /\ E \cup {e} \subseteq Elem
    BY <1>1
  <1> QED
    BY <1>2, <1>7, <1>8, <1>9, <1>10, <1>11 DEF Moved

LEMMA RedistributeAllDef ==
    ASSUME NEW t \in Growing, NEW c \in Seq(Elem)
    PROVE  \E f \in [0..Len(c) -> Growing] :
              /\ f[0] = t /\ \A i \in 1..Len(c) : f[i] = Redistribute(f[i - 1], c[i])
              /\ RedistributeAll(t, c) = f[Len(c)]
  <1> DEFINE N == Len(c)
             after == CHOOSE f : f = [i \in 0..N |-> IF i = 0 THEN t
                                                     ELSE Redistribute(f[i - 1], c[i])]
             step == [x \in (1..N) \X Growing |-> Redistribute(x[2], c[x[1]])]
  <1>1. N \in Nat /\ \A i \in 1..N : c[i] \in Elem
    OBVIOUS
  <1>2. RedistributeAll(t, c) = after[N]
    BY DEF RedistributeAll
  <1> HIDE DEF N
  <1>3. \A u \in Growing, e \in Elem : Redistribute(u, e) \in Growing
    BY RedistributeFacts
  <1>4. step \in [(1..N) \X Growing -> Growing]
    BY <1>1, <1>3
  <1>5. \A i \in 1..N, u \in Growing : step[<<i, u>>] = Redistribute(u, c[i])
    OBVIOUS
  <1> HIDE DEF step
  <1>6. PICK f \in [0..N -> Growing] : Runs(f, N, t, step)
    BY <1>1, <1>4, Recursion
  <1>7. \A i \in 1..N : f[i] = Redistribute(f[i - 1], c[i])
    <2> SUFFICES ASSUME NEW i \in 1..N PROVE f[i] = Redistribute(f[i - 1], c[i])
      OBVIOUS
    <2>1. i - 1 \in 0..N
      BY <1>1
    <2>2. f[i - 1] \in Growing
      BY <2>1
    <2> QED
      BY <1>5, <1>6, <2>2 DEF Runs
  <1>8. f = [i \in 0..N |-> IF i = 0 THEN t ELSE Redistribute(f[i - 1], c[i])]
    <2>1. \A i \in 0..N : f[i] = IF i = 0 THEN t ELSE Redistribute(f[i - 1], c[i])
      BY <1>1, <1>6, <1>7 DEF Runs
    <2> QED
      BY <2>1
  <1>9. after = [i \in 0..N |-> IF i = 0 THEN t ELSE Redistribute(after[i - 1], c[i])]
    BY <1>8
  <1> HIDE DEF after
  <1>10. \A i \in 0..N : after[i] = IF i = 0 THEN t ELSE Redistribute(after[i - 1], c[i])
    BY <1>9
  <1> DEFINE S == {i \in 0..N : after[i] = f[i]}
  <1>11. 0 \in S
    <2>1. 0 \in 0..N
      BY <1>1
    <2> QED
      BY <1>6, <1>10, <2>1 DEF Runs
  <1>12. ASSUME NEW i \in 0..(N - 1), i \in S PROVE i + 1 \in S
    <2>1. i + 1 \in 0..N /\ i + 1 \in 1..N /\ i + 1 # 0 /\ (i + 1) - 1 = i
      BY <1>1
    <2> QED
      BY <1>7, <1>10, <1>12, <2>1
  <1>13. \A i \in 0..N : i \in S
    <2> HIDE DEF S
    <2> QED
      BY <1>1, <1>11, <1>12, InductionUpTo
  <1>14. after[N] = f[N]
    <2>1. N \in 0..N
      BY <1>1
    <2> QED
      BY <1>13, <2>1
  <1> QED
    BY <1>2, <1>6, <1>7, <1>14 DEF N, Runs

(* A whole chain is moved. *)
LEMMA RedistributeAllMoved ==
    ASSUME NEW t, NEW E, NEW x, Moved(t, E, x), NEW c \in Seq(Elem), OneToOne(c),
           ToSet(c) \cap E = {}, NEW u, u = RedistributeAll(t, c)
    PROVE  Moved(u, E \cup ToSet(c), x + Len(c)) /\ SameList(t, u) /\ SameSize(t, u)
  <1> DEFINE N == Len(c)
             D(i) == E \cup {c[j] : j \in 1..i}
  <1>1. N \in Nat /\ \A i \in 1..N : c[i] \in Elem /\ c[i] \in ToSet(c)
    BY InSet
  <1>2. t \in Growing /\ x \in Int
    BY DEF Moved
  <1>3. PICK f \in [0..N -> Growing] :
           /\ f[0] = t /\ \A i \in 1..N : f[i] = Redistribute(f[i - 1], c[i])
           /\ u = f[N]
    BY <1>2, RedistributeAllDef
  <1> HIDE DEF N
  <1> DEFINE S == {i \in 0..N : Moved(f[i], D(i), x + i) /\ SameList(t, f[i]) /\ SameSize(t, f[i])}
  <1>4. 0 \in S
    <2>1. D(0) = E /\ x + 0 = x /\ 0 \in 0..N
      BY <1>1, <1>2
    <2> HIDE DEF D
    <2> QED
      BY <1>3, <2>1 DEF SameList, SameSize
  <1>5. ASSUME NEW i \in 0..(N - 1), i \in S PROVE i + 1 \in S
    <2>1. i + 1 \in 1..N /\ (i + 1) - 1 = i /\ i + 1 \in 0..N /\ (x + i) + 1 = x + (i + 1)
      BY <1>1, <1>2
    <2>2. f[i + 1] = Redistribute(f[i], c[i + 1]) /\ c[i + 1] \in Elem
      BY <1>1, <1>3, <2>1
    <2>3. c[i + 1] \notin D(i)
      <3>1. c[i + 1] \notin E
        BY <1>1, <2>1
      <3>2. \A j \in 1..i : c[j] # c[i + 1]
        BY <1>1, <2>1 DEF OneToOne, N
      <3> QED
        BY <3>1, <3>2
    <2>4. D(i) \cup {c[i + 1]} = D(i + 1)
      <3>1. \A j : j \in 1..(i + 1) <=> j \in 1..i \/ j = i + 1
        BY <1>1
      <3> QED
        BY <3>1
    <2>5. Moved(f[i], D(i), x + i) /\ SameList(t, f[i]) /\ SameSize(t, f[i])
      BY <1>5
    <2> HIDE DEF D
    <2>6. /\ Moved(f[i + 1], D(i) \cup {c[i + 1]}, (x + i) + 1)
          /\ SameList(f[i], f[i + 1]) /\ SameSize(f[i], f[i + 1])
      BY <2>2, <2>3, <2>5, RedistributeMoved
    <2> QED
      BY <2>1, <2>4, <2>5, <2>6 DEF SameList, SameSize
  <1>6. \A i \in 0..N : i \in S
    <2> HIDE DEF S
    <2> QED
      BY <1>1, <1>4, <1>5, InductionUpTo
  <1>7. N \in 0..N
    BY <1>1
  <1>8. Moved(f[N], D(N), x + N) /\ SameList(t, f[N]) /\ SameSize(t, f[N])
    BY <1>6, <1>7
  <1>9. D(N) = E \cup ToSet(c)
    BY InSet DEF N
  <1> QED
    BY <1>3, <1>8, <1>9 DEF N

(* The table that takes the elements over. *)
Emptied(t) ==
    [t EXCEPT !.num_buckets = 2 * t.num_buckets, !.buckets = NoBuckets(2 * t.num_buckets),
              !.nonideal_items = 0,
              !.ideal_chain_maxlen = (t.num_items + 2 * t.num_buckets - 1) \div (2 * t.num_buckets)]

LEMMA EmptiedFacts ==
    ASSUME NEW t \in Table, t.num_items > 0
    PROVE  /\ Moved(Emptied(t), {}, 0) /\ SameList(t, Emptied(t))
           /\ Emptied(t).num_buckets = 2 * t.num_buckets
           /\ Emptied(t).ideal_chain_maxlen
                = (t.num_items + 2 * t.num_buckets - 1) \div (2 * t.num_buckets)
           /\ Emptied(t).noexpand = t.noexpand
  <1> DEFINE n == 2 * t.num_buckets
             N == t.num_items
             q == (N + n - 1) \div n
             bs == NoBuckets(n)
             u == Emptied(t)
             z == 0
  <1>1. t \in UT_hash_table /\ n \in Nat /\ n > 0 /\ N \in Int /\ N > 0
    BY TableTypes
  <1>2. q \in Int /\ q > 0
    <2> HIDE DEF n, N
    <2> QED
      BY <1>1
  <1>3. bs \in [0..(n - 1) -> Bucket] /\ \A b \in 0..(n - 1) : bs[b] = UT_hash_bucket
    BY DEF NoBuckets, UT_hash_bucket, Bucket, Ptr
  <1>4. u = [t EXCEPT !.num_buckets = n, !.buckets = bs, !.nonideal_items = z,
                      !.ideal_chain_maxlen = q] /\ z \in Int
    BY DEF Emptied
  <1> HIDE DEF n, N, q, bs, u, z
  <1>5. /\ u.num_buckets = n /\ u.buckets = bs /\ u.ideal_chain_maxlen = q
        /\ u.noexpand = t.noexpand /\ SameList(t, u)
    BY <1>1, <1>4 DEF UT_hash_table, SameList
  <1>6. u \in [head : Ptr, tail : Ptr, num_items : Int, num_buckets : Nat,
               buckets : {u.buckets},
               ideal_chain_maxlen : Int, nonideal_items : Int, ineff_expands : Int,
               noexpand : Int, prev : Ptrs, next : Ptrs, hh_prev : Ptrs, hh_next : Ptrs]
    BY <1>1, <1>2, <1>4, <1>5 DEF UT_hash_table
  <1>7. u \in Growing
    <2>1. u \in Table
      BY <1>1, <1>3, <1>5, <1>6, IsTable
    <2> QED
      BY <1>2, <1>5, <2>1 DEF Growing
  <1>8. Buckets(u) = 0..(n - 1)
    BY <1>5 DEF Buckets
  <1>9. ASSUME NEW b \in Buckets(u) PROVE ChainIs(u, b, {}, <<>>)
    <2>1. u.buckets[b].hh_head = NULL /\ u.buckets[b].count = 0
      BY <1>3, <1>5, <1>8 DEF UT_hash_bucket
    <2>2. InBucket(u, b, {}) = {}
      BY DEF InBucket
    <2>3. Len(<<>>) = 0
      OBVIOUS
    <2> QED
      BY <2>1, <2>2, <2>3, EmptyList DEF ChainIs
  <1>10. MultOK(u)
    <2>1. \A b \in Buckets(u) : u.buckets[b].expand_mult = 0 /\ u.buckets[b].count = 0
      BY <1>3, <1>5, <1>8 DEF UT_hash_bucket
    <2> QED
      BY <1>2, <1>5, <2>1 DEF MultOK
  <1>11. Total(Counts(u), n, 0)
    <2> DEFINE g == [i \in 0..n |-> 0]
               f == Counts(u)
    <2>1. \A i \in 1..n : i - 1 \in 0..(n - 1)
      BY <1>1
    <2>2. \A i \in 0..(n - 1) : f[i] = 0
      BY <1>3, <1>5, <1>8 DEF Counts, UT_hash_bucket
    <2> HIDE DEF f
    <2>3. Sums(g, f, n) /\ g[n] = 0
      BY <1>1, <2>1, <2>2 DEF Sums
    <2> HIDE DEF g
    <2> QED
      BY <2>3 DEF Total, f
  <1> QED
    <2>1. Moved(u, {}, 0)
      BY <1>5, <1>7, <1>9, <1>10, <1>11 DEF Moved, ChainsOK
    <2> QED
      BY <1>5, <2>1 DEF u, n, q, N

LEMMA WalkType ==
    ASSUME NEW next \in Ptrs, NEW p \in Ptr
    PROVE  Walk(next, p) \in Seq(Elem)
  <1> DEFINE N == Cardinality(Elem) + 1
  <1>1. PICK f \in [0..N -> Seq(Elem)] : Walk(next, p) = f[N]
    BY WalkDef
  <1>2. N \in 0..N
    BY Caps
  <1> HIDE DEF N
  <1> QED
    BY <1>1, <1>2

Chain(t, b) == Walk(t.hh_next, t.buckets[b].hh_head)

(* Bucket after bucket is moved. *)
LEMMA ExpandDef ==
    ASSUME NEW t \in Table, NEW t0 \in Growing
    PROVE  LET n == t.num_buckets
               after[b \in 0..n] ==
                  IF b = 0 THEN t0
                  ELSE RedistributeAll(after[b - 1], Walk(t.hh_next, t.buckets[b - 1].hh_head))
           IN /\ after \in [0..n -> Growing] /\ after[0] = t0
              /\ \A b \in 1..n : after[b] = RedistributeAll(after[b - 1], Chain(t, b - 1))
  <1> DEFINE n == t.num_buckets
             W(b) == Walk(t.hh_next, t.buckets[b - 1].hh_head)
             after == CHOOSE f : f = [b \in 0..n |->
                        IF b = 0 THEN t0
                        ELSE RedistributeAll(f[b - 1], Walk(t.hh_next, t.buckets[b - 1].hh_head))]
             step == [x \in (1..n) \X Growing |-> RedistributeAll(x[2], W(x[1]))]
  <1>1. n \in Nat /\ t.hh_next \in Ptrs /\ \A b \in 0..(n - 1) : t.buckets[b].hh_head \in Ptr
    BY TableTypes DEF Buckets
  <1>2. ASSUME NEW b \in 1..n PROVE W(b) \in Seq(Elem) /\ W(b) = Chain(t, b - 1)
    <2>1. b - 1 \in 0..(n - 1)
      BY <1>1
    <2>2. t.buckets[b - 1].hh_head \in Ptr
      BY <1>1, <2>1
    <2> QED
      BY <1>1, <2>2, WalkType DEF Chain
  <1>3. \A u \in Growing, c \in Seq(Elem) : RedistributeAll(u, c) \in Growing
    <2> SUFFICES ASSUME NEW u \in Growing, NEW c \in Seq(Elem)
                 PROVE  RedistributeAll(u, c) \in Growing
      OBVIOUS
    <2>1. PICK f \in [0..Len(c) -> Growing] : RedistributeAll(u, c) = f[Len(c)]
      BY RedistributeAllDef
    <2>2. Len(c) \in 0..Len(c)
      OBVIOUS
    <2> QED
      BY <2>1, <2>2
  <1> HIDE DEF n
  <1>4. step \in [(1..n) \X Growing -> Growing]
    <2>1. \A x \in (1..n) \X Growing : RedistributeAll(x[2], W(x[1])) \in Growing
      <3> SUFFICES ASSUME NEW x \in (1..n) \X Growing
                   PROVE  RedistributeAll(x[2], W(x[1])) \in Growing
        OBVIOUS
      <3>1. x[1] \in 1..n /\ x[2] \in Growing
        OBVIOUS
      <3> DEFINE c == W(x[1])
      <3>2. c \in Seq(Elem)
        BY <1>2, <3>1
      <3> HIDE DEF c
      <3>3. RedistributeAll(x[2], c) \in Growing
        BY <1>3, <3>1, <3>2
      <3> QED
        BY <3>3 DEF c
    <2> HIDE DEF W
    <2> QED
      BY <2>1
  <1>5. \A b \in 1..n, u \in Growing : step[<<b, u>>] = RedistributeAll(u, W(b))
    OBVIOUS
  <1> HIDE DEF step
  <1>6. PICK f \in [0..n -> Growing] : Runs(f, n, t0, step)
    BY <1>1, <1>4, Recursion
  <1>7. \A b \in 1..n : f[b] = RedistributeAll(f[b - 1], W(b))
    <2> SUFFICES ASSUME NEW b \in 1..n PROVE f[b] = RedistributeAll(f[b - 1], W(b))
      OBVIOUS
    <2>1. b - 1 \in 0..n
      BY <1>1
    <2>2. f[b - 1] \in Growing
      BY <2>1
    <2> QED
      BY <1>5, <1>6, <2>2 DEF Runs
  <1>8. f = [b \in 0..n |-> IF b = 0 THEN t0 ELSE RedistributeAll(f[b - 1], W(b))]
    <2> HIDE DEF W
    <2>1. \A b \in 0..n : f[b] = IF b = 0 THEN t0 ELSE RedistributeAll(f[b - 1], W(b))
      BY <1>1, <1>6, <1>7 DEF Runs
    <2> QED
      BY <2>1
  <1>9. after = [b \in 0..n |-> IF b = 0 THEN t0 ELSE RedistributeAll(after[b - 1], W(b))]
    BY <1>8
  <1> HIDE DEF after, W
  <1>10. \A b \in 0..n : after[b] = IF b = 0 THEN t0 ELSE RedistributeAll(after[b - 1], W(b))
    BY <1>9
  <1> DEFINE S == {b \in 0..n : after[b] = f[b]}
  <1>11. 0 \in S
    <2>1. 0 \in 0..n
      BY <1>1
    <2> QED
      BY <1>6, <1>10, <2>1 DEF Runs
  <1>12. ASSUME NEW b \in 0..(n - 1), b \in S PROVE b + 1 \in S
    <2>1. b + 1 \in 0..n /\ b + 1 \in 1..n /\ b + 1 # 0 /\ (b + 1) - 1 = b
      BY <1>1
    <2> QED
      BY <1>7, <1>10, <1>12, <2>1
  <1>13. \A b \in 0..n : b \in S
    <2> HIDE DEF S
    <2> QED
      BY <1>1, <1>11, <1>12, InductionUpTo
  <1>14. after = f
    BY <1>9, <1>13
  <1>15. /\ after \in [0..n -> Growing] /\ after[0] = t0
         /\ \A b \in 1..n : after[b] = RedistributeAll(after[b - 1], Chain(t, b - 1))
    BY <1>2, <1>6, <1>7, <1>14 DEF Runs
  <1> QED
    BY <1>15 DEF after, n, W

(* The chain of a bucket is what Walk finds. *)
LEMMA ChainWalk ==
    ASSUME NEW t \in Table, NEW E, ChainsOK(t, E), NEW b \in Buckets(t)
    PROVE  ChainIs(t, b, E, Chain(t, b)) /\ Chain(t, b) \in Seq(Elem) /\ OneToOne(Chain(t, b))
  <1>1. PICK c : ChainIs(t, b, E, c)
    BY DEF ChainsOK
  <1>2. IsList(t.hh_next, t.hh_prev, t.buckets[b].hh_head, c) /\ t.hh_next \in Ptrs
    BY <1>1, TableTypes DEF ChainIs
  <1>3. Chain(t, b) = c
    BY <1>2, WalkIs DEF Chain
  <1> QED
    BY <1>1, <1>2, <1>3 DEF IsList

LEMMA ExpandFacts ==
    ASSUME NEW t \in Table, NEW E \in SUBSET Elem, ChainsOK(t, E), t.num_items > 0,
           Total(Counts(t), t.num_buckets, t.num_items), NEW u, u = HASH_EXPAND_BUCKETS(t)
    PROVE  /\ u \in Table /\ SameList(t, u) /\ ChainsOK(u, E) /\ MultOK(u)
           /\ u.num_buckets = 2 * t.num_buckets
           /\ u.ideal_chain_maxlen
                = (t.num_items + 2 * t.num_buckets - 1) \div (2 * t.num_buckets)
           /\ u.noexpand = t.noexpand \/ u.noexpand = 1
           /\ Total(Counts(u), u.num_buckets, u.num_items)
  <1> DEFINE n == t.num_buckets
             t0 == Emptied(t)
             after[b \in 0..n] ==
                IF b = 0 THEN t0
                ELSE RedistributeAll(after[b - 1], Walk(t.hh_next, t.buckets[b - 1].hh_head))
             v == after[n]
             D(b) == {e \in E : Bkt(t, KeyOf[e]) < b}
  <1>1. n \in Nat /\ n > 0 /\ t.num_items \in Int
    BY TableTypes
  <1>2. /\ Moved(t0, {}, 0) /\ SameList(t, t0) /\ t0.num_buckets = 2 * n
        /\ t0.ideal_chain_maxlen
              = (t.num_items + 2 * t.num_buckets - 1) \div (2 * t.num_buckets)
        /\ t0.noexpand = t.noexpand
    BY EmptiedFacts
  <1>3. t0 \in Growing
    BY <1>2 DEF Moved
  <1> DEFINE ineff0 == IF v.nonideal_items > v.num_items \div 2 THEN t.ineff_expands + 1 ELSE 0
  <1>4. \E ineff \in {t.ineff_expands + 1, 0} :
           u = [v EXCEPT !.ineff_expands = ineff, !.noexpand = IF ineff > 1 THEN 1 ELSE v.noexpand]
    <2>1. u = [v EXCEPT !.ineff_expands = ineff0,
                        !.noexpand = IF ineff0 > 1 THEN 1 ELSE v.noexpand]
      BY Zenon DEF HASH_EXPAND_BUCKETS, Emptied
    <2>2. ineff0 \in {t.ineff_expands + 1, 0}
      OBVIOUS
    <2> HIDE DEF ineff0, v
    <2> QED
      BY <2>1, <2>2
  <1> HIDE DEF t0
  <1>5. /\ after \in [0..n -> Growing] /\ after[0] = t0
        /\ \A b \in 1..n : after[b] = RedistributeAll(after[b - 1], Chain(t, b - 1))
    BY <1>3, ExpandDef
  <1> HIDE DEF after
  <1>6. PICK g : Sums(g, Counts(t), n) /\ g[n] = t.num_items
    BY DEF Total
  <1> HIDE DEF n
  <1> DEFINE S == {b \in 0..n : Moved(after[b], D(b), g[b]) /\ SameList(t, after[b])
                                /\ SameSize(t0, after[b])}
  <1>7. \A e \in E : Bkt(t, KeyOf[e]) \in 0..(n - 1)
    BY BktIn DEF Key, Buckets, n
  <1>8. 0 \in S
    <2>1. D(0) = {}
      BY <1>1, <1>7
    <2>2. g[0] = 0 /\ 0 \in 0..n
      BY <1>1, <1>6 DEF Sums
    <2> HIDE DEF D
    <2> QED
      BY <1>2, <1>5, <2>1, <2>2 DEF SameSize
  <1>9. ASSUME NEW b \in 0..(n - 1), b \in S PROVE b + 1 \in S
    <2> DEFINE c == Chain(t, b)
    <2>1. b + 1 \in 1..n /\ b + 1 \in 0..n /\ (b + 1) - 1 = b /\ b \in Buckets(t)
      BY <1>1 DEF Buckets, n
    <2>2. ChainIs(t, b, E, c) /\ c \in Seq(Elem) /\ OneToOne(c)
      BY <2>1, ChainWalk
    <2>3. after[b + 1] = RedistributeAll(after[b], c)
      BY <1>5, <2>1
    <2>4. Moved(after[b], D(b), g[b]) /\ SameList(t, after[b]) /\ SameSize(t0, after[b])
      BY <1>9
    <2>5. ToSet(c) = InBucket(t, b, E) /\ t.buckets[b].count = Len(c)
      BY <2>2 DEF ChainIs
    <2>6. ToSet(c) \cap D(b) = {} /\ D(b) \cup ToSet(c) = D(b + 1)
      <3>1. \A e \in E : Bkt(t, KeyOf[e]) < b + 1
                           <=> Bkt(t, KeyOf[e]) < b \/ Bkt(t, KeyOf[e]) = b
        BY <1>1, <1>7
      <3>2. \A e \in E : ~(Bkt(t, KeyOf[e]) < b /\ Bkt(t, KeyOf[e]) = b)
        BY <1>1, <1>7
      <3> QED
        BY <2>5, <3>1, <3>2 DEF InBucket
    <2>7. g[b + 1] = g[b] + Len(c)
      <3>1. g[b + 1] = g[b] + Counts(t)[b]
        BY <1>6, <2>1 DEF Sums
      <3>2. Counts(t)[b] = Len(c)
        BY <2>1, <2>5 DEF Counts
      <3> QED
        BY <3>1, <3>2
    <2> HIDE DEF c, D
    <2>8. /\ Moved(after[b + 1], D(b) \cup ToSet(c), g[b] + Len(c))
          /\ SameList(after[b], after[b + 1]) /\ SameSize(after[b], after[b + 1])
      BY <2>2, <2>3, <2>4, <2>6, RedistributeAllMoved
    <2> QED
      BY <2>1, <2>4, <2>6, <2>7, <2>8 DEF SameList, SameSize
  <1>10. \A b \in 0..n : b \in S
    <2> HIDE DEF S
    <2> QED
      BY <1>1, <1>8, <1>9, InductionUpTo
  <1>11. Moved(v, D(n), g[n]) /\ SameList(t, v) /\ SameSize(t0, v)
    <2>1. n \in 0..n
      BY <1>1
    <2> QED
      BY <1>10, <2>1
  <1>12. D(n) = E
    BY <1>1, <1>7
  <1>13. /\ v \in Table /\ ChainsOK(v, E) /\ MultOK(v)
         /\ Total(Counts(v), v.num_buckets, t.num_items)
    BY <1>6, <1>11, <1>12 DEF Moved, Growing
  <1> HIDE DEF v, D
  <1>14. PICK ineff \in Int :
            u = [v EXCEPT !.ineff_expands = ineff, !.noexpand = IF ineff > 1 THEN 1 ELSE v.noexpand]
    <2>1. t.ineff_expands + 1 \in Int /\ 0 \in Int
      BY TableTypes
    <2> QED
      BY <1>4, <2>1
  <1> DEFINE ne == IF ineff > 1 THEN 1 ELSE v.noexpand
  <1>15. /\ v \in UT_hash_table /\ v.num_buckets > 0 /\ v.noexpand \in Int
         /\ v.buckets \in [Buckets(v) -> Bucket]
    BY <1>13, TableTypes
  <1>16. u = [v EXCEPT !.ineff_expands = ineff, !.noexpand = ne] /\ ne \in Int
         /\ ne \in {v.noexpand, 1}
    BY <1>14, <1>15
  <1> HIDE DEF ne
  <1>17. /\ SameList(v, u) /\ SameChains(v, u) /\ u.num_buckets = v.num_buckets
         /\ u.ideal_chain_maxlen = v.ideal_chain_maxlen /\ u.noexpand = ne
    BY <1>15, <1>16 DEF UT_hash_table, SameList, SameChains
  <1>18. u \in [head : Ptr, tail : Ptr, num_items : Int, num_buckets : Nat,
                buckets : {u.buckets},
                ideal_chain_maxlen : Int, nonideal_items : Int, ineff_expands : Int,
                noexpand : Int, prev : Ptrs, next : Ptrs, hh_prev : Ptrs, hh_next : Ptrs]
    BY <1>15, <1>16, <1>17 DEF UT_hash_table
  <1>19. u \in Table
    BY <1>15, <1>17, <1>18, IsTable DEF Buckets, SameChains
  <1>20. ChainsOK(u, E)
    BY <1>13, <1>17, ChainsSame
  <1>21. Counts(u) = Counts(v) /\ MultOK(u)
    BY <1>13, <1>17 DEF Counts, MultOK, Buckets, SameChains
  <1>22. SameList(t, u)
    BY <1>11, <1>17 DEF SameList
  <1> QED
    <2>1. u.num_items = t.num_items
      BY <1>22 DEF SameList
    <2>2. u.noexpand = t.noexpand \/ u.noexpand = 1
      BY <1>2, <1>11, <1>16, <1>17 DEF SameSize
    <2>3. /\ u.num_buckets = 2 * t.num_buckets
          /\ u.ideal_chain_maxlen
                = (t.num_items + 2 * t.num_buckets - 1) \div (2 * t.num_buckets)
      BY <1>2, <1>11, <1>17 DEF SameSize, n
    <2> QED
      BY <1>13, <1>17, <1>19, <1>20, <1>21, <1>22, <2>1, <2>2, <2>3

--------------------------------------------------------------------------------
(* Why doubling keeps the chains short.                                     *)

LEMMA TotalsCompare ==
    ASSUME NEW n \in Nat, NEW f, NEW x, Total(f, n, x), NEW g, NEW y, Total(g, n, y),
           NEW a \in Int, NEW c \in Int, NEW d \in Int,
           \A i \in 0..(n - 1) : f[i] \in Int /\ g[i] \in Int /\ f[i] * a <= g[i] * c + d
    PROVE  x \in Int /\ y \in Int /\ x * a <= y * c + n * d
  <1>1. PICK F : Sums(F, f, n) /\ F[n] = x
    BY DEF Total
  <1>2. PICK G : Sums(G, g, n) /\ G[n] = y
    BY DEF Total
  <1>3. \A i \in 0..n : F[i] \in Int /\ G[i] \in Int
    BY <1>1, <1>2 DEF Sums
  <1>4. \A p, q, r \in Int : (p + q) * r = p * r + q * r
    OBVIOUS
  <1> DEFINE S == {i \in 0..n : F[i] * a <= G[i] * c + i * d}
  <1>5. 0 \in S
    BY <1>1, <1>2 DEF Sums
  <1>6. ASSUME NEW i \in 0..(n - 1), i \in S PROVE i + 1 \in S
    <2>1. i + 1 \in 1..n /\ i + 1 \in 0..n /\ (i + 1) - 1 = i /\ i \in 0..n /\ i \in Int
      OBVIOUS
    <2>2. F[i + 1] = F[i] + f[i] /\ G[i + 1] = G[i] + g[i]
      BY <1>1, <1>2, <2>1 DEF Sums
    <2>3. F[i] \in Int /\ G[i] \in Int /\ f[i] \in Int /\ g[i] \in Int
      BY <1>3, <2>1
    <2>4. /\ (F[i] + f[i]) * a = F[i] * a + f[i] * a
          /\ (G[i] + g[i]) * c = G[i] * c + g[i] * c
          /\ (i + 1) * d = i * d + d
      BY <1>4, <2>1, <2>3
    <2>5. F[i] * a <= G[i] * c + i * d /\ f[i] * a <= g[i] * c + d
      BY <1>6
    <2>6. /\ F[i] * a \in Int /\ f[i] * a \in Int /\ G[i] * c \in Int /\ g[i] * c \in Int
          /\ i * d \in Int
      BY <2>1, <2>3
    <2>7. F[i + 1] * a <= G[i + 1] * c + (i + 1) * d
      BY <2>2, <2>4, <2>5, <2>6
    <2> QED
      BY <2>1, <2>7
  <1>7. \A i \in 0..n : i \in S
    <2> HIDE DEF S
    <2> QED
      BY <1>5, <1>6, InductionUpTo
  <1> QED
    BY <1>1, <1>2, <1>3, <1>7

Thresh == HASH_BKT_CAPACITY_THRESH

(* How many times the threshold a bucket holds, so that one more element    *)
(* leaves it with at most Weight + 1 times the threshold.                   *)
Weight(bkt) ==
    IF bkt.expand_mult > 0 THEN bkt.expand_mult ELSE IF bkt.count >= Thresh THEN 1 ELSE 0
Weights(t) == [b \in Buckets(t) |-> Weight(t.buckets[b])]
Short(bkt, ideal) ==
    bkt.count < (bkt.expand_mult + 1) * Thresh \/ bkt.count <= ideal

(* On average a bucket weighs no more than one: the next doubling brings    *)
(* ideal_chain_maxlen down to the threshold again.                          *)
Balanced(t) ==
    /\ t.ideal_chain_maxlen <= Thresh
    /\ \A b \in Buckets(t) :
          t.buckets[b].expand_mult >= 0 /\ Short(t.buckets[b], t.ideal_chain_maxlen)
    /\ \E w \in Int : Total(Weights(t), t.num_buckets, w) /\ w <= t.num_buckets
BoundOK(t) == t.noexpand = 1 \/ Balanced(t)

LEMMA WeightType ==
    ASSUME NEW t \in Table, NEW b \in Buckets(t)
    PROVE  Weight(t.buckets[b]) \in Int /\ Weights(t)[b] = Weight(t.buckets[b])
  BY TableTypes, Caps DEF Weight, Weights

(* One bucket changes and gets no heavier. *)
LEMMA BalancedStep ==
    ASSUME NEW t \in Table, NEW u \in Table, SameSize(t, u), Balanced(t), NEW b \in Buckets(t),
           \A c \in Buckets(t) : c # b => u.buckets[c] = t.buckets[c],
           u.buckets[b].expand_mult = t.buckets[b].expand_mult,
           Short(u.buckets[b], t.ideal_chain_maxlen),
           Weight(u.buckets[b]) <= Weight(t.buckets[b])
    PROVE  Balanced(u)
  <1> DEFINE n == t.num_buckets
             f == Weights(t)
             g == Weights(u)
             d == Weight(u.buckets[b]) - Weight(t.buckets[b])
  <1>1. /\ Buckets(u) = Buckets(t) /\ u.num_buckets = n
        /\ u.ideal_chain_maxlen = t.ideal_chain_maxlen
    BY SameBkt DEF SameSize
  <1>2. PICK w \in Int : Total(f, n, w) /\ w <= n
    BY DEF Balanced
  <1>3. n \in Nat /\ 0..(n - 1) = Buckets(t)
    BY TableTypes DEF Buckets
  <1>4. \A c \in Buckets(t) : /\ f[c] = Weight(t.buckets[c]) /\ f[c] \in Int
                              /\ g[c] = Weight(u.buckets[c]) /\ g[c] \in Int
    BY <1>1, WeightType
  <1>5. d \in Int /\ g[b] = f[b] + d /\ d <= 0
    BY <1>4
  <1>6. \A c \in Buckets(t) : c # b => g[c] = f[c]
    BY <1>4
  <1> HIDE DEF f, g, d, n
  <1>7. Total(g, n, w + d)
    <2>1. /\ b \in 0..(n - 1) /\ \A c \in 0..(n - 1) : f[c] \in Int
          /\ \A c \in 0..(n - 1) : c # b => g[c] = f[c]
      BY <1>3, <1>4, <1>6
    <2> QED
      BY <1>2, <1>3, <1>5, <2>1, TotalUpdate
  <1>8. w + d \in Int /\ w + d <= n
    BY <1>2, <1>3, <1>5
  <1>9. \E z \in Int : Total(Weights(u), u.num_buckets, z) /\ z <= u.num_buckets
    BY <1>1, <1>7, <1>8 DEF g
  <1>10. ASSUME NEW c \in Buckets(t)
         PROVE  u.buckets[c].expand_mult >= 0 /\ Short(u.buckets[c], u.ideal_chain_maxlen)
    BY <1>1 DEF Balanced
  <1> QED
    BY <1>1, <1>9, <1>10 DEF Balanced

(* Where a bucket tolerates w times the threshold, its chain and one more    *)
(* element fit into w + 1 times the threshold.                               *)
LEMMA OneMoreFits ==
    ASSUME NEW cnt \in Int, NEW m \in Int, m >= 0, NEW ideal \in Int, ideal <= Thresh,
           cnt < (m + 1) * Thresh \/ cnt <= ideal,
           NEW w, w = IF m > 0 THEN m ELSE IF cnt >= Thresh THEN 1 ELSE 0
    PROVE  cnt + 1 <= w * Thresh + Thresh /\ cnt <= w * Thresh + Thresh
  <1>1. Thresh \in Int /\ Thresh > 0
    BY Caps DEF Thresh
  <1>2. (m + 1) * Thresh = m * Thresh + Thresh /\ m * Thresh \in Int
    BY <1>1
  <1>3. CASE m > 0
    <2>1. m * Thresh >= Thresh
      BY <1>1, <1>3
    <2> QED
      BY <1>1, <1>2, <1>3, <2>1
  <1>4. CASE m = 0
    <2>1. m * Thresh = 0 /\ 0 * Thresh = 0 /\ 1 * Thresh = Thresh
      BY <1>1, <1>4
    <2> QED
      BY <1>1, <1>2, <1>4, <2>1
  <1> QED
    BY <1>3, <1>4

LEMMA DivFacts ==
    ASSUME NEW a \in Int, NEW m \in Int, m > 0
    PROVE  a \div m \in Int /\ (a \div m) * m <= a /\ a < (a \div m) * m + m
  OBVIOUS

LEMMA IdealFacts ==
    ASSUME NEW N \in Int, N > 0, NEW m \in Int, m > 0
    PROVE  LET ideal == (N + m - 1) \div m
           IN /\ ideal \in Int /\ ideal > 0 /\ N <= m * ideal
              /\ \A c \in Int : N <= m * c => ideal <= c
  <1> DEFINE a == N + m - 1
             ideal == a \div m
  <1>1. a \in Int
    OBVIOUS
  <1>2. ideal \in Int /\ ideal * m <= a /\ a < ideal * m + m
    <2> HIDE DEF a
    <2> QED
      BY <1>1, DivFacts
  <1> HIDE DEF ideal
  <1>3. ideal * m \in Int /\ m * ideal = ideal * m
    BY <1>2
  <1>4. N <= ideal * m /\ ideal * m < N + m
    BY <1>2, <1>3
  <1>5. ideal > 0
    <2>1. ideal <= 0 => ideal * m <= 0
      BY <1>2
    <2> QED
      BY <1>2, <1>3, <1>4, <2>1
  <1>6. ASSUME NEW c \in Int, N <= m * c PROVE ideal <= c
    <2>1. c * m = m * c /\ c * m \in Int
      OBVIOUS
    <2>2. c + 1 <= ideal => (c + 1) * m <= ideal * m
      BY <1>2
    <2>3. (c + 1) * m = c * m + m
      OBVIOUS
    <2> QED
      BY <1>2, <1>3, <1>4, <1>6, <2>1, <2>2, <2>3
  <1>7. /\ ideal \in Int /\ ideal > 0 /\ N <= m * ideal
        /\ \A c \in Int : N <= m * c => ideal <= c
    BY <1>2, <1>3, <1>4, <1>5, <1>6
  <1> QED
    BY <1>7, Zenon DEF ideal, a

(* A table that was filled again is balanced if its items, evenly spread,   *)
(* make chains within the threshold.                                        *)
LEMMA ExpandedBalanced ==
    ASSUME NEW v \in Table, NEW N \in Int, N > 0, MultOK(v),
           v.ideal_chain_maxlen = (N + v.num_buckets - 1) \div v.num_buckets,
           Total(Counts(v), v.num_buckets, N), N <= v.num_buckets * Thresh,
           \A b \in Buckets(v) : v.buckets[b].count >= 0
    PROVE  Balanced(v)
  <1> DEFINE m == v.num_buckets
             ideal == v.ideal_chain_maxlen
             cnt(b) == v.buckets[b].count
             mult(b) == v.buckets[b].expand_mult
             f == Weights(v)
             g == Counts(v)
  <1>1. m \in Int /\ m > 0 /\ m \in Nat /\ 0..(m - 1) = Buckets(v)
    BY TableTypes DEF Buckets
  <1>2. Thresh \in Int /\ Thresh > 0
    BY Caps DEF Thresh
  <1>3. ideal \in Int /\ ideal > 0 /\ N <= m * ideal /\ ideal <= Thresh
    <2> HIDE DEF m, ideal
    <2>1. ideal = (N + m - 1) \div m
      BY DEF m, ideal
    <2>2. /\ ideal \in Int /\ ideal > 0 /\ N <= m * ideal
          /\ \A c \in Int : N <= m * c => ideal <= c
      <3>1. LET q == (N + m - 1) \div m
            IN /\ q \in Int /\ q > 0 /\ N <= m * q
               /\ \A c \in Int : N <= m * c => q <= c
        BY <1>1, IdealFacts, Zenon
      <3> QED
        BY <2>1, <3>1, Zenon
    <2>3. N <= m * Thresh
      BY DEF m
    <2> QED
      BY <1>2, <2>2, <2>3
  <1>4. ASSUME NEW b \in Buckets(v)
        PROVE  /\ mult(b) >= 0 /\ Short(v.buckets[b], ideal)
               /\ f[b] \in Int /\ g[b] \in Int /\ f[b] * ideal <= g[b]
    <2> DEFINE k == cnt(b)
               mu == mult(b)
    <2>1. k \in Int /\ k >= 0 /\ mu = IF k > ideal THEN k \div ideal ELSE 0
      BY TableTypes DEF MultOK
    <2>2. f[b] = Weight(v.buckets[b]) /\ f[b] \in Int /\ g[b] = k
      BY WeightType DEF Counts
    <2>3. f[b] = IF mu > 0 THEN mu ELSE IF k >= Thresh THEN 1 ELSE 0
      BY <2>2 DEF Weight
    <2>4. Short(v.buckets[b], ideal) <=> k < (mu + 1) * Thresh \/ k <= ideal
      BY DEF Short
    <2> HIDE DEF k, mu, ideal, f, g
    <2>5. CASE k > ideal
      <3>1. mu \in Int /\ mu * ideal <= k /\ k < mu * ideal + ideal
        BY <1>3, <2>1, <2>5, DivFacts
      <3>2. mu > 0
        <4>1. mu <= 0 => mu * ideal <= 0
          BY <1>3, <3>1
        <4>2. mu * ideal \in Int
          BY <1>3, <3>1
        <4> QED
          BY <1>3, <2>1, <2>5, <3>1, <4>1, <4>2
      <3>3. mu * ideal + ideal = (mu + 1) * ideal /\ (mu + 1) * ideal <= (mu + 1) * Thresh
        BY <1>2, <1>3, <3>1, <3>2
      <3>4. (mu + 1) * ideal \in Int /\ (mu + 1) * Thresh \in Int
        BY <1>2, <1>3, <3>1
      <3> QED
        BY <2>1, <2>2, <2>3, <2>4, <3>1, <3>2, <3>3, <3>4 DEF mu
    <2>6. CASE k <= ideal
      <3>1. mu = 0
        BY <1>3, <2>1, <2>6
      <3>2. f[b] = IF k >= Thresh THEN 1 ELSE 0
        BY <2>3, <3>1
      <3>3. f[b] * ideal <= k
        <4>1. CASE k >= Thresh
          BY <1>2, <1>3, <2>1, <2>6, <3>2, <4>1
        <4>2. CASE ~(k >= Thresh)
          BY <1>2, <1>3, <2>1, <2>6, <3>2, <4>2
        <4> QED
          BY <4>1, <4>2
      <3> QED
        BY <2>1, <2>2, <2>4, <2>6, <3>1, <3>3 DEF mu
    <2> QED
      BY <1>3, <2>1, <2>5, <2>6
  <1>5. PICK w \in Int : Total(f, m, w)
    <2> HIDE DEF f, m
    <2> QED
      BY <1>1, <1>4, TotalOf
  <1>6. w <= m
    <2> HIDE DEF f, g, m, ideal
    <2>1. \A i \in 0..(m - 1) : f[i] \in Int /\ g[i] \in Int /\ f[i] * ideal <= g[i] * 1 + 0
      BY <1>1, <1>4
    <2>2. Total(g, m, N)
      BY DEF g, m
    <2>3. w * ideal <= N * 1 + m * 0
      <3>1. 1 \in Int /\ 0 \in Int
        OBVIOUS
      <3> QED
        BY <1>1, <1>3, <1>5, <2>1, <2>2, <3>1, TotalsCompare, Zenon
    <2>4. w * ideal <= m * ideal
      <3>1. w * ideal \in Int /\ m * ideal \in Int /\ N * 1 = N /\ m * 0 = 0
        BY <1>1, <1>3, <1>5
      <3> QED
        BY <1>3, <2>3, <3>1
    <2>5. w >= m + 1 => w * ideal >= (m + 1) * ideal
      BY <1>1, <1>3, <1>5
    <2>6. (m + 1) * ideal = m * ideal + ideal /\ m * ideal \in Int /\ w * ideal \in Int
      BY <1>1, <1>3, <1>5
    <2> QED
      BY <1>1, <1>3, <1>5, <2>4, <2>5, <2>6
  <1> QED
    BY <1>3, <1>4, <1>5, <1>6 DEF Balanced

--------------------------------------------------------------------------------
(* The chains hold the elements E, x in number, and are bounded. *)
Filled(t, E, x) ==
    /\ t \in Table /\ E \subseteq Elem /\ ChainsOK(t, E)
    /\ x \in Int /\ Total(Counts(t), t.num_buckets, x)
    /\ BoundOK(t)

LEMMA ChainCounts ==
    ASSUME NEW t, NEW E, ChainsOK(t, E), NEW b \in Buckets(t)
    PROVE  t.buckets[b].count \in Nat
  <1>1. PICK c : ChainIs(t, b, E, c)
    BY DEF ChainsOK
  <1>2. c \in Seq(Elem) /\ t.buckets[b].count = Len(c)
    BY <1>1 DEF ChainIs, IsList
  <1> QED
    BY <1>2

(* The sum of the counts when that of one bucket changes. *)
LEMMA CountsUpdate ==
    ASSUME NEW t \in Table, NEW u \in Table, u.num_buckets = t.num_buckets,
           NEW b \in Buckets(t), NEW d \in Int, u.buckets[b].count = t.buckets[b].count + d,
           \A c \in Buckets(t) : c # b => u.buckets[c] = t.buckets[c],
           NEW x \in Int, Total(Counts(t), t.num_buckets, x)
    PROVE  Total(Counts(u), u.num_buckets, x + d)
  <1> DEFINE n == t.num_buckets
             f == Counts(t)
             g == Counts(u)
  <1>1. n \in Nat /\ 0..(n - 1) = Buckets(t) /\ Buckets(u) = Buckets(t)
    BY TableTypes DEF Buckets
  <1>2. \A c \in Buckets(t) : /\ f[c] = t.buckets[c].count /\ g[c] = u.buckets[c].count
                              /\ f[c] \in Int
    BY <1>1, TableTypes DEF Counts
  <1>3. /\ b \in 0..(n - 1) /\ \A c \in 0..(n - 1) : f[c] \in Int
        /\ g[b] = f[b] + d /\ \A c \in 0..(n - 1) : c # b => g[c] = f[c]
    BY <1>1, <1>2
  <1> HIDE DEF f, g, n
  <1>4. Total(f, n, x)
    BY DEF f, n
  <1>5. Total(g, n, x + d)
    BY <1>1, <1>3, <1>4, TotalUpdate
  <1> QED
    BY <1>5 DEF g, n

(* With one more element in some bucket of a balanced table, the elements   *)
(* fill at most twice as many buckets up to the threshold.                  *)
LEMMA ItemsFit ==
    ASSUME NEW t \in Table, Balanced(t), NEW p \in Table, p.num_buckets = t.num_buckets,
           \A b \in Buckets(t) : p.buckets[b].count \in {t.buckets[b].count, t.buckets[b].count + 1},
           NEW N \in Int, Total(Counts(p), p.num_buckets, N)
    PROVE  N <= (2 * t.num_buckets) * Thresh
  <1> DEFINE n == t.num_buckets
             f == Counts(p)
             g == Weights(t)
  <1>1. n \in Nat /\ 0..(n - 1) = Buckets(t) /\ Buckets(p) = Buckets(t)
    BY TableTypes DEF Buckets
  <1>2. Thresh \in Int /\ Thresh > 0
    BY Caps DEF Thresh
  <1>3. PICK w \in Int : Total(g, n, w) /\ w <= n
    BY DEF Balanced
  <1>4. ASSUME NEW b \in Buckets(t)
        PROVE  f[b] \in Int /\ g[b] \in Int /\ f[b] * 1 <= g[b] * Thresh + Thresh
    <2> DEFINE cnt == t.buckets[b].count
               m == t.buckets[b].expand_mult
               ideal == t.ideal_chain_maxlen
    <2>1. cnt \in Int /\ m \in Int /\ ideal \in Int
      BY TableTypes
    <2>2. m >= 0 /\ ideal <= Thresh /\ (cnt < (m + 1) * Thresh \/ cnt <= ideal)
      BY DEF Balanced, Short
    <2>3. g[b] = (IF m > 0 THEN m ELSE IF cnt >= Thresh THEN 1 ELSE 0) /\ g[b] \in Int
      BY WeightType DEF Weight
    <2>4. f[b] \in {cnt, cnt + 1}
      BY <1>1 DEF Counts
    <2> HIDE DEF cnt, m, ideal, f, g
    <2>5. cnt + 1 <= g[b] * Thresh + Thresh /\ cnt <= g[b] * Thresh + Thresh
      BY <2>1, <2>2, <2>3, OneMoreFits
    <2>6. f[b] \in Int /\ f[b] * 1 = f[b]
      BY <2>1, <2>4
    <2> QED
      BY <2>3, <2>4, <2>5, <2>6
  <1> HIDE DEF f, g, n
  <1>5. Total(f, n, N)
    BY DEF f, n
  <1>6. N * 1 <= w * Thresh + n * Thresh
    <2>1. 1 \in Int /\ \A i \in 0..(n - 1) : /\ f[i] \in Int /\ g[i] \in Int
                                             /\ f[i] * 1 <= g[i] * Thresh + Thresh
      BY <1>1, <1>4
    <2> QED
      BY <1>1, <1>2, <1>3, <1>5, <2>1, TotalsCompare, Zenon
  <1>7. w * Thresh <= n * Thresh
    BY <1>1, <1>2, <1>3
  <1>8. /\ (2 * n) * Thresh = n * Thresh + n * Thresh /\ n * Thresh \in Int
        /\ w * Thresh \in Int /\ N * 1 = N
    BY <1>1, <1>2, <1>3
  <1>9. N <= (2 * n) * Thresh
    BY <1>6, <1>7, <1>8
  <1> QED
    BY <1>9 DEF n

(* HASH_ADD_TO_BKT: the element comes to its chain, and the buckets are     *)
(* doubled where that makes it too long.                                    *)
LEMMA AddToBkt ==
    ASSUME NEW t, NEW E, NEW x, Filled(t, E, x), x >= 0, t.num_items = x + 1,
           NEW e \in Elem, e \notin E, NEW b, b = Bkt(t, KeyOf[e]),
           NEW u, u = HASH_ADD_TO_BKT(t, b, e)
    PROVE  Filled(u, E \cup {e}, x + 1) /\ SameList(t, u)
  <1> DEFINE p == Push(t, b, e)
             F == E \cup {e}
             n == t.num_buckets
  <1>1. /\ t \in Table /\ E \in SUBSET Elem /\ F \in SUBSET Elem /\ ChainsOK(t, E)
        /\ x \in Int /\ x + 1 \in Int /\ Total(Counts(t), n, x) /\ BoundOK(t)
    BY DEF Filled
  <1>2. b \in Buckets(t)
    BY <1>1, BktIn DEF Key
  <1>3. /\ t.buckets \in [Buckets(t) -> Bucket] /\ n \in Nat /\ n > 0
        /\ t.buckets[b].count \in Int /\ t.buckets[b].expand_mult \in Int
    BY <1>1, <1>2, TableTypes
  <1>4. p \in Table /\ SameList(t, p) /\ SameSize(t, p) /\ ChainsOK(p, F)
    BY <1>1, PushChains
  <1>5. p.buckets = [t.buckets EXCEPT ![b] =
                       [hh_head |-> e, count |-> t.buckets[b].count + 1,
                        expand_mult |-> t.buckets[b].expand_mult]]
    <2> DEFINE first == t.buckets[b].hh_head
    <2>1. /\ p \in Table /\ SameList(t, p) /\ SameSize(t, p)
          /\ p.hh_next = [t.hh_next EXCEPT ![e] = first]
          /\ p.hh_prev = Write([t.hh_prev EXCEPT ![e] = NULL], first, e)
          /\ p.buckets = [t.buckets EXCEPT ![b] =
                             [hh_head |-> e, count |-> t.buckets[b].count + 1,
                              expand_mult |-> t.buckets[b].expand_mult]]
      BY <1>1, <1>2, PushFacts
    <2> QED
      BY <2>1
  <1>6. u = IF /\ p.buckets[b].count >= (p.buckets[b].expand_mult + 1) * Thresh
               /\ t.noexpand # 1
            THEN HASH_EXPAND_BUCKETS(p) ELSE p
    BY DEF HASH_ADD_TO_BKT, Thresh
  <1> HIDE DEF p, F
  <1>7. /\ p.buckets[b].count = t.buckets[b].count + 1
        /\ p.buckets[b].expand_mult = t.buckets[b].expand_mult
        /\ \A c \in Buckets(t) : c # b => p.buckets[c] = t.buckets[c]
    BY <1>2, <1>3, <1>5
  <1>8. /\ p.num_buckets = n /\ p.num_items = x + 1 /\ p.noexpand = t.noexpand
        /\ p.ideal_chain_maxlen = t.ideal_chain_maxlen
    BY <1>4 DEF SameSize, SameList
  <1>9. Total(Counts(p), p.num_buckets, x + 1)
    <2>1. 1 \in Int
      OBVIOUS
    <2> QED
      BY <1>1, <1>2, <1>4, <1>7, <1>8, <2>1, CountsUpdate
  <1>10. ASSUME /\ p.buckets[b].count >= (p.buckets[b].expand_mult + 1) * Thresh
                /\ t.noexpand # 1
         PROVE  Filled(u, F, x + 1) /\ SameList(t, u)
    <2>1. u = HASH_EXPAND_BUCKETS(p)
      BY <1>6, <1>10
    <2>2. p.num_items > 0 /\ Total(Counts(p), p.num_buckets, p.num_items)
      BY <1>1, <1>8, <1>9
    <2>3. /\ u \in Table /\ SameList(p, u) /\ ChainsOK(u, F) /\ MultOK(u)
          /\ u.num_buckets = 2 * p.num_buckets
          /\ u.ideal_chain_maxlen
                = (p.num_items + 2 * p.num_buckets - 1) \div (2 * p.num_buckets)
          /\ Total(Counts(u), u.num_buckets, u.num_items)
      BY <1>1, <1>4, <2>1, <2>2, ExpandFacts
    <2>4. u.num_items = x + 1 /\ p.num_items = x + 1 /\ SameList(t, u)
      BY <1>4, <1>8, <2>3 DEF SameList
    <2>5. Balanced(t)
      BY <1>1, <1>10 DEF BoundOK
    <2>6. x + 1 <= (2 * n) * Thresh
      <3>1. \A c \in Buckets(t) :
               p.buckets[c].count \in {t.buckets[c].count, t.buckets[c].count + 1}
        BY <1>7
      <3> QED
        BY <1>1, <1>4, <1>8, <1>9, <2>5, <3>1, ItemsFit
    <2>7. \A c \in Buckets(u) : u.buckets[c].count >= 0
      BY <2>3, ChainCounts
    <2>8. /\ u.ideal_chain_maxlen = ((x + 1) + u.num_buckets - 1) \div u.num_buckets
          /\ x + 1 <= u.num_buckets * Thresh /\ Total(Counts(u), u.num_buckets, x + 1)
      BY <1>8, <2>3, <2>4, <2>6
    <2>9. Balanced(u)
      <3>1. x + 1 > 0
        BY <1>1
      <3> HIDE DEF n
      <3> QED
        BY <1>1, <2>3, <2>7, <2>8, <3>1, ExpandedBalanced
    <2> QED
      BY <1>1, <2>3, <2>4, <2>8, <2>9 DEF Filled, BoundOK
  <1>11. ASSUME ~(/\ p.buckets[b].count >= (p.buckets[b].expand_mult + 1) * Thresh
                  /\ t.noexpand # 1)
         PROVE  Filled(u, F, x + 1) /\ SameList(t, u)
    <2>1. u = p
      BY <1>6, <1>11
    <2>2. ASSUME t.noexpand # 1 PROVE Balanced(p)
      <3> DEFINE cnt == t.buckets[b].count
                 m == t.buckets[b].expand_mult
      <3>1. Balanced(t)
        BY <1>1, <2>2 DEF BoundOK
      <3>2. Thresh \in Int /\ Thresh > 0
        BY Caps DEF Thresh
      <3>3. cnt + 1 < (m + 1) * Thresh
        <4>1. ~(cnt + 1 >= (m + 1) * Thresh)
          BY <1>7, <1>11, <2>2
        <4>2. (m + 1) * Thresh \in Int
          BY <1>3, <3>2
        <4> QED
          BY <1>3, <4>1, <4>2
      <3>4. Short(p.buckets[b], t.ideal_chain_maxlen)
        BY <1>7, <3>3 DEF Short
      <3>5. m >= 0
        BY <1>2, <3>1 DEF Balanced
      <3>6. Weight(p.buckets[b]) <= Weight(t.buckets[b])
        <4>1. /\ Weight(p.buckets[b]) = IF m > 0 THEN m ELSE IF cnt + 1 >= Thresh THEN 1 ELSE 0
              /\ Weight(t.buckets[b]) = IF m > 0 THEN m ELSE IF cnt >= Thresh THEN 1 ELSE 0
          BY <1>7 DEF Weight
        <4> HIDE DEF cnt, m
        <4>2. m = 0 => cnt + 1 < Thresh
          BY <3>2, <3>3
        <4> QED
          BY <1>3, <3>2, <3>5, <4>1, <4>2 DEF cnt, m
      <3> QED
        BY <1>1, <1>2, <1>4, <1>7, <3>1, <3>4, <3>6, BalancedStep
    <2>3. BoundOK(p)
      BY <1>8, <2>2 DEF BoundOK
    <2> QED
      BY <1>1, <1>4, <1>9, <2>1, <2>3 DEF Filled
  <1> QED
    BY <1>10, <1>11 DEF F

--------------------------------------------------------------------------------
(* Deletion from a chain. *)

LEMMA DelFacts ==
    ASSUME NEW t \in Table, NEW b \in Buckets(t), NEW e \in Elem,
           NEW u, u = HASH_DEL_IN_BKT(t, b, e)
    PROVE  /\ u \in Table /\ SameList(t, u) /\ SameSize(t, u)
           /\ u.hh_next = Write(t.hh_next, t.hh_prev[e], t.hh_next[e])
           /\ u.hh_prev = Write(t.hh_prev, t.hh_next[e], t.hh_prev[e])
           /\ u.buckets = [t.buckets EXCEPT ![b] =
                             [hh_head |-> IF t.buckets[b].hh_head = e THEN t.hh_next[e]
                                          ELSE t.buckets[b].hh_head,
                              count |-> t.buckets[b].count - 1,
                              expand_mult |-> t.buckets[b].expand_mult]]
  <1> DEFINE first == IF t.buckets[b].hh_head = e THEN t.hh_next[e] ELSE t.buckets[b].hh_head
             n2 == Write(t.hh_next, t.hh_prev[e], t.hh_next[e])
             p2 == Write(t.hh_prev, t.hh_next[e], t.hh_prev[e])
             bkt == [hh_head |-> first, count |-> t.buckets[b].count - 1,
                     expand_mult |-> t.buckets[b].expand_mult]
             b2 == [t.buckets EXCEPT ![b] = bkt]
  <1>1. /\ t \in UT_hash_table /\ t.hh_next \in Ptrs /\ t.hh_prev \in Ptrs
        /\ t.num_buckets \in Nat /\ t.num_buckets > 0
        /\ t.buckets \in [Buckets(t) -> Bucket] /\ t.buckets[b] \in Bucket
        /\ t.buckets[b].hh_head \in Ptr
        /\ t.buckets[b].count \in Int /\ t.buckets[b].expand_mult \in Int
    BY TableTypes
  <1>2. t.hh_next[e] \in Ptr /\ t.hh_prev[e] \in Ptr /\ first \in Ptr
    BY <1>1 DEF Ptrs
  <1>3. n2 \in Ptrs /\ p2 \in Ptrs
    BY <1>1, <1>2, WriteType
  <1>4. bkt \in Bucket
    BY <1>1, <1>2 DEF Bucket
  <1>5. b2 \in [Buckets(t) -> Bucket]
    BY <1>1, <1>4
  <1>6. u = [t EXCEPT !.hh_next = n2, !.hh_prev = p2, !.buckets = b2]
    <2>1. u = [t EXCEPT !.buckets[b].hh_head = first,
                        !.buckets[b].count = @ - 1,
                        !.hh_next = Write(@, t.hh_prev[e], t.hh_next[e]),
                        !.hh_prev = Write(@, t.hh_next[e], t.hh_prev[e])]
      BY DEF HASH_DEL_IN_BKT
    <2> HIDE DEF first
    <2>2. [[t.buckets EXCEPT ![b].hh_head = first] EXCEPT ![b].count = @ - 1] = b2
      BY <1>1 DEF Bucket
    <2> QED
      BY <1>1, <2>1, <2>2 DEF UT_hash_table
  <1> HIDE DEF n2, p2, b2
  <1>7. /\ u.hh_next = n2 /\ u.hh_prev = p2 /\ u.buckets = b2 /\ u.num_buckets = t.num_buckets
        /\ SameList(t, u) /\ SameSize(t, u)
    BY <1>1, <1>6 DEF UT_hash_table, SameList, SameSize
  <1>8. u \in [head : Ptr, tail : Ptr, num_items : Int, num_buckets : Nat,
               buckets : {u.buckets},
               ideal_chain_maxlen : Int, nonideal_items : Int, ineff_expands : Int,
               noexpand : Int, prev : Ptrs, next : Ptrs, hh_prev : Ptrs, hh_next : Ptrs]
    BY <1>1, <1>2, <1>3, <1>6, <1>7 DEF UT_hash_table
  <1>9. u \in Table
    BY <1>1, <1>5, <1>7, <1>8, IsTable DEF Buckets
  <1> QED
    BY <1>7, <1>9 DEF n2, p2, b2

(* The element goes out of its chain. *)
LEMMA DelInBkt ==
    ASSUME NEW t, NEW E, NEW x, Filled(t, E, x), NEW e \in E, NEW b, b = Bkt(t, KeyOf[e]),
           NEW u, u = HASH_DEL_IN_BKT(t, b, e)
    PROVE  Filled(u, E \ {e}, x - 1) /\ SameList(t, u)
  <1> DEFINE F == E \ {e}
             next == t.hh_next
             prev == t.hh_prev
             old == t.buckets[b].hh_head
             first == IF old = e THEN next[e] ELSE old
  <1>1. /\ t \in Table /\ E \in SUBSET Elem /\ F \in SUBSET Elem /\ ChainsOK(t, E)
        /\ x \in Int /\ x - 1 \in Int /\ Total(Counts(t), t.num_buckets, x) /\ BoundOK(t)
        /\ e \in Elem
    BY DEF Filled
  <1>2. b \in Buckets(t)
    BY <1>1, BktIn DEF Key
  <1>3. /\ t.buckets \in [Buckets(t) -> Bucket] /\ next \in Ptrs /\ prev \in Ptrs
        /\ t.buckets[b].count \in Int /\ t.buckets[b].expand_mult \in Int
    BY <1>1, <1>2, TableTypes
  <1>4. /\ u \in Table /\ SameList(t, u) /\ SameSize(t, u)
        /\ u.hh_next = Write(next, prev[e], next[e])
        /\ u.hh_prev = Write(prev, next[e], prev[e])
        /\ u.buckets = [t.buckets EXCEPT ![b] =
                          [hh_head |-> first, count |-> t.buckets[b].count - 1,
                           expand_mult |-> t.buckets[b].expand_mult]]
    BY <1>1, <1>2, DelFacts
  <1> HIDE DEF first
  <1>5. /\ u.buckets[b].hh_head = first /\ u.buckets[b].count = t.buckets[b].count - 1
        /\ u.buckets[b].expand_mult = t.buckets[b].expand_mult
        /\ \A y \in Buckets(t) : y # b => u.buckets[y] = t.buckets[y]
    BY <1>2, <1>3, <1>4
  <1>6. /\ Buckets(u) = Buckets(t) /\ u.num_buckets = t.num_buckets
        /\ \A y, D : InBucket(u, y, D) = InBucket(t, y, D)
    BY <1>4, SameBkt DEF SameSize
  <1>7. /\ InBucket(t, b, F) = InBucket(t, b, E) \ {e} /\ e \in InBucket(t, b, E)
        /\ \A y \in Buckets(t) : y # b => InBucket(t, y, F) = InBucket(t, y, E)
    BY DEF InBucket
  <1>8. PICK c : ChainIs(t, b, E, c)
    BY <1>1, <1>2 DEF ChainsOK
  <1>9. IsList(next, prev, old, c) /\ c \in Seq(Elem) /\ ToSet(c) = InBucket(t, b, E)
        /\ t.buckets[b].count = Len(c)
    BY <1>8 DEF ChainIs, IsList
  <1>10. PICK k \in 1..Len(c) : c[k] = e
    BY <1>7, <1>9, InSet
  <1>11. ChainIs(u, b, F, RemoveAt(c, k))
    <2> HIDE DEF next, prev, old
    <2>1. /\ IsList(Write(next, prev[e], next[e]), Write(prev, next[e], prev[e]),
                    IF old = e THEN next[e] ELSE old, RemoveAt(c, k))
          /\ ToSet(RemoveAt(c, k)) = ToSet(c) \ {e}
      BY <1>3, <1>9, <1>10, ListRemove
    <2>2. Len(RemoveAt(c, k)) = Len(c) - 1
      BY <1>9, RemoveFacts
    <2> QED
      BY <1>4, <1>5, <1>6, <1>7, <1>9, <2>1, <2>2 DEF ChainIs, first
  <1>12. next[e] \in ToSet(c) \cup {NULL} /\ prev[e] \in ToSet(c) \cup {NULL}
    BY <1>9, <1>10, InSet DEF IsList, Nth
  <1>13. ASSUME NEW y \in Buckets(t), y # b PROVE \E d : ChainIs(u, y, F, d)
    <2>1. PICK d : ChainIs(t, y, E, d)
      BY <1>1 DEF ChainsOK
    <2>2. ToSet(d) \subseteq Elem /\ \A z \in ToSet(d) : z # next[e] /\ z # prev[e]
      <3>1. ToSet(d) = InBucket(t, y, E)
        BY <2>1 DEF ChainIs
      <3>2. \A z \in ToSet(d) : z \in Elem /\ z # NULL /\ Bkt(t, KeyOf[z]) = y
        BY <1>1, <3>1, Caps DEF InBucket
      <3>3. \A z \in ToSet(c) : Bkt(t, KeyOf[z]) = b
        BY <1>9 DEF InBucket
      <3> QED
        BY <1>12, <1>13, <3>2, <3>3
    <2>3. \A z \in ToSet(d) : u.hh_next[z] = next[z] /\ u.hh_prev[z] = prev[z]
      <3> HIDE DEF next, prev
      <3> QED
        BY <1>3, <1>4, <2>2 DEF Write, Ptrs
    <2>4. IsList(u.hh_next, u.hh_prev, t.buckets[y].hh_head, d)
      BY <2>1, <2>3, ListFrame DEF ChainIs
    <2> QED
      BY <1>5, <1>6, <1>7, <1>13, <2>1, <2>4 DEF ChainIs
  <1>14. ChainsOK(u, F)
    BY <1>6, <1>11, <1>13 DEF ChainsOK
  <1>15. Total(Counts(u), u.num_buckets, x - 1)
    <2> DEFINE d == 0 - 1
    <2>1. d \in Int /\ u.buckets[b].count = t.buckets[b].count + d /\ x + d = x - 1
      BY <1>1, <1>3, <1>5
    <2> HIDE DEF d
    <2>2. Total(Counts(u), u.num_buckets, x + d)
      BY <1>1, <1>2, <1>4, <1>5, <1>6, <2>1, CountsUpdate
    <2> QED
      BY <2>1, <2>2
  <1>16. BoundOK(u)
    <2>1. u.noexpand = t.noexpand /\ u.ideal_chain_maxlen = t.ideal_chain_maxlen
      BY <1>4 DEF SameSize
    <2>2. ASSUME Balanced(t) PROVE Balanced(u)
      <3> DEFINE cnt == t.buckets[b].count
                 m == t.buckets[b].expand_mult
                 ideal == t.ideal_chain_maxlen
      <3>1. Thresh \in Int /\ ideal \in Int
        BY <1>1, Caps, TableTypes DEF Thresh
      <3>2. cnt < (m + 1) * Thresh \/ cnt <= ideal
        BY <1>2, <2>2 DEF Balanced, Short
      <3>3. Short(u.buckets[b], ideal)
        <4>1. (m + 1) * Thresh \in Int /\ cnt \in Int
          BY <1>3, <3>1
        <4> DEFINE lim == (m + 1) * Thresh
        <4>2. cnt - 1 < lim \/ cnt - 1 <= ideal
          <5>1. lim \in Int /\ cnt \in Int /\ ideal \in Int /\ (cnt < lim \/ cnt <= ideal)
            BY <3>1, <3>2, <4>1
          <5> HIDE DEF lim, cnt, ideal
          <5> QED
            BY ONLY <5>1
        <4> QED
          BY <1>5, <4>2 DEF Short
      <3>4. Weight(u.buckets[b]) <= Weight(t.buckets[b])
        <4>1. /\ Weight(u.buckets[b]) = IF m > 0 THEN m ELSE IF cnt - 1 >= Thresh THEN 1 ELSE 0
              /\ Weight(t.buckets[b]) = IF m > 0 THEN m ELSE IF cnt >= Thresh THEN 1 ELSE 0
          BY <1>5 DEF Weight
        <4> HIDE DEF cnt, m
        <4> QED
          BY <1>3, <3>1, <4>1 DEF cnt, m
      <3> QED
        <4>1. /\ \A z \in Buckets(t) : z # b => u.buckets[z] = t.buckets[z]
              /\ u.buckets[b].expand_mult = t.buckets[b].expand_mult
              /\ Short(u.buckets[b], t.ideal_chain_maxlen)
          BY <1>5, <3>3
        <4>2. t \in Table /\ u \in Table /\ SameSize(t, u)
          BY <1>1, <1>4
        <4> HIDE DEF cnt, m, ideal
        <4> QED
          BY <1>2, <2>2, <3>4, <4>1, <4>2, BalancedStep
    <2> QED
      BY <1>1, <2>1, <2>2 DEF BoundOK
  <1> QED
    BY <1>1, <1>4, <1>14, <1>15, <1>16 DEF Filled

--------------------------------------------------------------------------------
(* The whole table holds the elements s, in application order.              *)

KeysDiffer(s) == \A i, j \in 1..Len(s) : KeyOf[s[i]] = KeyOf[s[j]] => i = j
TableOK(t, s) == ListOK(t, s) /\ Filled(t, ToSet(s), Len(s)) /\ KeysDiffer(s)

LEMMA FilledSame ==
    ASSUME NEW t, NEW u \in Table, NEW E, NEW x, Filled(t, E, x), SameChains(t, u), SameSize(t, u)
    PROVE  Filled(u, E, x)
  <1>1. ChainsOK(u, E)
    BY ChainsSame DEF Filled, SameSize
  <1>2. Counts(u) = Counts(t) /\ Weights(u) = Weights(t) /\ Buckets(u) = Buckets(t)
    BY DEF Counts, Weights, Buckets, SameChains, SameSize
  <1>3. Balanced(t) => Balanced(u)
    BY <1>2 DEF Balanced, SameChains, SameSize
  <1> QED
    BY <1>1, <1>2, <1>3 DEF Filled, BoundOK, SameSize

LEMMA MakeFacts ==
    ASSUME NEW head \in Ptr, NEW t, t = HASH_MAKE_TABLE(head)
    PROVE  /\ t.head = head /\ t.tail = head /\ t.num_items = 0
           /\ \A e \in Elem : t.next[e] = NULL /\ t.prev[e] = NULL
           /\ Filled(t, {}, 0)
  <1> DEFINE n == HASH_INITIAL_NUM_BUCKETS
  <1>1. n \in Nat /\ n > 0 /\ Thresh \in Int /\ Thresh > 0
    BY Caps DEF Thresh
  <1>2. /\ t.head = head /\ t.tail = head /\ t.num_items = 0 /\ t.num_buckets = n
        /\ t.buckets = NoBuckets(n) /\ t.ideal_chain_maxlen = 0
        /\ t.next = [e \in Elem |-> NULL] /\ t.prev = [e \in Elem |-> NULL]
        /\ t.hh_next = [e \in Elem |-> NULL] /\ t.hh_prev = [e \in Elem |-> NULL]
    BY DEF HASH_MAKE_TABLE
  <1>3. [e \in Elem |-> NULL] \in Ptrs
    BY DEF Ptrs, Ptr
  <1>4. UT_hash_bucket \in Bucket
    BY DEF UT_hash_bucket, Bucket, Ptr
  <1>5. NoBuckets(n) \in [0..(n - 1) -> Bucket]
    BY <1>4 DEF NoBuckets
  <1>6. t \in [head : Ptr, tail : Ptr, num_items : Int, num_buckets : Nat,
               buckets : {t.buckets},
               ideal_chain_maxlen : Int, nonideal_items : Int, ineff_expands : Int,
               noexpand : Int, prev : Ptrs, next : Ptrs, hh_prev : Ptrs, hh_next : Ptrs]
    <2> DEFINE none == [e \in Elem |-> NULL]
               bs == NoBuckets(n)
    <2>1. none \in Ptrs /\ t.buckets = bs
      BY <1>2, <1>3
    <2>2. t = [head |-> head, tail |-> head, num_items |-> 0, num_buckets |-> n, buckets |-> bs,
               ideal_chain_maxlen |-> 0, nonideal_items |-> 0, ineff_expands |-> 0,
               noexpand |-> 0, prev |-> none, next |-> none, hh_prev |-> none, hh_next |-> none]
      BY DEF HASH_MAKE_TABLE
    <2> HIDE DEF none, bs, n
    <2> QED
      BY <1>1, <2>1, <2>2
  <1>7. t \in Table
    BY <1>1, <1>2, <1>5, <1>6, IsTable
  <1>8. ASSUME NEW b \in Buckets(t)
        PROVE  /\ t.buckets[b].hh_head = NULL /\ t.buckets[b].count = 0
               /\ t.buckets[b].expand_mult = 0
    BY <1>2 DEF Buckets, NoBuckets, UT_hash_bucket
  <1>9. ChainsOK(t, {})
    <2> SUFFICES ASSUME NEW b \in Buckets(t) PROVE ChainIs(t, b, {}, <<>>)
      BY DEF ChainsOK
    <2>1. IsList(t.hh_next, t.hh_prev, NULL, <<>>) /\ ToSet(<<>>) = {}
      BY EmptyList
    <2> QED
      BY <1>8, <2>1 DEF ChainIs, InBucket
  <1>10. ASSUME NEW f, \A b \in 0..(n - 1) : f[b] = 0 PROVE Total(f, n, 0)
    <2> DEFINE g == [i \in 0..n |-> 0]
    <2>1. Sums(g, f, n) /\ g[n] = 0
      BY <1>1, <1>10 DEF Sums
    <2> QED
      BY <2>1 DEF Total
  <1>11. Total(Counts(t), n, 0) /\ Total(Weights(t), n, 0)
    <2>1. \A b \in 0..(n - 1) : Counts(t)[b] = 0
      BY <1>2, <1>8 DEF Counts, Buckets
    <2>2. \A b \in 0..(n - 1) : Weights(t)[b] = 0
      BY <1>1, <1>2, <1>8 DEF Weights, Weight, Buckets
    <2> QED
      BY <1>10, <2>1, <2>2
  <1>12. Balanced(t)
    <2>1. \A b \in Buckets(t) : Short(t.buckets[b], t.ideal_chain_maxlen)
      BY <1>2, <1>8 DEF Short
    <2>2. 0 \in Int /\ 0 <= n
      BY <1>1
    <2> QED
      BY <1>1, <1>2, <1>8, <1>11, <2>1, <2>2 DEF Balanced
  <1> QED
    BY <1>2, <1>7, <1>9, <1>11, <1>12 DEF Filled, BoundOK

LEMMA ClearOK ==
    ASSUME NEW t
    PROVE  TableOK(HASH_MAKE_TABLE(NULL), <<>>) /\ TableOK(HASH_CLEAR(t), <<>>)
  <1> DEFINE u == HASH_MAKE_TABLE(NULL)
  <1>1. NULL \in Ptr
    BY DEF Ptr
  <1>2. u.head = NULL /\ u.tail = NULL /\ u.num_items = 0 /\ Filled(u, {}, 0)
    BY <1>1, MakeFacts
  <1> HIDE DEF u
  <1>3. IsList(u.next, u.prev, NULL, <<>>) /\ ToSet(<<>>) = {}
    BY EmptyList
  <1>4. Len(<<>>) = 0 /\ Nth(<<>>, 0) = NULL /\ KeysDiffer(<<>>)
    BY DEF Nth, KeysDiffer
  <1> QED
    BY <1>2, <1>3, <1>4 DEF u, TableOK, ListOK, HASH_CLEAR

LEMMA TableTyped ==
    ASSUME NEW t, NEW s, TableOK(t, s)
    PROVE  /\ t \in Table /\ s \in Seq(Elem) /\ OneToOne(s) /\ Len(s) \in Nat
           /\ IsList(t.next, t.prev, t.head, s) /\ t.next \in Ptrs /\ t.prev \in Ptrs
           /\ ToSet(s) \subseteq Elem /\ ToSet(s) = {s[i] : i \in 1..Len(s)}
           /\ t.head = NULL <=> s = <<>>
           /\ Len(s) = 0 <=> s = <<>>
  <1>1. t \in Table /\ IsList(t.next, t.prev, t.head, s)
    BY DEF TableOK, ListOK, Filled
  <1>2. s \in Seq(Elem) /\ OneToOne(s) /\ t.head = Nth(s, 1)
    BY <1>1 DEF IsList
  <1>3. t.next \in Ptrs /\ t.prev \in Ptrs
    BY <1>1, TableTypes
  <1>4. Len(s) \in Nat /\ (Len(s) = 0 <=> s = <<>>)
    BY <1>2
  <1>5. t.head = NULL <=> s = <<>>
    <2>1. Len(s) > 0 => s[1] \in Elem
      BY <1>2
    <2> QED
      BY <1>2, <1>4, <2>1, Caps DEF Nth
  <1> QED
    BY <1>1, <1>2, <1>3, <1>4, <1>5, InSet

LEMMA KeysAppend ==
    ASSUME NEW s \in Seq(Elem), KeysDiffer(s), NEW e \in Elem,
           \A i \in 1..Len(s) : KeyOf[s[i]] # KeyOf[e]
    PROVE  KeysDiffer(Append(s, e))
  <1> DEFINE r == Append(s, e)
  <1>1. /\ Len(r) = Len(s) + 1 /\ r[Len(s) + 1] = e /\ Len(s) \in Nat
        /\ \A i \in 1..Len(s) : r[i] = s[i]
    OBVIOUS
  <1> HIDE DEF r
  <1>2. \A i \in 1..Len(r) : i \in 1..Len(s) \/ i = Len(s) + 1
    BY <1>1
  <1>3. KeysDiffer(r)
    BY <1>1, <1>2 DEF KeysDiffer
  <1> QED
    BY <1>3 DEF r

LEMMA KeysRemove ==
    ASSUME NEW s \in Seq(Elem), KeysDiffer(s), NEW k \in 1..Len(s)
    PROVE  KeysDiffer(RemoveAt(s, k))
  <1> DEFINE r == RemoveAt(s, k)
             at(i) == IF i < k THEN i ELSE i + 1
  <1>1. /\ Len(r) = Len(s) - 1 /\ \A i \in 1..(k - 1) : r[i] = s[i]
        /\ \A i \in k..(Len(s) - 1) : r[i] = s[i + 1]
    BY RemoveFacts
  <1> HIDE DEF r
  <1>2. ASSUME NEW i \in 1..Len(r) PROVE r[i] = s[at(i)] /\ at(i) \in 1..Len(s) /\ i \in Int
    BY <1>1
  <1>3. ASSUME NEW i \in 1..Len(r), NEW j \in 1..Len(r), KeyOf[r[i]] = KeyOf[r[j]] PROVE i = j
    <2>1. at(i) = at(j)
      BY <1>2, <1>3 DEF KeysDiffer
    <2> QED
      BY <1>2, <2>1
  <1> QED
    BY <1>3 DEF KeysDiffer, r

(* HASH_ADD_KEYPTR. *)
LEMMA AddOK ==
    ASSUME NEW t, NEW s, TableOK(t, s), NEW e \in Elem,
           \A i \in 1..Len(s) : KeyOf[s[i]] # KeyOf[e]
    PROVE  TableOK(HASH_ADD_KEYPTR(t, e), Append(s, e)) /\ e \notin ToSet(s)
  <1> DEFINE u == IF t.head = NULL
                  THEN HASH_MAKE_TABLE(e)
                  ELSE [t EXCEPT !.next = [Write(@, t.tail, e) EXCEPT ![e] = NULL],
                                 !.prev[e] = t.tail,
                                 !.tail = e]
             v == [u EXCEPT !.num_items = @ + 1]
             b == Bkt(v, KeyOf[e])
             r == Append(s, e)
  <1>1. HASH_ADD_KEYPTR(t, e) = HASH_ADD_TO_BKT(v, b, e)
    BY DEF HASH_ADD_KEYPTR
  <1>2. /\ t \in Table /\ s \in Seq(Elem) /\ OneToOne(s) /\ Len(s) \in Nat
        /\ IsList(t.next, t.prev, t.head, s) /\ t.next \in Ptrs /\ t.prev \in Ptrs
        /\ ToSet(s) \subseteq Elem /\ ToSet(s) = {s[i] : i \in 1..Len(s)}
        /\ t.head = NULL <=> s = <<>>
        /\ Len(s) = 0 <=> s = <<>>
    BY TableTyped
  <1>3. e \notin ToSet(s) /\ e \in Ptr /\ e # NULL
    BY <1>2, Caps DEF Ptr
  <1>4. ListOK(t, s) /\ Filled(t, ToSet(s), Len(s)) /\ KeysDiffer(s)
    BY DEF TableOK
  <1>5. KeysDiffer(r)
    BY <1>2, <1>4, KeysAppend
  <1>6. /\ v \in Table /\ Filled(v, ToSet(s), Len(s)) /\ v.num_items = Len(s) + 1
        /\ IsList(v.next, v.prev, v.head, r) /\ v.tail = Nth(r, Len(r))
        /\ Len(r) = Len(s) + 1 /\ ToSet(r) = ToSet(s) \cup {e}
    <2>1. CASE t.head = NULL
      <3>1. u = HASH_MAKE_TABLE(e)
        BY <2>1
      <3> HIDE DEF u
      <3>2. /\ u.head = e /\ u.tail = e /\ u.num_items = 0
            /\ \A f \in Elem : u.next[f] = NULL /\ u.prev[f] = NULL
            /\ Filled(u, {}, 0)
        BY <1>3, <3>1, MakeFacts
      <3>3. u \in Table /\ u \in UT_hash_table
        BY <3>2, TableTypes DEF Filled
      <3>4. /\ SameChains(u, v) /\ SameSize(u, v) /\ v.num_items = 1 /\ v.head = e /\ v.tail = e
            /\ v.next = u.next /\ v.prev = u.prev
        BY <3>2, <3>3 DEF UT_hash_table, SameChains, SameSize
      <3>5. v \in Table
        <4>1. v \in [head : Ptr, tail : Ptr, num_items : Int, num_buckets : Nat,
                     buckets : {v.buckets},
                     ideal_chain_maxlen : Int, nonideal_items : Int, ineff_expands : Int,
                     noexpand : Int, prev : Ptrs, next : Ptrs, hh_prev : Ptrs, hh_next : Ptrs]
          BY <3>2, <3>3 DEF UT_hash_table
        <4>2. v.num_buckets > 0 /\ v.buckets \in [0..(v.num_buckets - 1) -> Bucket]
          BY <3>3, <3>4, TableTypes DEF SameChains, SameSize, Buckets
        <4> HIDE DEF v
        <4> QED
          BY <4>1, <4>2, IsTable
      <3> HIDE DEF v
      <3>6. Filled(v, {}, 0)
        BY <3>2, <3>4, <3>5, FilledSame
      <3>7. s = <<>> /\ r = <<e>> /\ Len(s) = 0 /\ ToSet(s) = {}
        BY <1>2, <2>1
      <3>8. IsList(v.next, v.prev, e, <<e>>) /\ ToSet(<<e>>) = {e} /\ Len(<<e>>) = 1
        BY <3>2, <3>4, ListOfOne
      <3>9. Nth(<<e>>, 1) = e
        BY DEF Nth
      <3> HIDE DEF r
      <3>10. Len(s) + 1 = 1 /\ Len(r) = 1 /\ ToSet(r) = ToSet(s) \cup {e} /\ Nth(r, Len(r)) = e
        BY <3>7, <3>8, <3>9
      <3> QED
        BY <3>4, <3>5, <3>6, <3>7, <3>8, <3>10
    <2>2. CASE t.head # NULL
      <3> DEFINE last == Nth(s, Len(s))
                 n2 == [Write(t.next, t.tail, e) EXCEPT ![e] = NULL]
                 p2 == [t.prev EXCEPT ![e] = t.tail]
      <3>1. /\ t \in UT_hash_table /\ t.tail \in Ptr /\ t.num_items = Len(s)
            /\ t.tail = last /\ t.num_buckets > 0 /\ t.buckets \in [Buckets(t) -> Bucket]
        BY <1>2, <1>4, TableTypes DEF ListOK
      <3>2. Write(t.next, t.tail, e) \in Ptrs
        BY <1>2, <1>3, <3>1, WriteType
      <3>3. n2 \in Ptrs /\ p2 \in Ptrs
        BY <1>2, <3>1, <3>2 DEF Ptrs, Ptr
      <3>4. u = [t EXCEPT !.next = n2, !.prev = p2, !.tail = e]
        BY <2>2, <3>1 DEF UT_hash_table
      <3> HIDE DEF u, n2, p2
      <3>5. v = [t EXCEPT !.next = n2, !.prev = p2, !.tail = e, !.num_items = Len(s) + 1]
        BY <3>1, <3>4 DEF UT_hash_table
      <3> HIDE DEF v, last
      <3>6. /\ SameChains(t, v) /\ SameSize(t, v) /\ v.num_items = Len(s) + 1
            /\ v.head = t.head /\ v.tail = e /\ v.next = n2 /\ v.prev = p2
        BY <3>1, <3>5 DEF UT_hash_table, SameChains, SameSize
      <3>7. v \in Table
        <4>1. v \in [head : Ptr, tail : Ptr, num_items : Int, num_buckets : Nat,
                     buckets : {v.buckets},
                     ideal_chain_maxlen : Int, nonideal_items : Int, ineff_expands : Int,
                     noexpand : Int, prev : Ptrs, next : Ptrs, hh_prev : Ptrs, hh_next : Ptrs]
          <5> DEFINE n1 == Len(s) + 1
          <5>1. n1 \in Int /\ e \in Ptr
            BY <1>2, <1>3
          <5>2. v = [t EXCEPT !.next = n2, !.prev = p2, !.tail = e, !.num_items = n1]
            BY <3>5
          <5> HIDE DEF n1
          <5>3. v.buckets \in {v.buckets}
            OBVIOUS
          <5> QED
            BY <3>1, <3>3, <5>1, <5>2, <5>3 DEF UT_hash_table
        <4>2. v.num_buckets > 0 /\ v.buckets \in [0..(v.num_buckets - 1) -> Bucket]
          BY <3>1, <3>6 DEF SameChains, SameSize, Buckets
        <4> QED
          BY <4>1, <4>2, IsTable
      <3>8. Filled(v, ToSet(s), Len(s))
        BY <1>4, <3>6, <3>7, FilledSame
      <3>9. Len(s) > 0
        BY <1>2, <2>2
      <3>10. /\ IsList([Write(t.next, Nth(s, Len(s)), e) EXCEPT ![e] = NULL],
                       [t.prev EXCEPT ![e] = Nth(s, Len(s))], t.head, r)
             /\ Len(r) = Len(s) + 1 /\ ToSet(r) = ToSet(s) \cup {e}
             /\ Nth(r, Len(s) + 1) = e
        <4> DEFINE next == t.next
                   prev == t.prev
                   first == t.head
        <4>1. next \in Ptrs /\ prev \in Ptrs /\ IsList(next, prev, first, s)
          BY <1>2
        <4> HIDE DEF next, prev, first
        <4>2. /\ IsList([Write(next, Nth(s, Len(s)), e) EXCEPT ![e] = NULL],
                        [prev EXCEPT ![e] = Nth(s, Len(s))], first, Append(s, e))
              /\ Len(Append(s, e)) = Len(s) + 1 /\ ToSet(Append(s, e)) = ToSet(s) \cup {e}
              /\ Nth(Append(s, e), Len(s) + 1) = e
          BY <1>3, <3>9, <4>1, ListAppend
        <4> QED
          BY <4>2 DEF next, prev, first
      <3>11. IsList(v.next, v.prev, v.head, r)
        BY <3>1, <3>6, <3>10 DEF n2, p2, last
      <3> QED
        BY <3>6, <3>7, <3>8, <3>10, <3>11
    <2> QED
      BY <2>1, <2>2
  <1> HIDE DEF v, r
  <1> DEFINE w == HASH_ADD_TO_BKT(v, b, e)
  <1>7. Filled(w, ToSet(s) \cup {e}, Len(s) + 1) /\ SameList(v, w)
    <2> DEFINE E == ToSet(s)
               x == Len(s)
    <2>1. /\ Filled(v, E, x) /\ x >= 0 /\ v.num_items = x + 1 /\ e \notin E
          /\ b = Bkt(v, KeyOf[e]) /\ w = HASH_ADD_TO_BKT(v, b, e)
      BY <1>2, <1>3, <1>6
    <2> HIDE DEF E, x, b, w
    <2>2. Filled(w, E \cup {e}, x + 1) /\ SameList(v, w)
      BY <2>1, AddToBkt
    <2> QED
      BY <2>2 DEF E, x
  <1> HIDE DEF w, b
  <1>8. TableOK(w, r)
    BY <1>5, <1>6, <1>7 DEF TableOK, ListOK, SameList
  <1> QED
    BY <1>1, <1>3, <1>8 DEF w, r

(* HASH_DELETE. *)
LEMMA DeleteOK ==
    ASSUME NEW t, NEW s, TableOK(t, s), NEW k \in 1..Len(s), NEW e, e = s[k]
    PROVE  /\ TableOK(HASH_DELETE(t, e), RemoveAt(s, k))
           /\ e \in Elem /\ e \notin ToSet(RemoveAt(s, k))
  <1> DEFINE r == RemoveAt(s, k)
             next == t.next
             prev == t.prev
             n2 == Write(next, prev[e], next[e])
             p2 == Write(prev, next[e], prev[e])
             tail2 == IF t.tail = e THEN prev[e] ELSE t.tail
             head2 == IF prev[e] = NULL THEN next[e] ELSE t.head
             u == [t EXCEPT !.tail = IF @ = e THEN t.prev[e] ELSE @,
                            !.head = IF t.prev[e] = NULL THEN t.next[e] ELSE @,
                            !.next = Write(@, t.prev[e], t.next[e]),
                            !.prev = Write(@, t.next[e], t.prev[e]),
                            !.num_items = @ - 1]
             b == Bkt(u, KeyOf[e])
  <1>1. /\ t \in Table /\ s \in Seq(Elem) /\ OneToOne(s) /\ Len(s) \in Nat
        /\ IsList(next, prev, t.head, s) /\ next \in Ptrs /\ prev \in Ptrs
        /\ ToSet(s) \subseteq Elem /\ ToSet(s) = {s[i] : i \in 1..Len(s)}
    BY TableTyped
  <1>2. e \in Elem /\ e \in ToSet(s)
    BY <1>1
  <1>3. ListOK(t, s) /\ Filled(t, ToSet(s), Len(s)) /\ KeysDiffer(s)
    BY DEF TableOK
  <1>4. KeysDiffer(r) /\ r \in Seq(Elem) /\ Len(r) = Len(s) - 1
    BY <1>1, <1>3, KeysRemove, RemoveFacts
  <1>5. t.tail = Nth(s, Len(s)) /\ t.num_items = Len(s)
    BY <1>3 DEF ListOK
  <1>6. /\ IsList(n2, p2, IF t.head = e THEN next[e] ELSE t.head, r)
        /\ ToSet(r) = ToSet(s) \ {e}
        /\ t.head = e <=> prev[e] = NULL
        /\ t.tail = e <=> next[e] = NULL
        /\ Nth(r, Len(s) - 1) = IF t.tail = e THEN prev[e] ELSE t.tail
    <2> DEFINE first == t.head
               last == t.tail
    <2>1. IsList(next, prev, first, s) /\ last = Nth(s, Len(s))
      BY <1>1, <1>5
    <2> HIDE DEF next, prev, first, last
    <2>2. /\ IsList(Write(next, prev[e], next[e]), Write(prev, next[e], prev[e]),
                    IF first = e THEN next[e] ELSE first, RemoveAt(s, k))
          /\ ToSet(RemoveAt(s, k)) = ToSet(s) \ {e}
          /\ first = e <=> prev[e] = NULL
          /\ Nth(s, Len(s)) = e <=> next[e] = NULL
          /\ Nth(RemoveAt(s, k), Len(s) - 1)
               = IF Nth(s, Len(s)) = e THEN prev[e] ELSE Nth(s, Len(s))
      BY <1>1, <2>1, ListRemove
    <2> QED
      BY <2>1, <2>2 DEF first, last
  <1>7. e \notin ToSet(r)
    BY <1>6
  <1>8. CASE prev[e] = NULL /\ next[e] = NULL
    <2>1. HASH_DELETE(t, e) = HASH_CLEAR(t)
      BY <1>8 DEF HASH_DELETE
    <2> HIDE DEF r, n2, p2
    <2>2. Nth(r, 1) = NULL
      BY <1>6, <1>8 DEF IsList
    <2>3. Len(r) > 0 => r[1] \in Elem
      BY <1>4
    <2>4. Len(r) = 0
      BY <1>4, <2>2, <2>3, Caps DEF Nth
    <2>5. r = <<>>
      BY <1>4, <2>4
    <2> QED
      BY <1>2, <1>7, <2>1, <2>5, ClearOK DEF r
  <1>9. CASE ~(prev[e] = NULL /\ next[e] = NULL)
    <2>1. HASH_DELETE(t, e) = HASH_DEL_IN_BKT(u, b, e)
      BY <1>9 DEF HASH_DELETE
    <2>2. /\ t \in UT_hash_table /\ t.tail \in Ptr /\ t.head \in Ptr
          /\ t.num_buckets > 0 /\ t.buckets \in [Buckets(t) -> Bucket]
      BY <1>1, TableTypes
    <2>3. next[e] \in Ptr /\ prev[e] \in Ptr
      BY <1>1, <1>2 DEF Ptrs
    <2>4. n2 \in Ptrs /\ p2 \in Ptrs /\ tail2 \in Ptr /\ head2 \in Ptr
      BY <1>1, <2>2, <2>3, WriteType
    <2>5. u = [t EXCEPT !.tail = tail2, !.head = head2, !.next = n2, !.prev = p2,
                        !.num_items = Len(s) - 1]
      BY <1>5, <2>2 DEF UT_hash_table
    <2> DEFINE n1 == Len(s) - 1
    <2>6. n1 \in Int /\ u = [t EXCEPT !.tail = tail2, !.head = head2, !.next = n2, !.prev = p2,
                                      !.num_items = n1]
      BY <1>1, <2>5
    <2> HIDE DEF u, n2, p2, tail2, head2, n1, r
    <2>7. /\ SameChains(t, u) /\ SameSize(t, u) /\ u.num_items = n1
          /\ u.head = head2 /\ u.tail = tail2 /\ u.next = n2 /\ u.prev = p2
      BY <2>2, <2>6 DEF UT_hash_table, SameChains, SameSize
    <2>8. u \in Table
      <3>1. u.buckets \in {u.buckets}
        OBVIOUS
      <3>2. u \in [head : Ptr, tail : Ptr, num_items : Int, num_buckets : Nat,
                   buckets : {u.buckets},
                   ideal_chain_maxlen : Int, nonideal_items : Int, ineff_expands : Int,
                   noexpand : Int, prev : Ptrs, next : Ptrs, hh_prev : Ptrs, hh_next : Ptrs]
        BY <2>2, <2>4, <2>6, <3>1 DEF UT_hash_table
      <3>3. u.num_buckets > 0 /\ u.buckets \in [0..(u.num_buckets - 1) -> Bucket]
        BY <2>2, <2>7 DEF SameChains, SameSize, Buckets
      <3> QED
        BY <3>2, <3>3, IsTable
    <2>9. Filled(u, ToSet(s), Len(s))
      BY <1>3, <2>7, <2>8, FilledSame
    <2> DEFINE w == HASH_DEL_IN_BKT(u, b, e)
    <2>10. Filled(w, ToSet(r), Len(r)) /\ SameList(u, w)
      <3> DEFINE E == ToSet(s)
                 x == Len(s)
      <3>1. Filled(u, E, x) /\ e \in E /\ b = Bkt(u, KeyOf[e]) /\ w = HASH_DEL_IN_BKT(u, b, e)
        BY <1>2, <2>9
      <3> HIDE DEF E, x, b, w
      <3>2. Filled(w, E \ {e}, x - 1) /\ SameList(u, w)
        BY <3>1, DelInBkt
      <3> QED
        BY <1>4, <1>6, <3>2 DEF E, x
    <2> HIDE DEF w, b
    <2>11. /\ IsList(w.next, w.prev, w.head, r) /\ w.tail = Nth(r, Len(r))
           /\ w.num_items = Len(r)
      BY <1>4, <1>6, <2>7, <2>10 DEF SameList, head2, tail2, n1
    <2> QED
      BY <1>2, <1>4, <1>7, <2>1, <2>10, <2>11 DEF TableOK, ListOK, w, r
  <1> QED
    BY <1>8, <1>9

(* An element that is not in the table is freed. *)
LEMMA FreedOK ==
    ASSUME NEW t, NEW s, TableOK(t, s), NEW e \in Ptr, e \notin ToSet(s)
    PROVE  TableOK(Freed(t, e), s)
  <1> DEFINE clr(f) == Write(f, e, NULL)
             u == [t EXCEPT !.prev = clr(t.prev), !.next = clr(t.next),
                            !.hh_prev = clr(t.hh_prev), !.hh_next = clr(t.hh_next)]
  <1>1. /\ t \in Table /\ ToSet(s) \subseteq Elem /\ IsList(t.next, t.prev, t.head, s)
    BY TableTyped
  <1>2. /\ t \in UT_hash_table /\ t.prev \in Ptrs /\ t.next \in Ptrs
        /\ t.hh_prev \in Ptrs /\ t.hh_next \in Ptrs
        /\ t.num_buckets > 0 /\ t.buckets \in [Buckets(t) -> Bucket]
    BY <1>1, TableTypes
  <1>3. u = Freed(t, e)
    BY <1>2 DEF Freed, UT_hash_table
  <1>4. /\ clr(t.prev) \in Ptrs /\ clr(t.next) \in Ptrs
        /\ clr(t.hh_prev) \in Ptrs /\ clr(t.hh_next) \in Ptrs
    <2>1. NULL \in Ptr
      BY DEF Ptr
    <2> QED
      BY <1>2, <2>1, WriteType
  <1>5. \A f \in Ptrs : \A x \in Elem : x # e => clr(f)[x] = f[x]
    BY DEF Write, Ptrs
  <1> HIDE DEF clr
  <1>6. /\ u.prev = clr(t.prev) /\ u.next = clr(t.next)
        /\ u.hh_prev = clr(t.hh_prev) /\ u.hh_next = clr(t.hh_next)
        /\ u.buckets = t.buckets /\ SameSize(t, u)
        /\ u.head = t.head /\ u.tail = t.tail /\ u.num_items = t.num_items
    BY <1>2 DEF UT_hash_table, SameSize
  <1>7. u \in Table
    <2>1. u.buckets \in {u.buckets}
      OBVIOUS
    <2>2. u \in [head : Ptr, tail : Ptr, num_items : Int, num_buckets : Nat,
                 buckets : {u.buckets},
                 ideal_chain_maxlen : Int, nonideal_items : Int, ineff_expands : Int,
                 noexpand : Int, prev : Ptrs, next : Ptrs, hh_prev : Ptrs, hh_next : Ptrs]
      BY <1>2, <1>4, <2>1 DEF UT_hash_table
    <2>3. u.num_buckets > 0 /\ u.buckets \in [0..(u.num_buckets - 1) -> Bucket]
      BY <1>2, <1>6 DEF SameSize, Buckets
    <2> HIDE DEF u
    <2> QED
      BY <2>2, <2>3, IsTable
  <1> HIDE DEF u
  <1>8. \A x \in ToSet(s) : /\ u.prev[x] = t.prev[x] /\ u.next[x] = t.next[x]
                            /\ u.hh_prev[x] = t.hh_prev[x] /\ u.hh_next[x] = t.hh_next[x]
    BY <1>1, <1>2, <1>5, <1>6
  <1>9. ListOK(u, s)
    <2>1. IsList(u.next, u.prev, t.head, s)
      BY <1>1, <1>8, ListFrame
    <2> QED
      BY <1>6, <2>1 DEF TableOK, ListOK
  <1>10. ChainsOK(u, ToSet(s))
    <2>1. /\ Buckets(u) = Buckets(t)
          /\ \A b, E : InBucket(u, b, E) = InBucket(t, b, E)
      BY <1>6, SameBkt DEF SameSize
    <2> SUFFICES ASSUME NEW b \in Buckets(t) PROVE \E c : ChainIs(u, b, ToSet(s), c)
      BY <2>1 DEF ChainsOK
    <2>2. PICK c : ChainIs(t, b, ToSet(s), c)
      BY DEF TableOK, Filled, ChainsOK
    <2>3. ToSet(c) \subseteq ToSet(s)
      BY <2>2 DEF ChainIs, InBucket
    <2>4. IsList(u.hh_next, u.hh_prev, t.buckets[b].hh_head, c)
      BY <1>8, <2>2, <2>3, ListFrame DEF ChainIs
    <2>5. ChainIs(u, b, ToSet(s), c)
      BY <1>6, <2>1, <2>2, <2>4 DEF ChainIs
    <2> QED
      BY <2>5
  <1>11. Counts(u) = Counts(t) /\ Weights(u) = Weights(t) /\ Buckets(u) = Buckets(t)
    BY <1>6 DEF Counts, Weights, Buckets, SameSize
  <1>12. BoundOK(t) => BoundOK(u)
    BY <1>6, <1>11 DEF BoundOK, Balanced, SameSize
  <1>13. Filled(u, ToSet(s), Len(s))
    BY <1>6, <1>7, <1>10, <1>11, <1>12 DEF TableOK, Filled, SameSize
  <1> QED
    BY <1>3, <1>9, <1>13 DEF TableOK

(* HASH_FIND finds the element of the list with the key. *)
LEMMA FindOK ==
    ASSUME NEW t, NEW s, TableOK(t, s), NEW k \in Key
    PROVE  \/ \E i \in 1..Len(s) : KeyOf[s[i]] = k /\ HASH_FIND(t, k) = s[i]
           \/ HASH_FIND(t, k) = NULL /\ \A i \in 1..Len(s) : KeyOf[s[i]] # k
  <1> DEFINE b == Bkt(t, k)
             c == Chain(t, b)
             hits == {i \in 1..Len(c) : KeyOf[c[i]] = k}
             E == ToSet(s)
  <1>1. /\ t \in Table /\ s \in Seq(Elem) /\ Len(s) \in Nat
        /\ ToSet(s) = {s[i] : i \in 1..Len(s)}
        /\ t.head = NULL <=> s = <<>>
        /\ Len(s) = 0 <=> s = <<>>
    BY TableTyped
  <1>2. CASE t.head = NULL
    BY <1>1, <1>2 DEF HASH_FIND
  <1>3. CASE t.head # NULL
    <2>1. HASH_FIND(t, k) = IF hits = {} THEN NULL ELSE c[Min(hits)]
      BY <1>3 DEF HASH_FIND, HASH_FIND_IN_BKT, Chain
    <2>2. b \in Buckets(t) /\ ChainsOK(t, E)
      BY <1>1, BktIn DEF TableOK, Filled
    <2>3. ChainIs(t, b, E, c) /\ c \in Seq(Elem)
      <3> HIDE DEF b, E
      <3> QED
        BY <1>1, <2>2, ChainWalk
    <2> HIDE DEF c
    <2>4. ToSet(c) = {x \in E : Bkt(t, KeyOf[x]) = b} /\ ToSet(c) = {c[i] : i \in 1..Len(c)}
      BY <2>3, InSet DEF ChainIs, InBucket
    <2>5. CASE hits = {}
      <3>1. ASSUME NEW i \in 1..Len(s), KeyOf[s[i]] = k PROVE FALSE
        <4>1. s[i] \in ToSet(c)
          BY <1>1, <2>4, <3>1
        <4>2. PICK j \in 1..Len(c) : c[j] = s[i]
          BY <2>4, <4>1
        <4> QED
          BY <2>5, <3>1, <4>2
      <3> QED
        BY <2>1, <2>5, <3>1
    <2>6. CASE hits # {}
      <3>1. \E x \in hits : \A y \in hits : x <= y
        <4>1. hits \subseteq Nat
          BY <2>3
        <4> HIDE DEF hits
        <4> QED
          BY <2>6, <4>1, LeastNumber
      <3>2. Min(hits) \in hits
        BY <3>1 DEF Min
      <3> DEFINE j == Min(hits)
      <3> HIDE DEF j
      <3>3. j \in 1..Len(c) /\ KeyOf[c[j]] = k
        BY <3>2 DEF j
      <3>4. c[j] \in E
        BY <2>4, <3>3
      <3>5. PICK i \in 1..Len(s) : s[i] = c[j]
        BY <1>1, <3>4
      <3>6. HASH_FIND(t, k) = c[j]
        BY <2>1, <2>6 DEF j
      <3> QED
        BY <3>3, <3>5, <3>6
    <2> QED
      BY <2>5, <2>6
  <1> QED
    BY <1>2, <1>3

--------------------------------------------------------------------------------
(* The merge sort. *)

MergeState(p, q) == [i : 1..(Len(p) + 1), j : 1..(Len(q) + 1), out : Seq(Elem)]
FromP(p, q, m) == m.i <= Len(p) /\ (m.j > Len(q) \/ Rank[p[m.i]] <= Rank[q[m.j]])
MergeStep(p, q, m) ==
    IF FromP(p, q, m) THEN [m EXCEPT !.i = @ + 1, !.out = Append(@, p[m.i])]
                      ELSE [m EXCEPT !.j = @ + 1, !.out = Append(@, q[m.j])]

Takes(p, q, m, u) ==
    \/ /\ FromP(p, q, m) /\ u.i = m.i + 1 /\ u.j = m.j /\ u.out = Append(m.out, p[m.i])
       /\ m.i \in 1..Len(p)
    \/ /\ ~FromP(p, q, m) /\ u.i = m.i /\ u.j = m.j + 1 /\ u.out = Append(m.out, q[m.j])
       /\ m.j \in 1..Len(q)

LEMMA MergeStepFacts ==
    ASSUME NEW p \in Seq(Elem), NEW q \in Seq(Elem), NEW m \in MergeState(p, q),
           m.i + m.j < Len(p) + Len(q) + 2, NEW u, u = MergeStep(p, q, m)
    PROVE  /\ u \in MergeState(p, q) /\ u.i + u.j = m.i + m.j + 1
           /\ Takes(p, q, m, u)
  <1>1. /\ Len(p) \in Nat /\ Len(q) \in Nat /\ m.i \in 1..(Len(p) + 1) /\ m.j \in 1..(Len(q) + 1)
        /\ m.out \in Seq(Elem)
    BY DEF MergeState
  <1>2. CASE FromP(p, q, m)
    <2>1. m.i \in 1..Len(p)
      BY <1>1, <1>2 DEF FromP
    <2>2. p[m.i] \in Elem
      BY <2>1
    <2>3. u = [m EXCEPT !.i = m.i + 1, !.out = Append(m.out, p[m.i])]
      BY <1>2 DEF MergeStep
    <2> DEFINE o == Append(m.out, p[m.i])
               i2 == m.i + 1
    <2>4. o \in Seq(Elem) /\ i2 \in 1..(Len(p) + 1) /\ u = [m EXCEPT !.i = i2, !.out = o]
      BY <1>1, <2>1, <2>2, <2>3
    <2> HIDE DEF o, i2
    <2>5. u \in MergeState(p, q) /\ u.i = i2 /\ u.j = m.j /\ u.out = o
      BY <2>4 DEF MergeState
    <2>6. i2 + m.j = m.i + m.j + 1
      BY <1>1 DEF i2
    <2> QED
      BY <1>2, <2>1, <2>5, <2>6 DEF o, i2, Takes
  <1>3. CASE ~FromP(p, q, m)
    <2>1. m.j \in 1..Len(q)
      <3>1. CASE m.i <= Len(p)
        BY <1>1, <1>3, <3>1 DEF FromP
      <3>2. CASE ~(m.i <= Len(p))
        BY <1>1, <3>2
      <3> QED
        BY <3>1, <3>2
    <2>2. q[m.j] \in Elem
      BY <2>1
    <2>3. u = [m EXCEPT !.j = m.j + 1, !.out = Append(m.out, q[m.j])]
      BY <1>3 DEF MergeStep
    <2> DEFINE o == Append(m.out, q[m.j])
               j2 == m.j + 1
    <2>4. o \in Seq(Elem) /\ j2 \in 1..(Len(q) + 1) /\ u = [m EXCEPT !.j = j2, !.out = o]
      BY <1>1, <2>1, <2>2, <2>3
    <2> HIDE DEF o, j2
    <2>5. u \in MergeState(p, q) /\ u.i = m.i /\ u.j = j2 /\ u.out = o
      BY <2>4 DEF MergeState
    <2>6. m.i + j2 = m.i + m.j + 1
      BY <1>1 DEF j2
    <2> QED
      BY <1>3, <2>1, <2>5, <2>6 DEF o, j2, Takes
  <1> QED
    BY <1>2, <1>3

MergeRun(p, q, f, N) ==
    /\ f \in [0..N -> MergeState(p, q)]
    /\ f[0] = [i |-> 1, j |-> 1, out |-> <<>>]
    /\ \A k \in 0..N : f[k].i + f[k].j = k + 2
    /\ \A k \in 1..N : f[k] = MergeStep(p, q, f[k - 1])
    /\ Merge(p, q) = f[N].out

LEMMA MergeDef ==
    ASSUME NEW p \in Seq(Elem), NEW q \in Seq(Elem), NEW N, N = Len(p) + Len(q)
    PROVE  \E f : MergeRun(p, q, f, N)
  <1> DEFINE base == [i |-> 1, j |-> 1, out |-> <<>>]
             after == CHOOSE f : f = [k \in 0..N |-> IF k = 0 THEN base
                                                     ELSE MergeStep(p, q, f[k - 1])]
             T == MergeState(p, q)
             Next1(m) == IF m.i + m.j < Len(p) + Len(q) + 2 THEN MergeStep(p, q, m) ELSE m
             step == [x \in (1..N) \X T |-> Next1(x[2])]
  <1>1. N \in Nat /\ Len(p) \in Nat /\ Len(q) \in Nat
    OBVIOUS
  <1>2. Merge(p, q) = after[N].out
    BY DEF Merge, MergeStep, FromP
  <1>3. base \in T /\ base.i + base.j = 2
    BY <1>1 DEF MergeState
  <1>4. ASSUME NEW m \in T PROVE Next1(m) \in T
    BY MergeStepFacts
  <1>5. step \in [(1..N) \X T -> T]
    <2> HIDE DEF Next1, T
    <2> QED
      BY <1>4
  <1>6. \A k \in 1..N, m \in T : step[<<k, m>>] = Next1(m)
    OBVIOUS
  <1> HIDE DEF step, base
  <1>7. PICK f \in [0..N -> T] : Runs(f, N, base, step)
    <2> HIDE DEF T
    <2> QED
      BY <1>1, <1>3, <1>5, Recursion
  <1>8. \A k \in 1..N : k - 1 \in 0..N /\ f[k - 1] \in T /\ f[k] = Next1(f[k - 1])
    <2> HIDE DEF Next1, T
    <2> SUFFICES ASSUME NEW k \in 1..N
                 PROVE  k - 1 \in 0..N /\ f[k - 1] \in T /\ f[k] = Next1(f[k - 1])
      OBVIOUS
    <2>1. k - 1 \in 0..N
      BY <1>1
    <2>2. f[k - 1] \in T
      BY <2>1
    <2> QED
      BY <1>6, <1>7, <2>1, <2>2 DEF Runs
  <1> DEFINE S == {k \in 0..N : f[k].i + f[k].j = k + 2}
  <1>9. 0 \in S
    BY <1>1, <1>3, <1>7 DEF Runs
  <1>10. ASSUME NEW k \in 0..(N - 1), k \in S
         PROVE  k + 1 \in S /\ f[k + 1] = MergeStep(p, q, f[k])
    <2>1. k + 1 \in 1..N /\ k + 1 \in 0..N /\ (k + 1) - 1 = k
      BY <1>1
    <2>2. f[k] \in T /\ f[k + 1] = Next1(f[k])
      BY <1>8, <2>1
    <2>3. f[k].i + f[k].j = k + 2 /\ k + 2 < Len(p) + Len(q) + 2
      BY <1>1, <1>10
    <2> DEFINE m == f[k]
               u == f[k + 1]
    <2> HIDE DEF m, u
    <2>4. u = MergeStep(p, q, m) /\ m \in MergeState(p, q) /\ m.i + m.j < Len(p) + Len(q) + 2
      BY <2>2, <2>3 DEF m, u
    <2>5. u.i + u.j = m.i + m.j + 1
      BY <2>4, MergeStepFacts
    <2>6. u.i + u.j = (k + 1) + 2
      BY <2>3, <2>5 DEF m
    <2> QED
      BY <2>1, <2>4, <2>6 DEF m, u
  <1>11. \A k \in 0..N : k \in S
    <2> HIDE DEF S
    <2> QED
      BY <1>1, <1>9, <1>10, InductionUpTo
  <1>12. \A k \in 1..N : f[k] = MergeStep(p, q, f[k - 1])
    <2> SUFFICES ASSUME NEW k \in 1..N PROVE f[k] = MergeStep(p, q, f[k - 1])
      OBVIOUS
    <2>1. k - 1 \in 0..(N - 1) /\ k - 1 \in 0..N /\ (k - 1) + 1 = k
      BY <1>1
    <2> HIDE DEF S
    <2>2. k - 1 \in S
      BY <1>11, <2>1
    <2>3. f[(k - 1) + 1] = MergeStep(p, q, f[k - 1])
      BY <1>10, <2>1, <2>2
    <2> QED
      BY <2>1, <2>3
  <1>13. f = [k \in 0..N |-> IF k = 0 THEN base ELSE MergeStep(p, q, f[k - 1])]
    <2>1. \A k \in 0..N : f[k] = IF k = 0 THEN base ELSE MergeStep(p, q, f[k - 1])
      BY <1>1, <1>7, <1>12 DEF Runs
    <2> QED
      BY <2>1
  <1>14. after = [k \in 0..N |-> IF k = 0 THEN base ELSE MergeStep(p, q, after[k - 1])]
    BY <1>13
  <1> HIDE DEF after
  <1>15. \A k \in 0..N : after[k] = IF k = 0 THEN base ELSE MergeStep(p, q, after[k - 1])
    BY <1>14
  <1> DEFINE R == {k \in 0..N : after[k] = f[k]}
  <1>16. 0 \in R
    BY <1>1, <1>7, <1>15 DEF Runs
  <1>17. ASSUME NEW k \in 0..(N - 1), k \in R PROVE k + 1 \in R
    <2>1. k + 1 \in 0..N /\ k + 1 \in 1..N /\ k + 1 # 0 /\ (k + 1) - 1 = k
      BY <1>1
    <2> QED
      BY <1>12, <1>15, <1>17, <2>1
  <1>18. \A k \in 0..N : k \in R
    <2> HIDE DEF R
    <2> QED
      BY <1>1, <1>16, <1>17, InductionUpTo
  <1>19. after[N] = f[N] /\ f[0] = base
    <2>1. N \in 0..N
      BY <1>1
    <2> QED
      BY <1>7, <1>18, <2>1 DEF Runs
  <1> QED
    BY <1>2, <1>11, <1>12, <1>19 DEF base, T, MergeRun

(* The order of a stable sort of elements with the positions pos. *)
Lt(pos, e, f) == Rank[e] < Rank[f] \/ (Rank[e] = Rank[f] /\ pos[e] < pos[f])
Ordered(pos, s) == \A i, j \in 1..Len(s) : i < j => Lt(pos, s[i], s[j])

LEMMA LtTrans ==
    ASSUME NEW pos \in [Elem -> Int], NEW e \in Elem, NEW f \in Elem, NEW g \in Elem,
           Lt(pos, e, f), Lt(pos, f, g)
    PROVE  Lt(pos, e, g)
  <1>1. Rank[e] \in Int /\ Rank[f] \in Int /\ Rank[g] \in Int
    BY TableAssumption
  <1>2. pos[e] \in Int /\ pos[f] \in Int /\ pos[g] \in Int
    OBVIOUS
  <1> QED
    BY <1>1, <1>2 DEF Lt

LEMMA AppendFacts ==
    ASSUME NEW S, NEW s \in Seq(S), NEW e \in S
    PROVE  /\ Append(s, e) \in Seq(S) /\ Len(Append(s, e)) = Len(s) + 1
           /\ \A i \in 1..Len(s) : Append(s, e)[i] = s[i]
           /\ Append(s, e)[Len(s) + 1] = e
           /\ ToSet(Append(s, e)) = ToSet(s) \cup {e}
  <1> DEFINE r == Append(s, e)
  <1>1. /\ r \in Seq(S) /\ Len(r) = Len(s) + 1 /\ Len(s) \in Nat
        /\ \A i \in 1..Len(s) : r[i] = s[i]
        /\ r[Len(s) + 1] = e
    OBVIOUS
  <1> HIDE DEF r
  <1>2. ToSet(r) = {r[i] : i \in 1..Len(r)} /\ ToSet(s) = {s[i] : i \in 1..Len(s)}
    BY <1>1, InSet
  <1>3. \A i \in 1..Len(r) : i \in 1..Len(s) \/ i = Len(s) + 1
    BY <1>1
  <1>4. Len(s) + 1 \in 1..Len(r) /\ \A i \in 1..Len(s) : i \in 1..Len(r)
    BY <1>1
  <1>5. ToSet(r) = ToSet(s) \cup {e}
    BY <1>1, <1>2, <1>3, <1>4
  <1> QED
    BY <1>1, <1>5 DEF r

LEMMA AppendOrdered ==
    ASSUME NEW pos, NEW s \in Seq(Elem), Ordered(pos, s), NEW e \in Elem,
           \A x \in ToSet(s) : Lt(pos, x, e)
    PROVE  Ordered(pos, Append(s, e))
  <1> DEFINE r == Append(s, e)
  <1>1. /\ Len(r) = Len(s) + 1 /\ Len(s) \in Nat
        /\ \A i \in 1..Len(s) : r[i] = s[i] /\ r[i] \in ToSet(s)
        /\ r[Len(s) + 1] = e
    BY AppendFacts, InSet
  <1> HIDE DEF r
  <1>2. ASSUME NEW i \in 1..Len(r), NEW j \in 1..Len(r), i < j PROVE Lt(pos, r[i], r[j])
    <2>1. i \in 1..Len(s)
      BY <1>1, <1>2
    <2>2. CASE j = Len(s) + 1
      BY <1>1, <2>1, <2>2
    <2>3. CASE j # Len(s) + 1
      <3>1. j \in 1..Len(s)
        BY <1>1, <2>3
      <3> QED
        BY <1>1, <1>2, <2>1, <3>1 DEF Ordered
    <2> QED
      BY <2>2, <2>3
  <1> QED
    BY <1>2 DEF Ordered, r

(* What has been taken and what is left when m has merged k elements. *)
Merged(p, q, pos, m, k) ==
    /\ m \in MergeState(p, q) /\ m.i + m.j = k + 2
    /\ Len(m.out) = k /\ Ordered(pos, m.out)
    /\ ToSet(m.out) = {p[a] : a \in 1..(m.i - 1)} \cup {q[b] : b \in 1..(m.j - 1)}
    /\ \A x \in ToSet(m.out) :
          /\ \A a \in m.i..Len(p) : Lt(pos, x, p[a])
          /\ \A b \in m.j..Len(q) : Lt(pos, x, q[b])

LEMMA MergeStepMerged ==
    ASSUME NEW p \in Seq(Elem), NEW q \in Seq(Elem), NEW pos \in [Elem -> Int],
           Ordered(pos, p), Ordered(pos, q),
           \A a \in 1..Len(p), b \in 1..Len(q) : pos[p[a]] < pos[q[b]],
           NEW k \in Nat, k < Len(p) + Len(q),
           NEW m, Merged(p, q, pos, m, k), NEW u, u = MergeStep(p, q, m)
    PROVE  Merged(p, q, pos, u, k + 1)
  <1>1. /\ m \in MergeState(p, q) /\ m.i + m.j = k + 2 /\ Len(m.out) = k /\ Ordered(pos, m.out)
        /\ ToSet(m.out) = {p[a] : a \in 1..(m.i - 1)} \cup {q[b] : b \in 1..(m.j - 1)}
        /\ \A x \in ToSet(m.out) :
              /\ \A a \in m.i..Len(p) : Lt(pos, x, p[a])
              /\ \A b \in m.j..Len(q) : Lt(pos, x, q[b])
    BY DEF Merged
  <1>2. /\ Len(p) \in Nat /\ Len(q) \in Nat /\ m.i \in 1..(Len(p) + 1) /\ m.j \in 1..(Len(q) + 1)
        /\ m.out \in Seq(Elem)
    BY <1>1 DEF MergeState
  <1>3. m.i + m.j < Len(p) + Len(q) + 2
    BY <1>1, <1>2
  <1>4. /\ u \in MergeState(p, q) /\ u.i + u.j = m.i + m.j + 1
        /\ \/ /\ FromP(p, q, m) /\ u.i = m.i + 1 /\ u.j = m.j /\ u.out = Append(m.out, p[m.i])
              /\ m.i \in 1..Len(p)
           \/ /\ ~FromP(p, q, m) /\ u.i = m.i /\ u.j = m.j + 1 /\ u.out = Append(m.out, q[m.j])
              /\ m.j \in 1..Len(q)
    <2>1. m \in MergeState(p, q)
      BY <1>1
    <2>2. u \in MergeState(p, q) /\ u.i + u.j = m.i + m.j + 1 /\ Takes(p, q, m, u)
      BY <1>3, <2>1, MergeStepFacts
    <2> QED
      BY <2>2 DEF Takes
  <1>5. u.i + u.j = (k + 1) + 2
    BY <1>1, <1>2, <1>4
  <1>6. \A a \in 1..Len(p) : p[a] \in Elem /\ Rank[p[a]] \in Int
    <2>1. \A x \in Elem : Rank[x] \in Int
      BY TableAssumption
    <2> QED
      BY <2>1
  <1>7. \A b \in 1..Len(q) : q[b] \in Elem /\ Rank[q[b]] \in Int
    <2>1. \A x \in Elem : Rank[x] \in Int
      BY TableAssumption
    <2> QED
      BY <2>1
  <1> DEFINE i == m.i
             j == m.j
             out == m.out
             out2 == u.out
  <1>8. CASE FromP(p, q, m)
    <2> DEFINE e == p[i]
    <2>1. u.i = i + 1 /\ u.j = j /\ out2 = Append(out, e) /\ i \in 1..Len(p) /\ e \in Elem
      BY <1>4, <1>6, <1>8
    <2> HIDE DEF i, j, out, out2, e
    <2>2. /\ i \in 1..(Len(p) + 1) /\ j \in 1..(Len(q) + 1) /\ out \in Seq(Elem)
          /\ Len(out) = k /\ Ordered(pos, out)
          /\ ToSet(out) = {p[a] : a \in 1..(i - 1)} \cup {q[b] : b \in 1..(j - 1)}
          /\ \A x \in ToSet(out) :
                /\ \A a \in i..Len(p) : Lt(pos, x, p[a])
                /\ \A b \in j..Len(q) : Lt(pos, x, q[b])
      BY <1>1, <1>2 DEF i, j, out
    <2>3. Len(out2) = k + 1 /\ ToSet(out2) = ToSet(out) \cup {e}
      <3>1. out \in Seq(Elem) /\ Len(out) = k /\ e \in Elem /\ out2 = Append(out, e)
        BY <2>1, <2>2
      <3> QED
        BY <3>1, AppendFacts
    <2>4. \A x \in ToSet(out) : Lt(pos, x, e)
      <3>1. i \in i..Len(p)
        BY <2>1
      <3> QED
        BY <2>2, <3>1 DEF e
    <2>5. Ordered(pos, out2)
      BY <2>1, <2>2, <2>4, AppendOrdered
    <2>6. ToSet(out2) = {p[a] : a \in 1..((i + 1) - 1)} \cup {q[b] : b \in 1..(j - 1)}
      <3>1. \A a : a \in 1..((i + 1) - 1) <=> a \in 1..(i - 1) \/ a = i
        BY <2>1
      <3> QED
        BY <2>2, <2>3, <3>1 DEF e
    <2>7. ASSUME NEW a \in (i + 1)..Len(p) PROVE Lt(pos, e, p[a])
      <3>1. a \in 1..Len(p) /\ i < a
        BY <2>1
      <3> QED
        BY <2>1, <3>1 DEF Ordered, e
    <2>8. ASSUME NEW b \in j..Len(q) PROVE Lt(pos, e, q[b])
      <3>1. j \in 1..Len(q) /\ b \in 1..Len(q)
        BY <1>2, <2>2
      <3>2. Rank[e] <= Rank[q[j]]
        BY <1>2, <1>8, <3>1 DEF FromP, i, j, e
      <3>3. pos[e] < pos[q[j]] /\ Rank[e] \in Int /\ Rank[q[j]] \in Int
        BY <1>6, <1>7, <2>1, <3>1 DEF e
      <3>4. Lt(pos, e, q[j])
        BY <3>2, <3>3 DEF Lt
      <3>5. CASE b = j
        BY <3>4, <3>5
      <3>6. CASE b # j
        <4>1. Lt(pos, q[j], q[b])
          BY <3>1, <3>6 DEF Ordered
        <4> QED
          BY <1>7, <2>1, <3>1, <3>4, <4>1, LtTrans
      <3> QED
        BY <3>5, <3>6
    <2>9. ASSUME NEW x \in ToSet(out2)
          PROVE  /\ \A a \in (i + 1)..Len(p) : Lt(pos, x, p[a])
                 /\ \A b \in j..Len(q) : Lt(pos, x, q[b])
      <3>1. CASE x = e
        BY <2>7, <2>8, <3>1
      <3>2. CASE x \in ToSet(out)
        <4>1. \A a \in (i + 1)..Len(p) : a \in i..Len(p)
          BY <2>1
        <4> QED
          BY <2>2, <3>2, <4>1
      <3> QED
        BY <2>3, <3>1, <3>2
    <2> QED
      BY <1>4, <1>5, <2>1, <2>3, <2>5, <2>6, <2>9 DEF Merged, out2
  <1>9. CASE ~FromP(p, q, m)
    <2> DEFINE e == q[j]
    <2>1. u.i = i /\ u.j = j + 1 /\ out2 = Append(out, e) /\ j \in 1..Len(q) /\ e \in Elem
      BY <1>4, <1>7, <1>9
    <2> HIDE DEF i, j, out, out2, e
    <2>2. /\ i \in 1..(Len(p) + 1) /\ j \in 1..(Len(q) + 1) /\ out \in Seq(Elem)
          /\ Len(out) = k /\ Ordered(pos, out)
          /\ ToSet(out) = {p[a] : a \in 1..(i - 1)} \cup {q[b] : b \in 1..(j - 1)}
          /\ \A x \in ToSet(out) :
                /\ \A a \in i..Len(p) : Lt(pos, x, p[a])
                /\ \A b \in j..Len(q) : Lt(pos, x, q[b])
      BY <1>1, <1>2 DEF i, j, out
    <2>3. Len(out2) = k + 1 /\ ToSet(out2) = ToSet(out) \cup {e}
      <3>1. out \in Seq(Elem) /\ Len(out) = k /\ e \in Elem /\ out2 = Append(out, e)
        BY <2>1, <2>2
      <3> QED
        BY <3>1, AppendFacts
    <2>4. \A x \in ToSet(out) : Lt(pos, x, e)
      <3>1. j \in j..Len(q)
        BY <2>1
      <3> QED
        BY <2>2, <3>1 DEF e
    <2>5. Ordered(pos, out2)
      BY <2>1, <2>2, <2>4, AppendOrdered
    <2>6. ToSet(out2) = {p[a] : a \in 1..(i - 1)} \cup {q[b] : b \in 1..((j + 1) - 1)}
      <3>1. \A b : b \in 1..((j + 1) - 1) <=> b \in 1..(j - 1) \/ b = j
        BY <2>1
      <3> QED
        BY <2>2, <2>3, <3>1 DEF e
    <2>7. ASSUME NEW b \in (j + 1)..Len(q) PROVE Lt(pos, e, q[b])
      <3>1. b \in 1..Len(q) /\ j < b
        BY <2>1
      <3> QED
        BY <2>1, <3>1 DEF Ordered, e
    <2>8. ASSUME NEW a \in i..Len(p) PROVE Lt(pos, e, p[a])
      <3>1. i \in 1..Len(p) /\ a \in 1..Len(p)
        BY <1>2, <2>2
      <3>2. Rank[p[i]] \in Int /\ Rank[e] \in Int
        BY <1>6, <1>7, <2>1, <3>1 DEF e
      <3>3. ~(Rank[p[i]] <= Rank[e])
        BY <1>2, <1>9, <3>1 DEF FromP, i, j, e
      <3>4. Lt(pos, e, p[i])
        BY <3>2, <3>3 DEF Lt
      <3>5. CASE a = i
        BY <3>4, <3>5
      <3>6. CASE a # i
        <4>1. Lt(pos, p[i], p[a])
          BY <3>1, <3>6 DEF Ordered
        <4> QED
          BY <1>6, <2>1, <3>1, <3>4, <4>1, LtTrans
      <3> QED
        BY <3>5, <3>6
    <2>9. ASSUME NEW x \in ToSet(out2)
          PROVE  /\ \A a \in i..Len(p) : Lt(pos, x, p[a])
                 /\ \A b \in (j + 1)..Len(q) : Lt(pos, x, q[b])
      <3>1. CASE x = e
        BY <2>7, <2>8, <3>1
      <3>2. CASE x \in ToSet(out)
        <4>1. \A b \in (j + 1)..Len(q) : b \in j..Len(q)
          BY <2>1
        <4> QED
          BY <2>2, <3>2, <4>1
      <3> QED
        BY <2>3, <3>1, <3>2
    <2> QED
      BY <1>4, <1>5, <2>1, <2>3, <2>5, <2>6, <2>9 DEF Merged, out2
  <1> QED
    BY <1>8, <1>9

(* Merge takes two ordered runs, the first before the second, to one. *)
LEMMA MergeFacts ==
    ASSUME NEW p \in Seq(Elem), NEW q \in Seq(Elem), NEW pos \in [Elem -> Int],
           Ordered(pos, p), Ordered(pos, q),
           \A a \in 1..Len(p), b \in 1..Len(q) : pos[p[a]] < pos[q[b]]
    PROVE  /\ Merge(p, q) \in Seq(Elem) /\ Len(Merge(p, q)) = Len(p) + Len(q)
           /\ ToSet(Merge(p, q)) = ToSet(p) \cup ToSet(q)
           /\ Ordered(pos, Merge(p, q))
  <1> DEFINE N == Len(p) + Len(q)
  <1>1. N \in Nat /\ Len(p) \in Nat /\ Len(q) \in Nat /\ N = Len(p) + Len(q)
    OBVIOUS
  <1> HIDE DEF N
  <1>2. PICK f \in [0..N -> MergeState(p, q)] :
              /\ f[0] = [i |-> 1, j |-> 1, out |-> <<>>]
              /\ \A k \in 0..N : f[k].i + f[k].j = k + 2
              /\ \A k \in 1..N : f[k] = MergeStep(p, q, f[k - 1])
              /\ Merge(p, q) = f[N].out
    <2>1. PICK f : MergeRun(p, q, f, N)
      BY <1>1, MergeDef
    <2> QED
      BY <2>1 DEF MergeRun
  <1> DEFINE S == {k \in 0..N : Merged(p, q, pos, f[k], k)}
  <1>3. 0 \in S
    <2>1. 0 \in 0..N
      BY <1>1
    <2>2. f[0].i = 1 /\ f[0].j = 1 /\ f[0].out = <<>> /\ f[0] \in MergeState(p, q)
      <3>1. f[0] = [i |-> 1, j |-> 1, out |-> <<>>]
        BY <1>2
      <3>2. f[0] \in MergeState(p, q)
        BY <2>1
      <3> QED
        BY <3>1, <3>2
    <2>3. ToSet(f[0].out) = {} /\ Len(f[0].out) = 0
      BY <2>2, EmptyList
    <2>4. {p[a] : a \in 1..(1 - 1)} = {} /\ {q[b] : b \in 1..(1 - 1)} = {}
      OBVIOUS
    <2>5. Ordered(pos, f[0].out)
      BY <2>3 DEF Ordered
    <2> QED
      BY <2>1, <2>2, <2>3, <2>4, <2>5 DEF Merged
  <1>4. ASSUME NEW k \in 0..(N - 1), k \in S PROVE k + 1 \in S
    <2>1. k + 1 \in 0..N /\ k + 1 \in 1..N /\ (k + 1) - 1 = k /\ k \in Nat
      BY <1>1
    <2>2. k < Len(p) + Len(q)
      BY <1>1 DEF N
    <2>3. Merged(p, q, pos, f[k], k) /\ f[k + 1] = MergeStep(p, q, f[k])
      BY <1>2, <1>4, <2>1
    <2>4. Merged(p, q, pos, f[k + 1], k + 1)
      BY <2>1, <2>2, <2>3, MergeStepMerged
    <2> QED
      BY <2>1, <2>4
  <1>5. \A k \in 0..N : k \in S
    <2> HIDE DEF S
    <2> QED
      BY <1>1, <1>3, <1>4, InductionUpTo
  <1> DEFINE m == f[N]
  <1>6. Merged(p, q, pos, m, N)
    BY <1>1, <1>5
  <1>7. Merge(p, q) = m.out
    BY <1>2
  <1> HIDE DEF m
  <1>8. /\ m.i \in 1..(Len(p) + 1) /\ m.j \in 1..(Len(q) + 1) /\ m.out \in Seq(Elem)
        /\ m.i + m.j = N + 2 /\ Len(m.out) = N /\ Ordered(pos, m.out)
        /\ ToSet(m.out) = {p[a] : a \in 1..(m.i - 1)} \cup {q[b] : b \in 1..(m.j - 1)}
    BY <1>6 DEF Merged, MergeState
  <1>9. m.i - 1 = Len(p) /\ m.j - 1 = Len(q)
    <2> DEFINE i == m.i
               j == m.j
    <2>1. i \in 1..(Len(p) + 1) /\ j \in 1..(Len(q) + 1) /\ i + j = Len(p) + Len(q) + 2
      BY <1>1, <1>8
    <2> HIDE DEF i, j
    <2>2. i - 1 = Len(p) /\ j - 1 = Len(q)
      BY <1>1, <2>1
    <2> QED
      BY <2>2 DEF i, j
  <1>10. ToSet(p) = {p[a] : a \in 1..Len(p)} /\ ToSet(q) = {q[b] : b \in 1..Len(q)}
    BY InSet
  <1>11. ToSet(m.out) = ToSet(p) \cup ToSet(q)
    BY <1>8, <1>9, <1>10
  <1> QED
    BY <1>7, <1>8, <1>11 DEF N

LEMMA MergeType ==
    ASSUME NEW p \in Seq(Elem), NEW q \in Seq(Elem)
    PROVE  Merge(p, q) \in Seq(Elem) /\ Len(Merge(p, q)) \in Nat
  <1> DEFINE N == Len(p) + Len(q)
  <1>1. N \in Nat
    OBVIOUS
  <1>2. PICK f \in [0..N -> MergeState(p, q)] : Merge(p, q) = f[N].out
    <2>1. PICK f : MergeRun(p, q, f, N)
      BY MergeDef
    <2> QED
      BY <2>1 DEF MergeRun
  <1>3. f[N] \in MergeState(p, q)
    BY <1>1
  <1>4. f[N].out \in Seq(Elem)
    BY <1>3 DEF MergeState
  <1> QED
    BY <1>2, <1>4

LEMMA TakeFacts ==
    ASSUME NEW s \in Seq(Elem), NEW n \in Nat
    PROVE  /\ Take(s, n) \in Seq(Elem)
           /\ Len(Take(s, n)) = IF n < Len(s) THEN n ELSE Len(s)
           /\ \A i \in 1..Len(Take(s, n)) : Take(s, n)[i] = s[i]
  <1> DEFINE m == IF n < Len(s) THEN n ELSE Len(s)
  <1>1. m \in 0..Len(s)
    OBVIOUS
  <1> HIDE DEF m
  <1>2. SubSeq(s, 1, m) \in Seq(Elem) /\ Len(SubSeq(s, 1, m)) = m
        /\ \A i \in 1..m : SubSeq(s, 1, m)[i] = s[i]
    BY <1>1
  <1> QED
    BY <1>2 DEF Take, m

LEMMA DropFacts ==
    ASSUME NEW s \in Seq(Elem), NEW n \in Nat
    PROVE  /\ Drop(s, n) \in Seq(Elem)
           /\ Len(Drop(s, n)) = IF n < Len(s) THEN Len(s) - n ELSE 0
           /\ \A i \in 1..Len(Drop(s, n)) : Drop(s, n)[i] = s[n + i]
  <1> DEFINE d == SubSeq(s, n + 1, Len(s))
  <1>1. CASE n < Len(s)
    <2>1. /\ d \in Seq(Elem) /\ Len(d) = Len(s) - n
          /\ \A i \in 1..(Len(s) - n) : d[i] = s[n + i]
      BY <1>1
    <2> QED
      BY <1>1, <2>1 DEF Drop
  <1>2. CASE ~(n < Len(s))
    <2>1. d = <<>>
      BY <1>2
    <2> QED
      BY <1>2, <2>1 DEF Drop
  <1> QED
    BY <1>1, <1>2

PassState == [rest : Seq(Elem), out : Seq(Elem)]
PassStep(m, w) ==
    [rest |-> Drop(m.rest, 2 * w),
     out |-> m.out \o Merge(Take(m.rest, w), Take(Drop(m.rest, w), w))]

LEMMA PassStepType ==
    ASSUME NEW m \in PassState, NEW w \in Nat
    PROVE  PassStep(m, w) \in PassState
  <1>1. m.rest \in Seq(Elem) /\ m.out \in Seq(Elem) /\ 2 * w \in Nat
    BY DEF PassState
  <1>2. Drop(m.rest, 2 * w) \in Seq(Elem) /\ Take(m.rest, w) \in Seq(Elem)
        /\ Drop(m.rest, w) \in Seq(Elem)
    BY <1>1, TakeFacts, DropFacts
  <1>3. Take(Drop(m.rest, w), w) \in Seq(Elem)
    BY <1>2, TakeFacts
  <1> DEFINE r == Merge(Take(m.rest, w), Take(Drop(m.rest, w), w))
  <1>4. r \in Seq(Elem)
    BY <1>2, <1>3, MergeType
  <1> HIDE DEF r
  <1>5. m.out \o r \in Seq(Elem)
    BY <1>1, <1>4, ConcatFacts
  <1> QED
    BY <1>2, <1>5 DEF PassStep, PassState, r

PassRun(s, w, f) ==
    /\ f \in [0..Len(s) -> PassState]
    /\ f[0] = [rest |-> s, out |-> <<>>]
    /\ \A k \in 1..Len(s) : f[k] = PassStep(f[k - 1], w)
    /\ SortPass(s, w) = f[Len(s)].out

LEMMA PassDef ==
    ASSUME NEW s \in Seq(Elem), NEW w \in Nat
    PROVE  \E f : PassRun(s, w, f)
  <1> DEFINE N == Len(s)
             base == [rest |-> s, out |-> <<>>]
             after == CHOOSE f : f = [k \in 0..N |-> IF k = 0 THEN base
                                                     ELSE PassStep(f[k - 1], w)]
             T == PassState
             step == [x \in (1..N) \X T |-> PassStep(x[2], w)]
  <1>1. N \in Nat
    OBVIOUS
  <1>2. SortPass(s, w) = after[N].out
    BY DEF SortPass, PassStep
  <1>3. base \in T
    BY DEF PassState
  <1> HIDE DEF T
  <1>4. \A m \in T : PassStep(m, w) \in T
    BY PassStepType DEF T
  <1>5. step \in [(1..N) \X T -> T]
    BY <1>4
  <1>6. \A k \in 1..N, m \in T : step[<<k, m>>] = PassStep(m, w)
    OBVIOUS
  <1> HIDE DEF step, base, N
  <1>7. PICK f \in [0..N -> T] : Runs(f, N, base, step)
    BY <1>1, <1>3, <1>5, Recursion
  <1>8. \A k \in 1..N : f[k] = PassStep(f[k - 1], w)
    <2> SUFFICES ASSUME NEW k \in 1..N PROVE f[k] = PassStep(f[k - 1], w)
      OBVIOUS
    <2>1. k - 1 \in 0..N
      BY <1>1
    <2>2. f[k - 1] \in T
      BY <2>1
    <2> QED
      BY <1>6, <1>7, <2>2 DEF Runs
  <1>9. f = [k \in 0..N |-> IF k = 0 THEN base ELSE PassStep(f[k - 1], w)]
    <2>1. \A k \in 0..N : f[k] = IF k = 0 THEN base ELSE PassStep(f[k - 1], w)
      BY <1>1, <1>7, <1>8 DEF Runs
    <2> QED
      BY <2>1
  <1>10. after = [k \in 0..N |-> IF k = 0 THEN base ELSE PassStep(after[k - 1], w)]
    BY <1>9
  <1> HIDE DEF after
  <1>11. \A k \in 0..N : after[k] = IF k = 0 THEN base ELSE PassStep(after[k - 1], w)
    BY <1>10
  <1> DEFINE R == {k \in 0..N : after[k] = f[k]}
  <1>12. 0 \in R
    BY <1>1, <1>7, <1>11 DEF Runs
  <1>13. ASSUME NEW k \in 0..(N - 1), k \in R PROVE k + 1 \in R
    <2>1. k + 1 \in 0..N /\ k + 1 \in 1..N /\ k + 1 # 0 /\ (k + 1) - 1 = k
      BY <1>1
    <2> QED
      BY <1>8, <1>11, <1>13, <2>1
  <1>14. \A k \in 0..N : k \in R
    <2> HIDE DEF R
    <2> QED
      BY <1>1, <1>12, <1>13, InductionUpTo
  <1>15. after[N] = f[N] /\ f[0] = base
    <2>1. N \in 0..N
      BY <1>1
    <2> QED
      BY <1>7, <1>14, <2>1 DEF Runs
  <1>16. PassRun(s, w, f)
    BY <1>2, <1>8, <1>15 DEF base, T, N, PassRun
  <1> QED
    BY <1>16

(* The list consists of ordered runs of w elements, the last one perhaps     *)
(* shorter; between runs, the elements are in the order of pos.              *)
Blocks(pos, s, w) ==
    \A c \in Nat : \A i, j \in 1..Len(s) :
       i < j => /\ c * w < i /\ j <= c * w + w => Lt(pos, s[i], s[j])
                /\ i <= c * w /\ c * w < j => pos[s[i]] < pos[s[j]]

LEMMA NextMultiple ==
    ASSUME NEW c \in Nat, NEW k \in Nat, NEW d \in Nat, d > 0, c * d < k * d
    PROVE  c * d + d <= k * d
  <1>1. c * d \in Int /\ k * d \in Int /\ (c + 1) * d = c * d + d
    OBVIOUS
  <1>2. k <= c => k * d <= c * d
    OBVIOUS
  <1>3. c + 1 <= k
    BY <1>1, <1>2
  <1>4. (c + 1) * d <= k * d
    BY <1>3
  <1> QED
    BY <1>1, <1>4

(* An ordered run behind whole runs. *)
LEMMA BlocksConcat ==
    ASSUME NEW pos, NEW o \in Seq(Elem), NEW r \in Seq(Elem), NEW d \in Nat, d > 0,
           NEW k \in Nat, Len(o) = k * d, Len(r) <= d, Blocks(pos, o, d), Ordered(pos, r),
           \A i \in 1..Len(o), j \in 1..Len(r) : pos[o[i]] < pos[r[j]]
    PROVE  Blocks(pos, o \o r, d)
  <1> DEFINE v == o \o r
             x == Len(o)
  <1>1. /\ x \in Nat /\ Len(r) \in Nat /\ Len(v) = x + Len(r)
        /\ \A i \in 1..x : v[i] = o[i]
        /\ \A i \in 1..Len(r) : v[x + i] = r[i]
    <2>1. /\ o \o r \in Seq(Elem) /\ Len(o \o r) = Len(o) + Len(r)
          /\ \A i \in 1..Len(o) : (o \o r)[i] = o[i]
          /\ \A i \in 1..Len(r) : (o \o r)[Len(o) + i] = r[i]
      <3>1. o \in Seq(Elem) /\ r \in Seq(Elem)
        OBVIOUS
      <3> QED
        BY ONLY <3>1, ConcatFacts
    <2>2. Len(o) \in Nat /\ Len(r) \in Nat
      OBVIOUS
    <2> QED
      BY <2>1, <2>2, Zenon
  <1>2. x = k * d
    OBVIOUS
  <1> HIDE DEF v, x
  <1>3. \A j \in 1..Len(v) : j \in Int /\ (x < j => j - x \in 1..Len(r) /\ v[j] = r[j - x])
    <2> SUFFICES ASSUME NEW j \in 1..Len(v), x < j
                 PROVE  j - x \in 1..Len(r) /\ v[j] = r[j - x]
      OBVIOUS
    <2>1. j - x \in 1..Len(r) /\ x + (j - x) = j
      BY <1>1
    <2> QED
      BY <1>1, <2>1
  <1> SUFFICES ASSUME NEW c \in Nat, NEW i \in 1..Len(v), NEW j \in 1..Len(v), i < j
               PROVE  /\ c * d < i /\ j <= c * d + d => Lt(pos, v[i], v[j])
                      /\ i <= c * d /\ c * d < j => pos[v[i]] < pos[v[j]]
    BY DEF Blocks, v
  <1> DEFINE y == c * d
  <1>4. y \in Nat /\ (y < x => y + d <= x) /\ (x < y => x + d <= y)
    <2>1. y \in Nat
      OBVIOUS
    <2>2. (y < x => y + d <= x) /\ (x < y => x + d <= y)
      BY <1>2, NextMultiple
    <2> QED
      BY <2>1, <2>2
  <1>5. Blocks(pos, o, d)
    OBVIOUS
  <1>6. CASE j <= x
    <2>1. i \in 1..x /\ j \in 1..x
      BY <1>1, <1>6
    <2>2. v[i] = o[i] /\ v[j] = o[j]
      BY <1>1, <2>1
    <2> QED
      BY <1>5, <2>1, <2>2 DEF Blocks, x
  <1>7. CASE x < i
    <2> HIDE DEF y
    <2>1. /\ i - x \in 1..Len(r) /\ v[i] = r[i - x] /\ j - x \in 1..Len(r) /\ v[j] = r[j - x]
          /\ i - x < j - x
      BY <1>1, <1>3, <1>7
    <2>2. Lt(pos, v[i], v[j])
      BY <2>1 DEF Ordered
    <2>3. ~(i <= y /\ y < j)
      BY <1>1, <1>4, <1>7, <2>1
    <2> QED
      BY <2>2, <2>3 DEF y
  <1>8. CASE i <= x /\ x < j
    <2> HIDE DEF y
    <2>1. i \in 1..x /\ v[i] = o[i] /\ j - x \in 1..Len(r) /\ v[j] = r[j - x]
      BY <1>1, <1>3, <1>8
    <2>2. pos[v[i]] < pos[v[j]]
      BY <2>1 DEF x
    <2>3. ~(y < i /\ j <= y + d)
      BY <1>1, <1>4, <1>8
    <2> QED
      BY <2>2, <2>3 DEF y
  <1> QED
    BY <1>1, <1>6, <1>7, <1>8

LEMMA ConcatSet ==
    ASSUME NEW s \in Seq(Elem), NEW t \in Seq(Elem)
    PROVE  ToSet(s \o t) = ToSet(s) \cup ToSet(t)
  <1> DEFINE v == s \o t
  <1>1. /\ v \in Seq(Elem) /\ Len(v) = Len(s) + Len(t)
        /\ \A i \in 1..Len(s) : v[i] = s[i]
        /\ \A i \in 1..Len(t) : v[Len(s) + i] = t[i]
    BY ConcatFacts
  <1> HIDE DEF v
  <1>2. /\ ToSet(v) = {v[i] : i \in 1..Len(v)} /\ ToSet(s) = {s[i] : i \in 1..Len(s)}
        /\ ToSet(t) = {t[i] : i \in 1..Len(t)}
    BY <1>1, InSet
  <1>3. ASSUME NEW i \in 1..Len(v)
        PROVE  (\E j \in 1..Len(s) : v[i] = s[j]) \/ (\E j \in 1..Len(t) : v[i] = t[j])
    <2>1. CASE i <= Len(s)
      BY <1>1, <2>1
    <2>2. CASE i > Len(s)
      <3>1. i - Len(s) \in 1..Len(t) /\ Len(s) + (i - Len(s)) = i
        BY <1>1, <2>2
      <3>2. v[i] = t[i - Len(s)]
        BY <1>1, <3>1
      <3> QED
        BY <3>1, <3>2
    <2> QED
      BY <2>1, <2>2
  <1>4. ASSUME NEW i \in 1..Len(s) PROVE i \in 1..Len(v)
    BY <1>1
  <1>5. ASSUME NEW i \in 1..Len(t) PROVE Len(s) + i \in 1..Len(v)
    BY <1>1
  <1>6. ToSet(v) = ToSet(s) \cup ToSet(t)
    BY <1>1, <1>2, <1>3, <1>4, <1>5
  <1> QED
    BY <1>6 DEF v

(* After k merges of a pass. *)
Passed(s, w, pos, m, k) ==
    /\ m \in PassState
    /\ Len(m.out) + Len(m.rest) = Len(s)
    /\ Len(m.rest) = 0 \/ Len(m.out) = k * (2 * w)
    /\ \A i \in 1..Len(m.rest) : m.rest[i] = s[Len(m.out) + i]
    /\ ToSet(m.out) = {s[i] : i \in 1..Len(m.out)}
    /\ Blocks(pos, m.out, 2 * w)

LEMMA PassStepPassed ==
    ASSUME NEW s \in Seq(Elem), NEW w \in Nat, w > 0, NEW pos \in [Elem -> Int],
           Blocks(pos, s, w), NEW k \in Nat, NEW m, Passed(s, w, pos, m, k),
           NEW u, u = PassStep(m, w)
    PROVE  Passed(s, w, pos, u, k + 1)
  <1> DEFINE rest == m.rest
             out == m.out
             x == Len(out)
             R == Len(rest)
             p == Take(rest, w)
             q == Take(Drop(rest, w), w)
             r == Merge(p, q)
             rest2 == Drop(rest, 2 * w)
             d == 2 * w
  <1>1. /\ m \in PassState /\ rest \in Seq(Elem) /\ out \in Seq(Elem)
        /\ x + R = Len(s) /\ (R = 0 \/ x = k * d)
        /\ \A i \in 1..R : rest[i] = s[x + i]
        /\ ToSet(out) = {s[i] : i \in 1..x}
        /\ Blocks(pos, out, d)
    BY DEF Passed, PassState
  <1>2. /\ x \in Nat /\ R \in Nat /\ Len(s) \in Nat /\ d \in Nat /\ d > 0 /\ d = w + w
        /\ x + R = Len(s)
    <2>1. x \in Nat /\ R \in Nat
      <3>1. rest \in Seq(Elem) /\ out \in Seq(Elem)
        BY <1>1
      <3> HIDE DEF rest, out
      <3> QED
        BY <3>1
    <2>2. Len(s) \in Nat /\ d \in Nat /\ d > 0 /\ d = w + w
      OBVIOUS
    <2>3. x + R = Len(s)
      BY <1>1
    <2> QED
      BY <2>1, <2>2, <2>3
  <1>3. u \in PassState /\ u.rest = rest2 /\ u.out = out \o r
    BY <1>1, PassStepType DEF PassStep
  <1>4. /\ p \in Seq(Elem) /\ Len(p) = (IF w < R THEN w ELSE R)
        /\ \A i \in 1..Len(p) : p[i] = rest[i]
    <2> HIDE DEF rest
    <2> QED
      BY <1>1, TakeFacts
  <1>5. /\ Drop(rest, w) \in Seq(Elem) /\ Len(Drop(rest, w)) = (IF w < R THEN R - w ELSE 0)
        /\ \A i \in 1..Len(Drop(rest, w)) : Drop(rest, w)[i] = rest[w + i]
    <2> HIDE DEF rest
    <2> QED
      BY <1>1, DropFacts
  <1>6. /\ q \in Seq(Elem)
        /\ Len(q) = (IF w < Len(Drop(rest, w)) THEN w ELSE Len(Drop(rest, w)))
        /\ \A i \in 1..Len(q) : q[i] = Drop(rest, w)[i]
    <2> DEFINE dr == Drop(rest, w)
    <2>1. dr \in Seq(Elem)
      BY <1>5
    <2> HIDE DEF dr
    <2>2. /\ Take(dr, w) \in Seq(Elem)
          /\ Len(Take(dr, w)) = (IF w < Len(dr) THEN w ELSE Len(dr))
          /\ \A i \in 1..Len(Take(dr, w)) : Take(dr, w)[i] = dr[i]
      BY <2>1, TakeFacts
    <2> QED
      BY <2>2 DEF dr
  <1>7. /\ rest2 \in Seq(Elem) /\ Len(rest2) = (IF d < R THEN R - d ELSE 0)
        /\ \A i \in 1..Len(rest2) : rest2[i] = rest[d + i]
    <2> HIDE DEF rest, d
    <2>1. /\ Drop(rest, d) \in Seq(Elem) /\ Len(Drop(rest, d)) = (IF d < Len(rest) THEN Len(rest) - d ELSE 0)
          /\ \A i \in 1..Len(Drop(rest, d)) : Drop(rest, d)[i] = rest[d + i]
      BY <1>1, <1>2, DropFacts
    <2> QED
      BY <2>1 DEF d
  <1> DEFINE P == Len(p)
             Q == Len(q)
  <1>8. /\ P \in Nat /\ Q \in Nat /\ P <= w /\ Q <= w /\ (Q > 0 => P = w)
        /\ P + Q = (IF d < R THEN d ELSE R)
        /\ Len(rest2) = R - (P + Q)
        /\ Q <= Len(Drop(rest, w)) /\ (w + Q <= R \/ Q = 0) /\ P <= R
    <2> DEFINE D == Len(Drop(rest, w))
               L == Len(rest2)
    <2>1. /\ P = (IF w < R THEN w ELSE R) /\ D = (IF w < R THEN R - w ELSE 0)
          /\ Q = (IF w < D THEN w ELSE D) /\ L = (IF d < R THEN R - d ELSE 0)
      BY <1>4, <1>5, <1>6, <1>7
    <2>2. R \in Nat /\ d = w + w
      BY <1>2
    <2> HIDE DEF D, L, P, Q, R, d
    <2>3. /\ P \in Nat /\ Q \in Nat /\ P <= w /\ Q <= w /\ (Q > 0 => P = w)
          /\ P + Q = (IF d < R THEN d ELSE R) /\ L = R - (P + Q)
          /\ Q <= D /\ (w + Q <= R \/ Q = 0) /\ P <= R
      BY <2>1, <2>2
    <2> QED
      BY <2>3 DEF D, L
  <1>9. \A i \in 1..P : p[i] = s[x + i] /\ i \in 1..R
    <2>1. \A i \in 1..P : i \in 1..R
      <3> HIDE DEF P, R
      <3> QED
        BY <1>2, <1>8
    <2> QED
      BY <1>1, <1>4, <2>1
  <1>10. \A i \in 1..Q : q[i] = s[x + (w + i)] /\ w + i \in 1..R
    <2> SUFFICES ASSUME NEW i \in 1..Q PROVE q[i] = s[x + (w + i)] /\ w + i \in 1..R
      OBVIOUS
    <2>1. i \in 1..Len(Drop(rest, w)) /\ w + i \in 1..R
      BY <1>2, <1>5, <1>8
    <2>2. q[i] = rest[w + i]
      BY <1>5, <1>6, <2>1
    <2> QED
      BY <1>1, <2>1, <2>2
  <1>11. ToSet(p) \cup ToSet(q) = {s[i] : i \in (x + 1)..(x + (P + Q))}
    <2> HIDE DEF p, q, x, R, rest, out
    <2>1. ToSet(p) = {p[i] : i \in 1..P} /\ ToSet(q) = {q[i] : i \in 1..Q}
      BY <1>4, <1>6, InSet
    <2> HIDE DEF P, Q
    <2>2. ASSUME NEW i \in 1..P PROVE x + i \in (x + 1)..(x + (P + Q)) /\ p[i] = s[x + i]
      <3>1. x + i \in (x + 1)..(x + (P + Q))
        BY <1>2, <1>8
      <3> QED
        BY <1>9, <3>1
    <2>3. ASSUME NEW i \in 1..Q
          PROVE  x + (w + i) \in (x + 1)..(x + (P + Q)) /\ q[i] = s[x + (w + i)]
      BY <1>2, <1>8, <1>10
    <2>4. ASSUME NEW i \in (x + 1)..(x + (P + Q))
          PROVE  (\E a \in 1..P : s[i] = p[a]) \/ (\E a \in 1..Q : s[i] = q[a])
      <3>1. CASE i <= x + P
        <4>1. i - x \in 1..P /\ x + (i - x) = i
          BY <1>2, <1>8, <3>1
        <4>2. p[i - x] = s[i]
          BY <2>2, <4>1
        <4> QED
          BY <4>1, <4>2
      <3>2. CASE i > x + P
        <4>1. i - x - w \in 1..Q /\ x + (w + (i - x - w)) = i
          BY <1>2, <1>8, <3>2
        <4>2. q[i - x - w] = s[i]
          BY <2>3, <4>1
        <4> QED
          BY <4>1, <4>2
      <3> QED
        BY <1>2, <1>8, <3>1, <3>2
    <2>5. \A y : y \in {p[i] : i \in 1..P} \cup {q[i] : i \in 1..Q}
                   => y \in {s[i] : i \in (x + 1)..(x + (P + Q))}
      BY <2>2, <2>3
    <2>6. \A y : y \in {s[i] : i \in (x + 1)..(x + (P + Q))}
                   => y \in {p[i] : i \in 1..P} \cup {q[i] : i \in 1..Q}
      BY <2>4
    <2> QED
      BY <2>1, <2>5, <2>6
  <1>12. CASE R = 0
    <2>1. P = 0 /\ Q = 0 /\ Len(rest2) = 0
      BY <1>2, <1>8, <1>12
    <2>2. p = <<>> /\ q = <<>>
      BY <1>4, <1>6, <2>1
    <2>3. Ordered(pos, p) /\ Ordered(pos, q)
      BY <2>1 DEF Ordered
    <2>4. r \in Seq(Elem) /\ Len(r) = 0
      <3> HIDE DEF p, q
      <3>1. \A a \in 1..Len(p), b \in 1..Len(q) : pos[p[a]] < pos[q[b]]
        BY <2>1
      <3>2. Merge(p, q) \in Seq(Elem) /\ Len(Merge(p, q)) = Len(p) + Len(q)
        BY <1>4, <1>6, <2>3, <3>1, MergeFacts
      <3> QED
        BY <2>1, <3>2
    <2> HIDE DEF r, out, rest2, rest
    <2>5. out \o r = out
      BY <1>1, <2>4
    <2>6. u.out = out /\ u.rest = rest2 /\ Len(u.out) + Len(u.rest) = Len(s)
      BY <1>1, <1>2, <1>3, <1>12, <2>1, <2>5
    <2>7. \A i \in 1..Len(rest2) : rest2[i] = s[x + i]
      BY <2>1
    <2> QED
      BY <1>1, <1>3, <2>1, <2>6, <2>7 DEF Passed
  <1>13. CASE R # 0
    <2>1. x = k * d
      BY <1>1, <1>13
    <2>2. (2 * k) * w = x /\ (2 * k + 1) * w = x + w /\ 2 * k \in Nat /\ 2 * k + 1 \in Nat
      <3> HIDE DEF x
      <3> QED
        BY <2>1
    <2> HIDE DEF x, R, rest2, r, p, q, rest, out, P, Q, d
    <2>3. Blocks(pos, s, w)
      OBVIOUS
    <2>4. ASSUME NEW i \in 1..Len(s), NEW j \in 1..Len(s), i < j
          PROVE  /\ x < i /\ j <= x + w => Lt(pos, s[i], s[j])
                 /\ x + w < i /\ j <= x + w + w => Lt(pos, s[i], s[j])
                 /\ i <= x + w /\ x + w < j => pos[s[i]] < pos[s[j]]
                 /\ i <= x /\ x < j => pos[s[i]] < pos[s[j]]
      <3>1. \A c \in Nat : /\ c * w < i /\ j <= c * w + w => Lt(pos, s[i], s[j])
                           /\ i <= c * w /\ c * w < j => pos[s[i]] < pos[s[j]]
        BY <2>3, <2>4 DEF Blocks
      <3>2. /\ x < i /\ j <= x + w => Lt(pos, s[i], s[j])
            /\ i <= x /\ x < j => pos[s[i]] < pos[s[j]]
        BY <2>2, <3>1
      <3>3. /\ x + w < i /\ j <= x + w + w => Lt(pos, s[i], s[j])
            /\ i <= x + w /\ x + w < j => pos[s[i]] < pos[s[j]]
        BY <2>2, <3>1
      <3> QED
        BY <3>2, <3>3
    <2>5. Ordered(pos, p)
      <3> SUFFICES ASSUME NEW i \in 1..P, NEW j \in 1..P, i < j PROVE Lt(pos, p[i], p[j])
        BY DEF Ordered, P
      <3>1. /\ x + i \in 1..Len(s) /\ x + j \in 1..Len(s) /\ x + i < x + j /\ x < x + i
            /\ x + j <= x + w
        <4>1. i \in 1..R /\ j \in 1..R
          BY <1>9
        <4> QED
          BY <1>2, <1>8, <4>1
      <3>2. p[i] = s[x + i] /\ p[j] = s[x + j]
        BY <1>9
      <3> QED
        BY <2>4, <3>1, <3>2
    <2>6. Ordered(pos, q)
      <3> SUFFICES ASSUME NEW i \in 1..Q, NEW j \in 1..Q, i < j PROVE Lt(pos, q[i], q[j])
        BY DEF Ordered, Q
      <3>1. w + i \in 1..R /\ w + j \in 1..R
        BY <1>10
      <3>2. /\ x + (w + i) \in 1..Len(s) /\ x + (w + j) \in 1..Len(s)
            /\ x + (w + i) < x + (w + j)
            /\ x + w < x + (w + i) /\ x + (w + j) <= x + w + w
        BY <1>2, <1>8, <3>1
      <3>3. q[i] = s[x + (w + i)] /\ q[j] = s[x + (w + j)]
        BY <1>10
      <3> QED
        BY <2>4, <3>2, <3>3
    <2>7. ASSUME NEW i \in 1..P, NEW j \in 1..Q PROVE pos[p[i]] < pos[q[j]]
      <3>1. w + j \in 1..R /\ i \in 1..R
        BY <1>9, <1>10
      <3>2. /\ x + i \in 1..Len(s) /\ x + (w + j) \in 1..Len(s) /\ x + i < x + (w + j)
            /\ x + i <= x + w /\ x + w < x + (w + j)
        BY <1>2, <1>8, <3>1
      <3>3. p[i] = s[x + i] /\ q[j] = s[x + (w + j)]
        BY <1>9, <1>10
      <3> QED
        BY <2>4, <3>2, <3>3
    <2>8. /\ r \in Seq(Elem) /\ Len(r) = P + Q /\ Ordered(pos, r)
          /\ ToSet(r) = {s[i] : i \in (x + 1)..(x + (P + Q))}
      <3>1. \A a \in 1..Len(p), b \in 1..Len(q) : pos[p[a]] < pos[q[b]]
        BY <2>7 DEF P, Q
      <3>2. /\ Merge(p, q) \in Seq(Elem) /\ Len(Merge(p, q)) = Len(p) + Len(q)
            /\ ToSet(Merge(p, q)) = ToSet(p) \cup ToSet(q)
            /\ Ordered(pos, Merge(p, q))
        BY <1>4, <1>6, <2>5, <2>6, <3>1, MergeFacts
      <3> QED
        BY <1>11, <3>2 DEF r, P, Q
    <2>9. ASSUME NEW i \in 1..x, NEW j \in 1..Len(r) PROVE pos[out[i]] < pos[r[j]]
      <3>1. out[i] \in ToSet(out) /\ r[j] \in ToSet(r)
        BY <1>1, <2>8, InSet DEF x
      <3>2. PICK a \in 1..x : out[i] = s[a]
        BY <1>1, <3>1
      <3>3. PICK b \in (x + 1)..(x + (P + Q)) : r[j] = s[b]
        BY <2>8, <3>1
      <3>4. a \in 1..Len(s) /\ b \in 1..Len(s) /\ a < b /\ a <= x /\ x < b
        BY <1>2, <1>8
      <3> QED
        BY <2>4, <3>2, <3>3, <3>4
    <2>10. Blocks(pos, out \o r, d)
      <3>1. /\ out \in Seq(Elem) /\ r \in Seq(Elem) /\ d \in Nat /\ d > 0
            /\ Len(out) = k * d /\ Len(r) <= d /\ Blocks(pos, out, d) /\ Ordered(pos, r)
            /\ \A i \in 1..Len(out), j \in 1..Len(r) : pos[out[i]] < pos[r[j]]
        BY <1>1, <1>2, <1>8, <2>1, <2>8, <2>9 DEF x
      <3> QED
        BY <3>1, BlocksConcat
    <2>11. Len(out \o r) = x + (P + Q) /\ ToSet(out \o r) = ToSet(out) \cup ToSet(r)
      <3>1. out \in Seq(Elem) /\ r \in Seq(Elem)
        BY <1>1, <2>8
      <3>2. Len(out \o r) = Len(out) + Len(r)
        BY ONLY <3>1, ConcatFacts
      <3>3. ToSet(out \o r) = ToSet(out) \cup ToSet(r)
        BY <3>1, ConcatSet
      <3> QED
        BY <2>8, <3>2, <3>3 DEF x
    <2>12. ToSet(out \o r) = {s[i] : i \in 1..(x + (P + Q))}
      <3>1. \A i : i \in 1..(x + (P + Q)) <=> i \in 1..x \/ i \in (x + 1)..(x + (P + Q))
        BY <1>2, <1>8
      <3> QED
        BY <1>1, <2>8, <2>11, <3>1
    <2>13. \A i \in 1..Len(rest2) : rest2[i] = s[(x + (P + Q)) + i]
      <3> SUFFICES ASSUME NEW i \in 1..Len(rest2) PROVE rest2[i] = s[(x + (P + Q)) + i]
        OBVIOUS
      <3>1. P + Q = d /\ d + i \in 1..R
        BY <1>2, <1>7, <1>8
      <3>2. rest2[i] = s[x + (d + i)]
        BY <1>1, <1>7, <3>1
      <3>3. x + (d + i) = (x + (P + Q)) + i
        BY <1>2, <3>1
      <3> QED
        BY <3>2, <3>3
    <2>14. Len(rest2) = 0 \/ x + (P + Q) = (k + 1) * d
      <3>1. (k + 1) * d = k * d + d
        BY <1>2
      <3> QED
        BY <1>2, <1>7, <1>8, <2>1, <3>1
    <2>15. (x + (P + Q)) + Len(rest2) = Len(s)
      <3> DEFINE L == Len(rest2)
                 N == Len(s)
      <3>1. L = R - (P + Q) /\ x + R = N
        BY <1>2, <1>8
      <3> HIDE DEF L, N
      <3>2. (x + (P + Q)) + L = N
        BY <1>2, <1>8, <3>1
      <3> QED
        BY <3>2 DEF L, N
    <2> QED
      BY <1>3, <2>10, <2>11, <2>12, <2>13, <2>14, <2>15 DEF Passed, d
  <1> QED
    BY <1>12, <1>13

(* A pass doubles the length of the ordered runs. *)
LEMMA PassFacts ==
    ASSUME NEW s \in Seq(Elem), NEW w \in Nat, w > 0, NEW pos \in [Elem -> Int],
           Blocks(pos, s, w)
    PROVE  /\ SortPass(s, w) \in Seq(Elem) /\ Len(SortPass(s, w)) = Len(s)
           /\ ToSet(SortPass(s, w)) = ToSet(s)
           /\ Blocks(pos, SortPass(s, w), 2 * w)
  <1> DEFINE N == Len(s)
  <1>1. N \in Nat
    OBVIOUS
  <1>2. PICK f : PassRun(s, w, f)
    BY PassDef
  <1>3. /\ f \in [0..N -> PassState] /\ f[0] = [rest |-> s, out |-> <<>>]
        /\ \A k \in 1..N : f[k] = PassStep(f[k - 1], w)
        /\ SortPass(s, w) = f[N].out
    BY <1>2 DEF PassRun
  <1> DEFINE S == {k \in 0..N : Passed(s, w, pos, f[k], k)}
  <1>4. 0 \in S
    <2>1. 0 \in 0..N
      BY <1>1
    <2>2. f[0] \in PassState
      BY <1>3, <2>1
    <2>3. f[0].rest = s /\ f[0].out = <<>>
      BY <1>3
    <2>4. ToSet(<<>>) = {} /\ Len(<<>>) = 0
      BY EmptyList
    <2>5. 0 + Len(s) = Len(s) /\ 0 * (2 * w) = 0 /\ \A i \in 1..Len(s) : 0 + i = i
      OBVIOUS
    <2>6. Blocks(pos, <<>>, 2 * w)
      BY <2>4 DEF Blocks
    <2>7. {s[i] : i \in 1..0} = {}
      OBVIOUS
    <2> HIDE DEF N
    <2> QED
      BY <2>1, <2>2, <2>3, <2>4, <2>5, <2>6, <2>7 DEF Passed
  <1>5. ASSUME NEW k \in 0..(N - 1), k \in S PROVE k + 1 \in S
    <2>1. k + 1 \in 0..N /\ k + 1 \in 1..N /\ (k + 1) - 1 = k /\ k \in Nat
      BY <1>1
    <2>2. Passed(s, w, pos, f[k], k) /\ f[k + 1] = PassStep(f[k], w)
      BY <1>3, <1>5, <2>1
    <2>3. Passed(s, w, pos, f[k + 1], k + 1)
      BY <2>1, <2>2, PassStepPassed
    <2> QED
      BY <2>1, <2>3
  <1>6. \A k \in 0..N : k \in S
    <2> HIDE DEF S, N
    <2> QED
      BY <1>1, <1>4, <1>5, InductionUpTo
  <1> DEFINE m == f[N]
  <1>7. Passed(s, w, pos, m, N)
    BY <1>1, <1>6
  <1>8. SortPass(s, w) = m.out
    BY <1>3
  <1> HIDE DEF m
  <1>9. /\ m.out \in Seq(Elem) /\ m.rest \in Seq(Elem)
        /\ Len(m.out) + Len(m.rest) = N
        /\ Len(m.rest) = 0 \/ Len(m.out) = N * (2 * w)
        /\ ToSet(m.out) = {s[i] : i \in 1..Len(m.out)}
        /\ Blocks(pos, m.out, 2 * w)
    BY <1>7 DEF Passed, PassState
  <1>10. Len(m.out) = N
    <2> DEFINE a == Len(m.out)
               b == Len(m.rest)
    <2>1. a \in Nat /\ b \in Nat /\ a + b = N /\ (b = 0 \/ a = N * (2 * w))
      <3>1. m.out \in Seq(Elem) /\ m.rest \in Seq(Elem)
        BY <1>9
      <3>2. a \in Nat /\ b \in Nat
        BY <3>1
      <3>3. a + b = N /\ (b = 0 \/ a = N * (2 * w))
        BY <1>9, Zenon
      <3> QED
        BY <3>2, <3>3, Zenon
    <2> HIDE DEF a, b, N
    <2>2. N * (2 * w) >= N /\ N * (2 * w) \in Int
      BY <1>1
    <2>3. a = N
      BY <1>1, <2>1, <2>2
    <2> QED
      BY <2>3 DEF a
  <1>11. ToSet(m.out) = ToSet(s)
    <2>1. ToSet(s) = {s[i] : i \in 1..Len(s)}
      BY InSet
    <2> QED
      BY <1>9, <1>10, <2>1
  <1> QED
    BY <1>8, <1>9, <1>10, <1>11

LEMMA PassType ==
    ASSUME NEW s \in Seq(Elem), NEW w \in Nat
    PROVE  SortPass(s, w) \in Seq(Elem)
  <1>1. PICK f : PassRun(s, w, f)
    BY PassDef
  <1>2. f \in [0..Len(s) -> PassState] /\ SortPass(s, w) = f[Len(s)].out
    BY <1>1 DEF PassRun
  <1>3. f[Len(s)] \in PassState
    BY <1>2
  <1> QED
    BY <1>2, <1>3 DEF PassState

SortState == [list : Seq(Elem), insize : Nat, looping : BOOLEAN]
SortStep(m, N) ==
    IF m.looping
    THEN [list |-> SortPass(m.list, m.insize), insize |-> 2 * m.insize,
          looping |-> N > 2 * m.insize]
    ELSE m

SortRun(s, f) ==
    /\ f \in [0..Len(s) -> SortState]
    /\ f[0] = [list |-> s, insize |-> 1, looping |-> TRUE]
    /\ \A k \in 1..Len(s) : f[k] = SortStep(f[k - 1], Len(s))
    /\ SortList(s) = f[Len(s)].list

LEMMA SortStepType ==
    ASSUME NEW m \in SortState, NEW N \in Nat
    PROVE  SortStep(m, N) \in SortState
  <1>1. m.list \in Seq(Elem) /\ m.insize \in Nat /\ m.looping \in BOOLEAN
    BY DEF SortState
  <1> DEFINE l == SortPass(m.list, m.insize)
             n == 2 * m.insize
             b == N > n
  <1>2. l \in Seq(Elem) /\ n \in Nat /\ b \in BOOLEAN
    <2>1. l \in Seq(Elem)
      BY <1>1, PassType
    <2>2. n \in Nat
      BY <1>1
    <2>3. b \in BOOLEAN
      <3> HIDE DEF n
      <3> QED
        BY <2>2, SMT
    <2> QED
      BY <2>1, <2>2, <2>3, Zenon
  <1> HIDE DEF l, n, b
  <1>3. [list |-> l, insize |-> n, looping |-> b] \in SortState
    BY <1>2 DEF SortState
  <1> QED
    BY <1>3 DEF SortStep, l, n, b

LEMMA SortDef ==
    ASSUME NEW s \in Seq(Elem)
    PROVE  \E f : SortRun(s, f)
  <1> DEFINE N == Len(s)
             base == [list |-> s, insize |-> 1, looping |-> TRUE]
             after == CHOOSE f : f = [k \in 0..N |-> IF k = 0 THEN base
                                                     ELSE SortStep(f[k - 1], N)]
             T == SortState
             step == [x \in (1..N) \X T |-> SortStep(x[2], N)]
  <1>1. N \in Nat
    OBVIOUS
  <1>2. SortList(s) = after[N].list
    BY DEF SortList, SortStep
  <1>3. base \in T
    BY DEF SortState
  <1> HIDE DEF T, N
  <1>4. \A m \in T : SortStep(m, N) \in T
    BY <1>1, SortStepType DEF T
  <1>5. step \in [(1..N) \X T -> T]
    BY <1>4
  <1>6. \A k \in 1..N, m \in T : step[<<k, m>>] = SortStep(m, N)
    OBVIOUS
  <1> HIDE DEF step, base
  <1>7. PICK f \in [0..N -> T] : Runs(f, N, base, step)
    BY <1>1, <1>3, <1>5, Recursion
  <1>8. \A k \in 1..N : f[k] = SortStep(f[k - 1], N)
    <2> SUFFICES ASSUME NEW k \in 1..N PROVE f[k] = SortStep(f[k - 1], N)
      OBVIOUS
    <2>1. k - 1 \in 0..N
      BY <1>1
    <2>2. f[k - 1] \in T
      BY <2>1
    <2> QED
      BY <1>6, <1>7, <2>2 DEF Runs
  <1>9. f = [k \in 0..N |-> IF k = 0 THEN base ELSE SortStep(f[k - 1], N)]
    <2>1. \A k \in 0..N : f[k] = IF k = 0 THEN base ELSE SortStep(f[k - 1], N)
      BY <1>1, <1>7, <1>8 DEF Runs
    <2> QED
      BY <2>1
  <1>10. after = [k \in 0..N |-> IF k = 0 THEN base ELSE SortStep(after[k - 1], N)]
    BY <1>9
  <1> HIDE DEF after
  <1>11. \A k \in 0..N : after[k] = IF k = 0 THEN base ELSE SortStep(after[k - 1], N)
    BY <1>10
  <1> DEFINE R == {k \in 0..N : after[k] = f[k]}
  <1>12. 0 \in R
    BY <1>1, <1>7, <1>11 DEF Runs
  <1>13. ASSUME NEW k \in 0..(N - 1), k \in R PROVE k + 1 \in R
    <2>1. k + 1 \in 0..N /\ k + 1 \in 1..N /\ k + 1 # 0 /\ (k + 1) - 1 = k
      BY <1>1
    <2> QED
      BY <1>8, <1>11, <1>13, <2>1
  <1>14. \A k \in 0..N : k \in R
    <2> HIDE DEF R
    <2> QED
      BY <1>1, <1>12, <1>13, InductionUpTo
  <1>15. after[N] = f[N] /\ f[0] = base
    <2>1. N \in 0..N
      BY <1>1
    <2> QED
      BY <1>7, <1>14, <2>1 DEF Runs
  <1>16. SortRun(s, f)
    BY <1>2, <1>8, <1>15 DEF base, T, N, SortRun
  <1> QED
    BY <1>16

(* After k passes over s, while passes are left to do. *)
Sorting(s, pos, m, k) ==
    /\ m \in SortState /\ m.insize > 0
    /\ Len(m.list) = Len(s) /\ ToSet(m.list) = ToSet(s) /\ Blocks(pos, m.list, m.insize)
    /\ m.looping => m.insize >= k + 1 /\ (k = 0 \/ Len(s) > m.insize)
    /\ ~m.looping => m.insize >= Len(s)

LEMMA SortStepSorting ==
    ASSUME NEW s \in Seq(Elem), NEW pos \in [Elem -> Int], NEW k \in Nat,
           NEW m, Sorting(s, pos, m, k), NEW u, u = SortStep(m, Len(s))
    PROVE  Sorting(s, pos, u, k + 1)
  <1> DEFINE l == SortPass(m.list, m.insize)
             n == m.insize
             N == Len(s)
  <1>1. /\ m \in SortState /\ m.list \in Seq(Elem) /\ n \in Nat /\ n > 0 /\ N \in Nat
        /\ m.looping \in BOOLEAN
    BY DEF Sorting, SortState
  <1>2. /\ Len(m.list) = N /\ ToSet(m.list) = ToSet(s) /\ Blocks(pos, m.list, n)
        /\ m.looping => n >= k + 1 /\ (k = 0 \/ N > n)
        /\ ~m.looping => n >= N
    BY DEF Sorting
  <1>3. u \in SortState
    BY <1>1, SortStepType
  <1>4. CASE m.looping
    <2>1. u.list = l /\ u.insize = 2 * n /\ u.looping = (N > 2 * n)
      BY <1>4 DEF SortStep
    <2>2. Len(l) = N /\ ToSet(l) = ToSet(s) /\ Blocks(pos, l, 2 * n)
      <3> DEFINE ml == m.list
      <3>1. ml \in Seq(Elem) /\ Blocks(pos, ml, n) /\ Len(ml) = N /\ ToSet(ml) = ToSet(s)
        BY <1>1, <1>2
      <3> HIDE DEF ml, n
      <3>2. /\ Len(SortPass(ml, n)) = Len(ml) /\ ToSet(SortPass(ml, n)) = ToSet(ml)
            /\ Blocks(pos, SortPass(ml, n), 2 * n)
        BY <1>1, <3>1, PassFacts
      <3> QED
        BY <3>1, <3>2 DEF ml, n
    <2> HIDE DEF l, n, N
    <2>3. n >= k + 1
      BY <1>2, <1>4
    <2>4. 2 * n > 0 /\ 2 * n >= (k + 1) + 1 /\ (~(N > 2 * n) => 2 * n >= N)
      BY <1>1, <2>3
    <2> QED
      BY <1>3, <2>1, <2>2, <2>4 DEF Sorting, N
  <1>5. CASE ~m.looping
    <2>1. u = m
      BY <1>5 DEF SortStep
    <2> QED
      BY <1>1, <1>2, <1>5, <2>1 DEF Sorting
  <1> QED
    BY <1>4, <1>5

(* SortList is a stable sort: pos are the positions in s. *)
LEMMA SortFacts ==
    ASSUME NEW s \in Seq(Elem), Len(s) > 0, NEW pos \in [Elem -> Int],
           \A i \in 1..Len(s) : pos[s[i]] = i
    PROVE  /\ SortList(s) \in Seq(Elem) /\ Len(SortList(s)) = Len(s)
           /\ ToSet(SortList(s)) = ToSet(s)
           /\ Ordered(pos, SortList(s))
  <1> DEFINE N == Len(s)
  <1>1. N \in Nat /\ N > 0
    OBVIOUS
  <1>2. PICK f : SortRun(s, f)
    BY SortDef
  <1>3. /\ f \in [0..N -> SortState] /\ f[0] = [list |-> s, insize |-> 1, looping |-> TRUE]
        /\ \A k \in 1..N : f[k] = SortStep(f[k - 1], Len(s))
        /\ SortList(s) = f[N].list
    BY <1>2 DEF SortRun
  <1> DEFINE S == {k \in 0..N : Sorting(s, pos, f[k], k)}
  <1>4. 0 \in S
    <2>1. 0 \in 0..N
      BY <1>1
    <2>2. f[0] \in SortState
      BY <1>3, <2>1
    <2>3. f[0].list = s /\ f[0].insize = 1 /\ f[0].looping
      BY <1>3
    <2>4. Blocks(pos, s, 1)
      <3> SUFFICES ASSUME NEW c \in Nat, NEW i \in 1..Len(s), NEW j \in 1..Len(s), i < j
                   PROVE  /\ c * 1 < i /\ j <= c * 1 + 1 => Lt(pos, s[i], s[j])
                          /\ i <= c * 1 /\ c * 1 < j => pos[s[i]] < pos[s[j]]
        BY DEF Blocks
      <3>1. ~(c * 1 < i /\ j <= c * 1 + 1)
        OBVIOUS
      <3>2. pos[s[i]] < pos[s[j]]
        OBVIOUS
      <3> QED
        BY <3>1, <3>2
    <2>5. 1 >= 0 + 1 /\ 1 > 0
      OBVIOUS
    <2> HIDE DEF N
    <2> QED
      BY <2>1, <2>2, <2>3, <2>4, <2>5 DEF Sorting
  <1>5. ASSUME NEW k \in 0..(N - 1), k \in S PROVE k + 1 \in S
    <2>1. k + 1 \in 0..N /\ k + 1 \in 1..N /\ (k + 1) - 1 = k /\ k \in Nat
      BY <1>1
    <2>2. Sorting(s, pos, f[k], k) /\ f[k + 1] = SortStep(f[k], Len(s))
      BY <1>3, <1>5, <2>1
    <2>3. Sorting(s, pos, f[k + 1], k + 1)
      BY <2>1, <2>2, SortStepSorting
    <2> QED
      BY <2>1, <2>3
  <1>6. \A k \in 0..N : k \in S
    <2> HIDE DEF S, N
    <2> QED
      BY <1>1, <1>4, <1>5, InductionUpTo
  <1> DEFINE m == f[N]
  <1>7. Sorting(s, pos, m, N)
    BY <1>1, <1>6
  <1>8. SortList(s) = m.list
    BY <1>3
  <1> HIDE DEF m
  <1>9. /\ m.list \in Seq(Elem) /\ Len(m.list) = N /\ ToSet(m.list) = ToSet(s)
        /\ Blocks(pos, m.list, m.insize) /\ m.insize \in Nat
    BY <1>7 DEF Sorting, SortState
  <1>10. m.insize >= N
    <2> DEFINE n == m.insize
    <2>1. n \in Nat /\ (m.looping => n >= N + 1 /\ (N = 0 \/ N > n)) /\ (~m.looping => n >= N)
      BY <1>7 DEF Sorting, SortState
    <2> HIDE DEF n, N
    <2>2. n >= N
      BY <1>1, <2>1
    <2> QED
      BY <2>2 DEF n
  <1>11. Ordered(pos, m.list)
    <2> DEFINE l == m.list
               n == m.insize
    <2>1. Blocks(pos, l, n) /\ Len(l) = N /\ n \in Nat /\ n >= N
      BY <1>9, <1>10
    <2> HIDE DEF l, n, N
    <2>2. ASSUME NEW i \in 1..Len(l), NEW j \in 1..Len(l), i < j PROVE Lt(pos, l[i], l[j])
      <3>1. 0 * n < i /\ j <= 0 * n + n /\ 0 \in Nat
        BY <1>1, <2>1
      <3> QED
        BY <2>1, <2>2, <3>1 DEF Blocks
    <2> QED
      BY <2>2 DEF Ordered, l
  <1> QED
    BY <1>8, <1>9, <1>11

Positions(s) == [e \in Elem |-> IF e \in ToSet(s) THEN CHOOSE i \in 1..Len(s) : s[i] = e ELSE 0]

LEMMA PositionFacts ==
    ASSUME NEW s \in Seq(Elem), OneToOne(s)
    PROVE  /\ Positions(s) \in [Elem -> Int]
           /\ \A i \in 1..Len(s) : /\ Positions(s)[s[i]] = i
                                   /\ (CHOOSE j \in 1..Len(s) : s[j] = s[i]) = i
  <1>1. ToSet(s) = {s[i] : i \in 1..Len(s)} /\ \A i \in 1..Len(s) : s[i] \in Elem
    BY InSet
  <1>2. ASSUME NEW i \in 1..Len(s) PROVE (CHOOSE j \in 1..Len(s) : s[j] = s[i]) = i
    BY DEF OneToOne
  <1>3. ASSUME NEW e \in Elem
        PROVE  (IF e \in ToSet(s) THEN CHOOSE i \in 1..Len(s) : s[i] = e ELSE 0) \in Int
    <2>1. CASE e \in ToSet(s)
      <3>1. PICK i \in 1..Len(s) : s[i] = e
        BY <1>1, <2>1
      <3>2. (CHOOSE j \in 1..Len(s) : s[j] = e) \in 1..Len(s)
        BY <3>1
      <3> QED
        BY <2>1, <3>2
    <2>2. CASE e \notin ToSet(s)
      BY <2>2
    <2> QED
      BY <2>1, <2>2
  <1>4. Positions(s) \in [Elem -> Int]
    BY <1>3 DEF Positions
  <1>5. ASSUME NEW i \in 1..Len(s) PROVE Positions(s)[s[i]] = i
    BY <1>1, <1>2 DEF Positions
  <1> QED
    BY <1>2, <1>4, <1>5

(* The sorted list is that of the table after HASH_SRT. *)
LEMMA SortedList ==
    ASSUME NEW s \in Seq(Elem), OneToOne(s), Len(s) > 0, NEW r, r = SortList(s)
    PROVE  /\ r \in Seq(Elem) /\ Len(r) = Len(s) /\ ToSet(r) = ToSet(s) /\ OneToOne(r)
           /\ Ordered(Positions(s), r)
  <1> DEFINE pos == Positions(s)
  <1>1. pos \in [Elem -> Int] /\ \A i \in 1..Len(s) : pos[s[i]] = i
    BY PositionFacts
  <1> HIDE DEF pos
  <1>2. r \in Seq(Elem) /\ Len(r) = Len(s) /\ ToSet(r) = ToSet(s) /\ Ordered(pos, r)
    BY <1>1, SortFacts
  <1>3. \A e \in Elem : ~Lt(pos, e, e)
    <2>1. \A e \in Elem : Rank[e] \in Int /\ pos[e] \in Int
      BY <1>1, TableAssumption
    <2> QED
      BY <2>1 DEF Lt
  <1>4. ASSUME NEW i \in 1..Len(r), NEW j \in 1..Len(r), r[i] = r[j] PROVE i = j
    <2>1. r[i] \in Elem /\ ~Lt(pos, r[i], r[j]) /\ ~Lt(pos, r[j], r[i])
      BY <1>2, <1>3, <1>4
    <2>2. ~(i < j) /\ ~(j < i)
      BY <1>2, <2>1 DEF Ordered
    <2>3. i \in Int /\ j \in Int
      BY <1>2
    <2> QED
      BY <2>2, <2>3
  <1> QED
    BY <1>2, <1>4 DEF OneToOne, pos

(* HASH_SRT. *)
LEMMA SortOK ==
    ASSUME NEW t, NEW s, TableOK(t, s), s # <<>>, NEW r, r = SortList(s)
    PROVE  TableOK(HASH_SRT(t), r)
  <1> DEFINE n == Len(r)
             at(e) == CHOOSE i \in 1..n : r[i] = e
             n2 == [e \in Elem |-> IF e \notin ToSet(r) THEN t.next[e]
                                   ELSE IF at(e) = n THEN NULL ELSE r[at(e) + 1]]
             p2 == [e \in Elem |-> IF e \notin ToSet(r) THEN t.prev[e]
                                   ELSE IF at(e) = 1 THEN NULL ELSE r[at(e) - 1]]
             u == [t EXCEPT !.head = r[1], !.tail = r[n], !.next = n2, !.prev = p2]
  <1>1. /\ t \in Table /\ s \in Seq(Elem) /\ OneToOne(s) /\ Len(s) \in Nat /\ Len(s) > 0
        /\ IsList(t.next, t.prev, t.head, s) /\ t.next \in Ptrs /\ t.prev \in Ptrs
        /\ ToSet(s) = {s[i] : i \in 1..Len(s)}
    BY TableTyped
  <1>2. Walk(t.next, t.head) = s
    BY <1>1, WalkIs
  <1>3. r \in Seq(Elem) /\ n = Len(s) /\ ToSet(r) = ToSet(s) /\ OneToOne(r)
    BY <1>1, SortedList
  <1>4. n \in Nat /\ n > 0 /\ 1 \in 1..n /\ n \in 1..n /\ \A i \in 1..n : r[i] \in Elem
    BY <1>1, <1>3
  <1>5. /\ t \in UT_hash_table /\ t.num_items = Len(s)
        /\ t.num_buckets > 0 /\ t.buckets \in [Buckets(t) -> Bucket]
    BY <1>1, TableTypes DEF TableOK, ListOK
  <1>6. HASH_SRT(t) = u
    BY <1>2, <1>5 DEF HASH_SRT, UT_hash_table
  <1>7. \A i \in 1..n : at(r[i]) = i
    BY <1>3, PositionFacts
  <1>8. ToSet(r) = {r[i] : i \in 1..n}
    BY <1>3, InSet
  <1> HIDE DEF at, n
  <1>9. ASSUME NEW e \in Elem PROVE n2[e] \in Ptr /\ p2[e] \in Ptr
    <2>1. CASE e \notin ToSet(r)
      BY <1>1, <2>1 DEF Ptrs
    <2>2. CASE e \in ToSet(r)
      <3>1. PICK i \in 1..n : e = r[i]
        BY <1>8, <2>2
      <3>2. at(e) = i
        BY <1>7, <3>1
      <3>3. /\ n2[e] = (IF i = n THEN NULL ELSE r[i + 1])
            /\ p2[e] = (IF i = 1 THEN NULL ELSE r[i - 1])
        BY <2>2, <3>2
      <3>4. (i # n => i + 1 \in 1..n) /\ (i # 1 => i - 1 \in 1..n)
        BY <1>4
      <3> QED
        BY <1>4, <3>3, <3>4 DEF Ptr
    <2> QED
      BY <2>1, <2>2
  <1>10. n2 \in Ptrs /\ p2 \in Ptrs
    BY <1>9 DEF Ptrs
  <1>11. ASSUME NEW i \in 1..n
         PROVE  n2[r[i]] = Nth(r, i + 1) /\ p2[r[i]] = Nth(r, i - 1)
    <2>1. r[i] \in ToSet(r) /\ r[i] \in Elem /\ at(r[i]) = i
      BY <1>4, <1>7, <1>8
    <2>2. /\ n2[r[i]] = (IF i = n THEN NULL ELSE r[i + 1])
          /\ p2[r[i]] = (IF i = 1 THEN NULL ELSE r[i - 1])
      BY <2>1
    <2>3. /\ (i # n => i + 1 \in 1..n) /\ (i # 1 => i - 1 \in 1..n)
          /\ n + 1 \notin 1..n /\ 1 - 1 \notin 1..n
      BY <1>4
    <2> HIDE DEF n2, p2
    <2> QED
      BY <2>2, <2>3 DEF Nth, n
  <1> HIDE DEF n2, p2
  <1>12. r[1] \in Ptr /\ r[n] \in Ptr
    BY <1>4 DEF Ptr
  <1>13. /\ SameChains(t, u) /\ SameSize(t, u) /\ u.num_items = t.num_items
         /\ u.head = r[1] /\ u.tail = r[n] /\ u.next = n2 /\ u.prev = p2
    BY <1>5 DEF UT_hash_table, SameChains, SameSize
  <1>14. u \in Table
    <2>1. u.buckets \in {u.buckets}
      OBVIOUS
    <2>2. u \in [head : Ptr, tail : Ptr, num_items : Int, num_buckets : Nat,
                 buckets : {u.buckets},
                 ideal_chain_maxlen : Int, nonideal_items : Int, ineff_expands : Int,
                 noexpand : Int, prev : Ptrs, next : Ptrs, hh_prev : Ptrs, hh_next : Ptrs]
      BY <1>5, <1>10, <1>12, <2>1 DEF UT_hash_table
    <2>3. u.num_buckets > 0 /\ u.buckets \in [0..(u.num_buckets - 1) -> Bucket]
      BY <1>5, <1>13 DEF SameChains, SameSize, Buckets
    <2> HIDE DEF u
    <2> QED
      BY <2>2, <2>3, IsTable
  <1> HIDE DEF u
  <1>15. ListOK(u, r)
    <2>1. u.head = Nth(r, 1) /\ u.tail = Nth(r, Len(r)) /\ u.num_items = Len(r)
      BY <1>3, <1>4, <1>5, <1>13 DEF Nth, n
    <2>2. \A i \in 1..Len(r) : u.next[r[i]] = Nth(r, i + 1) /\ u.prev[r[i]] = Nth(r, i - 1)
      BY <1>11, <1>13 DEF n
    <2> QED
      BY <1>3, <2>1, <2>2 DEF ListOK, IsList
  <1>16. Filled(u, ToSet(r), Len(r))
    BY <1>3, <1>13, <1>14, FilledSame DEF TableOK, n
  <1>17. KeysDiffer(r)
    <2> SUFFICES ASSUME NEW i \in 1..n, NEW j \in 1..n, KeyOf[r[i]] = KeyOf[r[j]] PROVE i = j
      BY DEF KeysDiffer, n
    <2>1. PICK a \in 1..Len(s) : s[a] = r[i]
      BY <1>1, <1>3, <1>8
    <2>2. PICK b \in 1..Len(s) : s[b] = r[j]
      BY <1>1, <1>3, <1>8
    <2>3. a = b
      BY <2>1, <2>2 DEF TableOK, KeysDiffer
    <2> QED
      BY <1>3, <2>1, <2>2, <2>3 DEF OneToOne, n
  <1> QED
    BY <1>6, <1>15, <1>16, <1>17 DEF TableOK

--------------------------------------------------------------------------------
(* The calls. s and r are the elements of the table before and after.       *)

MapStep(s, r) ==
    \/ \E e \in Elem : (\A i \in 1..Len(s) : KeyOf[s[i]] # KeyOf[e]) /\ r = Append(s, e)
    \/ \E e \in Elem, i \in 1..Len(s) :
          KeyOf[s[i]] = KeyOf[e] /\ r = Append(RemoveAt(s, i), e)
    \/ \E i \in 1..Len(s) : r = RemoveAt(s, i)
    \/ s # <<>> /\ r = SortList(s)
    \/ r = <<>>

LEMMA KeysOff ==
    ASSUME NEW s \in Seq(Elem), KeysDiffer(s), NEW k \in 1..Len(s)
    PROVE  \A i \in 1..Len(RemoveAt(s, k)) : KeyOf[RemoveAt(s, k)[i]] # KeyOf[s[k]]
  <1> DEFINE r == RemoveAt(s, k)
             at(i) == IF i < k THEN i ELSE i + 1
  <1>1. /\ Len(r) = Len(s) - 1 /\ \A i \in 1..(k - 1) : r[i] = s[i]
        /\ \A i \in k..(Len(s) - 1) : r[i] = s[i + 1]
    BY RemoveFacts
  <1> HIDE DEF r
  <1>2. ASSUME NEW i \in 1..Len(r) PROVE r[i] = s[at(i)] /\ at(i) \in 1..Len(s) /\ at(i) # k
    BY <1>1
  <1>3. ASSUME NEW i \in 1..Len(r) PROVE KeyOf[r[i]] # KeyOf[s[k]]
    BY <1>2 DEF KeysDiffer
  <1> QED
    BY <1>3 DEF r

LEMMA ReplaceOK ==
    ASSUME NEW t, NEW s, TableOK(t, s), NEW e \in Elem, e \notin ToSet(s),
           NEW found, found = HASH_FIND(t, KeyOf[e])
    PROVE  \E r : TableOK(Freed(HASH_REPLACE(t, e), found), r) /\ MapStep(s, r)
  <1>1. /\ t \in Table /\ s \in Seq(Elem) /\ Len(s) \in Nat
        /\ ToSet(s) \subseteq Elem /\ ToSet(s) = {s[i] : i \in 1..Len(s)}
    BY TableTyped
  <1>2. KeyOf[e] \in Key
    BY DEF Key
  <1>3. HASH_REPLACE(t, e) = HASH_ADD_KEYPTR(IF found = NULL THEN t ELSE HASH_DELETE(t, found), e)
    BY DEF HASH_REPLACE
  <1>4. CASE found = NULL /\ \A i \in 1..Len(s) : KeyOf[s[i]] # KeyOf[e]
    <2>1. HASH_REPLACE(t, e) = HASH_ADD_KEYPTR(t, e)
      BY <1>3, <1>4
    <2>2. TableOK(HASH_REPLACE(t, e), Append(s, e))
      BY <1>4, <2>1, AddOK
    <2>3. found \in Ptr /\ found \notin ToSet(Append(s, e))
      <3>1. ToSet(Append(s, e)) \subseteq Elem
        BY <2>2, TableTyped
      <3> QED
        BY <1>4, <3>1, Caps DEF Ptr
    <2>4. TableOK(Freed(HASH_REPLACE(t, e), found), Append(s, e))
      BY <2>2, <2>3, FreedOK
    <2>5. MapStep(s, Append(s, e))
      BY <1>4 DEF MapStep
    <2> QED
      BY <2>4, <2>5
  <1>5. CASE \E i \in 1..Len(s) : KeyOf[s[i]] = KeyOf[e] /\ found = s[i]
    <2>1. PICK i \in 1..Len(s) : KeyOf[s[i]] = KeyOf[e] /\ found = s[i]
      BY <1>5
    <2> DEFINE q == RemoveAt(s, i)
    <2>2. found \in ToSet(s) /\ found # NULL /\ found # e /\ found \in Ptr
      BY <1>1, <2>1, Caps DEF Ptr
    <2>3. HASH_REPLACE(t, e) = HASH_ADD_KEYPTR(HASH_DELETE(t, found), e)
      BY <1>3, <2>2
    <2>4. TableOK(HASH_DELETE(t, found), q) /\ found \notin ToSet(q)
      BY <2>1, DeleteOK
    <2>5. KeysDiffer(s)
      BY DEF TableOK
    <2>6. \A j \in 1..Len(q) : KeyOf[q[j]] # KeyOf[e]
      BY <1>1, <2>1, <2>5, KeysOff
    <2> HIDE DEF q
    <2>7. TableOK(HASH_REPLACE(t, e), Append(q, e))
      BY <2>3, <2>4, <2>6, AddOK
    <2>8. found \notin ToSet(Append(q, e))
      <3>1. q \in Seq(Elem)
        BY <2>4, TableTyped
      <3>2. ToSet(Append(q, e)) = ToSet(q) \cup {e}
        BY <3>1, AppendFacts
      <3> QED
        BY <2>2, <2>4, <3>2
    <2>9. TableOK(Freed(HASH_REPLACE(t, e), found), Append(q, e))
      BY <2>2, <2>7, <2>8, FreedOK
    <2>10. MapStep(s, Append(q, e))
      BY <2>1 DEF MapStep, q
    <2> QED
      BY <2>9, <2>10
  <1> QED
    BY <1>2, <1>4, <1>5, FindOK

(* Every call leaves a consistent table and does what the map does. *)
LEMMA CallOK ==
    ASSUME NEW s, TableOK(tbl, s), Next
    PROVE  \E r : TableOK(tbl', r) /\ MapStep(s, r)
  <1>1. /\ tbl \in Table /\ s \in Seq(Elem) /\ Len(s) \in Nat
        /\ ToSet(s) \subseteq Elem /\ ToSet(s) = {s[i] : i \in 1..Len(s)}
        /\ IsList(tbl.next, tbl.prev, tbl.head, s) /\ tbl.next \in Ptrs
        /\ tbl.head = NULL <=> s = <<>>
    BY TableTyped
  <1>2. InTable = ToSet(s)
    BY <1>1, WalkIs DEF InTable
  <1>3. ASSUME NEW e \in Elem, Add(e) PROVE \E r : TableOK(tbl', r) /\ MapStep(s, r)
    <2>1. KeyOf[e] \in Key
      BY DEF Key
    <2>2. HASH_FIND(tbl, KeyOf[e]) = NULL /\ tbl' = HASH_ADD_KEYPTR(tbl, e)
      BY <1>3 DEF Add
    <2>3. \A i \in 1..Len(s) : s[i] # NULL
      BY <1>1, Caps
    <2>4. \A i \in 1..Len(s) : KeyOf[s[i]] # KeyOf[e]
      BY <2>1, <2>2, <2>3, FindOK
    <2>5. TableOK(tbl', Append(s, e))
      BY <2>2, <2>4, AddOK
    <2>6. MapStep(s, Append(s, e))
      BY <2>4 DEF MapStep
    <2> QED
      BY <2>5, <2>6
  <1>4. ASSUME NEW e \in Elem, Replace(e) PROVE \E r : TableOK(tbl', r) /\ MapStep(s, r)
    <2>1. e \notin ToSet(s) /\ tbl' = Freed(HASH_REPLACE(tbl, e), HASH_FIND(tbl, KeyOf[e]))
      BY <1>2, <1>4 DEF Replace
    <2> QED
      BY <2>1, ReplaceOK
  <1>5. ASSUME NEW e \in Elem, Delete(e) PROVE \E r : TableOK(tbl', r) /\ MapStep(s, r)
    <2>1. e \in ToSet(s) /\ tbl' = Freed(HASH_DELETE(tbl, e), e)
      BY <1>2, <1>5 DEF Delete
    <2>2. PICK k \in 1..Len(s) : e = s[k]
      BY <1>1, <2>1
    <2>3. TableOK(HASH_DELETE(tbl, e), RemoveAt(s, k)) /\ e \notin ToSet(RemoveAt(s, k))
      BY <2>2, DeleteOK
    <2>4. e \in Ptr
      BY DEF Ptr
    <2>5. TableOK(tbl', RemoveAt(s, k))
      BY <2>1, <2>3, <2>4, FreedOK
    <2>6. MapStep(s, RemoveAt(s, k))
      BY DEF MapStep
    <2> QED
      BY <2>5, <2>6
  <1>6. CASE Sort
    <2>1. s # <<>> /\ tbl' = HASH_SRT(tbl)
      BY <1>1, <1>6 DEF Sort
    <2>2. TableOK(tbl', SortList(s))
      BY <2>1, SortOK
    <2>3. MapStep(s, SortList(s))
      BY <2>1 DEF MapStep
    <2> QED
      BY <2>2, <2>3
  <1>7. CASE Clear
    <2>1. tbl' = HASH_CLEAR(tbl)
      BY <1>7 DEF Clear
    <2>2. TableOK(tbl', <<>>)
      BY <2>1, ClearOK
    <2>3. MapStep(s, <<>>)
      BY DEF MapStep
    <2> QED
      BY <2>2, <2>3
  <1> QED
    BY <1>3, <1>4, <1>5, <1>6, <1>7 DEF Next

(* The inductive invariant: some list of elements is what the table holds. *)
Inv == \E s : TableOK(tbl, s)

LEMMA InvHolds == Spec => []Inv
  <1>1. Init => Inv
    BY ClearOK DEF Init, Inv
  <1>2. Inv /\ [Next]_vars => Inv'
    <2> SUFFICES ASSUME Inv, [Next]_vars PROVE Inv'
      OBVIOUS
    <2>1. PICK s : TableOK(tbl, s)
      BY DEF Inv
    <2>2. CASE Next
      <3>1. PICK r : TableOK(tbl', r)
        BY <2>1, <2>2, CallOK
      <3> QED
        BY <3>1 DEF Inv
    <2>3. CASE UNCHANGED vars
      BY <2>1, <2>3 DEF Inv, vars
    <2> QED
      BY <2>2, <2>3
  <1> QED
    BY <1>1, <1>2, PTL DEF Spec

--------------------------------------------------------------------------------
(* What a program sees. *)

LEMMA Mirrored ==
    ASSUME NEW next \in Ptrs, NEW prev, NEW first, NEW s, IsList(next, prev, first, s)
    PROVE  Mirrors(next, prev, first)
  <1>1. Walk(next, first) = s /\ s \in Seq(Elem)
    BY WalkIs DEF IsList
  <1>2. ASSUME NEW i \in 1..Len(s) PROVE prev[s[i]] = IF i = 1 THEN NULL ELSE s[i - 1]
    <2>1. prev[s[i]] = Nth(s, i - 1)
      BY DEF IsList
    <2>2. Len(s) \in Nat /\ i \in Int /\ (i = 1 => ~(i - 1 \in 1..Len(s))) /\ (i # 1 => i - 1 \in 1..Len(s))
      BY <1>1
    <2> QED
      BY <2>1, <2>2 DEF Nth
  <1> QED
    BY <1>1, <1>2 DEF Mirrors

LEMMA FsckOfTable ==
    ASSUME NEW s, TableOK(tbl, s)
    PROVE  HASH_FSCK
  <1>1. /\ tbl \in Table /\ s \in Seq(Elem) /\ OneToOne(s) /\ Len(s) \in Nat
        /\ IsList(tbl.next, tbl.prev, tbl.head, s) /\ tbl.next \in Ptrs
        /\ tbl.head = NULL <=> s = <<>>
        /\ Len(s) = 0 <=> s = <<>>
    BY TableTyped
  <1>2. Walk(tbl.next, tbl.head) = s /\ Mirrors(tbl.next, tbl.prev, tbl.head)
    BY <1>1, WalkIs, Mirrored
  <1>3. tbl.tail = Nth(s, Len(s)) /\ tbl.num_items = Len(s) /\ ChainsOK(tbl, ToSet(s))
    BY DEF TableOK, ListOK, Filled
  <1>4. IsInjective(s)
    BY <1>1 DEF IsInjective, OneToOne
  <1>5. tbl.head # NULL => tbl.tail = s[Len(s)]
    BY <1>1, <1>3 DEF Nth
  <1>6. DOMAIN tbl.buckets = Buckets(tbl) /\ tbl.hh_next \in Ptrs
    BY <1>1, TableTypes DEF Table, Buckets
  <1>7. ASSUME NEW b \in Buckets(tbl)
        PROVE  /\ Mirrors(tbl.hh_next, tbl.hh_prev, tbl.buckets[b].hh_head)
               /\ tbl.buckets[b].count = Len(Walk(tbl.hh_next, tbl.buckets[b].hh_head))
               /\ ToSet(Walk(tbl.hh_next, tbl.buckets[b].hh_head))
                    = {e \in ToSet(s) : Bkt(tbl, KeyOf[e]) = b}
    <2>1. ChainIs(tbl, b, ToSet(s), Chain(tbl, b))
      BY <1>1, <1>3, ChainWalk
    <2>2. /\ IsList(tbl.hh_next, tbl.hh_prev, tbl.buckets[b].hh_head, Chain(tbl, b))
          /\ tbl.buckets[b].count = Len(Chain(tbl, b))
          /\ ToSet(Chain(tbl, b)) = {e \in ToSet(s) : Bkt(tbl, KeyOf[e]) = b}
      BY <2>1 DEF ChainIs, InBucket
    <2>3. Mirrors(tbl.hh_next, tbl.hh_prev, tbl.buckets[b].hh_head)
      BY <1>6, <2>2, Mirrored
    <2> QED
      BY <2>2, <2>3 DEF Chain
  <1> QED
    BY <1>2, <1>3, <1>4, <1>5, <1>6, <1>7 DEF HASH_FSCK

LEMMA BoundedOfTable ==
    ASSUME NEW s, TableOK(tbl, s)
    PROVE  ChainsBounded
  <1>1. tbl \in Table /\ BoundOK(tbl)
    BY DEF TableOK, Filled
  <1>2. DOMAIN tbl.buckets = Buckets(tbl)
    BY <1>1 DEF Table, Buckets
  <1> QED
    BY <1>1, <1>2 DEF ChainsBounded, BoundOK, Balanced, Short, Thresh

LEMMA FindsOfTable ==
    ASSUME NEW s, TableOK(tbl, s)
    PROVE  FindsItem
  <1>1. /\ s \in Seq(Elem) /\ IsList(tbl.next, tbl.prev, tbl.head, s) /\ tbl.next \in Ptrs
        /\ ToSet(s) = {s[i] : i \in 1..Len(s)}
    BY TableTyped
  <1>2. InTable = {s[i] : i \in 1..Len(s)}
    BY <1>1, WalkIs DEF InTable
  <1>3. ASSUME NEW k \in Key
        PROVE  IF \E e \in InTable : KeyOf[e] = k
               THEN HASH_FIND(tbl, k) \in InTable /\ KeyOf[HASH_FIND(tbl, k)] = k
               ELSE HASH_FIND(tbl, k) = NULL
    <2>1. CASE \E i \in 1..Len(s) : KeyOf[s[i]] = k /\ HASH_FIND(tbl, k) = s[i]
      BY <1>2, <2>1
    <2>2. CASE HASH_FIND(tbl, k) = NULL /\ \A i \in 1..Len(s) : KeyOf[s[i]] # k
      BY <1>2, <2>2
    <2> QED
      BY <2>1, <2>2, FindOK
  <1> QED
    BY <1>3 DEF FindsItem

(* What MapStep says of sorting is what the map says of it. *)
LEMMA SortedOfOrdered ==
    ASSUME NEW s \in Seq(Elem), OneToOne(s), s # <<>>, NEW r, r = SortList(s)
    PROVE  /\ Len(r) = Len(s) /\ ToSet(r) = ToSet(s)
           /\ \A i, j \in 1..Len(r) :
                i < j => \/ Rank[r[i]] < Rank[r[j]]
                         \/ /\ Rank[r[i]] = Rank[r[j]]
                            /\ \E a, b \in 1..Len(s) : a < b /\ s[a] = r[i] /\ s[b] = r[j]
  <1>1. Len(s) > 0
    OBVIOUS
  <1> DEFINE pos == Positions(s)
  <1>2. /\ r \in Seq(Elem) /\ Len(r) = Len(s) /\ ToSet(r) = ToSet(s) /\ Ordered(pos, r)
    BY <1>1, SortedList
  <1>3. \A i \in 1..Len(s) : pos[s[i]] = i
    BY PositionFacts
  <1>4. ToSet(s) = {s[i] : i \in 1..Len(s)} /\ ToSet(r) = {r[i] : i \in 1..Len(r)}
    BY <1>2, InSet
  <1> HIDE DEF pos
  <1>5. ASSUME NEW i \in 1..Len(r), NEW j \in 1..Len(r), i < j, ~(Rank[r[i]] < Rank[r[j]])
        PROVE  /\ Rank[r[i]] = Rank[r[j]]
               /\ \E a, b \in 1..Len(s) : a < b /\ s[a] = r[i] /\ s[b] = r[j]
    <2>1. Rank[r[i]] = Rank[r[j]] /\ pos[r[i]] < pos[r[j]]
      BY <1>2, <1>5 DEF Ordered, Lt
    <2>2. r[i] \in ToSet(s) /\ r[j] \in ToSet(s)
      BY <1>2, <1>4
    <2>3. PICK a \in 1..Len(s) : s[a] = r[i]
      BY <1>4, <2>2
    <2>4. PICK b \in 1..Len(s) : s[b] = r[j]
      BY <1>4, <2>2
    <2>5. a < b
      BY <1>3, <2>1, <2>3, <2>4
    <2> QED
      BY <2>1, <2>3, <2>4, <2>5
  <1> QED
    BY <1>2, <1>5

(* Whatever sequence of HASH_ADD, HASH_REPLACE, HASH_DELETE, HASH_SRT and   *)
(* HASH_CLEAR a program calls, HASH_FSCK finds nothing: list and chains     *)
(* have the same elements, back pointers and counts are right.              *)
THEOREM FsckHolds == Spec => []HASH_FSCK
  <1>1. Inv => HASH_FSCK
    BY FsckOfTable DEF Inv
  <1> QED
    BY <1>1, InvHolds, PTL

(* HASH_ADD_TO_BKT and HASH_EXPAND_BUCKETS keep the bound on the length of  *)
(* a chain that uthash.h promises, for every hash function and threshold,   *)
(* until HASH_EXPAND_BUCKETS itself inhibits expansion.                     *)
THEOREM ChainsBoundedHolds == Spec => []ChainsBounded
  <1>1. Inv => ChainsBounded
    BY BoundedOfTable DEF Inv
  <1> QED
    BY <1>1, InvHolds, PTL

(* HASH_FIND finds the element with the key exactly when the table holds    *)
(* one, however often the buckets were doubled before.                      *)
THEOREM FindsItemHolds == Spec => []FindsItem
  <1>1. Inv => FindsItem
    BY FindsOfTable DEF Inv
  <1> QED
    BY <1>1, InvHolds, PTL

LEMMA MapOfStep ==
    ASSUME NEW s, TableOK(tbl, s), NEW r, TableOK(tbl', r), MapStep(s, r)
    PROVE  Map!Next
  <1>0. \A q, i : Map!RemoveAt(q, i) = RemoveAt(q, i)
    BY DEF Map!RemoveAt, RemoveAt
  <1>1. /\ s \in Seq(Elem) /\ OneToOne(s) /\ IsList(tbl.next, tbl.prev, tbl.head, s)
        /\ tbl.next \in Ptrs
    BY TableTyped
  <1>2. Walk(tbl.next, tbl.head) = s
    BY <1>1, WalkIs
  <1>3. IsList(tbl'.next, tbl'.prev, tbl'.head, r) /\ tbl'.next \in Ptrs
    BY TableTyped
  <1>4. Walk(tbl'.next, tbl'.head) = r
    BY <1>3, WalkIs
  <1>5. ASSUME s # <<>>, r = SortList(s) PROVE Map!Sorted(r)
    <2>1. \A q : Map!ToSet(q) = ToSet(q)
      BY DEF Map!ToSet, ToSet
    <2> QED
      BY <1>1, <1>2, <1>5, <2>1, SortedOfOrdered DEF Map!Sorted
  <1>6. Walk(tbl.next, tbl.head)' = r
    BY <1>4
  <1>7. CASE \E e \in Elem : (\A i \in 1..Len(s) : KeyOf[s[i]] # KeyOf[e]) /\ r = Append(s, e)
    BY <1>2, <1>6, <1>7 DEF Map!Next, Map!Has
  <1>8. CASE \E e \in Elem, i \in 1..Len(s) :
               KeyOf[s[i]] = KeyOf[e] /\ r = Append(RemoveAt(s, i), e)
    BY <1>0, <1>2, <1>6, <1>8 DEF Map!Next
  <1>9. CASE \E i \in 1..Len(s) : r = RemoveAt(s, i)
    BY <1>0, <1>2, <1>6, <1>9 DEF Map!Next
  <1>10. CASE s # <<>> /\ r = SortList(s)
    BY <1>5, <1>6, <1>10 DEF Map!Next
  <1>11. CASE r = <<>>
    BY <1>6, <1>11 DEF Map!Next
  <1> QED
    BY <1>7, <1>8, <1>9, <1>10, <1>11 DEF MapStep

(* The hash table implements OrderedMap: HASH_ADD appends, HASH_DELETE and  *)
(* HASH_EXPAND_BUCKETS keep the order of the other elements, HASH_REPLACE   *)
(* takes out the element with the key before it appends, and the merge sort *)
(* of HASH_SRT is a stable sort of every list.                              *)
THEOREM MapImplemented == Spec => ImplementsMap
  <1>1. Init => Map!Init
    <2> SUFFICES ASSUME Init PROVE Map!Init
      OBVIOUS
    <2>1. TableOK(tbl, <<>>)
      BY ClearOK DEF Init
    <2>2. IsList(tbl.next, tbl.prev, tbl.head, <<>>) /\ tbl.next \in Ptrs
      BY <2>1, TableTyped
    <2>3. Walk(tbl.next, tbl.head) = <<>>
      BY <2>2, WalkIs
    <2> QED
      BY <2>3 DEF Map!Init
  <1>2. Inv /\ [Next]_vars => [Map!Next]_(Walk(tbl.next, tbl.head))
    <2> SUFFICES ASSUME Inv, [Next]_vars PROVE [Map!Next]_(Walk(tbl.next, tbl.head))
      OBVIOUS
    <2>1. PICK s : TableOK(tbl, s)
      BY DEF Inv
    <2>2. CASE Next
      <3>1. PICK r : TableOK(tbl', r) /\ MapStep(s, r)
        BY <2>1, <2>2, CallOK
      <3> QED
        BY <2>1, <3>1, MapOfStep
    <2>3. CASE UNCHANGED vars
      <3>1. tbl' = tbl
        BY <2>3 DEF vars
      <3>2. Walk(tbl.next, tbl.head)' = Walk(tbl.next, tbl.head)
        BY <3>1
      <3> QED
        BY <3>2
    <2> QED
      BY <2>2, <2>3
  <1> QED
    BY <1>1, <1>2, InvHolds, PTL DEF Spec, ImplementsMap, Map!Spec
================================================================================
