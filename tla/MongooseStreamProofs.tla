------------------------- MODULE MongooseStreamProofs -------------------------
(***************************************************************************)
(* Proofs about the bytes of module Mongoose: what the buffer of a          *)
(* connection holds of the client's stream, and that its requests are       *)
(* answered in order, for any streams, any size of the buffer and any way   *)
(* in which recv cuts the stream up.                                        *)
(***************************************************************************)
EXTENDS MongooseProofs, WellFoundedInduction

(* Induction, with a set instead of a predicate. *)
LEMMA LeastNumber ==
    ASSUME NEW T, T \subseteq Nat, T # {}
    PROVE  \E x \in T : \A y \in T : x <= y
  <1> DEFINE R == {ss \in Nat \X Nat : ss[1] < ss[2]}
  <1>1. IsWellFoundedOn(R, Nat)
    BY NatLessThanWellFounded DEF OpToRel
  <1>2. PICK x \in T : \A y \in T : ~(<<y, x>> \in R)
    <2> HIDE DEF R
    <2> QED
      BY <1>1, WFMin
  <1>3. \A y \in T : ~(y < x)
    BY <1>2
  <1> QED
    BY <1>3

LEMMA Induction ==
    ASSUME NEW S, 0 \in S, \A n \in Nat : n \in S => n + 1 \in S
    PROVE  \A n \in Nat : n \in S
  <1> DEFINE T == Nat \ S
  <1>1. SUFFICES ASSUME T # {} PROVE FALSE
    OBVIOUS
  <1>2. PICK x \in T : \A y \in T : x <= y
    BY <1>1, LeastNumber
  <1>3. x # 0 /\ x - 1 \in Nat /\ x - 1 \notin T
    BY <1>2
  <1>4. x - 1 \in S /\ (x - 1) + 1 = x
    BY <1>3
  <1> QED
    BY <1>3, <1>4

(* The least element of a set of numbers. *)
LEMMA MinOf ==
    ASSUME NEW T, T \subseteq Nat, T # {}
    PROVE  Min(T) \in T /\ \A y \in T : Min(T) <= y
  BY LeastNumber DEF Min

LEMMA MinOfTwo ==
    ASSUME NEW a \in Int, NEW b \in Int
    PROVE  Min({a, b}) = IF a <= b THEN a ELSE b
  <1> DEFINE m == IF a <= b THEN a ELSE b
  <1>1. m \in {a, b} /\ \A y \in {a, b} : m <= y
    OBVIOUS
  <1>2. \A x \in {a, b} : (\A y \in {a, b} : x <= y) => x = m
    OBVIOUS
  <1> HIDE DEF m
  <1>3. Min({a, b}) = m
    BY <1>1, <1>2 DEF Min
  <1> QED
    BY <1>3 DEF m
--------------------------------------------------------------------------------
(* The stream of a client is its requests, one after the other. *)

(* FlattenSeq is what its recursive definition says. *)
FlatAt(seqs, f, i) == IF i = 1 THEN seqs[i] ELSE f[i - 1] \o seqs[i]
Flat(seqs, f, n) == f = [i \in 1..n |-> FlatAt(seqs, f, i)]

LEMMA FlatValues ==
    ASSUME NEW seqs, NEW f, NEW n \in Nat
    PROVE  Flat(seqs, f, n) =>
              \A i \in 1..n : f[i] = FlatAt(seqs, f, i)
  <1> SUFFICES ASSUME Flat(seqs, f, n), NEW i \in 1..n PROVE f[i] = FlatAt(seqs, f, i)
    OBVIOUS
  <1> DEFINE g == [j \in 1..n |-> FlatAt(seqs, f, j)]
  <1>1. f = g
    BY DEF Flat
  <1>2. g[i] = FlatAt(seqs, f, i)
    OBVIOUS
  <1> HIDE DEF g
  <1> QED
    BY <1>1, <1>2

LEMMA FlatExists ==
    ASSUME NEW seqs
    PROVE  \A n \in Nat : \E f : Flat(seqs, f, n)
  <1> DEFINE S == {n \in Nat : \E f : Flat(seqs, f, n)}
  <1>1. 0 \in S
    <2>1. << >> = [i \in 1..0 |-> FlatAt(seqs, << >>, i)]
      OBVIOUS
    <2> QED
      BY <2>1 DEF Flat
  <1>2. ASSUME NEW n \in Nat, n \in S PROVE n + 1 \in S
    <2>1. PICK f : Flat(seqs, f, n)
      BY <1>2
    <2> DEFINE g == [i \in 1..(n + 1) |-> IF i <= n THEN f[i] ELSE FlatAt(seqs, f, i)]
               h == [i \in 1..(n + 1) |-> FlatAt(seqs, g, i)]
    <2>2. ASSUME NEW i \in 1..(n + 1) PROVE g[i] = FlatAt(seqs, g, i)
      <3>1. i # 1 => i - 1 \in 1..n /\ g[i - 1] = f[i - 1]
        BY <2>2
      <3>2. FlatAt(seqs, g, i) = FlatAt(seqs, f, i)
        BY <3>1 DEF FlatAt
      <3>3. CASE i <= n
        <4>1. i \in 1..n
          BY <3>3
        <4>2. f[i] = FlatAt(seqs, f, i)
          BY <2>1, <4>1, FlatValues
        <4> QED
          BY <3>2, <3>3, <4>2
      <3>4. CASE ~(i <= n)
        BY <3>2, <3>4
      <3> QED
        BY <3>3, <3>4
    <2>3. g = h
      BY <2>2
    <2>4. Flat(seqs, g, n + 1)
      BY <2>3 DEF Flat
    <2>5. n + 1 \in Nat
      OBVIOUS
    <2> HIDE DEF g
    <2> QED
      BY <2>4, <2>5
  <1>3. \A n \in Nat : n \in S
    <2> HIDE DEF S
    <2> QED
      BY <1>1, <1>2, Induction
  <1> QED
    BY <1>3

LEMMA FlattenDef ==
    ASSUME NEW seqs, Len(seqs) \in Nat, Len(seqs) # 0
    PROVE  \E f : /\ \A i \in 1..Len(seqs) : f[i] = FlatAt(seqs, f, i)
                  /\ FlattenSeq(seqs) = f[Len(seqs)]
  <1> DEFINE flatten == CHOOSE f : f = [i \in 1..Len(seqs) |->
                            IF i = 1 THEN seqs[i] ELSE f[i - 1] \o seqs[i]]
  <1>1. \E f : f = [i \in 1..Len(seqs) |-> IF i = 1 THEN seqs[i] ELSE f[i - 1] \o seqs[i]]
    BY FlatExists DEF Flat, FlatAt
  <1>2. flatten = [i \in 1..Len(seqs) |->
                      IF i = 1 THEN seqs[i] ELSE flatten[i - 1] \o seqs[i]]
    BY <1>1
  <1>3. FlattenSeq(seqs) = flatten[Len(seqs)]
    BY DEF FlattenSeq
  <1> HIDE DEF flatten
  <1>4. Flat(seqs, flatten, Len(seqs))
    BY <1>2 DEF Flat, FlatAt
  <1> QED
    BY <1>3, <1>4, FlatValues

(* What a client may send. *)
HttpRequest ==
    [kind : {"ok", "bad", "version", "garbled"}, method : {"GET", "POST", "PUT"},
     auth : BOOLEAN, cgi : BOOLEAN, alive : BOOLEAN,
     head : Nat \ {0}, length : Nat \cup {NoLength}]

Size(s, i) == Request[s][i].head + Body(Request[s][i])

LEMMA RequestTypes ==
    ASSUME NEW s \in Socket
    PROVE  /\ Request[s] \in Seq(HttpRequest)
           /\ Len(Request[s]) \in Nat /\ DOMAIN Request[s] = 1..Len(Request[s])
           /\ \A i \in 1..Len(Request[s]) :
                 /\ Request[s][i] \in HttpRequest
                 /\ Request[s][i].head \in Nat \ {0} /\ Body(Request[s][i]) \in Nat
                 /\ Size(s, i) \in Nat /\ Request[s][i].head <= Size(s, i)
  <1>1. Request \in Seq(Seq(HttpRequest))
    BY MongooseAssumption DEF HttpRequest
  <1>2. Request[s] \in Seq(HttpRequest)
    BY <1>1 DEF Socket
  <1>3. Len(Request[s]) \in Nat /\ DOMAIN Request[s] = 1..Len(Request[s])
    BY <1>2
  <1>4. ASSUME NEW i \in 1..Len(Request[s])
        PROVE  /\ Request[s][i] \in HttpRequest
               /\ Request[s][i].head \in Nat \ {0} /\ Body(Request[s][i]) \in Nat
               /\ Size(s, i) \in Nat /\ Request[s][i].head <= Size(s, i)
    <2>1. Request[s][i] \in HttpRequest
      BY <1>2
    <2>2. Request[s][i].head \in Nat \ {0} /\ Body(Request[s][i]) \in Nat
      BY <2>1 DEF HttpRequest, Body, NoLength
    <2> QED
      BY <2>1, <2>2 DEF Size
  <1> QED
    BY <1>2, <1>3, <1>4

(* t is the first n requests of the client of s, one after the other: where *)
(* one begins there is the whole of it, and after it the next.              *)
Pairs == Nat \X Nat
Begins(t, a, i) == t[a + 1] = <<i, 1>>
Blocks(s, t, n) ==
    /\ t \in Seq(Pairs)
    /\ \A p \in 1..Len(t) : t[p][1] \in 1..n /\ t[p][2] \in 1..Size(s, t[p][1])
    /\ n > 0 => Len(t) > 0 /\ Begins(t, 0, 1)
    /\ \A a \in Nat, i \in 1..n :
          a < Len(t) /\ Begins(t, a, i) =>
             /\ a + Size(s, i) <= Len(t)
             /\ \A j \in 1..Size(s, i) : t[a + j] = <<i, j>>
             /\ a + Size(s, i) < Len(t) => i < n /\ Begins(t, a + Size(s, i), i + 1)
             /\ a + Size(s, i) = Len(t) => i = n

Block(s, i) == [k \in 1..Request[s][i].head + Body(Request[s][i]) |-> <<i, k>>]

LEMMA BlockFacts ==
    ASSUME NEW s \in Socket, NEW i \in 1..Len(Request[s])
    PROVE  /\ Block(s, i) \in Seq(Pairs) /\ Len(Block(s, i)) = Size(s, i)
           /\ Size(s, i) \in Nat /\ Size(s, i) > 0
           /\ \A k \in 1..Size(s, i) : Block(s, i)[k] = <<i, k>>
  <1>1. Size(s, i) \in Nat /\ Size(s, i) > 0 /\ i \in Nat
    BY RequestTypes
  <1>2. Block(s, i) = [k \in 1..Size(s, i) |-> <<i, k>>]
    BY DEF Block, Size
  <1>3. \A k \in 1..Size(s, i) : <<i, k>> \in Pairs
    BY <1>1 DEF Pairs
  <1>4. Block(s, i) \in Seq(Pairs) /\ Len(Block(s, i)) = Size(s, i)
    BY <1>1, <1>2, <1>3
  <1> QED
    BY <1>1, <1>2, <1>4

LEMMA ConcatFacts ==
    ASSUME NEW S, NEW t \in Seq(S), NEW b \in Seq(S)
    PROVE  /\ t \o b \in Seq(S) /\ Len(t \o b) = Len(t) + Len(b)
           /\ \A p \in 1..Len(t) : (t \o b)[p] = t[p]
           /\ \A p \in 1..Len(b) : (t \o b)[Len(t) + p] = b[p]
  OBVIOUS

LEMMA FirstBlock ==
    ASSUME NEW s \in Socket, 1 \in 1..Len(Request[s])
    PROVE  Blocks(s, Block(s, 1), 1)
  <1> DEFINE t == Block(s, 1)
             z == Size(s, 1)
  <1>1. /\ t \in Seq(Pairs) /\ Len(t) = z /\ z \in Nat /\ z > 0
        /\ \A k \in 1..z : t[k] = <<1, k>>
    BY BlockFacts
  <1> HIDE DEF t, z
  <1>2. \A p \in 1..Len(t) : t[p][1] = 1 /\ t[p][2] = p
    BY <1>1
  <1>3. ASSUME NEW a \in Nat, NEW i \in 1..1, a < Len(t), Begins(t, a, i)
        PROVE  a = 0 /\ i = 1
    <2>1. a + 1 \in 1..Len(t) /\ i = 1
      BY <1>1, <1>3
    <2>2. t[a + 1] = <<1, a + 1>> /\ t[a + 1] = <<i, 1>>
      BY <1>1, <1>3, <2>1 DEF Begins
    <2> QED
      BY <2>1, <2>2
  <1>4. Begins(t, 0, 1)
    BY <1>1 DEF Begins
  <1> QED
    <2>1. \A p \in 1..Len(t) : t[p][1] \in 1..1 /\ t[p][2] \in 1..Size(s, t[p][1])
      BY <1>1, <1>2 DEF z
    <2>2. ASSUME NEW a \in Nat, NEW i \in 1..1, a < Len(t), Begins(t, a, i)
          PROVE  /\ a + Size(s, i) <= Len(t)
                 /\ \A j \in 1..Size(s, i) : t[a + j] = <<i, j>>
                 /\ a + Size(s, i) < Len(t) => i < 1 /\ Begins(t, a + Size(s, i), i + 1)
                 /\ a + Size(s, i) = Len(t) => i = 1
      <3>1. a = 0 /\ i = 1 /\ Size(s, i) = z
        BY <1>3, <2>2 DEF z
      <3> QED
        BY <1>1, <3>1
    <2>3. Blocks(s, t, 1)
      BY <1>1, <1>4, <2>1, <2>2 DEF Blocks
    <2> QED
      BY <2>3 DEF t

LEMMA NextBlock ==
    ASSUME NEW s \in Socket, NEW n \in Nat, n > 0, n + 1 \in 1..Len(Request[s]),
           NEW t, Blocks(s, t, n)
    PROVE  Blocks(s, t \o Block(s, n + 1), n + 1)
  <1> DEFINE b == Block(s, n + 1)
             z == Size(s, n + 1)
             u == t \o b
             N == n + 1
  <1>1. /\ b \in Seq(Pairs) /\ Len(b) = z /\ z \in Nat /\ z > 0
        /\ \A k \in 1..z : b[k] = <<N, k>>
    BY BlockFacts
  <1>2. t \in Seq(Pairs) /\ Len(t) \in Nat /\ N \in Nat
    BY DEF Blocks
  <1> HIDE DEF b, z
  <1>3. /\ u \in Seq(Pairs) /\ Len(u) = Len(t) + z
        /\ \A p \in 1..Len(t) : u[p] = t[p]
        /\ \A p \in 1..z : u[Len(t) + p] = <<N, p>>
    BY <1>1, <1>2, ConcatFacts
  <1> HIDE DEF u
  <1>4. \A p \in 1..Len(u) : \/ p \in 1..Len(t) /\ u[p] = t[p]
                             \/ p - Len(t) \in 1..z /\ u[p] = <<N, p - Len(t)>>
    <2> SUFFICES ASSUME NEW p \in 1..Len(u), ~(p \in 1..Len(t))
                 PROVE  p - Len(t) \in 1..z /\ u[p] = <<N, p - Len(t)>>
      BY <1>3
    <2>1. p - Len(t) \in 1..z /\ Len(t) + (p - Len(t)) = p
      BY <1>1, <1>2, <1>3
    <2> QED
      BY <1>3, <2>1
  <1>5. ASSUME NEW p \in 1..Len(u) PROVE u[p][1] \in 1..N /\ u[p][2] \in 1..Size(s, u[p][1])
    <2>1. CASE p \in 1..Len(t) /\ u[p] = t[p]
      <3>1. t[p][1] \in 1..n /\ t[p][2] \in 1..Size(s, t[p][1])
        BY <2>1 DEF Blocks
      <3> QED
        BY <2>1, <3>1
    <2>2. CASE p - Len(t) \in 1..z /\ u[p] = <<N, p - Len(t)>>
      <3>1. u[p][1] = N /\ u[p][2] = p - Len(t)
        BY <2>2
      <3> QED
        BY <1>2, <2>2, <3>1 DEF z
    <2> QED
      BY <1>4, <2>1, <2>2
  <1>6. Len(u) > 0 /\ Begins(u, 0, 1)
    <2>1. Len(t) > 0 /\ t[0 + 1] = <<1, 1>>
      BY DEF Blocks, Begins
    <2>2. 1 \in 1..Len(t) /\ 0 + 1 = 1 /\ Len(u) > 0
      BY <1>1, <1>2, <1>3, <2>1
    <2> QED
      BY <1>3, <2>1, <2>2 DEF Begins
  <1>7. Begins(u, Len(t), N) /\ Len(t) < Len(u)
    BY <1>1, <1>2, <1>3 DEF Begins
  <1>8. ASSUME NEW a \in Nat, NEW i \in 1..N, a < Len(u), Begins(u, a, i)
        PROVE  /\ a + Size(s, i) <= Len(u)
               /\ \A j \in 1..Size(s, i) : u[a + j] = <<i, j>>
               /\ a + Size(s, i) < Len(u) => i < N /\ Begins(u, a + Size(s, i), i + 1)
               /\ a + Size(s, i) = Len(u) => i = N
    <2>1. CASE a < Len(t)
      <3>1. a + 1 \in 1..Len(t)
        BY <1>2, <2>1
      <3>2. t[a + 1] = <<i, 1>>
        BY <1>3, <1>8, <3>1 DEF Begins
      <3>3. t[a + 1][1] = i
        BY <3>2
      <3>4. i \in 1..n /\ Begins(t, a, i)
        BY <3>1, <3>2, <3>3 DEF Blocks, Begins
      <3> DEFINE y == Size(s, i)
      <3>5. y \in Nat /\ y > 0
        <4>1. i \in 1..Len(Request[s])
          BY <3>4, RequestTypes
        <4> QED
          BY <4>1, BlockFacts
      <3>6. /\ a + y <= Len(t)
            /\ \A j \in 1..y : t[a + j] = <<i, j>>
            /\ a + y < Len(t) => i < n /\ Begins(t, a + y, i + 1)
            /\ a + y = Len(t) => i = n
        BY <2>1, <3>4 DEF Blocks
      <3> HIDE DEF y
      <3>7. a + y < Len(u)
        BY <1>1, <1>2, <1>3, <3>5, <3>6
      <3>8. ASSUME NEW j \in 1..y PROVE u[a + j] = <<i, j>>
        <4>1. a + j \in 1..Len(t)
          BY <1>2, <3>5, <3>6
        <4> QED
          BY <1>3, <3>6, <4>1
      <3>9. i < N /\ Begins(u, a + y, i + 1)
        <4>1. CASE a + y < Len(t)
          <5>1. a + y + 1 \in 1..Len(t)
            BY <1>2, <3>5, <4>1
          <5> QED
            BY <1>3, <3>4, <3>6, <4>1, <5>1 DEF Begins
        <4>2. CASE a + y = Len(t)
          BY <1>7, <3>6, <4>2
        <4> QED
          BY <1>2, <3>5, <3>6, <4>1, <4>2
      <3>10. a + y # Len(u)
        BY <1>2, <1>3, <3>5, <3>7
      <3> QED
        <4>1. a + y <= Len(u)
          BY <1>1, <1>2, <1>3, <3>5, <3>6
        <4> QED
          BY <3>8, <3>9, <3>10, <4>1 DEF y
    <2>2. CASE ~(a < Len(t))
      <3>1. a + 1 \in 1..Len(u) /\ ~(a + 1 \in 1..Len(t))
        BY <1>1, <1>2, <1>3, <1>8, <2>2
      <3>2. u[a + 1] = <<N, a + 1 - Len(t)>> /\ u[a + 1] = <<i, 1>>
        BY <1>4, <1>8, <3>1 DEF Begins
      <3>3. i = N /\ a + 1 - Len(t) = 1
        BY <3>2
      <3>4. a = Len(t) /\ Size(s, i) = z
        BY <1>2, <3>3 DEF z
      <3> QED
        BY <1>1, <1>2, <1>3, <3>3, <3>4
    <2> QED
      BY <2>1, <2>2
  <1>9. Blocks(s, u, N)
    BY <1>3, <1>5, <1>6, <1>8 DEF Blocks
  <1> QED
    BY <1>9 DEF u, b

(* The stream of a client is made of its requests. *)
LEMMA StreamBlocks ==
    ASSUME NEW s \in Socket
    PROVE  Blocks(s, Stream[s], Len(Request[s]))
  <1> DEFINE L == Len(Request[s])
             seqs == [i \in 1..L |-> Block(s, i)]
  <1>1. L \in Nat /\ DOMAIN Request[s] = 1..L
    BY RequestTypes
  <1>2. Stream[s] = FlattenSeq(seqs)
    BY <1>1 DEF Stream, Block
  <1>3. Len(seqs) = L
    BY <1>1
  <1>4. CASE L = 0
    <2>1. seqs = << >>
      BY <1>4
    <2>2. Stream[s] = << >>
      BY <1>2, <2>1 DEF FlattenSeq
    <2> QED
      BY <1>4, <2>2 DEF Blocks
  <1>5. CASE L # 0
    <2>1. \A i \in 1..L : seqs[i] = Block(s, i)
      OBVIOUS
    <2> HIDE DEF seqs
    <2>2. PICK f : /\ \A i \in 1..L : f[i] = FlatAt(seqs, f, i)
                   /\ FlattenSeq(seqs) = f[L]
      BY <1>1, <1>3, <1>5, FlattenDef
    <2> DEFINE S == {n \in Nat : n \in 1..L => Blocks(s, f[n], n)}
    <2>3. 0 \in S
      OBVIOUS
    <2>4. ASSUME NEW n \in Nat, n \in S PROVE n + 1 \in S
      <3>1. SUFFICES ASSUME n + 1 \in 1..L PROVE Blocks(s, f[n + 1], n + 1)
        OBVIOUS
      <3>2. CASE n = 0
        <4>1. 1 \in 1..L
          BY <3>1, <3>2
        <4>2. f[1] = Block(s, 1)
          BY <2>1, <2>2, <4>1 DEF FlatAt
        <4> QED
          BY <3>2, <4>1, <4>2, FirstBlock
      <3>3. CASE n # 0
        <4>1. n \in 1..L /\ n > 0 /\ n + 1 # 1 /\ (n + 1) - 1 = n
          BY <1>1, <3>1, <3>3
        <4>2. Blocks(s, f[n], n)
          BY <2>4, <4>1
        <4>3. f[n + 1] = f[n] \o Block(s, n + 1)
          BY <2>1, <2>2, <3>1, <4>1 DEF FlatAt
        <4>4. Blocks(s, f[n] \o Block(s, n + 1), n + 1)
          BY <3>1, <4>1, <4>2, NextBlock
        <4> QED
          BY <4>3, <4>4
      <3> QED
        BY <3>2, <3>3
    <2>5. \A n \in Nat : n \in S
      <3> HIDE DEF S
      <3> QED
        BY <2>3, <2>4, Induction
    <2>6. Blocks(s, f[L], L)
      BY <1>1, <1>5, <2>5
    <2> QED
      BY <1>2, <2>2, <2>6
  <1> QED
    BY <1>4, <1>5
--------------------------------------------------------------------------------
(* The bytes of a connection. *)

(* buf holds what follows the first a units of the stream of s. *)
Window(s, a, buf) ==
    /\ a + Len(buf) <= Len(Stream[s])
    /\ \A p \in 1..Len(buf) : buf[p] = Stream[s][a + p]

(* Request i begins after the first a units of the stream of s, and its     *)
(* head is at the front of buf.                                             *)
Framed(s, a, buf, i) ==
    /\ Window(s, a, buf)
    /\ a < Len(Stream[s]) /\ Begins(Stream[s], a, i) /\ i \in 1..Len(Request[s])
    /\ get_request_len(s, buf) = Request[s][i].head /\ Request[s][i].head <= Len(buf)
    /\ parse_http_request(buf) = i

ConnTypes(c) ==
    /\ DOMAIN c = Fields
    /\ c.client \in Socket \cup {NoSocket}
    /\ c.buf \in Seq(Pairs) /\ Len(c.buf) <= BUF_SIZE
    /\ c.content_len \in Int /\ c.content_len >= -1 /\ c.consumed \in Nat

(* A connection c after p units of its stream, with the requests ans        *)
(* answered: what is in the buffer and, as long as no request has been left *)
(* half read, where in the stream it is.                                    *)
InOrder(ans) == \A n \in 1..Len(ans) : ans[n] = n
ReadOK(c, p, ans) ==
    \E a \in Nat :
       /\ Window(c.client, a, c.buf) /\ p = a + Len(c.buf)
       /\ a < Len(Stream[c.client]) => Begins(Stream[c.client], a, Len(ans) + 1)
BodyOK(c, p, ans) ==
    \E a \in Nat :
       /\ Framed(c.client, a, c.buf, Len(ans))
       /\ LET r == Request[c.client][Len(ans)] IN
          /\ c.content_len = Body(r)
          /\ IF r.head + Body(r) <= Len(c.buf)
             THEN c.consumed = Body(r) /\ p = a + Len(c.buf)
             ELSE /\ Len(c.buf) <= r.head + c.consumed /\ c.consumed <= Body(r)
                  /\ p = a + r.head + c.consumed
ConnOK(c, p, ans) ==
    /\ p \in 0..Len(Stream[c.client]) /\ ans \in Seq(Nat)
    /\ c.pc \in {"read", "body"} =>
          \A n \in 1..Len(c.buf) : c.buf[n][1] \in 1..Len(Request[c.client])
    /\ c.pc = "handshake" => p = 0 /\ ans = << >>
    /\ c.pc = "read" => c.consumed = 0
    /\ c.pc = "body" => get_request_len(c.client, c.buf) > 0 /\ c.content_len >= 0
OrderOK(c, p, ans) ==
    /\ InOrder(ans)
    /\ c.pc = "read" => ReadOK(c, p, ans)
    /\ c.pc = "body" => BodyOK(c, p, ans)

(* Every connection is in such a state, and a socket that no worker serves  *)
(* is as it was accepted.                                                   *)
At(w, s) == conn[w].pc \in Serving /\ conn[w].client = s
DataInv ==
    /\ DOMAIN pos = Socket /\ DOMAIN hist.answered = Socket
    /\ \A w \in Worker : ConnTypes(conn[w])
    /\ \A w \in Worker : \A s \in Socket :
          At(w, s) =>
             /\ ConnOK(conn[w], pos[s], hist.answered[s])
             /\ s \notin hist.skipped => OrderOK(conn[w], pos[s], hist.answered[s])
    /\ \A s \in Socket :
          (\A w \in Worker : ~At(w, s)) =>
             pos[s] = 0 /\ hist.answered[s] = << >> /\ s \notin hist.skipped

(* num_threads and the copies of it in mg_start and in worker_thread. *)
Bound == main.i - Uncounted
ThreadsInv ==
    /\ ctx.num_threads >= -1 /\ (main.pc # "aborted" => ctx.num_threads >= 0)
    /\ ctx.num_threads <= Bound
    /\ main.reg >= 0 /\ main.reg <= Bound
    /\ \A w \in Worker : conn[w].reg >= 0 /\ conn[w].reg <= Bound
    /\ faults \in 0..MaxFaults
--------------------------------------------------------------------------------
(* The request at the front of a buffer. *)

LEMMA LengthRange ==
    ASSUME NEW s, NEW buf \in Seq(Pairs)
    PROVE  /\ get_request_len(s, buf) \in Int
           /\ get_request_len(s, buf) > 0 =>
                 /\ get_request_len(s, buf) \in 1..Len(buf)
                 /\ buf[get_request_len(s, buf)][2] =
                       Request[s][buf[get_request_len(s, buf)][1]].head
                 /\ \A n \in 1..Len(buf) :
                       buf[n][2] = Request[s][buf[n][1]].head => get_request_len(s, buf) <= n
  <1> DEFINE ends == {n \in DOMAIN buf : buf[n][2] = Request[s][buf[n][1]].head}
             odd  == {n \in DOMAIN buf : InHead(s, buf[n]) /\ Request[s][buf[n][1]].kind = "garbled"}
             len == get_request_len(s, buf)
  <1>1. len = IF odd # {} /\ (ends = {} \/ Min(odd) <= Min(ends)) THEN -1
              ELSE IF ends = {} THEN 0 ELSE Min(ends)
    BY DEF get_request_len
  <1>2. DOMAIN buf = 1..Len(buf) /\ Len(buf) \in Nat
    OBVIOUS
  <1>3. ends \subseteq Nat /\ (ends # {} => Min(ends) \in ends /\ \A y \in ends : Min(ends) <= y)
    <2>1. ends \subseteq Nat
      BY <1>2
    <2> HIDE DEF ends
    <2> QED
      BY <2>1, MinOf
  <1> HIDE DEF odd, len
  <1>4. CASE len = Min(ends) /\ ends # {}
    <2> DEFINE m == Min(ends)
    <2>1. m \in ends /\ \A y \in ends : m <= y
      BY <1>3, <1>4
    <2> HIDE DEF m
    <2>2. m \in 1..Len(buf) /\ buf[m][2] = Request[s][buf[m][1]].head
      BY <1>2, <2>1
    <2>3. \A n \in 1..Len(buf) : buf[n][2] = Request[s][buf[n][1]].head => m <= n
      BY <1>2, <2>1
    <2>4. len = m
      BY <1>4 DEF m
    <2> QED
      BY <2>2, <2>3, <2>4 DEF len
  <1>5. CASE len \in {-1, 0}
    BY <1>5 DEF len
  <1> QED
    BY <1>1, <1>4, <1>5

(* When a request begins at the front of the buffer, its head is what       *)
(* get_request_len finds.                                                   *)
LEMMA Frame ==
    ASSUME NEW s \in Socket, NEW buf \in Seq(Pairs), NEW a \in Nat, NEW i,
           Window(s, a, buf), a < Len(Stream[s]) => Begins(Stream[s], a, i),
           get_request_len(s, buf) > 0
    PROVE  Framed(s, a, buf, i)
  <1> DEFINE len == get_request_len(s, buf)
             t == Stream[s]
             L == Len(Request[s])
             z == Size(s, i)
             h == Request[s][i].head
  <1>1. /\ len \in 1..Len(buf) /\ len \in Nat /\ Len(buf) \in Nat
        /\ buf[len][2] = Request[s][buf[len][1]].head
        /\ \A n \in 1..Len(buf) : buf[n][2] = Request[s][buf[n][1]].head => len <= n
    BY LengthRange
  <1>2. Blocks(s, t, L) /\ t \in Seq(Pairs) /\ Len(t) \in Nat /\ L \in Nat
    BY StreamBlocks, RequestTypes DEF Blocks
  <1>3. a + Len(buf) <= Len(t) /\ \A p \in 1..Len(buf) : buf[p] = t[a + p]
    BY DEF Window
  <1> HIDE DEF len, t
  <1>4. a < Len(t) /\ Begins(t, a, i)
    BY <1>1, <1>2, <1>3 DEF t
  <1>5. i \in 1..L
    <2>1. a + 1 \in 1..Len(t)
      BY <1>2, <1>4
    <2>2. t[a + 1][1] \in 1..L /\ t[a + 1] = <<i, 1>>
      BY <1>2, <1>4, <2>1 DEF Blocks, Begins
    <2> QED
      BY <2>2
  <1>6. z \in Nat /\ h \in Nat /\ h > 0 /\ h <= z
    BY <1>5, RequestTypes
  <1>7. a + z <= Len(t) /\ \A j \in 1..z : t[a + j] = <<i, j>>
    BY <1>2, <1>4, <1>5 DEF Blocks
  <1> HIDE DEF z
  <1>8. buf[1] = <<i, 1>>
    BY <1>1, <1>3, <1>4 DEF Begins
  <1>9. ASSUME NEW n \in 1..Len(buf), n <= z PROVE buf[n] = <<i, n>>
    <2>1. n \in 1..z
      BY <1>1, <1>6, <1>9
    <2>2. t[a + n] = <<i, n>> /\ buf[n] = t[a + n]
      BY <1>3, <1>7, <1>9, <2>1
    <2> QED
      BY <2>2
  <1>10. len <= z
    <2> SUFFICES ASSUME ~(len <= z) PROVE FALSE
      OBVIOUS
    <2>1. h \in 1..Len(buf) /\ h <= z
      BY <1>1, <1>6
    <2>2. buf[h] = <<i, h>>
      BY <1>9, <2>1
    <2>3. buf[h][2] = h /\ buf[h][1] = i
      BY <2>2
    <2>4. len <= h
      BY <1>1, <2>1, <2>3
    <2> QED
      BY <1>1, <1>6, <2>4
  <1>11. len = h
    <2>1. buf[len] = <<i, len>>
      BY <1>1, <1>9, <1>10
    <2>2. buf[len][2] = len /\ buf[len][1] = i
      BY <2>1
    <2> QED
      BY <1>1, <2>2
  <1>12. parse_http_request(buf) = i
    BY <1>8 DEF parse_http_request
  <1>13. h <= Len(buf)
    BY <1>1, <1>11
  <1> QED
    BY <1>4, <1>5, <1>11, <1>12, <1>13 DEF Framed, t, len

(* recv appends to the buffer, and the end of a request takes from it. *)
LEMMA WindowGrows ==
    ASSUME NEW s \in Socket, NEW buf \in Seq(Pairs), NEW q \in Nat, NEW n \in Nat,
           q + n <= Len(Stream[s])
    PROVE  LET more == SubSeq(Stream[s], q + 1, q + n)
               new == buf \o more IN
           /\ new \in Seq(Pairs) /\ Len(new) = Len(buf) + n
           /\ \A p \in 1..Len(new) :
                 \/ p \in 1..Len(buf) /\ new[p] = buf[p]
                 \/ /\ p - Len(buf) \in 1..n /\ q + (p - Len(buf)) \in 1..Len(Stream[s])
                    /\ new[p] = Stream[s][q + (p - Len(buf))]
           /\ \A a \in Nat : Window(s, a, buf) /\ q = a + Len(buf) => Window(s, a, new)
  <1> DEFINE t == Stream[s]
             more == SubSeq(t, q + 1, q + n)
             new == buf \o more
  <1>1. t \in Seq(Pairs) /\ Len(t) \in Nat /\ Len(buf) \in Nat
    BY StreamBlocks DEF Blocks
  <1>2. q + n <= Len(t)
    OBVIOUS
  <1> HIDE DEF t
  <1>3. /\ more \in Seq(Pairs) /\ Len(more) = n
        /\ \A p \in 1..n : more[p] = t[q + p]
    <2>1. q + 1 \in 1..(Len(t) + 1) /\ q + n \in 0..Len(t)
      BY <1>1, <1>2
    <2>2. more = [p \in 1..((q + n) - (q + 1) + 1) |-> t[(q + 1) + p - 1]]
      OBVIOUS
    <2>3. (q + n) - (q + 1) + 1 = n /\ \A p \in 1..n : (q + 1) + p - 1 = q + p
      OBVIOUS
    <2>4. more = [p \in 1..n |-> t[q + p]]
      BY <2>2, <2>3
    <2>5. \A p \in 1..n : t[q + p] \in Pairs
      BY <1>1, <1>2
    <2> HIDE DEF more
    <2> QED
      BY <2>4, <2>5
  <1> HIDE DEF more
  <1>4. /\ new \in Seq(Pairs) /\ Len(new) = Len(buf) + n
        /\ \A p \in 1..Len(buf) : new[p] = buf[p]
        /\ \A p \in 1..n : new[Len(buf) + p] = t[q + p]
    <2>1. PICK m : m = more /\ m \in Seq(Pairs) /\ Len(m) = n /\ \A p \in 1..n : m[p] = t[q + p]
      BY <1>3
    <2>2. new = buf \o m
      BY <2>1
    <2> HIDE DEF new
    <2>3. /\ buf \o m \in Seq(Pairs) /\ Len(buf \o m) = Len(buf) + Len(m)
          /\ \A p \in 1..Len(buf) : (buf \o m)[p] = buf[p]
          /\ \A p \in 1..Len(m) : (buf \o m)[Len(buf) + p] = m[p]
      <3>1. m \in Seq(Pairs) /\ buf \in Seq(Pairs)
        BY <2>1
      <3> QED
        BY <3>1, ConcatFacts
    <2> QED
      BY <2>1, <2>2, <2>3
  <1> HIDE DEF new
  <1>5. ASSUME NEW p \in 1..Len(new), ~(p \in 1..Len(buf))
        PROVE  /\ p - Len(buf) \in 1..n /\ q + (p - Len(buf)) \in 1..Len(t)
               /\ new[p] = t[q + (p - Len(buf))]
    <2>1. /\ p - Len(buf) \in 1..n /\ Len(buf) + (p - Len(buf)) = p
          /\ q + (p - Len(buf)) \in 1..Len(t)
      BY <1>1, <1>2, <1>4, <1>5
    <2> QED
      BY <1>4, <2>1
  <1>6. ASSUME NEW a \in Nat, Window(s, a, buf), q = a + Len(buf) PROVE Window(s, a, new)
    <2>1. a + Len(new) <= Len(t)
      BY <1>1, <1>2, <1>4, <1>6
    <2>2. ASSUME NEW p \in 1..Len(new) PROVE new[p] = t[a + p]
      <3>1. CASE p \in 1..Len(buf)
        BY <1>4, <1>6, <3>1 DEF Window, t
      <3>2. CASE ~(p \in 1..Len(buf))
        <4>1. q + (p - Len(buf)) = a + p
          BY <1>1, <1>6
        <4> QED
          BY <1>5, <3>2, <4>1
      <3> QED
        BY <3>1, <3>2
    <2> QED
      BY <2>1, <2>2 DEF Window, t
  <1>7. \A p \in 1..Len(new) :
           \/ p \in 1..Len(buf) /\ new[p] = buf[p]
           \/ /\ p - Len(buf) \in 1..n /\ q + (p - Len(buf)) \in 1..Len(t)
              /\ new[p] = t[q + (p - Len(buf))]
    BY <1>4, <1>5
  <1> QED
    BY <1>4, <1>6, <1>7 DEF new, more, t

LEMMA WindowShrinks ==
    ASSUME NEW s \in Socket, NEW buf \in Seq(Pairs), NEW d \in 0..Len(buf)
    PROVE  LET new == SubSeq(buf, d + 1, Len(buf)) IN
           /\ new \in Seq(Pairs) /\ Len(new) = Len(buf) - d
           /\ \A p \in 1..Len(new) : d + p \in 1..Len(buf) /\ new[p] = buf[d + p]
           /\ \A a \in Nat : Window(s, a, buf) => Window(s, a + d, new)
  <1> DEFINE new == SubSeq(buf, d + 1, Len(buf))
             m == Len(buf) - d
  <1>1. Len(buf) \in Nat /\ d \in Nat /\ m \in Nat /\ Len(Stream[s]) \in Int
    BY StreamBlocks DEF Blocks
  <1>2. new \in Seq(Pairs) /\ Len(new) = m /\ \A p \in 1..m : new[p] = buf[d + p]
    <2>1. new = [p \in 1..(Len(buf) - (d + 1) + 1) |-> buf[(d + 1) + p - 1]]
      OBVIOUS
    <2>2. Len(buf) - (d + 1) + 1 = m /\ \A p \in 1..m : (d + 1) + p - 1 = d + p
      BY <1>1
    <2>3. new = [p \in 1..m |-> buf[d + p]]
      BY <2>1, <2>2
    <2>4. \A p \in 1..m : buf[d + p] \in Pairs
      BY <1>1
    <2> HIDE DEF new, m
    <2> QED
      BY <1>1, <2>3, <2>4
  <1>3. \A p \in 1..m : d + p \in 1..Len(buf)
    BY <1>1
  <1> HIDE DEF new
  <1>4. ASSUME NEW a \in Nat, Window(s, a, buf) PROVE Window(s, a + d, new)
    <2>1. (a + d) + Len(new) = a + Len(buf)
      BY <1>1, <1>2
    <2>2. ASSUME NEW p \in 1..Len(new) PROVE new[p] = Stream[s][(a + d) + p]
      <3>1. d + p \in 1..Len(buf) /\ new[p] = buf[d + p] /\ a + (d + p) = (a + d) + p
        BY <1>1, <1>2, <1>3
      <3> QED
        BY <1>4, <3>1 DEF Window
    <2> QED
      BY <1>4, <2>1, <2>2 DEF Window
  <1> QED
    BY <1>2, <1>3, <1>4 DEF new
--------------------------------------------------------------------------------
(* What each step does to a connection: c before it, d after it. *)

(* d differs from c at most in the fields named. *)
Same(c, d, names) == DOMAIN d = Fields /\ \A f \in Fields \ names : d[f] = c[f]

LEMMA ClosingOK ==
    ASSUME NEW c, NEW d, NEW p, NEW q, NEW ans, ConnTypes(c), ConnOK(c, p, ans),
           Same(c, d, {"pc"}), d.pc = "closing", q \in 0..Len(Stream[c.client])
    PROVE  /\ ConnTypes(d) /\ ConnOK(d, q, ans)
           /\ InOrder(ans) => OrderOK(d, q, ans)
  <1>1. d.client = c.client /\ d.buf = c.buf /\ d.content_len = c.content_len
        /\ d.consumed = c.consumed /\ DOMAIN d = Fields
    BY DEF Same, Fields
  <1> QED
    BY <1>1 DEF ConnTypes, ConnOK, OrderOK

(* read_request: n units arrive. *)
LEMMA ArriveOK ==
    ASSUME NEW c, NEW d, NEW p, NEW ans, NEW n \in Nat, ConnTypes(c), ConnOK(c, p, ans),
           c.client \in Socket, c.pc = "read", Same(c, d, {"buf"}),
           d.buf = c.buf \o SubSeq(Stream[c.client], p + 1, p + n),
           Len(c.buf) + n <= BUF_SIZE, p + n <= Len(Stream[c.client])
    PROVE  /\ ConnTypes(d) /\ ConnOK(d, p + n, ans)
           /\ OrderOK(c, p, ans) => OrderOK(d, p + n, ans)
  <1>1. PICK s \in Socket : s = c.client
    OBVIOUS
  <1>2. PICK old \in Seq(Pairs) : old = c.buf
    BY DEF ConnTypes
  <1>3. PICK new : new = d.buf
    OBVIOUS
  <1>4. /\ d.client = s /\ d.content_len = c.content_len /\ d.pc = "read"
        /\ d.consumed = c.consumed /\ DOMAIN d = Fields
    BY <1>1 DEF Same, Fields
  <1>5. p \in Nat /\ ans \in Seq(Nat) /\ Len(old) \in Nat /\ c.consumed = 0
        /\ Len(Stream[s]) \in Nat
    BY <1>1, StreamBlocks DEF ConnOK, Blocks
  <1>6. /\ new \in Seq(Pairs) /\ Len(new) = Len(old) + n
        /\ \A j \in 1..Len(new) :
              \/ j \in 1..Len(old) /\ new[j] = old[j]
              \/ /\ j - Len(old) \in 1..n /\ p + (j - Len(old)) \in 1..Len(Stream[s])
                 /\ new[j] = Stream[s][p + (j - Len(old))]
        /\ \A a \in Nat : Window(s, a, old) /\ p = a + Len(old) => Window(s, a, new)
    <2>1. p + n <= Len(Stream[s]) /\ new = old \o SubSeq(Stream[s], p + 1, p + n)
      BY <1>1, <1>2, <1>3
    <2> QED
      BY <1>5, <2>1, WindowGrows
  <1>7. ConnTypes(d)
    BY <1>1, <1>2, <1>3, <1>4, <1>6 DEF ConnTypes
  <1>8. ConnOK(d, p + n, ans)
    <2>1. \A j \in 1..Len(old) : old[j][1] \in 1..Len(Request[s])
      BY <1>1, <1>2 DEF ConnOK
    <2>2. \A j \in 1..Len(Stream[s]) : Stream[s][j][1] \in 1..Len(Request[s])
      BY StreamBlocks DEF Blocks
    <2>3. ASSUME NEW j \in 1..Len(new) PROVE new[j][1] \in 1..Len(Request[s])
      <3>1. CASE j \in 1..Len(old) /\ new[j] = old[j]
        BY <2>1, <3>1
      <3>2. CASE /\ p + (j - Len(old)) \in 1..Len(Stream[s])
                 /\ new[j] = Stream[s][p + (j - Len(old))]
        BY <2>2, <3>2
      <3> QED
        BY <1>6, <3>1, <3>2
    <2>4. p + n \in 0..Len(Stream[s])
      BY <1>1, <1>5
    <2> QED
      BY <1>3, <1>4, <1>5, <2>3, <2>4 DEF ConnOK
  <1>9. ASSUME OrderOK(c, p, ans) PROVE OrderOK(d, p + n, ans)
    <2>1. PICK a \in Nat : /\ Window(s, a, old) /\ p = a + Len(old)
                           /\ a < Len(Stream[s]) => Begins(Stream[s], a, Len(ans) + 1)
      BY <1>1, <1>2, <1>9 DEF OrderOK, ReadOK
    <2>2. Window(s, a, new) /\ p + n = a + Len(new)
      BY <1>5, <1>6, <2>1
    <2>3. ReadOK(d, p + n, ans)
      BY <1>3, <1>4, <2>1, <2>2 DEF ReadOK
    <2> QED
      BY <1>4, <1>9, <2>3 DEF OrderOK
  <1> QED
    BY <1>7, <1>8, <1>9

(* forward_body_data: n more units of the body arrive. *)
LEMMA ForwardOK ==
    ASSUME NEW c, NEW d, NEW p, NEW ans, NEW n \in Nat, ConnTypes(c), ConnOK(c, p, ans),
           c.client \in Socket, c.pc = "body", Same(c, d, {"consumed"}),
           d.consumed = c.consumed + n, n > 0,
           d.consumed <= c.content_len, p + n <= Len(Stream[c.client])
    PROVE  /\ ConnTypes(d) /\ ConnOK(d, p + n, ans)
           /\ OrderOK(c, p, ans) => OrderOK(d, p + n, ans)
  <1>1. /\ d.client = c.client /\ d.content_len = c.content_len /\ d.pc = "body"
        /\ d.buf = c.buf /\ DOMAIN d = Fields
    BY DEF Same, Fields
  <1>2. /\ p \in Nat /\ c.consumed \in Nat /\ c.content_len \in Int
        /\ Len(Stream[c.client]) \in Nat /\ Len(c.buf) \in Nat
    BY StreamBlocks DEF ConnOK, Blocks, ConnTypes
  <1>3. d.consumed \in Nat
    BY <1>2
  <1>4. ConnTypes(d)
    BY <1>1, <1>3 DEF ConnTypes
  <1>5. p + n \in 0..Len(Stream[c.client])
    BY <1>2
  <1>6. ConnOK(d, p + n, ans)
    BY <1>1, <1>5 DEF ConnOK
  <1>7. ASSUME OrderOK(c, p, ans) PROVE OrderOK(d, p + n, ans)
    <2> DEFINE s == c.client
               r == Request[s][Len(ans)]
    <2>1. PICK a \in Nat :
             /\ Framed(s, a, c.buf, Len(ans))
             /\ c.content_len = Body(r)
             /\ IF r.head + Body(r) <= Len(c.buf)
                THEN c.consumed = Body(r) /\ p = a + Len(c.buf)
                ELSE /\ Len(c.buf) <= r.head + c.consumed /\ c.consumed <= Body(r)
                     /\ p = a + r.head + c.consumed
      BY <1>7 DEF OrderOK, BodyOK
    <2>2. r.head \in Nat /\ Body(r) \in Nat
      BY <2>1, RequestTypes DEF Framed
    <2>3. ~(r.head + Body(r) <= Len(c.buf))
      BY <1>2, <2>1, <2>2
    <2>4. /\ Len(c.buf) <= r.head + d.consumed /\ d.consumed <= Body(r)
          /\ p + n = a + r.head + d.consumed
      <3>1. /\ Len(c.buf) <= r.head + c.consumed /\ p = a + r.head + c.consumed
            /\ c.content_len = Body(r)
        BY <2>1, <2>3
      <3>2. PICK h \in Nat, b \in Nat : h = r.head /\ b = Body(r)
        BY <2>2
      <3>3. d.consumed = c.consumed + n /\ d.consumed <= b
        BY <3>1, <3>2
      <3>4. Len(c.buf) <= h + c.consumed /\ p = a + h + c.consumed
        BY <3>1, <3>2
      <3>5. Len(c.buf) <= h + d.consumed /\ p + n = a + h + d.consumed
        BY <1>2, <3>3, <3>4
      <3> QED
        BY <3>2, <3>3, <3>5
    <2>5. BodyOK(d, p + n, ans)
      BY <1>1, <2>1, <2>3, <2>4 DEF BodyOK
    <2> QED
      BY <1>1, <1>7, <2>5 DEF OrderOK
  <1> QED
    BY <1>4, <1>6, <1>7

(* The end of a request: what process_new_connection discards. *)
Discard(c, len) ==
    IF c.content_len >= 0 /\ len + c.content_len < Len(c.buf)
    THEN len + c.content_len ELSE Len(c.buf)

LEMMA NextFields ==
    ASSUME NEW c, ConnTypes(c), NEW len, NEW keep, NEW d, d = next_request(c, len, keep)
    PROVE  /\ DOMAIN d = Fields /\ d.client = c.client /\ d.content_len = c.content_len
           /\ d.reg = c.reg /\ d.consumed = 0 /\ d.pc \in {"read", "closing"}
           /\ ~keep => d.pc = "closing"
           /\ d.buf = SubSeq(c.buf, Discard(c, len) + 1, Len(c.buf))
  <1>1. DOMAIN c = Fields
    BY DEF ConnTypes
  <1> DEFINE e == [c EXCEPT !.buf = SubSeq(c.buf, Discard(c, len) + 1, Len(c.buf)),
                            !.pc = IF ctx.stop_flag = 0 /\ c.content_len >= 0 /\ keep
                                   THEN "read" ELSE "closing"]
  <1>2. d = [e EXCEPT !.consumed = 0]
    BY DEF next_request, reset_per_request_attributes, Discard
  <1>3. /\ DOMAIN e = Fields /\ e.client = c.client /\ e.content_len = c.content_len
        /\ e.reg = c.reg /\ e.pc \in {"read", "closing"} /\ (~keep => e.pc = "closing")
        /\ e.buf = SubSeq(c.buf, Discard(c, len) + 1, Len(c.buf))
    BY <1>1 DEF Fields
  <1> HIDE DEF e
  <1> QED
    BY <1>2, <1>3 DEF Fields

(* The request at the front of the buffer of c has been dealt with. *)
EndOK(c, p, ans) ==
    /\ p \in 0..Len(Stream[c.client]) /\ ans \in Seq(Nat)
    /\ \A n \in 1..Len(c.buf) : c.buf[n][1] \in 1..Len(Request[c.client])
    /\ get_request_len(c.client, c.buf) > 0
EndOrder(c, p, ans) ==
    /\ InOrder(ans)
    /\ \E a \in Nat :
          /\ Framed(c.client, a, c.buf, Len(ans))
          /\ LET r == Request[c.client][Len(ans)] IN
             IF r.head + Body(r) <= Len(c.buf) THEN p = a + Len(c.buf)
             ELSE c.consumed >= Body(r) => p = a + r.head + Body(r)

LEMMA EndsOK ==
    ASSUME NEW c, ConnTypes(c), c.client \in Socket, NEW p, NEW ans, EndOK(c, p, ans),
           NEW keep, NEW d, d = next_request(c, get_request_len(c.client, c.buf), keep)
    PROVE  /\ ConnTypes(d) /\ ConnOK(d, p, ans)
           /\ InOrder(ans) /\ ~keep => OrderOK(d, p, ans)
           /\ EndOrder(c, p, ans)
                 /\ ~Skips(c, Request[c.client][parse_http_request(c.buf)],
                           get_request_len(c.client, c.buf))
              => OrderOK(d, p, ans)
  <1>1. PICK s \in Socket : s = c.client
    OBVIOUS
  <1>2. PICK buf \in Seq(Pairs) : buf = c.buf
    BY DEF ConnTypes
  <1>3. PICK len : len = get_request_len(s, buf)
    OBVIOUS
  <1>4. PICK new : new = d.buf
    OBVIOUS
  <1> DEFINE x == Discard(c, len)
  <1>5. /\ DOMAIN d = Fields /\ d.client = s /\ d.content_len = c.content_len
        /\ d.consumed = 0 /\ d.pc \in {"read", "closing"}
        /\ ~keep => d.pc = "closing"
        /\ new = SubSeq(buf, x + 1, Len(buf))
    BY <1>1, <1>2, <1>3, <1>4, NextFields
  <1>6. /\ p \in Nat /\ p \in 0..Len(Stream[s]) /\ ans \in Seq(Nat)
        /\ Len(buf) \in Nat /\ Len(buf) <= BUF_SIZE /\ BUF_SIZE \in Nat
        /\ c.content_len \in Int /\ c.content_len >= -1 /\ c.consumed \in Nat
        /\ Len(Stream[s]) \in Nat
    BY <1>1, <1>2, StreamBlocks, MongooseAssumption DEF ConnTypes, EndOK, Blocks
  <1>7. len \in 1..Len(buf)
    BY <1>1, <1>2, <1>3, LengthRange DEF EndOK
  <1>8. x \in 0..Len(buf)
    BY <1>2, <1>6, <1>7 DEF Discard
  <1> HIDE DEF x
  <1>9. /\ new \in Seq(Pairs) /\ Len(new) = Len(buf) - x
        /\ \A n \in 1..Len(new) : x + n \in 1..Len(buf) /\ new[n] = buf[x + n]
        /\ \A a \in Nat : Window(s, a, buf) => Window(s, a + x, new)
    BY <1>5, <1>8, WindowShrinks
  <1>10. ConnTypes(d)
    <2>1. Len(new) <= BUF_SIZE
      BY <1>6, <1>8, <1>9
    <2> QED
      BY <1>4, <1>5, <1>6, <1>9, <2>1 DEF ConnTypes
  <1>11. ConnOK(d, p, ans)
    <2>1. \A n \in 1..Len(buf) : buf[n][1] \in 1..Len(Request[s])
      BY <1>1, <1>2 DEF EndOK
    <2>2. \A n \in 1..Len(new) : new[n][1] \in 1..Len(Request[s])
      BY <1>9, <2>1
    <2> QED
      BY <1>4, <1>5, <1>6, <2>2 DEF ConnOK
  <1>12. InOrder(ans) /\ ~keep => OrderOK(d, p, ans)
    BY <1>5 DEF OrderOK
  <1>13. ASSUME EndOrder(c, p, ans), ~Skips(c, Request[s][parse_http_request(buf)], len)
         PROVE  OrderOK(d, p, ans)
    <2> DEFINE k == Len(ans)
               r == Request[s][k]
               h == r.head
               b == Body(r)
    <2>1. PICK a \in Nat : /\ Framed(s, a, buf, k)
                           /\ IF h + b <= Len(buf) THEN p = a + Len(buf)
                              ELSE c.consumed >= b => p = a + h + b
      BY <1>1, <1>2, <1>13 DEF EndOrder
    <2>2. /\ Window(s, a, buf) /\ a < Len(Stream[s]) /\ Begins(Stream[s], a, k)
          /\ k \in 1..Len(Request[s]) /\ len = h /\ parse_http_request(buf) = k
      BY <1>3, <2>1 DEF Framed
    <2>3. h \in Nat /\ b \in Nat /\ Size(s, k) = h + b /\ k \in Nat
      BY <2>2, RequestTypes DEF Size
    <2>4. c.content_len = b /\ ~(c.consumed < b /\ h + b > Len(buf))
      BY <1>2, <1>13, <2>2 DEF Skips
    <2>5. a + (h + b) < Len(Stream[s]) => Begins(Stream[s], a + (h + b), k + 1)
      BY <2>2, <2>3, StreamBlocks DEF Blocks
    <2> HIDE DEF k, h, b, r
    <2>6. x = IF h + b < Len(buf) THEN h + b ELSE Len(buf)
      BY <1>2, <2>2, <2>3, <2>4 DEF x, Discard
    <2>7. /\ p = (a + (h + b)) + Len(new)
          /\ Window(s, a + (h + b), new)
      <3>1. CASE h + b <= Len(buf)
        <4>1. x = h + b /\ p = a + Len(buf)
          BY <1>6, <2>1, <2>3, <2>6, <3>1
        <4> QED
          BY <1>6, <1>9, <2>2, <2>3, <4>1
      <3>2. CASE ~(h + b <= Len(buf))
        <4>1. x = Len(buf) /\ p = a + h + b /\ Len(new) = 0
          BY <1>6, <1>9, <2>1, <2>3, <2>4, <2>6, <3>2
        <4>2. Window(s, a + (h + b), new)
          BY <1>6, <2>3, <4>1 DEF Window
        <4> QED
          BY <2>3, <4>1, <4>2
      <3> QED
        BY <3>1, <3>2
    <2>8. a + (h + b) \in Nat
      BY <2>3
    <2>9. ReadOK(d, p, ans)
      BY <1>4, <1>5, <2>5, <2>7, <2>8 DEF ReadOK, k
    <2> QED
      BY <1>5, <1>13, <2>9 DEF OrderOK, EndOrder
  <1> QED
    BY <1>1, <1>2, <1>3, <1>10, <1>11, <1>12, <1>13

(* A request ends in process_new_connection: c has the content_len of the   *)
(* request or, after the reply 505, of the one before.                      *)
LEMMA ReadEnds ==
    ASSUME NEW c, NEW e, NEW p, NEW ans, NEW i, ConnTypes(c), ConnOK(c, p, ans),
           c.client \in Socket, c.pc = "read", Same(c, e, {"content_len"}),
           get_request_len(c.client, c.buf) > 0, i = parse_http_request(c.buf)
    PROVE  /\ i \in 0..Len(Request[c.client])
           /\ EndOK(e, p, Append(ans, i))
           /\ OrderOK(c, p, ans) => /\ EndOrder(e, p, Append(ans, i))
                                    /\ \E a \in Nat : /\ Framed(c.client, a, c.buf, i)
                                                      /\ p = a + Len(c.buf)
                                    /\ Len(Append(ans, i)) = i
  <1>1. PICK s \in Socket : s = c.client
    OBVIOUS
  <1>2. PICK buf \in Seq(Pairs) : buf = c.buf
    BY DEF ConnTypes
  <1>3. e.client = s /\ e.buf = buf /\ e.consumed = 0
    BY <1>1, <1>2 DEF Same, Fields, ConnOK
  <1>4. /\ p \in Nat /\ p \in 0..Len(Stream[s]) /\ ans \in Seq(Nat) /\ Len(buf) \in Nat
        /\ Len(Stream[s]) \in Nat /\ Len(Request[s]) \in Nat
        /\ \A n \in 1..Len(buf) : buf[n][1] \in 1..Len(Request[s])
    BY <1>1, <1>2, StreamBlocks, RequestTypes DEF ConnOK, Blocks
  <1>5. get_request_len(s, buf) \in 1..Len(buf)
    BY <1>1, <1>2, LengthRange
  <1>6. i \in 0..Len(Request[s])
    <2>1. 1 \in 1..Len(buf)
      BY <1>4, <1>5
    <2>2. buf[1][1] \in 1..Len(Request[s])
      BY <1>4, <2>1
    <2> QED
      BY <1>2, <1>4, <2>2 DEF parse_http_request
  <1>7. /\ Append(ans, i) \in Seq(Nat) /\ Len(Append(ans, i)) = Len(ans) + 1
        /\ \A n \in 1..Len(ans) + 1 :
              Append(ans, i)[n] = IF n = Len(ans) + 1 THEN i ELSE ans[n]
    BY <1>4, <1>6
  <1>8. EndOK(e, p, Append(ans, i))
    BY <1>1, <1>2, <1>3, <1>4, <1>7 DEF EndOK
  <1>9. ASSUME OrderOK(c, p, ans)
        PROVE  /\ EndOrder(e, p, Append(ans, i))
               /\ \E a \in Nat : Framed(s, a, buf, i) /\ p = a + Len(buf)
               /\ Len(Append(ans, i)) = i
    <2>1. PICK a \in Nat : /\ Window(s, a, buf) /\ p = a + Len(buf)
                           /\ a < Len(Stream[s]) => Begins(Stream[s], a, Len(ans) + 1)
      BY <1>1, <1>2, <1>9 DEF OrderOK, ReadOK
    <2>2. Framed(s, a, buf, Len(ans) + 1)
      BY <1>1, <1>2, <2>1, Frame
    <2>3. i = Len(ans) + 1
      BY <1>2, <2>2 DEF Framed
    <2>4. InOrder(Append(ans, i))
      <3>1. \A n \in 1..Len(ans) : ans[n] = n
        BY <1>9 DEF OrderOK, InOrder
      <3>2. ASSUME NEW n \in 1..Len(ans) + 1 PROVE Append(ans, i)[n] = n
        <4>1. n = Len(ans) + 1 \/ n \in 1..Len(ans)
          BY <1>4
        <4> QED
          BY <1>7, <2>3, <3>1, <4>1
      <3> QED
        BY <1>7, <3>2 DEF InOrder
    <2>5. i \in 1..Len(Request[s]) /\ Request[s][i].head <= Len(buf)
      BY <2>2, <2>3 DEF Framed
    <2> DEFINE r == Request[s][i]
    <2>6. r.head \in Nat /\ Body(r) \in Nat
      BY <2>5, RequestTypes
    <2>7. IF r.head + Body(r) <= Len(buf) THEN p = a + Len(buf)
          ELSE e.consumed >= Body(r) => p = a + r.head + Body(r)
      <3>1. PICK h \in Nat, b \in Nat : h = r.head /\ b = Body(r)
        BY <2>6
      <3>2. h <= Len(buf)
        BY <2>5, <3>1
      <3>3. ~(h + b <= Len(buf)) => ~(0 >= b)
        BY <1>4, <3>2
      <3> QED
        BY <1>3, <2>1, <3>1, <3>3
    <2>8. Len(Append(ans, i)) = i
      BY <1>7, <2>3
    <2>9. EndOrder(e, p, Append(ans, i))
      BY <1>3, <2>2, <2>3, <2>4, <2>7, <2>8 DEF EndOrder
    <2> QED
      BY <2>1, <2>2, <2>3, <2>8, <2>9
  <1> QED
    BY <1>1, <1>2, <1>6, <1>8, <1>9

(* A request ends after forward_body_data; or without it, and then e has    *)
(* passed nothing on.                                                       *)
LEMMA BodyEnds ==
    ASSUME NEW c, NEW e, NEW p, NEW q, NEW ans, ConnTypes(c), ConnOK(c, p, ans),
           c.client \in Socket, c.pc = "body", Same(c, e, {"consumed"}),
           \/ e.consumed = c.consumed /\ (q = p \/ c.consumed < c.content_len)
           \/ e.consumed = 0 /\ q = p,
           q \in 0..Len(Stream[c.client])
    PROVE  /\ EndOK(e, q, ans)
           /\ OrderOK(c, p, ans) => EndOrder(e, q, ans)
  <1>1. PICK s \in Socket : s = c.client
    OBVIOUS
  <1>2. PICK buf \in Seq(Pairs) : buf = c.buf
    BY DEF ConnTypes
  <1>3. e.client = s /\ e.buf = buf
    BY <1>1, <1>2 DEF Same, Fields
  <1>4. /\ p \in Nat /\ ans \in Seq(Nat) /\ Len(buf) \in Nat /\ c.consumed \in Nat
    BY <1>1, <1>2, StreamBlocks DEF ConnOK, ConnTypes, Blocks
  <1>5. EndOK(e, q, ans)
    BY <1>1, <1>2, <1>3 DEF EndOK, ConnOK
  <1>6. ASSUME OrderOK(c, p, ans) PROVE EndOrder(e, q, ans)
    <2> DEFINE r == Request[s][Len(ans)]
    <2>1. PICK a \in Nat :
             /\ Framed(s, a, buf, Len(ans)) /\ c.content_len = Body(r)
             /\ IF r.head + Body(r) <= Len(buf)
                THEN c.consumed = Body(r) /\ p = a + Len(buf)
                ELSE /\ Len(buf) <= r.head + c.consumed /\ c.consumed <= Body(r)
                     /\ p = a + r.head + c.consumed
      BY <1>1, <1>2, <1>6 DEF OrderOK, BodyOK
    <2>2. PICK h \in Nat, b \in Nat : h = r.head /\ b = Body(r)
      BY <2>1, RequestTypes DEF Framed
    <2>3. h <= Len(buf)
      BY <2>1, <2>2 DEF Framed
    <2>4. IF h + b <= Len(buf) THEN q = a + Len(buf)
          ELSE e.consumed >= b => q = a + h + b
      <3>1. CASE h + b <= Len(buf)
        <4>1. c.consumed = b /\ p = a + Len(buf) /\ c.content_len = b
          BY <2>1, <2>2, <3>1
        <4>2. q = p
          BY <1>4, <4>1
        <4> QED
          BY <3>1, <4>1, <4>2
      <3>2. CASE ~(h + b <= Len(buf))
        <4>1. c.consumed <= b /\ p = a + h + c.consumed /\ c.content_len = b
          BY <2>1, <2>2, <3>2
        <4>2. b > 0
          BY <1>4, <2>3, <3>2
        <4>3. ASSUME e.consumed >= b PROVE q = a + h + b
          <5>1. e.consumed = c.consumed /\ ~(c.consumed < b)
            BY <1>4, <4>2, <4>3
          <5>2. q = p /\ c.consumed = b
            BY <1>4, <4>1, <5>1
          <5> QED
            BY <4>1, <5>2
        <4> QED
          BY <3>2, <4>3
      <3> QED
        BY <3>1, <3>2
    <2>5. InOrder(ans)
      BY <1>6 DEF OrderOK
    <2> QED
      BY <1>3, <2>1, <2>2, <2>4, <2>5 DEF EndOrder
  <1> QED
    BY <1>5, <1>6

(* process_new_connection hands the request over to forward_body_data. *)
LEMMA HandOverOK ==
    ASSUME NEW c, NEW d, NEW p, NEW ans, NEW i, ConnTypes(c), ConnOK(c, p, ans),
           c.client \in Socket, c.pc = "read", Same(c, d, {"pc", "content_len", "consumed"}),
           get_request_len(c.client, c.buf) > 0, i = parse_http_request(c.buf), i # 0,
           d.pc = "body", d.content_len = Content_Length(Request[c.client][i]),
           d.content_len # -1,
           d.consumed = Min({Len(c.buf) - get_request_len(c.client, c.buf), d.content_len})
    PROVE  /\ ConnTypes(d) /\ ConnOK(d, p, Append(ans, i))
           /\ OrderOK(c, p, ans) => OrderOK(d, p, Append(ans, i))
  <1>1. PICK s \in Socket : s = c.client
    OBVIOUS
  <1>2. PICK buf \in Seq(Pairs) : buf = c.buf
    BY DEF ConnTypes
  <1>3. PICK len : len = get_request_len(s, buf)
    OBVIOUS
  <1>4. d.client = s /\ d.buf = buf /\ DOMAIN d = Fields
    BY <1>1, <1>2 DEF Same, Fields
  <1> DEFINE e == c
             new == Append(ans, i)
             r == Request[s][i]
  <1>5. Same(c, e, {"content_len"})
    BY DEF Same, ConnTypes
  <1>6. /\ i \in 0..Len(Request[s]) /\ EndOK(c, p, new)
        /\ OrderOK(c, p, ans) => /\ EndOrder(c, p, new)
                                 /\ \E a \in Nat : Framed(s, a, buf, i) /\ p = a + Len(buf)
                                 /\ Len(new) = i
    BY <1>1, <1>2, <1>5, ReadEnds
  <1> HIDE DEF new, e
  <1>7. i \in 1..Len(Request[s]) /\ r \in HttpRequest /\ len \in 1..Len(buf) /\ Len(buf) \in Nat
    <2>1. i \in 1..Len(Request[s])
      BY <1>6, RequestTypes
    <2> QED
      BY <1>1, <1>2, <1>3, <2>1, RequestTypes, LengthRange
  <1>8. d.content_len \in Nat /\ d.content_len = Body(r)
    BY <1>1, <1>7 DEF HttpRequest, Content_Length, Body, NoLength
  <1>9. d.consumed = IF Len(buf) - len <= d.content_len THEN Len(buf) - len ELSE d.content_len
    BY <1>1, <1>2, <1>3, <1>7, <1>8, MinOfTwo
  <1>10. d.consumed \in Nat /\ d.consumed <= d.content_len
    BY <1>7, <1>8, <1>9
  <1>11. ConnTypes(d)
    BY <1>1, <1>2, <1>4, <1>8, <1>10 DEF ConnTypes
  <1>12. ConnOK(d, p, new)
    BY <1>1, <1>2, <1>4, <1>6, <1>8 DEF ConnOK, EndOK
  <1>13. ASSUME OrderOK(c, p, ans) PROVE OrderOK(d, p, new)
    <2>1. PICK a \in Nat : Framed(s, a, buf, i) /\ p = a + Len(buf)
      BY <1>6, <1>13
    <2>2. Len(new) = i /\ InOrder(new)
      BY <1>6, <1>13 DEF EndOrder
    <2>3. PICK h \in Nat, b \in Nat : h = r.head /\ b = Body(r)
      BY <1>7, RequestTypes
    <2>4. len = h
      BY <1>3, <2>1, <2>3 DEF Framed
    <2>5. IF h + b <= Len(buf) THEN d.consumed = b /\ p = a + Len(buf)
          ELSE Len(buf) <= h + d.consumed /\ d.consumed <= b /\ p = a + h + d.consumed
      <3>1. d.content_len = b
        BY <1>8, <2>3
      <3>2. CASE h + b <= Len(buf)
        <4>1. b <= Len(buf) - h
          BY <1>7, <3>2
        <4>2. d.consumed = b
          BY <1>7, <1>9, <2>4, <3>1, <4>1
        <4> QED
          BY <2>1, <3>2, <4>2
      <3>3. CASE ~(h + b <= Len(buf))
        <4>1. Len(buf) - h <= b
          BY <1>7, <3>3
        <4>2. d.consumed = Len(buf) - h
          BY <1>9, <2>4, <3>1, <4>1
        <4> QED
          BY <1>7, <2>1, <3>3, <4>1, <4>2
      <3> QED
        BY <3>2, <3>3
    <2>6. BodyOK(d, p, new)
      BY <1>4, <1>8, <2>1, <2>2, <2>3, <2>5 DEF BodyOK
    <2> QED
      BY <2>2, <2>6 DEF OrderOK
  <1> QED
    BY <1>11, <1>12, <1>13 DEF new
--------------------------------------------------------------------------------
(* The steps of a worker inside a connection. *)

Advances(w, s) ==
    /\ \A v \in Worker : v # w => conn'[v] = conn[v]
    /\ DOMAIN pos' = Socket /\ DOMAIN hist'.answered = Socket
    /\ \A t \in Socket :
          t # s => /\ pos'[t] = pos[t] /\ hist'.answered[t] = hist.answered[t]
                   /\ t \in hist'.skipped <=> t \in hist.skipped
    /\ conn'[w].pc \in Serving /\ conn'[w].client = s
    /\ ConnTypes(conn'[w]) /\ ConnOK(conn'[w], pos'[s], hist'.answered[s])
    /\ s \notin hist'.skipped => OrderOK(conn'[w], pos'[s], hist'.answered[s])

LEMMA OneServer ==
    ASSUME HeldOnce, NEW s \in Socket, NEW v \in Worker, NEW w \in Worker,
           Holds(v, s), Holds(w, s)
    PROVE  v = w
  <1>1. <<"worker", v>> \in Holders(s) /\ <<"worker", w>> \in Holders(s)
    BY DEF Holders
  <1>2. <<"worker", v>> = <<"worker", w>>
    BY <1>1 DEF HeldOnce
  <1> QED
    BY <1>2

LEMMA AdvanceKeeps ==
    ASSUME HeldInv, DataInv, NEW w \in Worker, NEW s \in Socket, Holds(w, s), Advances(w, s)
    PROVE  DataInv'
  <1>1. \A v \in Worker : v # w => ~At(v, s)
    <2> SUFFICES ASSUME NEW v \in Worker, v # w, At(v, s) PROVE FALSE
      OBVIOUS
    <2>1. Holds(v, s)
      BY DEF At, Holds, Serving
    <2> QED
      BY <2>1, OneServer DEF HeldInv
  <1>2. \A v \in Worker : v # w => \A t : At(v, t)' <=> At(v, t)
    BY DEF Advances, At
  <1>3. At(w, s)' /\ \A t : At(w, t)' => t = s
    BY DEF Advances, At
  <1>4. \A t : At(w, t) => t = s
    BY DEF At, Holds
  <1>5. ASSUME NEW v \in Worker PROVE ConnTypes(conn'[v])
    BY DEF Advances, DataInv
  <1>6. ASSUME NEW v \in Worker, NEW t \in Socket, At(v, t)'
        PROVE  /\ ConnOK(conn'[v], pos'[t], hist'.answered[t])
               /\ t \notin hist'.skipped => OrderOK(conn'[v], pos'[t], hist'.answered[t])
    <2>1. CASE v = w
      BY <1>3, <1>6, <2>1 DEF Advances
    <2>2. CASE v # w
      <3>1. At(v, t) /\ t # s
        BY <1>1, <1>2, <1>6, <2>2
      <3>2. /\ ConnOK(conn[v], pos[t], hist.answered[t])
            /\ t \notin hist.skipped => OrderOK(conn[v], pos[t], hist.answered[t])
        BY <3>1 DEF DataInv
      <3>3. conn'[v] = conn[v] /\ pos'[t] = pos[t] /\ hist'.answered[t] = hist.answered[t]
            /\ (t \in hist'.skipped <=> t \in hist.skipped)
        BY <2>2, <3>1 DEF Advances
      <3> QED
        BY <3>2, <3>3
    <2> QED
      BY <2>1, <2>2
  <1>7. ASSUME NEW t \in Socket, \A v \in Worker : ~At(v, t)'
        PROVE  pos'[t] = 0 /\ hist'.answered[t] = << >> /\ t \notin hist'.skipped
    <2>1. t # s
      BY <1>3, <1>7
    <2>2. \A v \in Worker : ~At(v, t)
      BY <1>2, <1>4, <1>7, <2>1
    <2>3. pos[t] = 0 /\ hist.answered[t] = << >> /\ t \notin hist.skipped
      BY <2>2 DEF DataInv
    <2> QED
      BY <2>1, <2>3 DEF Advances
  <1>8. DOMAIN pos' = Socket /\ DOMAIN hist'.answered = Socket
    BY DEF Advances
  <1> QED
    BY <1>5, <1>6, <1>7, <1>8 DEF DataInv

(* The connection of a worker that serves. *)
Conn(w, s) ==
    /\ s \in Socket /\ conn[w].client = s /\ Holds(w, s) /\ ConnTypes(conn[w])
    /\ DOMAIN conn[w] = Fields /\ DOMAIN conn = Worker
    /\ DOMAIN hist = HistFields /\ DOMAIN hist.answered = Socket /\ DOMAIN pos = Socket
    /\ ConnOK(conn[w], pos[s], hist.answered[s])
    /\ s \notin hist.skipped => OrderOK(conn[w], pos[s], hist.answered[s])

LEMMA ConnFacts ==
    ASSUME HeldInv, DataInv, NEW w \in Worker, conn[w].pc \in Serving
    PROVE  \E s \in Socket : Conn(w, s)
  <1>1. PICK s \in Socket : s = conn[w].client
    BY DEF HeldInv, QueueInv
  <1>2. At(w, s) /\ Holds(w, s)
    BY <1>1 DEF At, Holds, Serving
  <1>3. DOMAIN conn[w] = Fields /\ DOMAIN conn = Worker /\ DOMAIN hist = HistFields
    BY DEF HeldInv, Shape
  <1> QED
    BY <1>1, <1>2, <1>3 DEF DataInv, Conn

(* The worker gives the connection up. *)
LEMMA GivesUp ==
    ASSUME NEW w \in Worker, NEW s, Conn(w, s),
           conn' = [conn EXCEPT ![w].pc = "closing"], hist' = hist,
           \/ pos' = pos
           \/ \E q \in 0..Len(Stream[s]) : pos' = [pos EXCEPT ![s] = q]
    PROVE  Advances(w, s)
  <1>1. /\ \A v \in Worker : v # w => conn'[v] = conn[v]
        /\ conn'[w] = [conn[w] EXCEPT !.pc = "closing"]
    BY DEF Conn
  <1>2. conn'[w].pc = "closing" /\ conn'[w].client = s /\ Same(conn[w], conn'[w], {"pc"})
    BY <1>1 DEF Conn, Same, Fields
  <1>3. /\ DOMAIN pos' = Socket /\ pos'[s] \in 0..Len(Stream[s])
        /\ \A t \in Socket : t # s => pos'[t] = pos[t]
    BY DEF Conn, ConnOK
  <1>4. /\ ConnTypes(conn[w]) /\ ConnOK(conn[w], pos[s], hist.answered[s])
        /\ pos'[s] \in 0..Len(Stream[conn[w].client])
    BY <1>3 DEF Conn
  <1>5. /\ ConnTypes(conn'[w]) /\ ConnOK(conn'[w], pos'[s], hist.answered[s])
        /\ InOrder(hist.answered[s]) => OrderOK(conn'[w], pos'[s], hist.answered[s])
    BY <1>2, <1>4, ClosingOK
  <1>6. s \notin hist.skipped => OrderOK(conn'[w], pos'[s], hist.answered[s])
    BY <1>5 DEF Conn, OrderOK
  <1> QED
    BY <1>1, <1>2, <1>3, <1>5, <1>6 DEF Advances, Conn, Serving

(* recv returns n units. *)
LEMMA PullFacts ==
    ASSUME NEW s \in Socket, DOMAIN pos = Socket, pos[s] \in Nat, NEW len \in Int, NEW n,
           pull(s, len, n)
    PROVE  /\ n \in Nat /\ n > 0 /\ n <= len /\ pos[s] + n <= Len(Stream[s])
           /\ pos' = [pos EXCEPT ![s] = pos[s] + n]
           /\ pos'[s] = pos[s] + n /\ DOMAIN pos' = Socket
           /\ \A t \in Socket : t # s => pos'[t] = pos[t]
  <1>1. Len(Stream[s]) \in Nat
    BY StreamBlocks DEF Blocks
  <1>2. n \in 1..Min({len, Left(s)}) /\ pos' = [pos EXCEPT ![s] = pos[s] + n]
    BY DEF pull
  <1>3. Left(s) = Len(Stream[s]) - pos[s] /\ Left(s) \in Int
    BY <1>1 DEF Left
  <1>4. Min({len, Left(s)}) = IF len <= Left(s) THEN len ELSE Left(s)
    BY <1>3, MinOfTwo
  <1>5. n \in Nat /\ n > 0 /\ n <= len /\ n <= Left(s)
    BY <1>2, <1>3, <1>4
  <1>6. pos[s] + n <= Len(Stream[s])
    BY <1>1, <1>3, <1>5
  <1> QED
    BY <1>2, <1>5, <1>6

LEMMA ReadData ==
    ASSUME HeldInv, DataInv, NEW w \in Worker,
           read_request(w) \/ read_stops(w) \/ read_fails(w)
    PROVE  DataInv'
  <1>1. conn[w].pc = "read"
    BY DEF read_request, read_stops, read_fails, Reading
  <1>2. PICK s \in Socket : Conn(w, s)
    BY <1>1, ConnFacts DEF Serving
  <1>3. /\ pos[s] \in Nat /\ Len(Stream[s]) \in Nat /\ conn[w].client = s /\ DOMAIN pos = Socket
        /\ Len(conn[w].buf) \in Nat /\ BUF_SIZE \in Nat
    BY <1>2, StreamBlocks, MongooseAssumption DEF Conn, ConnOK, ConnTypes, Blocks
  <1>4. Advances(w, s)
    <2>1. CASE conn' = [conn EXCEPT ![w].pc = "closing"] /\ hist' = hist
               /\ (pos' = pos \/ pos' = [pos EXCEPT ![s] = Len(Stream[s])])
      <3>1. Len(Stream[s]) \in 0..Len(Stream[s])
        BY <1>3
      <3> QED
        BY <1>2, <2>1, <3>1, GivesUp
    <2>2. ASSUME NEW n, pull(s, BUF_SIZE - Len(conn[w].buf), n), hist' = hist,
                 conn' = [conn EXCEPT ![w].buf = @ \o SubSeq(Stream[s], pos[s] + 1, pos[s] + n)]
          PROVE  Advances(w, s)
      <3> DEFINE room == BUF_SIZE - Len(conn[w].buf)
      <3>1. room \in Int
        BY <1>3
      <3> HIDE DEF room
      <3>2. /\ n \in Nat /\ n <= room /\ pos[s] + n <= Len(Stream[s])
            /\ pos'[s] = pos[s] + n /\ DOMAIN pos' = Socket
            /\ \A t \in Socket : t # s => pos'[t] = pos[t]
        BY <1>3, <2>2, <3>1, PullFacts DEF room
      <3>3. /\ \A v \in Worker : v # w => conn'[v] = conn[v]
            /\ conn'[w] = [conn[w] EXCEPT !.buf =
                              conn[w].buf \o SubSeq(Stream[s], pos[s] + 1, pos[s] + n)]
        BY <1>2, <2>2 DEF Conn
      <3>4. /\ conn'[w].pc = "read" /\ conn'[w].client = s /\ Same(conn[w], conn'[w], {"buf"})
            /\ conn'[w].buf = conn[w].buf \o SubSeq(Stream[s], pos[s] + 1, pos[s] + n)
        BY <1>1, <1>2, <3>3 DEF Conn, Same, Fields
      <3>5. Len(conn[w].buf) + n <= BUF_SIZE
        BY <1>3, <3>2 DEF room
      <3>6. /\ ConnTypes(conn'[w]) /\ ConnOK(conn'[w], pos[s] + n, hist.answered[s])
            /\ OrderOK(conn[w], pos[s], hist.answered[s])
                  => OrderOK(conn'[w], pos[s] + n, hist.answered[s])
        BY <1>1, <1>2, <1>3, <3>2, <3>4, <3>5, ArriveOK DEF Conn
      <3> QED
        BY <1>2, <2>2, <3>2, <3>3, <3>4, <3>6 DEF Advances, Conn, Serving
    <2>3. CASE read_request(w)
      <3>1. /\ hist' = hist
            /\ \/ \E n \in 1..BUF_SIZE :
                     /\ pull(s, BUF_SIZE - Len(conn[w].buf), n)
                     /\ conn' = [conn EXCEPT ![w].buf =
                                    @ \o SubSeq(Stream[s], pos[s] + 1, pos[s] + n)]
               \/ client_closes(s) /\ conn' = [conn EXCEPT ![w].pc = "closing"]
        BY <1>3, <2>3 DEF read_request
      <3> QED
        BY <2>1, <2>2, <3>1 DEF client_closes
    <2>4. CASE read_stops(w) \/ read_fails(w)
      BY <2>1, <2>4 DEF read_stops, read_fails
    <2> QED
      BY <2>3, <2>4
  <1> QED
    BY <1>2, <1>4, AdvanceKeeps DEF Conn

(* A request ends: e is the connection as the end finds it. *)
LEMMA EndsAdvance ==
    ASSUME NEW w \in Worker, NEW s, Conn(w, s), NEW e, Same(conn[w], e, {"content_len", "consumed"}),
           ConnTypes(e), NEW keep, NEW answered,
           EndOK(e, pos'[s], answered),
           s \notin hist.skipped => EndOrder(e, pos'[s], answered),
           DOMAIN pos' = Socket, \A t \in Socket : t # s => pos'[t] = pos[t],
           Ends(w, s, e, Request[s][parse_http_request(e.buf)], get_request_len(s, e.buf), keep,
                answered)
    PROVE  Advances(w, s)
  <1> DEFINE r == Request[s][parse_http_request(e.buf)]
             len == get_request_len(s, e.buf)
             d == next_request(e, len, keep)
  <1>1. e.client = s /\ s \in Socket /\ Same(conn[w], e, {"content_len", "consumed"})
    BY DEF Conn, Same, Fields
  <1>2. /\ conn' = [conn EXCEPT ![w] = d]
        /\ hist' = [hist EXCEPT !.answered[s] = answered,
                                !.skipped = @ \cup (IF Skips(e, r, len) THEN {s} ELSE {})]
    BY DEF Ends
  <1> HIDE DEF d
  <1>3. conn'[w] = d /\ \A v \in Worker : v # w => conn'[v] = conn[v]
    BY <1>2 DEF Conn
  <1>4. /\ DOMAIN hist'.answered = Socket /\ hist'.answered[s] = answered
        /\ \A t \in Socket : t # s => hist'.answered[t] = hist.answered[t]
    BY <1>1, <1>2 DEF Conn, HistFields
  <1>5. hist'.skipped = hist.skipped \cup (IF Skips(e, r, len) THEN {s} ELSE {})
    BY <1>2 DEF Conn, HistFields
  <1>6. /\ DOMAIN d = Fields /\ d.client = s /\ d.pc \in {"read", "closing"}
    BY <1>1, NextFields DEF d
  <1>7. /\ ConnTypes(d) /\ ConnOK(d, pos'[s], answered)
        /\ EndOrder(e, pos'[s], answered) /\ ~Skips(e, r, len) => OrderOK(d, pos'[s], answered)
    <2>1. d = next_request(e, get_request_len(e.client, e.buf), keep) /\ e.client \in Socket
      BY <1>1 DEF d
    <2>2. /\ ConnTypes(d) /\ ConnOK(d, pos'[s], answered)
          /\ EndOrder(e, pos'[s], answered)
                /\ ~Skips(e, Request[e.client][parse_http_request(e.buf)],
                          get_request_len(e.client, e.buf))
             => OrderOK(d, pos'[s], answered)
      BY <2>1, EndsOK
    <2> QED
      BY <1>1, <2>2
  <1>8. s \notin hist'.skipped => OrderOK(d, pos'[s], answered)
    BY <1>5, <1>7
  <1> HIDE DEF r, len
  <1>9. \A t \in Socket : t # s => (t \in hist'.skipped <=> t \in hist.skipped)
    BY <1>5
  <1> QED
    BY <1>3, <1>4, <1>6, <1>7, <1>8, <1>9 DEF Advances, Serving

LEMMA ProcessData ==
    ASSUME HeldInv, DataInv, NEW w \in Worker, process_new_connection(w)
    PROVE  DataInv'
  <1>1. conn[w].pc = "read" /\ pos' = pos
    BY DEF process_new_connection
  <1>2. PICK s \in Socket : Conn(w, s)
    BY <1>1, ConnFacts DEF Serving
  <1> DEFINE c == conn[w]
             p == pos[s]
             ans == hist.answered[s]
             len == get_request_len(s, c.buf)
             i == parse_http_request(c.buf)
             r == Request[s][i]
             answered == Append(ans, i)
             own == [c EXCEPT !.content_len = Content_Length(r)]
  <1>3. /\ c.client = s /\ DOMAIN c = Fields /\ ConnTypes(c) /\ ConnOK(c, p, ans)
        /\ s \notin hist.skipped => OrderOK(c, p, ans)
        /\ DOMAIN pos' = Socket /\ pos'[s] = p /\ \A t \in Socket : t # s => pos'[t] = pos[t]
    BY <1>1, <1>2 DEF Conn
  <1>4. \/ conn' = [conn EXCEPT ![w].pc = "closing"] /\ hist' = hist
        \/ /\ len > 0
           /\ conn' = [conn EXCEPT ![w] = next_request(c, len, FALSE)]
           /\ hist' = [hist EXCEPT !.answered[s] = answered]
        \/ len > 0 /\ Ends(w, s, c, r, len, r.alive, answered)
        \/ /\ len > 0 /\ i # 0 /\ own.content_len # -1
           /\ conn' = [conn EXCEPT ![w] = forward_body_data(own, len)]
           /\ hist' = [hist EXCEPT !.answered[s] = answered]
        \/ len > 0 /\ i # 0 /\ Ends(w, s, own, r, len, should_keep_alive(r), answered)
    BY <1>3 DEF process_new_connection
  <1>5. /\ Same(c, c, {"content_len"}) /\ Same(c, c, {"content_len", "consumed"})
        /\ DOMAIN own = Fields /\ own.content_len = Content_Length(r) /\ own.buf = c.buf
        /\ own.client = s /\ own.consumed = c.consumed /\ own.pc = "read"
        /\ Same(c, own, {"content_len"}) /\ Same(c, own, {"content_len", "consumed"})
    <2>1. Same(c, c, {"content_len"}) /\ Same(c, c, {"content_len", "consumed"})
      BY <1>3 DEF Same
    <2>2. /\ DOMAIN own = Fields /\ own.content_len = Content_Length(r)
          /\ \A f \in Fields \ {"content_len"} : own[f] = c[f]
      BY <1>3 DEF Fields
    <2> HIDE DEF own
    <2>3. Same(c, own, {"content_len"}) /\ Same(c, own, {"content_len", "consumed"})
      BY <2>2 DEF Same
    <2> QED
      BY <1>1, <1>3, <2>1, <2>2, <2>3 DEF Fields
  <1> HIDE DEF own
  <1>6. ASSUME len > 0, NEW e, Same(c, e, {"content_len"})
        PROVE  /\ i \in 0..Len(Request[s]) /\ EndOK(e, p, answered)
               /\ s \notin hist.skipped => EndOrder(e, p, answered)
    BY <1>1, <1>3, <1>6, ReadEnds
  <1>7. len > 0 /\ i # 0 => ConnTypes(own)
    <2> SUFFICES ASSUME len > 0, i # 0 PROVE ConnTypes(own)
      OBVIOUS
    <2>1. i \in 0..Len(Request[s]) /\ Len(Request[s]) \in Nat
      BY <1>5, <1>6, RequestTypes
    <2>2. i \in 1..Len(Request[s])
      BY <2>1
    <2>3. r \in HttpRequest
      BY <2>2, RequestTypes
    <2>4. Content_Length(r) \in Int /\ Content_Length(r) >= -1
      BY <2>3 DEF Content_Length, HttpRequest, NoLength
    <2> QED
      BY <1>3, <1>5, <2>4 DEF ConnTypes
  <1>8. Advances(w, s)
    <2>1. CASE conn' = [conn EXCEPT ![w].pc = "closing"] /\ hist' = hist
      BY <1>1, <1>2, <2>1, GivesUp
    <2>2. CASE /\ len > 0
               /\ conn' = [conn EXCEPT ![w] = next_request(c, len, FALSE)]
               /\ hist' = [hist EXCEPT !.answered[s] = answered]
      <3> DEFINE d == next_request(c, len, FALSE)
      <3>1. EndOK(c, p, answered) /\ (s \notin hist.skipped => InOrder(answered))
        BY <1>5, <1>6, <2>2 DEF EndOrder
      <3>2. DOMAIN d = Fields /\ d.client = s /\ d.pc = "closing"
        <4>1. PICK keep \in BOOLEAN : keep = FALSE
          OBVIOUS
        <4>2. d = next_request(c, len, keep)
          BY <4>1
        <4> HIDE DEF d
        <4> QED
          BY <1>3, <4>1, <4>2, NextFields
      <3>3. /\ ConnTypes(d) /\ ConnOK(d, p, answered)
            /\ InOrder(answered) => OrderOK(d, p, answered)
        BY <1>3, <3>1, EndsOK
      <3> HIDE DEF d, answered, len
      <3>4. conn'[w] = d /\ \A v \in Worker : v # w => conn'[v] = conn[v]
        BY <1>2, <2>2 DEF Conn, d
      <3>5. /\ DOMAIN hist'.answered = Socket /\ hist'.answered[s] = answered
            /\ hist'.skipped = hist.skipped
            /\ \A t \in Socket : t # s => hist'.answered[t] = hist.answered[t]
        BY <1>2, <2>2 DEF Conn, HistFields
      <3> QED
        BY <1>3, <3>1, <3>2, <3>3, <3>4, <3>5 DEF Advances, Serving
    <2>3. CASE len > 0 /\ Ends(w, s, c, r, len, r.alive, answered)
      <3>1. EndOK(c, pos'[s], answered) /\ (s \notin hist.skipped => EndOrder(c, pos'[s], answered))
        BY <1>3, <1>5, <1>6, <2>3
      <3> HIDE DEF answered
      <3> QED
        BY <1>2, <1>3, <1>5, <2>3, <3>1, EndsAdvance
    <2>4. CASE /\ len > 0 /\ i # 0 /\ own.content_len # -1
               /\ conn' = [conn EXCEPT ![w] = forward_body_data(own, len)]
               /\ hist' = [hist EXCEPT !.answered[s] = answered]
      <3> DEFINE d == forward_body_data(own, len)
      <3>1. /\ DOMAIN d = Fields /\ d.pc = "body" /\ d.client = s /\ d.buf = c.buf
            /\ d.content_len = Content_Length(r) /\ d.reg = c.reg
            /\ d.consumed = Min({Len(c.buf) - len, d.content_len})
        <4>1. own.reg = c.reg
          BY <1>5 DEF Same, Fields
        <4>2. d = [own EXCEPT !.pc = "body", !.consumed = Min({Len(own.buf) - len, own.content_len})]
          BY DEF forward_body_data
        <4> QED
          BY <1>5, <4>1, <4>2 DEF Fields
      <3> HIDE DEF d
      <3>2. Same(c, d, {"pc", "content_len", "consumed"})
        BY <1>3, <3>1 DEF Same, Fields
      <3>3. /\ ConnTypes(d) /\ ConnOK(d, p, answered)
            /\ OrderOK(c, p, ans) => OrderOK(d, p, answered)
        BY <1>1, <1>3, <1>5, <2>4, <3>1, <3>2, HandOverOK
      <3> HIDE DEF answered, len
      <3>4. conn'[w] = d /\ \A v \in Worker : v # w => conn'[v] = conn[v]
        BY <1>2, <2>4 DEF Conn, d
      <3>5. /\ DOMAIN hist'.answered = Socket /\ hist'.answered[s] = answered
            /\ hist'.skipped = hist.skipped
            /\ \A t \in Socket : t # s => hist'.answered[t] = hist.answered[t]
        BY <1>2, <2>4 DEF Conn, HistFields
      <3> QED
        BY <1>3, <3>1, <3>3, <3>4, <3>5 DEF Advances, Serving
    <2>5. CASE len > 0 /\ i # 0 /\ Ends(w, s, own, r, len, should_keep_alive(r), answered)
      <3>1. /\ EndOK(own, pos'[s], answered)
            /\ s \notin hist.skipped => EndOrder(own, pos'[s], answered)
        BY <1>3, <1>5, <1>6, <2>5
      <3> HIDE DEF answered
      <3> QED
        BY <1>2, <1>3, <1>5, <1>7, <2>5, <3>1, EndsAdvance
    <2> QED
      BY <1>4, <2>1, <2>2, <2>3, <2>4, <2>5
  <1> QED
    BY <1>2, <1>8, AdvanceKeeps DEF Conn

LEMMA BodyData ==
    ASSUME HeldInv, DataInv, NEW w \in Worker,
           open_fails(w) \/ body_arrives(w) \/ body_done(w) \/ body_fails(w)
    PROVE  DataInv'
  <1>1. conn[w].pc = "body"
    BY DEF open_fails, body_arrives, body_done, body_fails
  <1>2. PICK s \in Socket : Conn(w, s)
    BY <1>1, ConnFacts DEF Serving
  <1> DEFINE c == conn[w]
             p == pos[s]
             ans == hist.answered[s]
             r == Request[s][parse_http_request(c.buf)]
             len == get_request_len(s, c.buf)
  <1>3. /\ c.client = s /\ DOMAIN c = Fields /\ ConnTypes(c) /\ ConnOK(c, p, ans)
        /\ s \notin hist.skipped => OrderOK(c, p, ans)
        /\ DOMAIN pos = Socket /\ p \in Nat /\ p \in 0..Len(Stream[s])
        /\ c.content_len \in Int /\ c.consumed \in Nat
    BY <1>2 DEF Conn, ConnOK, ConnTypes
  <1>4. Len(Stream[s]) \in Nat
    BY StreamBlocks DEF Blocks
  <1>5. Same(c, c, {"consumed"}) /\ Same(c, c, {"content_len", "consumed"})
    BY <1>3 DEF Same
  <1>6. ASSUME body_ends(w, c), NEW q \in 0..Len(Stream[s]),
               \/ pos' = pos /\ q = p
               \/ pos' = [pos EXCEPT ![s] = q] /\ c.consumed < c.content_len
        PROVE  Advances(w, s)
    <2>1. pos'[s] = q /\ DOMAIN pos' = Socket /\ \A t \in Socket : t # s => pos'[t] = pos[t]
      BY <1>3, <1>6
    <2>2. EndOK(c, q, ans) /\ (s \notin hist.skipped => EndOrder(c, q, ans))
      BY <1>1, <1>3, <1>5, <1>6, BodyEnds
    <2>3. Ends(w, s, c, r, len, r.alive, ans)
      BY <1>3, <1>6 DEF body_ends
    <2> QED
      BY <1>2, <1>3, <1>5, <2>1, <2>2, <2>3, EndsAdvance
  <1>7. CASE open_fails(w)
    <2> DEFINE e == [c EXCEPT !.consumed = 0]
    <2>1. pos' = pos /\ Ends(w, s, e, r, len, r.alive, ans)
      BY <1>3, <1>7 DEF open_fails
    <2>2. DOMAIN e = Fields /\ e.consumed = 0 /\ \A f \in Fields \ {"consumed"} : e[f] = c[f]
      BY <1>3 DEF Fields
    <2> HIDE DEF e
    <2>3. /\ Same(c, e, {"consumed"}) /\ Same(c, e, {"content_len", "consumed"})
          /\ e.buf = c.buf /\ e.client = s /\ e.content_len = c.content_len
      BY <1>3, <2>2 DEF Same, Fields
    <2>4. ConnTypes(e)
      BY <1>3, <2>2, <2>3 DEF ConnTypes
    <2>5. EndOK(e, p, ans) /\ (s \notin hist.skipped => EndOrder(e, p, ans))
      BY <1>1, <1>3, <2>2, <2>3, BodyEnds
    <2>6. Ends(w, s, e, Request[s][parse_http_request(e.buf)], get_request_len(s, e.buf),
               r.alive, ans)
      BY <2>1, <2>3
    <2>7. pos'[s] = p /\ DOMAIN pos' = Socket /\ \A t \in Socket : t # s => pos'[t] = pos[t]
      BY <1>3, <2>1
    <2>8. Advances(w, s)
      BY <1>2, <2>3, <2>4, <2>5, <2>6, <2>7, EndsAdvance
    <2> QED
      BY <1>2, <2>8, AdvanceKeeps DEF Conn
  <1>8. CASE body_arrives(w)
    <2>1. /\ c.consumed < c.content_len
          /\ \/ \E n \in 1..c.content_len :
                   /\ pull(s, c.content_len - c.consumed, n)
                   /\ conn' = [conn EXCEPT ![w].consumed = @ + n] /\ hist' = hist
             \/ client_closes(s) /\ body_ends(w, c)
      BY <1>3, <1>8 DEF body_arrives
    <2>2. ASSUME NEW n, pull(s, c.content_len - c.consumed, n), hist' = hist,
                 conn' = [conn EXCEPT ![w].consumed = @ + n]
          PROVE  Advances(w, s)
      <3> DEFINE rest == c.content_len - c.consumed
      <3>1. rest \in Int
        BY <1>3
      <3> HIDE DEF rest
      <3>2. /\ n \in Nat /\ n > 0 /\ n <= rest /\ p + n <= Len(Stream[s])
            /\ pos'[s] = p + n /\ DOMAIN pos' = Socket
            /\ \A t \in Socket : t # s => pos'[t] = pos[t]
        BY <1>3, <2>2, <3>1, PullFacts DEF rest
      <3>3. c.consumed + n <= c.content_len
        BY <1>3, <3>2 DEF rest
      <3>4. /\ \A v \in Worker : v # w => conn'[v] = conn[v]
            /\ conn'[w] = [c EXCEPT !.consumed = c.consumed + n]
        BY <1>2, <2>2 DEF Conn
      <3>5. /\ conn'[w].pc = "body" /\ conn'[w].client = s /\ Same(c, conn'[w], {"consumed"})
            /\ conn'[w].consumed = c.consumed + n
        BY <1>1, <1>3, <3>4 DEF Same, Fields
      <3>6. /\ ConnTypes(conn'[w]) /\ ConnOK(conn'[w], p + n, ans)
            /\ OrderOK(c, p, ans) => OrderOK(conn'[w], p + n, ans)
        BY <1>1, <1>3, <3>2, <3>3, <3>5, ForwardOK
      <3> QED
        BY <1>2, <2>2, <3>2, <3>4, <3>5, <3>6 DEF Advances, Conn, Serving
    <2>3. ASSUME client_closes(s), body_ends(w, c) PROVE Advances(w, s)
      <3>1. pos' = [pos EXCEPT ![s] = Len(Stream[s])] /\ Len(Stream[s]) \in 0..Len(Stream[s])
        BY <1>4, <2>3 DEF client_closes
      <3> QED
        BY <1>6, <2>1, <2>3, <3>1
    <2>4. Advances(w, s)
      BY <2>1, <2>2, <2>3
    <2> QED
      BY <1>2, <2>4, AdvanceKeeps DEF Conn
  <1>9. CASE body_done(w)
    <2>1. body_ends(w, c) /\ pos' = pos
      BY <1>9 DEF body_done
    <2>2. Advances(w, s)
      BY <1>3, <1>6, <2>1
    <2> QED
      BY <1>2, <2>2, AdvanceKeeps DEF Conn
  <1>10. CASE body_fails(w)
    <2>1. /\ body_ends(w, c) /\ c.consumed < c.content_len
          /\ \E n \in 0..Min({c.content_len - c.consumed, Left(s)}) :
                pos' = [pos EXCEPT ![s] = p + n]
      BY <1>3, <1>10 DEF body_fails
    <2> DEFINE rest == c.content_len - c.consumed
    <2>2. rest \in Int /\ Left(s) \in Int /\ Left(s) = Len(Stream[s]) - p
      BY <1>3, <1>4 DEF Left
    <2> HIDE DEF rest
    <2>3. PICK n \in 0..Min({rest, Left(s)}) : pos' = [pos EXCEPT ![s] = p + n]
      BY <2>1 DEF rest
    <2>4. Min({rest, Left(s)}) = IF rest <= Left(s) THEN rest ELSE Left(s)
      BY <2>2, MinOfTwo
    <2>5. n \in Nat /\ n <= Left(s)
      BY <2>2, <2>3, <2>4
    <2>6. p + n \in 0..Len(Stream[s])
      BY <1>3, <1>4, <2>2, <2>5
    <2>7. Advances(w, s)
      BY <1>6, <2>1, <2>3, <2>6
    <2> QED
      BY <1>2, <2>7, AdvanceKeeps DEF Conn
  <1> QED
    BY <1>7, <1>8, <1>9, <1>10
--------------------------------------------------------------------------------
(* A connection begins and ends. *)

LEMMA StreamBegins ==
    ASSUME NEW s \in Socket
    PROVE  Len(Stream[s]) \in Nat /\ (0 < Len(Stream[s]) => Begins(Stream[s], 0, 1))
  <1>1. Blocks(s, Stream[s], Len(Request[s])) /\ Len(Request[s]) \in Nat
    BY StreamBlocks, RequestTypes
  <1>2. Len(Stream[s]) \in Nat
    BY <1>1 DEF Blocks
  <1>3. ASSUME 0 < Len(Stream[s]) PROVE Begins(Stream[s], 0, 1)
    <2>1. 1 \in 1..Len(Stream[s])
      BY <1>2, <1>3
    <2>2. Stream[s][1][1] \in 1..Len(Request[s])
      BY <1>1, <2>1 DEF Blocks
    <2>3. Len(Request[s]) > 0
      BY <1>1, <2>2
    <2> QED
      BY <1>1, <2>3 DEF Blocks
  <1> QED
    BY <1>2, <1>3

(* A connection before its first request: its buffer is empty, or it is *)
(* still to be emptied.                                                  *)
LEMMA BeginsOK ==
    ASSUME NEW c, ConnTypes(c), c.client \in Socket
    PROVE  LET d == begins_connection(c) IN
           /\ ConnTypes(d) /\ d.pc = "read" /\ d.client = c.client
           /\ ConnOK(d, 0, << >>) /\ OrderOK(d, 0, << >>)
  <1> DEFINE d == begins_connection(c)
             s == c.client
  <1>1. /\ DOMAIN d = Fields /\ d.client = s /\ d.content_len = c.content_len
        /\ d.pc = "read" /\ d.buf = << >> /\ d.consumed = 0
    BY DEF begins_connection, reset_per_request_attributes, ConnTypes, Fields
  <1>2. /\ << >> \in Seq(Pairs) /\ << >> \in Seq(Nat) /\ Len(<< >>) = 0
        /\ InOrder(<< >>) /\ BUF_SIZE \in Nat /\ 0 \in 0..Len(Stream[s])
    BY StreamBegins, MongooseAssumption DEF InOrder
  <1> HIDE DEF d
  <1>3. ConnTypes(d)
    BY <1>1, <1>2 DEF ConnTypes
  <1>4. ConnOK(d, 0, << >>)
    BY <1>1, <1>2 DEF ConnOK
  <1>5. ReadOK(d, 0, << >>)
    <2>1. Window(s, 0, d.buf)
      BY <1>1, <1>2, StreamBegins DEF Window
    <2>2. 0 < Len(Stream[s]) => Begins(Stream[s], 0, Len(<< >>) + 1)
      BY StreamBegins
    <2> QED
      BY <1>1, <1>2, <2>1, <2>2 DEF ReadOK
  <1>6. OrderOK(d, 0, << >>)
    BY <1>1, <1>2, <1>5 DEF OrderOK
  <1> QED
    BY <1>1, <1>3, <1>4, <1>6 DEF d

LEMMA HandshakeOK ==
    ASSUME NEW c, ConnTypes(c), c.client \in Socket
    PROVE  LET d == [c EXCEPT !.pc = "handshake"] IN
           /\ ConnTypes(d) /\ d.pc = "handshake" /\ d.client = c.client
           /\ ConnOK(d, 0, << >>) /\ OrderOK(d, 0, << >>)
  <1> DEFINE d == [c EXCEPT !.pc = "handshake"]
  <1>1. /\ DOMAIN d = Fields /\ d.client = c.client /\ d.content_len = c.content_len
        /\ d.pc = "handshake" /\ d.buf = c.buf /\ d.consumed = c.consumed
    BY DEF ConnTypes, Fields
  <1>2. << >> \in Seq(Nat) /\ InOrder(<< >>) /\ 0 \in 0..Len(Stream[c.client])
    BY StreamBegins DEF InOrder
  <1> HIDE DEF d
  <1>3. ConnTypes(d)
    BY <1>1 DEF ConnTypes
  <1>4. ConnOK(d, 0, << >>) /\ OrderOK(d, 0, << >>)
    BY <1>1, <1>2 DEF ConnOK, OrderOK
  <1> QED
    BY <1>1, <1>3, <1>4 DEF d

(* worker_thread takes a connection up. *)
LEMMA LoopData ==
    ASSUME HeldInv, DataInv, NEW w \in Worker, worker_loop(w), ctx.stop_flag = 0
    PROVE  DataInv'
  <1>1. conn[w].pc = "grabbed" /\ UNCHANGED <<pos, hist>>
    BY DEF worker_loop
  <1>2. PICK s \in Socket : s = conn[w].client
    BY <1>1 DEF HeldInv, QueueInv
  <1>3. Holds(w, s)
    BY <1>1, <1>2 DEF Holds
  <1>4. \A v \in Worker : ~At(v, s)
    <2> SUFFICES ASSUME NEW v \in Worker, At(v, s) PROVE FALSE
      OBVIOUS
    <2>1. Holds(v, s) /\ v # w
      BY <1>1 DEF At, Holds, Serving
    <2> QED
      BY <1>3, <2>1, OneServer DEF HeldInv
  <1>5. /\ pos[s] = 0 /\ hist.answered[s] = << >>
        /\ DOMAIN pos = Socket /\ DOMAIN hist.answered = Socket /\ ConnTypes(conn[w])
        /\ DOMAIN conn = Worker
    BY <1>4 DEF DataInv, HeldInv, Shape
  <1>6. /\ \A v \in Worker : v # w => conn'[v] = conn[v]
        /\ \/ conn'[w] = begins_connection(conn[w])
           \/ conn'[w] = [conn[w] EXCEPT !.pc = "handshake"]
    BY <1>5 DEF worker_loop
  <1>7. /\ ConnTypes(conn'[w]) /\ conn'[w].pc \in {"read", "handshake"}
        /\ conn'[w].client = s
        /\ ConnOK(conn'[w], 0, << >>) /\ OrderOK(conn'[w], 0, << >>)
    <2>1. CASE conn'[w] = begins_connection(conn[w])
      BY <1>2, <1>5, <2>1, BeginsOK
    <2>2. CASE conn'[w] = [conn[w] EXCEPT !.pc = "handshake"]
      BY <1>2, <1>5, <2>2, HandshakeOK
    <2> QED
      BY <1>6, <2>1, <2>2
  <1>8. Advances(w, s)
    BY <1>1, <1>5, <1>6, <1>7 DEF Advances, Serving
  <1> QED
    BY <1>3, <1>8, AdvanceKeeps

(* The handshake of a secure connection ends. *)
LEMMA SslizeData ==
    ASSUME HeldInv, DataInv, NEW w \in Worker, sslize(w)
    PROVE  DataInv'
  <1>1. /\ conn[w].pc = "handshake" /\ pos' = pos /\ hist' = hist
        /\ \/ conn' = [conn EXCEPT ![w] = begins_connection(conn[w])]
           \/ conn' = [conn EXCEPT ![w].pc = "closing"]
    BY DEF sslize
  <1>2. PICK s \in Socket : Conn(w, s)
    BY <1>1, ConnFacts DEF Serving
  <1>3. CASE conn' = [conn EXCEPT ![w].pc = "closing"]
    <2>1. Advances(w, s)
      BY <1>1, <1>2, <1>3, GivesUp
    <2> QED
      BY <1>2, <2>1, AdvanceKeeps DEF Conn
  <1>4. CASE conn' = [conn EXCEPT ![w] = begins_connection(conn[w])]
    <2>1. pos[s] = 0 /\ hist.answered[s] = << >> /\ conn[w].client = s
      BY <1>1, <1>2 DEF Conn, ConnOK
    <2>2. /\ \A v \in Worker : v # w => conn'[v] = conn[v]
          /\ conn'[w] = begins_connection(conn[w])
      BY <1>2, <1>4 DEF Conn
    <2>3. /\ ConnTypes(conn'[w]) /\ conn'[w].pc = "read" /\ conn'[w].client = s
          /\ ConnOK(conn'[w], 0, << >>) /\ OrderOK(conn'[w], 0, << >>)
      BY <1>2, <2>1, <2>2, BeginsOK DEF Conn
    <2>4. Advances(w, s)
      BY <1>1, <1>2, <2>1, <2>2, <2>3 DEF Advances, Conn, Serving
    <2> QED
      BY <1>2, <2>4, AdvanceKeeps DEF Conn
  <1> QED
    BY <1>1, <1>3, <1>4

(* The steps of a connection that is being served. *)
LEMMA ServesData ==
    ASSUME HeldInv, DataInv, NEW w \in Worker, Serves(w)
    PROVE  DataInv'
  BY SslizeData, ReadData, ProcessData, BodyData DEF Serves

LEMMA CloseData ==
    ASSUME HeldInv, DataInv, NEW w \in Worker, close_connection(w)
    PROVE  DataInv'
  <1>1. conn[w].pc = "closing"
    BY DEF close_connection
  <1>2. PICK s \in Socket : Conn(w, s)
    BY <1>1, ConnFacts DEF Serving
  <1>3. conn[w].client = s /\ DOMAIN conn[w] = Fields /\ DOMAIN conn = Worker
        /\ DOMAIN pos = Socket /\ DOMAIN hist = HistFields /\ DOMAIN hist.answered = Socket
    BY <1>2 DEF Conn
  <1>4. /\ pos' = [pos EXCEPT ![s] = 0]
        /\ hist' = [hist EXCEPT !.answered[s] = << >>, !.skipped = @ \ {s}]
        /\ conn' = [conn EXCEPT ![w].pc = "idle", ![w].buf = << >>]
    BY <1>3 DEF close_connection
  <1>5. /\ DOMAIN pos' = Socket /\ pos'[s] = 0
        /\ \A t \in Socket : t # s => pos'[t] = pos[t]
    BY <1>3, <1>4
  <1>6. /\ DOMAIN hist'.answered = Socket /\ hist'.answered[s] = << >>
        /\ \A t \in Socket : t # s => hist'.answered[t] = hist.answered[t]
        /\ hist'.skipped = hist.skipped \ {s}
    BY <1>3, <1>4 DEF HistFields
  <1>7. /\ \A v \in Worker : v # w => conn'[v] = conn[v]
        /\ conn'[w] = [conn[w] EXCEPT !.pc = "idle", !.buf = << >>]
    BY <1>3, <1>4
  <1>8. ConnTypes(conn'[w]) /\ conn'[w].pc = "idle"
    <2>1. << >> \in Seq(Pairs) /\ Len(<< >>) = 0 /\ BUF_SIZE \in Nat
      BY MongooseAssumption
    <2>2. /\ DOMAIN conn'[w] = Fields /\ conn'[w].client = conn[w].client
          /\ conn'[w].buf = << >> /\ conn'[w].content_len = conn[w].content_len
          /\ conn'[w].consumed = conn[w].consumed /\ conn'[w].pc = "idle"
      BY <1>3, <1>7 DEF Fields
    <2>3. ConnTypes(conn[w])
      BY <1>2 DEF Conn
    <2> QED
      BY <2>1, <2>2, <2>3 DEF ConnTypes
  <1>9. \A v \in Worker : v # w => ~At(v, s)
    <2> SUFFICES ASSUME NEW v \in Worker, v # w, At(v, s) PROVE FALSE
      OBVIOUS
    <2>1. Holds(v, s) /\ Holds(w, s)
      BY <1>2 DEF At, Holds, Serving, Conn
    <2> QED
      BY <2>1, OneServer DEF HeldInv
  <1>10. /\ \A t : ~At(w, t)'
         /\ \A v \in Worker : v # w => \A t : At(v, t)' <=> At(v, t)
    BY <1>7, <1>8 DEF At, Serving
  <1>11. ASSUME NEW v \in Worker, NEW t \in Socket, At(v, t)'
         PROVE  /\ ConnOK(conn'[v], pos'[t], hist'.answered[t])
                /\ t \notin hist'.skipped => OrderOK(conn'[v], pos'[t], hist'.answered[t])
    <2>1. v # w /\ t # s /\ At(v, t)
      BY <1>9, <1>10, <1>11
    <2>2. /\ ConnOK(conn[v], pos[t], hist.answered[t])
          /\ t \notin hist.skipped => OrderOK(conn[v], pos[t], hist.answered[t])
      BY <2>1 DEF DataInv
    <2> QED
      BY <1>5, <1>6, <1>7, <2>1, <2>2
  <1>12. ASSUME NEW t \in Socket, \A v \in Worker : ~At(v, t)'
         PROVE  pos'[t] = 0 /\ hist'.answered[t] = << >> /\ t \notin hist'.skipped
    <2>1. CASE t = s
      BY <1>5, <1>6, <2>1
    <2>2. CASE t # s
      <3>1. \A v \in Worker : ~At(v, t)
        BY <1>3, <1>10, <1>12, <2>2 DEF At
      <3>2. pos[t] = 0 /\ hist.answered[t] = << >> /\ t \notin hist.skipped
        BY <3>1 DEF DataInv
      <3> QED
        BY <1>5, <1>6, <2>2, <3>2
    <2> QED
      BY <2>1, <2>2
  <1>13. \A v \in Worker : ConnTypes(conn'[v])
    BY <1>7, <1>8 DEF DataInv
  <1> QED
    BY <1>5, <1>6, <1>11, <1>12, <1>13 DEF DataInv

(* The other steps leave the connections that are served alone. *)
Calm ==
    /\ pos' = pos /\ UNCHANGED <<hist.answered, hist.skipped>>
    /\ \A v \in Worker :
          \/ conn'[v] = conn[v]
          \/ /\ conn[v].pc \notin Serving /\ conn'[v].pc \notin Serving
             /\ Same(conn[v], conn'[v], {"pc", "client", "reg"})
             /\ conn'[v].client \in Socket \cup {NoSocket}

LEMMA CalmData ==
    ASSUME DataInv, Calm
    PROVE  DataInv'
  <1>1. \A v \in Worker : \A t : At(v, t)' <=> At(v, t)
    BY DEF Calm, At
  <1>2. \A v \in Worker : \A t : At(v, t) => conn'[v] = conn[v]
    BY DEF Calm, At
  <1>3. ASSUME NEW v \in Worker PROVE ConnTypes(conn'[v])
    <2>1. ConnTypes(conn[v])
      BY DEF DataInv
    <2>2. CASE Same(conn[v], conn'[v], {"pc", "client", "reg"})
               /\ conn'[v].client \in Socket \cup {NoSocket}
      <3>1. /\ DOMAIN conn'[v] = Fields /\ conn'[v].buf = conn[v].buf
            /\ conn'[v].content_len = conn[v].content_len /\ conn'[v].consumed = conn[v].consumed
        BY <2>2 DEF Same, Fields
      <3> QED
        BY <2>1, <2>2, <3>1 DEF ConnTypes
    <2> QED
      BY <2>1, <2>2 DEF Calm
  <1>4. pos' = pos /\ hist'.answered = hist.answered /\ hist'.skipped = hist.skipped
    BY DEF Calm
  <1>5. ASSUME NEW v \in Worker, NEW t \in Socket, At(v, t)'
        PROVE  /\ ConnOK(conn'[v], pos'[t], hist'.answered[t])
               /\ t \notin hist'.skipped => OrderOK(conn'[v], pos'[t], hist'.answered[t])
    <2>1. At(v, t) /\ conn'[v] = conn[v]
      BY <1>1, <1>2, <1>5
    <2>2. /\ ConnOK(conn[v], pos[t], hist.answered[t])
          /\ t \notin hist.skipped => OrderOK(conn[v], pos[t], hist.answered[t])
      BY <2>1 DEF DataInv
    <2> QED
      BY <1>4, <2>1, <2>2
  <1>6. ASSUME NEW t \in Socket, \A v \in Worker : ~At(v, t)'
        PROVE  pos'[t] = 0 /\ hist'.answered[t] = << >> /\ t \notin hist'.skipped
    BY <1>1, <1>4, <1>6 DEF DataInv
  <1> QED
    BY <1>3, <1>4, <1>5, <1>6 DEF DataInv

LEMMA PcCalm ==
    ASSUME HeldInv, DataInv, NEW w \in Worker, conn[w].pc \notin Serving,
           NEW q, q \notin Serving, conn' = [conn EXCEPT ![w].pc = q],
           pos' = pos, UNCHANGED <<hist.answered, hist.skipped>>
    PROVE  Calm
  <1>1. DOMAIN conn = Worker /\ ConnTypes(conn[w])
    BY DEF HeldInv, Shape, DataInv
  <1>2. /\ \A v \in Worker : v # w => conn'[v] = conn[v]
        /\ conn'[w] = [conn[w] EXCEPT !.pc = q]
    BY <1>1
  <1>3. /\ conn'[w].pc = q /\ conn'[w].client = conn[w].client
        /\ Same(conn[w], conn'[w], {"pc", "client", "reg"})
    BY <1>1, <1>2 DEF ConnTypes, Same, Fields
  <1>4. conn'[w].client \in Socket \cup {NoSocket}
    BY <1>1, <1>3 DEF ConnTypes
  <1> QED
    BY <1>2, <1>3, <1>4 DEF Calm

LEMMA SameCalm ==
    ASSUME conn' = conn, pos' = pos, hist' = hist
    PROVE  Calm
  BY DEF Calm

(* The main thread. *)
LEMMA MainCalm ==
    ASSUME HeldInv, DataInv,
           mg_start \/ start_worker \/ count_worker \/ mg_stop \/ mg_stop_ends
    PROVE  Calm
  <1>1. CASE conn' = conn /\ pos' = pos /\ hist' = hist
    BY <1>1, SameCalm
  <1>2. CASE start_worker
    <2>1. /\ pos' = pos /\ hist' = hist /\ main.pc = "spawn"
          /\ \/ conn' = conn
             \/ main.i # NUM_THREADS /\ conn' = [conn EXCEPT ![main.i + 1].pc = "begin"]
      BY <1>2 DEF start_worker
    <2>2. CASE main.i # NUM_THREADS /\ conn' = [conn EXCEPT ![main.i + 1].pc = "begin"]
      <3> DEFINE j == main.i + 1
      <3>1. j \in Worker /\ j > main.i
        BY <2>2, Caps DEF HeldInv, Shape, MainThread, Worker
      <3>2. conn[j].pc = "none"
        BY <2>1, <3>1 DEF HeldInv, Fresh, Starting
      <3> HIDE DEF j
      <3>3. conn' = [conn EXCEPT ![j].pc = "begin"]
        BY <2>2 DEF j
      <3>4. conn[j].pc \notin Serving /\ "begin" \notin Serving
        BY <3>2 DEF Serving
      <3> QED
        BY <2>1, <3>1, <3>3, <3>4, PcCalm
    <2> QED
      BY <1>1, <2>1, <2>2
  <1>3. CASE mg_start \/ count_worker \/ mg_stop \/ mg_stop_ends
    BY <1>1, <1>3 DEF mg_start, count_worker, mg_stop, mg_stop_ends
  <1> QED
    BY <1>2, <1>3

(* The master thread, and what POSIX allows. *)
LEMMA MasterCalm ==
    ASSUME HeldInv, DataInv, MasterRuns \/ master_loop \/ Spurious
    PROVE  Calm
  <1>1. pos' = pos /\ hist' = hist
    BY DEF MasterRuns, master_loop, Spurious, produce_socket, produce_waits, stop_listening,
           wake_workers, join_workers
  <1>2. CASE conn' = conn
    BY <1>1, <1>2, SameCalm
  <1>3. ASSUME NEW w \in Asleep, conn' = [conn EXCEPT ![w].pc = "idle"] PROVE Calm
    <2>1. w \in Worker /\ conn[w].pc \notin Serving /\ "idle" \notin Serving
      BY DEF Asleep, Serving
    <2> QED
      BY <1>1, <1>3, <2>1, PcCalm
  <1>4. CASE conn' = broadcast_sq_full(conn)
    <2>1. ASSUME NEW v \in Worker
          PROVE  \/ conn'[v] = conn[v]
                 \/ conn[v].pc = "asleep" /\ conn'[v] = [conn[v] EXCEPT !.pc = "idle"]
      BY <1>4 DEF broadcast_sq_full
    <2>2. ASSUME NEW v \in Worker, conn[v].pc = "asleep", conn'[v] = [conn[v] EXCEPT !.pc = "idle"]
          PROVE  /\ conn[v].pc \notin Serving /\ conn'[v].pc \notin Serving
                 /\ Same(conn[v], conn'[v], {"pc", "client", "reg"})
                 /\ conn'[v].client \in Socket \cup {NoSocket}
      <3>1. ConnTypes(conn[v])
        BY DEF DataInv
      <3>2. /\ conn'[v].pc = "idle" /\ conn'[v].client = conn[v].client
            /\ Same(conn[v], conn'[v], {"pc", "client", "reg"})
        BY <2>2, <3>1 DEF ConnTypes, Same, Fields
      <3>3. conn'[v].client \in Socket \cup {NoSocket}
        BY <3>1, <3>2 DEF ConnTypes
      <3> QED
        BY <2>2, <3>2, <3>3 DEF Serving
    <2> QED
      BY <1>1, <2>1, <2>2 DEF Calm
  <1>5. CASE produce_socket
    <2>1. conn' = conn \/ conn' \in signal_sq_full(conn)
      BY <1>5 DEF produce_socket, enqueue
    <2>2. ASSUME conn' \in signal_sq_full(conn)
          PROVE  conn' = conn \/ \E w \in Asleep : conn' = [conn EXCEPT ![w].pc = "idle"]
      BY <2>2 DEF signal_sq_full, Asleep
    <2> QED
      BY <1>2, <1>3, <2>1, <2>2
  <1>6. CASE Spurious
    BY <1>2, <1>3, <1>6 DEF Spurious
  <1>7. CASE wake_workers
    BY <1>4, <1>7 DEF wake_workers
  <1>8. CASE produce_waits \/ stop_listening \/ join_workers \/ master_loop
    BY <1>2, <1>8 DEF produce_waits, stop_listening, join_workers, master_loop
  <1> QED
    BY <1>5, <1>6, <1>7, <1>8 DEF MasterRuns

(* A worker between two connections. *)
LEMMA WorkerCalm ==
    ASSUME HeldInv, DataInv, NEW w \in Worker,
           \/ worker_begins(w) \/ consume_socket(w) \/ consume_waits(w) \/ worker_leaves(w)
           \/ worker_loop(w) /\ ctx.stop_flag # 0
    PROVE  Calm
  <1>1. DOMAIN conn = Worker /\ ConnTypes(conn[w]) /\ DOMAIN conn[w] = Fields
        /\ DOMAIN hist = HistFields
    BY DEF HeldInv, Shape, DataInv
  <1>2. ASSUME NEW q, q \notin Serving, conn[w].pc \notin Serving,
               conn' = [conn EXCEPT ![w].pc = q], pos' = pos,
               UNCHANGED <<hist.answered, hist.skipped>>
        PROVE  Calm
    BY <1>2, PcCalm
  <1>3. CASE worker_begins(w)
    <2>1. /\ conn[w].pc = "begin" /\ pos' = pos /\ hist' = hist
          /\ conn' = [conn EXCEPT ![w].pc = "idle"] \/ conn' = [conn EXCEPT ![w].pc = "leave"]
      BY <1>3 DEF worker_begins
    <2>2. conn[w].pc \notin Serving /\ "idle" \notin Serving /\ "leave" \notin Serving
      BY <2>1 DEF Serving
    <2> QED
      BY <1>2, <2>1, <2>2
  <1>4. CASE consume_waits(w)
    <2>1. /\ conn[w].pc = "waits" /\ pos' = pos /\ conn' = [conn EXCEPT ![w].pc = "asleep"]
          /\ UNCHANGED <<hist.answered, hist.skipped>>
      BY <1>1, <1>4 DEF consume_waits, HistFields
    <2>2. conn[w].pc \notin Serving /\ "asleep" \notin Serving
      BY <2>1 DEF Serving
    <2> QED
      BY <1>2, <2>1, <2>2
  <1>5. CASE worker_loop(w) /\ ctx.stop_flag # 0
    <2>1. /\ conn[w].pc = "grabbed" /\ pos' = pos /\ conn' = [conn EXCEPT ![w].pc = "leave"]
          /\ hist' = hist
      BY <1>5 DEF worker_loop
    <2>2. conn[w].pc \notin Serving /\ "leave" \notin Serving
      BY <2>1 DEF Serving
    <2> QED
      BY <1>2, <2>1, <2>2
  <1>6. CASE consume_socket(w)
    <2>1. /\ conn[w].pc = "idle" /\ pos' = pos /\ hist' = hist
          /\ \/ conn' = [conn EXCEPT ![w].pc = "waits"]
             \/ conn' = [conn EXCEPT ![w].pc = "grabbed"]
             \/ conn' = [conn EXCEPT ![w].client = ctx.queue[ctx.sq_tail % QUEUE],
                                     ![w].pc = "grabbed"]
      BY <1>6 DEF consume_socket, dequeue
    <2>2. conn[w].pc \notin Serving /\ "waits" \notin Serving /\ "grabbed" \notin Serving
      BY <2>1 DEF Serving
    <2>3. CASE conn' = [conn EXCEPT ![w].client = ctx.queue[ctx.sq_tail % QUEUE],
                                    ![w].pc = "grabbed"]
      <3> DEFINE x == ctx.queue[ctx.sq_tail % QUEUE]
      <3>1. x \in Socket \cup {NoSocket}
        <4>1. /\ ctx.sq_tail \in Nat /\ QUEUE \in Nat /\ QUEUE > 0
              /\ ctx.queue \in [0..QUEUE - 1 -> Socket \cup {NoSocket}]
          BY ContextTypes, Caps DEF HeldInv, Shape
        <4>2. ctx.sq_tail % QUEUE \in 0..QUEUE - 1
          BY <4>1
        <4> QED
          BY <4>1, <4>2
      <3> HIDE DEF x
      <3>2. /\ \A v \in Worker : v # w => conn'[v] = conn[v]
            /\ conn'[w] = [conn[w] EXCEPT !.client = x, !.pc = "grabbed"]
        BY <1>1, <2>3 DEF x
      <3>3. /\ conn'[w].pc = "grabbed" /\ conn'[w].client = x
            /\ Same(conn[w], conn'[w], {"pc", "client", "reg"})
        BY <1>1, <3>2 DEF Same, Fields
      <3> QED
        BY <2>1, <2>2, <3>1, <3>2, <3>3 DEF Calm
    <2> QED
      BY <1>2, <2>1, <2>2, <2>3
  <1>7. CASE worker_leaves(w)
    <2>1. /\ pos' = pos /\ UNCHANGED <<hist.answered, hist.skipped>>
          /\ conn[w].pc \in {"leave", "leaves"}
          /\ \/ conn' = [conn EXCEPT ![w].pc = "leaves", ![w].reg = ctx.num_threads]
             \/ conn' = [conn EXCEPT ![w].pc = "gone", ![w].reg = 0]
      BY <1>1, <1>7 DEF worker_leaves, HistFields
    <2>2. /\ \A v \in Worker : v # w => conn'[v] = conn[v]
          /\ \/ conn'[w] = [conn[w] EXCEPT !.pc = "leaves", !.reg = ctx.num_threads]
             \/ conn'[w] = [conn[w] EXCEPT !.pc = "gone", !.reg = 0]
      BY <1>1, <2>1
    <2>3. /\ conn'[w].pc \in {"leaves", "gone"} /\ conn'[w].client = conn[w].client
          /\ Same(conn[w], conn'[w], {"pc", "client", "reg"})
      BY <1>1, <2>2 DEF Same, Fields
    <2>4. conn'[w].client \in Socket \cup {NoSocket}
      BY <1>1, <2>3 DEF ConnTypes
    <2>5. conn[w].pc \notin Serving /\ conn'[w].pc \notin Serving
      BY <2>1, <2>3 DEF Serving
    <2> QED
      BY <2>1, <2>2, <2>3, <2>4, <2>5 DEF Calm
  <1> QED
    BY <1>3, <1>4, <1>5, <1>6, <1>7

LEMMA DataStep == HeldInv /\ DataInv /\ [Next]_vars => DataInv'
  <1> SUFFICES ASSUME HeldInv, DataInv, [Next]_vars PROVE DataInv'
    OBVIOUS
  <1>1. CASE MainRuns \/ mg_stop
    BY <1>1, MainCalm, CalmData DEF MainRuns, start_mongoose
  <1>2. CASE MasterRuns \/ master_loop \/ Spurious
    BY <1>2, MasterCalm, CalmData
  <1>3. ASSUME NEW w \in Worker, Serves(w) PROVE DataInv'
    BY <1>3, ServesData
  <1>4. ASSUME NEW w \in Worker, WorkerRuns(w) PROVE DataInv'
    <2>1. CASE \/ worker_begins(w) \/ consume_socket(w) \/ consume_waits(w) \/ worker_leaves(w)
               \/ worker_loop(w) /\ ctx.stop_flag # 0
      BY <2>1, WorkerCalm, CalmData
    <2>2. CASE worker_loop(w) /\ ctx.stop_flag = 0
      BY <2>2, LoopData
    <2>3. CASE close_connection(w)
      BY <2>3, CloseData
    <2>4. CASE Serves(w)
      BY <2>4, ServesData
    <2> QED
      BY <1>4, <2>1, <2>2, <2>3, <2>4 DEF WorkerRuns, Serves
  <1>5. CASE UNCHANGED vars
    BY <1>5, SameCalm, CalmData DEF vars
  <1>6. CASE Next
    BY <1>1, <1>2, <1>3, <1>4, <1>6 DEF Next, Environment, Serves
  <1> QED
    BY <1>5, <1>6

LEMMA DataInit == Init => DataInv
  <1> SUFFICES ASSUME Init PROVE DataInv
    OBVIOUS
  <1>1. DOMAIN pos = Socket /\ \A s \in Socket : pos[s] = 0
    BY DEF Init
  <1>2. /\ DOMAIN hist.answered = Socket /\ hist.skipped = {}
        /\ \A s \in Socket : hist.answered[s] = << >>
    BY DEF Init
  <1>3. \A w \in Worker : ConnTypes(conn[w]) /\ conn[w].pc = "none"
    <2>1. << >> \in Seq(Pairs) /\ Len(<< >>) = 0 /\ BUF_SIZE \in Nat
      BY MongooseAssumption
    <2> SUFFICES ASSUME NEW w \in Worker PROVE ConnTypes(conn[w]) /\ conn[w].pc = "none"
      OBVIOUS
    <2>2. conn[w] = [pc |-> "none", client |-> NoSocket, buf |-> << >>,
                     content_len |-> 0, consumed |-> 0, reg |-> 0]
      BY DEF Init
    <2> QED
      BY <2>1, <2>2 DEF ConnTypes, Fields
  <1> QED
    BY <1>1, <1>2, <1>3 DEF DataInv, At, Serving

LEMMA DataInvariance == Spec => []DataInv
  BY DataInit, DataStep, HeldInvariance, PTL DEF Spec

(* The requests of a connection are answered in order, each one once and    *)
(* from its first byte, until one is left half read: for any clients, any   *)
(* size of the buffer and any way in which recv cuts a stream up.           *)
THEOREM AnsweredInOrderHolds == Spec => []AnsweredInOrder
  <1>1. DataInv => AnsweredInOrder
    <2> SUFFICES ASSUME DataInv, NEW s \in Socket \ hist.skipped,
                        NEW k \in DOMAIN hist.answered[s]
                 PROVE  hist.answered[s][k] = k
      BY DEF AnsweredInOrder
    <2>1. CASE \E w \in Worker : At(w, s)
      <3>1. PICK w \in Worker : At(w, s)
        BY <2>1
      <3>2. hist.answered[s] \in Seq(Nat) /\ InOrder(hist.answered[s])
        BY <3>1 DEF DataInv, ConnOK, OrderOK
      <3>3. k \in 1..Len(hist.answered[s])
        BY <3>2
      <3> QED
        BY <3>2, <3>3 DEF InOrder
    <2>2. CASE ~ \E w \in Worker : At(w, s)
      <3>1. hist.answered[s] = << >>
        BY <2>2 DEF DataInv
      <3> QED
        BY <3>1
    <2> QED
      BY <2>1, <2>2
  <1> QED
    BY <1>1, DataInvariance, PTL
--------------------------------------------------------------------------------
(* The type invariant: num_threads and its copies, and the failures. *)

LEMMA FaultsStep ==
    ASSUME [Next]_vars
    PROVE  faults' = faults \/ Fault
  <1>1. CASE MainRuns \/ mg_stop
    BY <1>1 DEF MainRuns, start_mongoose, mg_start, start_worker, count_worker, mg_stop,
                mg_stop_ends
  <1>2. CASE MasterRuns \/ Spurious
    BY <1>2 DEF MasterRuns, produce_socket, produce_waits, stop_listening, wake_workers,
                join_workers, Spurious
  <1>3. CASE master_loop
    BY <1>3 DEF master_loop, accept_new_connection
  <1>4. ASSUME NEW w \in Worker, Serves(w) PROVE faults' = faults \/ Fault
    BY <1>4 DEF Serves, sslize, read_request, read_stops, read_fails, process_new_connection,
                open_fails, body_arrives, body_done, body_fails
  <1>5. ASSUME NEW w \in Worker, WorkerRuns(w) PROVE faults' = faults \/ Fault
    <2>1. CASE Serves(w)
      BY <1>4, <2>1
    <2>2. CASE \/ worker_begins(w) \/ consume_socket(w) \/ consume_waits(w) \/ worker_loop(w)
               \/ close_connection(w) \/ worker_leaves(w)
      BY <2>2 DEF worker_begins, consume_socket, consume_waits, worker_loop, close_connection,
                  worker_leaves
    <2> QED
      BY <1>5, <2>1, <2>2 DEF WorkerRuns, Serves
  <1>6. CASE UNCHANGED vars
    BY <1>6 DEF vars
  <1>7. CASE Next
    BY <1>1, <1>2, <1>3, <1>4, <1>5, <1>7 DEF Next, Environment, Serves
  <1> QED
    BY <1>6, <1>7

(* Nothing of the count changes. *)
LEMMA ThreadsStay ==
    ASSUME ThreadsInv, faults' = faults \/ Fault, UNCHANGED <<ctx.num_threads, main>>,
           \A v \in Worker : conn'[v].reg = conn[v].reg
    PROVE  ThreadsInv'
  <1>1. Bound' = Bound
    BY DEF Bound, Uncounted
  <1>2. faults' \in 0..MaxFaults
    BY MongooseAssumption DEF ThreadsInv, Fault
  <1> QED
    BY <1>1, <1>2 DEF ThreadsInv

LEMMA CountTypes ==
    ASSUME Shape
    PROVE  /\ main \in MainThread /\ main.i \in Nat /\ main.reg \in Int
           /\ ctx.num_threads \in Int
           /\ DOMAIN conn = Worker
           /\ \A v \in Worker : conn[v].reg \in Int /\ DOMAIN conn[v] = Fields
  <1>1. main \in MainThread /\ ctx \in mg_context
    BY DEF Shape
  <1>2. DOMAIN conn = Worker /\ \A v \in Worker : conn[v].reg \in Int /\ DOMAIN conn[v] = Fields
    BY DEF Shape
  <1>3. main.i \in 0..NUM_THREADS /\ main.reg \in Int
    BY <1>1 DEF MainThread
  <1>4. NUM_THREADS \in Nat
    BY Caps
  <1>5. main.i \in Nat
    BY <1>3, <1>4
  <1>6. ctx.num_threads \in Int
    BY <1>1 DEF mg_context
  <1> QED
    BY <1>1, <1>2, <1>3, <1>5, <1>6

LEMMA MainThreads ==
    ASSUME Shape, ThreadsInv, main.pc # "aborted", faults' = faults \/ Fault,
           mg_start \/ start_worker \/ count_worker \/ mg_stop \/ mg_stop_ends
    PROVE  ThreadsInv'
  <1>1. /\ main \in MainThread /\ main.i \in Nat /\ main.reg \in Int /\ ctx.num_threads \in Int
        /\ \A v \in Worker : conn[v].reg \in Int
    BY CountTypes
  <1>2. faults' \in 0..MaxFaults
    BY MongooseAssumption DEF ThreadsInv, Fault
  <1>3. /\ Bound \in Int /\ ctx.num_threads >= 0 /\ ctx.num_threads <= Bound
        /\ main.reg >= 0 /\ main.reg <= Bound
        /\ \A v \in Worker : conn[v].reg >= 0 /\ conn[v].reg <= Bound
    BY <1>1 DEF ThreadsInv, Bound, Uncounted
  <1>4. SUFFICES /\ Bound' \in Int /\ Bound <= Bound' /\ main'.pc # "aborted"
                 /\ ctx'.num_threads = ctx.num_threads
                       \/ (ctx'.num_threads = main.reg + 1 /\ Bound' = Bound + 1)
                 /\ main'.reg \in {main.reg, ctx.num_threads, 0}
                 /\ \A v \in Worker : conn'[v].reg = conn[v].reg
    <2>1. ctx'.num_threads \in Int /\ ctx'.num_threads >= 0 /\ ctx'.num_threads <= Bound'
      BY <1>1, <1>3, <1>4
    <2>2. main'.reg >= 0 /\ main'.reg <= Bound'
      BY <1>1, <1>3, <1>4
    <2>3. ASSUME NEW v \in Worker PROVE conn'[v].reg >= 0 /\ conn'[v].reg <= Bound'
      BY <1>1, <1>3, <1>4
    <2>4. ctx'.num_threads >= -1
      BY <2>1
    <2> QED
      BY <1>2, <1>4, <2>1, <2>2, <2>3, <2>4 DEF ThreadsInv
  <1>5. CASE mg_start
    <2>1. /\ SameConns /\ ctx'.num_threads = ctx.num_threads /\ main.pc = "init"
          /\ main'.pc \in {"spawn", "failed"} /\ main'.i = main.i
      BY <1>5, StartFacts
    <2>2. main'.reg = main.reg
      BY <1>1, <1>5 DEF mg_start, MainThread
    <2>3. Bound' = Bound
      BY <2>1 DEF Bound, Uncounted
    <2> QED
      BY <1>3, <2>1, <2>2, <2>3 DEF SameConns
  <1>6. CASE start_worker
    <2>1. /\ ctx' = ctx /\ main.pc = "spawn"
          /\ \/ main'.pc = "running" /\ SameConns
             \/ main'.pc = "spawn" /\ main'.i = main.i + 1 /\ SameConns
             \/ main'.pc = "count" /\ main'.i = main.i + 1 /\ OnlyPc(main.i + 1, "begin")
      BY <1>6, SpawnFacts
    <2>2. main'.reg = main.reg /\ (main'.pc = "running" => main'.i = main.i)
      BY <1>1, <1>6 DEF start_worker, MainThread
    <2>3. Bound' \in Int /\ Bound <= Bound'
      BY <1>1, <2>1, <2>2 DEF Bound, Uncounted
    <2>4. \A v \in Worker : conn'[v].reg = conn[v].reg
      BY <2>1 DEF SameConns, OnlyPc
    <2> QED
      BY <2>1, <2>2, <2>3, <2>4
  <1>7. CASE count_worker
    <2>1. /\ SameConns /\ main'.i = main.i
          /\ \/ /\ main.pc = "count" /\ main'.pc = "store" /\ main'.reg = ctx.num_threads
                /\ ctx' = ctx
             \/ /\ main.pc = "store" /\ main'.pc = "spawn"
                /\ ctx'.num_threads = main.reg + 1
      BY <1>7, CountFacts
    <2>2. main.pc = "store" => main'.reg = 0
      BY <1>1, <1>7 DEF count_worker, MainThread
    <2>3. CASE main.pc = "count" /\ main'.pc = "store"
      <3>1. Bound' = Bound
        BY <2>1, <2>3 DEF Bound, Uncounted
      <3> QED
        BY <1>3, <2>1, <2>3, <3>1 DEF SameConns
    <2>4. CASE main.pc = "store" /\ main'.pc = "spawn"
      <3>1. Bound' = Bound + 1
        BY <1>1, <2>1, <2>4 DEF Bound, Uncounted
      <3> QED
        BY <1>3, <2>1, <2>2, <2>4, <3>1 DEF SameConns
    <2> QED
      BY <2>1, <2>3, <2>4
  <1>8. CASE mg_stop \/ mg_stop_ends
    <2>1. /\ SameConns /\ ctx'.num_threads = ctx.num_threads
          /\ main.pc \in {"running", "stopping"} /\ main'.pc \in {"stopping", "stopped"}
      BY <1>8, StopFacts, StopEndsFacts
    <2>2. main'.reg = main.reg /\ main'.i = main.i
      BY <1>1, <1>8 DEF mg_stop, mg_stop_ends, MainThread
    <2>3. Bound' = Bound
      BY <2>1, <2>2 DEF Bound, Uncounted
    <2> QED
      BY <1>3, <2>1, <2>2, <2>3 DEF SameConns
  <1> QED
    BY <1>5, <1>6, <1>7, <1>8

LEMMA LeaveThreads ==
    ASSUME Shape, ThreadsInv, main.pc # "aborted", faults' = faults \/ Fault,
           NEW w \in Worker, worker_leaves(w)
    PROVE  ThreadsInv'
  <1>1. /\ main \in MainThread /\ main.i \in Nat /\ main.reg \in Int /\ ctx.num_threads \in Int
        /\ DOMAIN conn = Worker /\ \A v \in Worker : conn[v].reg \in Int /\ DOMAIN conn[v] = Fields
    BY CountTypes
  <1>2. faults' \in 0..MaxFaults
    BY MongooseAssumption DEF ThreadsInv, Fault
  <1>3. /\ Bound \in Int /\ ctx.num_threads >= 0 /\ ctx.num_threads <= Bound
        /\ main.reg >= 0 /\ main.reg <= Bound
        /\ \A v \in Worker : conn[v].reg >= 0 /\ conn[v].reg <= Bound
    BY <1>1 DEF ThreadsInv, Bound, Uncounted
  <1>4. /\ main'.i = main.i /\ main'.reg = main.reg /\ main'.pc \in {main.pc, "aborted"}
        /\ \A v \in Worker : v # w => conn'[v].reg = conn[v].reg
        /\ \/ main' = main /\ ctx' = ctx /\ conn'[w].reg = ctx.num_threads
           \/ conn[w].pc = "leaves" /\ ctx'.num_threads = conn[w].reg - 1
    BY LeaveFacts
  <1>5. Bound' \in Int /\ Bound <= Bound'
    BY <1>1, <1>4 DEF Bound, Uncounted
  <1>6. CASE main' = main /\ ctx' = ctx /\ conn'[w].reg = ctx.num_threads
    <2>1. \A v \in Worker : conn'[v].reg >= 0 /\ conn'[v].reg <= Bound'
      BY <1>1, <1>3, <1>4, <1>5, <1>6
    <2>2. ctx.num_threads <= Bound' /\ main.reg <= Bound' /\ ctx.num_threads >= -1
      BY <1>1, <1>3, <1>5
    <2> QED
      BY <1>2, <1>3, <1>6, <2>1, <2>2 DEF ThreadsInv
  <1>7. CASE conn[w].pc = "leaves" /\ ctx'.num_threads = conn[w].reg - 1
    <2>1. /\ conn' = [conn EXCEPT ![w].pc = "gone", ![w].reg = 0]
          /\ IF conn[w].reg - 1 >= 0 THEN main' = main
             ELSE main' = [main EXCEPT !.pc = "aborted"]
      BY <1>7 DEF worker_leaves
    <2>2. conn'[w].reg = 0
      BY <1>1, <2>1 DEF Fields
    <2>3. main'.pc # "aborted" => conn[w].reg - 1 >= 0
      BY <1>1, <2>1 DEF MainThread
    <2>4. ctx'.num_threads \in Int /\ ctx'.num_threads >= -1 /\ ctx'.num_threads <= Bound'
      BY <1>1, <1>3, <1>5, <1>7
    <2>5. \A v \in Worker : conn'[v].reg >= 0 /\ conn'[v].reg <= Bound'
      BY <1>1, <1>3, <1>4, <1>5, <2>2
    <2>6. main'.reg >= 0 /\ main'.reg <= Bound'
      BY <1>1, <1>3, <1>4, <1>5
    <2>7. main'.pc # "aborted" => ctx'.num_threads >= 0
      BY <1>7, <2>3
    <2> QED
      BY <1>2, <2>4, <2>5, <2>6, <2>7 DEF ThreadsInv
  <1> QED
    BY <1>4, <1>6, <1>7

LEMMA ThreadsStep == HeldInv /\ ThreadsInv /\ [Next]_vars => ThreadsInv'
  <1> SUFFICES ASSUME HeldInv, ThreadsInv, [Next]_vars PROVE ThreadsInv'
    OBVIOUS
  <1>1. Shape /\ QueueInv /\ (faults' = faults \/ Fault)
    BY FaultsStep DEF HeldInv
  <1>2. CASE UNCHANGED vars
    BY <1>1, <1>2, ThreadsStay DEF vars
  <1>3. CASE Next
    <2>1. main.pc # "aborted"
      BY <1>3 DEF Next, Running
    <2>2. CASE mg_start \/ start_worker \/ count_worker \/ mg_stop \/ mg_stop_ends
      BY <1>1, <2>1, <2>2, MainThreads
    <2>3. ASSUME NEW w \in Worker, Moves(w) PROVE ThreadsInv'
      BY <1>1, <2>3, ThreadsStay DEF Moves, OnlyPc
    <2>4. CASE MasterMoves
      BY <1>1, <2>4, ThreadsStay DEF MasterMoves
    <2>5. ASSUME NEW s \in Next_client, Accepts(s) PROVE ThreadsInv'
      BY <1>1, <2>5, ThreadsStay DEF Accepts
    <2>6. CASE Enqueues
      <3>1. /\ UNCHANGED <<ctx.num_threads, main>>
            /\ SameConns \/ \E w \in Asleep : OnlyPc(w, "idle")
        BY <1>1, <2>6, EnqueueFacts DEF Enqueues
      <3>2. \A v \in Worker : conn'[v].reg = conn[v].reg
        BY <3>1 DEF SameConns, OnlyPc
      <3> QED
        BY <1>1, <3>1, <3>2, ThreadsStay
    <2>7. ASSUME NEW w \in Worker, Dequeues(w) PROVE ThreadsInv'
      <3>1. /\ UNCHANGED <<ctx.num_threads, main>>
            /\ \A v \in Worker : conn'[v].reg = conn[v].reg
        BY <1>1, <2>7, DequeueFacts DEF Dequeues, QueueInv
      <3> QED
        BY <1>1, <3>1, ThreadsStay
    <2>8. ASSUME NEW w \in Worker, close_connection(w) PROVE ThreadsInv'
      <3>1. UNCHANGED <<ctx, main>> /\ OnlyPc(w, "idle")
        BY <2>8, CloseHeld, CloseFacts DEF HeldInv
      <3> QED
        BY <1>1, <3>1, ThreadsStay DEF OnlyPc
    <2>9. ASSUME NEW w \in Worker, worker_leaves(w) PROVE ThreadsInv'
      BY <1>1, <2>1, <2>9, LeaveThreads
    <2> QED
      BY <1>1, <1>2, <1>3, <2>2, <2>3, <2>4, <2>5, <2>6, <2>7, <2>8, <2>9, Steps
  <1> QED
    BY <1>2, <1>3

LEMMA ThreadsInit == Init => ThreadsInv
  <1> SUFFICES ASSUME Init PROVE ThreadsInv
    OBVIOUS
  <1>1. ctx.num_threads = 0 /\ main.pc = "init" /\ main.i = 0 /\ main.reg = 0 /\ faults = 0
        /\ \A w \in Worker : conn[w].reg = 0
    BY DEF Init
  <1>2. Uncounted = 0 /\ MaxFaults \in Nat
    BY <1>1, MongooseAssumption DEF Uncounted
  <1>3. Bound = 0
    BY <1>1, <1>2 DEF Bound
  <1> QED
    BY <1>1, <1>2, <1>3 DEF ThreadsInv

(* The state stays within its types: the count of threads within the number *)
(* of workers, the indices of the queue within one turn, every buffer       *)
(* within its size, and no more is read of a stream than its client sends.  *)
THEOREM TypeOKHolds == Spec => []TypeOK
  <1>1. HeldInv /\ ThreadsInv /\ DataInv => TypeOK
    <2> SUFFICES ASSUME HeldInv, ThreadsInv, DataInv PROVE TypeOK
      OBVIOUS
    <2>1. /\ ctx \in mg_context /\ main \in MainThread /\ master \in MasterThread
          /\ sock \in [Socket -> {"backlog", "open", "closed"}]
          /\ \A w \in Worker : conn[w].pc \in Pcs
      BY DEF HeldInv, Shape
    <2>2. /\ ctx.num_threads \in Int /\ ctx.sq_head \in Nat /\ ctx.sq_tail \in Nat
          /\ main.reg \in Int /\ main.i \in 0..NUM_THREADS
          /\ NUM_THREADS \in Nat /\ QUEUE \in Nat
      BY <2>1, ContextTypes, Caps DEF MainThread
    <2>3. Bound \in Int /\ Bound <= NUM_THREADS
      BY <2>2 DEF Bound, Uncounted
    <2>4. ctx.num_threads \in -1..NUM_THREADS /\ main.reg \in -1..NUM_THREADS
      BY <2>2, <2>3 DEF ThreadsInv
    <2>5. ctx.sq_head <= 2 * QUEUE /\ ctx.sq_tail <= QUEUE
      BY <2>2 DEF HeldInv, QueueInv
    <2>6. ASSUME NEW w \in Worker
          PROVE  /\ conn[w].client \in Socket \cup {NoSocket} /\ Len(conn[w].buf) <= BUF_SIZE
                 /\ conn[w].content_len >= -1 /\ conn[w].consumed >= 0
      BY DEF DataInv, ConnTypes
    <2>7. ASSUME NEW s \in Socket PROVE pos[s] \in 0..Len(Stream[s])
      <3>1. CASE \E w \in Worker : At(w, s)
        <4>1. PICK w \in Worker : At(w, s)
          BY <3>1
        <4> QED
          BY <4>1 DEF DataInv, ConnOK, At
      <3>2. CASE ~ \E w \in Worker : At(w, s)
        <4>1. pos[s] = 0
          BY <3>2 DEF DataInv
        <4> QED
          BY <4>1, StreamBegins
      <3> QED
        BY <3>1, <3>2
    <2>8. faults \in 0..MaxFaults
      BY DEF ThreadsInv
    <2> QED
      BY <2>1, <2>4, <2>5, <2>6, <2>7, <2>8 DEF TypeOK
  <1>2. Spec => []ThreadsInv
    BY ThreadsInit, ThreadsStep, HeldInvariance, PTL DEF Spec
  <1> QED
    BY <1>1, <1>2, DataInvariance, HeldInvariance, PTL
================================================================================
