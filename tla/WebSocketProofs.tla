-------------------------- MODULE WebSocketProofs --------------------------
(***************************************************************************)
(* Proof that the send queue of a WebSocket's TCP transport loses,         *)
(* repeats and reorders nothing, for any number of messages, any way the   *)
(* kernel takes them in parts, and any setup, until two threads change the *)
(* state of the WebSocket at once (race).                                  *)
(*                                                                         *)
(* The poll thread looks at the first message, lets go of the queue and    *)
(* sends from its copy, while other threads append.  What went out and     *)
(* what the rest of the queue will put out is, in this order, what the     *)
(* application has sent; the copy is the first of the queue as long as the *)
(* thread has it, since nobody else may take from the front (HoldsFirst).  *)
(*                                                                         *)
(* First come facts of the operators that the queue is made of: the units  *)
(* of a queue of messages, what the peer records of some units, and what a *)
(* send leaves of a message.  Then one lemma for each action: most are     *)
(* Calm, neither send nor start to.                                        *)
(***************************************************************************)
EXTENDS WebSocket, WellFoundedInduction, SequenceTheorems, TLAPS

\* Induction, for a set of numbers: there is a smallest number outside it.

LEMMA SmallestOf ==
    ASSUME NEW T, T \subseteq Nat, T # {}
    PROVE  \E m \in T : \A k \in T : m <= k
<1> DEFINE R == OpToRel(<, Nat)
<1>1. IsWellFoundedOn(R, Nat) BY NatLessThanWellFounded
<1>2. \A x, y \in Nat : <<y, x>> \in R <=> y < x BY DEF OpToRel
<1> HIDE DEF R
<1>3. PICK x \in T : \A y \in T : ~ (<<y, x>> \in R) BY <1>1, WFMin
<1>4. \A y \in T : x <= y
  <2> TAKE y \in T
  <2>1. x \in Nat /\ y \in Nat OBVIOUS
  <2>2. ~ (y < x) BY <1>2, <1>3, <2>1
  <2> QED BY <2>1, <2>2
<1> QED BY <1>4

LEMMA Induction ==
    ASSUME NEW T, 0 \in T, \A n \in Nat : n \in T => n + 1 \in T
    PROVE  \A n \in Nat : n \in T
<1> SUFFICES ASSUME NEW n \in Nat, n \notin T PROVE FALSE OBVIOUS
<1> DEFINE Out == Nat \ T
<1>1. PICK m \in Out : \A k \in Out : m <= k BY SmallestOf
<1>2. m - 1 \in Nat /\ m - 1 \in T BY <1>1
<1> QED BY <1>1, <1>2

-----------------------------------------------------------------------------
(***************************************************************************)
(* FlattenSeq: f[i] holds the units of the first i messages of q.          *)
(***************************************************************************)
Sums(q, n, f) == f = [i \in 1 .. n |-> IF i = 1 THEN q[i] ELSE f[i - 1] \o q[i]]

LEMMA SumsExist ==
    ASSUME NEW U, NEW q \in Seq(Seq(U)), q # <<>>
    PROVE  \E f \in [1 .. Len(q) -> Seq(U)] : Sums(q, Len(q), f)
<1> DEFINE P(n) == n \in 1 .. Len(q) => \E f \in [1 .. n -> Seq(U)] : Sums(q, n, f)
           T == {n \in Nat : P(n)}
<1>0. \A n \in Nat : n \in T <=> P(n) OBVIOUS
<1>1. P(0) OBVIOUS
<1>2. ASSUME NEW n \in Nat, P(n) PROVE P(n + 1)
  <2>1. CASE n + 1 \notin 1 .. Len(q) BY <2>1
  <2>2. CASE n = 0 /\ n + 1 \in 1 .. Len(q)
    <3> DEFINE g == [i \in 1 .. 1 |-> q[1]]
    <3>1. g \in [1 .. 1 -> Seq(U)] BY <2>2
    <3>2. Sums(q, 1, g) BY <2>2 DEF Sums
    <3> QED BY <2>2, <3>1, <3>2
  <2>3. CASE n # 0 /\ n + 1 \in 1 .. Len(q)
    <3>1. PICK f \in [1 .. n -> Seq(U)] : Sums(q, n, f) BY <2>3, <1>2
    <3>2. \A i \in 1 .. n : f[i] = IF i = 1 THEN q[i] ELSE f[i - 1] \o q[i] BY <3>1 DEF Sums
    <3> DEFINE g == [i \in 1 .. n + 1 |-> IF i = n + 1 THEN f[n] \o q[n + 1] ELSE f[i]]
    <3>3. f[n] \o q[n + 1] \in Seq(U) BY <2>3
    <3>4. g \in [1 .. n + 1 -> Seq(U)] BY <2>3, <3>3
    <3>5. ASSUME NEW i \in 1 .. n + 1 PROVE g[i] = IF i = 1 THEN q[i] ELSE g[i - 1] \o q[i]
      <4>1. CASE i = n + 1
        <5>0. i - 1 = n /\ i - 1 \in 1 .. n + 1 /\ i - 1 # n + 1 /\ i # 1 BY <4>1, <2>3
        <5>1. g[i] = f[n] \o q[i] /\ g[i - 1] = f[n] /\ i # 1 BY <4>1, <5>0
        <5> QED BY <5>1
      <4>2. CASE i \in 1 .. n
        <5>0. i # n + 1 /\ (i # 1 => i - 1 # n + 1 /\ i - 1 \in 1 .. n + 1) BY <4>2
        <5>1. g[i] = f[i] /\ (i # 1 => g[i - 1] = f[i - 1]) BY <5>0
        <5> QED BY <5>1, <3>2, <4>2
      <4> QED BY <4>1, <4>2
    <3> HIDE DEF g
    <3>6. Sums(q, n + 1, g) BY <3>4, <3>5 DEF Sums
    <3> QED BY <3>4, <3>6
  <2> HIDE DEF P
  <2> QED BY <2>1, <2>2, <2>3
<1> HIDE DEF P, T
<1>3. \A n \in Nat : n \in T
  <2>1. 0 \in T /\ \A n \in Nat : n \in T => n + 1 \in T BY <1>0, <1>1, <1>2
  <2> HIDE <1>0, <1>1, <1>2
  <2> QED BY <2>1, Induction
<1>4. P(Len(q)) /\ Len(q) \in 1 .. Len(q) BY <1>0, <1>3
<1> QED BY <1>4 DEF P

LEMMA SumsUnique ==
    ASSUME NEW q, NEW n \in Nat, NEW f, NEW g, Sums(q, n, f), Sums(q, n, g)
    PROVE  \A i \in 1 .. n : f[i] = g[i]
<1> DEFINE T == {i \in Nat : i \in 1 .. n => f[i] = g[i]}
<1>1. 0 \in T OBVIOUS
<1>2. ASSUME NEW i \in Nat, i \in T PROVE i + 1 \in T
  <2>1. CASE i + 1 \notin 1 .. n BY <2>1
  <2>2. CASE i + 1 \in 1 .. n
    <3>1. f[i + 1] = IF i + 1 = 1 THEN q[i + 1] ELSE f[(i + 1) - 1] \o q[i + 1] BY <2>2 DEF Sums
    <3>2. g[i + 1] = IF i + 1 = 1 THEN q[i + 1] ELSE g[(i + 1) - 1] \o q[i + 1] BY <2>2 DEF Sums
    <3>3. i = 0 \/ i \in 1 .. n BY <2>2
    <3>4. (i + 1) - 1 = i /\ (i = 0 => i + 1 = 1) OBVIOUS
    <3>5. f[i + 1] = g[i + 1] BY <1>2, <3>1, <3>2, <3>3, <3>4
    <3> QED BY <3>5
  <2> QED BY <2>1, <2>2
<1> HIDE DEF T
<1>3. \A i \in Nat : i \in T BY <1>1, <1>2, Induction
<1> QED BY <1>3 DEF T

SumAt(q, f, i) == f[i] = IF i = 1 THEN q[i] ELSE f[i - 1] \o q[i]

LEMMA SumsAt ==
    ASSUME NEW q, NEW n \in Nat, NEW f, Sums(q, n, f), NEW i \in 1 .. n
    PROVE  SumAt(q, f, i)
BY DEF Sums, SumAt

LEMMA FlattenIs ==
    ASSUME NEW U, NEW q \in Seq(Seq(U)), q # <<>>
    PROVE  \E f \in [1 .. Len(q) -> Seq(U)] : Sums(q, Len(q), f) /\ FlattenSeq(q) = f[Len(q)]
<1> DEFINE g == CHOOSE f : Sums(q, Len(q), f)
<1>0. Len(q) # 0 /\ Len(q) \in Nat /\ Len(q) \in 1 .. Len(q) OBVIOUS
<1>1. PICK f \in [1 .. Len(q) -> Seq(U)] : Sums(q, Len(q), f) BY SumsExist
<1>2. Sums(q, Len(q), g) BY <1>1
<1>3. FlattenSeq(q) = g[Len(q)] BY <1>0 DEF FlattenSeq, Sums
<1> HIDE DEF g
<1>4. f[Len(q)] = g[Len(q)] BY <1>0, <1>1, <1>2, SumsUnique
<1> QED BY <1>1, <1>3, <1>4

LEMMA FlattenEmpty == FlattenSeq(<<>>) = <<>>
BY DEF FlattenSeq

LEMMA FlattenType ==
    ASSUME NEW U, NEW q \in Seq(Seq(U))
    PROVE  FlattenSeq(q) \in Seq(U)
<1>1. CASE q = <<>>
  <2>1. <<>> \in Seq(U) OBVIOUS
  <2> QED BY <1>1, <2>1, FlattenEmpty, Zenon
<1>2. CASE q # <<>>
  <2>1. Len(q) \in 1 .. Len(q) BY <1>2
  <2>2. PICK f \in [1 .. Len(q) -> Seq(U)] : Sums(q, Len(q), f) /\ FlattenSeq(q) = f[Len(q)]
    BY <1>2, FlattenIs, Zenon
  <2>3. f[Len(q)] \in Seq(U) BY <2>1
  <2> QED BY <2>2, <2>3
<1> QED BY <1>1, <1>2

LEMMA FlattenAppend ==
    ASSUME NEW U, NEW q \in Seq(Seq(U)), NEW m \in Seq(U)
    PROVE  FlattenSeq(Append(q, m)) = FlattenSeq(q) \o m
<1> DEFINE a == Append(q, m)
           n == Len(q)
<1>0. a \in Seq(Seq(U)) /\ a # <<>> /\ Len(a) = n + 1 /\ n \in Nat /\ a[n + 1] = m
      /\ \A i \in 1 .. n : a[i] = q[i]
  BY AppendProperties
<1> HIDE DEF a
<1>1. PICK g \in [1 .. n + 1 -> Seq(U)] : Sums(a, n + 1, g) /\ FlattenSeq(a) = g[n + 1]
  BY <1>0, FlattenIs
<1>2. g[n + 1] = IF n + 1 = 1 THEN a[n + 1] ELSE g[(n + 1) - 1] \o a[n + 1]
  <2>1. n + 1 \in Nat /\ n + 1 \in 1 .. n + 1 BY <1>0
  <2> HIDE DEF n
  <2>2. SumAt(a, g, n + 1) BY <2>1, <1>1, SumsAt, Zenon
  <2> QED BY <2>2, Zenon DEF SumAt
<1>3. CASE q = <<>>
  <2>1. n = 0 /\ FlattenSeq(a) = m BY <1>0, <1>1, <1>2, <1>3
  <2>2. <<>> \o m = m OBVIOUS
  <2> QED BY <1>3, <2>1, <2>2, FlattenEmpty DEF a
<1>4. CASE q # <<>>
  <2>1. PICK f \in [1 .. n -> Seq(U)] : Sums(q, n, f) /\ FlattenSeq(q) = f[n] BY <1>4, FlattenIs
  <2> DEFINE h == [i \in 1 .. n |-> g[i]]
  <2>2. n \in 1 .. n /\ n + 1 # 1 /\ (n + 1) - 1 = n BY <1>4
  <2>3. ASSUME NEW i \in 1 .. n PROVE h[i] = IF i = 1 THEN q[i] ELSE h[i - 1] \o q[i]
    <3>1. g[i] = IF i = 1 THEN a[i] ELSE g[i - 1] \o a[i]
      <4>1. n + 1 \in Nat /\ i \in 1 .. n + 1 BY <1>0
      <4> HIDE DEF n
      <4>2. SumAt(a, g, i) BY <4>1, <1>1, SumsAt, Zenon
      <4> QED BY <4>2, Zenon DEF SumAt
    <3>2. h[i] = g[i] /\ (i # 1 => i - 1 \in 1 .. n /\ h[i - 1] = g[i - 1]) OBVIOUS
    <3> HIDE DEF h
    <3> QED BY <1>0, <3>1, <3>2
  <2>4. h[n] = g[n] BY <2>2
  <2>5. h = [i \in 1 .. n |-> h[i]] OBVIOUS
  <2> HIDE DEF h
  <2>6. Sums(q, n, h) BY <2>3, <2>5 DEF Sums
  <2>7. f[n] = g[n] BY <2>1, <2>2, <2>4, <2>6, <1>0, SumsUnique
  <2> QED BY <1>0, <1>1, <1>2, <2>1, <2>2, <2>7 DEF a
<1> QED BY <1>3, <1>4

\* Joining is associative.
Regroups(a, b, c) == (a \o b) \o c = a \o (b \o c)

LEMMA JoinedRegroup ==
    ASSUME NEW U, NEW a \in Seq(U), NEW b \in Seq(U), NEW c \in Seq(U)
    PROVE  Regroups(a, b, c)
BY ConcatAssociative DEF Regroups

\* The messages of two queues, one after the other.
LEMMA FlattenConcat ==
    ASSUME NEW U, NEW a \in Seq(Seq(U)), NEW b \in Seq(Seq(U))
    PROVE  FlattenSeq(a \o b) = FlattenSeq(a) \o FlattenSeq(b)
<1> DEFINE P(n) == \A c \in Seq(Seq(U)) : Len(c) = n => FlattenSeq(a \o c) = FlattenSeq(a) \o FlattenSeq(c)
           T == {n \in Nat : P(n)}
<1>0. \A n \in Nat : n \in T <=> P(n) OBVIOUS
<1>1. P(0)
  <2>1. FlattenSeq(a) \in Seq(U) BY FlattenType
  <2>2. FlattenSeq(a) \o <<>> = FlattenSeq(a) BY <2>1
  <2> SUFFICES ASSUME NEW c \in Seq(Seq(U)), Len(c) = 0 PROVE FlattenSeq(a \o c) = FlattenSeq(a) \o FlattenSeq(c) OBVIOUS
  <2>3. c = <<>> OBVIOUS
  <2>4. a \o c = a BY <2>3
  <2> QED BY <2>2, <2>3, <2>4, FlattenEmpty
<1>2. ASSUME NEW n \in Nat, P(n) PROVE P(n + 1)
  <2> SUFFICES ASSUME NEW c \in Seq(Seq(U)), Len(c) = n + 1 PROVE FlattenSeq(a \o c) = FlattenSeq(a) \o FlattenSeq(c) OBVIOUS
  <2>0. c # <<>> OBVIOUS
  <2>1. PICK d \in Seq(Seq(U)), m \in Seq(U) : c = Append(d, m) BY <2>0, SequenceEmptyOrAppend
  <2>2. Len(d) = n BY <2>1
  <2>3. FlattenSeq(a \o d) = FlattenSeq(a) \o FlattenSeq(d) BY <1>2, <2>2
  <2>4. a \o c = Append(a \o d, m) BY <2>1
  <2>5. FlattenSeq(c) = FlattenSeq(d) \o m BY <2>1, FlattenAppend
  <2>6. FlattenSeq(a \o c) = FlattenSeq(a \o d) \o m
    <3>1. a \o d \in Seq(Seq(U)) OBVIOUS
    <3> QED BY <2>4, <3>1, FlattenAppend
  <2>7. FlattenSeq(a) \in Seq(U) /\ FlattenSeq(d) \in Seq(U) BY FlattenType
  <2>8. (FlattenSeq(a) \o FlattenSeq(d)) \o m = FlattenSeq(a) \o (FlattenSeq(d) \o m)
    <3>1. PICK x \in Seq(U), y \in Seq(U) : x = FlattenSeq(a) /\ y = FlattenSeq(d) BY <2>7
    <3>2. Regroups(x, y, m) BY JoinedRegroup
    <3> QED BY <3>1, <3>2, Zenon DEF Regroups
  <2> QED BY <2>3, <2>5, <2>6, <2>8, Zenon
<1> HIDE DEF P, T
<1>3. \A n \in Nat : n \in T
  <2>1. 0 \in T /\ \A n \in Nat : n \in T => n + 1 \in T BY <1>0, <1>1, <1>2
  <2> QED BY <2>1, Induction
<1>4. P(Len(b)) BY <1>0, <1>3
<1> QED BY <1>4 DEF P

-----------------------------------------------------------------------------
(***************************************************************************)
(* Recorded: f[i] holds what the application's messages put into the first *)
(* i units; those of the WebSocket itself have the number 0.               *)
(***************************************************************************)
Unit == [message : Nat, part : Nat]

Records(units, n, f) ==
    f = [i \in 0 .. n |-> CASE i = 0 -> <<>>
                            [] i # 0 /\ units[i].message = 0 -> f[i - 1]
                            [] OTHER -> Append(f[i - 1], units[i])]

LEMMA RecordsAt ==
    ASSUME NEW units, NEW n \in Nat, NEW f, Records(units, n, f), NEW i \in 1 .. n
    PROVE  f[i] = IF units[i].message = 0 THEN f[i - 1] ELSE Append(f[i - 1], units[i])
<1>0. i \in 0 .. n OBVIOUS
<1>1. f[i] = CASE i = 0 -> <<>>
               [] i # 0 /\ units[i].message = 0 -> f[i - 1]
               [] OTHER -> Append(f[i - 1], units[i])
  BY <1>0, Zenon DEF Records
<1>2. i # 0 OBVIOUS
<1> QED BY <1>1, <1>2

LEMMA RecordsExist ==
    ASSUME NEW units \in Seq(Unit)
    PROVE  \E f \in [0 .. Len(units) -> Seq(Unit)] : Records(units, Len(units), f)
<1> DEFINE P(n) == n \in 0 .. Len(units) => \E f \in [0 .. n -> Seq(Unit)] : Records(units, n, f)
           T == {n \in Nat : P(n)}
<1>0. \A n \in Nat : n \in T <=> P(n) OBVIOUS
<1>1. P(0)
  <2> DEFINE g == [i \in 0 .. 0 |-> <<>>]
  <2>1. g \in [0 .. 0 -> Seq(Unit)] OBVIOUS
  <2>2. Records(units, 0, g) BY DEF Records
  <2> QED BY <2>1, <2>2
<1>2. ASSUME NEW n \in Nat, P(n) PROVE P(n + 1)
  <2>1. CASE n + 1 \notin 0 .. Len(units) BY <2>1
  <2>2. CASE n + 1 \in 0 .. Len(units)
    <3>1. PICK f \in [0 .. n -> Seq(Unit)] : Records(units, n, f) BY <2>2, <1>2
    <3> DEFINE next == IF units[n + 1].message = 0 THEN f[n] ELSE Append(f[n], units[n + 1])
               g == [i \in 0 .. n + 1 |-> IF i = n + 1 THEN next ELSE f[i]]
    <3>2. units[n + 1] \in Unit /\ f[n] \in Seq(Unit) BY <2>2
    <3>3. next \in Seq(Unit) BY <3>2
    <3>4. g \in [0 .. n + 1 -> Seq(Unit)]
      <4> HIDE DEF next
      <4> QED BY <3>3
    <3>5. f[0] = <<>> BY <3>1 DEF Records
    <3>6. \A i \in 1 .. n : f[i] = IF units[i].message = 0 THEN f[i - 1] ELSE Append(f[i - 1], units[i])
      BY <3>1, RecordsAt
    <3>7. ASSUME NEW i \in 0 .. n + 1
          PROVE  g[i] = CASE i = 0 -> <<>>
                          [] i # 0 /\ units[i].message = 0 -> g[i - 1]
                          [] OTHER -> Append(g[i - 1], units[i])
      <4>1. CASE i = n + 1
        <5>1. i # 0 /\ i - 1 = n /\ i - 1 \in 0 .. n + 1 /\ i - 1 # n + 1 BY <4>1
        <5>2. g[i] = next /\ g[i - 1] = f[n] BY <4>1, <5>1
        <5> HIDE DEF g
        <5> QED BY <4>1, <5>1, <5>2
      <4>2. CASE i \in 1 .. n
        <5>1. i # 0 /\ i - 1 \in 0 .. n + 1 /\ i - 1 # n + 1 /\ i # n + 1 BY <4>2
        <5>2. g[i] = f[i] /\ g[i - 1] = f[i - 1] BY <5>1
        <5> HIDE DEF g
        <5> QED BY <4>2, <5>1, <5>2, <3>6
      <4>3. CASE i = 0
        <5>1. g[i] = f[i] BY <4>3
        <5> HIDE DEF g
        <5> QED BY <4>3, <5>1, <3>5
      <4> QED BY <4>1, <4>2, <4>3
    <3> HIDE DEF g
    <3>8. Records(units, n + 1, g)
      <4>1. g = [i \in 0 .. n + 1 |-> g[i]] BY <3>4
      <4> QED BY <3>7, <4>1 DEF Records
    <3> QED BY <3>4, <3>8
  <2> HIDE DEF P
  <2> QED BY <2>1, <2>2
<1> HIDE DEF P, T
<1>3. \A n \in Nat : n \in T
  <2>1. 0 \in T /\ \A n \in Nat : n \in T => n + 1 \in T BY <1>0, <1>1, <1>2
  <2> QED BY <2>1, Induction
<1>4. P(Len(units)) /\ Len(units) \in 0 .. Len(units) BY <1>0, <1>3
<1> QED BY <1>4 DEF P

LEMMA RecordsUnique ==
    ASSUME NEW units, NEW n \in Nat, NEW f, NEW g, Records(units, n, f), Records(units, n, g)
    PROVE  \A i \in 0 .. n : f[i] = g[i]
<1> DEFINE T == {i \in Nat : i \in 0 .. n => f[i] = g[i]}
<1>1. 0 \in T
  <2>1. f[0] = <<>> /\ g[0] = <<>> BY DEF Records
  <2> QED BY <2>1
<1>2. ASSUME NEW i \in Nat, i \in T PROVE i + 1 \in T
  <2>1. CASE i + 1 \notin 0 .. n BY <2>1
  <2>2. CASE i + 1 \in 0 .. n
    <3>1. i + 1 \in 1 .. n /\ (i + 1) - 1 = i /\ i \in 0 .. n BY <2>2
    <3>2. f[i] = g[i] BY <1>2, <3>1
    <3>3. f[i + 1] = g[i + 1] BY <3>1, <3>2, RecordsAt
    <3> QED BY <3>3
  <2> QED BY <2>1, <2>2
<1> HIDE DEF T
<1>3. \A i \in Nat : i \in T BY <1>1, <1>2, Induction
<1> QED BY <1>3 DEF T

LEMMA RecordedIs ==
    ASSUME NEW units \in Seq(Unit)
    PROVE  \E f \in [0 .. Len(units) -> Seq(Unit)] :
              Records(units, Len(units), f) /\ Recorded(units) = f[Len(units)]
<1> DEFINE g == CHOOSE f : Records(units, Len(units), f)
<1>0. Len(units) \in Nat /\ Len(units) \in 0 .. Len(units) OBVIOUS
<1>1. PICK f \in [0 .. Len(units) -> Seq(Unit)] : Records(units, Len(units), f) BY RecordsExist
<1>2. Records(units, Len(units), g) BY <1>1
<1>3. Recorded(units) = g[Len(units)] BY DEF Recorded, Records
<1> HIDE DEF g
<1>4. f[Len(units)] = g[Len(units)] BY <1>0, <1>1, <1>2, RecordsUnique
<1> QED BY <1>1, <1>3, <1>4

LEMMA RecordedEmpty == Recorded(<<>>) = <<>>
<1>1. <<>> \in Seq(Unit) /\ Len(<<>>) = 0 OBVIOUS
<1>2. PICK f \in [0 .. 0 -> Seq(Unit)] : Records(<<>>, 0, f) /\ Recorded(<<>>) = f[0] BY <1>1, RecordedIs
<1> QED BY <1>2 DEF Records

LEMMA RecordedType ==
    ASSUME NEW units \in Seq(Unit)
    PROVE  Recorded(units) \in Seq(Unit)
<1>1. Len(units) \in 0 .. Len(units) OBVIOUS
<1> QED BY <1>1, RecordedIs

LEMMA RecordedAppend ==
    ASSUME NEW units \in Seq(Unit), NEW u \in Unit
    PROVE  Recorded(Append(units, u)) = IF u.message = 0 THEN Recorded(units) ELSE Append(Recorded(units), u)
<1> DEFINE a == Append(units, u)
           n == Len(units)
<1>0. a \in Seq(Unit) /\ Len(a) = n + 1 /\ n \in Nat /\ a[n + 1] = u /\ \A i \in 1 .. n : a[i] = units[i]
  BY AppendProperties
<1> HIDE DEF a
<1>1. PICK g \in [0 .. n + 1 -> Seq(Unit)] : Records(a, n + 1, g) /\ Recorded(a) = g[n + 1]
  BY <1>0, RecordedIs
<1>2. PICK f \in [0 .. n -> Seq(Unit)] : Records(units, n, f) /\ Recorded(units) = f[n] BY RecordedIs
<1> HIDE DEF n
<1>3. \A i \in 1 .. n + 1 : g[i] = IF a[i].message = 0 THEN g[i - 1] ELSE Append(g[i - 1], a[i])
  <2>1. n + 1 \in Nat BY <1>0
  <2> QED BY <2>1, <1>1, RecordsAt
<1>4. g[0] = <<>> BY <1>0, <1>1 DEF Records
<1> DEFINE h == [i \in 0 .. n |-> g[i]]
<1>5. ASSUME NEW i \in 0 .. n
      PROVE  h[i] = CASE i = 0 -> <<>>
                      [] i # 0 /\ units[i].message = 0 -> h[i - 1]
                      [] OTHER -> Append(h[i - 1], units[i])
  <2>1. CASE i = 0 BY <1>4, <2>1
  <2>2. CASE i # 0
    <3>1. i \in 1 .. n /\ i \in 1 .. n + 1 /\ i - 1 \in 0 .. n BY <2>2, <1>0
    <3>2. h[i] = g[i] /\ h[i - 1] = g[i - 1] BY <3>1
    <3> HIDE DEF h
    <3> QED BY <1>0, <1>3, <2>2, <3>1, <3>2
  <2> QED BY <2>1, <2>2
<1>6. h = [i \in 0 .. n |-> h[i]] /\ h[n] = g[n] BY <1>0
<1> HIDE DEF h
<1>7. Records(units, n, h) BY <1>5, <1>6 DEF Records
<1>8. f[n] = g[n]
  <2>1. n \in 0 .. n BY <1>0
  <2>2. n \in Nat /\ Records(units, n, f) /\ Records(units, n, h) BY <1>0, <1>2, <1>7
  <2>3. f[n] = h[n] BY <2>1, <2>2, RecordsUnique
  <2> QED BY <2>3, <1>6
<1>9. n + 1 \in 1 .. n + 1 /\ (n + 1) - 1 = n BY <1>0
<1>10. g[n + 1] = IF u.message = 0 THEN g[n] ELSE Append(g[n], u) BY <1>0, <1>3, <1>9
<1> QED BY <1>1, <1>2, <1>8, <1>10 DEF a

LEMMA RecordedConcat ==
    ASSUME NEW a \in Seq(Unit), NEW b \in Seq(Unit)
    PROVE  Recorded(a \o b) = Recorded(a) \o Recorded(b)
<1> DEFINE P(n) == \A c \in Seq(Unit) : Len(c) = n => Recorded(a \o c) = Recorded(a) \o Recorded(c)
           T == {n \in Nat : P(n)}
<1>0. \A n \in Nat : n \in T <=> P(n) OBVIOUS
<1>1. P(0)
  <2>1. Recorded(a) \in Seq(Unit) BY RecordedType
  <2>2. Recorded(a) \o <<>> = Recorded(a) BY <2>1
  <2> SUFFICES ASSUME NEW c \in Seq(Unit), Len(c) = 0 PROVE Recorded(a \o c) = Recorded(a) \o Recorded(c) OBVIOUS
  <2>3. c = <<>> OBVIOUS
  <2>4. a \o c = a BY <2>3
  <2> QED BY <2>2, <2>3, <2>4, RecordedEmpty
<1>2. ASSUME NEW n \in Nat, P(n) PROVE P(n + 1)
  <2> SUFFICES ASSUME NEW c \in Seq(Unit), Len(c) = n + 1 PROVE Recorded(a \o c) = Recorded(a) \o Recorded(c) OBVIOUS
  <2>0. c # <<>> OBVIOUS
  <2>1. PICK d \in Seq(Unit), u \in Unit : c = Append(d, u) BY <2>0, SequenceEmptyOrAppend
  <2>2. Len(d) = n BY <2>1
  <2>3. Recorded(a \o d) = Recorded(a) \o Recorded(d) BY <1>2, <2>2
  <2>4. a \o c = Append(a \o d, u) /\ a \o d \in Seq(Unit) BY <2>1
  <2>5. Recorded(c) = IF u.message = 0 THEN Recorded(d) ELSE Append(Recorded(d), u) BY <2>1, RecordedAppend
  <2>6. Recorded(a \o c) = IF u.message = 0 THEN Recorded(a \o d) ELSE Append(Recorded(a \o d), u)
    BY <2>4, RecordedAppend
  <2>7. Recorded(a) \in Seq(Unit) /\ Recorded(d) \in Seq(Unit) BY RecordedType
  <2>8. Append(Recorded(a) \o Recorded(d), u) = Recorded(a) \o Append(Recorded(d), u) BY <2>7, SMT
  <2> QED BY <2>3, <2>5, <2>6, <2>8, Zenon
<1> HIDE DEF P, T
<1>3. \A n \in Nat : n \in T
  <2>1. 0 \in T /\ \A n \in Nat : n \in T => n + 1 \in T BY <1>0, <1>1, <1>2
  <2> QED BY <2>1, Induction
<1>4. P(Len(b)) BY <1>0, <1>3
<1> QED BY <1>4 DEF P

-----------------------------------------------------------------------------
LEMMA LargestOf ==
    ASSUME NEW n \in Nat, NEW T, T \subseteq 0 .. n, T # {}
    PROVE  Max(T) \in T /\ \A k \in T : Max(T) >= k
<1> DEFINE Mirror == {k \in Nat : k <= n /\ n - k \in T}
<1>1. \A k \in T : k \in Nat /\ k <= n /\ n - k \in Mirror OBVIOUS
<1>2. Mirror # {} BY <1>1
<1>3. PICK m \in Mirror : \A k \in Mirror : m <= k BY <1>2, SmallestOf
<1>4. n - m \in T /\ m \in Nat BY <1>3
<1>5. \A k \in T : n - m >= k
  <2> TAKE k \in T
  <2>1. m <= n - k BY <1>1, <1>3
  <2> QED BY <1>1, <1>4, <2>1
<1> QED BY <1>4, <1>5 DEF Max

\* What of a concatenation follows a place in the middle part.
LEMMA JoinedSeq ==
    ASSUME NEW S, NEW a \in Seq(S), NEW c \in Seq(S)
    PROVE  /\ a \o c \in Seq(S) /\ Len(a \o c) = Len(a) + Len(c)
           /\ \A i \in 1 .. Len(a) : (a \o c)[i] = a[i]
           /\ \A i \in 1 .. Len(c) : (a \o c)[Len(a) + i] = c[i]
OBVIOUS

Follows(a, m, c, n) ==
    SubSeq(m, n - Len(a) + 1, Len(m)) \o c = SubSeq((a \o m) \o c, n + 1, Len((a \o m) \o c))

LEMMA Remainder ==
    ASSUME NEW a \in Seq(Unit), NEW m \in Seq(Unit), NEW c \in Seq(Unit),
           NEW n \in Nat, Len(a) <= n, n < Len(a) + Len(m)
    PROVE  Follows(a, m, c, n)
<1> DEFINE r == SubSeq(m, n - Len(a) + 1, Len(m))
           x == a \o m
           y == x \o c
           s == SubSeq(y, n + 1, Len(y))
           k == Len(a) + Len(m) - n
<1>1. Len(a) \in Nat /\ Len(m) \in Nat /\ Len(c) \in Nat /\ k \in Nat /\ k <= Len(m) OBVIOUS
<1>2. r \in Seq(Unit) BY <1>1
<1>2a. Len(r) = k /\ \A i \in 1 .. k : r[i] = m[(n - Len(a)) + i] BY <1>1
<1>3. x \in Seq(Unit) /\ Len(x) = Len(a) + Len(m) /\ \A i \in 1 .. Len(m) : x[Len(a) + i] = m[i] OBVIOUS
<1>4. /\ y \in Seq(Unit) /\ Len(y) = Len(x) + Len(c)
      /\ \A i \in 1 .. Len(x) : y[i] = x[i]
      /\ \A i \in 1 .. Len(c) : y[Len(x) + i] = c[i]
  BY <1>3
<1> HIDE DEF r, x, y, k
<1>5. Len(y) - n = k + Len(c) /\ n <= Len(y) BY <1>1, <1>3, <1>4 DEF k
<1>6. s \in Seq(Unit) /\ Len(s) = k + Len(c) /\ \A i \in 1 .. k + Len(c) : s[i] = y[n + i]
  <2>1. Len(y) \in Nat /\ k + Len(c) \in Nat /\ Len(y) = n + (k + Len(c)) BY <1>1, <1>4, <1>5
  <2>2. y \in Seq(Unit) BY <1>4
  <2> QED BY <2>1, <2>2, SMTT(20)
<1> HIDE DEF s
<1> DEFINE j == r \o c
<1>7a. /\ j \in Seq(Unit) /\ Len(j) = Len(r) + Len(c)
       /\ \A i \in 1 .. Len(r) : j[i] = r[i]
       /\ \A i \in 1 .. Len(c) : j[Len(r) + i] = c[i]
  BY <1>2, JoinedSeq
<1> HIDE DEF j
<1>7. /\ j \in Seq(Unit) /\ Len(j) = k + Len(c)
      /\ \A i \in 1 .. k : j[i] = r[i]
      /\ \A i \in 1 .. Len(c) : j[k + i] = c[i]
  BY <1>2a, <1>7a
<1>8. ASSUME NEW i \in 1 .. k + Len(c) PROVE j[i] = s[i]
  <2>1. CASE i <= k
    <3>1. i \in 1 .. k BY <2>1, <1>1
    <3>2. (n - Len(a)) + i \in 1 .. Len(m) /\ n + i = Len(a) + ((n - Len(a)) + i)
      <4>1. i \in Nat /\ i >= 1 /\ i <= Len(a) + Len(m) - n BY <3>1, <1>1 DEF k
      <4> QED BY <4>1, <1>1
    <3>3. n + i \in 1 .. Len(x) BY <3>2, <1>1, <1>3
    <3>4. y[n + i] = m[(n - Len(a)) + i] BY <3>2, <3>3, <1>3, <1>4
    <3> QED BY <3>1, <3>4, <1>2a, <1>6, <1>7
  <2>2. CASE i > k
    <3>1. i - k \in 1 .. Len(c) /\ i = k + (i - k) /\ n + i = Len(x) + (i - k) BY <2>2, <1>1, <1>3 DEF k
    <3>2. y[n + i] = c[i - k] BY <3>1, <1>4
    <3>3. j[i] = c[i - k] BY <3>1, <1>7
    <3> QED BY <3>2, <3>3, <1>6
  <2>3. i \in Nat BY <1>1
  <2> QED BY <2>1, <2>2, <2>3, <1>1
<1>9. j = s BY <1>6, <1>7, <1>8, SeqEqual
<1> QED BY <1>9, Zenon DEF j, r, s, y, x, Follows

LEMMA AroundPlace ==
    ASSUME NEW S, NEW q \in Seq(S), NEW w \in Nat, w < Len(q)
    PROVE  q = Append(SubSeq(q, 1, w), q[w + 1]) \o SubSeq(q, w + 2, Len(q))
<1> DEFINE a == Append(SubSeq(q, 1, w), q[w + 1])
           c == SubSeq(q, w + 2, Len(q))
<1>1a. a \in Seq(S) OBVIOUS
<1>1. Len(a) = w + 1 /\ \A i \in 1 .. w + 1 : a[i] = q[i] OBVIOUS
<1>2a. c \in Seq(S) OBVIOUS
<1>2. Len(c) = Len(q) - (w + 1) /\ \A i \in 1 .. Len(q) - (w + 1) : c[i] = q[(w + 1) + i] OBVIOUS
<1> HIDE DEF a, c
<1>0. Len(q) \in Nat OBVIOUS
<1> DEFINE j == a \o c
<1>3. /\ j \in Seq(S) /\ Len(j) = Len(a) + Len(c)
      /\ \A i \in 1 .. Len(a) : j[i] = a[i]
      /\ \A i \in 1 .. Len(c) : j[Len(a) + i] = c[i]
  BY <1>1a, <1>2a, JoinedSeq
<1> HIDE DEF j
<1>4. ASSUME NEW i \in 1 .. Len(q) PROVE j[i] = q[i]
  <2>1. CASE i <= w + 1 BY <2>1, <1>3, <1>1
  <2>2. CASE i > w + 1
    <3>1. i - (w + 1) \in 1 .. Len(q) - (w + 1) /\ (w + 1) + (i - (w + 1)) = i BY <2>2
    <3>2. j[i] = c[i - (w + 1)] BY <1>1, <1>2, <1>3, <3>1
    <3> QED BY <3>1, <3>2, <1>2
  <2>3. i \in Nat OBVIOUS
  <2> QED BY <2>1, <2>2, <2>3
<1>5. q = j
  <2>1. Len(j) = Len(q) BY <1>0, <1>1, <1>2, <1>3
  <2> QED BY <2>1, <1>3, <1>4, SeqEqual
<1> QED BY <1>5 DEF j, a, c

LEMMA FlattenPrepended ==
    ASSUME NEW m \in Seq(Unit), NEW c \in Seq(Seq(Unit))
    PROVE  FlattenSeq(<<m>> \o c) = m \o FlattenSeq(c) /\ <<m>> \o c \in Seq(Seq(Unit))
<1>1. <<m>> \in Seq(Seq(Unit)) /\ <<>> \in Seq(Seq(Unit)) /\ <<m>> = Append(<<>>, m) OBVIOUS
<1>2. FlattenSeq(<<m>>) = FlattenSeq(<<>>) \o m BY <1>1, FlattenAppend
<1>3. <<>> \o m = m OBVIOUS
<1>4. FlattenSeq(<<m>>) = m BY <1>2, <1>3, FlattenEmpty, Zenon
<1>5. FlattenSeq(<<m>> \o c) = FlattenSeq(<<m>>) \o FlattenSeq(c) BY <1>1, FlattenConcat
<1>6. FlattenSeq(<<m>> \o c) = m \o FlattenSeq(c) BY <1>4, <1>5, Zenon
<1>7. <<m>> \o c \in Seq(Seq(Unit)) BY <1>1
<1> QED BY <1>6, <1>7

LEMMA RestOfQueue ==
    ASSUME NEW q \in Seq(Seq(Unit)), NEW n \in 0 .. Len(FlattenSeq(q))
    PROVE  /\ Rest(q, n) \in Seq(Seq(Unit))
           /\ FlattenSeq(Rest(q, n)) = SubSeq(FlattenSeq(q), n + 1, Len(FlattenSeq(q)))
<1> DEFINE ends == [i \in 0 .. Len(q) |-> Len(FlattenSeq(SubSeq(q, 1, i)))]
           E == {i \in DOMAIN ends : ends[i] <= n}
           w == Max(E)
<1>1. \A i \in 0 .. Len(q) : SubSeq(q, 1, i) \in Seq(Seq(Unit)) OBVIOUS
<1>2. \A i \in 0 .. Len(q) : ends[i] = Len(FlattenSeq(SubSeq(q, 1, i))) /\ ends[i] \in Nat
  <2> TAKE i \in 0 .. Len(q)
  <2>1. FlattenSeq(SubSeq(q, 1, i)) \in Seq(Unit) BY <1>1, FlattenType
  <2> QED BY <2>1
<1>3. w \in 0 .. Len(q) /\ ends[w] <= n /\ (w < Len(q) => ends[w + 1] > n)
  <2>1. SubSeq(q, 1, 0) = <<>> OBVIOUS
  <2>2. ends[0] = 0
    <3>1. 0 \in 0 .. Len(q) /\ Len(<<>>) = 0 OBVIOUS
    <3>2. ends[0] = Len(FlattenSeq(SubSeq(q, 1, 0))) BY <3>1, <1>2
    <3> QED BY <2>1, <3>1, <3>2, FlattenEmpty, Zenon
  <2>3. E \subseteq 0 .. Len(q) /\ 0 \in E BY <2>2
  <2>4. w \in E /\ \A k \in E : w >= k
    <3>1. Len(q) \in Nat OBVIOUS
    <3> HIDE DEF E
    <3> QED BY <2>3, <3>1, LargestOf
  <2>5. \A k \in 0 .. Len(q) : k > w => ends[k] > n
    <3> TAKE k \in 0 .. Len(q)
    <3> HAVE k > w
    <3>1. k \notin E
      <4>1. w \in 0 .. Len(q) BY <2>3, <2>4
      <4> HIDE DEF E, w
      <4> QED BY <2>4, <4>1
    <3>2. ~ (ends[k] <= n) BY <3>1
    <3>3. ends[k] \in Nat BY <1>2
    <3> HIDE DEF ends
    <3> QED BY <3>2, <3>3
  <2>6. w \in 0 .. Len(q) /\ ends[w] <= n BY <2>3, <2>4
  <2> HIDE DEF w, ends
  <2>7. w < Len(q) => w + 1 \in 0 .. Len(q) /\ w + 1 > w BY <2>6
  <2> QED BY <2>5, <2>6, <2>7
<1>4. Rest(q, n) = IF w = Len(q) THEN <<>>
                   ELSE <<SubSeq(q[w + 1], n - ends[w] + 1, Len(q[w + 1]))>> \o SubSeq(q, w + 2, Len(q))
  BY DEF Rest
<1> HIDE DEF w, ends
<1>5. FlattenSeq(q) \in Seq(Unit) BY FlattenType
<1>6. CASE w = Len(q)
  <2>1. SubSeq(q, 1, Len(q)) = q /\ Len(q) \in 0 .. Len(q) OBVIOUS
  <2>2. ends[w] = Len(FlattenSeq(q)) BY <1>2, <1>6, <2>1
  <2>3. n = Len(FlattenSeq(q)) BY <1>3, <1>5, <2>2
  <2>4. SubSeq(FlattenSeq(q), n + 1, Len(FlattenSeq(q))) = <<>> BY <1>5, <2>3
  <2>5. <<>> \in Seq(Seq(Unit)) OBVIOUS
  <2> QED BY <1>4, <1>6, <2>4, <2>5, FlattenEmpty
<1>7. CASE w # Len(q)
  <2> DEFINE a == SubSeq(q, 1, w)
             m == q[w + 1]
             c == SubSeq(q, w + 2, Len(q))
             r == SubSeq(m, n - ends[w] + 1, Len(m))
  <2>1. w \in Nat /\ w < Len(q) /\ w + 1 \in 1 .. Len(q) /\ w + 1 \in 0 .. Len(q) BY <1>3, <1>7
  <2>2. a \in Seq(Seq(Unit)) /\ m \in Seq(Unit) /\ c \in Seq(Seq(Unit)) BY <2>1
  <2>3. SubSeq(q, 1, w + 1) = Append(a, m) BY <2>1
  <2>4. q = Append(a, m) \o c BY <2>1, AroundPlace
  <2>5. ends[w] = Len(FlattenSeq(a)) BY <1>2, <1>3
  <2>6. ends[w + 1] = Len(FlattenSeq(Append(a, m))) BY <1>2, <2>1, <2>3
  <2>7. ends[w] <= n /\ ends[w + 1] > n BY <1>3, <2>1
  <2>8. Rest(q, n) = <<r>> \o c BY <1>4, <1>7
  <2> HIDE DEF a, m, c
  <2>9. FlattenSeq(Append(a, m)) = FlattenSeq(a) \o m BY <2>2, FlattenAppend
  <2>10. FlattenSeq(a) \in Seq(Unit) /\ FlattenSeq(c) \in Seq(Unit) BY <2>2, FlattenType
  <2>11. FlattenSeq(q) = (FlattenSeq(a) \o m) \o FlattenSeq(c)
    <3>1. Append(a, m) \in Seq(Seq(Unit)) BY <2>2
    <3> QED BY <2>2, <2>4, <2>9, <3>1, FlattenConcat
  <2>12. n < Len(FlattenSeq(a)) + Len(m) /\ Len(FlattenSeq(a)) <= n BY <2>2, <2>5, <2>6, <2>7, <2>9, <2>10
  <2>13. r = SubSeq(m, n - Len(FlattenSeq(a)) + 1, Len(m)) BY <2>5
  <2>14. r \in Seq(Unit)
    <3>1. Len(FlattenSeq(a)) \in Nat BY <2>10
    <3> HIDE DEF r
    <3> QED BY <2>2, <2>12, <2>13, <3>1
  <2> HIDE DEF r
  <2>15. FlattenSeq(<<r>> \o c) = r \o FlattenSeq(c) BY <2>2, <2>14, FlattenPrepended
  <2>16. <<r>> \o c \in Seq(Seq(Unit)) BY <2>2, <2>14, FlattenPrepended
  <2>17. PICK x \in Seq(Unit), y \in Seq(Unit) : x = FlattenSeq(a) /\ y = FlattenSeq(c) BY <2>10
  <2>18. SubSeq(m, n - Len(x) + 1, Len(m)) \o y = SubSeq((x \o m) \o y, n + 1, Len((x \o m) \o y))
    <3>1. PICK z \in Seq(Unit) : z = m BY <2>2
    <3>2. n \in Nat BY <1>5
    <3>3. Len(x) <= n BY <2>12, <2>17, <3>1
    <3>5. n < Len(x) + Len(z) BY <2>12, <2>17, <3>1
    <3>4. Follows(x, z, y, n) BY <3>2, <3>3, <3>5, Remainder
    <3> QED BY <3>1, <3>4, Zenon DEF Follows
  <2>19. FlattenSeq(q) = (x \o m) \o y BY <2>11, <2>17, Zenon
  <2>20. r = SubSeq(m, n - Len(x) + 1, Len(m)) BY <2>13, <2>17, Zenon
  <2>21. FlattenSeq(Rest(q, n)) = r \o y BY <2>8, <2>15, <2>17, Zenon
  <2>22. FlattenSeq(Rest(q, n)) = SubSeq(FlattenSeq(q), n + 1, Len(FlattenSeq(q)))
    BY <2>18, <2>19, <2>20, <2>21, Zenon
  <2> QED BY <2>8, <2>16, <2>22, Zenon
<1> QED BY <1>6, <1>7

-----------------------------------------------------------------------------
Socks == {"none", "connecting", "up", "broken"}
Polls == {"none", "connect", "in", "both"}
Owners == Threads \cup {Nobody}
TcpOf(Q, U) == [left : Nat, sock : Socks, poll : Polls, queue : Q, copy : U, out : U, room : Nat, owner : Owners]
Tcp == TcpOf(Seq(Seq(Unit)), Seq(Unit))

LEMMA TcpFields ==
    ASSUME NEW t \in Tcp
    PROVE  t.queue \in Seq(Seq(Unit)) /\ t.out \in Seq(Unit) /\ t.room \in Nat /\ t.copy \in Seq(Unit)
BY DEF Tcp, TcpOf

StreamOf(t) == t.out \o Recorded(FlattenSeq(t.queue))

LEMMA SplitStream ==
    ASSUME NEW all \in Seq(Unit), NEW n \in 0 .. Len(all)
    PROVE  /\ SubSeq(all, 1, n) \in Seq(Unit) /\ SubSeq(all, n + 1, Len(all)) \in Seq(Unit)
           /\ all = SubSeq(all, 1, n) \o SubSeq(all, n + 1, Len(all))
<1>1. Len(all) \in Nat OBVIOUS
<1>2. 1 \in 1 .. Len(all) + 1 /\ n \in 1 - 1 .. Len(all) /\ Len(all) \in n .. Len(all) BY <1>1
<1>3. SubSeq(all, 1, n) \o SubSeq(all, n + 1, Len(all)) = SubSeq(all, 1, Len(all)) BY <1>2, ConcatAdjacentSubSeq
<1>4. SubSeq(all, 1, Len(all)) = all OBVIOUS
<1>5. SubSeq(all, 1, n) \in Seq(Unit) /\ SubSeq(all, n + 1, Len(all)) \in Seq(Unit) BY <1>1
<1> QED BY <1>3, <1>4, <1>5

LEMMA SentKeeps ==
    ASSUME NEW t \in Tcp, NEW message \in Seq(Unit)
    PROVE  /\ Sent(t, message) \in Tcp
           /\ Sent(t, message).copy = t.copy
           /\ StreamOf(Sent(t, message)) = StreamOf(t) \o Recorded(message)
<1> DEFINE all == Append(t.queue, message)
           units == FlattenSeq(all)
           n == Least(t.room, Len(units))
           rest == Rest(all, n)
           sent == SubSeq(units, 1, n)
           unsent == SubSeq(units, n + 1, Len(units))
           z == Sent(t, message)
<1>1. t.queue \in Seq(Seq(Unit)) /\ t.out \in Seq(Unit) /\ t.room \in Nat BY TcpFields
<1>2. all \in Seq(Seq(Unit)) BY <1>1
<1>3. z = [t EXCEPT !.queue = rest, !.out = @ \o Recorded(sent), !.room = @ - n] BY DEF Sent
<1> HIDE DEF z
<1>4. units = FlattenSeq(t.queue) \o message BY <1>1, FlattenAppend
<1>5. units \in Seq(Unit) BY <1>2, FlattenType
<1>6. n \in 0 .. Len(units) /\ n <= t.room
  <2>1. Len(units) \in Nat BY <1>5
  <2> HIDE DEF units
  <2> QED BY <2>1, <1>1 DEF Least
<1>7. rest \in Seq(Seq(Unit)) /\ FlattenSeq(rest) = unsent
  <2> HIDE DEF all, n
  <2> QED BY <1>2, <1>6, RestOfQueue
<1>8. sent \in Seq(Unit) /\ unsent \in Seq(Unit) /\ units = sent \o unsent
  <2> HIDE DEF units, n
  <2> QED BY <1>5, <1>6, SplitStream
<1> HIDE DEF units, n, rest, sent, unsent
<1>9. Recorded(sent) \in Seq(Unit) /\ Recorded(unsent) \in Seq(Unit) BY <1>8, RecordedType
<1>10. z \in Tcp
  <2>1. t.room - n \in Nat BY <1>1, <1>6
  <2>2. t.out \o Recorded(sent) \in Seq(Unit) BY <1>1, <1>9
  <2> QED BY <1>3, <1>7, <2>1, <2>2 DEF Tcp, TcpOf
<1>11. z.copy = t.copy /\ z.queue = rest /\ z.out = t.out \o Recorded(sent) BY <1>3 DEF Tcp, TcpOf
<1>12. Recorded(units) = Recorded(sent) \o Recorded(unsent) BY <1>8, RecordedConcat
<1>13. FlattenSeq(t.queue) \in Seq(Unit) /\ Recorded(message) \in Seq(Unit) BY <1>1, FlattenType, RecordedType
<1>14. Recorded(units) = Recorded(FlattenSeq(t.queue)) \o Recorded(message)
  BY <1>4, <1>13, RecordedConcat
<1>15. Recorded(FlattenSeq(t.queue)) \in Seq(Unit) BY <1>13, RecordedType
<1>16. StreamOf(z) = (t.out \o Recorded(sent)) \o Recorded(unsent) BY <1>7, <1>11 DEF StreamOf
<1>17. StreamOf(z) = t.out \o (Recorded(sent) \o Recorded(unsent))
  <2>1. PICK x \in Seq(Unit), y \in Seq(Unit), o \in Seq(Unit) :
            x = Recorded(sent) /\ y = Recorded(unsent) /\ o = t.out BY <1>1, <1>9
  <2>2. (o \o x) \o y = o \o (x \o y) OBVIOUS
  <2> QED BY <1>16, <2>1, <2>2
<1>18. t.out \o (Recorded(FlattenSeq(t.queue)) \o Recorded(message)) = StreamOf(t) \o Recorded(message)
  <2>1. PICK x \in Seq(Unit), y \in Seq(Unit), o \in Seq(Unit) :
            x = Recorded(FlattenSeq(t.queue)) /\ y = Recorded(message) /\ o = t.out BY <1>1, <1>13, <1>15
  <2>2. o \o (x \o y) = (o \o x) \o y OBVIOUS
  <2> QED BY <2>1, <2>2 DEF StreamOf
<1> QED BY <1>10, <1>11, <1>12, <1>14, <1>17, <1>18 DEF z

\* The front of the queue is sent in part, or whole.
LEMMA FlattenFirst ==
    ASSUME NEW q \in Seq(Seq(Unit)), q # <<>>
    PROVE  FlattenSeq(q) = Head(q) \o FlattenSeq(Tail(q))
<1>1. PICK m \in Seq(Unit), c \in Seq(Seq(Unit)) : m = Head(q) /\ c = Tail(q) /\ q = <<m>> \o c
  <2>1. Head(q) \in Seq(Unit) /\ Tail(q) \in Seq(Seq(Unit)) OBVIOUS
  <2>2. q = <<Head(q)>> \o Tail(q) OBVIOUS
  <2> QED BY <2>1, <2>2
<1> QED BY <1>1, FlattenPrepended

Same(out, first, rest, others) ==
    (out \o Recorded(first)) \o Recorded(rest \o others) = out \o Recorded((first \o rest) \o others)

LEMMA SameStream ==
    ASSUME NEW out \in Seq(Unit), NEW first \in Seq(Unit), NEW rest \in Seq(Unit), NEW others \in Seq(Unit)
    PROVE  Same(out, first, rest, others)
<1>1. first \o rest \in Seq(Unit) OBVIOUS
<1>2. Recorded(rest \o others) = Recorded(rest) \o Recorded(others) BY RecordedConcat
<1>3. Recorded((first \o rest) \o others) = Recorded(first \o rest) \o Recorded(others) BY <1>1, RecordedConcat
<1>4. Recorded(first \o rest) = Recorded(first) \o Recorded(rest) BY RecordedConcat
<1>5. PICK x \in Seq(Unit), y \in Seq(Unit), w \in Seq(Unit) :
          x = Recorded(first) /\ y = Recorded(rest) /\ w = Recorded(others)
  BY RecordedType
<1>6. (out \o x) \o (y \o w) = out \o ((x \o y) \o w)
  <2>1. y \o w \in Seq(Unit) OBVIOUS
  <2>2. PICK v \in Seq(Unit) : v = y \o w BY <2>1, Zenon
  <2>3. Regroups(out, x, v) BY JoinedRegroup
  <2>4. Regroups(x, y, w) BY JoinedRegroup
  <2> QED BY <2>2, <2>3, <2>4, Zenon DEF Regroups
<1> QED BY <1>2, <1>3, <1>4, <1>5, <1>6, Zenon DEF Same

LEMMA GiveKeeps ==
    ASSUME NEW t \in Tcp, t.queue # <<>>, t.copy = Head(t.queue), NEW n \in 0 .. Len(t.copy),
           NEW rest, rest = SubSeq(t.copy, n + 1, Len(t.copy)),
           NEW z, z.out = t.out \o Recorded(SubSeq(t.copy, 1, n)),
           z.queue = IF rest = <<>> THEN Tail(t.queue) ELSE <<rest>> \o Tail(t.queue)
    PROVE  /\ z.queue \in Seq(Seq(Unit)) /\ z.out \in Seq(Unit)
           /\ StreamOf(z) = StreamOf(t)
<1> DEFINE first == SubSeq(t.copy, 1, n)
           others == Tail(t.queue)
<1>1. t.queue \in Seq(Seq(Unit)) /\ t.out \in Seq(Unit) /\ t.copy \in Seq(Unit) BY TcpFields
<1>2. first \in Seq(Unit) /\ rest \in Seq(Unit) /\ t.copy = first \o rest
  <2> HIDE DEF first
  <2> QED BY <1>1, SplitStream DEF first
<1>3. others \in Seq(Seq(Unit)) BY <1>1
<1>4. FlattenSeq(t.queue) = t.copy \o FlattenSeq(others) BY <1>1, FlattenFirst
<1> HIDE DEF first, others
<1>5. FlattenSeq(others) \in Seq(Unit) BY <1>3, FlattenType
<1>6. z.queue \in Seq(Seq(Unit)) /\ FlattenSeq(z.queue) = rest \o FlattenSeq(others)
  <2>1. CASE rest = <<>>
    <3>1. z.queue = others BY <2>1 DEF others
    <3>2. <<>> \o FlattenSeq(others) = FlattenSeq(others) BY <1>5
    <3> QED BY <1>3, <2>1, <3>1, <3>2
  <2>2. CASE rest # <<>>
    <3> DEFINE q == <<rest>> \o others
    <3>1. z.queue = q BY <2>2 DEF others
    <3>2. q \in Seq(Seq(Unit)) /\ FlattenSeq(q) = rest \o FlattenSeq(others) BY <1>2, <1>3, FlattenPrepended
    <3> HIDE DEF q
    <3> QED BY <3>1, <3>2
  <2> QED BY <2>1, <2>2
<1>7. z.out = t.out \o Recorded(first) BY DEF first
<1>8. Recorded(first) \in Seq(Unit) BY <1>2, RecordedType
<1>9. z.out \in Seq(Unit)
  <2>1. PICK o \in Seq(Unit), x \in Seq(Unit) : o = t.out /\ x = Recorded(first) BY <1>1, <1>8
  <2>2. o \o x \in Seq(Unit) OBVIOUS
  <2> QED BY <1>7, <2>1, <2>2, Zenon
<1>10. StreamOf(z) = (t.out \o Recorded(first)) \o Recorded(rest \o FlattenSeq(others)) BY <1>6, <1>7 DEF StreamOf
<1>11. StreamOf(t) = t.out \o Recorded((first \o rest) \o FlattenSeq(others)) BY <1>2, <1>4 DEF StreamOf
<1>12. Same(t.out, first, rest, FlattenSeq(others)) BY <1>1, <1>2, <1>5, SameStream
<1>13. StreamOf(z) = StreamOf(t) BY <1>10, <1>11, <1>12 DEF Same
<1> QED BY <1>6, <1>9, <1>13

-----------------------------------------------------------------------------
\* Steps of which none sends what the poll thread has looked at.
Quiet(steps) == \E S : steps \in Seq(S) /\ \A step \in S : step.do # "give"

LEMMA QuietIn ==
    ASSUME NEW S, NEW steps \in Seq(S), \A step \in S : step.do # "give"
    PROVE  Quiet(steps)
BY Zenon DEF Quiet

LEMMA QuietNone == Quiet(<<>>)
<1> SUFFICES ASSUME NEW steps, steps = <<>> PROVE Quiet(steps) OBVIOUS
<1>1. PICK S : S = {} OBVIOUS
<1>2. steps \in Seq(S) BY <1>1
<1>3. \A step \in S : step.do # "give" BY <1>1
<1> QED BY <1>2, <1>3, QuietIn, Zenon

LEMMA QuietOne ==
    ASSUME NEW step, step.do # "give"
    PROVE  Quiet(<<step>>)
<1> SUFFICES ASSUME NEW steps, steps = <<step>> PROVE Quiet(steps) OBVIOUS
<1>1. PICK S : S = {step} OBVIOUS
<1>2. steps \in Seq(S) BY <1>1
<1>3. \A one \in S : one.do # "give" BY <1>1
<1> QED BY <1>2, <1>3, QuietIn, Zenon

LEMMA QuietJoined ==
    ASSUME NEW a, NEW b, Quiet(a), Quiet(b)
    PROVE  Quiet(a \o b)
<1>1. PICK S : a \in Seq(S) /\ \A step \in S : step.do # "give" BY DEF Quiet
<1>2. PICK R : b \in Seq(R) /\ \A step \in R : step.do # "give" BY DEF Quiet
<1> DEFINE U == S \cup R
<1>3. a \in Seq(U) /\ b \in Seq(U)
  <2>1. S \subseteq U /\ R \subseteq U OBVIOUS
  <2> HIDE DEF U
  <2> QED BY <1>1, <1>2, <2>1, SeqMonotonic
<1>4. \A step \in U : step.do # "give" BY <1>1, <1>2
<1> HIDE DEF U
<1>5. a \o b \in Seq(U) BY <1>3
<1> QED BY <1>4, <1>5, QuietIn, Zenon

LEMMA QuietTail ==
    ASSUME NEW a, Quiet(a), a # <<>>
    PROVE  Quiet(Tail(a)) /\ Head(a).do # "give"
<1>1. PICK S : a \in Seq(S) /\ \A step \in S : step.do # "give" BY DEF Quiet
<1>2. Tail(a) \in Seq(S) /\ Head(a) \in S BY <1>1
<1> QED BY <1>1, <1>2, QuietIn

LEMMA QuietLeft ==
    ASSUME NEW a, Quiet(a)
    PROVE  Quiet(Left(a))
<1> DEFINE more == {i \in DOMAIN a : a[i].do # "leave"}
           first == CHOOSE i \in more : \A j \in more : i <= j
<1>1. PICK S : a \in Seq(S) /\ \A step \in S : step.do # "give" BY DEF Quiet
<1>2. CASE more = {} BY <1>2, QuietNone DEF Left
<1>3. CASE more # {}
  <2>1. DOMAIN a = 1 .. Len(a) /\ Len(a) \in Nat BY <1>1
  <2>2. more \subseteq Nat /\ more \subseteq 1 .. Len(a) BY <2>1
  <2> HIDE DEF more
  <2>3. \E i \in more : \A j \in more : i <= j BY <1>3, <2>2, SmallestOf
  <2>4. first \in 1 .. Len(a) BY <2>2, <2>3
  <2>5. Left(a) = SubSeq(a, first, Len(a)) BY <1>3 DEF Left, more
  <2> HIDE DEF first
  <2>6. SubSeq(a, first, Len(a)) \in Seq(S) BY <1>1, <2>1, <2>4
  <2> QED BY <1>1, <2>5, <2>6, QuietIn
<1> QED BY <1>2, <1>3

LEMMA LeftOfStep ==
    ASSUME NEW S, NEW a \in Seq(S), NEW step, step.do # "leave"
    PROVE  Left(<<step>> \o a) = <<step>> \o a
<1> DEFINE b == <<step>> \o a
           more == {i \in DOMAIN b : b[i].do # "leave"}
           first == CHOOSE i \in more : \A j \in more : i <= j
<1>0. b \in Seq(S \cup {step})
  <2>1. <<step>> \in Seq(S \cup {step}) OBVIOUS
  <2>2. S \subseteq S \cup {step} OBVIOUS
  <2>3. a \in Seq(S \cup {step}) BY <2>2, SeqMonotonic
  <2> QED BY <2>1, <2>3
<1>1. Len(b) \in Nat /\ Len(b) >= 1 /\ b[1] = step /\ DOMAIN b = 1 .. Len(b) OBVIOUS
<1> HIDE DEF b
<1>2. 1 \in more /\ \A i \in more : 1 <= i BY <1>1
<1>3. more # {} /\ more \subseteq Nat BY <1>1, <1>2
<1> HIDE DEF more
<1>4. first = 1
  <2>1. first \in more /\ \A j \in more : first <= j BY <1>2
  <2> HIDE DEF first
  <2>2. first \in Nat /\ first <= 1 /\ 1 <= first BY <1>2, <1>3, <2>1
  <2> QED BY <2>2
<1>5. Left(b) = SubSeq(b, 1, Len(b)) BY <1>3, <1>4 DEF Left, more
<1>6. SubSeq(b, 1, Len(b)) = b BY <1>0, <1>1
<1> QED BY <1>5, <1>6 DEF b

-----------------------------------------------------------------------------
\* The units of the first k messages.
Expected(k) == [i \in 1 .. 2 * k |-> [message |-> (i + 1) \div 2, part |-> 2 - (i % 2)]]

AppTyped == "sent" \in DOMAIN app /\ app.sent \in Nat
RunTyped == /\ run = [t \in Threads |-> run[t]]
            /\ \A t \in Threads : run[t] # <<>> => Quiet(Tail(run[t]))
Typed == tcp \in Tcp /\ AppTyped /\ RunTyped

\* What the poll thread is sending is what the queue begins with.
HoldsFirst == Flushing => tcp.queue # <<>> /\ tcp.copy = Head(tcp.queue)
Complete == StreamOf(tcp) = Expected(app.sent)
StreamInv == Typed /\ (race \/ (HoldsFirst /\ Complete))

\* A step that neither sends nor begins to.
RunCalm == RunTyped' /\ (Flushing' => Flushing)
TcpCalm == tcp' \in Tcp /\ tcp'.queue = tcp.queue /\ tcp'.copy = tcp.copy /\ tcp'.out = tcp.out
AppCalm == AppTyped' /\ app'.sent = app.sent
Calm == RunCalm /\ TcpCalm /\ AppCalm

LEMMA CalmKeeps ==
    ASSUME StreamInv, ~race, Calm
    PROVE  StreamInv'
<1>1. Typed' BY DEF Calm, RunCalm, TcpCalm, AppCalm, Typed
<1>2. HoldsFirst' BY DEF Calm, RunCalm, TcpCalm, HoldsFirst, StreamInv
<1>3. Complete' BY DEF Calm, TcpCalm, AppCalm, Complete, StreamInv, StreamOf
<1> QED BY <1>1, <1>2, <1>3 DEF StreamInv

\* The queue and what was sent are the same.
Alike(t, z) == z.queue = t.queue /\ z.copy = t.copy /\ z.out = t.out
Updates(t, left, sock, poll, room, owner) ==
    {[t EXCEPT !.poll = poll],
     [t EXCEPT !.sock = sock],
     [t EXCEPT !.room = room],
     [t EXCEPT !.left = left],
     [t EXCEPT !.owner = owner],
     [t EXCEPT !.sock = sock, !.poll = poll],
     [t EXCEPT !.poll = poll, !.owner = owner],
     [t EXCEPT !.left = left, !.sock = sock, !.poll = poll]}

LEMMA UpdatesAlike ==
    ASSUME NEW Q, NEW U, NEW t \in TcpOf(Q, U), NEW left \in Nat, NEW sock \in Socks, NEW poll \in Polls, NEW room \in Nat, NEW owner \in Owners,
           NEW z \in Updates(t, left, sock, poll, room, owner)
    PROVE  z \in TcpOf(Q, U) /\ Alike(t, z)
<1>1. [t EXCEPT !.poll = poll] \in TcpOf(Q, U) /\ Alike(t, [t EXCEPT !.poll = poll]) BY DEF TcpOf, Alike
<1>2. [t EXCEPT !.sock = sock] \in TcpOf(Q, U) /\ Alike(t, [t EXCEPT !.sock = sock]) BY DEF TcpOf, Alike
<1>3. [t EXCEPT !.room = room] \in TcpOf(Q, U) /\ Alike(t, [t EXCEPT !.room = room]) BY DEF TcpOf, Alike
<1>4. [t EXCEPT !.left = left] \in TcpOf(Q, U) /\ Alike(t, [t EXCEPT !.left = left]) BY DEF TcpOf, Alike
<1>5. [t EXCEPT !.owner = owner] \in TcpOf(Q, U) /\ Alike(t, [t EXCEPT !.owner = owner]) BY DEF TcpOf, Alike
<1>6. [t EXCEPT !.sock = sock, !.poll = poll] \in TcpOf(Q, U) /\ Alike(t, [t EXCEPT !.sock = sock, !.poll = poll]) BY DEF TcpOf, Alike
<1>7. [t EXCEPT !.poll = poll, !.owner = owner] \in TcpOf(Q, U) /\ Alike(t, [t EXCEPT !.poll = poll, !.owner = owner]) BY DEF TcpOf, Alike
<1>8. [t EXCEPT !.left = left, !.sock = sock, !.poll = poll] \in TcpOf(Q, U) /\ Alike(t, [t EXCEPT !.left = left, !.sock = sock, !.poll = poll]) BY DEF TcpOf, Alike
<1> QED BY <1>1, <1>2, <1>3, <1>4, <1>5, <1>6, <1>7, <1>8 DEF Updates

LEMMA TcpUpdates ==
    ASSUME Typed, NEW left \in Nat, NEW sock \in Socks, NEW poll \in Polls, NEW room \in Nat, NEW owner \in Owners,
           tcp' \in Updates(tcp, left, sock, poll, room, owner)
    PROVE  TcpCalm
BY UpdatesAlike DEF Typed, Tcp, TcpCalm, Alike

LEMMA TcpSame ==
    ASSUME Typed, UNCHANGED tcp
    PROVE  TcpCalm
BY DEF Typed, TcpCalm

LEMMA AppSame ==
    ASSUME Typed, UNCHANGED app
    PROVE  AppCalm
BY DEF Typed, AppCalm, AppTyped

LEMMA RunSame ==
    ASSUME Typed, UNCHANGED run
    PROVE  RunCalm
BY DEF Typed, RunCalm, RunTyped, Flushing, At, This

LEMMA Changes ==
    ASSUME Typed, NEW t \in Threads, NEW steps, run' = [run EXCEPT ![t] = steps], Quiet(steps)
    PROVE  RunCalm
<1>1. DOMAIN run = Threads BY DEF Typed, RunTyped
<1>2. run' = [u \in Threads |-> run'[u]] BY <1>1
<1>3. run'[t] = steps /\ \A u \in Threads \ {t} : run'[u] = run[u] BY <1>1
<1>4. steps # <<>> => Quiet(Tail(steps)) /\ Head(steps).do # "give" BY QuietTail
<1>5. RunTyped' BY <1>2, <1>3, <1>4 DEF RunTyped, Typed
<1>6. Flushing' => Flushing
  <2>1. "poll" \in Threads BY DEF Threads
  <2>2. CASE t = "poll" BY <1>3, <1>4, <2>2 DEF Flushing, At, This
  <2>3. CASE t # "poll" BY <1>3, <2>1, <2>3 DEF Flushing, At, This
  <2> QED BY <2>2, <2>3
<1> QED BY <1>5, <1>6 DEF RunCalm

LEMMA GoesOnCalm ==
    ASSUME Typed, NEW t \in Threads, NEW steps, Quiet(steps), GoesOn(t, steps)
    PROVE  RunCalm
<1>1. Quiet(Left(steps)) BY QuietLeft
<1>2. run' = [run EXCEPT ![t] = Left(steps)] BY DEF GoesOn
<1> QED BY <1>1, <1>2, Changes

LEMMA QuietNext ==
    ASSUME Typed, NEW t \in Threads, run[t] # <<>>, NEW first, Quiet(first)
    PROVE  Quiet(first \o Tail(run[t]))
<1>1. Quiet(Tail(run[t])) BY DEF Typed, RunTyped
<1> QED BY <1>1, QuietJoined

LEMMA ContinueCalm ==
    ASSUME Typed, NEW t \in Threads, run[t] # <<>>, NEW first, Quiet(first), Continue(t, first)
    PROVE  RunCalm
<1>1. Quiet(first \o Tail(run[t])) BY QuietNext
<1>2. GoesOn(t, first \o Tail(run[t])) BY DEF Continue
<1> QED BY <1>1, <1>2, GoesOnCalm

LEMMA StartsCalm ==
    ASSUME Typed, NEW t \in Threads, NEW steps, Quiet(steps), Starts(t, steps)
    PROVE  RunCalm
BY Changes DEF Starts

LEMMA StepDoes ==
    /\ \A do, l, item : Step(do, l, item).do = do
    /\ \A do, l : On(do, l).do = do
    /\ \A do : Do(do).do = do
    /\ \A l, s : Enter(l, s).do = "enter"
    /\ \A l, kind : In(l, kind).do = "in"
BY DEF Step, On, Do, Enter, In

LEMMA QuietSteps ==
    /\ \A do, l, item : do # "give" => Quiet(<<Step(do, l, item)>>)
    /\ \A l, s : Quiet(<<Enter(l, s)>>)
    /\ \A l, kind : Quiet(<<In(l, kind)>>)
<1>1. ASSUME NEW do, NEW l, NEW item, do # "give" PROVE Quiet(<<Step(do, l, item)>>)
  <2>1. Step(do, l, item).do # "give" BY <1>1 DEF Step
  <2> QED BY <2>1, QuietOne, Zenon
<1>2. ASSUME NEW l, NEW s PROVE Quiet(<<Enter(l, s)>>)
  <2>1. Enter(l, s).do = "enter" BY StepDoes
  <2>2. "enter" # "give" OBVIOUS
  <2> QED BY <2>1, <2>2, QuietOne, Zenon
<1>3. ASSUME NEW l, NEW kind PROVE Quiet(<<In(l, kind)>>)
  <2>1. In(l, kind).do = "in" BY StepDoes
  <2>2. "in" # "give" OBVIOUS
  <2> QED BY <2>1, <2>2, QuietOne, Zenon
<1> QED BY <1>1, <1>2, <1>3, Zenon

LEMMA QuietTwo ==
    ASSUME NEW a, NEW b, a.do # "give", b.do # "give"
    PROVE  Quiet(<<a, b>>)
<1> SUFFICES ASSUME NEW steps, steps = <<a, b>> PROVE Quiet(steps) OBVIOUS
<1>1. PICK S : S = {a, b} OBVIOUS
<1>2. steps \in Seq(S) BY <1>1
<1>3. \A one \in S : one.do # "give" BY <1>1
<1> QED BY <1>2, <1>3, QuietIn, Zenon

LEMMA QuietThree ==
    ASSUME NEW a, NEW b, NEW c, a.do # "give", b.do # "give", c.do # "give"
    PROVE  Quiet(<<a, b, c>>)
<1> SUFFICES ASSUME NEW steps, steps = <<a, b, c>> PROVE Quiet(steps) OBVIOUS
<1>1. PICK S : S = {a, b, c} OBVIOUS
<1>2. steps \in Seq(S) BY <1>1
<1>3. \A one \in S : one.do # "give" BY <1>1
<1> QED BY <1>2, <1>3, QuietIn, Zenon

LEMMA QuietRemoteClose == Quiet(RemoteClose)
BY QuietTwo, StepDoes, SMTT(20) DEF RemoteClose

-----------------------------------------------------------------------------
LEMMA TellClosedCalm ==
    ASSUME Typed, NEW t \in Threads, TellClosed(t)
    PROVE  Calm
<1>1. run[t] # <<>> /\ Continue(t, <<>>) BY DEF TellClosed, At
<1>2. Quiet(<<>>) BY QuietNone
<1>3. AppCalm BY DEF TellClosed, Tell, Typed, AppTyped, AppCalm
<1>4. RunCalm BY <1>1, <1>2, ContinueCalm
<1>5. TcpCalm BY TcpSame DEF TellClosed, lower
<1> QED BY <1>3, <1>4, <1>5 DEF Calm

LEMMA TriggerOpenCalm ==
    ASSUME Typed, NEW t \in Threads, TriggerOpen(t)
    PROVE  Calm
<1>1. run[t] # <<>> /\ Continue(t, <<Do("deliver")>>) BY DEF TriggerOpen, At
<1>2. Quiet(<<Do("deliver")>>) BY QuietOne, StepDoes, SMTT(20)
<1>3. AppCalm BY DEF TriggerOpen, Tell, Typed, AppTyped, AppCalm
<1>4. RunCalm BY <1>1, <1>2, ContinueCalm
<1>5. TcpCalm BY TcpSame DEF TriggerOpen, lower
<1> QED BY <1>3, <1>4, <1>5 DEF Calm

LEMMA TellMessageCalm ==
    ASSUME Typed, NEW t \in Threads, TellMessage(t)
    PROVE  Calm
<1>1. run[t] # <<>> /\ Continue(t, <<>>) BY DEF TellMessage, At
<1>2. Quiet(<<>>) BY QuietNone
<1>3. AppCalm BY DEF TellMessage, Typed, AppTyped, AppCalm
<1>4. RunCalm BY <1>1, <1>2, ContinueCalm
<1>5. TcpCalm BY TcpSame DEF TellMessage, lower
<1> QED BY <1>3, <1>4, <1>5 DEF Calm

LEMMA DeliverCalm ==
    ASSUME Typed, NEW t \in Threads, Deliver(t)
    PROVE  Calm
<1>1. run[t] # <<>> BY DEF Deliver, At
<1>2. PICK first : Continue(t, first) /\ first \in {<<>>, <<Step("message", "", Head(app.received)), Do("deliver")>>}
  BY DEF Deliver
<1>3. ASSUME NEW item PROVE Quiet(<<Step("message", "", item), Do("deliver")>>)
  <2>1. Step("message", "", item).do # "give" /\ Do("deliver").do # "give" BY StepDoes
  <2> QED BY <2>1, QuietTwo, Zenon
<1>4. Quiet(first) BY <1>2, <1>3, QuietNone
<1>5. RunCalm BY <1>1, <1>2, <1>4, ContinueCalm
<1>6. AppCalm BY DEF Deliver, Typed, AppTyped, AppCalm
<1>7. TcpCalm BY TcpSame DEF Deliver, lower
<1> QED BY <1>5, <1>6, <1>7 DEF Calm

LEMMA SetCallbackCalm ==
    ASSUME Typed, NEW t \in Threads, SetCallback(t)
    PROVE  Calm
<1>1. run[t] # <<>> BY DEF SetCallback, At
<1>2. PICK first : Continue(t, first) /\ first \in {<<>>, <<Do("deliver")>>} BY DEF SetCallback
<1>3. Quiet(<<Do("deliver")>>) BY QuietOne, StepDoes, SMTT(20)
<1>4. Quiet(first) BY <1>2, <1>3, QuietNone
<1>5. RunCalm BY <1>1, <1>2, <1>4, ContinueCalm
<1>6. AppCalm BY DEF SetCallback, Typed, AppTyped, AppCalm
<1>7. TcpCalm BY TcpSame DEF SetCallback, lower
<1> QED BY <1>5, <1>6, <1>7 DEF Calm

LEMMA IncomingCalm ==
    ASSUME Typed, NEW t \in Threads, Incoming(t)
    PROVE  Calm
<1>1. run[t] # <<>> BY DEF Incoming, At
<1>2. PICK first : /\ Continue(t, first)
                   /\ first \in {<<>>, RemoteClose \o <<On("leave", "recv")>>, <<Do("deliver")>> \o <<On("leave", "recv")>>}
  BY DEF Incoming
<1>3. Quiet(<<Do("deliver")>>) /\ Quiet(<<On("leave", "recv")>>) BY QuietOne, StepDoes, SMTT(20)
<1>4. Quiet(first) BY <1>2, <1>3, QuietNone, QuietJoined, QuietRemoteClose
<1>5. RunCalm BY <1>1, <1>2, <1>4, ContinueCalm
<1>6. AppCalm BY DEF Incoming, Typed, AppTyped, AppCalm
<1>7. TcpCalm BY TcpSame DEF Incoming, lower
<1> QED BY <1>5, <1>6, <1>7 DEF Calm

LEMMA QuietReaction ==
    ASSUME NEW l, NEW s
    PROVE  Quiet(Reaction(l, s))
<1>1. Reaction(l, s) \in {<<On("init", Above(l))>>, <<Do("setOpen")>>, RemoteClose, <<>>} BY DEF Reaction
<1>2. Quiet(<<On("init", Above(l))>>) /\ Quiet(<<Do("setOpen")>>) BY QuietOne, StepDoes, SMTT(20)
<1> QED BY <1>1, <1>2, QuietNone, QuietRemoteClose

LEMMA CallCalm ==
    ASSUME Typed, NEW t \in Threads, Call(t)
    PROVE  Calm
<1> DEFINE l == This(t).at
<1>1. run[t] # <<>> BY DEF Call, At
<1>2. PICK first : /\ Continue(t, first)
                   /\ first \in {<<>>, Reaction(l, This(t).item.kind) \o <<On("leave", l)>>}
  BY DEF Call
<1>3. Quiet(<<On("leave", l)>>) BY QuietOne, StepDoes, SMTT(20)
<1>4. Quiet(first) BY <1>2, <1>3, QuietNone, QuietJoined, QuietReaction
<1>5. RunCalm BY <1>1, <1>2, <1>4, ContinueCalm
<1>6. AppCalm BY AppSame DEF Call
<1>7. TcpCalm BY TcpSame DEF Call, lower
<1> QED BY <1>5, <1>6, <1>7 DEF Calm

LEMMA SetOpenCalm ==
    ASSUME Typed, NEW t \in Threads, SetOpen(t)
    PROVE  Calm
<1>1. run[t] # <<>> BY DEF SetOpen, At
<1>2. PICK first : Continue(t, first) /\ first \in {<<>>, <<Do("triggerOpen")>>} BY DEF SetOpen
<1>3. Quiet(<<Do("triggerOpen")>>) BY QuietOne, StepDoes, SMTT(20)
<1>4. Quiet(first) BY <1>2, <1>3, QuietNone
<1>5. RunCalm BY <1>1, <1>2, <1>4, ContinueCalm
<1>6. AppCalm BY AppSame DEF SetOpen
<1>7. TcpCalm BY TcpSame DEF SetOpen, lower
<1> QED BY <1>5, <1>6, <1>7 DEF Calm

-----------------------------------------------------------------------------
LEMMA InitTransportCalm ==
    ASSUME Typed, NEW t \in Threads, NEW l, NEW callbacks, InitTransport(t, l, callbacks)
    PROVE  Calm
<1>1. run[t] # <<>> BY DEF InitTransport, At
<1>2. PICK first : Continue(t, first) /\ first \in {RemoteClose, <<On("store", l), On("start", l)>>}
  BY DEF InitTransport
<1>3. Quiet(<<On("store", l), On("start", l)>>)
  BY QuietOne, QuietTwo, QuietThree, StepDoes, SMTT(20)
<1>4. Quiet(first) BY <1>2, <1>3, QuietNone, QuietRemoteClose
<1>5. RunCalm BY <1>1, <1>2, <1>4, ContinueCalm
<1>6. AppCalm BY AppSame DEF InitTransport
<1>7. TcpCalm BY TcpSame DEF InitTransport, lower
<1> QED BY <1>5, <1>6, <1>7 DEF Calm

LEMMA StoreCalm ==
    ASSUME Typed, NEW t \in Threads, Store(t)
    PROVE  Calm
<1>1. run[t] # <<>> BY DEF Store, At
<1>2. PICK first : Continue(t, first) /\ first \in {<<>>}
  BY DEF Store
<1>4. Quiet(first) BY <1>2, QuietNone, QuietRemoteClose
<1>5. RunCalm BY <1>1, <1>2, <1>4, ContinueCalm
<1>6. AppCalm BY AppSame DEF Store
<1>7. TcpCalm BY TcpSame DEF Store, lower
<1> QED BY <1>5, <1>6, <1>7 DEF Calm

LEMMA StartTcpCalm ==
    ASSUME Typed, NEW t \in Threads, StartTcp(t)
    PROVE  Calm
<1>1. run[t] # <<>> BY DEF StartTcp, At
<1>2. PICK first : Continue(t, first) /\ first \in {<<Enter("tcp", "Connected"), Do("pollIn"), On("check", "tcp")>>}
  BY DEF StartTcp
<1>3. Quiet(<<Enter("tcp", "Connected"), Do("pollIn"), On("check", "tcp")>>)
  BY QuietOne, QuietTwo, QuietThree, StepDoes, SMTT(20)
<1>4. Quiet(first) BY <1>2, <1>3, QuietNone, QuietRemoteClose
<1>5. RunCalm BY <1>1, <1>2, <1>4, ContinueCalm
<1>6. AppCalm BY AppSame DEF StartTcp
<1>7. TcpCalm BY TcpSame DEF StartTcp, lower
<1> QED BY <1>5, <1>6, <1>7 DEF Calm

LEMMA ConnectCalm ==
    ASSUME Typed, NEW t \in Threads, Connect(t)
    PROVE  Calm
<1>1. run[t] # <<>> BY DEF Connect, At
<1>2. PICK first : Continue(t, first) /\ first \in {<<On("check", "tcp")>>}
  BY DEF Connect
<1>3. Quiet(<<On("check", "tcp")>>)
  BY QuietOne, QuietTwo, QuietThree, StepDoes, SMTT(20)
<1>4. Quiet(first) BY <1>2, <1>3, QuietNone, QuietRemoteClose
<1>5. RunCalm BY <1>1, <1>2, <1>4, ContinueCalm
<1>6. AppCalm BY AppSame DEF Connect
<1>7. TcpCalm BY TcpSame DEF Connect
<1> QED BY <1>5, <1>6, <1>7 DEF Calm

LEMMA StartTlsCalm ==
    ASSUME Typed, NEW t \in Threads, StartTls(t)
    PROVE  Calm
<1>1. run[t] # <<>> BY DEF StartTls, At
<1>2. PICK first : Continue(t, first) /\ first \in {<<On("check", "tls")>>}
  BY DEF StartTls
<1>3. Quiet(<<On("check", "tls")>>)
  BY QuietOne, QuietTwo, QuietThree, StepDoes, SMTT(20)
<1>4. Quiet(first) BY <1>2, <1>3, QuietNone, QuietRemoteClose
<1>5. RunCalm BY <1>1, <1>2, <1>4, ContinueCalm
<1>6. AppCalm BY AppSame DEF StartTls
<1>7. TcpCalm BY TcpSame DEF StartTls
<1> QED BY <1>5, <1>6, <1>7 DEF Calm

LEMMA CheckClosedCalm ==
    ASSUME Typed, NEW t \in Threads, CheckClosed(t)
    PROVE  Calm
<1>1. run[t] # <<>> BY DEF CheckClosed, At
<1>2. PICK first : Continue(t, first) /\ first \in {<<>>, <<On("drop", This(t).at)>>}
  BY DEF CheckClosed
<1>3. Quiet(<<On("drop", This(t).at)>>)
  BY QuietOne, QuietTwo, QuietThree, StepDoes, SMTT(20)
<1>4. Quiet(first) BY <1>2, <1>3, QuietNone, QuietRemoteClose
<1>5. RunCalm BY <1>1, <1>2, <1>4, ContinueCalm
<1>6. AppCalm BY AppSame DEF CheckClosed
<1>7. TcpCalm BY TcpSame DEF CheckClosed, lower
<1> QED BY <1>5, <1>6, <1>7 DEF Calm

LEMMA ClosedCalm ==
    ASSUME Typed, tcp' = ClosedSocket
    PROVE  TcpCalm
<1>1. tcp' \in Updates(tcp, 0, "none", "none", 0, Nobody) BY DEF ClosedSocket, Updates
<1> QED BY <1>1, TcpUpdates DEF Socks, Polls, Owners

LEMMA DropCalm ==
    ASSUME Typed, NEW t \in Threads, Drop(t)
    PROVE  Calm
<1>1. run[t] # <<>> /\ Continue(t, <<>>) BY DEF Drop, At
<1>2. RunCalm BY <1>1, QuietNone, ContinueCalm
<1>3. tcp' = ClosedSocket \/ UNCHANGED tcp BY DEF Drop
<1>4. TcpCalm BY <1>3, TcpSame, ClosedCalm
<1>5. AppCalm BY AppSame DEF Drop
<1> QED BY <1>2, <1>4, <1>5 DEF Calm

LEMMA BeginCloseCalm ==
    ASSUME Typed, NEW t \in Threads, BeginClose(t)
    PROVE  Calm
<1>1. run[t] # <<>> BY DEF BeginClose, At
<1>2. PICK first : Continue(t, first) /\ first \in {<<>>, <<Do("closing")>>}
  BY DEF BeginClose
<1>3. Quiet(<<Do("closing")>>)
  BY QuietOne, QuietTwo, QuietThree, StepDoes, SMTT(20)
<1>4. Quiet(first) BY <1>2, <1>3, QuietNone, QuietRemoteClose
<1>5. RunCalm BY <1>1, <1>2, <1>4, ContinueCalm
<1>6. AppCalm BY AppSame DEF BeginClose
<1>7. TcpCalm BY TcpSame DEF BeginClose, lower
<1> QED BY <1>5, <1>6, <1>7 DEF Calm

LEMMA ChangeToClosingCalm ==
    ASSUME Typed, NEW t \in Threads, ChangeToClosing(t)
    PROVE  Calm
<1>1. run[t] # <<>> BY DEF ChangeToClosing, At
<1>2. PICK first : Continue(t, first) /\ first \in {RemoteClose, <<Do("closeWs")>>}
  BY DEF ChangeToClosing
<1>3. Quiet(<<Do("closeWs")>>)
  BY QuietOne, QuietTwo, QuietThree, StepDoes, SMTT(20)
<1>4. Quiet(first) BY <1>2, <1>3, QuietNone, QuietRemoteClose
<1>5. RunCalm BY <1>1, <1>2, <1>4, ContinueCalm
<1>6. AppCalm BY AppSame DEF ChangeToClosing
<1>7. TcpCalm BY TcpSame DEF ChangeToClosing, lower
<1> QED BY <1>5, <1>6, <1>7 DEF Calm

LEMMA CloseTransportsCalm ==
    ASSUME Typed, NEW t \in Threads, CloseTransports(t)
    PROVE  Calm
<1>1. run[t] # <<>> BY DEF CloseTransports, At
<1>2. PICK first : Continue(t, first) /\ first \in {<<>>, <<Do("mute"), Do("tellClosed")>>}
  BY DEF CloseTransports
<1>3. Quiet(<<Do("mute"), Do("tellClosed")>>)
  BY QuietOne, QuietTwo, QuietThree, StepDoes, SMTT(20)
<1>4. Quiet(first) BY <1>2, <1>3, QuietNone, QuietRemoteClose
<1>5. RunCalm BY <1>1, <1>2, <1>4, ContinueCalm
<1>6. AppCalm BY AppSame DEF CloseTransports
<1>7. TcpCalm BY TcpSame DEF CloseTransports
<1> QED BY <1>5, <1>6, <1>7 DEF Calm

LEMMA MuteCalm ==
    ASSUME Typed, NEW t \in Threads, Mute(t)
    PROVE  Calm
<1>1. run[t] # <<>> BY DEF Mute, At
<1>2. PICK first : Continue(t, first) /\ first \in {<<>>}
  BY DEF Mute
<1>4. Quiet(first) BY <1>2, QuietNone, QuietRemoteClose
<1>5. RunCalm BY <1>1, <1>2, <1>4, ContinueCalm
<1>6. AppCalm BY AppSame DEF Mute
<1>7. TcpCalm BY TcpSame DEF Mute
<1> QED BY <1>5, <1>6, <1>7 DEF Calm

LEMMA PollInCalm ==
    ASSUME Typed, NEW t \in Threads, PollIn(t)
    PROVE  Calm
<1>1. run[t] # <<>> BY DEF PollIn, At
<1>2. PICK first : Continue(t, first) /\ first \in {<<>>}
  BY DEF PollIn
<1>4. Quiet(first) BY <1>2, QuietNone, QuietRemoteClose
<1>5. RunCalm BY <1>1, <1>2, <1>4, ContinueCalm
<1>6. AppCalm BY AppSame DEF PollIn
<1>7. TcpCalm
  <2>1. tcp' \in Updates(tcp, 0, "none", "in", 0, Nobody) BY DEF PollIn, Updates
  <2> QED BY <2>1, TcpUpdates DEF Socks, Polls, Owners
<1> QED BY <1>5, <1>6, <1>7 DEF Calm

LEMMA SetPollCalm ==
    ASSUME Typed, NEW t \in Threads, SetPoll(t)
    PROVE  Calm
<1>1. run[t] # <<>> BY DEF SetPoll, At
<1>2. PICK first : Continue(t, first) /\ first \in {<<>>}
  BY DEF SetPoll
<1>4. Quiet(first) BY <1>2, QuietNone, QuietRemoteClose
<1>5. RunCalm BY <1>1, <1>2, <1>4, ContinueCalm
<1>6. AppCalm BY AppSame DEF SetPoll
<1>7. TcpCalm
  <2>1. tcp' \in Updates(tcp, 0, "none", "both", 0, Nobody) BY DEF SetPoll, Updates
  <2> QED BY <2>1, TcpUpdates DEF Socks, Polls, Owners
<1> QED BY <1>5, <1>6, <1>7 DEF Calm

LEMMA QueuedCalm ==
    ASSUME Typed, NEW t \in Threads, Queued(t)
    PROVE  Calm
<1>1. run[t] # <<>> BY DEF Queued, At
<1>2. PICK first : Continue(t, first) /\ first \in {<<>>}
  BY DEF Queued
<1>4. Quiet(first) BY <1>2, QuietNone, QuietRemoteClose
<1>5. RunCalm BY <1>1, <1>2, <1>4, ContinueCalm
<1>6. AppCalm BY AppSame DEF Queued
<1>7. TcpCalm BY TcpSame DEF Queued
<1> QED BY <1>5, <1>6, <1>7 DEF Calm

LEMMA WsDownCalm ==
    ASSUME Typed, NEW t \in Threads, WsDown(t)
    PROVE  Calm
<1>1. run[t] # <<>> BY DEF WsDown, At
<1>2. PICK first : Continue(t, first) /\ first \in {<<>>, <<Enter("ws", "Disconnected")>> \o <<>>}
  BY DEF WsDown, ChangeLayer
<1>3. Quiet(<<Enter("ws", "Disconnected")>>) BY QuietOne, StepDoes, SMTT(20)
<1>4. Quiet(first) BY <1>2, <1>3, QuietNone, QuietJoined
<1>5. RunCalm BY <1>1, <1>2, <1>4, ContinueCalm
<1>6. AppCalm BY AppSame DEF WsDown
<1>7. TcpCalm BY TcpSame DEF WsDown, lower
<1> QED BY <1>5, <1>6, <1>7 DEF Calm

-----------------------------------------------------------------------------
LEMMA StreamType ==
    ASSUME NEW t \in Tcp
    PROVE  StreamOf(t) \in Seq(Unit)
<1>1. t.out \in Seq(Unit) /\ t.queue \in Seq(Seq(Unit)) BY TcpFields
<1>2. FlattenSeq(t.queue) \in Seq(Unit) BY <1>1, FlattenType
<1>3. Recorded(FlattenSeq(t.queue)) \in Seq(Unit) BY <1>2, RecordedType
<1>4. PICK x \in Seq(Unit), y \in Seq(Unit) : x = t.out /\ y = Recorded(FlattenSeq(t.queue)) BY <1>1, <1>3
<1>5. x \o y \in Seq(Unit) OBVIOUS
<1> QED BY <1>4, <1>5, Zenon DEF StreamOf

LEMMA RecordedControl == Control \in Seq(Unit) /\ Recorded(Control) = <<>>
<1> DEFINE u == [message |-> 0, part |-> 1]
<1>1. u \in Unit /\ u.message = 0 BY DEF Unit
<1>2. <<>> \in Seq(Unit) OBVIOUS
<1>3. Control = Append(<<>>, u) BY DEF Control
<1> HIDE DEF u
<1>4. Append(<<>>, u) \in Seq(Unit) BY <1>1, <1>2, AppendProperties
<1>5. Recorded(Append(<<>>, u)) = Recorded(<<>>) BY <1>1, <1>2, RecordedAppend
<1> QED BY <1>3, <1>4, <1>5, RecordedEmpty

LEMMA RecordedMessage ==
    ASSUME NEW m \in Nat \ {0}
    PROVE  Message(m) \in Seq(Unit) /\ Recorded(Message(m)) = Message(m)
<1> DEFINE u == [message |-> m, part |-> 1]
           w == [message |-> m, part |-> 2]
<1>1. u \in Unit /\ u.message # 0 /\ w \in Unit /\ w.message # 0 BY DEF Unit
<1>2. <<>> \in Seq(Unit) OBVIOUS
<1>3. Message(m) = Append(Append(<<>>, u), w) BY DEF Message
<1> HIDE DEF u, w
<1>4. Append(<<>>, u) \in Seq(Unit) BY <1>1, <1>2, AppendProperties
<1>5. Recorded(Append(<<>>, u)) = Append(<<>>, u) BY <1>1, <1>2, RecordedAppend, RecordedEmpty
<1>6. Recorded(Append(Append(<<>>, u), w)) = Append(Append(<<>>, u), w) BY <1>1, <1>4, <1>5, RecordedAppend
<1>7. Append(Append(<<>>, u), w) \in Seq(Unit) BY <1>1, <1>4, AppendProperties
<1> QED BY <1>3, <1>6, <1>7

LEMMA ExpectedNext ==
    ASSUME NEW k \in Nat
    PROVE  Expected(k + 1) = Expected(k) \o Message(k + 1)
<1> DEFINE a == Expected(k)
           b == Message(k + 1)
           c == Expected(k + 1)
<1>1. a \in Seq(Unit)
  <2>1. \A i \in 1 .. 2 * k : [message |-> (i + 1) \div 2, part |-> 2 - (i % 2)] \in Unit BY DEF Unit
  <2>2. 2 * k \in Nat OBVIOUS
  <2> QED BY <2>1, <2>2 DEF Expected
<1>2. b \in Seq(Unit) BY RecordedMessage
<1>3. Len(a) = 2 * k /\ \A i \in 1 .. 2 * k : a[i] = [message |-> (i + 1) \div 2, part |-> 2 - (i % 2)] BY DEF Expected
<1>4. Len(b) = 2 /\ b[1] = [message |-> k + 1, part |-> 1] /\ b[2] = [message |-> k + 1, part |-> 2] BY DEF Message
<1> HIDE DEF a, b
<1> DEFINE j == a \o b
<1>5. /\ j \in Seq(Unit) /\ Len(j) = Len(a) + Len(b)
      /\ \A i \in 1 .. Len(a) : j[i] = a[i]
      /\ \A i \in 1 .. Len(b) : j[Len(a) + i] = b[i]
  BY <1>1, <1>2, JoinedSeq
<1> HIDE DEF j
<1>6. j = [i \in 1 .. 2 * k + 2 |-> j[i]]
  <2>1. Len(j) = 2 * k + 2 BY <1>3, <1>4, <1>5
  <2> QED BY <2>1, <1>5
<1>7. ASSUME NEW i \in 1 .. 2 * k + 2
      PROVE  j[i] = [message |-> (i + 1) \div 2, part |-> 2 - (i % 2)]
  <2>1. CASE i \in 1 .. 2 * k BY <2>1, <1>3, <1>5
  <2>2. CASE i = 2 * k + 1
    <3>1. j[i] = b[1] BY <2>2, <1>3, <1>4, <1>5
    <3>2. (i + 1) \div 2 = k + 1 /\ i % 2 = 1 BY <2>2
    <3> QED BY <3>1, <3>2, <1>4
  <2>3. CASE i = 2 * k + 2
    <3>1. j[i] = b[2] BY <2>3, <1>3, <1>4, <1>5
    <3>2. (i + 1) \div 2 = k + 1 /\ i % 2 = 0 BY <2>3
    <3> QED BY <3>1, <3>2, <1>4
  <2> QED BY <2>1, <2>2, <2>3
<1>8. c = [i \in 1 .. 2 * k + 2 |-> [message |-> (i + 1) \div 2, part |-> 2 - (i % 2)]]
  <2>1. 2 * (k + 1) = 2 * k + 2 OBVIOUS
  <2> QED BY <2>1, Zenon DEF Expected
<1> HIDE DEF c
<1>9. j = c BY <1>6, <1>7, <1>8
<1> QED BY <1>9 DEF a, b, c, j

LEMMA SendEffect ==
    ASSUME Typed, NEW t \in Threads, NEW message \in Seq(Unit), NEW steps, Quiet(steps), Send(t, message, steps)
    PROVE  /\ RunCalm
           /\ tcp' \in Tcp
           /\ StreamOf(tcp') = StreamOf(tcp) \o Recorded(message)
           /\ race' = Flushing
<1> DEFINE next == Sent(tcp, message)
<1>1. tcp \in Tcp BY DEF Typed
<1>2. next \in Tcp /\ StreamOf(next) = StreamOf(tcp) \o Recorded(message) BY <1>1, SentKeeps
<1>3. \/ tcp' = next /\ GoesOn(t, steps)
      \/ tcp' = [next EXCEPT !.poll = "both"] /\ GoesOn(t, steps)
      \/ tcp' = [next EXCEPT !.owner = t] /\ GoesOn(t, <<Do("setPoll")>> \o steps)
  BY DEF Send
<1>4. race' = Flushing BY DEF Send
<1>5. RunCalm
  <2>1. Quiet(<<Do("setPoll")>>) BY QuietOne, StepDoes, SMTT(20)
  <2>2. Quiet(<<Do("setPoll")>> \o steps) BY <2>1, QuietJoined
  <2>3. GoesOn(t, steps) \/ GoesOn(t, <<Do("setPoll")>> \o steps) BY <1>3
  <2> QED BY <2>2, <2>3, GoesOnCalm
<1> HIDE DEF next
<1>6. tcp' \in Tcp /\ Alike(next, tcp')
  <2>1. tcp' = next \/ tcp' \in Updates(next, 0, "none", "both", 0, t) BY <1>3 DEF Updates
  <2>2. next \in TcpOf(Seq(Seq(Unit)), Seq(Unit)) BY <1>2 DEF Tcp
  <2>3. 0 \in Nat /\ "none" \in Socks /\ "both" \in Polls /\ t \in Owners BY DEF Socks, Polls, Owners
  <2>4. CASE tcp' = next BY <2>4, <1>2 DEF Alike
  <2>5. CASE tcp' \in Updates(next, 0, "none", "both", 0, t)
    <3>1. tcp' \in TcpOf(Seq(Seq(Unit)), Seq(Unit)) /\ Alike(next, tcp') BY <2>2, <2>3, <2>5, UpdatesAlike
    <3> QED BY <3>1 DEF Tcp
  <2> QED BY <2>1, <2>4, <2>5
<1>7. StreamOf(tcp') = StreamOf(next) BY <1>6 DEF StreamOf, Alike
<1> QED BY <1>2, <1>4, <1>5, <1>6, <1>7

\* Frames that are not messages.
LEMMA ControlKeeps ==
    ASSUME StreamInv, ~race, NEW t \in Threads, NEW steps, Quiet(steps), Send(t, Control, steps), AppCalm
    PROVE  StreamInv'
<1>1. Typed /\ HoldsFirst /\ Complete BY DEF StreamInv
<1>2. /\ RunCalm /\ tcp' \in Tcp /\ race' = Flushing
      /\ StreamOf(tcp') = StreamOf(tcp) \o Recorded(Control)
  BY <1>1, RecordedControl, SendEffect
<1>3. StreamOf(tcp) \in Seq(Unit) BY <1>1, StreamType DEF Typed
<1>4. StreamOf(tcp) \o <<>> = StreamOf(tcp) BY <1>3
<1>5. Complete' BY <1>1, <1>2, <1>4, RecordedControl DEF Complete, AppCalm
<1>6. race' \/ HoldsFirst' BY <1>2 DEF RunCalm, HoldsFirst
<1>7. Typed' BY <1>2 DEF RunCalm, AppCalm, Typed
<1> QED BY <1>5, <1>6, <1>7 DEF StreamInv

-----------------------------------------------------------------------------
LEMMA HandshakeEndsCalm ==
    ASSUME Typed, NEW t \in Threads, NEW l, HandshakeEnds(t, l)
    PROVE  Calm
<1>1. run[t] # <<>> BY DEF HandshakeEnds, ChangeLayer, Looks, At
<1>2. PICK first : Continue(t, first) /\ first \in {<<Enter(l, "Connected")>> \o <<>>}
  BY DEF HandshakeEnds, ChangeLayer, Looks
<1>3. Quiet(<<Enter(l, "Connected")>>)
  BY QuietOne, QuietTwo, QuietThree, StepDoes, SMTT(20)
<1>4. Quiet(first) BY <1>2, <1>3, QuietNone, QuietJoined, QuietRemoteClose
<1>5. RunCalm BY <1>1, <1>2, <1>4, ContinueCalm
<1>6. AppCalm BY AppSame DEF HandshakeEnds
<1>7. TcpCalm BY TcpSame DEF HandshakeEnds, lower
<1> QED BY <1>5, <1>6, <1>7 DEF Calm

LEMMA HandshakeFailsCalm ==
    ASSUME Typed, NEW t \in Threads, NEW l, HandshakeFails(t, l)
    PROVE  Calm
<1>1. run[t] # <<>> BY DEF HandshakeFails, ChangeLayer, Looks, At
<1>2. PICK first : Continue(t, first) /\ first \in {<<Enter(l, "Failed")>> \o <<>>}
  BY DEF HandshakeFails, ChangeLayer, Looks
<1>3. Quiet(<<Enter(l, "Failed")>>)
  BY QuietOne, QuietTwo, QuietThree, StepDoes, SMTT(20)
<1>4. Quiet(first) BY <1>2, <1>3, QuietNone, QuietJoined, QuietRemoteClose
<1>5. RunCalm BY <1>1, <1>2, <1>4, ContinueCalm
<1>6. AppCalm BY AppSame DEF HandshakeFails
<1>7. TcpCalm BY TcpSame DEF HandshakeFails, lower
<1> QED BY <1>5, <1>6, <1>7 DEF Calm

LEMMA EndPassesCalm ==
    ASSUME Typed, NEW t \in Threads, NEW l, EndPasses(t, l)
    PROVE  Calm
<1>1. run[t] # <<>> BY DEF EndPasses, ChangeLayer, Looks, At
<1>2. PICK first : Continue(t, first) /\ first \in {<<Enter(l, "Disconnected")>> \o <<Step("up", "", Item("end", 0))>>, <<Enter(l, "Disconnected")>> \o <<In(Above(l), "end")>>}
  BY DEF EndPasses, ChangeLayer, Looks
<1>3. /\ Quiet(<<Enter(l, "Disconnected")>>) /\ Quiet(<<In(Above(l), "end")>>)
      /\ \A item : Quiet(<<Step("up", "", item)>>)
  <2>1. "up" # "give" OBVIOUS
  <2> QED BY <2>1, QuietSteps, Zenon
<1>4. Quiet(first) BY <1>2, <1>3, QuietNone, QuietJoined, QuietRemoteClose
<1>5. RunCalm BY <1>1, <1>2, <1>4, ContinueCalm
<1>6. AppCalm BY AppSame DEF EndPasses
<1>7. TcpCalm BY TcpSame DEF EndPasses, lower
<1> QED BY <1>5, <1>6, <1>7 DEF Calm

LEMMA PassesCalm ==
    ASSUME Typed, NEW t \in Threads, NEW l, Passes(t, l)
    PROVE  Calm
<1>1. run[t] # <<>> BY DEF Passes, Looks, At
<1>2. PICK first : Continue(t, first) /\ first \in {<<>>, <<Step("in", Above(l), This(t).item)>>}
  BY DEF Passes, Looks
<1>3. Quiet(<<Step("in", Above(l), This(t).item)>>)
  BY QuietOne, QuietTwo, QuietThree, StepDoes, SMTT(20)
<1>4. Quiet(first) BY <1>2, <1>3, QuietNone, QuietJoined, QuietRemoteClose
<1>5. RunCalm BY <1>1, <1>2, <1>4, ContinueCalm
<1>6. AppCalm BY AppSame DEF Passes
<1>7. TcpCalm BY TcpSame DEF Passes, lower
<1> QED BY <1>5, <1>6, <1>7 DEF Calm

LEMMA CannotReplyCalm ==
    ASSUME Typed, NEW t \in Threads, CannotReply(t)
    PROVE  Calm
<1>1. run[t] # <<>> BY DEF CannotReply, ChangeLayer, Frame, Looks, At
<1>2. PICK first : Continue(t, first) /\ first \in {<<Enter("ws", "Disconnected")>> \o <<Step("up", "", Item("end", 0))>>}
  BY DEF CannotReply, ChangeLayer, Frame, Looks
<1>3. Quiet(<<Enter("ws", "Disconnected")>>) /\ \A item : Quiet(<<Step("up", "", item)>>)
  <2>1. "up" # "give" OBVIOUS
  <2> QED BY <2>1, QuietSteps, Zenon
<1>4. Quiet(first) BY <1>2, <1>3, QuietNone, QuietJoined, QuietRemoteClose
<1>5. RunCalm BY <1>1, <1>2, <1>4, ContinueCalm
<1>6. AppCalm BY AppSame DEF CannotReply
<1>7. TcpCalm BY TcpSame DEF CannotReply, lower
<1> QED BY <1>5, <1>6, <1>7 DEF Calm

LEMMA PongArrivesCalm ==
    ASSUME Typed, NEW t \in Threads, PongArrives(t)
    PROVE  Calm
<1>1. run[t] # <<>> BY DEF PongArrives, Frame, Looks, At
<1>2. PICK first : Continue(t, first) /\ first \in {<<>>}
  BY DEF PongArrives, Frame, Looks
<1>4. Quiet(first) BY <1>2, QuietNone, QuietJoined, QuietRemoteClose
<1>5. RunCalm BY <1>1, <1>2, <1>4, ContinueCalm
<1>6. AppCalm BY AppSame DEF PongArrives
<1>7. TcpCalm BY TcpSame DEF PongArrives, lower
<1> QED BY <1>5, <1>6, <1>7 DEF Calm

LEMMA CloseFrameCalm ==
    ASSUME Typed, NEW t \in Threads, CloseFrame(t)
    PROVE  Calm
<1>1. run[t] # <<>> BY DEF CloseFrame, Frame, Looks, At
<1>2. PICK first : Continue(t, first) /\ first \in {<<Do("closeWs"), Do("wsDown")>>, <<Do("closeWs")>>}
  BY DEF CloseFrame, Frame, Looks
<1>3. Quiet(<<Do("closeWs"), Do("wsDown")>>) /\ Quiet(<<Do("closeWs")>>)
  BY QuietOne, QuietTwo, QuietThree, StepDoes, SMTT(20)
<1>4. Quiet(first) BY <1>2, <1>3, QuietNone, QuietJoined, QuietRemoteClose
<1>5. RunCalm BY <1>1, <1>2, <1>4, ContinueCalm
<1>6. AppCalm BY AppSame DEF CloseFrame
<1>7. TcpCalm BY TcpSame DEF CloseFrame, lower
<1> QED BY <1>5, <1>6, <1>7 DEF Calm

LEMMA DataFrameCalm ==
    ASSUME Typed, NEW t \in Threads, DataFrame(t)
    PROVE  Calm
<1>1. run[t] # <<>> BY DEF DataFrame, Frame, Looks, At
<1>2. PICK item, first : Continue(t, first) /\ first \in {<<>>, <<Step("up", "", item)>>} BY DEF DataFrame
<1>3. Quiet(<<Step("up", "", item)>>)
  <2>1. "up" # "give" OBVIOUS
  <2> QED BY <2>1, QuietSteps, Zenon
<1>4. Quiet(first) BY <1>2, <1>3, QuietNone
<1>5. RunCalm BY <1>1, <1>2, <1>4, ContinueCalm
<1>6. AppCalm BY AppSame DEF DataFrame
<1>7. TcpCalm BY TcpSame DEF DataFrame, lower
<1> QED BY <1>5, <1>6, <1>7 DEF Calm

LEMMA ReceivesCalm ==
    ASSUME Typed, NEW t \in Threads, NEW l, Receives(t, l)
    PROVE  Calm
BY HandshakeEndsCalm, HandshakeFailsCalm, EndPassesCalm, PassesCalm DEF Receives

\* Handlers that send, and may fail to.
LEMMA StartWithRequestKeeps ==
    ASSUME StreamInv, ~race, NEW t \in Threads, NEW l, StartWithRequest(t, l)
    PROVE  StreamInv'
<1>1. Typed BY DEF StreamInv
<1>2. run[t] # <<>> /\ AppCalm BY <1>1, AppSame DEF StartWithRequest, At
<1>3. Quiet(<<On("check", l)>>) BY QuietOne, StepDoes, SMTT(20)
<1>4. CASE Send(t, Control, <<On("check", l)>> \o Tail(run[t]))
  <2>1. Quiet(<<On("check", l)>> \o Tail(run[t])) BY <1>1, <1>2, <1>3, QuietNext
  <2> QED BY <1>2, <1>4, <2>1, ControlKeeps
<1>5. CASE UNCHANGED tcp /\ \E first \in {<<On("check", l)>>, RemoteClose} : Continue(t, first)
  <2>1. PICK first \in {<<On("check", l)>>, RemoteClose} : Continue(t, first) BY <1>5
  <2>2. Quiet(first) BY <1>3, QuietRemoteClose
  <2>3. RunCalm BY <1>1, <1>2, <2>1, <2>2, ContinueCalm
  <2>4. TcpCalm BY <1>1, <1>5, TcpSame
  <2> QED BY <1>2, <2>3, <2>4, CalmKeeps DEF Calm
<1> QED BY <1>4, <1>5 DEF StartWithRequest

LEMMA PingKeeps ==
    ASSUME StreamInv, ~race, NEW t \in Threads, Ping(t)
    PROVE  StreamInv'
<1>1. Typed BY DEF StreamInv
<1>2. run[t] # <<>> /\ AppCalm BY <1>1, AppSame DEF Ping, Frame, Looks, At
<1>3. Quiet(<<Enter("ws", "Failed")>>) BY QuietOne, StepDoes, SMTT(20)
<1>4. Quiet(<<Enter("ws", "Failed")>> \o Tail(run[t])) BY <1>1, <1>2, <1>3, QuietNext
<1>5. Quiet(Tail(run[t])) BY <1>1, <1>2 DEF Typed, RunTyped
<1>6. Send(t, Control, <<Enter("ws", "Failed")>> \o Tail(run[t])) \/ Send(t, Control, Tail(run[t])) BY DEF Ping
<1> QED BY <1>2, <1>4, <1>5, <1>6, ControlKeeps

LEMMA PongKeeps ==
    ASSUME StreamInv, ~race, NEW t \in Threads, Pong(t)
    PROVE  StreamInv'
<1>1. Typed BY DEF StreamInv
<1>2. run[t] # <<>> /\ AppCalm BY <1>1, AppSame DEF Pong, Frame, Looks, At
<1>3. Quiet(Tail(run[t])) BY <1>1, <1>2 DEF Typed, RunTyped
<1>4. Send(t, Control, Tail(run[t])) BY DEF Pong
<1> QED BY <1>2, <1>3, <1>4, ControlKeeps

LEMMA RequestArrivesKeeps ==
    ASSUME StreamInv, ~race, NEW t \in Threads, RequestArrives(t)
    PROVE  StreamInv'
<1>1. Typed BY DEF StreamInv
<1>2. run[t] # <<>> /\ AppCalm BY <1>1, AppSame DEF RequestArrives, Looks, At
<1>3. PICK s : \/ Send(t, Control, <<Enter("ws", s)>> \o Tail(run[t]))
               \/ Continue(t, <<Enter("ws", s)>>) /\ UNCHANGED tcp
  BY DEF RequestArrives
<1>4. Quiet(<<Enter("ws", s)>>) BY QuietOne, StepDoes, SMTT(20)
<1>5. CASE Send(t, Control, <<Enter("ws", s)>> \o Tail(run[t]))
  <2>1. Quiet(<<Enter("ws", s)>> \o Tail(run[t])) BY <1>1, <1>2, <1>4, QuietNext
  <2> QED BY <1>2, <1>5, <2>1, ControlKeeps
<1>6. CASE Continue(t, <<Enter("ws", s)>>) /\ UNCHANGED tcp
  <2>1. RunCalm BY <1>1, <1>2, <1>4, <1>6, ContinueCalm
  <2>2. TcpCalm BY <1>1, <1>6, TcpSame
  <2> QED BY <1>2, <2>1, <2>2, CalmKeeps DEF Calm
<1> QED BY <1>3, <1>5, <1>6

LEMMA CloseWsKeeps ==
    ASSUME StreamInv, ~race, NEW t \in Threads, CloseWs(t)
    PROVE  StreamInv'
<1>1. Typed BY DEF StreamInv
<1>2. run[t] # <<>> /\ AppCalm BY <1>1, AppSame DEF CloseWs, At
<1>3. CASE Send(t, Control, Tail(run[t]))
  <2>1. Quiet(Tail(run[t])) BY <1>1, <1>2 DEF Typed, RunTyped
  <2> QED BY <1>2, <1>3, <2>1, ControlKeeps
<1>4. CASE UNCHANGED tcp /\ \E first \in {<<>>, <<Do("wsDown")>>} : Continue(t, first)
  <2>1. PICK first \in {<<>>, <<Do("wsDown")>>} : Continue(t, first) BY <1>4
  <2>2. Quiet(<<Do("wsDown")>>) BY QuietOne, StepDoes, SMTT(20)
  <2>3. Quiet(first) BY <2>2, QuietNone
  <2>4. RunCalm BY <1>1, <1>2, <2>1, <2>3, ContinueCalm
  <2>5. TcpCalm BY <1>1, <1>4, TcpSame
  <2> QED BY <1>2, <2>4, <2>5, CalmKeeps DEF Calm
<1> QED BY <1>3, <1>4 DEF CloseWs

LEMMA GoesKeeps ==
    ASSUME StreamInv, ~race, NEW t \in Threads, Goes(t)
    PROVE  StreamInv'
<1>1. Typed BY DEF StreamInv
<1>2. CASE \/ TellClosed(t) \/ TriggerOpen(t) \/ Deliver(t) \/ TellMessage(t) \/ SetCallback(t) \/ Incoming(t)
           \/ Call(t) \/ SetOpen(t)
  BY <1>1, <1>2, TellClosedCalm, TriggerOpenCalm, DeliverCalm, TellMessageCalm, SetCallbackCalm, IncomingCalm,
     CallCalm, SetOpenCalm, CalmKeeps
<1>3. CASE InitProxyTransport(t) \/ InitTlsTransport(t) \/ InitWsTransport(t)
  BY <1>1, <1>3, InitTransportCalm, CalmKeeps DEF InitProxyTransport, InitTlsTransport, InitWsTransport
<1>4. CASE StartProxy(t) \/ StartWs(t) BY <1>4, StartWithRequestKeeps DEF StartProxy, StartWs
<1>5. CASE \/ Store(t) \/ StartTcp(t) \/ Connect(t) \/ StartTls(t) \/ CheckClosed(t) \/ Drop(t)
           \/ BeginClose(t) \/ ChangeToClosing(t) \/ CloseTransports(t) \/ Mute(t)
  BY <1>1, <1>5, StoreCalm, StartTcpCalm, ConnectCalm, StartTlsCalm, CheckClosedCalm, DropCalm, BeginCloseCalm,
     ChangeToClosingCalm, CloseTransportsCalm, MuteCalm, CalmKeeps
<1>6. CASE PollIn(t) \/ SetPoll(t) \/ Queued(t) \/ WsDown(t)
  BY <1>1, <1>6, PollInCalm, SetPollCalm, QueuedCalm, WsDownCalm, CalmKeeps
<1>7. CASE ProxyReceives(t) \/ TlsReads(t)
  BY <1>1, <1>7, ReceivesCalm, CalmKeeps DEF ProxyReceives, TlsReads
<1>8. CASE WsReceives(t)
  BY <1>1, <1>8, ReceivesCalm, RequestArrivesKeeps, PingKeeps, PongKeeps, CannotReplyCalm, PongArrivesCalm,
     DataFrameCalm, CloseFrameCalm, CalmKeeps DEF WsReceives
<1>9. CASE CloseWs(t) BY <1>9, CloseWsKeeps
<1> QED BY <1>2, <1>3, <1>4, <1>5, <1>6, <1>7, <1>8, <1>9 DEF Goes


-----------------------------------------------------------------------------
LEMMA PeekKeeps ==
    ASSUME StreamInv, ~race, Peek
    PROVE  StreamInv'
<1>1. Typed /\ Complete /\ tcp \in Tcp BY DEF StreamInv, Typed
<1>2. run["poll"] # <<>> /\ AppCalm BY <1>1, AppSame DEF Peek, At
<1>3. "poll" \in Threads BY DEF Threads
<1>4. CASE tcp.queue = <<>>
  <2>1. Continue("poll", <<Do("pollIn")>>) /\ UNCHANGED tcp BY <1>4 DEF Peek
  <2>2. Quiet(<<Do("pollIn")>>) BY QuietOne, StepDoes, SMTT(20)
  <2>3. RunCalm BY <1>1, <1>2, <1>3, <2>1, <2>2, ContinueCalm
  <2>4. TcpCalm BY <1>1, <2>1, TcpSame
  <2> QED BY <1>2, <2>3, <2>4, CalmKeeps DEF Calm
<1>5. CASE tcp.queue # <<>>
  <2> DEFINE rest == Tail(run["poll"])
             give == Do("give")
             steps == <<give>> \o rest
  <2>1. tcp' = [tcp EXCEPT !.copy = Head(tcp.queue)] /\ Continue("poll", <<give>>) BY <1>5 DEF Peek
  <2>2. Quiet(rest) BY <1>1, <1>2, <1>3 DEF Typed, RunTyped
  <2>3. give.do # "leave" BY StepDoes
  <2>4. run' = [run EXCEPT !["poll"] = Left(steps)] BY <2>1 DEF Continue, GoesOn
  <2> HIDE DEF rest, give
  <2>5. Left(steps) = steps /\ Tail(steps) = rest
    <3>1. PICK S : rest \in Seq(S) /\ \A step \in S : step.do # "give" BY <2>2 DEF Quiet
    <3>2. rest \in Seq(S) BY <3>1
    <3>3. Left(steps) = steps BY <2>3, <3>2, LeftOfStep
    <3>4. Tail(steps) = rest
      <4>1. Len(steps) = Len(rest) + 1 /\ \A i \in 1 .. Len(rest) : steps[i + 1] = rest[i] BY <3>2
      <4>2. Tail(steps) = [i \in 1 .. Len(rest) |-> steps[i + 1]] BY <4>1, <3>2
      <4>3. rest = [i \in 1 .. Len(rest) |-> rest[i]] BY <3>2
      <4> HIDE DEF steps
      <4> QED BY <4>1, <4>2, <4>3
    <3> QED BY <3>3, <3>4
  <2>6. DOMAIN run = Threads BY <1>1 DEF Typed, RunTyped
  <2>7. run' = [t \in Threads |-> run'[t]] BY <2>4, <2>6
  <2>8. run'["poll"] = steps /\ \A t \in Threads \ {"poll"} : run'[t] = run[t] BY <1>3, <2>4, <2>5, <2>6
  <2> HIDE DEF steps
  <2>9. RunTyped' BY <1>1, <2>2, <2>5, <2>7, <2>8 DEF Typed, RunTyped
  <2>10. /\ tcp' \in Tcp /\ tcp'.copy = Head(tcp.queue)
         /\ tcp'.queue = tcp.queue /\ tcp'.out = tcp.out
    <3>1. Head(tcp.queue) \in Seq(Unit)
      <4>1. tcp.queue \in Seq(Seq(Unit)) BY <1>1, TcpFields
      <4> QED BY <1>5, <4>1
    <3> QED BY <1>1, <2>1, <3>1 DEF Tcp, TcpOf
  <2>11. HoldsFirst' BY <1>5, <2>10 DEF HoldsFirst
  <2>12. Complete' BY <1>1, <1>2, <2>10 DEF Complete, StreamOf, AppCalm
  <2>13. Typed' BY <1>2, <2>9, <2>10 DEF Typed, AppCalm
  <2> QED BY <2>11, <2>12, <2>13 DEF StreamInv
<1> QED BY <1>4, <1>5

LEMMA PollPasses ==
    ASSUME Typed, run["poll"] # <<>>, NEW first, Quiet(first), Continue("poll", first)
    PROVE  RunCalm /\ ~Flushing'
<1>1. "poll" \in Threads BY DEF Threads
<1>2. RunCalm BY <1>1, ContinueCalm
<1>3. Quiet(first \o Tail(run["poll"])) BY <1>1, QuietNext
<1>4. Quiet(Left(first \o Tail(run["poll"]))) BY <1>3, QuietLeft
<1>5. run'["poll"] = Left(first \o Tail(run["poll"])) BY <1>1 DEF Continue, GoesOn, Typed, RunTyped
<1>6. ~Flushing' BY <1>4, <1>5, QuietTail DEF Flushing, At, This
<1> QED BY <1>2, <1>6

LEMMA GiveStep ==
    ASSUME StreamInv, ~race, Give
    PROVE  StreamInv'
<1>1. Typed /\ Complete /\ HoldsFirst /\ tcp \in Tcp BY DEF StreamInv, Typed
<1>2. run["poll"] # <<>> /\ AppCalm /\ Flushing BY <1>1, AppSame DEF Give, At, Flushing
<1>3. tcp.queue # <<>> /\ tcp.copy = Head(tcp.queue) BY <1>1, <1>2 DEF HoldsFirst
<1>4. Quiet(<<Do("tcpEnds")>>) /\ Quiet(<<Do("flush")>>) BY QuietOne, StepDoes, SMTT(20)
<1>5. CASE tcp.sock = "broken"
  <2>1. Continue("poll", <<Do("tcpEnds")>>) /\ UNCHANGED tcp BY <1>5 DEF Give
  <2>2. RunCalm BY <1>1, <1>2, <1>4, <2>1, PollPasses
  <2>3. TcpCalm BY <1>1, <2>1, TcpSame
  <2> QED BY <1>2, <2>2, <2>3, CalmKeeps DEF Calm
<1>6. CASE tcp.sock # "broken"
  <2> DEFINE n == Least(tcp.room, Len(tcp.copy))
             rest == SubSeq(tcp.copy, n + 1, Len(tcp.copy))
             others == Tail(tcp.queue)
             out == tcp.out \o Recorded(SubSeq(tcp.copy, 1, n))
             queue == IF rest = <<>> THEN others ELSE <<rest>> \o others
  <2>1. /\ tcp' = [tcp EXCEPT !.out = out, !.room = tcp.room - n, !.copy = <<>>, !.queue = queue]
        /\ Continue("poll", IF rest = <<>> THEN <<Do("flush")>> ELSE <<>>)
    BY <1>3, <1>6 DEF Give
  <2>2. n \in 0 .. Len(tcp.copy) /\ tcp.room - n \in Nat
    <3>1. tcp.copy \in Seq(Unit) /\ tcp.room \in Nat BY <1>1, TcpFields
    <3>2. Len(tcp.copy) \in Nat BY <3>1
    <3> QED BY <3>1, <3>2 DEF Least
  <2>3. RunCalm /\ ~Flushing'
    <3>1. Quiet(IF rest = <<>> THEN <<Do("flush")>> ELSE <<>>) BY <1>4, QuietNone
    <3> QED BY <1>1, <1>2, <2>1, <3>1, PollPasses
  <2> HIDE DEF n
  <2> DEFINE z == [tcp EXCEPT !.out = out, !.queue = queue]
  <2>4. z.out = out /\ z.queue = queue BY <1>1 DEF Tcp, TcpOf
  <2> HIDE DEF z
  <2>5. queue \in Seq(Seq(Unit)) /\ out \in Seq(Unit) /\ StreamOf(z) = StreamOf(tcp)
    <3>1. z.out = tcp.out \o Recorded(SubSeq(tcp.copy, 1, n)) BY <2>4
    <3>2. z.queue = IF rest = <<>> THEN Tail(tcp.queue) ELSE <<rest>> \o Tail(tcp.queue) BY <2>4
    <3>3. z.queue \in Seq(Seq(Unit)) /\ z.out \in Seq(Unit) /\ StreamOf(z) = StreamOf(tcp)
      <4>1. PICK r : r = rest BY Zenon
      <4>2. r = SubSeq(tcp.copy, n + 1, Len(tcp.copy)) BY <4>1
      <4>3. z.queue = IF r = <<>> THEN Tail(tcp.queue) ELSE <<r>> \o Tail(tcp.queue) BY <3>2, <4>1
      <4> QED BY <1>1, <1>3, <2>2, <3>1, <4>2, <4>3, GiveKeeps, Zenon
    <3> QED BY <2>4, <3>3
  <2> HIDE DEF out, queue, rest, others
  <2>6. tcp' \in Tcp /\ tcp'.queue = queue /\ tcp'.out = out
    <3>1. <<>> \in Seq(Unit) OBVIOUS
    <3> DEFINE Q == Seq(Seq(Unit))
               U == Seq(Unit)
    <3>2. tcp \in TcpOf(Q, U) /\ queue \in Q /\ out \in U /\ <<>> \in U BY <1>1, <2>5, <3>1 DEF Tcp
    <3>3. Tcp = TcpOf(Q, U) BY DEF Tcp
    <3> HIDE DEF Q, U
    <3>4. tcp' \in TcpOf(Q, U) /\ tcp'.queue = queue /\ tcp'.out = out BY <2>1, <2>2, <3>2 DEF TcpOf
    <3> QED BY <3>3, <3>4
  <2>7. Complete' BY <1>1, <1>2, <2>4, <2>5, <2>6 DEF Complete, AppCalm, StreamOf
  <2>8. HoldsFirst' BY <2>3 DEF HoldsFirst
  <2>9. Typed' BY <1>2, <2>3, <2>6 DEF Typed, RunCalm, AppCalm
  <2> QED BY <2>7, <2>8, <2>9 DEF StreamInv
<1> QED BY <1>5, <1>6

LEMMA SendMessageKeeps ==
    ASSUME StreamInv, ~race, SendMessage
    PROVE  StreamInv'
<1>1. Typed /\ Complete /\ app.sent \in Nat BY DEF StreamInv, Typed, AppTyped
<1>2. AppTyped' /\ app'.sent = app.sent + 1 BY <1>1 DEF Typed, AppTyped, SendMessage
<1>3. Send("app", Message(app.sent + 1), <<>>) BY DEF SendMessage
<1>4. "app" \in Threads BY DEF Threads
<1>5. app.sent + 1 \in Nat \ {0} BY <1>1
<1>6. Message(app.sent + 1) \in Seq(Unit) /\ Recorded(Message(app.sent + 1)) = Message(app.sent + 1)
  BY <1>5, RecordedMessage
<1>7. /\ RunCalm /\ tcp' \in Tcp /\ race' = Flushing
      /\ StreamOf(tcp') = StreamOf(tcp) \o Recorded(Message(app.sent + 1))
  BY <1>1, <1>3, <1>4, <1>6, QuietNone, SendEffect
<1>8. Expected(app.sent + 1) = Expected(app.sent) \o Message(app.sent + 1) BY <1>1, ExpectedNext
<1>9. Complete' BY <1>1, <1>2, <1>6, <1>7, <1>8, Zenon DEF Complete
<1>10. race' \/ HoldsFirst' BY <1>7 DEF RunCalm, HoldsFirst
<1>11. Typed' BY <1>2, <1>7 DEF RunCalm, Typed
<1> QED BY <1>9, <1>10, <1>11 DEF StreamInv


-----------------------------------------------------------------------------
LEMMA TcpEndsCalm ==
    ASSUME Typed, TcpEnds
    PROVE  Calm
<1>1. run["poll"] # <<>> /\ Continue("poll", <<Enter("tcp", "Disconnected"), In(Above("tcp"), "end")>>) BY DEF TcpEnds, At
<1>2. Quiet(<<Enter("tcp", "Disconnected"), In(Above("tcp"), "end")>>) BY QuietTwo, StepDoes, SMTT(20)
<1>3. RunCalm BY <1>1, <1>2, PollPasses
<1>4. AppCalm BY AppSame DEF TcpEnds
<1>5. TcpCalm
  <2>1. tcp' \in Updates(tcp, 0, "broken", "none", 0, Nobody) BY DEF TcpEnds, Updates
  <2> QED BY <2>1, TcpUpdates DEF Socks, Polls, Owners
<1> QED BY <1>3, <1>4, <1>5 DEF Calm

LEMMA RoomFoundCalm ==
    ASSUME Typed, RoomFound
    PROVE  Calm
<1>1. "poll" \in Threads /\ "pool" \in Threads /\ "timer" \in Threads /\ "teardown" \in Threads /\ "app" \in Threads
  BY DEF Threads
<1>2. Starts("poll", <<Do("flush")>>) BY DEF RoomFound
<1>3. Quiet(<<Do("flush")>>) BY QuietOne, QuietTwo, StepDoes, SMTT(20)
<1>4. RunCalm BY <1>1, <1>2, <1>3, StartsCalm
<1>5. AppCalm BY AppSame DEF RoomFound
<1>6. TcpCalm BY TcpSame DEF RoomFound, lower
<1> QED BY <1>4, <1>5, <1>6 DEF Calm

LEMMA EndArrivesCalm ==
    ASSUME Typed, EndArrives
    PROVE  Calm
<1>1. "poll" \in Threads /\ "pool" \in Threads /\ "timer" \in Threads /\ "teardown" \in Threads /\ "app" \in Threads
  BY DEF Threads
<1>2. Starts("poll", <<Do("tcpEnds")>>) BY DEF EndArrives
<1>3. Quiet(<<Do("tcpEnds")>>) BY QuietOne, QuietTwo, StepDoes, SMTT(20)
<1>4. RunCalm BY <1>1, <1>2, <1>3, StartsCalm
<1>5. AppCalm BY AppSame DEF EndArrives
<1>6. TcpCalm BY TcpSame DEF EndArrives, lower
<1> QED BY <1>4, <1>5, <1>6 DEF Calm

LEMMA ConnectionMadeCalm ==
    ASSUME Typed, ConnectionMade
    PROVE  Calm
<1>1. "poll" \in Threads /\ "pool" \in Threads /\ "timer" \in Threads /\ "teardown" \in Threads /\ "app" \in Threads
  BY DEF Threads
<1>2. Starts("poll", <<Enter("tcp", "Connected"), Do("pollIn")>>) BY DEF ConnectionMade
<1>3. Quiet(<<Enter("tcp", "Connected"), Do("pollIn")>>) BY QuietOne, QuietTwo, StepDoes, SMTT(20)
<1>4. RunCalm BY <1>1, <1>2, <1>3, StartsCalm
<1>5. AppCalm BY AppSame DEF ConnectionMade
<1>6. TcpCalm
  <2>1. tcp' \in Updates(tcp, 0, "up", "none", 0, Nobody) BY DEF ConnectionMade, Updates
  <2> QED BY <2>1, TcpUpdates DEF Socks, Polls, Owners
<1> QED BY <1>4, <1>5, <1>6 DEF Calm

LEMMA IdleCalm ==
    ASSUME Typed, Idle
    PROVE  Calm
<1>1. "poll" \in Threads /\ "pool" \in Threads /\ "timer" \in Threads /\ "teardown" \in Threads /\ "app" \in Threads
  BY DEF Threads
<1>2. Starts("poll", <<In(Above("tcp"), "idle"), Do("pollIn")>>) BY DEF Idle
<1>3. Quiet(<<In(Above("tcp"), "idle"), Do("pollIn")>>) BY QuietOne, QuietTwo, StepDoes, SMTT(20)
<1>4. RunCalm BY <1>1, <1>2, <1>3, StartsCalm
<1>5. AppCalm BY AppSame DEF Idle
<1>6. TcpCalm
  <2>1. tcp' \in Updates(tcp, 0, "none", "none", 0, Nobody) BY DEF Idle, Updates
  <2> QED BY <2>1, TcpUpdates DEF Socks, Polls, Owners
<1> QED BY <1>4, <1>5, <1>6 DEF Calm

LEMMA TlsReceivesCalm ==
    ASSUME Typed, TlsReceives
    PROVE  Calm
<1>1. "poll" \in Threads /\ "pool" \in Threads /\ "timer" \in Threads /\ "teardown" \in Threads /\ "app" \in Threads
  BY DEF Threads
<1>2. Starts("pool", <<Step("read", "tls", Head(inbox))>>) BY DEF TlsReceives
<1>3. \A item : Quiet(<<Step("read", "tls", item)>>) BY QuietOne, StepDoes, SMTT(20)
<1>4. RunCalm BY <1>1, <1>2, <1>3, StartsCalm
<1>5. AppCalm BY AppSame DEF TlsReceives
<1>6. TcpCalm BY TcpSame DEF TlsReceives, lower
<1> QED BY <1>4, <1>5, <1>6 DEF Calm

LEMMA ConnectionTimeoutCalm ==
    ASSUME Typed, ConnectionTimeout
    PROVE  Calm
<1>1. "poll" \in Threads /\ "pool" \in Threads /\ "timer" \in Threads /\ "teardown" \in Threads /\ "app" \in Threads
  BY DEF Threads
<1>2. Starts("timer", RemoteClose) BY DEF ConnectionTimeout
<1>3. Quiet(RemoteClose) BY QuietRemoteClose
<1>4. RunCalm BY <1>1, <1>2, <1>3, StartsCalm
<1>5. AppCalm BY AppSame DEF ConnectionTimeout
<1>6. TcpCalm BY TcpSame DEF ConnectionTimeout, lower
<1> QED BY <1>4, <1>5, <1>6 DEF Calm

LEMMA CloseTimeoutCalm ==
    ASSUME Typed, CloseTimeout
    PROVE  Calm
<1>1. "poll" \in Threads /\ "pool" \in Threads /\ "timer" \in Threads /\ "teardown" \in Threads /\ "app" \in Threads
  BY DEF Threads
<1>2. Starts("timer", <<Do("wsDown")>>) BY DEF CloseTimeout
<1>3. Quiet(<<Do("wsDown")>>) BY QuietOne, QuietTwo, StepDoes, SMTT(20)
<1>4. RunCalm BY <1>1, <1>2, <1>3, StartsCalm
<1>5. AppCalm BY AppSame DEF CloseTimeout
<1>6. TcpCalm BY TcpSame DEF CloseTimeout, lower
<1> QED BY <1>4, <1>5, <1>6 DEF Calm

LEMMA CloseCalm ==
    ASSUME Typed, Close
    PROVE  Calm
<1>1. "poll" \in Threads /\ "pool" \in Threads /\ "timer" \in Threads /\ "teardown" \in Threads /\ "app" \in Threads
  BY DEF Threads
<1>2. Starts("app", <<Do("close")>>) BY DEF Close, Calls
<1>3. Quiet(<<Do("close")>>) BY QuietOne, QuietTwo, StepDoes, SMTT(20)
<1>4. RunCalm BY <1>1, <1>2, <1>3, StartsCalm
<1>5. AppCalm BY DEF Close, Calls, AppCalm, AppTyped, Typed
<1>6. TcpCalm BY TcpSame DEF Close, lower, Calls
<1> QED BY <1>4, <1>5, <1>6 DEF Calm

LEMMA ForceCloseCalm ==
    ASSUME Typed, ForceClose
    PROVE  Calm
<1>1. "poll" \in Threads /\ "pool" \in Threads /\ "timer" \in Threads /\ "teardown" \in Threads /\ "app" \in Threads
  BY DEF Threads
<1>2. Starts("app", RemoteClose) BY DEF ForceClose, Calls
<1>3. Quiet(RemoteClose) BY QuietRemoteClose
<1>4. RunCalm BY <1>1, <1>2, <1>3, StartsCalm
<1>5. AppCalm BY DEF ForceClose, Calls, AppCalm, AppTyped, Typed
<1>6. TcpCalm BY TcpSame DEF ForceClose, lower, Calls
<1> QED BY <1>4, <1>5, <1>6 DEF Calm

LEMMA ConnectionRefusedCalm ==
    ASSUME Typed, ConnectionRefused
    PROVE  Calm
<1>1. RunCalm BY RunSame DEF ConnectionRefused
<1>2. AppCalm BY AppSame DEF ConnectionRefused
<1>3. TcpCalm
  <2>1. tcp' \in Updates(tcp, 0, "none", "none", 0, Nobody) BY DEF ConnectionRefused, Updates
  <2> QED BY <2>1, TcpUpdates DEF Socks, Polls, Owners
<1> QED BY <1>1, <1>2, <1>3 DEF Calm

LEMMA BreaksCalm ==
    ASSUME Typed, Breaks
    PROVE  Calm
<1>1. RunCalm BY RunSame DEF Breaks
<1>2. AppCalm BY AppSame DEF Breaks
<1>3. TcpCalm
  <2>1. tcp' \in Updates(tcp, 0, "broken", "none", 0, Nobody) BY DEF Breaks, Updates
  <2> QED BY <2>1, TcpUpdates DEF Socks, Polls, Owners
<1> QED BY <1>1, <1>2, <1>3 DEF Calm

LEMMA TakesMoreCalm ==
    ASSUME Typed, TakesMore
    PROVE  Calm
<1>1. RunCalm BY RunSame DEF TakesMore
<1>2. AppCalm BY AppSame DEF TakesMore
<1>3. TcpCalm
  <2>1. tcp' \in Updates(tcp, 0, "none", "none", Room, Nobody) BY DEF TakesMore, Updates
  <2>2. Room \in Nat BY BoundsAssumption
  <2> QED BY <2>1, <2>2, TcpUpdates DEF Socks, Polls, Owners
<1> QED BY <1>1, <1>2, <1>3 DEF Calm

LEMMA PoolCalm ==
    ASSUME Typed, UNCHANGED run \/ TcpFails
    PROVE  RunCalm
<1>1. CASE UNCHANGED run BY <1>1, RunSame
<1>2. CASE TcpFails
  <2>1. Starts("pool", <<Enter("tcp", "Failed")>>) /\ "pool" \in Threads BY <1>2 DEF TcpFails, Threads
  <2>2. Quiet(<<Enter("tcp", "Failed")>>) BY QuietOne, StepDoes, SMTT(20)
  <2> QED BY <2>1, <2>2, StartsCalm
<1> QED BY <1>1, <1>2

LEMMA ResolveCalm ==
    ASSUME Typed, Resolve
    PROVE  Calm
<1>1. RunCalm BY PoolCalm DEF Resolve
<1>2. AppCalm BY AppSame DEF Resolve
<1>3. TcpCalm
  <2>1. CASE UNCHANGED tcp BY <2>1, TcpSame
  <2>2. CASE \E n \in 1 .. MaxAddresses : tcp' = [tcp EXCEPT !.left = n]
    <3>1. PICK n \in 1 .. MaxAddresses : tcp' = [tcp EXCEPT !.left = n] BY <2>2
    <3>2. n \in Nat /\ tcp' \in Updates(tcp, n, "none", "none", 0, Nobody) BY <3>1 DEF Updates
    <3> QED BY <3>2, TcpUpdates DEF Socks, Polls, Owners
  <2> QED BY <2>1, <2>2 DEF Resolve
<1> QED BY <1>1, <1>2, <1>3 DEF Calm

LEMMA AttemptCalm ==
    ASSUME Typed, Attempt
    PROVE  Calm
<1>1. RunCalm BY PoolCalm DEF Attempt
<1>2. AppCalm BY AppSame DEF Attempt
<1>3. TcpCalm
  <2>1. CASE UNCHANGED tcp BY <2>1, TcpSame
  <2>2. CASE CreateSocket
    <3>1. tcp.left - 1 \in Nat BY <2>2 DEF CreateSocket, Typed, Tcp, TcpOf
    <3>2. tcp' \in Updates(tcp, tcp.left - 1, "connecting", "connect", 0, Nobody) BY <2>2 DEF CreateSocket, Updates
    <3> QED BY <3>1, <3>2, TcpUpdates DEF Socks, Polls, Owners
  <2> QED BY <2>1, <2>2 DEF Attempt
<1> QED BY <1>1, <1>2, <1>3 DEF Calm

LEMMA TearDownCalm ==
    ASSUME Typed, TearDown
    PROVE  Calm
<1>1. PICK first \in {<<>>, <<Do("closeWs")>>} : Starts("teardown", first \o <<Do("dropAll")>>) BY DEF TearDown
<1>2. Quiet(<<Do("closeWs")>>) /\ Quiet(<<Do("dropAll")>>) BY QuietOne, StepDoes, SMTT(20)
<1>3. Quiet(first \o <<Do("dropAll")>>) BY <1>2, QuietNone, QuietJoined
<1>4. RunCalm BY <1>1, <1>3, StartsCalm DEF Threads
<1>5. AppCalm BY AppSame DEF TearDown
<1>6. TcpCalm BY TcpSame DEF TearDown
<1> QED BY <1>4, <1>5, <1>6 DEF Calm

LEMMA DropAllCalm ==
    ASSUME Typed, DropAll
    PROVE  Calm
<1>1. run["teardown"] # <<>> /\ Continue("teardown", <<>>) /\ "teardown" \in Threads BY DEF DropAll, At, Threads
<1>2. RunCalm BY <1>1, QuietNone, ContinueCalm
<1>3. tcp' = ClosedSocket \/ UNCHANGED tcp BY DEF DropAll
<1>4. TcpCalm BY <1>3, TcpSame, ClosedCalm
<1>5. AppCalm BY AppSame DEF DropAll
<1> QED BY <1>2, <1>4, <1>5 DEF Calm

LEMMA OpenCalm ==
    ASSUME Typed, Open
    PROVE  Calm
<1>1. Starts("app", <<On("start", "tcp")>> \o <<>>) /\ "app" \in Threads BY DEF Open, Begin, Threads
<1>2. Quiet(<<On("start", "tcp")>>) BY QuietOne, StepDoes, SMTT(20)
<1>3. Quiet(<<On("start", "tcp")>> \o <<>>) BY <1>2, QuietNone, QuietJoined
<1>4. RunCalm BY <1>1, <1>3, StartsCalm
<1>5. AppCalm BY DEF Open, Begin, AppCalm, AppTyped, Typed
<1>6. TcpCalm BY TcpSame DEF Open
<1> QED BY <1>4, <1>5, <1>6 DEF Calm

LEMMA AcceptCalm ==
    ASSUME Typed, Accept
    PROVE  Calm
<1> DEFINE sets == [i \in 1 .. 3 |-> Step("set", "", Item(<<"open", "message", "closed">>[i], 0))]
<1>1. Starts("app", <<On("start", "tcp")>> \o sets) /\ "app" \in Threads BY DEF Accept, Begin, Threads
<1>2. Quiet(<<On("start", "tcp")>>) BY QuietOne, StepDoes, SMTT(20)
<1>3. Quiet(sets)
  <2> DEFINE S == {sets[i] : i \in 1 .. 3}
  <2>1. \A i \in 1 .. 3 : sets[i].do # "give" BY StepDoes
  <2>2. sets = [i \in 1 .. 3 |-> sets[i]] OBVIOUS
  <2> HIDE DEF sets
  <2>3. \A step \in S : step.do # "give" BY <2>1
  <2>4. \A i \in 1 .. 3 : sets[i] \in S OBVIOUS
  <2> HIDE DEF S
  <2>5. sets \in Seq(S) BY <2>2, <2>4
  <2> QED BY <2>3, <2>5, QuietIn
<1> HIDE DEF sets
<1>4. Quiet(<<On("start", "tcp")>> \o sets) BY <1>2, <1>3, QuietJoined
<1>5. RunCalm BY <1>1, <1>4, StartsCalm
<1>6. AppCalm BY DEF Accept, Begin, AppCalm, AppTyped, Typed
<1>7. TcpCalm
  <2>1. tcp' \in Updates(tcp, 0, "up", "none", 0, Nobody) BY DEF Accept, Updates
  <2> QED BY <2>1, TcpUpdates DEF Socks, Polls, Owners
<1> QED BY <1>5, <1>6, <1>7 DEF Calm

LEMMA ArrivesCalm ==
    ASSUME Typed, Arrives
    PROVE  Calm
<1>1. PICK item : Starts("poll", <<Step("in", Above("tcp"), item)>>) BY DEF Arrives, Answers, Sends, In
<1>2. Quiet(<<Step("in", Above("tcp"), item)>>) BY QuietOne, StepDoes, SMTT(20)
<1>3. RunCalm BY <1>1, <1>2, StartsCalm DEF Threads
<1>4. AppCalm BY AppSame DEF Arrives
<1>5. TcpCalm BY TcpSame DEF Arrives, lower
<1> QED BY <1>3, <1>4, <1>5 DEF Calm

-----------------------------------------------------------------------------
LEMMA FlattenEmptyQueue == FlattenSeq(<<>>) = <<>> /\ Recorded(<<>>) = <<>>
BY FlattenEmpty, RecordedEmpty

LEMMA Begins == Init => StreamInv
<1> SUFFICES ASSUME Init PROVE StreamInv OBVIOUS
<1>1. tcp = Socket(Room) /\ run = [t \in Threads |-> <<>>] /\ app.sent = 0 /\ "sent" \in DOMAIN app BY DEF Init
<1>2. tcp \in Tcp
  <2> DEFINE Q == Seq(Seq(Unit))
             U == Seq(Unit)
  <2>1. <<>> \in Q /\ <<>> \in U OBVIOUS
  <2>2. Tcp = TcpOf(Q, U) BY DEF Tcp
  <2>3. Room \in Nat BY BoundsAssumption
  <2> HIDE DEF Q, U
  <2>4. tcp \in TcpOf(Q, U) BY <1>1, <2>1, <2>3 DEF TcpOf, Socket, Socks, Polls, Owners, Nobody
  <2> QED BY <2>2, <2>4
<1>3. RunTyped BY <1>1 DEF RunTyped
<1>4. AppTyped BY <1>1 DEF AppTyped
<1>5. HoldsFirst
  <2>1. run["poll"] = <<>> BY <1>1 DEF Threads
  <2> QED BY <2>1 DEF HoldsFirst, Flushing, At
<1>6. Complete
  <2>1. tcp.queue = <<>> /\ tcp.out = <<>> BY <1>1 DEF Socket
  <2>2. StreamOf(tcp) = <<>> \o <<>> BY <2>1, FlattenEmptyQueue DEF StreamOf
  <2>3. <<>> \o <<>> = <<>> OBVIOUS
  <2>4. Expected(0) = <<>>
    <3>1. 1 .. 2 * 0 = {} OBVIOUS
    <3> QED BY <3>1 DEF Expected
  <2> QED BY <1>1, <2>2, <2>3, <2>4 DEF Complete
<1> QED BY <1>2, <1>3, <1>4, <1>5, <1>6 DEF StreamInv, Typed

LEMMA NextKeeps == StreamInv /\ [Next]_vars => StreamInv'
<1> SUFFICES ASSUME StreamInv, [Next]_vars PROVE StreamInv' OBVIOUS
<1>1. Typed BY DEF StreamInv
<1>2. CASE UNCHANGED vars
  BY <1>2 DEF vars, control, kept, lower, StreamInv, Typed, RunTyped, AppTyped, HoldsFirst, Flushing, At, This,
              Complete, StreamOf
<1>3. CASE Next
  <2>1. ~race BY <1>3 DEF Next
  <2>2. "app" \in Threads /\ "poll" \in Threads /\ "pool" \in Threads /\ "timer" \in Threads
        /\ "teardown" \in Threads
    BY DEF Threads
  <2>3. CASE Goes("app") \/ Goes("poll") \/ Goes("pool") \/ Goes("teardown") \/ Goes("timer")
    BY <2>1, <2>2, <2>3, GoesKeeps
  <2>4. CASE Peek BY <2>1, <2>4, PeekKeeps
  <2>5. CASE Give BY <2>1, <2>5, GiveStep
  <2>6. CASE TcpEnds \/ RoomFound \/ EndArrives \/ ConnectionMade \/ ConnectionRefused
    BY <1>1, <2>1, <2>6, TcpEndsCalm, RoomFoundCalm, EndArrivesCalm, ConnectionMadeCalm, ConnectionRefusedCalm,
       CalmKeeps
  <2>7. CASE Resolve \/ Attempt \/ TlsReceives \/ TearDown \/ DropAll \/ ConnectionTimeout \/ CloseTimeout
    BY <1>1, <2>1, <2>7, ResolveCalm, AttemptCalm, TlsReceivesCalm, TearDownCalm, DropAllCalm, ConnectionTimeoutCalm,
       CloseTimeoutCalm, CalmKeeps
  <2>8. CASE Idle \/ Open \/ Accept \/ Close \/ ForceClose \/ Arrives \/ Breaks \/ TakesMore
    BY <1>1, <2>1, <2>8, IdleCalm, OpenCalm, AcceptCalm, CloseCalm, ForceCloseCalm, ArrivesCalm, BreaksCalm,
       TakesMoreCalm, CalmKeeps
  <2>9. CASE SendMessage BY <2>1, <2>9, SendMessageKeeps
  <2> QED BY <1>3, <2>3, <2>4, <2>5, <2>6, <2>7, <2>8, <2>9
          DEF Next, PollGoes, Connects, PoolGoes, TearDownGoes, TimerGoes
<1> QED BY <1>2, <1>3

LEMMA StreamInvariance == Spec => []StreamInv
<1>1. Init => StreamInv BY Begins
<1>2. StreamInv /\ [Next]_vars => StreamInv' BY NextKeeps
<1> QED BY <1>1, <1>2, PTL DEF Spec

\* What went out and what waits in the send queue are together what the application
\* has sent, each message once, whole and in order, while threads send, the poll
\* thread flushes without the lock, and the transports come and go.
THEOREM NothingIsLost == Spec => [](race \/ Complete)
<1>1. StreamInv => race \/ Complete BY DEF StreamInv
<1> QED BY <1>1, StreamInvariance, PTL

\* What the application has sent goes out whole, once and in order, which is the
\* sending half of MessagesInOrder (tcptransport.cpp: send, trySendQueue).
THEOREM StreamStaysIntact == Spec => [](race \/ StreamIsIntact)
<1>1. StreamInv => race \/ StreamIsIntact
  <2> SUFFICES ASSUME StreamInv, ~race PROVE StreamIsIntact OBVIOUS
  <2>1. tcp \in Tcp /\ app.sent \in Nat /\ StreamOf(tcp) = Expected(app.sent)
    BY DEF StreamInv, Typed, AppTyped, Complete
  <2>2. PICK a \in Seq(Unit), b \in Seq(Unit) :
            a = tcp.out /\ b = Recorded(FlattenSeq(tcp.queue))
    <3>1. tcp.out \in Seq(Unit) /\ tcp.queue \in Seq(Seq(Unit)) BY <2>1, TcpFields
    <3>2. FlattenSeq(tcp.queue) \in Seq(Unit) BY <3>1, FlattenType
    <3> QED BY <3>1, <3>2, RecordedType
  <2>3. a \o b = Expected(app.sent) BY <2>1, <2>2 DEF StreamOf
  <2>4. /\ Len(a \o b) = Len(a) + Len(b) /\ DOMAIN (a \o b) = 1 .. Len(a) + Len(b)
        /\ \A i \in 1 .. Len(a) : (a \o b)[i] = a[i]
    OBVIOUS
  <2>5. DOMAIN a = 1 .. Len(a) /\ Len(a) \in Nat /\ Len(b) \in Nat OBVIOUS
  <2>6. DOMAIN Expected(app.sent) = 1 .. 2 * app.sent
        /\ \A i \in 1 .. 2 * app.sent :
              Expected(app.sent)[i] = [message |-> (i + 1) \div 2, part |-> 2 - (i % 2)]
    BY DEF Expected
  <2>7. ASSUME NEW i \in DOMAIN a PROVE a[i] = [message |-> (i + 1) \div 2, part |-> 2 - (i % 2)]
    <3>1. i \in 1 .. Len(a) /\ i \in DOMAIN (a \o b) BY <2>4, <2>5
    <3>2. i \in 1 .. 2 * app.sent BY <2>3, <2>6, <3>1
    <3>3. (a \o b)[i] = [message |-> (i + 1) \div 2, part |-> 2 - (i % 2)] BY <2>3, <2>6, <3>2
    <3> QED BY <2>4, <3>1, <3>3
  <2> QED BY <2>2, <2>7 DEF StreamIsIntact
<1> QED BY <1>1, StreamInvariance, PTL
=============================================================================
