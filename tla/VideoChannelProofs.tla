------------------------- MODULE VideoChannelProofs -------------------------
(***************************************************************************)
(* Proof that the image is one whole publication and that the buffered     *)
(* amount is what waits in the queue, within its bound, for any number of  *)
(* frames and restarts, any size of frames and any room in usrsctp; then,  *)
(* for a capture and its successor, that the image never goes back in time *)
(* and that the first frame of the successor is shown.                     *)
(*                                                                         *)
(* A frame of the Assembler holds fragments of the one publication its     *)
(* first fragment named, and is complete when it holds as many as that     *)
(* publication has.  The queue and what the gateway has still to send of   *)
(* its frame hold no more fragments than the watermark and one frame: a    *)
(* frame is taken only while the queue alone is within the watermark.      *)
(***************************************************************************)
EXTENDS VideoChannel, FiniteSetTheorems, SequenceTheorems, WellFoundedInduction, TLAPS

AnyMessages == [kind : {"start", "fragment", "end"}, n : Nat, index : Nat]
Publications == [id : Nat, total : 1 .. MaxTotal, boot : Nat]
Queues == Seq(AnyMessages)
Flags == BOOLEAN
CaptureType == [nextId : Nat, slot : Nat, boot : Nat]
GatewayType == [lastId : Nat, todo : Queues]
SctpType == [queue : Queues, buffered : Nat, pending : Nat, flushing : Flags]

IsWire(w) == /\ w = [control |-> w.control, video |-> w.video]
             /\ w.control \in Queues
             /\ w.video \subseteq AnyMessages /\ IsFiniteSet(w.video)
Typed == /\ capture \in CaptureType /\ capture.slot <= Len(pubs) /\ pubs \in Seq(Publications)
         /\ gateway \in GatewayType /\ sctp \in SctpType /\ IsWire(wire)

\* The fragments of publication n, and a message that is one of some publication.
Whole(ps, n) == {Fragment(n, i) : i \in 1 .. ps[n].total}
Sent(ps, m) == m.n \in 1 .. Len(ps) /\ (IsVideo(m) => m \in Whole(ps, m.n))
AllSent(ps, q) == \A i \in DOMAIN q : Sent(ps, q[i])

\* The Assembler's frames: no two of an id, each with fragments of what it names.
IsPage(p) == p = [frames |-> p.frames, retired |-> p.retired, lastRendered |-> p.lastRendered,
                  latestPublished |-> p.latestPublished, latestId |-> p.latestId,
                  floor |-> p.floor]
IsFrame(f) == f = [id |-> f.id, total |-> f.total, published |-> f.published, got |-> f.got,
                   place |-> f.place]
FrameOk(ps, f) ==
    /\ IsFrame(f) /\ f.total \in Nat /\ f.total > 0
    /\ f.published = 0 => f.got = {}
    /\ f.published # 0 => /\ f.published \in 1 .. Len(ps) /\ f.total = ps[f.published].total
                          /\ f.got \subseteq Whole(ps, f.published)
Sound(ps, fs) == /\ \A f \in fs : FrameOk(ps, f)
                 /\ \A f, g \in fs : f.id = g.id => f = g

Amounts == /\ sctp.buffered = Fragments(sctp.queue)
           /\ Fragments(sctp.queue) + Fragments(gateway.todo) <= Watermark + MaxTotal
Sending == /\ AllSent(pubs, sctp.queue) /\ AllSent(pubs, gateway.todo)
           /\ AllSent(pubs, wire.control)
           /\ \A m \in wire.video : IsVideo(m) /\ Sent(pubs, m)
Assembly == IsPage(page) /\ Sound(pubs, page.frames)
Image == /\ shown.n # 0 => shown.n \in 1 .. Len(pubs) /\ shown.parts = Whole(pubs, shown.n)

Inv == Typed /\ Amounts /\ Sending /\ Assembly /\ Image

-----------------------------------------------------------------------------
(***************************************************************************)
(* Counting fragments.                                                     *)
(***************************************************************************)
VideoAt(q) == {i \in DOMAIN q : IsVideo(q[i])}

LEMMA VideoAtFinite ==
  ASSUME NEW S, NEW q \in Seq(S)
  PROVE  /\ Fragments(q) = Cardinality(VideoAt(q)) /\ IsFiniteSet(VideoAt(q))
         /\ Fragments(q) \in Nat /\ Fragments(q) <= Len(q)
<1>1. Len(q) \in Nat /\ DOMAIN q = 1 .. Len(q) /\ VideoAt(q) \in SUBSET (1 .. Len(q))
  BY DEF VideoAt
<1>2. IsFiniteSet(1 .. Len(q)) /\ Cardinality(1 .. Len(q)) = Len(q)
  <2>1. 1 \in Int /\ Len(q) \in Int /\ (1 > Len(q) => Len(q) = 0)
    BY <1>1
  <2>2. /\ IsFiniteSet(1 .. Len(q))
        /\ Cardinality(1 .. Len(q)) = IF 1 > Len(q) THEN 0 ELSE Len(q) - 1 + 1
    BY <2>1, FS_Interval
  <2> QED BY <1>1, <2>1, <2>2
<1>3. IsFiniteSet(VideoAt(q)) /\ Cardinality(VideoAt(q)) <= Len(q)
  BY <1>1, <1>2, FS_Subset
<1>4. Cardinality(VideoAt(q)) \in Nat
  BY <1>3, FS_CardinalityType
<1> QED BY <1>3, <1>4 DEF Fragments, VideoAt

LEMMA ConcatFacts ==
  ASSUME NEW S, NEW s \in Seq(S), NEW t \in Seq(S)
  PROVE  /\ s \o t \in Seq(S) /\ Len(s \o t) = Len(s) + Len(t)
         /\ Len(s) \in Nat /\ Len(t) \in Nat
         /\ DOMAIN s = 1 .. Len(s) /\ DOMAIN t = 1 .. Len(t)
         /\ DOMAIN (s \o t) = 1 .. Len(s) + Len(t)
         /\ \A i \in 1 .. Len(s) : (s \o t)[i] = s[i]
         /\ \A i \in 1 .. Len(t) : (s \o t)[i + Len(s)] = t[i]
OBVIOUS

LEMMA FragmentsOfBoth ==
  ASSUME NEW S, NEW s \in Seq(S), NEW t \in Seq(S)
  PROVE  Fragments(s \o t) = Fragments(s) + Fragments(t)
<1> DEFINE n == Len(s)
           r == s \o t
           A == VideoAt(s)
           B == VideoAt(t)
           C == {i \in VideoAt(r) : i > n}
           f == [i \in B |-> i + n]
<1>1. /\ r \in Seq(S) /\ n \in Nat /\ Len(t) \in Nat
      /\ DOMAIN s = 1 .. n /\ DOMAIN t = 1 .. Len(t) /\ DOMAIN r = 1 .. n + Len(t)
      /\ \A i \in 1 .. n : r[i] = s[i]
      /\ \A i \in 1 .. Len(t) : r[i + n] = t[i]
  BY ConcatFacts
<1>2. /\ Fragments(s) = Cardinality(A) /\ IsFiniteSet(A) /\ Fragments(t) = Cardinality(B)
      /\ IsFiniteSet(B) /\ Fragments(r) = Cardinality(VideoAt(r)) /\ IsFiniteSet(VideoAt(r))
      /\ Fragments(s) \in Nat /\ Fragments(t) \in Nat
  BY <1>1, VideoAtFinite
<1> HIDE DEF n, r
<1>3. VideoAt(r) = A \cup C /\ A \cap C = {}
  <2>1. \A i \in 1 .. n : i \in 1 .. n + Len(t) /\ ~(i > n)
    BY <1>1
  <2>2. \A i \in 1 .. n + Len(t) : ~(i > n) => i \in 1 .. n
    BY <1>1
  <2> QED BY <1>1, <2>1, <2>2 DEF VideoAt
<1>4. f \in Bijection(B, C)
  <2>1. ASSUME NEW i \in B PROVE i + n \in C /\ i \in Nat
    <3>1. i \in 1 .. Len(t) /\ IsVideo(t[i]) BY <1>1 DEF VideoAt
    <3>2. i + n \in 1 .. n + Len(t) /\ i + n > n BY <1>1, <3>1
    <3> QED BY <1>1, <3>1, <3>2 DEF VideoAt
  <2>2. ASSUME NEW j \in C PROVE \E i \in B : j = i + n
    <3>1. j \in 1 .. n + Len(t) /\ j > n /\ IsVideo(r[j]) BY <1>1 DEF VideoAt
    <3>2. j - n \in 1 .. Len(t) /\ (j - n) + n = j BY <1>1, <3>1
    <3>3. IsVideo(t[j - n]) BY <1>1, <3>1, <3>2
    <3> QED BY <1>1, <3>2, <3>3 DEF VideoAt
  <2>3. \A i, j \in B : i + n = j + n => i = j BY <1>1, <2>1
  <2> HIDE DEF B, C
  <2>4. f \in [B -> C] /\ \A i \in B : f[i] = i + n
    BY <2>1
  <2>5. \A i, j \in B : f[i] = f[j] => i = j
    BY <2>3, <2>4
  <2>6. \A j \in C : \E i \in B : f[i] = j
    BY <2>2, <2>4
  <2> QED BY <2>4, <2>5, <2>6 DEF Bijection, Injection, Surjection, IsInjective
<1>5. Cardinality(C) = Cardinality(B) /\ IsFiniteSet(C)
  BY <1>2, <1>4, FS_Bijection DEF ExistsBijection
<1>6. Cardinality(VideoAt(r)) = Cardinality(A) + Cardinality(C) - Cardinality(A \cap C)
  BY <1>2, <1>3, <1>5, FS_Union
<1>7. Cardinality(A \cap C) = 0
  BY <1>3, FS_EmptySet
<1> HIDE DEF A, B, C
<1>8. Fragments(r) = Fragments(s) + Fragments(t)
  BY <1>2, <1>5, <1>6, <1>7
<1> QED BY <1>8 DEF r

LEMMA Splits ==
  ASSUME NEW q \in Queues, Free(wire) \in Int
  PROVE  /\ Flushed(q) \in Queues /\ Remains(q) \in Queues
         /\ Fragments(Flushed(q)) + Fragments(Remains(q)) = Fragments(q)
         /\ \A i \in DOMAIN Flushed(q) : \E j \in DOMAIN q : Flushed(q)[i] = q[j]
         /\ \A i \in DOMAIN Remains(q) : \E j \in DOMAIN q : Remains(q)[i] = q[j]
<1> DEFINE k == IF Len(q) < Free(wire) THEN Len(q) ELSE Free(wire)
           n == IF k < 1 THEN 0 ELSE k
<1>1. q \in Seq(AnyMessages) /\ Len(q) \in Nat /\ DOMAIN q = 1 .. Len(q)
  BY DEF Queues
<1>2. n \in 0 .. Len(q) /\ k \in Int
  BY <1>1
<1>3. Flushed(q) = SubSeq(q, 1, n)
  <2>1. SubSeq(q, 1, k) = SubSeq(q, 1, n)
    <3>1. CASE k < 1
      <4>1. SubSeq(q, 1, k) = <<>> /\ SubSeq(q, 1, 0) = <<>>
        BY <1>1, <1>2, <3>1, SubSeqEmpty
      <4> QED BY <3>1, <4>1
    <3>2. CASE ~(k < 1) BY <3>2
    <3> QED BY <3>1, <3>2
  <2> QED BY <2>1 DEF Flushed
<1> HIDE DEF k, n
<1>4. /\ SubSeq(q, 1, n) \in Seq(AnyMessages) /\ Len(SubSeq(q, 1, n)) = n
      /\ DOMAIN SubSeq(q, 1, n) = 1 .. n
      /\ \A i \in 1 .. n : SubSeq(q, 1, n)[i] = q[i]
  BY <1>1, <1>2
<1>5. Remains(q) = SubSeq(q, n + 1, Len(q))
  BY <1>3, <1>4 DEF Remains
<1>6. /\ SubSeq(q, n + 1, Len(q)) \in Seq(AnyMessages)
      /\ DOMAIN SubSeq(q, n + 1, Len(q)) = 1 .. Len(q) - n
      /\ \A i \in 1 .. Len(q) - n : SubSeq(q, n + 1, Len(q))[i] = q[n + i]
  BY <1>1, <1>2
<1>7. q = SubSeq(q, 1, n) \o SubSeq(q, n + 1, Len(q))
  <2>1. 1 \in 1 .. Len(q) + 1 /\ n \in 1 - 1 .. Len(q) /\ Len(q) \in n .. Len(q)
    BY <1>1, <1>2
  <2>2. SubSeq(q, 1, n) \o SubSeq(q, n + 1, Len(q)) = SubSeq(q, 1, Len(q))
    BY <1>1, <2>1, ConcatAdjacentSubSeq
  <2>3. SubSeq(q, 1, Len(q)) = q
    BY <1>1, SubSeqFull
  <2> QED BY <2>2, <2>3
<1>8. Fragments(Flushed(q)) + Fragments(Remains(q)) = Fragments(q)
  BY <1>3, <1>4, <1>5, <1>6, <1>7, FragmentsOfBoth
<1>9. \A i \in 1 .. n : i \in 1 .. Len(q)
  BY <1>1, <1>2
<1>10. \A i \in 1 .. Len(q) - n : n + i \in 1 .. Len(q)
  BY <1>1, <1>2
<1> QED BY <1>1, <1>3, <1>4, <1>5, <1>6, <1>8, <1>9, <1>10 DEF Queues

LEMMA FragmentsOfOne ==
  ASSUME NEW m \in AnyMessages
  PROVE  /\ <<m>> \in Queues /\ DOMAIN <<m>> = {1} /\ <<m>>[1] = m
         /\ Fragments(<<m>>) = IF IsVideo(m) THEN 1 ELSE 0
<1>1. DOMAIN <<m>> = {1} /\ <<m>>[1] = m /\ <<m>> \in Seq(AnyMessages)
  OBVIOUS
<1>2. VideoAt(<<m>>) = IF IsVideo(m) THEN {1} ELSE {}
  BY <1>1 DEF VideoAt
<1>3. Cardinality({1}) = 1 /\ Cardinality({}) = 0
  BY FS_Singleton, FS_EmptySet
<1> QED BY <1>1, <1>2, <1>3 DEF Fragments, VideoAt, Queues

LEMMA FragmentsOfNone ==
  <<>> \in Queues /\ Fragments(<<>>) = 0
<1>1. VideoAt(<<>>) = {} BY DEF VideoAt
<1> QED BY <1>1, FS_EmptySet DEF Fragments, VideoAt, Queues

LEMMA FirstAndRest ==
  ASSUME NEW q \in Queues, q # <<>>
  PROVE  /\ Head(q) \in AnyMessages /\ Tail(q) \in Queues /\ 1 \in DOMAIN q /\ Head(q) = q[1]
         /\ \A i \in DOMAIN Tail(q) : i + 1 \in DOMAIN q /\ Tail(q)[i] = q[i + 1]
         /\ Fragments(q) = Fragments(Tail(q)) + IF IsVideo(Head(q)) THEN 1 ELSE 0
<1>1. /\ Head(q) \in AnyMessages /\ Tail(q) \in Seq(AnyMessages) /\ 1 \in DOMAIN q
      /\ Head(q) = q[1] /\ q = <<Head(q)>> \o Tail(q)
      /\ \A i \in DOMAIN Tail(q) : i + 1 \in DOMAIN q /\ Tail(q)[i] = q[i + 1]
  BY DEF Queues
<1>2. PICK s : s = <<Head(q)>>
  OBVIOUS
<1>3. s \in Seq(AnyMessages) /\ Fragments(s) = IF IsVideo(Head(q)) THEN 1 ELSE 0
  BY <1>1, <1>2, FragmentsOfOne DEF Queues
<1>4. Fragments(s \o Tail(q)) = Fragments(s) + Fragments(Tail(q))
  BY <1>1, <1>3, FragmentsOfBoth
<1>5. Fragments(Tail(q)) \in Nat
  BY <1>1, VideoAtFinite
<1>6. Fragments(q) = Fragments(s) + Fragments(Tail(q))
  BY <1>1, <1>2, <1>4
<1> QED BY <1>1, <1>3, <1>5, <1>6 DEF Queues

-----------------------------------------------------------------------------
(***************************************************************************)
(* The wire.                                                               *)
(***************************************************************************)
LEMMA RoomIsANumber ==
  ASSUME IsWire(wire) PROVE Free(wire) \in Int
<1>1. wire.control \in Seq(AnyMessages) BY DEF IsWire, Queues
<1>2. Len(wire.control) \in Nat BY <1>1
<1>3. Cardinality(wire.video) \in Nat BY FS_CardinalityType DEF IsWire
<1> QED BY <1>2, <1>3, ChannelAssumption DEF Free

LEMMA ValuesFinite ==
  ASSUME NEW q \in Queues
  PROVE  IsFiniteSet(ToSet(q)) /\ ToSet(q) \subseteq AnyMessages
         /\ \A m \in ToSet(q) : \E i \in DOMAIN q : m = q[i]
<1>1. q \in Seq(AnyMessages) /\ Len(q) \in Nat /\ DOMAIN q = 1 .. Len(q)
  BY DEF Queues
<1>2. \A i \in DOMAIN q : q[i] \in AnyMessages
  BY <1>1
<1>3. ToSet(q) = {q[i] : i \in DOMAIN q}
  BY DEF ToSet
<1>4. q \in Surjection(1 .. Len(q), ToSet(q))
  <2>1. q \in [1 .. Len(q) -> ToSet(q)]
    BY <1>1, <1>3
  <2>2. \A m \in ToSet(q) : \E i \in 1 .. Len(q) : q[i] = m
    BY <1>1, <1>3
  <2> QED BY <2>1, <2>2 DEF Surjection
<1>5. IsFiniteSet(1 .. Len(q))
  <2>1. 1 \in Int /\ Len(q) \in Int BY <1>1
  <2> QED BY <2>1, FS_Interval
<1>6. IsFiniteSet(ToSet(q))
  BY <1>4, <1>5, FS_Surjection
<1> QED BY <1>2, <1>3, <1>6

LEMMA CountTo ==
  ASSUME NEW n \in Nat PROVE IsFiniteSet(1 .. n) /\ Cardinality(1 .. n) = n
<1>1. 1 \in Int /\ n \in Int /\ (1 > n => n = 0) OBVIOUS
<1>2. /\ IsFiniteSet(1 .. n)
      /\ Cardinality(1 .. n) = IF 1 > n THEN 0 ELSE n - 1 + 1
  BY <1>1, FS_Interval
<1> QED BY <1>1, <1>2

\* Among sets of numbers of the form 1 .. i there is a smallest.
LEMMA LeastNumber ==
  ASSUME NEW M \in SUBSET Nat, M # {}
  PROVE  \E i \in M : \A j \in M : ~(j < i)
<1> DEFINE T == {1 .. i : i \in M}
           R == StrictSubsetOrdering(Nat)
<1>1. T \subseteq FiniteSubsetsOf(Nat) /\ T # {}
  <2>1. \A i \in M : IsFiniteSet(1 .. i) /\ 1 .. i \in SUBSET Nat BY CountTo
  <2> QED BY <2>1 DEF FiniteSubsetsOf
<1>2. IsWellFoundedOn(R, FiniteSubsetsOf(Nat)) BY FS_StrictSubsetOrderingWellFounded
<1> HIDE DEF R, T
<1>3. PICK x \in T : \A y \in T : ~(<<y, x>> \in R) BY <1>1, <1>2, WFMin
<1>4. PICK i \in M : x = 1 .. i BY <1>3 DEF T
<1>5. ASSUME NEW j \in M, j < i PROVE FALSE
  <2>1. i \in Nat /\ j \in Nat OBVIOUS
  <2>2. 1 .. j \in SUBSET (1 .. i) /\ i \in 1 .. i /\ i \notin 1 .. j BY <1>5, <2>1
  <2>3. 1 .. j \in T /\ 1 .. j \in SUBSET Nat /\ 1 .. i \in SUBSET Nat BY DEF T
  <2>4. <<1 .. j, 1 .. i>> \in R BY <2>2, <2>3 DEF R, StrictSubsetOrdering
  <2> QED BY <1>3, <1>4, <2>3, <2>4
<1> QED BY <1>5

\* Nth: among positions there is a k-th, for each k up to their number.
LEMMA NthIsOne ==
  ASSUME NEW n \in Nat, NEW at \in SUBSET (1 .. n), NEW k \in 1 .. Cardinality(at)
  PROVE  Nth(at, k) \in at
<1> DEFINE Upto(i) == {j \in at : j <= i}
           c(i) == Cardinality(Upto(i))
           M == {i \in 1 .. n : c(i) >= k}
<1>0. \A j \in at : j \in Nat /\ 1 <= j /\ j <= n OBVIOUS
<1>1. IsFiniteSet(at) /\ Cardinality(at) \in Nat
  BY CountTo, FS_Subset, FS_CardinalityType
<1>2. \A i : IsFiniteSet(Upto(i)) /\ c(i) \in Nat
  <2>1. \A i : Upto(i) \in SUBSET at OBVIOUS
  <2> HIDE DEF Upto
  <2> QED BY <1>1, <2>1, FS_Subset, FS_CardinalityType
<1>3. k \in Nat /\ k >= 1 /\ k <= Cardinality(at) BY <1>1
<1>4. Upto(n) = at /\ Upto(0) = {}
  <2>1. \A j \in at : j <= n /\ ~(j <= 0) BY <1>0
  <2> QED BY <2>1
<1>5. \A i \in at : Upto(i) = Upto(i - 1) \cup {i} /\ i \notin Upto(i - 1)
  <2>1. SUFFICES ASSUME NEW i \in at
                 PROVE  Upto(i) = Upto(i - 1) \cup {i} /\ i \notin Upto(i - 1)
    OBVIOUS
  <2>2. \A j \in at : j <= i <=> j <= i - 1 \/ j = i BY <1>0
  <2>3. ~(i <= i - 1) BY <1>0
  <2> QED BY <2>2, <2>3
<1>6. \A i \in 1 .. n : i \notin at => Upto(i) = Upto(i - 1)
  <2>1. \A i \in 1 .. n, j \in at : i # j => (j <= i <=> j <= i - 1) BY <1>0
  <2> QED BY ZenonT(60), <2>1
<1> HIDE DEF Upto
<1>7. n >= 1
  <2>1. at # {} BY <1>3, FS_EmptySet
  <2>2. PICK j \in at : TRUE BY <2>1
  <2> QED BY <1>0, <2>2
<1>8. n \in M BY <1>3, <1>4, <1>7
<1>9. M \in SUBSET Nat OBVIOUS
<1>10. PICK i \in M : \A j \in M : ~(j < i)
  <2> HIDE DEF M
  <2> QED BY <1>8, <1>9, LeastNumber
<1>11. i \in 1 .. n /\ c(i) >= k OBVIOUS
<1>12. c(i - 1) < k
  <2>1. CASE i = 1
    <3>1. c(0) = 0 BY <1>4, FS_EmptySet
    <3> QED BY <1>3, <2>1, <3>1
  <2>2. CASE i # 1
    <3>1. i - 1 \in 1 .. n /\ i - 1 < i BY <1>11, <2>2
    <3>2. i - 1 \notin M BY <1>10, <3>1
    <3>3. ~(c(i - 1) >= k) BY <3>1, <3>2
    <3>4. c(i - 1) \in Nat BY <1>2
    <3> HIDE DEF c
    <3> QED BY <1>3, <3>3, <3>4
  <2> QED BY <2>1, <2>2
<1>13. c(i) \in Nat /\ c(i - 1) \in Nat BY <1>2
<1>14. i \in at
  <2>1. CASE i \notin at
    <3>1. c(i) = c(i - 1) BY <1>6, <1>11, <2>1
    <3> HIDE DEF c
    <3> QED BY <1>3, <1>11, <1>12, <1>13, <3>1
  <2> QED BY <2>1
<1>15. c(i) = c(i - 1) + 1
  BY <1>2, <1>5, <1>14, FS_AddElement
<1>16. c(i) = k
  <2> HIDE DEF c
  <2> QED BY <1>3, <1>11, <1>12, <1>13, <1>15
<1>17. Cardinality({j \in at : j <= i}) = k BY <1>16 DEF Upto
<1> QED BY <1>14, <1>17 DEF Nth

LEMMA ControlsAreOfIt ==
  ASSUME NEW q \in Queues
  PROVE  /\ Controls(q) \in Queues
         /\ \A k \in DOMAIN Controls(q) : \E i \in DOMAIN q : Controls(q)[k] = q[i]
<1> DEFINE at == {i \in DOMAIN q : IsControl(q[i])}
<1>1. q \in Seq(AnyMessages) /\ Len(q) \in Nat /\ DOMAIN q = 1 .. Len(q)
  BY DEF Queues
<1>2. at \in SUBSET (1 .. Len(q)) BY <1>1
<1>3. Cardinality(at) \in Nat
  BY <1>1, <1>2, CountTo, FS_Subset, FS_CardinalityType
<1>4. Controls(q) = [k \in 1 .. Cardinality(at) |-> q[Nth(at, k)]]
  BY DEF Controls
<1> HIDE DEF at
<1>5. \A k \in 1 .. Cardinality(at) : Nth(at, k) \in DOMAIN q /\ q[Nth(at, k)] \in AnyMessages
  <2>1. \A k \in 1 .. Cardinality(at) : Nth(at, k) \in at BY <1>1, <1>2, NthIsOne
  <2>2. \A i \in at : i \in DOMAIN q /\ q[i] \in AnyMessages BY <1>1, <1>2
  <2> QED BY <2>1, <2>2
<1>6. Controls(q) \in [1 .. Cardinality(at) -> AnyMessages]
  BY <1>4, <1>5
<1>7. Controls(q) \in Seq(AnyMessages)
  BY <1>3, <1>6
<1> QED BY <1>4, <1>5, <1>7 DEF Queues

LEMMA TakenIsAWire ==
  ASSUME IsWire(wire), NEW q \in Queues
  PROVE  /\ IsWire(Taken(q))
         /\ \A m \in Taken(q).video :
               m \in wire.video \/ (IsVideo(m) /\ \E i \in DOMAIN q : m = q[i])
         /\ wire.video \subseteq Taken(q).video
         /\ Taken(q).control = wire.control \o Controls(q)
<1> DEFINE c == wire.control \o Controls(q)
           v == wire.video \cup {m \in ToSet(q) : IsVideo(m)}
<1>1. Taken(q) = [control |-> c, video |-> v]
  BY DEF Taken
<1>2. c \in Queues
  <2>1. wire.control \in Seq(AnyMessages) /\ Controls(q) \in Seq(AnyMessages)
    BY ControlsAreOfIt DEF IsWire, Queues
  <2> QED BY <2>1, ConcatFacts DEF Queues
<1>3. v \subseteq AnyMessages /\ IsFiniteSet(v)
  <2>1. IsFiniteSet(ToSet(q)) /\ ToSet(q) \subseteq AnyMessages BY ValuesFinite
  <2>2. {m \in ToSet(q) : IsVideo(m)} \in SUBSET ToSet(q) OBVIOUS
  <2>3. IsFiniteSet({m \in ToSet(q) : IsVideo(m)}) BY <2>1, <2>2, FS_Subset
  <2>4. IsFiniteSet(wire.video) /\ wire.video \subseteq AnyMessages BY DEF IsWire
  <2> QED BY <2>1, <2>2, <2>3, <2>4, FS_Union
<1>4. \A m \in v : m \in wire.video \/ (IsVideo(m) /\ \E i \in DOMAIN q : m = q[i])
  BY ValuesFinite
<1>9. wire.video \subseteq v OBVIOUS
<1>10. c = wire.control \o Controls(q) OBVIOUS
<1> HIDE DEF c, v
<1>5. PICK w : w = Taken(q) OBVIOUS
<1>6. w = [control |-> c, video |-> v] BY <1>1, <1>5
<1>7. w.control = c /\ w.video = v BY <1>6
<1>8. IsWire(w) BY <1>2, <1>3, <1>6, <1>7 DEF IsWire
<1> QED BY <1>4, <1>5, <1>7, <1>8, <1>9, <1>10

-----------------------------------------------------------------------------
(***************************************************************************)
(* Publications.                                                           *)
(***************************************************************************)
LEMMA SomeOfSent ==
  ASSUME NEW ps, NEW q, NEW r, AllSent(ps, q),
         \A i \in DOMAIN r : \E j \in DOMAIN q : r[i] = q[j]
  PROVE  AllSent(ps, r)
BY DEF AllSent

LEMMA BothSent ==
  ASSUME NEW ps, NEW s \in Queues, NEW t \in Queues, AllSent(ps, s), AllSent(ps, t)
  PROVE  s \o t \in Queues /\ AllSent(ps, s \o t)
<1>1. /\ Len(s) \in Nat /\ Len(t) \in Nat /\ DOMAIN s = 1 .. Len(s) /\ DOMAIN t = 1 .. Len(t)
      /\ DOMAIN (s \o t) = 1 .. Len(s) + Len(t) /\ s \o t \in Seq(AnyMessages)
      /\ \A k \in 1 .. Len(s) : (s \o t)[k] = s[k]
      /\ \A k \in 1 .. Len(t) : (s \o t)[k + Len(s)] = t[k]
  BY ConcatFacts DEF Queues
<1>2. ASSUME NEW i \in DOMAIN (s \o t) PROVE Sent(ps, (s \o t)[i])
  <2>1. CASE i <= Len(s)
    <3>1. i \in 1 .. Len(s) BY <1>1, <2>1
    <3> QED BY <1>1, <3>1 DEF AllSent
  <2>2. CASE ~(i <= Len(s))
    <3>1. i - Len(s) \in 1 .. Len(t) /\ (i - Len(s)) + Len(s) = i BY <1>1, <2>2
    <3>2. (s \o t)[i] = t[i - Len(s)] BY <1>1, <3>1
    <3> QED BY <1>1, <3>1, <3>2 DEF AllSent
  <2> QED BY <2>1, <2>2
<1> QED BY <1>1, <1>2 DEF AllSent, Queues

LEMMA MessagesOfAFrame ==
  ASSUME pubs \in Seq(Publications), NEW n \in 1 .. Len(pubs)
  PROVE  /\ FrameMessages(n) \in Queues /\ AllSent(pubs, FrameMessages(n))
         /\ Fragments(FrameMessages(n)) \in Nat /\ Fragments(FrameMessages(n)) <= MaxTotal
<1> DEFINE T == pubs[n].total
           F == [i \in 1 .. T |-> Fragment(n, i)]
<1>1. n \in Nat /\ T \in 1 .. MaxTotal /\ MaxTotal \in Nat /\ T \in Nat
  <2>1. pubs[n] \in Publications /\ n \in Nat OBVIOUS
  <2>2. T \in 1 .. MaxTotal BY <2>1 DEF Publications
  <2> QED BY <2>1, <2>2, ChannelAssumption
<1> HIDE DEF T
<1>2. F \in Seq(AnyMessages) /\ Len(F) = T /\ DOMAIN F = 1 .. T
  <2>1. \A i \in 1 .. T : Fragment(n, i) \in AnyMessages
    BY <1>1 DEF Fragment, AnyMessages
  <2> QED BY <1>1, <2>1
<1>3. \A i \in 1 .. T : F[i] = Fragment(n, i)
  OBVIOUS
<1>4. FrameMessages(n) = <<Start(n)>> \o F \o <<End(n)>>
  BY DEF FrameMessages, Total, T
<1> HIDE DEF F
<1>5. PICK s, e : s = <<Start(n)>> /\ e = <<End(n)>>
  OBVIOUS
<1>6. /\ Start(n) \in AnyMessages /\ ~IsVideo(Start(n))
      /\ End(n) \in AnyMessages /\ ~IsVideo(End(n))
  BY <1>1 DEF Start, End, AnyMessages, IsVideo
<1>7. /\ s \in Seq(AnyMessages) /\ Fragments(s) = 0 /\ DOMAIN s = {1} /\ s[1] = Start(n)
      /\ e \in Seq(AnyMessages) /\ Fragments(e) = 0 /\ DOMAIN e = {1} /\ e[1] = End(n)
  BY <1>5, <1>6, FragmentsOfOne DEF Queues
<1>8. /\ s \o F \in Seq(AnyMessages) /\ (s \o F) \o e \in Seq(AnyMessages)
      /\ FrameMessages(n) = (s \o F) \o e
  <2>1. s \o F \in Seq(AnyMessages) BY <1>2, <1>7, ConcatFacts
  <2>2. (s \o F) \o e \in Seq(AnyMessages) BY <2>1, <1>7, ConcatFacts
  <2> QED BY <1>4, <1>5, <2>1, <2>2
<1>9. Fragments(FrameMessages(n)) = Fragments(F) /\ Fragments(F) <= T /\ Fragments(F) \in Nat
  <2>1. Fragments(F) <= T /\ Fragments(F) \in Nat BY <1>2, VideoAtFinite
  <2>2. Fragments(s \o F) = Fragments(s) + Fragments(F) BY <1>2, <1>7, FragmentsOfBoth
  <2>3. Fragments((s \o F) \o e) = Fragments(s \o F) + Fragments(e)
    BY <1>7, <1>8, FragmentsOfBoth
  <2> QED BY <1>7, <1>8, <2>1, <2>2, <2>3
<1>10. Sent(pubs, Start(n)) /\ Sent(pubs, End(n)) /\ \A i \in 1 .. T : Sent(pubs, Fragment(n, i))
  <2>1. ASSUME NEW i \in 1 .. T PROVE Sent(pubs, Fragment(n, i))
    <3>1. Fragment(n, i).n = n BY DEF Fragment
    <3>2. Fragment(n, i) \in Whole(pubs, n) BY DEF Whole, T
    <3> QED BY <3>1, <3>2 DEF Sent
  <2>2. Start(n).n = n /\ End(n).n = n BY DEF Start, End
  <2> QED BY <1>6, <2>1, <2>2 DEF Sent
<1>11. AllSent(pubs, s) /\ AllSent(pubs, F) /\ AllSent(pubs, e)
  BY <1>2, <1>3, <1>7, <1>10 DEF AllSent
<1>12. AllSent(pubs, s \o F) /\ AllSent(pubs, (s \o F) \o e)
  BY <1>2, <1>7, <1>8, <1>11, BothSent DEF Queues
<1> QED BY <1>1, <1>8, <1>9, <1>12 DEF Queues

LEMMA PublicationsStay ==
  ASSUME NEW ps \in Seq(Publications), NEW r \in Publications
  PROVE  /\ Append(ps, r) \in Seq(Publications) /\ Len(Append(ps, r)) = Len(ps) + 1
         /\ Len(ps) \in Nat
         /\ \A n \in 1 .. Len(ps) : n \in 1 .. Len(Append(ps, r)) /\ Append(ps, r)[n] = ps[n]
                                    /\ Whole(Append(ps, r), n) = Whole(ps, n)
         /\ \A m : Sent(ps, m) => Sent(Append(ps, r), m)
         /\ \A f : FrameOk(ps, f) => FrameOk(Append(ps, r), f)
<1>1. /\ Append(ps, r) \in Seq(Publications) /\ Len(Append(ps, r)) = Len(ps) + 1
      /\ Len(ps) \in Nat
      /\ \A n \in 1 .. Len(ps) : n \in 1 .. Len(Append(ps, r)) /\ Append(ps, r)[n] = ps[n]
  OBVIOUS
<1> DEFINE qs == Append(ps, r)
<1> HIDE DEF qs
<1>2. \A n \in 1 .. Len(ps) : n \in 1 .. Len(qs) /\ qs[n] = ps[n]
  BY <1>1 DEF qs
<1>3. \A n \in 1 .. Len(ps) : Whole(qs, n) = Whole(ps, n)
  BY <1>2 DEF Whole
<1>4. \A m : Sent(ps, m) => Sent(qs, m)
  BY <1>2, <1>3 DEF Sent
<1>5. \A f : FrameOk(ps, f) => FrameOk(qs, f)
  BY <1>2, <1>3 DEF FrameOk
<1> QED BY <1>1, <1>2, <1>3, <1>4, <1>5 DEF qs

LEMMA TotalIsPositive ==
  ASSUME pubs \in Seq(Publications), NEW n \in 1 .. Len(pubs) PROVE Total(n) \in Nat \ {0}
<1>1. pubs[n] \in Publications OBVIOUS
<1> QED BY <1>1, ChannelAssumption DEF Publications, Total

LEMMA WholeCounts ==
  ASSUME pubs \in Seq(Publications), NEW n \in 1 .. Len(pubs)
  PROVE  IsFiniteSet(Whole(pubs, n)) /\ Cardinality(Whole(pubs, n)) = pubs[n].total
<1> DEFINE T == pubs[n].total
           f == [i \in 1 .. T |-> Fragment(n, i)]
<1>1. T \in Nat /\ T >= 1
  <2>1. pubs[n] \in Publications OBVIOUS
  <2> QED BY <2>1, ChannelAssumption DEF Publications
<1>2. Whole(pubs, n) = {Fragment(n, i) : i \in 1 .. T}
  BY DEF Whole
<1> HIDE DEF T
<1>3. \A i, j \in 1 .. T : Fragment(n, i) = Fragment(n, j) => i = j
  BY DEF Fragment
<1>4. f \in Bijection(1 .. T, Whole(pubs, n))
  <2>1. f \in [1 .. T -> Whole(pubs, n)] BY <1>2
  <2>2. \A i, j \in 1 .. T : f[i] = f[j] => i = j BY <1>3
  <2>3. \A m \in Whole(pubs, n) : \E i \in 1 .. T : f[i] = m BY <1>2
  <2> QED BY <2>1, <2>2, <2>3 DEF Bijection, Injection, Surjection, IsInjective
<1>5. IsFiniteSet(1 .. T) /\ Cardinality(1 .. T) = T
  <2>1. 1 \in Int /\ T \in Int /\ ~(1 > T) BY <1>1
  <2>2. IsFiniteSet(1 .. T) /\ Cardinality(1 .. T) = IF 1 > T THEN 0 ELSE T - 1 + 1
    BY <2>1, FS_Interval
  <2> QED BY <1>1, <2>1, <2>2
<1>6. IsFiniteSet(Whole(pubs, n)) /\ Cardinality(Whole(pubs, n)) = Cardinality(1 .. T)
  BY <1>4, <1>5, FS_Bijection DEF ExistsBijection
<1> QED BY <1>5, <1>6 DEF T

-----------------------------------------------------------------------------
(***************************************************************************)
(* The Assembler: every operation leaves frames that are sound.            *)
(***************************************************************************)
GoodPage(p) == IsPage(p) /\ Sound(pubs, p.frames)

LEMMA FewerSound ==
  ASSUME NEW ps, NEW fs, NEW gs, Sound(ps, fs), gs \subseteq fs
  PROVE  Sound(ps, gs)
BY DEF Sound

LEMMA PlacedSound ==
  ASSUME NEW ps, NEW fs, Sound(ps, fs) PROVE Sound(ps, Placed(fs))
<1> DEFINE At(f) == Cardinality({g \in fs : g.place <= f.place})
           Put(f) == [f EXCEPT !.place = At(f)]
<1>1. Placed(fs) = {Put(f) : f \in fs}
  BY DEF Placed
<1>2. ASSUME NEW f \in fs
      PROVE FrameOk(ps, Put(f)) /\ Put(f).id = f.id
  <2>1. IsFrame(f) /\ FrameOk(ps, f) BY DEF Sound, FrameOk
  <2>2. PICK x : x = At(f) OBVIOUS
  <2>3. PICK g : g = [f EXCEPT !.place = x] OBVIOUS
  <2>4. g = [id |-> f.id, total |-> f.total, published |-> f.published, got |-> f.got,
             place |-> x]
    BY <2>1, <2>3 DEF IsFrame
  <2>5. IsFrame(g) /\ g.id = f.id /\ g.total = f.total /\ g.published = f.published /\ g.got = f.got
    BY <2>4 DEF IsFrame
  <2>6. FrameOk(ps, g) BY <2>1, <2>5 DEF FrameOk
  <2>7. g = Put(f) BY <2>2, <2>3
  <2> QED BY <2>5, <2>6, <2>7
<1> HIDE DEF Put
<1>3. \A f, g \in fs : f.id = g.id => f = g
  BY DEF Sound
<1>4. ASSUME NEW a \in Placed(fs), NEW b \in Placed(fs), a.id = b.id PROVE a = b
  <2>1. PICK f \in fs, g \in fs : a = Put(f) /\ b = Put(g) BY <1>1
  <2>2. f.id = g.id BY <1>2, <1>4, <2>1
  <2> QED BY <1>3, <2>1, <2>2
<1>5. \A a \in Placed(fs) : FrameOk(ps, a) BY <1>1, <1>2
<1> QED BY <1>4, <1>5 DEF Sound

LEMMA WithoutSound ==
  ASSUME NEW ps, NEW fs, NEW ids, Sound(ps, fs) PROVE Sound(ps, Without(fs, ids))
<1>1. Sound(ps, {f \in fs : f.id \notin ids}) BY FewerSound
<1> QED BY <1>1, PlacedSound DEF Without

Pages(A, B, C, D, E, G) ==
    [frames : A, retired : B, lastRendered : C, latestPublished : D, latestId : E, floor : G]

LEMMA PageHasItsFields ==
  ASSUME NEW p, IsPage(p)
  PROVE  \E A, B, C, D, E, G : p \in Pages(A, B, C, D, E, G)
<1>1. p \in Pages({p.frames}, {p.retired}, {p.lastRendered}, {p.latestPublished},
                  {p.latestId}, {p.floor})
  BY DEF IsPage, Pages
<1> QED BY <1>1

LEMMA FieldsMakeAPage ==
  ASSUME NEW A, NEW B, NEW C, NEW D, NEW E, NEW G, NEW p \in Pages(A, B, C, D, E, G)
  PROVE  IsPage(p) /\ p.frames \in A
BY DEF IsPage, Pages

LEMMA FramesReplaced ==
  ASSUME NEW p, IsPage(p), NEW F, NEW R, Sound(pubs, F), NEW q,
         \/ q = [p EXCEPT !.frames = F]
         \/ q = [p EXCEPT !.frames = F, !.retired = R]
         \/ q = [p EXCEPT !.frames = F, !.lastRendered = R]
  PROVE  GoodPage(q)
<1>1. PICK A, B, C, D, E, G : p \in Pages(A, B, C, D, E, G)
  BY PageHasItsFields
<1>2. \E S, T : q \in Pages({F}, S, T, D, E, G)
  <2>1. CASE q = [p EXCEPT !.frames = F]
    <3>1. q \in Pages({F}, B, C, D, E, G) BY <1>1, <2>1 DEF Pages
    <3> QED BY <3>1
  <2>2. CASE q = [p EXCEPT !.frames = F, !.retired = R]
    <3>1. q \in Pages({F}, {R}, C, D, E, G) BY <1>1, <2>2 DEF Pages
    <3> QED BY <3>1
  <2>3. CASE q = [p EXCEPT !.frames = F, !.lastRendered = R]
    <3>1. q \in Pages({F}, B, {R}, D, E, G) BY <1>1, <2>3 DEF Pages
    <3> QED BY <3>1
  <2> QED BY <2>1, <2>2, <2>3
<1>3. IsPage(q) /\ q.frames \in {F} BY <1>2, FieldsMakeAPage
<1> QED BY <1>3 DEF GoodPage

LEMMA DiscardGood ==
  ASSUME NEW p, NEW ids, GoodPage(p) PROVE GoodPage(Discard(p, ids))
<1>1. Sound(pubs, Without(p.frames, ids)) BY WithoutSound DEF GoodPage
<1>2. PICK F, R : F = Without(p.frames, ids) /\ R = p.retired \cup ids OBVIOUS
<1>3. PICK q : q = [p EXCEPT !.frames = F, !.retired = R] OBVIOUS
<1>4. Discard(p, ids) = q BY <1>2, <1>3 DEF Discard
<1>5. IsPage(p) /\ Sound(pubs, F) BY <1>1, <1>2 DEF GoodPage
<1>6. GoodPage(q) BY <1>3, <1>5, FramesReplaced
<1> QED BY <1>4, <1>6

LEMMA PruneGood ==
  ASSUME NEW p, NEW k, NEW gone, GoodPage(p) PROVE GoodPage(Prune(p, k, gone))
<1>1. PICK old : Prune(p, k, gone) = [Discard(p, Ids(old)) EXCEPT !.retired = @ \ gone]
  BY DEF Prune
<1>2. PICK d : d = Discard(p, Ids(old)) OBVIOUS
<1>3. GoodPage(d) BY <1>2, DiscardGood
<1>4. PICK R : R = d.retired \ gone OBVIOUS
<1>5. PICK q : q = [d EXCEPT !.retired = R] OBVIOUS
<1>6. q = Prune(p, k, gone) BY <1>1, <1>2, <1>4, <1>5
<1>7. IsPage(q) /\ q.frames = d.frames
  <2>1. PICK A, B, C, D, E, G : d \in Pages(A, B, C, D, E, G)
    BY <1>3, PageHasItsFields DEF GoodPage
  <2>2. q \in Pages(A, {R}, C, D, E, G) /\ q.frames = d.frames BY <1>5, <2>1 DEF Pages
  <2> QED BY <2>2, FieldsMakeAPage
<1> QED BY <1>3, <1>6, <1>7 DEF GoodPage

LEMMA EnsureGood ==
  ASSUME NEW p, NEW id, NEW total \in Nat \ {0}, GoodPage(p)
  PROVE  GoodPage(EnsureFrame(p, id, total))
<1>1. CASE Refuses(p, id) \/ Has(p, id)
  BY <1>1 DEF EnsureFrame
<1>2. CASE ~(Refuses(p, id) \/ Has(p, id))
  <2>1. PICK f : f = NewFrame(p, id, total) OBVIOUS
  <2>2. f.id = id /\ f.published = 0 /\ f.got = {} /\ f.total = total /\ IsFrame(f)
    BY <2>1 DEF NewFrame, IsFrame
  <2>3. FrameOk(pubs, f) BY <2>2 DEF FrameOk
  <2>4. \A g \in p.frames : g.id # id BY <1>2 DEF Has, Ids
  <2>5. PICK F : F = p.frames \cup {f} OBVIOUS
  <2>6. Sound(pubs, F) BY <2>2, <2>3, <2>4, <2>5 DEF Sound, GoodPage
  <2>7. PICK q : q = [p EXCEPT !.frames = F] OBVIOUS
  <2>8. EnsureFrame(p, id, total) = q
    BY <1>2, <2>1, <2>5, <2>7 DEF EnsureFrame
  <2>9. GoodPage(q) BY <2>6, <2>7, FramesReplaced DEF GoodPage
  <2> QED BY <2>8, <2>9
<1> QED BY <1>1, <1>2

LEMMA AddedGood ==
  ASSUME NEW p, NEW m, GoodPage(p), IsVideo(m), Sent(pubs, m),
         Belongs(FrameOf(p, IdOf(m.n)), m.n)
  PROVE  GoodPage(WithFragment(p, m))
<1> DEFINE Got(f) == IF \E g \in f.got : g.index = m.index THEN f.got ELSE f.got \cup {m}
           Add(f) == IF f.id # IdOf(m.n) THEN f
                     ELSE [f EXCEPT !.published = m.n, !.got = Got(f)]
           F == {Add(f) : f \in p.frames}
<1>1. /\ \A f \in p.frames : FrameOk(pubs, f) /\ IsFrame(f)
      /\ \A f, g \in p.frames : f.id = g.id => f = g
  BY DEF GoodPage, Sound, FrameOk
<1>2. m.n \in 1 .. Len(pubs) /\ m \in Whole(pubs, m.n) /\ m.n # 0
  BY DEF Sent
<1>3. ASSUME NEW f \in p.frames PROVE FrameOk(pubs, Add(f)) /\ Add(f).id = f.id
  <2>1. CASE f.id # IdOf(m.n) BY <1>1, <2>1
  <2>2. CASE f.id = IdOf(m.n)
    <3>1. FrameOf(p, IdOf(m.n)) = f BY <1>1, <2>2 DEF FrameOf
    <3>2. f.total = pubs[m.n].total /\ (f.published = 0 \/ f.published = m.n)
      BY <3>1 DEF Belongs, Total
    <3>3. PICK x : x = Got(f) OBVIOUS
    <3>4. x \subseteq Whole(pubs, m.n)
      <4>1. f.got \subseteq Whole(pubs, m.n) BY <1>1, <3>2 DEF FrameOk
      <4> QED BY <1>2, <3>3, <4>1
    <3>5. PICK g : g = [f EXCEPT !.published = m.n, !.got = x] OBVIOUS
    <3>6. f \in [id : {f.id}, total : {f.total}, published : {f.published}, got : {f.got},
                 place : {f.place}]
      BY <1>1 DEF IsFrame
    <3>7. g \in [id : {f.id}, total : {f.total}, published : {m.n}, got : {x}, place : {f.place}]
      BY <3>5, <3>6
    <3>8. IsFrame(g) /\ g.id = f.id /\ g.total = f.total /\ g.published = m.n /\ g.got = x
      BY <3>7 DEF IsFrame
    <3>9. FrameOk(pubs, g) BY <1>1, <1>2, <3>2, <3>4, <3>8 DEF FrameOk
    <3>10. Add(f) = g BY <2>2, <3>3, <3>5
    <3> QED BY <3>8, <3>9, <3>10
  <2> QED BY <2>1, <2>2
<1>4. WithFragment(p, m) = [p EXCEPT !.frames = F]
  BY DEF WithFragment
<1> HIDE DEF Add
<1>5. Sound(pubs, F)
  <2>1. \A f \in F : FrameOk(pubs, f) BY <1>3
  <2>2. ASSUME NEW a \in F, NEW b \in F, a.id = b.id PROVE a = b
    <3>1. PICK f \in p.frames, g \in p.frames : a = Add(f) /\ b = Add(g) OBVIOUS
    <3> QED BY <1>1, <1>3, <2>2, <3>1
  <2> HIDE DEF F
  <2> QED BY <2>1, <2>2 DEF Sound
<1> HIDE DEF F
<1>6. PICK q : q = [p EXCEPT !.frames = F] OBVIOUS
<1>7. GoodPage(q) BY <1>5, <1>6, FramesReplaced DEF GoodPage
<1> QED BY <1>4, <1>6, <1>7

LEMMA AcceptGood ==
  ASSUME NEW before, NEW m, NEW k, NEW gone, GoodPage(before), IsVideo(m), Sent(pubs, m),
         pubs \in Seq(Publications)
  PROVE  GoodPage(Accept(before, m, k, gone))
<1> DEFINE id == IdOf(m.n)
           p == Restarted(before, m.n)
           l == Latest(p, m.n)
           q == EnsureFrame(Prune(l, k, gone), id, Total(m.n))
<1>1. GoodPage(p)
  <2>1. CASE Restarts(before, m.n)
    <3>1. p = [FreshPage EXCEPT !.floor = m.n] BY <2>1 DEF Restarted
    <3>2. p.frames = {} /\ IsPage(p) BY <3>1 DEF FreshPage, IsPage
    <3> QED BY <3>2 DEF GoodPage, Sound
  <2>2. CASE ~Restarts(before, m.n)
    BY <2>2 DEF Restarted
  <2> QED BY <2>1, <2>2
<1> HIDE DEF p
<1>2. GoodPage(l)
  <2>1. CASE m.n > p.latestPublished
    <3>1. l = [p EXCEPT !.latestPublished = m.n, !.latestId = IdOf(m.n)] BY <2>1 DEF Latest
    <3>2. l.frames = p.frames /\ IsPage(l) BY <1>1, <3>1 DEF GoodPage, IsPage
    <3> QED BY <1>1, <3>2 DEF GoodPage
  <2>2. CASE ~(m.n > p.latestPublished)
    BY <1>1, <2>2 DEF Latest
  <2> QED BY <2>1, <2>2
<1> HIDE DEF l
<1>3. GoodPage(q)
  <2>1. Total(m.n) \in Nat \ {0} BY TotalIsPositive DEF Sent
  <2> QED BY <1>2, <2>1, PruneGood, EnsureGood
<1> HIDE DEF q
<1>4. GoodPage(Discard(q, {id})) BY <1>3, DiscardGood
<1>5. ASSUME Belongs(FrameOf(q, id), m.n) PROVE GoodPage(Trim(WithFragment(q, m)))
  BY <1>3, <1>5, AddedGood, PruneGood DEF Trim
<1>6. Accept(before, m, k, gone) =
        IF m.n < p.floor THEN p
        ELSE IF Refuses(q, id) THEN q
        ELSE IF ~Belongs(FrameOf(q, id), m.n) THEN Discard(q, {id})
        ELSE Trim(WithFragment(q, m))
  BY DEF Accept, p, l, q
<1> QED BY <1>1, <1>3, <1>4, <1>5, <1>6

LEMMA FinishedGood ==
  ASSUME NEW p, NEW id, GoodPage(p) PROVE GoodPage(Finished(p, id))
<1>1. PICK F : F = Without(p.frames, {id}) OBVIOUS
<1>2. Sound(pubs, F) BY <1>1, WithoutSound DEF GoodPage
<1>3. PICK q : q = [p EXCEPT !.frames = F, !.lastRendered = id] OBVIOUS
<1>4. GoodPage(q) BY <1>2, <1>3, FramesReplaced DEF GoodPage
<1>5. PICK ids : Finished(p, id) = Discard(q, ids) BY <1>1, <1>3 DEF Finished
<1> QED BY <1>4, <1>5, DiscardGood

LEMMA RenderGood ==
  ASSUME NEW p, NEW id, GoodPage(p), Render(p, id), pubs \in Seq(Publications), Image
  PROVE  /\ GoodPage(page')
         /\ shown'.n # 0 => shown'.n \in 1 .. Len(pubs) /\ shown'.parts = Whole(pubs, shown'.n)
<1>1. CASE CanRender(p, id) /\ ~Passed(p, id)
  <2>1. page' = Trim(Finished(p, id)) /\ shown' = [n |-> FrameOf(p, id).published,
                                                   parts |-> FrameOf(p, id).got]
    BY <1>1 DEF Render
  <2>2. GoodPage(page') BY <2>1, FinishedGood, PruneGood DEF Trim
  <2>3. PICK f : f = FrameOf(p, id) OBVIOUS
  <2>4. shown'.n = f.published /\ shown'.parts = f.got BY <2>1, <2>3
  <2>5. f \in p.frames BY <1>1, <2>3 DEF CanRender, Has, Ids, FrameOf
  <2>6. FrameOk(pubs, f) /\ Cardinality(f.got) = f.total
    BY <1>1, <2>3, <2>5 DEF GoodPage, Sound, CanRender
  <2>7. ASSUME f.published # 0
        PROVE f.published \in 1 .. Len(pubs) /\ f.got = Whole(pubs, f.published)
    <3>1. /\ f.published \in 1 .. Len(pubs) /\ f.total = pubs[f.published].total
          /\ f.got \subseteq Whole(pubs, f.published)
      BY <2>6, <2>7 DEF FrameOk
    <3>2. /\ IsFiniteSet(Whole(pubs, f.published))
          /\ Cardinality(Whole(pubs, f.published)) = pubs[f.published].total
      BY <3>1, WholeCounts
    <3>3. Cardinality(f.got) = Cardinality(Whole(pubs, f.published)) BY <2>6, <3>1, <3>2
    <3> QED BY <3>1, <3>2, <3>3, FS_Subset
  <2> QED BY <2>2, <2>4, <2>7
<1>2. CASE CanRender(p, id) /\ Passed(p, id)
  <2>1. page' = Trim(Discard(p, {id})) /\ shown' = shown BY <1>2 DEF Render
  <2> QED BY <2>1, DiscardGood, PruneGood DEF Trim, Image
<1>3. CASE ~CanRender(p, id)
  <2>1. page' = Trim(p) /\ shown' = shown BY <1>3 DEF Render
  <2> QED BY <2>1, PruneGood DEF Trim, Image
<1> QED BY <1>1, <1>2, <1>3

-----------------------------------------------------------------------------
(***************************************************************************)
(* The queue of SctpTransport.                                             *)
(***************************************************************************)
LEMMA Drained ==
  ASSUME Typed, Amounts, Sending
  PROVE  LET f == Flushed(sctp.queue) r == Remains(sctp.queue)
         IN  /\ f \in Queues /\ r \in Queues /\ AllSent(pubs, f) /\ AllSent(pubs, r)
             /\ Fragments(f) \in Nat /\ Fragments(r) \in Nat
             /\ Fragments(f) + Fragments(r) = Fragments(sctp.queue)
             /\ Updated(sctp.buffered, -Fragments(f)) = Fragments(r)
<1> DEFINE f == Flushed(sctp.queue)
           r == Remains(sctp.queue)
<1>1. sctp.queue \in Queues /\ Free(wire) \in Int
  BY RoomIsANumber DEF Typed, SctpType
<1>2. /\ f \in Queues /\ r \in Queues /\ Fragments(f) + Fragments(r) = Fragments(sctp.queue)
      /\ \A i \in DOMAIN f : \E j \in DOMAIN sctp.queue : f[i] = sctp.queue[j]
      /\ \A i \in DOMAIN r : \E j \in DOMAIN sctp.queue : r[i] = sctp.queue[j]
  BY <1>1, Splits
<1>3. AllSent(pubs, f) /\ AllSent(pubs, r) BY <1>2, SomeOfSent DEF Sending
<1>4. Fragments(f) \in Nat /\ Fragments(r) \in Nat BY <1>2, VideoAtFinite DEF Queues
<1>5. Updated(sctp.buffered, -Fragments(f)) = Fragments(r)
  <2>1. sctp.buffered = Fragments(f) + Fragments(r) BY <1>2 DEF Amounts
  <2> HIDE DEF f, r
  <2> QED BY <1>4, <2>1 DEF Updated
<1> QED BY <1>2, <1>3, <1>4, <1>5

\* What goes to usrsctp leaves a wire, and fragments on it that were sent.
LEMMA WireAfter ==
  ASSUME Typed, Sending, NEW q \in Queues, AllSent(pubs, q)
  PROVE  /\ IsWire(Taken(q)) /\ AllSent(pubs, Taken(q).control)
         /\ \A m \in Taken(q).video : IsVideo(m) /\ Sent(pubs, m)
<1>1. IsWire(wire) /\ wire.control \in Queues /\ AllSent(pubs, wire.control)
  BY DEF Typed, IsWire, Sending
<1>2. Controls(q) \in Queues /\ AllSent(pubs, Controls(q)) BY ControlsAreOfIt, SomeOfSent
<1>3. AllSent(pubs, wire.control \o Controls(q)) BY <1>1, <1>2, BothSent
<1> QED BY <1>1, <1>3, TakenIsAWire DEF Sending, AllSent

LEMMA SendKeeps ==
  ASSUME Inv, SendNext PROVE Inv'
<1> DEFINE f == Flushed(sctp.queue)
           r == Remains(sctp.queue)
           m == Head(gateway.todo)
           rest == Tail(gateway.todo)
           b == IF IsVideo(m) THEN 1 ELSE 0
<1>1. Typed /\ Amounts /\ Sending /\ Assembly /\ Image BY DEF Inv
<1>2. /\ gateway.todo # <<>> /\ Send(m) /\ gateway' = [gateway EXCEPT !.todo = rest]
      /\ UNCHANGED <<capture, pubs, page, shown>>
  BY DEF SendNext
<1>3. /\ f \in Queues /\ r \in Queues /\ AllSent(pubs, f) /\ AllSent(pubs, r)
      /\ Fragments(f) \in Nat /\ Fragments(r) \in Nat
      /\ Fragments(f) + Fragments(r) = Fragments(sctp.queue)
      /\ Updated(sctp.buffered, -Fragments(f)) = Fragments(r)
  BY <1>1, Drained
<1>4. /\ gateway.todo \in Queues /\ m \in AnyMessages /\ rest \in Queues
      /\ Sent(pubs, m) /\ AllSent(pubs, rest)
      /\ Fragments(gateway.todo) = Fragments(rest) + b /\ Fragments(rest) \in Nat
  <2>1. gateway.todo \in Queues BY <1>1 DEF Typed, GatewayType
  <2>2. /\ m \in AnyMessages /\ rest \in Queues /\ 1 \in DOMAIN gateway.todo
        /\ m = gateway.todo[1]
        /\ \A i \in DOMAIN rest : i + 1 \in DOMAIN gateway.todo /\ rest[i] = gateway.todo[i + 1]
        /\ Fragments(gateway.todo) = Fragments(rest) + b
    BY <1>2, <2>1, FirstAndRest
  <2>3. AllSent(pubs, gateway.todo) BY <1>1 DEF Sending
  <2>4. Fragments(rest) \in Nat BY <2>2, VideoAtFinite DEF Queues
  <2> QED BY <2>1, <2>2, <2>3, <2>4 DEF AllSent
<1>5. PICK one : one = <<m>> OBVIOUS
<1>6. one \in Queues /\ AllSent(pubs, one) /\ Fragments(one) = b
  <2>1. /\ one \in Queues /\ DOMAIN one = {1} /\ one[1] = m /\ Fragments(one) = b
    BY <1>4, <1>5, FragmentsOfOne
  <2> QED BY <1>4, <2>1 DEF AllSent
<1>7. PICK direct \in BOOLEAN : direct <=> Len(sctp.queue) < Free(wire) OBVIOUS
<1>8. PICK over, kept : /\ over = f \o IF direct THEN one ELSE <<>>
                        /\ kept = r \o IF direct THEN <<>> ELSE one
  OBVIOUS
<1>9. PICK new \in Nat : new = IF b = 1 /\ ~direct THEN 1 ELSE 0 OBVIOUS
<1>10. PICK amount : amount = Updated(Fragments(r), new) OBVIOUS
<1>11. amount = Fragments(r) + new /\ amount \in Nat
  BY <1>3, <1>9, <1>10 DEF Updated
<1>12. /\ wire' = Taken(over)
       /\ sctp' = [sctp EXCEPT !.queue = kept, !.buffered = amount]
  <2>1. IsVideo(m) <=> b = 1 OBVIOUS
  <2>2. PICK ext : ext = IF IsVideo(m) /\ ~direct THEN 1 ELSE 0 OBVIOUS
  <2>3. ext = new BY <1>9, <2>1, <2>2
  <2>4. wire' = Taken(f \o IF direct THEN <<m>> ELSE <<>>) BY <1>2, <1>7 DEF Send
  <2>5. sctp' = [sctp EXCEPT !.queue = r \o IF direct THEN <<>> ELSE <<m>>,
                             !.buffered = Updated(Updated(sctp.buffered, -Fragments(f)), ext)]
    BY <1>2, <1>7, <2>2 DEF Send
  <2> HIDE DEF f, r, m
  <2> QED BY <1>3, <1>5, <1>8, <1>10, <2>3, <2>4, <2>5
<1> HIDE DEF f, r, m, rest, b
<1>13. /\ over \in Queues /\ AllSent(pubs, over) /\ kept \in Queues /\ AllSent(pubs, kept)
       /\ Fragments(kept) = amount
  <2>1. <<>> \in Queues /\ Fragments(<<>>) = 0 /\ AllSent(pubs, <<>>)
    BY FragmentsOfNone DEF AllSent
  <2>2. PICK none : none = <<>> OBVIOUS
  <2>3. none \in Queues /\ Fragments(none) = 0 /\ AllSent(pubs, none) BY <2>1, <2>2
  <2>4. PICK s, t : s = (IF direct THEN one ELSE none) /\ t = (IF direct THEN none ELSE one)
    OBVIOUS
  <2>5. /\ s \in Queues /\ AllSent(pubs, s) /\ t \in Queues /\ AllSent(pubs, t)
        /\ Fragments(t) = IF direct THEN 0 ELSE b
    BY <1>6, <2>3, <2>4
  <2>6. over = f \o s /\ kept = r \o t BY <1>8, <2>2, <2>4
  <2>7. f \o s \in Queues /\ AllSent(pubs, f \o s) BY <1>3, <2>5, BothSent
  <2>8. r \o t \in Queues /\ AllSent(pubs, r \o t) BY <1>3, <2>5, BothSent
  <2>9. Fragments(r \o t) = Fragments(r) + Fragments(t)
    BY <1>3, <2>5, FragmentsOfBoth DEF Queues
  <2>10. Fragments(t) = new BY <1>9, <2>5 DEF b
  <2> QED BY <1>11, <2>6, <2>7, <2>8, <2>9, <2>10
<1>14. new <= b /\ b \in Nat BY <1>9 DEF b
<1>15. /\ IsWire(wire') /\ AllSent(pubs, wire'.control)
       /\ \A k \in wire'.video : IsVideo(k) /\ Sent(pubs, k)
  BY <1>1, <1>12, <1>13, WireAfter
<1>16. sctp' \in SctpType /\ sctp'.queue = kept /\ sctp'.buffered = amount
  BY <1>1, <1>11, <1>12, <1>13 DEF Typed, SctpType
<1>17. gateway' \in GatewayType /\ gateway'.todo = rest
  BY <1>1, <1>2, <1>4 DEF Typed, GatewayType
<1>18. Typed' BY <1>1, <1>2, <1>15, <1>16, <1>17 DEF Typed, IsWire
<1>19. Amounts'
  <2>1. Fragments(sctp.queue) + Fragments(gateway.todo) <= Watermark + MaxTotal
    BY <1>1 DEF Amounts
  <2>2. Watermark \in Nat /\ MaxTotal \in Nat BY ChannelAssumption
  <2>3. Fragments(kept) + Fragments(rest) <= Watermark + MaxTotal
    BY <1>3, <1>4, <1>11, <1>13, <1>14, <2>1, <2>2
  <2>4. Fragments(sctp'.queue) = Fragments(kept) /\ Fragments(gateway'.todo) = Fragments(rest)
    BY <1>16, <1>17
  <2> QED BY <1>13, <1>16, <2>3, <2>4 DEF Amounts, Fragments
<1>20. Sending'
  BY <1>2, <1>4, <1>13, <1>15, <1>16, <1>17 DEF Sending, AllSent, Sent, Whole
<1>21. Assembly' /\ Image'
  BY <1>1, <1>2 DEF Assembly, Image, IsPage, Sound, FrameOk, IsFrame, Whole
<1> QED BY <1>18, <1>19, <1>20, <1>21 DEF Inv

-----------------------------------------------------------------------------
(***************************************************************************)
(* The other steps.                                                        *)
(***************************************************************************)
LEMMA FlushKeeps ==
  ASSUME Inv, Flush PROVE Inv'
<1> DEFINE f == Flushed(sctp.queue)
           r == Remains(sctp.queue)
<1>1. Typed /\ Amounts /\ Sending /\ Assembly /\ Image BY DEF Inv
<1>2. /\ f \in Queues /\ r \in Queues /\ AllSent(pubs, f) /\ AllSent(pubs, r)
      /\ Fragments(f) \in Nat /\ Fragments(r) \in Nat
      /\ Fragments(f) + Fragments(r) = Fragments(sctp.queue)
      /\ Updated(sctp.buffered, -Fragments(f)) = Fragments(r)
  BY <1>1, Drained
<1>3. /\ sctp.pending > 0 /\ wire' = Taken(f)
      /\ sctp' = [sctp EXCEPT !.queue = r, !.flushing = TRUE, !.pending = @ - 1,
                              !.buffered = Fragments(r)]
      /\ UNCHANGED <<capture, pubs, gateway, page, shown>>
  BY <1>2 DEF Flush
<1> HIDE DEF f, r
<1>4. PICK amount \in Nat : amount = Fragments(r) BY <1>2
<1>5. sctp' \in SctpType /\ sctp'.queue = r /\ sctp'.buffered = amount
  <2>1. PICK more \in Nat : more = sctp.pending - 1
    BY <1>1, <1>3 DEF Typed, SctpType
  <2>2. PICK busy \in Flags : busy = TRUE BY DEF Flags
  <2>3. sctp' = [sctp EXCEPT !.queue = r, !.flushing = busy, !.pending = more,
                             !.buffered = amount]
    BY <1>3, <1>4, <2>1, <2>2
  <2> QED BY <1>1, <1>2, <2>3 DEF Typed, SctpType
<1>6. /\ IsWire(wire') /\ AllSent(pubs, wire'.control)
      /\ \A k \in wire'.video : IsVideo(k) /\ Sent(pubs, k)
  BY <1>1, <1>2, <1>3, WireAfter
<1>7. Typed' BY <1>1, <1>3, <1>5, <1>6 DEF Typed, IsWire
<1>8. Amounts'
  <2>1. Fragments(sctp.queue) + Fragments(gateway.todo) <= Watermark + MaxTotal
    BY <1>1 DEF Amounts
  <2>2. Fragments(gateway.todo) \in Nat BY <1>1, VideoAtFinite DEF Typed, GatewayType, Queues
  <2>3. Watermark \in Nat /\ MaxTotal \in Nat BY ChannelAssumption
  <2>4. Fragments(r) + Fragments(gateway.todo) <= Watermark + MaxTotal
    BY <1>2, <2>1, <2>2, <2>3
  <2>5. Fragments(sctp'.queue) = Fragments(r) /\ gateway' = gateway BY <1>3, <1>5
  <2> QED BY <1>4, <1>5, <2>4, <2>5 DEF Amounts, Fragments
<1>9. Sending' BY <1>1, <1>2, <1>3, <1>5, <1>6 DEF Sending, AllSent, Sent, Whole
<1>10. Assembly' /\ Image'
  BY <1>1, <1>3 DEF Assembly, Image, IsPage, Sound, FrameOk, IsFrame, Whole
<1> QED BY <1>7, <1>8, <1>9, <1>10 DEF Inv

LEMMA TakeFrameKeeps ==
  ASSUME Inv, TakeFrame PROVE Inv'
<1>1. Typed /\ Amounts /\ Sending /\ Assembly /\ Image BY DEF Inv
<1>2. PICK n : n = capture.slot OBVIOUS
<1>3. /\ n # 0 /\ sctp.buffered <= Watermark
      /\ gateway' = [lastId |-> IdOf(n), todo |-> FrameMessages(n)]
      /\ UNCHANGED <<capture, pubs, sctp, wire, page, shown>>
  BY <1>2 DEF TakeFrame
<1>4. n \in 1 .. Len(pubs) /\ pubs \in Seq(Publications)
  <2>1. capture \in CaptureType /\ capture.slot <= Len(pubs) /\ pubs \in Seq(Publications)
    BY <1>1 DEF Typed
  <2>2. n \in Nat /\ Len(pubs) \in Nat /\ n <= Len(pubs) BY <1>2, <2>1 DEF CaptureType
  <2> QED BY <1>3, <2>1, <2>2
<1>5. /\ FrameMessages(n) \in Queues /\ AllSent(pubs, FrameMessages(n))
      /\ Fragments(FrameMessages(n)) \in Nat /\ Fragments(FrameMessages(n)) <= MaxTotal
  BY <1>4, MessagesOfAFrame
<1>6. IdOf(n) \in Nat
  <2>1. pubs[n] \in Publications BY <1>4
  <2> QED BY <2>1 DEF IdOf, Publications
<1>7. PICK q : q = FrameMessages(n) OBVIOUS
<1>8. gateway' \in GatewayType /\ gateway'.todo = q
  BY <1>3, <1>5, <1>6, <1>7 DEF GatewayType
<1>9. Typed' BY <1>1, <1>3, <1>8 DEF Typed, IsWire
<1>10. Amounts'
  <2>1. sctp.buffered = Fragments(sctp.queue) /\ sctp.buffered \in Nat
    BY <1>1 DEF Amounts, Typed, SctpType
  <2>2. Watermark \in Nat /\ MaxTotal \in Nat BY ChannelAssumption
  <2>3. Fragments(q) \in Nat /\ Fragments(q) <= MaxTotal BY <1>5, <1>7
  <2>4. Fragments(sctp.queue) + Fragments(q) <= Watermark + MaxTotal
    BY <1>3, <2>1, <2>2, <2>3
  <2>5. Fragments(gateway'.todo) = Fragments(q) /\ sctp' = sctp BY <1>3, <1>8
  <2> QED BY <2>1, <2>4, <2>5 DEF Amounts, Fragments
<1>11. Sending'
  BY <1>1, <1>3, <1>5, <1>7, <1>8 DEF Sending, AllSent, Sent, Whole
<1>12. Assembly' /\ Image'
  BY <1>1, <1>3 DEF Assembly, Image, IsPage, Sound, FrameOk, IsFrame, Whole
<1> QED BY <1>9, <1>10, <1>11, <1>12 DEF Inv

LEMMA PublishKeeps ==
  ASSUME Inv, Publish PROVE Inv'
<1>1. Typed /\ Amounts /\ Sending /\ Assembly /\ Image BY DEF Inv
<1>2. PICK total \in 1 .. MaxTotal :
        pubs' = Append(pubs, [id |-> capture.nextId, total |-> total, boot |-> capture.boot])
  BY DEF Publish
<1>3. /\ capture' = [capture EXCEPT !.nextId = (@ + 1) % IdSpace, !.slot = Len(pubs) + 1]
      /\ UNCHANGED <<gateway, sctp, wire, page, shown>>
  BY DEF Publish
<1>4. PICK r : r = [id |-> capture.nextId, total |-> total, boot |-> capture.boot] OBVIOUS
<1>5. capture \in CaptureType /\ pubs \in Seq(Publications) BY <1>1 DEF Typed
<1>6. r \in Publications BY <1>4, <1>5 DEF CaptureType, Publications
<1>7. /\ pubs' \in Seq(Publications) /\ Len(pubs') = Len(pubs) + 1 /\ Len(pubs) \in Nat
      /\ \A n \in 1 .. Len(pubs) : n \in 1 .. Len(pubs') /\ Whole(pubs', n) = Whole(pubs, n)
      /\ \A m : Sent(pubs, m) => Sent(pubs', m)
      /\ \A f : FrameOk(pubs, f) => FrameOk(pubs', f)
  BY <1>2, <1>4, <1>5, <1>6, PublicationsStay
<1>8. capture' \in CaptureType /\ capture'.slot <= Len(pubs')
  <2>1. (capture.nextId + 1) % IdSpace \in Nat
    BY <1>5, ChannelAssumption DEF CaptureType
  <2>2. PICK i \in Nat, k \in Nat : i = (capture.nextId + 1) % IdSpace /\ k = Len(pubs) + 1
    BY <1>7, <2>1
  <2>3. capture' = [capture EXCEPT !.nextId = i, !.slot = k] BY <1>3, <2>2
  <2>4. capture' \in CaptureType /\ capture'.slot = k BY <1>5, <2>3 DEF CaptureType
  <2> QED BY <1>7, <2>2, <2>4
<1>9. Typed' BY <1>1, <1>3, <1>7, <1>8 DEF Typed, IsWire
<1>10. Amounts' BY <1>1, <1>3 DEF Amounts, Fragments
<1>11. Sending' BY <1>1, <1>3, <1>7 DEF Sending, AllSent
<1>12. Assembly' BY <1>1, <1>3, <1>7 DEF Assembly, IsPage, Sound
<1>13. Image'
  <2>1. ASSUME shown.n # 0
        PROVE shown.n \in 1 .. Len(pubs') /\ shown.parts = Whole(pubs', shown.n)
    BY <1>1, <1>7, <2>1 DEF Image
  <2> QED BY <1>3, <2>1 DEF Image
<1> QED BY <1>9, <1>10, <1>11, <1>12, <1>13 DEF Inv

LEMMA QuietKeeps ==
  ASSUME Inv, RestartCapture \/ EndFlush \/ UNCHANGED vars PROVE Inv'
<1>1. Typed /\ Amounts /\ Sending /\ Assembly /\ Image BY DEF Inv
<1>2. UNCHANGED <<pubs, gateway, wire, page, shown>>
  BY DEF RestartCapture, EndFlush, vars
<1>3. sctp' \in SctpType /\ sctp'.queue = sctp.queue /\ sctp'.buffered = sctp.buffered
  BY <1>1 DEF RestartCapture, EndFlush, vars, Typed, SctpType, Flags
<1>4. capture' \in CaptureType /\ capture'.slot <= Len(pubs)
  <2>1. capture \in CaptureType /\ capture.slot <= Len(pubs) /\ Len(pubs) \in Nat
    BY <1>1 DEF Typed
  <2>2. CASE RestartCapture
    <3>1. capture' = [capture EXCEPT !.nextId = 0, !.slot = 0, !.boot = @ + 1]
      BY <2>2 DEF RestartCapture
    <3>2. PICK b \in Nat : b = capture.boot + 1 BY <2>1 DEF CaptureType
    <3>3. capture' = [capture EXCEPT !.nextId = 0, !.slot = 0, !.boot = b] BY <3>1, <3>2
    <3>4. capture' \in CaptureType /\ capture'.slot = 0 BY <2>1, <3>3 DEF CaptureType
    <3> QED BY <2>1, <3>4
  <2>3. CASE EndFlush \/ UNCHANGED vars
    <3>1. capture' = capture BY <2>3 DEF EndFlush, vars
    <3> QED BY <2>1, <3>1
  <2> QED BY <2>2, <2>3
<1>5. Typed' BY <1>1, <1>2, <1>3, <1>4 DEF Typed, IsWire
<1>6. Amounts' BY <1>1, <1>2, <1>3 DEF Amounts, Fragments
<1>7. Sending' BY <1>1, <1>2, <1>3 DEF Sending, AllSent, Sent, Whole
<1>8. Assembly' /\ Image'
  BY <1>1, <1>2 DEF Assembly, Image, IsPage, Sound, FrameOk, IsFrame, Whole
<1> QED BY <1>5, <1>6, <1>7, <1>8 DEF Inv

\* What leaves the wire asks for a flush and touches nothing else of the sender.
LEMMA LeavingKeeps ==
  ASSUME Inv, UNCHANGED <<capture, pubs, gateway>>, sctp' = HandleUpcall, IsWire(wire'),
         wire'.video \subseteq wire.video, AllSent(pubs, wire.control) => AllSent(pubs, wire'.control)
  PROVE  Typed' /\ Amounts' /\ Sending'
<1>1. Typed /\ Amounts /\ Sending BY DEF Inv
<1>2. sctp' \in SctpType /\ sctp'.queue = sctp.queue /\ sctp'.buffered = sctp.buffered
  BY <1>1 DEF HandleUpcall, EnqueueFlush, Typed, SctpType
<1>3. Typed' BY <1>1, <1>2 DEF Typed, IsWire
<1>4. Amounts' BY <1>1, <1>2 DEF Amounts, Fragments
<1>5. Sending' BY <1>1, <1>2 DEF Sending, AllSent, Sent, Whole
<1> QED BY <1>3, <1>4, <1>5

LEMMA VideoLeavesAWire ==
  ASSUME IsWire(wire), NEW m \in wire.video, wire' = [wire EXCEPT !.video = @ \ {m}]
  PROVE  IsWire(wire') /\ wire'.video \subseteq wire.video /\ wire'.control = wire.control
<1>1. PICK v, c : v = wire.video \ {m} /\ c = wire.control OBVIOUS
<1>2. wire' = [control |-> c, video |-> v] BY <1>1 DEF IsWire
<1>3. wire'.video = v /\ wire'.control = c BY <1>2
<1>4. v \in SUBSET wire.video /\ IsFiniteSet(v)
  <2>1. v \in SUBSET wire.video BY <1>1
  <2> QED BY <2>1, FS_Subset DEF IsWire
<1> QED BY <1>1, <1>2, <1>3, <1>4 DEF IsWire

LEMMA ControlLeavesAWire ==
  ASSUME IsWire(wire), wire.control # <<>>, wire' = [wire EXCEPT !.control = Tail(@)]
  PROVE  /\ IsWire(wire') /\ wire'.video = wire.video
         /\ AllSent(pubs, wire.control) => AllSent(pubs, wire'.control)
<1>1. PICK v, c : v = wire.video /\ c = Tail(wire.control) OBVIOUS
<1>2. wire' = [control |-> c, video |-> v] BY <1>1 DEF IsWire
<1>3. wire'.video = v /\ wire'.control = c BY <1>2
<1>4. /\ c \in Queues
      /\ \A i \in DOMAIN c : i + 1 \in DOMAIN wire.control /\ c[i] = wire.control[i + 1]
  BY <1>1, FirstAndRest DEF IsWire
<1> QED BY <1>1, <1>2, <1>3, <1>4 DEF IsWire, AllSent

LEMMA ArrivalKeeps ==
  ASSUME Inv, VideoArrives \/ VideoIsLost \/ StartArrives \/ EndArrives PROVE Inv'
<1>1. /\ IsWire(wire) /\ pubs \in Seq(Publications) /\ Sending /\ Assembly /\ Image
      /\ GoodPage(page)
  BY DEF Inv, Typed, Assembly, GoodPage
<1>2. ASSUME UNCHANGED pubs, GoodPage(page'),
             shown'.n # 0 => shown'.n \in 1 .. Len(pubs) /\ shown'.parts = Whole(pubs, shown'.n)
      PROVE Assembly' /\ Image'
  BY <1>2 DEF Assembly, Image, GoodPage, IsPage, Sound, FrameOk, IsFrame, Whole
<1>3. CASE VideoArrives
  <2>1. PICK m \in wire.video :
          /\ wire' = [wire EXCEPT !.video = @ \ {m}]
          /\ \E k \in 0 .. Cardinality(page.frames), gone \in SUBSET page.retired :
                Render(Accept(page, m, k, gone), IdOf(m.n))
          /\ sctp' = HandleUpcall /\ UNCHANGED <<capture, pubs, gateway>>
    BY <1>3 DEF VideoArrives
  <2>2. PICK k, gone : Render(Accept(page, m, k, gone), IdOf(m.n)) BY <2>1
  <2>3. IsVideo(m) /\ Sent(pubs, m) BY <1>1 DEF Sending
  <2>4. GoodPage(Accept(page, m, k, gone)) BY <1>1, <2>3, AcceptGood
  <2>5. /\ GoodPage(page')
        /\ shown'.n # 0 => shown'.n \in 1 .. Len(pubs) /\ shown'.parts = Whole(pubs, shown'.n)
    BY <1>1, <2>2, <2>4, RenderGood
  <2>6. Assembly' /\ Image' BY <1>2, <2>1, <2>5
  <2>7. Typed' /\ Amounts' /\ Sending' BY <1>1, <2>1, VideoLeavesAWire, LeavingKeeps
  <2> QED BY <2>6, <2>7 DEF Inv
<1>4. CASE VideoIsLost
  <2>1. PICK m \in wire.video :
          /\ wire' = [wire EXCEPT !.video = @ \ {m}] /\ sctp' = HandleUpcall
          /\ UNCHANGED <<capture, pubs, gateway, page, shown>>
    BY <1>4 DEF VideoIsLost
  <2>2. Assembly' /\ Image'
    BY <1>1, <2>1 DEF Assembly, Image, IsPage, Sound, FrameOk, IsFrame, Whole
  <2>3. Typed' /\ Amounts' /\ Sending' BY <1>1, <2>1, VideoLeavesAWire, LeavingKeeps
  <2> QED BY <2>2, <2>3 DEF Inv
<1>5. CASE StartArrives
  <2>1. /\ wire.control # <<>> /\ wire' = [wire EXCEPT !.control = Tail(@)]
        /\ sctp' = HandleUpcall /\ UNCHANGED <<capture, pubs, gateway, shown>>
    BY <1>5 DEF StartArrives
  <2>2. PICK n, k, gone : /\ n = Head(wire.control).n
                          /\ page' = Prune(EnsureFrame(page, IdOf(n), Total(n)), k, gone)
    BY <1>5 DEF StartArrives
  <2>3. GoodPage(page')
    <3>1. n \in 1 .. Len(pubs) BY <1>1, <2>1, <2>2, FirstAndRest DEF IsWire, Sending, AllSent, Sent
    <3>2. Total(n) \in Nat \ {0} BY <1>1, <3>1, TotalIsPositive
    <3> QED BY <1>1, <2>2, <3>2, EnsureGood, PruneGood
  <2>4. Assembly' /\ Image' BY <1>1, <1>2, <2>1, <2>3 DEF Image
  <2>5. Typed' /\ Amounts' /\ Sending' BY <1>1, <2>1, ControlLeavesAWire, LeavingKeeps
  <2> QED BY <2>4, <2>5 DEF Inv
<1>6. CASE EndArrives
  <2>1. /\ wire.control # <<>> /\ wire' = [wire EXCEPT !.control = Tail(@)]
        /\ Render(page, IdOf(Head(wire.control).n))
        /\ sctp' = HandleUpcall /\ UNCHANGED <<capture, pubs, gateway>>
    BY <1>6 DEF EndArrives
  <2>2. /\ GoodPage(page')
        /\ shown'.n # 0 => shown'.n \in 1 .. Len(pubs) /\ shown'.parts = Whole(pubs, shown'.n)
    BY <1>1, <2>1, RenderGood
  <2>3. Assembly' /\ Image' BY <1>2, <2>1, <2>2
  <2>4. Typed' /\ Amounts' /\ Sending' BY <1>1, <2>1, ControlLeavesAWire, LeavingKeeps
  <2> QED BY <2>3, <2>4 DEF Inv
<1> QED BY <1>3, <1>4, <1>5, <1>6

-----------------------------------------------------------------------------
LEMMA InitInv ==
  ASSUME Init PROVE Inv
<1>1. pubs \in Seq(Publications) /\ capture \in CaptureType /\ capture.slot <= Len(pubs)
  <2>1. CASE \E first \in FirstIds : Begins(first)
    <3>1. PICK first \in FirstIds : Begins(first) BY <2>1
    <3>2. first \in Nat /\ (first + 1) % IdSpace \in Nat BY ChannelAssumption
    <3>3. PICK r : r = [id |-> first, total |-> 1, boot |-> 1] OBVIOUS
    <3>4. r \in Publications BY <3>2, <3>3, ChannelAssumption DEF Publications
    <3>5. pubs = <<r>> BY <3>1, <3>3 DEF Begins
    <3>6. pubs \in Seq(Publications) /\ Len(pubs) = 1 BY <3>4, <3>5
    <3>7. capture \in CaptureType /\ capture.slot = 1
      BY <3>1, <3>2 DEF Begins, CaptureType
    <3> QED BY <3>6, <3>7
  <2>2. CASE capture = [nextId |-> 0, slot |-> 0, boot |-> 1] /\ pubs = <<>>
    BY <2>2 DEF CaptureType
  <2> QED BY <2>1, <2>2 DEF Init
<1>2. gateway \in GatewayType /\ gateway.todo = <<>>
  <2>1. <<>> \in Queues BY FragmentsOfNone
  <2>2. \E i \in Nat : gateway = [lastId |-> i, todo |-> <<>>]
    <3>1. CASE \E first \in FirstIds : Begins(first)
      <4>1. PICK first \in FirstIds : Begins(first) BY <3>1
      <4>2. first \in Nat BY ChannelAssumption
      <4> QED BY <4>1, <4>2 DEF Begins
    <3>2. CASE gateway = [lastId |-> NoId, todo |-> <<>>]
      BY <3>2, ChannelAssumption DEF NoId
    <3> QED BY <3>1, <3>2 DEF Init
  <2> QED BY <2>1, <2>2 DEF GatewayType
<1>3. sctp \in SctpType /\ sctp.queue = <<>> /\ sctp.buffered = 0
  <2>1. <<>> \in Queues BY FragmentsOfNone
  <2>2. FALSE \in Flags BY DEF Flags
  <2> QED BY <2>1, <2>2 DEF Init, SctpType
<1>4. IsWire(wire) /\ wire.video = {} /\ wire.control = <<>>
  <2>1. wire = [control |-> <<>>, video |-> {}] BY DEF Init
  <2>2. wire.control = <<>> /\ wire.video = {} BY <2>1
  <2>3. wire.control \in Queues BY <2>2, FragmentsOfNone
  <2>4. IsFiniteSet({}) BY FS_EmptySet
  <2> QED BY <2>1, <2>2, <2>3, <2>4 DEF IsWire
<1>5. Amounts
  <2>1. Watermark \in Nat /\ MaxTotal \in Nat BY ChannelAssumption
  <2> QED BY <1>2, <1>3, <2>1, FragmentsOfNone DEF Amounts
<1>6. Sending BY <1>2, <1>3, <1>4 DEF Sending, AllSent
<1>7. Assembly
  <2>1. IsPage(page) /\ page.frames = {}
    <3>1. \E a, b, c : page = [frames |-> {}, retired |-> {}, lastRendered |-> a,
                               latestPublished |-> b, latestId |-> c, floor |-> 0]
      BY DEF Init, Begins, FreshPage
    <3> QED BY <3>1 DEF IsPage
  <2> QED BY <2>1 DEF Assembly, Sound
<1>8. Image
  <2>1. CASE \E first \in FirstIds : Begins(first)
    <3>1. PICK first \in FirstIds : Begins(first) BY <2>1
    <3>2. shown.n = 1 /\ shown.parts = {Fragment(1, 1)} /\ Len(pubs) = 1 /\ pubs[1].total = 1
      BY <3>1 DEF Begins
    <3>3. 1 .. 1 = {1} OBVIOUS
    <3>4. Whole(pubs, 1) = {Fragment(1, 1)} BY <3>2, <3>3 DEF Whole
    <3> QED BY <3>2, <3>4 DEF Image
  <2>2. CASE shown = [n |-> 0, parts |-> {}] BY <2>2 DEF Image
  <2> QED BY <2>1, <2>2 DEF Init
<1> QED BY <1>1, <1>2, <1>3, <1>4, <1>5, <1>6, <1>7, <1>8 DEF Inv, Typed

\* Frames in the Assembler, fragments under way and the queue stay what they are
\* said to be above, over every step of every thread.
THEOREM ChannelInvariance == Spec => []Inv
<1>1. Init => Inv BY InitInv
<1>2. Inv /\ [Next]_vars => Inv'
  BY SendKeeps, FlushKeeps, TakeFrameKeeps, PublishKeeps, QuietKeeps, ArrivalKeeps DEF Next
<1> QED BY <1>1, <1>2, PTL DEF Spec

\* The image is one whole publication, for every order, loss and delay of the
\* fragments, every restart of the capture and every reuse of an id.
THEOREM FrameWhole == Spec => []ShownFrameIsWhole
<1>1. Inv => ShownFrameIsWhole BY DEF Inv, Image, ShownFrameIsWhole, Whole, Total
<1> QED BY <1>1, ChannelInvariance, PTL

\* The amount that the gateway asks for is what waits in the queue, and never
\* more than the watermark and one frame.
THEOREM QueueBounded == Spec => []BufferedAmountBoundsTheQueue
<1>1. Inv => BufferedAmountBoundsTheQueue
  <2>1. SUFFICES ASSUME Inv PROVE BufferedAmountBoundsTheQueue OBVIOUS
  <2>2. Amounts /\ sctp.queue \in Queues /\ gateway.todo \in Queues
    BY <2>1 DEF Inv, Typed, SctpType, GatewayType
  <2>3. Fragments(sctp.queue) \in Nat /\ Fragments(gateway.todo) \in Nat
    BY <2>2, VideoAtFinite DEF Queues
  <2>4. Watermark \in Nat /\ MaxTotal \in Nat BY ChannelAssumption
  <2> QED BY <2>2, <2>3, <2>4 DEF Amounts, BufferedAmountBoundsTheQueue
<1> QED BY <1>1, ChannelInvariance, PTL

-----------------------------------------------------------------------------
(***************************************************************************)
(* The order of what is shown, over a restart of the capture.              *)
(*                                                                         *)
(* RanLong puts every id of the first capture above every id of the        *)
(* second, and both in one half of the number space.  So Newer compares    *)
(* numbers, a lower id on a later publication is a restart, and the floor  *)
(* that the page sets then parts the two captures: what is in its map is   *)
(* of the capture of its latest publication, within which a greater id is  *)
(* a later publication.                                                    *)
(***************************************************************************)
\* A capture and its successor, and frames for at most one half of the number space:
\* what RanLong is about.
FewCaptures == MaxBoots <= 2 /\ 2 * MaxFrames <= IdSpace

Boot(n) == pubs[n].boot
Half == IdSpace \div 2

\* The captures number their frames upwards, the second one from 0.
Numbering ==
    /\ capture.boot \in {1, 2}
    /\ \A n \in Published : Boot(n) \in {1, 2} /\ Boot(n) <= capture.boot
    /\ \A i, j \in Published : i < j => Boot(i) <= Boot(j)
    /\ \A n \in Published : Boot(n) = 2 => IdOf(n) < MaxFrames /\ IdOf(n) < capture.nextId
    /\ \A i, j \in Published : i < j /\ Boot(i) = 2 => IdOf(i) < IdOf(j)
    /\ capture.boot = 2 => capture.nextId <= Len(pubs)
    /\ capture.boot = 1 =>
          capture.nextId = IF Len(pubs) = 0 THEN 0 ELSE (IdOf(Len(pubs)) + 1) % IdSpace
    /\ RanLong => \A i, j \in Published : i < j /\ Boot(j) = 1 => IdOf(i) < IdOf(j)

\* So ids tell what is later within a capture, and the other way about between them.
Ordered ==
    /\ \A n \in Published : IdOf(n) \in Nat /\ IdOf(n) < Half /\ Boot(n) \in {1, 2}
    /\ \A i, j \in Published : i < j => Boot(i) <= Boot(j)
    /\ \A i, j \in Published : i < j /\ Boot(i) = Boot(j) => IdOf(i) < IdOf(j)
    /\ \A i, j \in Published : Boot(i) < Boot(j) => IdOf(j) < IdOf(i)

\* What page p works with is of the capture of its latest publication, and nothing
\* from its floor on is of an earlier one; it shows publication n, or one before the floor.
Current(p, i) == /\ i \in Published /\ p.floor <= i /\ i <= p.latestPublished
                 /\ Boot(i) = Boot(p.latestPublished)
Latests(p) ==
    /\ p.floor \in Nat /\ p.latestPublished \in 0 .. Len(pubs) /\ p.floor <= p.latestPublished
    /\ p.latestPublished = 0 => p.latestId = NoId /\ \A i \in Published : Boot(i) = 2
    /\ p.latestPublished # 0 =>
          /\ p.latestId = IdOf(p.latestPublished)
          /\ \A i \in Published : i >= p.floor => Boot(i) >= Boot(p.latestPublished)
FramesCurrent(p) ==
    \A f \in p.frames : f.published # 0 => Current(p, f.published) /\ f.id = IdOf(f.published)
ShowsLatest(p, n) ==
    /\ n \in 0 .. p.latestPublished
    /\ p.lastRendered = NoId => n < p.floor \/ n = 0
    /\ p.lastRendered # NoId => Current(p, n) /\ p.lastRendered = IdOf(n)
InOrder(p, n) == Latests(p) /\ FramesCurrent(p) /\ ShowsLatest(p, n)

OrderInv == Numbering /\ (RanLong => InOrder(page, shown.n))

-----------------------------------------------------------------------------
LEMMA OnceRound ==
  ASSUME NEW n \in Nat \ {0}, NEW r \in 0 .. n - 1
  PROVE  r % n = r /\ (r + n) % n = r
OBVIOUS

LEMMA NewerIsGreater ==
  ASSUME NEW a \in Nat, NEW b \in Nat, a < Half, b < Half
  PROVE  Newer(a, b) <=> a > b
<1>1. IdSpace \in Nat \ {0} /\ Half \in Nat /\ 2 * Half <= IdSpace BY ChannelAssumption DEF Half
<1>2. CASE a > b
  <2>1. PICK r : r = a - b OBVIOUS
  <2>2. r \in 0 .. IdSpace - 1 /\ r < Half /\ a + IdSpace - b = r + IdSpace BY <1>1, <1>2, <2>1
  <2>3. (a + IdSpace - b) % IdSpace = r BY <1>1, <2>2, OnceRound
  <2> QED BY <1>2, <2>2, <2>3 DEF Newer, Half
<1>3. CASE a < b
  <2>1. PICK r : r = a + IdSpace - b OBVIOUS
  <2>2. r \in 0 .. IdSpace - 1 /\ r >= Half BY <1>1, <1>3, <2>1
  <2>3. (a + IdSpace - b) % IdSpace = r BY <1>1, <2>1, <2>2, OnceRound
  <2> QED BY <1>1, <1>3, <2>2, <2>3 DEF Newer, Half
<1>4. CASE a = b BY <1>4 DEF Newer
<1> QED BY <1>2, <1>3, <1>4

LEMMA NumbersTell ==
  ASSUME FewCaptures, pubs \in Seq(Publications), Numbering, RanLong PROVE Ordered
<1>1. /\ MaxFrames \in Nat /\ MaxFrames <= Half /\ Len(pubs) \in Nat
      /\ \A n \in Published : n \in Nat /\ IdOf(n) \in Nat
  <2>1. MaxFrames \in Nat /\ IdSpace \in Nat /\ 2 * MaxFrames <= IdSpace
    BY ChannelAssumption DEF FewCaptures
  <2>2. \A n \in Published : pubs[n] \in Publications /\ n \in Nat BY DEF Published
  <2> QED BY <2>1, <2>2 DEF Half, Publications, IdOf
<1>2. \A n \in Published : Boot(n) = 1 => IdOf(n) >= MaxFrames /\ IdOf(n) < Half
  <2>1. Half \in Int BY ChannelAssumption DEF Half
  <2> QED BY <1>1, <2>1 DEF RanLong, Boot, Half
<1>3. \A n \in Published : Boot(n) = 2 => IdOf(n) < MaxFrames BY <1>1 DEF Numbering
<1>4. \A n \in Published : Boot(n) \in {1, 2} BY DEF Numbering
<1>5. Half \in Int BY ChannelAssumption DEF Half
<1>6. \A n \in Published : IdOf(n) < Half BY <1>1, <1>2, <1>3, <1>4, <1>5
<1>7. \A i, j \in Published : Boot(i) < Boot(j) => IdOf(j) < IdOf(i)
  <2>1. \A i, j \in Published : Boot(i) < Boot(j) => Boot(i) = 1 /\ Boot(j) = 2 BY <1>4
  <2> QED BY <1>1, <1>2, <1>3, <2>1
<1>8. \A i, j \in Published : i < j /\ Boot(i) = Boot(j) => IdOf(i) < IdOf(j)
  BY <1>4 DEF Numbering
<1> QED BY <1>1, <1>4, <1>6, <1>7, <1>8 DEF Ordered, Numbering

-----------------------------------------------------------------------------
(***************************************************************************)
(* The captures number their frames in order.                              *)
(***************************************************************************)
LEMMA OrderStarts ==
  ASSUME Init PROVE OrderInv
<1>1. CASE \E first \in FirstIds : Begins(first)
  <2>1. PICK first \in FirstIds : Begins(first) BY <1>1
  <2>2. first \in Nat /\ first # NoId BY ChannelAssumption DEF NoId
  <2>3. /\ Len(pubs) = 1 /\ pubs[1].boot = 1 /\ pubs[1].id = first
        /\ capture.boot = 1 /\ capture.nextId = (first + 1) % IdSpace
    BY <2>1 DEF Begins
  <2>4. Published = {1} BY <2>3 DEF Published
  <2>5. Numbering BY <2>3, <2>4 DEF Numbering, Boot, IdOf
  <2>6. /\ page.floor = 0 /\ page.frames = {} /\ page.lastRendered = first
        /\ page.latestPublished = 1 /\ page.latestId = first /\ shown.n = 1
    BY <2>1 DEF Begins, FreshPage
  <2>7. Latests(page) BY <2>3, <2>4, <2>6 DEF Latests, Boot, IdOf
  <2>8. FramesCurrent(page) /\ ShowsLatest(page, shown.n)
    BY <2>2, <2>3, <2>4, <2>6 DEF FramesCurrent, ShowsLatest, Current, Boot, IdOf
  <2> QED BY <2>5, <2>7, <2>8 DEF OrderInv, InOrder
<1>2. CASE /\ capture = [nextId |-> 0, slot |-> 0, boot |-> 1] /\ pubs = <<>>
           /\ page = FreshPage /\ shown = [n |-> 0, parts |-> {}]
  <2>1. Len(pubs) = 0 /\ Published = {} BY <1>2 DEF Published
  <2>2. capture.boot = 1 /\ capture.nextId = 0 BY <1>2
  <2>3. Numbering BY <2>1, <2>2 DEF Numbering
  <2>4. /\ page.floor = 0 /\ page.frames = {} /\ page.lastRendered = NoId
        /\ page.latestPublished = 0 /\ page.latestId = NoId /\ shown.n = 0
    BY <1>2 DEF FreshPage
  <2>5. InOrder(page, shown.n)
    BY <2>1, <2>4 DEF InOrder, Latests, FramesCurrent, ShowsLatest
  <2> QED BY <2>3, <2>5 DEF OrderInv
<1> QED BY <1>1, <1>2 DEF Init

\* A publication more: ids stay in order, and it is of no earlier capture.
LEMMA PublishOrders ==
  ASSUME FewCaptures, Typed, OrderInv, Publish PROVE OrderInv'
<1>1. PICK total \in 1 .. MaxTotal :
        pubs' = Append(pubs, [id |-> capture.nextId, total |-> total, boot |-> capture.boot])
  BY DEF Publish
<1>2. PICK r : r = [id |-> capture.nextId, total |-> total, boot |-> capture.boot] OBVIOUS
<1>3. PICK last : last = Len(pubs) OBVIOUS
<1>4. capture \in CaptureType /\ pubs \in Seq(Publications) /\ last \in Nat
  BY <1>3 DEF Typed
<1>5. /\ capture' = [capture EXCEPT !.nextId = (@ + 1) % IdSpace, !.slot = last + 1]
      /\ last < MaxFrames /\ UNCHANGED <<page, shown>>
  BY <1>3 DEF Publish
<1>6. /\ r.id = capture.nextId /\ r.boot = capture.boot /\ r \in Publications
  BY <1>2, <1>4 DEF CaptureType, Publications
<1>7. /\ Len(pubs') = last + 1 /\ pubs'[last + 1] = r
      /\ \A n \in 1 .. last : pubs'[n] = pubs[n]
  BY <1>1, <1>2, <1>3, <1>4, <1>6
<1>8. /\ Published = 1 .. last /\ Published' = 1 .. last + 1
      /\ \A n \in Published' : n \in Published \/ n = last + 1
      /\ \A n \in Published : n \in Nat /\ n < last + 1 /\ n \in Published'
  BY <1>3, <1>4, <1>7 DEF Published
<1>9. /\ \A n \in Published : IdOf(n)' = IdOf(n) /\ Boot(n)' = Boot(n)
      /\ IdOf(last + 1)' = capture.nextId /\ Boot(last + 1)' = capture.boot
  BY <1>6, <1>7, <1>8 DEF IdOf, Boot
<1>10. /\ capture'.boot = capture.boot /\ capture'.nextId = (capture.nextId + 1) % IdSpace
       /\ capture.nextId \in Nat
  <2>1. PICK i : i = (capture.nextId + 1) % IdSpace OBVIOUS
  <2>2. PICK k : k = last + 1 OBVIOUS
  <2>3. capture' = [capture EXCEPT !.nextId = i, !.slot = k] BY <1>5, <2>1, <2>2
  <2>4. capture' \in [nextId : {i}, slot : {k}, boot : {capture.boot}]
    BY <1>4, <2>3 DEF CaptureType
  <2> QED BY <1>4, <2>1, <2>4 DEF CaptureType
<1>11. /\ capture.boot \in {1, 2}
       /\ \A n \in Published : Boot(n) \in {1, 2} /\ Boot(n) <= capture.boot
  BY DEF OrderInv, Numbering
<1>12. MaxFrames \in Nat /\ IdSpace \in Nat \ {0} /\ 2 * MaxFrames <= IdSpace
  BY ChannelAssumption DEF FewCaptures
<1>13. capture.boot = 2 => /\ capture.nextId <= last /\ capture'.nextId = capture.nextId + 1
  <2>1. SUFFICES ASSUME capture.boot = 2
                 PROVE capture.nextId <= last /\ capture'.nextId = capture.nextId + 1
    OBVIOUS
  <2>2. capture.nextId <= last BY <1>3, <2>1 DEF OrderInv, Numbering
  <2>3. capture.nextId + 1 \in 0 .. IdSpace - 1 BY <1>4, <1>5, <1>10, <1>12, <2>2
  <2> QED BY <1>10, <1>12, <2>2, <2>3, OnceRound
<1>14. RanLong' => RanLong BY <1>8, <1>9 DEF RanLong, Boot, IdOf
<1>15. \A n \in Published : IdOf(n) \in Nat
  <2>1. \A n \in Published : pubs[n] \in Publications BY <1>4 DEF Published
  <2> QED BY <2>1 DEF IdOf, Publications
<1>16. Numbering'
  <2>1. \A n \in Published' : Boot(n)' \in {1, 2} /\ Boot(n)' <= capture'.boot
    BY <1>8, <1>9, <1>10, <1>11
  <2>2. \A i, j \in Published' : i < j => Boot(i)' <= Boot(j)'
    BY <1>4, <1>8, <1>9, <1>11 DEF OrderInv, Numbering
  <2>3. \A n \in Published' : Boot(n)' = 2 => IdOf(n)' < MaxFrames /\ IdOf(n)' < capture'.nextId
    <3>1. ASSUME NEW n \in Published, Boot(n) = 2
          PROVE IdOf(n) < MaxFrames /\ IdOf(n) < capture'.nextId
      <4>1. capture.boot = 2 BY <1>11, <3>1
      <4> QED BY <1>10, <1>13, <1>15, <3>1, <4>1 DEF OrderInv, Numbering
    <3>2. capture.boot = 2 => capture.nextId < MaxFrames /\ capture.nextId < capture'.nextId
      BY <1>4, <1>5, <1>10, <1>12, <1>13
    <3> QED BY <1>8, <1>9, <3>1, <3>2
  <2>4. \A i, j \in Published' : i < j /\ Boot(i)' = 2 => IdOf(i)' < IdOf(j)'
    <3>1. \A i \in Published : Boot(i) = 2 => IdOf(i) < capture.nextId
      BY DEF OrderInv, Numbering
    <3>2. \A i, j \in Published : i < j /\ Boot(i) = 2 => IdOf(i) < IdOf(j)
      BY DEF OrderInv, Numbering
    <3>3. \A j \in Published : ~(last + 1 < j) BY <1>4, <1>8
    <3>4. ~(last + 1 < last + 1) BY <1>4
    <3> QED BY <1>8, <1>9, <3>1, <3>2, <3>3, <3>4
  <2>5. capture'.boot = 2 => capture'.nextId <= Len(pubs')
    BY <1>4, <1>7, <1>10, <1>13
  <2>6. capture'.boot = 1 =>
          capture'.nextId = IF Len(pubs') = 0 THEN 0 ELSE (IdOf(Len(pubs))' + 1) % IdSpace
    BY <1>4, <1>7, <1>9, <1>10 DEF IdOf
  <2>7. RanLong' => \A i, j \in Published' : i < j /\ Boot(j)' = 1 => IdOf(i)' < IdOf(j)'
    <3>1. SUFFICES ASSUME RanLong', NEW i \in Published', NEW j \in Published', i < j,
                          Boot(j)' = 1
                   PROVE IdOf(i)' < IdOf(j)'
      OBVIOUS
    <3>2. i \in Published BY <1>4, <1>8, <3>1
    <3>3. CASE j \in Published
      BY <1>9, <1>14, <3>1, <3>2, <3>3 DEF OrderInv, Numbering
    <3>4. CASE j = last + 1
      <4>1. capture.boot = 1 /\ last # 0 /\ last \in Published
        BY <1>4, <1>8, <1>9, <3>1, <3>2, <3>4
      <4>2. Boot(last) = 1 BY <1>11, <4>1
      <4>3. IdOf(last) \in MaxFrames .. (IdSpace \div 2) - 1
        BY <1>14, <3>1, <4>1, <4>2 DEF RanLong, Boot
      <4>4. IdOf(last) + 1 \in 0 .. IdSpace - 1 BY <1>12, <4>3
      <4>5. capture.nextId = (IdOf(last) + 1) % IdSpace
        BY <1>3, <4>1 DEF OrderInv, Numbering
      <4>6. capture.nextId = IdOf(last) + 1 BY <1>12, <4>4, <4>5, OnceRound
      <4>7. i <= last /\ i \in Nat BY <1>4, <1>8, <3>2
      <4>8. i # last => IdOf(i) < IdOf(last)
        BY <1>8, <1>14, <3>1, <3>2, <4>1, <4>2, <4>7 DEF OrderInv, Numbering
      <4>9. IdOf(i) \in Nat /\ IdOf(last) \in Nat BY <1>15, <3>2, <4>1
      <4>10. IdOf(i) <= IdOf(last) BY <4>8, <4>9
      <4> QED BY <1>9, <3>2, <3>4, <4>6, <4>9, <4>10
    <3> QED BY <1>8, <3>3, <3>4
  <2> QED BY <1>10, <1>11, <2>1, <2>2, <2>3, <2>4, <2>5, <2>6, <2>7 DEF Numbering
<1>17. RanLong' => InOrder(page, shown.n)'
  <2>1. SUFFICES ASSUME RanLong' PROVE InOrder(page, shown.n)' OBVIOUS
  <2>2. InOrder(page, shown.n) BY <1>14, <2>1 DEF OrderInv
  <2>3. /\ page.floor \in Nat /\ page.latestPublished \in 0 .. last
        /\ page.latestPublished # 0 => page.latestPublished \in Published
    BY <1>3, <1>4, <1>8, <2>2 DEF InOrder, Latests
  <2>4. Latests(page)'
    <3>1. page.latestPublished = 0 => page.latestId = NoId /\ \A i \in Published' : Boot(i)' = 2
      <4>1. SUFFICES ASSUME page.latestPublished = 0
                     PROVE page.latestId = NoId /\ \A i \in Published' : Boot(i)' = 2
        OBVIOUS
      <4>2. page.latestId = NoId /\ \A i \in Published : Boot(i) = 2
        BY <2>2, <4>1 DEF InOrder, Latests
      <4>3. capture.boot = 2
        <5>1. SUFFICES ASSUME capture.boot = 1 PROVE FALSE BY <1>11
        <5>2. last = 0
          <6>1. ASSUME last # 0 PROVE FALSE
            <7>1. last \in Published BY <1>4, <1>8, <6>1
            <7>2. Boot(last) = 2 /\ Boot(last) <= 1 BY <1>11, <4>2, <5>1, <7>1
            <7> QED BY <7>2
          <6> QED BY <6>1
        <5>3. capture.nextId = 0 BY <1>3, <5>1, <5>2 DEF OrderInv, Numbering
        <5>4. 1 \in Published' /\ Boot(1)' = 1 /\ IdOf(1)' = 0
          BY <1>8, <1>9, <5>1, <5>2, <5>3
        <5>5. 0 \in MaxFrames .. (IdSpace \div 2) - 1
          BY <2>1, <5>4 DEF RanLong, Boot
        <5> QED BY <1>4, <1>5, <1>12, <5>5
      <4> QED BY <1>8, <1>9, <4>2, <4>3
    <3>2. page.latestPublished # 0 =>
            /\ page.latestId = IdOf(page.latestPublished)'
            /\ \A i \in Published' : i >= page.floor => Boot(i)' >= Boot(page.latestPublished)'
      <4>1. SUFFICES ASSUME page.latestPublished # 0
                     PROVE /\ page.latestId = IdOf(page.latestPublished)'
                           /\ \A i \in Published' :
                                i >= page.floor => Boot(i)' >= Boot(page.latestPublished)'
        OBVIOUS
      <4>2. PICK n \in Published : n = page.latestPublished BY <2>3, <4>1
      <4>3. page.latestId = IdOf(n) /\ \A i \in Published : i >= page.floor => Boot(i) >= Boot(n)
        BY <2>2, <4>1, <4>2 DEF InOrder, Latests
      <4>4. Boot(n)' = Boot(n) /\ IdOf(n)' = IdOf(n) BY <1>9
      <4>5. \A i \in Published' : i >= page.floor => Boot(i)' >= Boot(n)
        BY <1>8, <1>9, <1>11, <4>3
      <4> QED BY <1>5, <4>2, <4>3, <4>4, <4>5 DEF IdOf, Boot
    <3>3. page.latestPublished \in 0 .. Len(pubs') /\ page.floor <= page.latestPublished
      BY <1>4, <1>7, <2>2, <2>3 DEF InOrder, Latests
    <3> QED BY <1>5, <2>3, <3>1, <3>2, <3>3 DEF Latests, NoId
  <2>5. \A i : Current(page, i) => Current(page, i)' /\ IdOf(i)' = IdOf(i)
    <3>1. ASSUME NEW i, Current(page, i) PROVE Current(page, i)' /\ IdOf(i)' = IdOf(i)
      <4>1. /\ i \in Published /\ page.floor <= i /\ i <= page.latestPublished
            /\ Boot(i) = Boot(page.latestPublished) /\ page.latestPublished # 0
        BY <1>4, <1>8, <2>3, <3>1 DEF Current
      <4>2. page.latestPublished \in Published BY <2>3, <4>1
      <4> QED BY <1>5, <1>8, <1>9, <4>1, <4>2 DEF Current
    <3> QED BY <3>1
  <2>6. FramesCurrent(page)'
    <3>1. FramesCurrent(page) BY <2>2 DEF InOrder
    <3>2. \A f \in page.frames : f.published # 0 =>
             Current(page, f.published)' /\ f.id = IdOf(f.published)'
      BY <2>5, <3>1 DEF FramesCurrent
    <3> QED BY <1>5, <3>2 DEF FramesCurrent
  <2>7. ShowsLatest(page, shown.n)'
    <3>1. ShowsLatest(page, shown.n) BY <2>2 DEF InOrder
    <3> QED BY <1>5, <2>5, <3>1 DEF ShowsLatest, NoId
  <2> QED BY <2>4, <2>6, <2>7 DEF InOrder
<1> QED BY <1>16, <1>17 DEF OrderInv

LEMMA RestartOrders ==
  ASSUME FewCaptures, Typed, OrderInv, RestartCapture PROVE OrderInv'
<1>1. capture \in CaptureType /\ Len(pubs) \in Nat BY DEF Typed
<1>2. /\ capture' = [capture EXCEPT !.nextId = 0, !.slot = 0, !.boot = @ + 1]
      /\ capture.boot < MaxBoots /\ UNCHANGED <<pubs, page, shown>>
  BY DEF RestartCapture
<1>3. capture.boot = 1
  BY <1>2, ChannelAssumption DEF FewCaptures, OrderInv, Numbering
<1>4. capture'.boot = 2 /\ capture'.nextId = 0
  <2>1. capture' = [capture EXCEPT !.nextId = 0, !.slot = 0, !.boot = 2] BY <1>2, <1>3
  <2>2. capture' \in [nextId : {0}, slot : {0}, boot : {2}] BY <1>1, <2>1 DEF CaptureType
  <2> QED BY <2>2
<1>5. \A n \in Published : Boot(n) = 1
  <2>1. \A n \in Published : Boot(n) \in {1, 2} /\ Boot(n) <= 1
    BY <1>3 DEF OrderInv, Numbering
  <2> QED BY <2>1
<1>6. Numbering'
  BY <1>1, <1>2, <1>3, <1>4, <1>5 DEF OrderInv, Numbering, RanLong, Published, Boot, IdOf
<1> QED
  BY <1>2, <1>6 DEF OrderInv, RanLong, InOrder, Latests, FramesCurrent, ShowsLatest, Current,
     Published, Boot, IdOf, NoId

-----------------------------------------------------------------------------
Same(q, p) == /\ q.floor = p.floor /\ q.latestPublished = p.latestPublished
              /\ q.latestId = p.latestId
Like(gs, fs) == \A g \in gs : \E f \in fs : g.id = f.id /\ g.published = f.published

LEMMA LikeOrdered ==
  ASSUME NEW p, NEW q, NEW n, InOrder(p, n), Same(q, p), q.lastRendered = p.lastRendered,
         \A g \in q.frames : g.published # 0 =>
            \E f \in p.frames : g.id = f.id /\ g.published = f.published
  PROVE  InOrder(q, n)
<1>1. Latests(q) BY DEF InOrder, Latests, Same
<1>2. \A i : Current(p, i) <=> Current(q, i) BY DEF Current, Same
<1>3. FramesCurrent(q) BY <1>2 DEF InOrder, FramesCurrent
<1>4. ShowsLatest(q, n) BY <1>2 DEF InOrder, ShowsLatest, Same
<1> QED BY <1>1, <1>3, <1>4 DEF InOrder

LEMMA PlacedLike ==
  ASSUME NEW fs, \A f \in fs : IsFrame(f) PROVE Like(Placed(fs), fs)
<1> DEFINE At(f) == Cardinality({g \in fs : g.place <= f.place})
           Put(f) == [f EXCEPT !.place = At(f)]
<1>1. Placed(fs) = {Put(f) : f \in fs} BY DEF Placed
<1>2. ASSUME NEW f \in fs PROVE Put(f).id = f.id /\ Put(f).published = f.published
  <2>1. PICK x : x = At(f) OBVIOUS
  <2>2. PICK g : g = [f EXCEPT !.place = x] OBVIOUS
  <2>3. f \in [id : {f.id}, total : {f.total}, published : {f.published}, got : {f.got},
               place : {f.place}]
    BY DEF IsFrame
  <2>4. g.id = f.id /\ g.published = f.published BY <2>2, <2>3
  <2> QED BY <2>1, <2>2, <2>4
<1> HIDE DEF Put
<1> QED BY <1>1, <1>2 DEF Like

LEMMA DiscardIsLike ==
  ASSUME NEW p, NEW ids, GoodPage(p)
  PROVE  LET q == Discard(p, ids)
         IN  /\ Like(q.frames, p.frames) /\ Same(q, p) /\ q.lastRendered = p.lastRendered
             /\ q.frames = Without(p.frames, ids) /\ q.retired = p.retired \cup ids
<1>1. PICK F, R : F = Without(p.frames, ids) /\ R = p.retired \cup ids OBVIOUS
<1>2. PICK q : q = [p EXCEPT !.frames = F, !.retired = R] OBVIOUS
<1>3. Discard(p, ids) = q BY <1>1, <1>2 DEF Discard
<1>4. p \in Pages({p.frames}, {p.retired}, {p.lastRendered}, {p.latestPublished},
                  {p.latestId}, {p.floor})
  BY DEF GoodPage, IsPage, Pages
<1>5. q \in Pages({F}, {R}, {p.lastRendered}, {p.latestPublished}, {p.latestId}, {p.floor})
  BY <1>2, <1>4 DEF Pages
<1>6. /\ q.frames = F /\ q.retired = R /\ Same(q, p) /\ q.lastRendered = p.lastRendered
  BY <1>5 DEF Pages, Same
<1>7. Like(F, p.frames)
  <2>1. \A f \in p.frames : IsFrame(f) BY DEF GoodPage, Sound, FrameOk
  <2>2. PICK fs \in SUBSET p.frames : F = Placed(fs) BY <1>1 DEF Without
  <2>3. Like(F, fs) BY <2>1, <2>2, PlacedLike
  <2> QED BY <2>2, <2>3 DEF Like
<1> QED BY <1>1, <1>3, <1>6, <1>7

LEMMA DiscardOrdered ==
  ASSUME NEW p, NEW ids, NEW n, GoodPage(p), InOrder(p, n) PROVE InOrder(Discard(p, ids), n)
BY DiscardIsLike, LikeOrdered DEF Like

\* The frames that prune removes.
Pruned(p, k) == {f \in p.frames : f.place <= k \/ f.place + 2 <= Cardinality(p.frames)}

LEMMA PruneIsLike ==
  ASSUME NEW p, NEW k, NEW gone, GoodPage(p)
  PROVE  LET q == Prune(p, k, gone)
         IN  /\ Like(q.frames, p.frames) /\ Same(q, p) /\ q.lastRendered = p.lastRendered
             /\ q.frames = Without(p.frames, Ids(Pruned(p, k)))
             /\ q.retired = (p.retired \cup Ids(Pruned(p, k))) \ gone
<1>1. PICK old : old = Pruned(p, k) OBVIOUS
<1>2. PICK d : d = Discard(p, Ids(old)) OBVIOUS
<1>3. /\ GoodPage(d) /\ Like(d.frames, p.frames) /\ Same(d, p) /\ d.lastRendered = p.lastRendered
      /\ d.frames = Without(p.frames, Ids(old)) /\ d.retired = p.retired \cup Ids(old)
  BY <1>2, DiscardGood, DiscardIsLike
<1>4. PICK R : R = d.retired \ gone OBVIOUS
<1>5. PICK q : q = [d EXCEPT !.retired = R] OBVIOUS
<1>6. q = Prune(p, k, gone) BY <1>1, <1>2, <1>4, <1>5 DEF Prune, Pruned
<1>7. d \in Pages({d.frames}, {d.retired}, {d.lastRendered}, {d.latestPublished},
                  {d.latestId}, {d.floor})
  BY <1>3 DEF GoodPage, IsPage, Pages
<1>8. q \in Pages({d.frames}, {R}, {d.lastRendered}, {d.latestPublished}, {d.latestId}, {d.floor})
  BY <1>5, <1>7 DEF Pages
<1>9. q.frames = d.frames /\ q.retired = R /\ Same(q, d) /\ q.lastRendered = d.lastRendered
  BY <1>8 DEF Pages, Same
<1>11. PICK x : x = Prune(p, k, gone) OBVIOUS
<1>12. /\ Like(x.frames, p.frames) /\ Same(x, p) /\ x.lastRendered = p.lastRendered
       /\ x.frames = Without(p.frames, Ids(old)) /\ x.retired = (p.retired \cup Ids(old)) \ gone
  BY <1>3, <1>4, <1>6, <1>9, <1>11 DEF Same
<1> QED BY <1>1, <1>11, <1>12

LEMMA PruneRemoves ==
  ASSUME NEW p, NEW k, NEW gone, NEW ids, NEW q, GoodPage(p), ids = Ids(Pruned(p, k)),
         q = Prune(p, k, gone)
  PROVE  q.frames = Without(p.frames, ids) /\ \A i \in q.retired : i \in p.retired \/ i \in ids
BY PruneIsLike

LEMMA PruneOrdered ==
  ASSUME NEW p, NEW k, NEW gone, NEW n, GoodPage(p), InOrder(p, n)
  PROVE  InOrder(Prune(p, k, gone), n)
BY PruneIsLike, LikeOrdered DEF Like

LEMMA EnsureOrdered ==
  ASSUME NEW p, NEW id, NEW total, NEW n, GoodPage(p), InOrder(p, n)
  PROVE  /\ InOrder(EnsureFrame(p, id, total), n) /\ Same(EnsureFrame(p, id, total), p)
         /\ EnsureFrame(p, id, total).lastRendered = p.lastRendered
         /\ EnsureFrame(p, id, total).retired = p.retired
<1>1. CASE Refuses(p, id) \/ Has(p, id)
  BY <1>1 DEF EnsureFrame, Same
<1>2. CASE ~(Refuses(p, id) \/ Has(p, id))
  <2>1. PICK f : f = NewFrame(p, id, total) OBVIOUS
  <2>2. f.published = 0 BY <2>1 DEF NewFrame
  <2>3. PICK F : F = p.frames \cup {f} OBVIOUS
  <2>4. PICK q : q = [p EXCEPT !.frames = F] OBVIOUS
  <2>5. EnsureFrame(p, id, total) = q BY <1>2, <2>1, <2>3, <2>4 DEF EnsureFrame
  <2>6. p \in Pages({p.frames}, {p.retired}, {p.lastRendered}, {p.latestPublished},
                    {p.latestId}, {p.floor})
    BY DEF GoodPage, IsPage, Pages
  <2>7. q \in Pages({F}, {p.retired}, {p.lastRendered}, {p.latestPublished},
                    {p.latestId}, {p.floor})
    BY <2>4, <2>6 DEF Pages
  <2>8. /\ q.frames = F /\ Same(q, p) /\ q.lastRendered = p.lastRendered
        /\ q.retired = p.retired
    BY <2>7 DEF Pages, Same
  <2>9. InOrder(q, n) BY <2>2, <2>3, <2>8, LikeOrdered
  <2> QED BY <2>5, <2>8, <2>9
<1> QED BY <1>1, <1>2

LEMMA AddedOrdered ==
  ASSUME NEW p, NEW m, NEW n, GoodPage(p), InOrder(p, n), Current(p, m.n)
  PROVE  InOrder(WithFragment(p, m), n)
<1> DEFINE Got(f) == IF \E g \in f.got : g.index = m.index THEN f.got ELSE f.got \cup {m}
           Add(f) == IF f.id # IdOf(m.n) THEN f
                     ELSE [f EXCEPT !.published = m.n, !.got = Got(f)]
           F == {Add(f) : f \in p.frames}
<1>1. \A f \in p.frames : IsFrame(f) BY DEF GoodPage, Sound, FrameOk
<1>2. ASSUME NEW f \in p.frames, Add(f).published # 0
      PROVE  Current(p, Add(f).published) /\ Add(f).id = IdOf(Add(f).published)
  <2>1. CASE f.id # IdOf(m.n) BY <1>2, <2>1 DEF InOrder, FramesCurrent
  <2>2. CASE f.id = IdOf(m.n)
    <3>1. PICK x : x = Got(f) OBVIOUS
    <3>2. PICK g : g = [f EXCEPT !.published = m.n, !.got = x] OBVIOUS
    <3>3. f \in [id : {f.id}, total : {f.total}, published : {f.published}, got : {f.got},
                 place : {f.place}]
      BY <1>1 DEF IsFrame
    <3>4. g \in [id : {f.id}, total : {f.total}, published : {m.n}, got : {x}, place : {f.place}]
      BY <3>2, <3>3
    <3>5. g.id = IdOf(m.n) /\ g.published = m.n BY <2>2, <3>4
    <3>6. Add(f) = g BY <2>2, <3>1, <3>2
    <3> QED BY <3>5, <3>6
  <2> QED BY <2>1, <2>2
<1>3. WithFragment(p, m) = [p EXCEPT !.frames = F] BY DEF WithFragment
<1> HIDE DEF Add
<1>4. \A g \in F : g.published # 0 => Current(p, g.published) /\ g.id = IdOf(g.published)
  BY <1>2
<1> HIDE DEF F
<1>5. PICK q : q = [p EXCEPT !.frames = F] OBVIOUS
<1>6. p \in Pages({p.frames}, {p.retired}, {p.lastRendered}, {p.latestPublished},
                  {p.latestId}, {p.floor})
  BY DEF GoodPage, IsPage, Pages
<1>7. q \in Pages({F}, {p.retired}, {p.lastRendered}, {p.latestPublished}, {p.latestId}, {p.floor})
  BY <1>5, <1>6 DEF Pages
<1>8. q.frames = F /\ Same(q, p) /\ q.lastRendered = p.lastRendered
  BY <1>7 DEF Pages, Same
<1>9. \A i : Current(p, i) <=> Current(q, i) BY <1>8 DEF Current, Same
<1>10. FramesCurrent(q) BY <1>4, <1>8, <1>9 DEF FramesCurrent
<1>11. Latests(q) /\ ShowsLatest(q, n)
  BY <1>8, <1>9 DEF InOrder, Latests, ShowsLatest, Same
<1> QED BY <1>3, <1>5, <1>10, <1>11 DEF InOrder

\* A page that takes publication n in: whether the numbering began anew, and the
\* page that results before the fragment is looked at.
LEMMA RestartsWhen ==
  ASSUME NEW p, NEW n \in Published, Ordered, Latests(p), Len(pubs) \in Nat
  PROVE  Restarts(p, n) <=>
            p.latestPublished # 0 /\ n >= p.floor /\ Boot(n) > Boot(p.latestPublished)
<1>1. n \in Nat /\ p.floor \in Nat /\ p.latestPublished \in Nat /\ p.floor <= p.latestPublished
  BY DEF Published, Latests
<1>2. CASE p.latestPublished = 0 BY <1>2 DEF Restarts, Latests
<1>3. CASE p.latestPublished # 0
  <2>1. PICK l \in Published : l = p.latestPublished BY <1>3 DEF Latests, Published
  <2>2. /\ p.latestId = IdOf(l) /\ IdOf(l) \in Nat /\ IdOf(l) < Half /\ Boot(l) \in {1, 2}
        /\ IdOf(n) \in Nat /\ IdOf(n) < Half /\ Boot(n) \in {1, 2} /\ l \in Nat
    BY <1>3, <2>1 DEF Latests, Ordered, Published
  <2>3. IdOf(l) # NoId BY <2>2, ChannelAssumption DEF NoId, Half
  <2>4. Newer(IdOf(n), IdOf(l)) <=> IdOf(n) > IdOf(l) BY <2>2, NewerIsGreater
  <2>5. Restarts(p, n) <=> n > l /\ IdOf(n) < IdOf(l)
    BY <2>1, <2>2, <2>3, <2>4 DEF Restarts
  <2>6. n > l /\ IdOf(n) < IdOf(l) => Boot(n) > Boot(l) /\ n >= p.floor
    <3>1. SUFFICES ASSUME n > l, IdOf(n) < IdOf(l) PROVE Boot(n) > Boot(l) /\ n >= p.floor
      OBVIOUS
    <3>2. Boot(l) <= Boot(n) BY <2>2, <3>1 DEF Ordered
    <3>3. Boot(l) # Boot(n) BY <1>1, <2>2, <3>1 DEF Ordered
    <3> QED BY <1>1, <2>1, <2>2, <3>1, <3>2, <3>3
  <2>7. Boot(n) > Boot(l) => n > l /\ IdOf(n) < IdOf(l)
    <3>1. SUFFICES ASSUME Boot(n) > Boot(l) PROVE n > l /\ IdOf(n) < IdOf(l) OBVIOUS
    <3>2. IdOf(n) < IdOf(l) BY <2>2, <3>1 DEF Ordered
    <3>3. n # l /\ ~(n < l) BY <2>2, <3>1 DEF Ordered
    <3> QED BY <1>1, <2>2, <3>2, <3>3
  <2> QED BY <1>3, <2>1, <2>5, <2>6, <2>7
<1> QED BY <1>2, <1>3

\* The fresh page of a new numbering.
LEMMA NewPage ==
  ASSUME NEW n \in Published, Len(pubs) \in Nat
  PROVE  LET p == [FreshPage EXCEPT !.floor = n]
             l == Latest(p, n)
         IN  /\ l.frames = {} /\ l.retired = {} /\ l.lastRendered = NoId /\ l.floor = n
             /\ l.latestPublished = n /\ l.latestId = IdOf(n) /\ p.floor = n
             /\ IsPage(l) /\ Sound(pubs, l.frames)
<1>1. n \in Nat /\ n > 0 BY DEF Published
<1>2. PICK p : p = [FreshPage EXCEPT !.floor = n] OBVIOUS
<1>3. p = [frames |-> {}, retired |-> {}, lastRendered |-> NoId,
           latestPublished |-> 0, latestId |-> NoId, floor |-> n]
  BY <1>2 DEF FreshPage
<1>4. PICK l : l = [p EXCEPT !.latestPublished = n, !.latestId = IdOf(n)] OBVIOUS
<1>5. Latest(p, n) = l BY <1>1, <1>3, <1>4 DEF Latest
<1>6. l = [frames |-> {}, retired |-> {}, lastRendered |-> NoId,
           latestPublished |-> n, latestId |-> IdOf(n), floor |-> n]
  BY <1>3, <1>4
<1>7. IsPage(l) /\ Sound(pubs, l.frames) BY <1>6 DEF IsPage, Sound
<1>8. /\ l.frames = {} /\ l.retired = {} /\ l.lastRendered = NoId /\ l.floor = n
      /\ l.latestPublished = n /\ l.latestId = IdOf(n) /\ p.floor = n
  BY <1>3, <1>6
<1> QED BY <1>2, <1>5, <1>7, <1>8

LEMMA LatestOrdered ==
  ASSUME NEW before, NEW n \in Published, NEW s, Ordered, Len(pubs) \in Nat,
         GoodPage(before), InOrder(before, s), n >= Restarted(before, n).floor
  PROVE  LET l == Latest(Restarted(before, n), n)
         IN  GoodPage(l) /\ InOrder(l, s) /\ Current(l, n)
<1>1. /\ n \in Nat /\ n > 0 /\ n <= Len(pubs) /\ Boot(n) \in {1, 2} /\ Latests(before)
      /\ before.floor \in Nat /\ before.latestPublished \in Nat
      /\ before.floor <= before.latestPublished /\ before.latestPublished <= Len(pubs)
      /\ s \in Nat /\ s <= before.latestPublished
  BY DEF Published, InOrder, Latests, ShowsLatest, Ordered
<1>2. /\ \A i, j \in Published : i < j => Boot(i) <= Boot(j)
      /\ \A i \in Published : Boot(i) \in {1, 2} /\ i \in Nat
  BY DEF Ordered, Published
<1>3. CASE Restarts(before, n)
  <2>1. PICK l : l = Latest([FreshPage EXCEPT !.floor = n], n) OBVIOUS
  <2>2. l = Latest(Restarted(before, n), n) BY <1>3, <2>1 DEF Restarted
  <2>3. /\ l.frames = {} /\ l.lastRendered = NoId /\ l.floor = n /\ l.latestPublished = n
        /\ l.latestId = IdOf(n) /\ IsPage(l) /\ Sound(pubs, l.frames)
    BY <2>1, NewPage
  <2>4. n > before.latestPublished BY <1>3 DEF Restarts
  <2>5. \A i \in Published : i >= n => Boot(i) >= Boot(n)
    <3>1. ASSUME NEW i \in Published, i >= n PROVE Boot(i) >= Boot(n)
      <4>1. i = n \/ n < i BY <1>1, <1>2, <3>1
      <4> QED BY <1>2, <4>1
    <3> QED BY <3>1
  <2>6. Latests(l) BY <1>1, <2>3, <2>5 DEF Latests
  <2>7. Current(l, n) BY <1>1, <2>3 DEF Current
  <2>8. FramesCurrent(l) BY <2>3 DEF FramesCurrent
  <2>9. ShowsLatest(l, s) BY <1>1, <2>3, <2>4 DEF ShowsLatest
  <2> QED BY <2>2, <2>3, <2>6, <2>7, <2>8, <2>9 DEF GoodPage, InOrder
<1>4. CASE ~Restarts(before, n)
  <2>1. Restarted(before, n) = before /\ n >= before.floor BY <1>4 DEF Restarted
  <2>2. PICK l : l = Latest(before, n) OBVIOUS
  <2>3. before.latestPublished # 0 => /\ before.latestPublished \in Published
                                      /\ Boot(n) = Boot(before.latestPublished)
    <3>1. SUFFICES ASSUME before.latestPublished # 0
                   PROVE  /\ before.latestPublished \in Published
                          /\ Boot(n) = Boot(before.latestPublished)
      OBVIOUS
    <3>2. before.latestPublished \in Published BY <1>1, <3>1 DEF Published
    <3>3. Boot(n) >= Boot(before.latestPublished) BY <1>1, <2>1, <3>1 DEF Latests
    <3>4. ~(Boot(n) > Boot(before.latestPublished))
      BY <1>1, <1>4, <2>1, <3>1, RestartsWhen
    <3> QED BY <1>2, <3>2, <3>3, <3>4
  <2>4. CASE n > before.latestPublished
    <3>1. l = [before EXCEPT !.latestPublished = n, !.latestId = IdOf(n)]
      BY <2>2, <2>4 DEF Latest
    <3>2. before \in Pages({before.frames}, {before.retired}, {before.lastRendered},
                           {before.latestPublished}, {before.latestId}, {before.floor})
      BY DEF GoodPage, IsPage, Pages
    <3>3. l \in Pages({before.frames}, {before.retired}, {before.lastRendered},
                      {n}, {IdOf(n)}, {before.floor})
      BY <3>1, <3>2 DEF Pages
    <3>4. /\ l.frames = before.frames /\ l.lastRendered = before.lastRendered
          /\ l.latestPublished = n /\ l.latestId = IdOf(n) /\ l.floor = before.floor
      BY <3>3 DEF Pages
    <3>5. IsPage(l) BY <3>3, FieldsMakeAPage
    <3>6. \A i \in Published : i >= before.floor => Boot(i) >= Boot(n)
      <4>1. CASE before.latestPublished = 0
        <5>1. Boot(n) = 2 /\ \A i \in Published : Boot(i) = 2 BY <1>1, <4>1 DEF Latests
        <5> QED BY <5>1
      <4>2. CASE before.latestPublished # 0 BY <1>1, <2>3, <4>2 DEF Latests
      <4> QED BY <4>1, <4>2
    <3>7. Latests(l) BY <1>1, <2>1, <3>4, <3>6 DEF Latests
    <3>8. Current(l, n) BY <1>1, <2>1, <3>4 DEF Current
    <3>9. ASSUME NEW i, Current(before, i) PROVE Current(l, i)
      <4>1. i \in Published /\ before.floor <= i /\ i <= before.latestPublished
            /\ Boot(i) = Boot(before.latestPublished) /\ before.latestPublished # 0
        BY <1>1, <1>2, <3>9 DEF Current, Published
      <4> QED BY <1>1, <1>2, <2>3, <2>4, <3>4, <4>1 DEF Current
    <3>10. FramesCurrent(l) BY <3>4, <3>9 DEF InOrder, FramesCurrent
    <3>11. ShowsLatest(l, s) BY <1>1, <2>4, <3>4, <3>9 DEF InOrder, ShowsLatest
    <3> QED BY <2>1, <2>2, <3>4, <3>5, <3>7, <3>8, <3>10, <3>11 DEF GoodPage, InOrder
  <2>5. CASE ~(n > before.latestPublished)
    <3>1. l = before BY <2>2, <2>5 DEF Latest
    <3>2. Current(before, n) BY <1>1, <2>1, <2>3, <2>5 DEF Current
    <3> QED BY <2>1, <2>2, <3>1, <3>2
  <2> QED BY <2>4, <2>5
<1> QED BY <1>3, <1>4

-----------------------------------------------------------------------------
(***************************************************************************)
(* The Assembler keeps what it holds in order.                             *)
(***************************************************************************)
LEMMA SameCurrent ==
  ASSUME NEW p, NEW q, NEW n, Same(q, p), Current(p, n) PROVE Current(q, n)
BY DEF Same, Current

LEMMA AcceptOrdered ==
  ASSUME NEW before, NEW m, NEW k, NEW gone, NEW s, Ordered, pubs \in Seq(Publications),
         Len(pubs) \in Nat, GoodPage(before), InOrder(before, s), IsVideo(m), Sent(pubs, m)
  PROVE  InOrder(Accept(before, m, k, gone), s)
<1> DEFINE id == IdOf(m.n)
           p == Restarted(before, m.n)
           l == Latest(p, m.n)
           x == Prune(l, k, gone)
           q == EnsureFrame(x, id, Total(m.n))
<1>1. m.n \in Published /\ m.n \in Nat /\ before.floor \in Nat
  BY DEF Sent, Published, InOrder, Latests
<1>2. Accept(before, m, k, gone) =
        IF m.n < p.floor THEN p
        ELSE IF Refuses(q, id) THEN q
        ELSE IF ~Belongs(FrameOf(q, id), m.n) THEN Discard(q, {id})
        ELSE Trim(WithFragment(q, m))
  BY DEF Accept, p, l, x, q
<1>3. CASE m.n < p.floor
  <2>1. ASSUME Restarts(before, m.n) PROVE FALSE
    <3>1. p = [frames |-> {}, retired |-> {}, lastRendered |-> NoId,
               latestPublished |-> 0, latestId |-> NoId, floor |-> m.n]
      BY <2>1 DEF Restarted, FreshPage
    <3>2. p.floor = m.n BY <3>1
    <3> QED BY <1>1, <1>3, <3>2
  <2>2. p = before BY <2>1 DEF Restarted
  <2> QED BY <1>2, <1>3, <2>2
<1>4. CASE ~(m.n < p.floor)
  <2>1. m.n >= p.floor
    <3>1. CASE Restarts(before, m.n)
      <4>1. p = [frames |-> {}, retired |-> {}, lastRendered |-> NoId,
                 latestPublished |-> 0, latestId |-> NoId, floor |-> m.n]
        BY <3>1 DEF Restarted, FreshPage
      <4>2. p.floor = m.n BY <4>1
      <4> QED BY <1>1, <4>2
    <3>2. CASE ~Restarts(before, m.n)
      <4>1. p = before BY <3>2 DEF Restarted
      <4>2. PICK fl : fl = before.floor OBVIOUS
      <4>3. p.floor = fl BY <4>1, <4>2
      <4> QED BY <1>1, <1>4, <4>2, <4>3
    <3> QED BY <3>1, <3>2
  <2>2. GoodPage(l) /\ InOrder(l, s) /\ Current(l, m.n)
    BY <1>1, <2>1, LatestOrdered
  <2> HIDE DEF l
  <2>3. GoodPage(x) /\ InOrder(x, s) /\ Same(x, l)
    BY <2>2, PruneGood, PruneOrdered, PruneIsLike
  <2>4. Current(x, m.n) BY <2>2, <2>3, SameCurrent
  <2>5. Total(m.n) \in Nat \ {0} BY TotalIsPositive DEF Sent
  <2> HIDE DEF x
  <2>6. GoodPage(q) /\ InOrder(q, s) /\ Same(q, x)
    BY <2>3, <2>5, EnsureGood, EnsureOrdered
  <2>7. Current(q, m.n) BY <2>4, <2>6, SameCurrent
  <2> HIDE DEF q
  <2>8. InOrder(Discard(q, {id}), s) BY <2>6, DiscardOrdered
  <2>9. ASSUME Belongs(FrameOf(q, id), m.n) PROVE InOrder(Trim(WithFragment(q, m)), s)
    BY <2>6, <2>7, <2>9, AddedGood, AddedOrdered, PruneOrdered DEF Trim
  <2> HIDE DEF p
  <2> QED BY <1>2, <1>4, <2>6, <2>8, <2>9
<1> QED BY <1>3, <1>4

\* The image becomes publication i.
LEMMA FinishedOrdered ==
  ASSUME NEW p, NEW i, NEW n, Ordered, Len(pubs) \in Nat, GoodPage(p), InOrder(p, n), Current(p, i)
  PROVE  InOrder(Finished(p, IdOf(i)), i)
<1>1. PICK id, F : id = IdOf(i) /\ F = Without(p.frames, {id}) OBVIOUS
<1>2. Sound(pubs, F) BY <1>1, WithoutSound DEF GoodPage
<1>3. PICK q : q = [p EXCEPT !.frames = F, !.lastRendered = id] OBVIOUS
<1>4. GoodPage(q) BY <1>2, <1>3, FramesReplaced DEF GoodPage
<1>5. p \in Pages({p.frames}, {p.retired}, {p.lastRendered}, {p.latestPublished},
                  {p.latestId}, {p.floor})
  BY DEF GoodPage, IsPage, Pages
<1>6. q \in Pages({F}, {p.retired}, {id}, {p.latestPublished}, {p.latestId}, {p.floor})
  BY <1>3, <1>5 DEF Pages
<1>7. q.frames = F /\ Same(q, p) /\ q.lastRendered = id BY <1>6 DEF Pages, Same
<1>8. Like(F, p.frames)
  <2>1. \A f \in p.frames : IsFrame(f) BY DEF GoodPage, Sound, FrameOk
  <2>2. PICK fs \in SUBSET p.frames : F = Placed(fs) BY <1>1 DEF Without
  <2>3. Like(F, fs) BY <2>1, <2>2, PlacedLike
  <2> QED BY <2>2, <2>3 DEF Like
<1>9. \A j : Current(p, j) <=> Current(q, j) BY <1>7 DEF Current, Same
<1>10. Latests(q) BY <1>7 DEF InOrder, Latests, Same
<1>11. FramesCurrent(q) BY <1>7, <1>8, <1>9 DEF InOrder, FramesCurrent, Like
<1>12. id # NoId
  <2>1. id \in Nat /\ id < Half BY <1>1 DEF Ordered, Current
  <2> QED BY <2>1, ChannelAssumption DEF Half, NoId
<1>13. i \in 0 .. q.latestPublished
  <2>1. i \in Published /\ i <= p.latestPublished /\ p.latestPublished \in Nat
    BY DEF Current, InOrder, Latests
  <2> QED BY <1>7, <2>1 DEF Same, Published
<1>14. ShowsLatest(q, i) BY <1>1, <1>7, <1>9, <1>12, <1>13 DEF ShowsLatest
<1>15. InOrder(q, i) BY <1>10, <1>11, <1>14 DEF InOrder
<1>16. PICK ids : Finished(p, id) = Discard(q, ids) BY <1>1, <1>3 DEF Finished
<1>17. InOrder(Discard(q, ids), i) BY <1>4, <1>15, DiscardOrdered
<1> QED BY <1>1, <1>16, <1>17

LEMMA RenderOrdered ==
  ASSUME NEW p, NEW id, Ordered, pubs \in Seq(Publications), Len(pubs) \in Nat,
         GoodPage(p), InOrder(p, shown.n), Render(p, id)
  PROVE  InOrder(page', shown'.n) /\ shown'.n >= shown.n
<1>1. PICK n : n = shown.n OBVIOUS
<1>2. /\ n \in Nat /\ p.floor \in Nat /\ p.latestPublished \in Nat /\ n <= p.latestPublished
      /\ p.lastRendered = NoId => n < p.floor \/ n = 0
      /\ p.lastRendered # NoId => Current(p, n) /\ p.lastRendered = IdOf(n)
  BY <1>1 DEF InOrder, ShowsLatest, Latests
<1>3. CASE CanRender(p, id) /\ ~Passed(p, id)
            /\ page' = Trim(Finished(p, id))
            /\ shown' = [n |-> FrameOf(p, id).published, parts |-> FrameOf(p, id).got]
  <2>1. PICK f : f = FrameOf(p, id) OBVIOUS
  <2>2. f \in p.frames /\ f.id = id /\ Cardinality(f.got) = f.total
    BY <1>3, <2>1 DEF CanRender, Has, Ids, FrameOf
  <2>3. FrameOk(pubs, f) BY <2>2 DEF GoodPage, Sound
  <2>4. f.published # 0
    <3>1. ASSUME f.published = 0 PROVE FALSE
      <4>1. f.got = {} /\ f.total > 0 /\ f.total \in Nat BY <2>3, <3>1 DEF FrameOk
      <4>2. Cardinality(f.got) = 0 BY <4>1, FS_EmptySet
      <4> QED BY <2>2, <4>1, <4>2
    <3> QED BY <3>1
  <2>5. PICK i : i = f.published OBVIOUS
  <2>6. Current(p, i) /\ id = IdOf(i) BY <2>2, <2>4, <2>5 DEF InOrder, FramesCurrent
  <2>7. /\ i \in Published /\ i \in Nat /\ p.floor <= i /\ Boot(i) = Boot(p.latestPublished)
        /\ IdOf(i) \in Nat /\ IdOf(i) < Half
    BY <2>6 DEF Current, Published, Ordered
  <2>8. i >= n
    <3>1. CASE p.lastRendered = NoId BY <1>2, <2>7, <3>1
    <3>2. CASE p.lastRendered # NoId
      <4>1. /\ n \in Published /\ Boot(n) = Boot(i) /\ IdOf(n) \in Nat /\ IdOf(n) < Half
        BY <1>2, <2>7, <3>2 DEF Current, Ordered
      <4>2. Newer(IdOf(i), IdOf(n)) BY <1>2, <1>3, <2>6, <3>2 DEF Passed
      <4>3. IdOf(i) > IdOf(n) BY <2>7, <4>1, <4>2, NewerIsGreater
      <4>4. ~(i < n) BY <2>7, <4>1, <4>3 DEF Ordered
      <4> QED BY <1>2, <2>7, <4>4
    <3> QED BY <3>1, <3>2
  <2>9. GoodPage(Finished(p, id)) /\ InOrder(Finished(p, id), i)
    BY <2>6, FinishedGood, FinishedOrdered
  <2>10. InOrder(page', i) BY <1>3, <2>9, PruneOrdered DEF Trim
  <2>11. shown'.n = i BY <1>3, <2>1, <2>5
  <2> QED BY <1>1, <2>8, <2>10, <2>11
<1>4. ASSUME UNCHANGED shown, GoodPage(p),
             page' = Trim(Discard(p, {id})) \/ page' = Trim(p)
      PROVE InOrder(page', shown'.n) /\ shown'.n >= shown.n
  <2>1. InOrder(page', n)
    BY <1>1, <1>4, DiscardGood, DiscardOrdered, PruneOrdered DEF Trim
  <2>2. shown'.n = n BY <1>1, <1>4
  <2> QED BY <1>1, <1>2, <2>1, <2>2
<1> QED BY <1>3, <1>4 DEF Render

LEMMA PageMoves ==
  ASSUME OrderInv, UNCHANGED <<pubs, capture>>, RanLong => InOrder(page', shown'.n)
  PROVE  OrderInv'
<1>1. Numbering' BY DEF OrderInv, Numbering, RanLong, Published, Boot, IdOf
<1>2. RanLong' => InOrder(page, shown.n)'
  BY DEF RanLong, InOrder, Latests, FramesCurrent, ShowsLatest, Current, Published, Boot, IdOf,
     NoId
<1> QED BY <1>1, <1>2 DEF OrderInv

LEMMA ArrivalOrders ==
  ASSUME FewCaptures, Inv, OrderInv, VideoArrives \/ StartArrives \/ EndArrives
  PROVE  OrderInv' /\ (RanLong => shown'.n >= shown.n)
<1>1. /\ IsWire(wire) /\ pubs \in Seq(Publications) /\ Len(pubs) \in Nat /\ Sending
      /\ GoodPage(page)
  BY DEF Inv, Typed, Assembly, GoodPage
<1>2. UNCHANGED <<pubs, capture>> BY DEF VideoArrives, StartArrives, EndArrives
<1>3. SUFFICES ASSUME RanLong PROVE InOrder(page', shown'.n) /\ shown'.n >= shown.n
  BY <1>2, PageMoves
<1>4. Ordered /\ InOrder(page, shown.n) BY <1>1, <1>3, NumbersTell DEF OrderInv
<1>5. CASE VideoArrives
  <2>1. PICK m \in wire.video : \E k, gone : Render(Accept(page, m, k, gone), IdOf(m.n))
    BY <1>5 DEF VideoArrives
  <2>2. IsVideo(m) /\ Sent(pubs, m) BY <1>1 DEF Sending
  <2>3. PICK k, gone : Render(Accept(page, m, k, gone), IdOf(m.n)) BY <2>1
  <2>4. PICK p : p = Accept(page, m, k, gone) OBVIOUS
  <2>5. GoodPage(p) BY <1>1, <2>2, <2>4, AcceptGood
  <2>6. InOrder(p, shown.n) BY <1>1, <1>4, <2>2, <2>4, AcceptOrdered
  <2> QED BY <1>1, <1>4, <2>3, <2>4, <2>5, <2>6, RenderOrdered
<1>6. CASE StartArrives
  <2>1. wire.control # <<>> /\ UNCHANGED shown BY <1>6 DEF StartArrives
  <2>2. PICK n, k, gone : /\ n = Head(wire.control).n
                          /\ page' = Prune(EnsureFrame(page, IdOf(n), Total(n)), k, gone)
    BY <1>6 DEF StartArrives
  <2>3. n \in 1 .. Len(pubs)
    BY <1>1, <2>1, <2>2, FirstAndRest DEF IsWire, Sending, AllSent, Sent
  <2>4. Total(n) \in Nat \ {0} BY <1>1, <2>3, TotalIsPositive
  <2>5. PICK q : q = EnsureFrame(page, IdOf(n), Total(n)) OBVIOUS
  <2>6. GoodPage(q) /\ InOrder(q, shown.n) BY <1>1, <1>4, <2>4, <2>5, EnsureGood, EnsureOrdered
  <2>7. InOrder(page', shown.n) BY <2>2, <2>5, <2>6, PruneOrdered
  <2>8. shown.n \in Nat BY <1>4 DEF InOrder, ShowsLatest, Latests
  <2> QED BY <2>1, <2>7, <2>8
<1>7. CASE EndArrives
  <2>1. PICK id : Render(page, id) BY <1>7 DEF EndArrives
  <2> QED BY <1>1, <1>4, <2>1, RenderOrdered
<1> QED BY <1>5, <1>6, <1>7

LEMMA OrderKeeps ==
  ASSUME FewCaptures, Inv, OrderInv, [Next]_vars
  PROVE  OrderInv' /\ (RanLong => shown'.n >= shown.n)
<1>1. Typed BY DEF Inv
<1>2. RanLong => shown.n \in Nat BY <1>1 DEF OrderInv, InOrder, ShowsLatest, Latests, Typed
<1>3. CASE Publish
  <2>1. OrderInv' BY <1>1, <1>3, PublishOrders
  <2>2. shown' = shown BY <1>3 DEF Publish
  <2> QED BY <1>2, <2>1, <2>2
<1>4. CASE RestartCapture
  <2>1. OrderInv' BY <1>1, <1>4, RestartOrders
  <2>2. shown' = shown BY <1>4 DEF RestartCapture
  <2> QED BY <1>2, <2>1, <2>2
<1>5. CASE VideoArrives \/ StartArrives \/ EndArrives
  BY <1>5, ArrivalOrders
<1>6. CASE \/ TakeFrame \/ SendNext \/ Flush \/ EndFlush \/ VideoIsLost \/ UNCHANGED vars
  <2>1. UNCHANGED <<pubs, capture, page, shown>>
    BY <1>6 DEF TakeFrame, SendNext, Flush, EndFlush, VideoIsLost, vars
  <2>2. RanLong => InOrder(page', shown'.n) BY <2>1 DEF OrderInv
  <2>3. OrderInv' BY <2>1, <2>2, PageMoves
  <2> QED BY <1>2, <2>1, <2>3
<1> QED BY <1>3, <1>4, <1>5, <1>6 DEF Next

\* While RanLong holds, what the page keeps and shows is in the order of its capture
\* and of the floor set at a restart, over every step of every thread.
THEOREM OrderInvariance == ASSUME FewCaptures PROVE Spec => []OrderInv
<1>1. Init => OrderInv BY OrderStarts
<1>2. Inv /\ OrderInv /\ [Next]_vars => OrderInv' BY OrderKeeps
<1> QED BY <1>1, <1>2, ChannelInvariance, PTL DEF Spec

\* The image never goes back in time, whatever is late, lost or reordered and
\* although the second capture numbers its frames from 0 again.
THEOREM NoOlder == ASSUME FewCaptures PROVE Spec => NoOlderFrameShown
<1>1. Inv /\ OrderInv /\ [Next]_vars => [RanLong => shown'.n >= shown.n]_vars BY OrderKeeps
<1>2. Spec => [][RanLong => shown'.n >= shown.n]_vars
  BY <1>1, ChannelInvariance, OrderInvariance, PTL DEF Spec
<1> QED BY <1>2 DEF NoOlderFrameShown

-----------------------------------------------------------------------------
(***************************************************************************)
(* The first frame after a restart.                                        *)
(***************************************************************************)
\* A page without frames that takes in the only fragment of a publication.
LEMMA OnlyFrame ==
  ASSUME NEW x, NEW m, GoodPage(x), x.frames = {}, x.retired = {}, x.lastRendered = NoId,
         Total(m.n) = 1
  PROVE  LET q == EnsureFrame(x, IdOf(m.n), Total(m.n))
         IN  /\ ~Refuses(q, IdOf(m.n)) /\ Belongs(FrameOf(q, IdOf(m.n)), m.n)
             /\ \E g : /\ WithFragment(q, m).frames = {g} /\ IsFrame(g) /\ g.id = IdOf(m.n)
                       /\ g.total = 1 /\ g.published = m.n /\ g.got = {m} /\ g.place = 1
             /\ WithFragment(q, m).lastRendered = NoId
<1>1. PICK id, f : id = IdOf(m.n) /\ f = NewFrame(x, id, 1) OBVIOUS
<1>2. f = [id |-> id, total |-> 1, published |-> 0, got |-> {}, place |-> 1]
  <2>1. Cardinality(x.frames) = 0 BY FS_EmptySet
  <2> QED BY <1>1, <2>1 DEF NewFrame
<1>3. ~Refuses(x, id) /\ ~Has(x, id) BY DEF Refuses, Passed, Has, Ids
<1>4. PICK q : q = [x EXCEPT !.frames = {f}] OBVIOUS
<1>5. EnsureFrame(x, id, 1) = q
  <2>1. x.frames \cup {f} = {f} OBVIOUS
  <2> QED BY <1>1, <1>3, <1>4, <2>1 DEF EnsureFrame
<1>6. x \in Pages({x.frames}, {x.retired}, {x.lastRendered}, {x.latestPublished},
                  {x.latestId}, {x.floor})
  BY DEF GoodPage, IsPage, Pages
<1>7. q \in Pages({{f}}, {{}}, {NoId}, {x.latestPublished}, {x.latestId}, {x.floor})
  BY <1>4, <1>6 DEF Pages
<1>8. q.frames = {f} /\ q.retired = {} /\ q.lastRendered = NoId BY <1>7 DEF Pages
<1>9. ~Refuses(q, id) BY <1>8 DEF Refuses, Passed
<1>10. f.id = id /\ f.total = 1 /\ f.published = 0 /\ f.got = {} /\ f.place = 1 BY <1>2
<1>11. FrameOf(q, id) = f BY <1>8, <1>10 DEF FrameOf
<1>12. Belongs(FrameOf(q, id), m.n) BY <1>10, <1>11 DEF Belongs
<1>13. PICK g : g = [f EXCEPT !.published = m.n, !.got = {m}] OBVIOUS
<1>14. g = [id |-> id, total |-> 1, published |-> m.n, got |-> {m}, place |-> 1]
  BY <1>2, <1>13
<1>15. WithFragment(q, m) = [q EXCEPT !.frames = {g}]
  <2>1. (IF \E h \in f.got : h.index = m.index THEN f.got ELSE f.got \cup {m}) = {m}
    BY <1>10
  <2>2. PICK z : z = IF \E h \in f.got : h.index = m.index THEN f.got ELSE f.got \cup {m}
    OBVIOUS
  <2>3. g = [f EXCEPT !.published = m.n, !.got = z] BY <1>13, <2>1, <2>2
  <2>4. {IF h.id # IdOf(m.n) THEN h
         ELSE [h EXCEPT !.published = m.n,
                 !.got = IF \E j \in @ : j.index = m.index THEN @ ELSE @ \cup {m}] : h \in {f}}
        = {g}
    BY <1>1, <1>10, <2>2, <2>3
  <2> QED BY <1>8, <2>4 DEF WithFragment
<1>16. PICK w : w = [q EXCEPT !.frames = {g}] OBVIOUS
<1>17. w \in Pages({{g}}, {{}}, {NoId}, {x.latestPublished}, {x.latestId}, {x.floor})
  BY <1>7, <1>16 DEF Pages
<1>18. w.frames = {g} /\ w.lastRendered = NoId BY <1>17 DEF Pages
<1>19. /\ IsFrame(g) /\ g.id = id /\ g.total = 1 /\ g.published = m.n /\ g.got = {m}
       /\ g.place = 1
  BY <1>14 DEF IsFrame
<1> QED BY <1>1, <1>5, <1>9, <1>12, <1>15, <1>16, <1>18, <1>19

\* That frame is not trimmed, and is complete.
LEMMA OnlyFrameStays ==
  ASSUME NEW w, NEW g, GoodPage(w), w.frames = {g}, IsFrame(g), g.total = 1, g.place = 1,
         NEW m, g.got = {m}
  PROVE  /\ CanRender(Trim(w), g.id) /\ FrameOf(Trim(w), g.id).published = g.published
         /\ Trim(w).lastRendered = w.lastRendered
<1>1. PICK t : t = Prune(w, 0, {}) OBVIOUS
<1>2. PICK ids : ids = Ids(Pruned(w, 0)) OBVIOUS
<1>14. t.frames = Without(w.frames, ids) BY <1>1, <1>2, PruneRemoves
<1>3. ids = {}
  <2>1. Cardinality(w.frames) = 1 BY FS_Singleton
  <2>2. ~(1 <= 0) /\ ~(1 + 2 <= 1) OBVIOUS
  <2>3. \A f \in w.frames : ~(f.place <= 0 \/ f.place + 2 <= Cardinality(w.frames))
    BY <2>1, <2>2
  <2> QED BY <1>2, <2>3 DEF Ids, Pruned
<1>4. t.frames = Placed({g})
  <2>1. {f \in {g} : f.id \notin {}} = {g} OBVIOUS
  <2> QED BY <1>3, <1>14, <2>1 DEF Without
<1>5. PICK x : x = Cardinality({h \in {g} : h.place <= g.place}) OBVIOUS
<1>6. PICK h : h = [g EXCEPT !.place = x] OBVIOUS
<1>7. t.frames = {h}
  <2>1. Placed({g}) = {[g EXCEPT !.place = Cardinality({j \in {g} : j.place <= g.place})]}
    BY DEF Placed
  <2> QED BY <1>4, <1>5, <1>6, <2>1
<1>8. g \in [id : {g.id}, total : {g.total}, published : {g.published}, got : {g.got},
             place : {g.place}]
  BY DEF IsFrame
<1>9. h.id = g.id /\ h.total = 1 /\ h.published = g.published /\ h.got = {m}
  BY <1>6, <1>8
<1>10. FrameOf(t, g.id) = h BY <1>7, <1>9 DEF FrameOf
<1>11. CanRender(t, g.id)
  <2>1. Has(t, g.id) BY <1>7, <1>9 DEF Has, Ids
  <2> QED BY <1>9, <1>10, <2>1, FS_Singleton DEF CanRender
<1>12. t.lastRendered = w.lastRendered BY <1>1, PruneIsLike
<1>13. t = Trim(w) BY <1>1 DEF Trim
<1> QED BY <1>9, <1>10, <1>11, <1>12, <1>13

LEMMA PruneOfNone ==
  ASSUME NEW p, NEW k, NEW gone, GoodPage(p), p.frames = {}, p.retired = {}
  PROVE  Prune(p, k, gone).frames = {} /\ Prune(p, k, gone).retired = {}
<1>1. PICK ids, q : ids = Ids(Pruned(p, k)) /\ q = Prune(p, k, gone) OBVIOUS
<1>2. q.frames = Without(p.frames, ids) /\ \A i \in q.retired : i \in p.retired \/ i \in ids
  BY <1>1, PruneRemoves
<1>3. ids = {} BY <1>1 DEF Ids, Pruned
<1>4. q.frames = {} BY <1>2 DEF Without, Placed
<1>5. q.retired = {} BY <1>2, <1>3
<1> QED BY <1>1, <1>4, <1>5

LEMMA NewCaptureAccepted ==
  ASSUME NEW before, NEW m, NEW k, NEW gone, NEW s, Ordered, pubs \in Seq(Publications),
         Len(pubs) \in Nat, GoodPage(before), InOrder(before, s), IsVideo(m), Sent(pubs, m),
         before.latestPublished # 0, Total(m.n) = 1,
         Boot(m.n) > Boot(before.latestPublished),
         Render(Accept(before, m, k, gone), IdOf(m.n))
  PROVE  shown'.n = m.n
<1> DEFINE id == IdOf(m.n)
           p == [FreshPage EXCEPT !.floor = m.n]
           l == Latest(p, m.n)
           x == Prune(l, k, gone)
           q == EnsureFrame(x, id, Total(m.n))
           w == WithFragment(q, m)
<1>1. m.n \in Published /\ m.n \in Nat BY DEF Sent, Published
<1>2. Restarts(before, m.n)
  <2>1. PICK n : n = before.latestPublished OBVIOUS
  <2>2. /\ n \in Published /\ n \in Nat /\ before.floor \in Nat /\ before.floor <= n
        /\ Latests(before)
    BY <2>1 DEF InOrder, Latests, Published
  <2>3. ~(m.n < n) /\ m.n # n
    <3>1. Boot(m.n) \in {1, 2} /\ Boot(n) \in {1, 2} /\ Boot(m.n) > Boot(n)
      BY <1>1, <2>1, <2>2 DEF Ordered
    <3>2. m.n < n => Boot(m.n) <= Boot(n) BY <1>1, <2>2 DEF Ordered
    <3> QED BY <3>1, <3>2
  <2>4. m.n >= before.floor BY <1>1, <2>2, <2>3
  <2> QED BY <1>1, <2>2, <2>4, RestartsWhen
<1>3. /\ l.frames = {} /\ l.retired = {} /\ l.lastRendered = NoId /\ p.floor = m.n
      /\ GoodPage(l)
  BY <1>1, NewPage DEF GoodPage
<1>4. Accept(before, m, k, gone) =
        IF m.n < p.floor THEN p
        ELSE IF Refuses(q, id) THEN q
        ELSE IF ~Belongs(FrameOf(q, id), m.n) THEN Discard(q, {id})
        ELSE Trim(w)
  BY <1>2 DEF Accept, Restarted, p, l, x, q, w
<1> HIDE DEF l
<1>5. GoodPage(x) /\ x.lastRendered = NoId BY <1>3, PruneGood, PruneIsLike
<1>6. x.frames = {} /\ x.retired = {} BY <1>3, PruneOfNone
<1> HIDE DEF x
<1>7. /\ ~Refuses(q, id) /\ Belongs(FrameOf(q, id), m.n)
      /\ \E g : /\ w.frames = {g} /\ IsFrame(g) /\ g.id = id
                /\ g.total = 1 /\ g.published = m.n /\ g.got = {m} /\ g.place = 1
      /\ w.lastRendered = NoId
  BY ZenonT(60), <1>5, <1>6, OnlyFrame
<1>8. GoodPage(w)
  <2>1. GoodPage(q) BY <1>5, EnsureGood
  <2> HIDE DEF q
  <2> QED BY <1>7, <2>1, AddedGood
<1>9. ~(m.n < p.floor) BY <1>1, <1>3
<1> HIDE DEF p, q
<1>10. PICK t : t = Trim(w) OBVIOUS
<1>11. Accept(before, m, k, gone) = t BY <1>4, <1>7, <1>9, <1>10
<1> HIDE DEF w
<1>12. CanRender(t, id) /\ FrameOf(t, id).published = m.n /\ t.lastRendered = NoId
  BY <1>7, <1>8, <1>10, OnlyFrameStays
<1>13. ~Passed(t, id) BY <1>12 DEF Passed
<1>14. Render(t, id) BY <1>11
<1>15. shown' = [n |-> FrameOf(t, id).published, parts |-> FrameOf(t, id).got]
  BY <1>12, <1>13, <1>14 DEF Render
<1> QED BY <1>12, <1>15

LEMMA OnlyArrivalsTakeVideo ==
  ASSUME Inv, [Next]_vars, NEW m \in wire.video \ wire'.video
  PROVE  UNCHANGED page \/ \E k, gone : Render(Accept(page, m, k, gone), IdOf(m.n))
<1>1. Typed /\ Amounts /\ Sending /\ IsWire(wire) BY DEF Inv, Typed
<1>2. CASE VideoArrives
  <2>1. PICK x \in wire.video :
          /\ wire' = [wire EXCEPT !.video = @ \ {x}]
          /\ \E k, gone : Render(Accept(page, x, k, gone), IdOf(x.n))
    BY <1>2 DEF VideoArrives
  <2>2. m = x
    <3>1. PICK c, v : c = wire.control /\ v = wire.video \ {x} OBVIOUS
    <3>2. wire' = [control |-> c, video |-> v] BY <1>1, <2>1, <3>1 DEF IsWire
    <3>3. wire'.video = v BY <3>2
    <3> QED BY <3>1, <3>3
  <2> QED BY <2>1, <2>2
<1>3. CASE StartArrives \/ EndArrives
  <2>1. wire.control # <<>> /\ wire' = [wire EXCEPT !.control = Tail(@)]
    BY <1>3 DEF StartArrives, EndArrives
  <2>2. wire'.video = wire.video BY <1>1, <2>1, ControlLeavesAWire
  <2> QED BY <2>2
<1>4. CASE \/ Publish \/ RestartCapture \/ TakeFrame \/ SendNext \/ Flush \/ EndFlush
           \/ VideoIsLost \/ UNCHANGED vars
  <2>1. UNCHANGED page
    BY <1>4 DEF Publish, RestartCapture, TakeFrame, SendNext, Flush, EndFlush, VideoIsLost, vars
  <2> QED BY <2>1
<1> QED BY <1>2, <1>3, <1>4 DEF Next

\* After a restart the first fragment of the new capture that the page takes in
\* becomes the image, if it is a frame by itself, whatever the page held before.
THEOREM NewCapture == ASSUME FewCaptures PROVE Spec => NewCaptureIsShown
<1> DEFINE Shown == \A m \in wire.video \ wire'.video :
                      (/\ RanLong /\ page.latestPublished > 0 /\ page # page' /\ Total(m.n) = 1
                       /\ pubs[m.n].boot > pubs[page.latestPublished].boot)
                      => shown'.n = m.n
<1>1. Inv /\ OrderInv /\ [Next]_vars => [Shown]_vars
  <2>1. SUFFICES ASSUME Inv, OrderInv, [Next]_vars, NEW m \in wire.video \ wire'.video,
                        RanLong, page.latestPublished > 0, page # page', Total(m.n) = 1,
                        pubs[m.n].boot > pubs[page.latestPublished].boot
                 PROVE shown'.n = m.n
    OBVIOUS
  <2>2. /\ pubs \in Seq(Publications) /\ Len(pubs) \in Nat /\ Sending /\ GoodPage(page)
    BY <2>1 DEF Inv, Typed, Assembly, GoodPage
  <2>3. Ordered /\ InOrder(page, shown.n) BY <2>1, <2>2, NumbersTell DEF OrderInv
  <2>4. PICK k, gone : Render(Accept(page, m, k, gone), IdOf(m.n))
    BY <2>1, OnlyArrivalsTakeVideo
  <2>5. IsVideo(m) /\ Sent(pubs, m) BY <2>2 DEF Sending
  <2>6. Boot(m.n) > Boot(page.latestPublished) BY <2>1 DEF Boot
  <2>7. page.latestPublished # 0
    <3>1. PICK n : n = page.latestPublished OBVIOUS
    <3> QED BY <2>1, <3>1
  <2> QED BY <2>1, <2>2, <2>3, <2>4, <2>5, <2>6, <2>7, NewCaptureAccepted
<1>2. Spec => [][Shown]_vars
  BY <1>1, ChannelInvariance, OrderInvariance, PTL DEF Spec
<1> QED BY <1>2 DEF NewCaptureIsShown
=============================================================================
