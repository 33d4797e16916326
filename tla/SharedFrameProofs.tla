-------------------------- MODULE SharedFrameProofs --------------------------
(***************************************************************************)
(* Proof that the readers of the shared slot release whole frames that only *)
(* get newer, for any number of buffers, pictures, publications and starts. *)
(*                                                                         *)
(* The gateway is safe because no start of the capture and no first         *)
(* publication falls into one of its passes, so the counter it compares     *)
(* only grows.  The Node server is safe without that: the sizes, the        *)
(* counter and the time stamp are read in one order and written in another, *)
(* and a value of theirs that is gone does not come back.                   *)
(***************************************************************************)
EXTENDS SharedFrame, TLAPS

Newest == Len(pubs)
LastPicture == IF Newest = 0 THEN 0 ELSE pubs[Newest].picture

MemType == [id : Nat, meta : Nat, seq : Nat, flags : Nat, pub : Nat,
            half1 : Nat, half2 : Nat, timing : Nat]
HeaderType == [id : Nat, meta : Nat, seq : Nat, flags : Nat, pub : Nat]
CopyType == [half1 : Nat, half2 : Nat, timing : Nat]
PublicationType == [id : Nat, picture : Nat]
CameraType == [empty : Seq(1 .. Buffers), full : Seq(1 .. Buffers),
               holds : [1 .. Buffers -> Nat], pictures : Nat]
CapturePcs == {"idle", "drain", "return", "write", "down", "clear"}
CaptureTodo == SUBSET (Stores \union Chunks)
BufferOrNone == 0 .. Buffers
CaptureType == [pc : CapturePcs, todo : CaptureTodo, buffer : BufferOrNone, left : Nat,
                frameId : Nat, writeSeq : Nat, boot : Nat, since : Nat]
ReaderKinds == {"gateway", "node"}
ReaderPcs == {"top", "snap", "decide", "copy", "header", "verify"}
ReaderTodo == SUBSET (Chunks \union Halves)
ReaderType == [kind : ReaderKinds, pc : ReaderPcs, todo : ReaderTodo, h : HeaderType,
               again : HeaderType, copy : CopyType, seq1 : Nat, lastId : Nat, after : Nat]
FrameType == [h : HeaderType, copy : CopyType, n : Nat]

Typed == /\ mem \in MemType /\ camera \in CameraType /\ capture \in CaptureType
         /\ pubs \in Seq(PublicationType) /\ reader \in ReaderType
         /\ sent \in FrameType

(***************************************************************************)
(* The camera.  A buffer is in one place only, and the pictures that wait   *)
(* are in order and newer than what was published.                         *)
(***************************************************************************)
Once(s) == \A i, j \in 1 .. Len(s) : s[i] = s[j] => i = j
NotIn(b, s) == \A i \in 1 .. Len(s) : s[i] # b
Apart(s, t) == \A i \in 1 .. Len(s) : NotIn(s[i], t)

InOnePlace(c, buffer) == /\ Once(c.empty) /\ Apart(c.full, c.empty)
                         /\ NotIn(buffer, c.empty) /\ NotIn(buffer, c.full)

NewerThan(c, picture) ==
    /\ \A i \in 1 .. Len(c.full) : picture < c.holds[c.full[i]] /\ c.holds[c.full[i]] <= c.pictures
    /\ \A i, j \in 1 .. Len(c.full) : i < j => c.holds[c.full[i]] < c.holds[c.full[j]]

CameraInv ==
    /\ InOnePlace(camera, capture.buffer) /\ NewerThan(camera, LastPicture)
    /\ LastPicture <= camera.pictures
    /\ (capture.buffer # 0) = (capture.pc \in {"drain", "write", "return"})
    /\ capture.pc \in {"drain", "write"} => camera.holds[capture.buffer] <= camera.pictures
    /\ capture.pc = "drain" => /\ LastPicture < camera.holds[capture.buffer]
                               /\ NewerThan(camera, camera.holds[capture.buffer])
    /\ capture.pc = "write" => LastPicture = camera.holds[capture.buffer]

PubsInv == /\ \A m, n \in 1 .. Newest : m < n => pubs[m].picture < pubs[n].picture
           /\ \A n \in 1 .. Newest : pubs[n].picture > 0

(***************************************************************************)
(* The slot.  Newest = capture.since until this start of the capture has   *)
(* published.                                                              *)
(***************************************************************************)
Complete ==
    /\ mem.id = pubs[Newest].id /\ mem.meta = Newest /\ mem.flags = 2 /\ mem.pub = Newest
    /\ mem.half1 = pubs[Newest].picture /\ mem.half2 = pubs[Newest].picture
    /\ mem.timing = Newest

Even(s) == s % 2 = 0
Stored(f) == f \notin capture.todo

SlotInv ==
    /\ capture.since <= Newest /\ mem.meta <= Newest /\ mem.pub <= Newest
    /\ mem.meta # 0 => mem.seq # 0
    /\ Even(mem.seq) /\ (mem.meta # 0 \/ capture.since < Newest) => Complete
    /\ capture.pc \in {"idle", "drain", "return"} =>
          /\ capture.writeSeq = Newest - capture.since /\ capture.frameId = capture.writeSeq
          /\ mem.seq = 2 * capture.writeSeq
          /\ Newest = capture.since => mem.meta = 0 /\ mem.pub = 0
    /\ capture.pc = "write" =>
          /\ capture.writeSeq + 1 = Newest - capture.since /\ capture.frameId = capture.writeSeq
          /\ mem.seq = 2 * capture.writeSeq + 1
          /\ pubs[Newest].id = capture.frameId /\ capture.todo \subseteq Stores
          /\ Stored("id") => mem.id = capture.frameId
          /\ IF Stored("meta") THEN mem.meta = Newest /\ mem.flags = 2 ELSE mem.meta < Newest
          /\ IF Stored("pub") THEN mem.pub = Newest ELSE mem.pub < Newest
          /\ Stored("timing") => mem.timing = Newest
          /\ Stored("half1") => mem.half1 = pubs[Newest].picture
          /\ Stored("half2") => mem.half2 = pubs[Newest].picture
    /\ capture.pc = "clear" =>
          /\ Newest = capture.since /\ capture.writeSeq = 0 /\ capture.frameId = 0
          /\ capture.todo \subseteq Chunks
          /\ Stored("ident") => mem.meta = 0
          /\ Stored("state") => mem.seq = 0
          /\ Stored("stamp") => mem.pub = 0

\* A number that was there before the stores under way.
MetaSettled(x) == x <= Newest /\ (capture.pc = "write" /\ ~Stored("meta") => x < Newest)
PubSettled(x) == x <= Newest /\ (capture.pc = "write" /\ ~Stored("pub") => x < Newest)

(***************************************************************************)
(* The gateway.  In a pass after the first publication of a start the      *)
(* counter only grows; while it stands, the slot is the newest frame.      *)
(***************************************************************************)
Read(chunk) == chunk \notin reader.todo
HeaderOf(h, n) == h.id = pubs[n].id /\ h.meta = n /\ h.flags = 2 /\ h.pub = n

SnapInv ==
    /\ Even(reader.seq1) /\ reader.seq1 <= mem.seq
    /\ mem.seq = reader.seq1 =>
          /\ Read("ident") => reader.h.id = mem.id /\ reader.h.meta = mem.meta
          /\ Read("state") => reader.h.seq = mem.seq /\ reader.h.flags = mem.flags
          /\ Read("stamp") => reader.h.pub = mem.pub
HeaderInv ==
    /\ reader.h.pub \in 1 .. Newest /\ HeaderOf(reader.h, reader.h.pub)
    /\ Even(reader.h.seq) /\ reader.h.seq <= mem.seq
    /\ mem.seq = reader.h.seq => reader.h.pub = Newest

GatewayInv ==
    /\ reader.pc \in {"top", "snap", "decide", "copy"}
    /\ reader.h.pub <= Newest
    /\ capture.since < Newest =>
          /\ reader.pc = "snap" => SnapInv
          /\ reader.pc \in {"decide", "copy"} => HeaderInv
          /\ sent.h.pub = Newest => reader.lastId = pubs[Newest].id
    /\ reader.pc = "copy" =>
          /\ capture.since < Newest /\ reader.h.id # reader.lastId
          /\ mem.seq = reader.h.seq =>
                \A half \in Halves : Read(half) => reader.copy[half] = pubs[Newest].picture
    /\ reader.copy.timing = 0

(***************************************************************************)
(* The Node server.                                                        *)
(***************************************************************************)
StateRead == reader.pc \in {"copy", "verify"} \/ (reader.pc = "header" /\ Read("state"))
StampRead == reader.pc \in {"copy", "verify"} \/ (reader.pc = "header" /\ Read("stamp"))
Copied(half) == reader.pc = "verify" \/ (reader.pc = "copy" /\ Read(half))
MetaKept == reader.h.meta # 0 /\ mem.meta = reader.h.meta
PubKept == mem.pub = reader.h.pub

Good(r) ==
    /\ r.h.pub \in 1 .. Newest /\ r.again.meta = r.h.pub /\ r.again.id = pubs[r.h.pub].id
    /\ \A half \in Halves : r.copy[half] = pubs[r.h.pub].picture
    /\ r.copy.timing \in {0, r.h.pub}

\* From the first reading of the counter on.
StandsFor ==
    StateRead /\ MetaKept =>
        /\ reader.h.seq # 0 /\ reader.h.seq <= mem.seq
        /\ mem.seq = reader.h.seq /\ Even(mem.seq) =>
              /\ StampRead => reader.h.pub = Newest
              /\ \A half \in Halves : Copied(half) => reader.copy[half] = pubs[Newest].picture
              /\ reader.copy.timing \in {0, Newest}

\* From the second reading of the sizes on, and from that of the counter on.
SizesAgree == reader.again.meta = reader.h.meta
SecondState ==
    reader.pc = "verify" /\ Read("ident") /\ ~Read("state") /\ SizesAgree /\ PubKept =>
        /\ reader.h.seq # 0 /\ (reader.h.seq <= mem.seq \/ mem.seq = 0)
        /\ mem.seq = reader.h.seq => Good(reader)
SecondStamp ==
    /\ reader.pc = "verify" /\ Read("state") /\ SizesAgree
    /\ reader.again.seq = reader.h.seq
    /\ IF Read("stamp") THEN reader.again.pub = reader.h.pub ELSE PubKept
    => Good(reader)

NodeInv ==
    /\ reader.pc \in {"top", "header", "copy", "verify"}
    /\ reader.pc # "verify" => reader.copy.timing = 0
    /\ MetaSettled(reader.h.meta) /\ PubSettled(reader.h.pub)
    /\ reader.pc \in {"copy", "verify"} =>
          Even(reader.h.seq) /\ reader.h.meta # 0 /\ reader.after < reader.h.pub
    /\ reader.pc \in {"header", "verify"} => reader.todo \subseteq Chunks
    /\ reader.pc \in {"header", "verify"} /\ Read("stamp") => Read("state")
    /\ reader.pc \in {"header", "verify"} /\ Read("state") => Read("ident")
    /\ StandsFor /\ SecondState /\ SecondStamp
    /\ reader.after = sent.h.pub

SentInv == /\ sent = NoFrame \/ Whole(sent)
           /\ sent.h.pub <= Newest

IInv == /\ Typed /\ CameraInv /\ PubsInv /\ SlotInv /\ SentInv
        /\ reader.kind = "gateway" => GatewayInv
        /\ reader.kind = "node" => NodeInv

-----------------------------------------------------------------------------
(***************************************************************************)
(* Sequences of buffers.                                                   *)
(***************************************************************************)
LEMMA TailFacts ==
  ASSUME NEW S, NEW s \in Seq(S), s # <<>>
  PROVE  /\ Len(s) \in Nat \ {0} /\ Head(s) = s[1] /\ Head(s) \in S /\ 1 \in 1 .. Len(s)
         /\ Tail(s) \in Seq(S) /\ Len(Tail(s)) = Len(s) - 1 /\ Len(Tail(s)) \in Nat
         /\ \A i \in 1 .. Len(Tail(s)) :
               i + 1 \in 1 .. Len(s) /\ 1 < i + 1 /\ Tail(s)[i] = s[i + 1]
OBVIOUS

LEMMA AppendFacts ==
  ASSUME NEW S, NEW s \in Seq(S), NEW e \in S
  PROVE  /\ Append(s, e) \in Seq(S) /\ Len(Append(s, e)) = Len(s) + 1 /\ Len(s) \in Nat
         /\ Append(s, e) = s \o <<e>>
         /\ \A i \in 1 .. Len(s) : Append(s, e)[i] = s[i]
         /\ Append(s, e)[Len(s) + 1] = e
OBVIOUS

LEMMA Elements ==
  ASSUME NEW S, NEW s \in Seq(S), NEW i \in 1 .. Len(s)
  PROVE  s[i] \in S
OBVIOUS

LEMMA AppendElements ==
  ASSUME NEW S, NEW s \in Seq(S), NEW e \in S, NEW i \in 1 .. Len(Append(s, e))
  PROVE  (i \in 1 .. Len(s) /\ Append(s, e)[i] = s[i]) \/ (i = Len(s) + 1 /\ Append(s, e)[i] = e)
BY AppendFacts

LEMMA TailPlaces ==
  ASSUME NEW S, NEW s \in Seq(S), s # <<>>, NEW t
  PROVE  /\ \A b : NotIn(b, s) => NotIn(b, Tail(s))
         /\ Once(s) => Once(Tail(s)) /\ NotIn(Head(s), Tail(s))
         /\ Apart(s, t) => Apart(Tail(s), t) /\ NotIn(Head(s), t)
         /\ Apart(t, s) => Apart(t, Tail(s)) /\ NotIn(Head(s), t)
<1>1. /\ Len(s) \in Nat \ {0} /\ Head(s) = s[1] /\ Len(Tail(s)) = Len(s) - 1
      /\ \A i \in 1 .. Len(Tail(s)) : i + 1 \in 1 .. Len(s) /\ Tail(s)[i] = s[i + 1]
  BY TailFacts
<1>2. 1 \in 1 .. Len(s)
  BY <1>1
<1>3. \A b : NotIn(b, s) => NotIn(b, Tail(s))
  BY <1>1 DEF NotIn
<1>4. Once(s) => Once(Tail(s)) /\ NotIn(Head(s), Tail(s))
  BY <1>1, <1>2 DEF Once, NotIn
<1>5. Apart(s, t) => Apart(Tail(s), t) /\ NotIn(Head(s), t)
  BY <1>1, <1>2 DEF Apart
<1>6. Apart(t, s) => Apart(t, Tail(s))
  BY <1>3 DEF Apart
<1>7. Apart(t, s) => NotIn(Head(s), t)
  BY <1>1, <1>2 DEF Apart, NotIn
<1> QED BY <1>3, <1>4, <1>5, <1>6, <1>7

LEMMA AppendPlaces ==
  ASSUME NEW S, NEW s \in Seq(S), NEW e \in S, NEW t
  PROVE  /\ \A b : NotIn(b, s) /\ b # e => NotIn(b, Append(s, e))
         /\ Once(s) /\ NotIn(e, s) => Once(Append(s, e))
         /\ Apart(s, t) /\ NotIn(e, t) => Apart(Append(s, e), t)
         /\ Apart(t, s) /\ NotIn(e, t) => Apart(t, Append(s, e))
<1> DEFINE a == Append(s, e)
<1>1. \A i \in 1 .. Len(a) : (i \in 1 .. Len(s) /\ a[i] = s[i]) \/ (i = Len(s) + 1 /\ a[i] = e)
  BY AppendElements
<1> HIDE DEF a
<1>2. \A b : NotIn(b, s) /\ b # e => NotIn(b, a)
  BY <1>1 DEF NotIn
<1>3. Once(s) /\ NotIn(e, s) => Once(a)
  BY <1>1 DEF Once, NotIn
<1>4. Apart(s, t) /\ NotIn(e, t) => Apart(a, t)
  BY <1>1 DEF Apart
<1>5. Apart(t, s) /\ NotIn(e, t) => Apart(t, a)
  BY <1>2 DEF Apart, NotIn
<1> QED BY <1>2, <1>3, <1>4, <1>5 DEF a

(***************************************************************************)
(* What is done with a buffer: it is filled, taken out, given back.        *)
(***************************************************************************)
LEMMA Filled ==
  ASSUME NEW c \in CameraType, c.empty # <<>>, NEW b \in 0 .. Buffers, InOnePlace(c, b),
         NEW x \in Nat, NewerThan(c, x), x <= c.pictures,
         NEW d, d = [empty |-> Tail(c.empty), full |-> Append(c.full, Head(c.empty)),
                     holds |-> [c.holds EXCEPT ![Head(c.empty)] = c.pictures + 1],
                     pictures |-> c.pictures + 1]
  PROVE  /\ d \in CameraType /\ InOnePlace(d, b) /\ NewerThan(d, x)
         /\ d.pictures = c.pictures + 1 /\ (b # 0 => d.holds[b] = c.holds[b])
<1> DEFINE S == 1 .. Buffers
           h == Head(c.empty)
           p == c.pictures + 1
<1>1. /\ c.empty \in Seq(S) /\ c.full \in Seq(S) /\ c.holds \in [S -> Nat] /\ c.pictures \in Nat
      /\ h \in S
  BY TailFacts DEF CameraType
<1>2. /\ Once(Tail(c.empty)) /\ NotIn(h, Tail(c.empty)) /\ Apart(c.full, Tail(c.empty))
      /\ NotIn(h, c.full) /\ NotIn(b, Tail(c.empty)) /\ b # h
  <2>1. Once(c.empty) /\ Apart(c.full, c.empty) /\ NotIn(b, c.empty)
    BY DEF InOnePlace
  <2>2. b # h
    <3>1. h = c.empty[1] /\ 1 \in 1 .. Len(c.empty)
      BY <1>1, TailFacts
    <3> QED BY <2>1, <3>1 DEF NotIn
  <2> QED BY <1>1, <2>1, <2>2, TailPlaces
<1>3. Apart(Append(c.full, h), Tail(c.empty)) /\ NotIn(b, Append(c.full, h))
  <2>1. NotIn(b, c.full)
    BY DEF InOnePlace
  <2> QED BY <1>1, <1>2, <2>1, AppendPlaces
<1>4. /\ d.empty = Tail(c.empty) /\ d.full = Append(c.full, h) /\ d.pictures = p
      /\ d.holds = [c.holds EXCEPT ![h] = p]
  OBVIOUS
<1>5. d \in CameraType
  <2>1. Tail(c.empty) \in Seq(S) /\ Append(c.full, h) \in Seq(S)
    BY <1>1, TailFacts, AppendFacts
  <2> QED BY <1>1, <2>1 DEF CameraType
<1>6. InOnePlace(d, b)
  BY <1>2, <1>3, <1>4 DEF InOnePlace
<1>7. /\ d.holds[h] = p
      /\ \A i \in 1 .. Len(c.full) : d.holds[c.full[i]] = c.holds[c.full[i]] /\ c.full[i] \in S
  <2> HIDE DEF S, h, p
  <2>1. d.holds[h] = p
    BY <1>1, <1>4
  <2>2. \A i \in 1 .. Len(c.full) : c.full[i] # h
    BY <1>2 DEF NotIn
  <2>3. \A i \in 1 .. Len(c.full) : c.full[i] \in S
    BY <1>1
  <2> QED BY <1>1, <1>4, <2>1, <2>2, <2>3
<1>8. \A i \in 1 .. Len(d.full) :
        \/ i \in 1 .. Len(c.full) /\ d.holds[d.full[i]] = c.holds[c.full[i]]
        \/ i = Len(c.full) + 1 /\ d.holds[d.full[i]] = p
  BY SMTT(40), <1>1, <1>4, <1>7, AppendElements
<1>9. NewerThan(d, x)
  <2>0. /\ \A i \in 1 .. Len(c.full) : x < c.holds[c.full[i]] /\ c.holds[c.full[i]] <= c.pictures
        /\ \A i, j \in 1 .. Len(c.full) : i < j => c.holds[c.full[i]] < c.holds[c.full[j]]
    BY DEF NewerThan
  <2>1. \A i \in 1 .. Len(d.full) : x < d.holds[d.full[i]] /\ d.holds[d.full[i]] <= d.pictures
    <3> TAKE i \in 1 .. Len(d.full)
    <3>1. CASE i \in 1 .. Len(c.full) /\ d.holds[d.full[i]] = c.holds[c.full[i]]
      <4>1. c.holds[c.full[i]] \in Nat
        BY <1>1, <1>7, <3>1
      <4> QED BY <1>1, <1>4, <2>0, <3>1, <4>1
    <3>2. CASE i = Len(c.full) + 1 /\ d.holds[d.full[i]] = p
      BY <1>1, <1>4, <3>2
    <3> QED BY <1>8, <3>1, <3>2
  <2>2. ASSUME NEW i \in 1 .. Len(d.full), NEW j \in 1 .. Len(d.full), i < j
        PROVE  d.holds[d.full[i]] < d.holds[d.full[j]]
    <3>0. Len(c.full) \in Nat /\ i \in Nat /\ j \in Nat
      BY <1>1
    <3>1. i \in 1 .. Len(c.full) /\ d.holds[d.full[i]] = c.holds[c.full[i]]
      <4>1. CASE i = Len(c.full) + 1
        BY <1>8, <2>2, <3>0, <4>1
      <4> QED BY <1>8, <4>1
    <3>2. CASE j \in 1 .. Len(c.full) /\ d.holds[d.full[j]] = c.holds[c.full[j]]
      BY <2>0, <2>2, <3>1, <3>2
    <3>3. CASE j = Len(c.full) + 1 /\ d.holds[d.full[j]] = p
      <4>1. c.holds[c.full[i]] \in Nat
        BY <1>1, <1>7, <3>1
      <4> QED BY SMTT(40), <1>1, <2>0, <3>1, <3>3, <4>1
    <3> QED BY <1>8, <3>2, <3>3
  <2> QED BY <2>1, <2>2 DEF NewerThan
<1>10. b # 0 => d.holds[b] = c.holds[b]
  BY <1>1, <1>2, <1>4
<1> QED BY <1>4, <1>5, <1>6, <1>9, <1>10

LEMMA TakenOut ==
  ASSUME NEW c \in CameraType, c.full # <<>>, NEW b, InOnePlace(c, b), NEW x \in Nat, NewerThan(c, x),
         NEW d \in CameraType, d.full = Tail(c.full), d.empty = c.empty, d.holds = c.holds,
         d.pictures = c.pictures, NEW h, h = Head(c.full)
  PROVE  /\ h \in 1 .. Buffers /\ h # b
         /\ InOnePlace(d, h) /\ NotIn(b, d.full) /\ NotIn(b, d.empty)
         /\ NewerThan(d, x) /\ NewerThan(d, c.holds[h])
         /\ x < c.holds[h] /\ c.holds[h] <= c.pictures
<1> DEFINE S == 1 .. Buffers
           t == Tail(c.full)
<1>1. /\ c.empty \in Seq(S) /\ c.full \in Seq(S) /\ c.holds \in [S -> Nat] /\ c.pictures \in Nat
  BY DEF CameraType
<1>2. /\ h = c.full[1] /\ 1 \in 1 .. Len(c.full) /\ h \in S /\ t \in Seq(S) /\ Len(t) \in Nat
      /\ \A i \in 1 .. Len(t) : i + 1 \in 1 .. Len(c.full) /\ t[i] = c.full[i + 1] /\ 1 < i + 1
  <2> HIDE DEF S
  <2> QED BY <1>1, TailFacts
<1>3. d.full = t
  OBVIOUS
<1>4. /\ \A i \in 1 .. Len(c.full) : x < c.holds[c.full[i]] /\ c.holds[c.full[i]] <= c.pictures
      /\ \A i, j \in 1 .. Len(c.full) : i < j => c.holds[c.full[i]] < c.holds[c.full[j]]
  BY DEF NewerThan
<1>5. x < c.holds[h] /\ c.holds[h] <= c.pictures /\ c.holds[h] \in Nat
  BY <1>1, <1>2, <1>4
<1>6. \A i \in 1 .. Len(t) : /\ x < c.holds[t[i]] /\ c.holds[t[i]] <= c.pictures
                             /\ c.holds[h] < c.holds[t[i]]
  BY <1>2, <1>4
<1>7. \A i, j \in 1 .. Len(t) : i < j => c.holds[t[i]] < c.holds[t[j]]
  <2> TAKE i, j \in 1 .. Len(t)
  <2>1. i < j => i + 1 < j + 1
    BY <1>2
  <2> QED BY <1>2, <1>4, <2>1
<1>8. NewerThan(d, x) /\ NewerThan(d, c.holds[h])
  BY <1>3, <1>6, <1>7 DEF NewerThan
<1>9. NotIn(h, t)
  BY <1>5, <1>6 DEF NotIn
<1>10. /\ Once(c.empty) /\ Apart(t, c.empty) /\ NotIn(h, c.empty) /\ NotIn(b, t) /\ NotIn(b, c.empty)
       /\ h # b
  <2>1. Once(c.empty) /\ Apart(c.full, c.empty) /\ NotIn(b, c.empty) /\ NotIn(b, c.full)
    BY DEF InOnePlace
  <2>2. h # b
    BY <1>2, <2>1 DEF NotIn
  <2> QED BY <1>1, <2>1, <2>2, TailPlaces
<1>11. InOnePlace(d, h)
  BY <1>3, <1>9, <1>10 DEF InOnePlace
<1> QED BY <1>2, <1>3, <1>5, <1>8, <1>10, <1>11

LEMMA GivenBack ==
  ASSUME NEW c \in CameraType, NEW n, InOnePlace(c, n), NEW b \in 1 .. Buffers,
         b # n, NotIn(b, c.empty), NotIn(b, c.full),
         NEW d \in CameraType, d.empty = Append(c.empty, b), d.full = c.full,
         d.holds = c.holds, d.pictures = c.pictures
  PROVE  InOnePlace(d, n) /\ \A x : NewerThan(c, x) => NewerThan(d, x)
<1> DEFINE S == 1 .. Buffers
<1>1. c.empty \in Seq(S) /\ c.full \in Seq(S)
  BY DEF CameraType
<1>4. Once(Append(c.empty, b)) /\ Apart(c.full, Append(c.empty, b)) /\ NotIn(n, Append(c.empty, b))
  BY <1>1, AppendPlaces DEF InOnePlace
<1>5. InOnePlace(d, n)
  BY <1>4 DEF InOnePlace
<1> QED BY <1>5 DEF NewerThan

(***************************************************************************)
(* The steps of the camera and the capture.                                *)
(***************************************************************************)
WriterInv == Typed /\ CameraInv /\ PubsInv /\ SlotInv

\* What the readers see of a step of the capture: publications are only added, a
\* number that is gone from the header stays away, the counter goes up by one or
\* is cleared after the sizes.
WriterStep ==
    /\ reader' = reader /\ sent' = sent
    /\ Newest <= Newest' /\ \A n \in 1 .. Newest : pubs'[n] = pubs[n]
    /\ \A x \in Nat : MetaSettled(x) => /\ MetaSettled(x)'
                                        /\ x # 0 /\ mem.meta # x => mem'.meta # x
    /\ \A x \in Nat : PubSettled(x) => /\ PubSettled(x)'
                                       /\ x # 0 /\ mem.pub # x => mem'.pub # x
    /\ \/ mem'.seq = mem.seq /\ Newest' = Newest
       \/ mem'.seq = mem.seq + 1 /\ (mem.seq = 0 => mem.pub = 0)
       \/ mem'.seq = 0 /\ mem.meta = 0 /\ Newest = capture.since
    /\ \/ capture'.since = capture.since /\ (capture.since = Newest /\ Newest # Newest' => BetweenPasses)
       \/ capture'.since = Newest' /\ BetweenPasses

LEMMA SlotUntouched ==
  ASSUME WriterInv, mem' = mem, pubs' = pubs, reader' = reader, sent' = sent,
         capture' = capture \/ capture'.pc # "write",
         \/ capture'.since = capture.since
         \/ capture'.since = Newest /\ BetweenPasses
  PROVE  WriterStep
<1>1. Newest \in Nat /\ Newest' = Newest
  BY DEF WriterInv, Typed, Newest
<1> QED BY <1>1 DEF WriterStep, MetaSettled, PubSettled, Stored

LEMMA LastFacts ==
  ASSUME Typed, PubsInv
  PROVE  /\ Newest \in Nat /\ LastPicture \in Nat
         /\ \A n \in 1 .. Newest : pubs[n] \in PublicationType
         /\ Newest # 0 => Newest \in 1 .. Newest /\ LastPicture = pubs[Newest].picture
<1>1. Newest \in Nat /\ \A n \in 1 .. Newest : pubs[n] \in PublicationType
  BY DEF Typed, Newest
<1>2. Newest # 0 => Newest \in 1 .. Newest
  BY <1>1
<1> QED BY <1>1, <1>2 DEF LastPicture, PublicationType

LEMMA SamePublications ==
  ASSUME pubs' = pubs
  PROVE  Newest' = Newest /\ LastPicture' = LastPicture
BY DEF Newest, LastPicture

LEMMA AnotherBuffer ==
  ASSUME NEW b \in 1 .. Buffers
  PROVE  b \in BufferOrNone /\ 0 \in BufferOrNone /\ b # 0
BY BoundsAssumption DEF BufferOrNone

LEMMA PcsAre ==
  /\ "idle" \in CapturePcs /\ "drain" \in CapturePcs /\ "return" \in CapturePcs
  /\ "write" \in CapturePcs /\ "down" \in CapturePcs /\ "clear" \in CapturePcs
BY DEF CapturePcs

\* The camera has nothing to do with the slot.
LEMMA TakePictureKeeps ==
  ASSUME WriterInv, TakePicture
  PROVE  WriterInv' /\ WriterStep
<1>0. /\ Typed /\ CameraInv /\ camera \in CameraType /\ capture.buffer \in 0 .. Buffers
      /\ LastPicture \in Nat /\ LastPicture <= camera.pictures /\ camera.pictures \in Nat
      /\ camera.empty # <<>> /\ camera.holds \in [1 .. Buffers -> Nat]
      /\ UNCHANGED <<mem, capture, pubs, reader, sent>>
  BY LastFacts DEF WriterInv, TakePicture, Typed, CaptureType, CameraInv, CameraType, BufferOrNone
<1>1. camera' = [empty |-> Tail(camera.empty), full |-> Append(camera.full, Head(camera.empty)),
                 holds |-> [camera.holds EXCEPT ![Head(camera.empty)] = camera.pictures + 1],
                 pictures |-> camera.pictures + 1]
  BY DEF TakePicture
<1> DEFINE held == camera.holds[capture.buffer]
<1>2. /\ camera' \in CameraType /\ InOnePlace(camera', capture.buffer) /\ NewerThan(camera', LastPicture)
      /\ camera'.pictures = camera.pictures + 1
      /\ capture.buffer # 0 => camera'.holds[capture.buffer] = held
  BY <1>0, <1>1, Filled DEF CameraInv
<1>3. capture.pc = "drain" => NewerThan(camera', held)
  <2> SUFFICES ASSUME capture.pc = "drain" PROVE NewerThan(camera', held)
    OBVIOUS
  <2>1. capture.buffer \in 1 .. Buffers
    BY <1>0 DEF CameraInv
  <2>2. held \in Nat /\ held <= camera.pictures /\ NewerThan(camera, held)
    BY <1>0, <2>1 DEF CameraInv
  <2>3. InOnePlace(camera, capture.buffer)
    BY <1>0 DEF CameraInv
  <2> HIDE DEF held
  <2> QED BY <1>0, <1>1, <2>2, <2>3, Filled
<1>4. CameraInv'
  <2>1. LastPicture' = LastPicture /\ capture' = capture /\ LastPicture <= camera'.pictures
    BY <1>0, <1>2, SamePublications
  <2>2. capture.pc \in {"drain", "write"} =>
           /\ capture.buffer # 0 /\ held \in Nat /\ held <= camera.pictures
    <3>1. capture.pc \in {"drain", "write"} => capture.buffer # 0 /\ held <= camera.pictures
      BY <1>0 DEF CameraInv
    <3>2. capture.buffer # 0 => capture.buffer \in 1 .. Buffers
      BY <1>0
    <3> QED BY <1>0, <3>1, <3>2
  <2>3. capture.pc \in {"drain", "write"} =>
           camera'.holds[capture.buffer] = held /\ held <= camera'.pictures
    BY <1>0, <1>2, <2>2
  <2> QED BY <1>0, <1>2, <1>3, <2>1, <2>3 DEF CameraInv
<1>y. WriterInv'
  BY <1>0, <1>2, <1>4 DEF WriterInv, Typed, PubsInv, SlotInv, Newest, Complete, Stored
<1>z. WriterStep
  BY <1>0, SlotUntouched
<1> QED BY <1>y, <1>z

\* The capture works on buffers only; the slot stays as it is.
LEMMA SlotWaits ==
  ASSUME SlotInv, mem' = mem, pubs' = pubs,
         capture.pc \in {"idle", "drain", "return"}, capture'.pc \in {"idle", "drain", "return"},
         capture'.frameId = capture.frameId, capture'.writeSeq = capture.writeSeq,
         capture'.since = capture.since
  PROVE  SlotInv'
BY DEF SlotInv, Newest, Complete, Stored

\* The oldest picture that waits.
LEMMA FirstFull ==
  ASSUME camera \in CameraType, camera.full # <<>>, LastPicture \in Nat,
         InOnePlace(camera, capture.buffer), NewerThan(camera, LastPicture)
  PROVE  LET b == Head(camera.full)
             d == [camera EXCEPT !.full = Tail(@)]
         IN  /\ d \in CameraType /\ b \in 1 .. Buffers /\ d.holds = camera.holds /\ b # capture.buffer
             /\ d.pictures = camera.pictures /\ InOnePlace(d, b)
             /\ NotIn(capture.buffer, d.full) /\ NotIn(capture.buffer, d.empty)
             /\ NewerThan(d, LastPicture) /\ NewerThan(d, camera.holds[b])
             /\ LastPicture < camera.holds[b] /\ camera.holds[b] <= camera.pictures
<1> DEFINE b == Head(camera.full)
           d == [camera EXCEPT !.full = Tail(@)]
<1>1. Tail(camera.full) \in Seq(1 .. Buffers)
  BY TailFacts DEF CameraType
<1>2. /\ d \in CameraType /\ d.full = Tail(camera.full) /\ d.empty = camera.empty
      /\ d.holds = camera.holds /\ d.pictures = camera.pictures
  BY <1>1 DEF CameraType
<1>3. b = Head(camera.full)
  OBVIOUS
<1> HIDE DEF b, d
<1>4. /\ b \in 1 .. Buffers /\ b # capture.buffer /\ InOnePlace(d, b)
      /\ NotIn(capture.buffer, d.full) /\ NotIn(capture.buffer, d.empty)
      /\ NewerThan(d, LastPicture) /\ NewerThan(d, camera.holds[b])
      /\ LastPicture < camera.holds[b] /\ camera.holds[b] <= camera.pictures
  BY <1>2, <1>3, TakenOut
<1> QED BY <1>2, <1>4 DEF b, d

LEMMA DequeueKeeps ==
  ASSUME WriterInv, Dequeue
  PROVE  WriterInv' /\ WriterStep
<1> DEFINE b == Head(camera.full)
           d == [camera EXCEPT !.full = Tail(@)]
           n == Buffers - 1
<1>0. /\ Typed /\ CameraInv /\ camera \in CameraType /\ capture \in CaptureType
      /\ LastPicture \in Nat /\ camera.full # <<>> /\ capture.pc = "idle"
      /\ UNCHANGED <<mem, pubs, reader, sent>>
  BY LastFacts DEF WriterInv, Dequeue, WaitForFrame, Typed, CameraInv
<1>1. /\ capture' = [capture EXCEPT !.pc = "drain", !.buffer = b, !.left = n]
      /\ camera' = d
  BY DEF Dequeue
<1>2. /\ d \in CameraType /\ b \in 1 .. Buffers /\ d.holds = camera.holds
      /\ d.pictures = camera.pictures /\ InOnePlace(d, b)
      /\ NewerThan(d, LastPicture) /\ NewerThan(d, camera.holds[b])
      /\ LastPicture < camera.holds[b] /\ camera.holds[b] <= camera.pictures
  BY <1>0, FirstFull DEF CameraInv
<1>3. n \in Nat
  BY <1>2, BoundsAssumption
<1> HIDE DEF b, d, n
<1>4. /\ capture' \in CaptureType /\ capture'.pc = "drain" /\ capture'.buffer = b
      /\ capture'.frameId = capture.frameId /\ capture'.writeSeq = capture.writeSeq
      /\ capture'.since = capture.since
  BY <1>0, <1>1, <1>2, <1>3, AnotherBuffer, PcsAre DEF CaptureType
<1>5. CameraInv'
  BY <1>0, <1>1, <1>2, <1>4, SamePublications DEF CameraInv
<1>6. SlotInv'
  BY <1>0, <1>4, SlotWaits DEF WriterInv
<1>y. WriterInv'
  BY <1>0, <1>1, <1>2, <1>4, <1>5, <1>6 DEF WriterInv, Typed, PubsInv, Newest
<1>z. WriterStep
  BY <1>0, <1>4, SlotUntouched
<1> QED BY <1>y, <1>z

LEMMA DrainKeeps ==
  ASSUME WriterInv, Drain
  PROVE  WriterInv' /\ WriterStep
<1> DEFINE b == Head(camera.full)
           d == [camera EXCEPT !.full = Tail(@)]
           e == [d EXCEPT !.empty = Append(@, capture.buffer)]
           n == capture.left - 1
<1>0. /\ Typed /\ CameraInv /\ camera \in CameraType /\ capture \in CaptureType
      /\ LastPicture \in Nat /\ camera.full # <<>> /\ capture.pc = "drain"
      /\ capture.buffer \in 1 .. Buffers
      /\ UNCHANGED <<mem, pubs, reader, sent>>
  BY LastFacts DEF WriterInv, Drain, Typed, CameraInv, CaptureType, BufferOrNone
<1>1. capture' = [capture EXCEPT !.buffer = b, !.left = n]
  BY DEF Drain
<1>2. /\ d \in CameraType /\ b \in 1 .. Buffers /\ d.holds = camera.holds /\ b # capture.buffer
      /\ d.pictures = camera.pictures /\ InOnePlace(d, b)
      /\ NotIn(capture.buffer, d.full) /\ NotIn(capture.buffer, d.empty)
      /\ NewerThan(d, LastPicture) /\ NewerThan(d, camera.holds[b])
      /\ LastPicture < camera.holds[b] /\ camera.holds[b] <= camera.pictures
  BY <1>0, FirstFull DEF CameraInv
<1>3. n \in Nat
  BY <1>0 DEF Drain, CaptureType
<1>4. camera' = d \/ camera' = e
  <2>1. PICK returned \in {<<>>, <<capture.buffer>>} :
           camera' = [camera EXCEPT !.full = Tail(@), !.empty = @ \o returned]
    BY DEF Drain
  <2>2. CASE returned = <<>>
    <3>1. camera.empty \o returned = camera.empty
      BY <1>0, <2>2 DEF CameraType
    <3>2. camera' = d
      BY <1>0, <2>1, <3>1 DEF CameraType
    <3> QED BY <3>2
  <2>3. CASE returned = <<capture.buffer>>
    <3>1. camera.empty \o returned = Append(camera.empty, capture.buffer)
      BY <1>0, <2>3, AppendFacts DEF CameraType
    <3>2. camera' = e
      BY <1>0, <2>1, <3>1 DEF CameraType
    <3> QED BY <3>2
  <2> QED BY <2>1, <2>2, <2>3
<1> HIDE DEF b, d, n
<1>5. /\ e \in CameraType /\ InOnePlace(e, b) /\ e.holds = d.holds /\ e.pictures = d.pictures
      /\ NewerThan(e, LastPicture) /\ NewerThan(e, camera.holds[b])
  <2>1. Append(d.empty, capture.buffer) \in Seq(1 .. Buffers)
    BY <1>0, <1>2, AppendFacts DEF CameraType
  <2>2. /\ e \in CameraType /\ e.empty = Append(d.empty, capture.buffer) /\ e.full = d.full
        /\ e.holds = d.holds /\ e.pictures = d.pictures
    BY <1>2, <2>1 DEF CameraType
  <2> HIDE DEF e
  <2> QED BY <1>0, <1>2, <2>2, GivenBack
<1> HIDE DEF e
<1>6. /\ capture' \in CaptureType /\ capture'.pc = "drain" /\ capture'.buffer = b
      /\ capture'.frameId = capture.frameId /\ capture'.writeSeq = capture.writeSeq
      /\ capture'.since = capture.since
  BY <1>0, <1>1, <1>2, <1>3, AnotherBuffer, PcsAre DEF CaptureType
<1>7. CameraInv' /\ camera' \in CameraType
  BY <1>0, <1>2, <1>4, <1>5, <1>6, SamePublications DEF CameraInv
<1>8. SlotInv'
  BY <1>0, <1>6, SlotWaits DEF WriterInv
<1>y. WriterInv'
  BY <1>0, <1>6, <1>7, <1>8 DEF WriterInv, Typed, PubsInv, Newest
<1>z. WriterStep
  BY <1>0, <1>6, SlotUntouched
<1> QED BY <1>y, <1>z

LEMMA SkipPictureKeeps ==
  ASSUME WriterInv, SkipPicture
  PROVE  WriterInv' /\ WriterStep
<1>0. /\ Typed /\ CameraInv /\ capture \in CaptureType /\ capture.pc = "drain"
      /\ UNCHANGED <<mem, camera, pubs, reader, sent>>
  BY DEF WriterInv, SkipPicture, Drained, Typed
<1>1. capture' = [capture EXCEPT !.pc = "return"]
  BY DEF SkipPicture
<1>2. /\ capture' \in CaptureType /\ capture'.pc = "return" /\ capture'.buffer = capture.buffer
      /\ capture'.frameId = capture.frameId /\ capture'.writeSeq = capture.writeSeq
      /\ capture'.since = capture.since
  BY <1>0, <1>1, PcsAre DEF CaptureType
<1>3. CameraInv'
  BY <1>0, <1>2, SamePublications DEF CameraInv
<1>4. SlotInv'
  BY <1>0, <1>2, SlotWaits DEF WriterInv
<1>y. WriterInv'
  BY <1>0, <1>2, <1>3, <1>4 DEF WriterInv, Typed, PubsInv, Newest
<1>z. WriterStep
  BY <1>0, <1>2, SlotUntouched
<1> QED BY <1>y, <1>z

LEMMA ReturnBufferKeeps ==
  ASSUME WriterInv, ReturnBuffer
  PROVE  WriterInv' /\ WriterStep
<1>0. /\ Typed /\ CameraInv /\ capture \in CaptureType /\ capture.pc = "return"
      /\ camera \in CameraType /\ capture.buffer \in 1 .. Buffers
      /\ UNCHANGED <<mem, pubs, reader, sent>>
  BY DEF WriterInv, ReturnBuffer, Typed, CameraInv, CaptureType, BufferOrNone
<1>1. /\ capture' = [capture EXCEPT !.pc = "idle", !.buffer = 0]
      /\ camera' = [camera EXCEPT !.empty = Append(@, capture.buffer)]
  BY DEF ReturnBuffer
<1>2. /\ capture' \in CaptureType /\ capture'.pc = "idle" /\ capture'.buffer = 0
      /\ capture'.frameId = capture.frameId /\ capture'.writeSeq = capture.writeSeq
      /\ capture'.since = capture.since
  BY <1>0, <1>1, PcsAre, AnotherBuffer DEF CaptureType
<1>3. Append(camera.empty, capture.buffer) \in Seq(1 .. Buffers)
  BY <1>0, AppendFacts DEF CameraType
<1>4. /\ camera' \in CameraType /\ camera'.empty = Append(camera.empty, capture.buffer)
      /\ camera'.full = camera.full /\ camera'.holds = camera.holds /\ camera'.pictures = camera.pictures
  BY <1>0, <1>1, <1>3 DEF CameraType
<1>5. InOnePlace(camera, 0)
  <2>1. /\ \A i \in 1 .. Len(camera.empty) : camera.empty[i] \in 1 .. Buffers
        /\ \A i \in 1 .. Len(camera.full) : camera.full[i] \in 1 .. Buffers
    <3>1. camera.empty \in Seq(1 .. Buffers) /\ camera.full \in Seq(1 .. Buffers)
      BY <1>0 DEF CameraType
    <3> QED BY <3>1, Elements
  <2> QED BY <1>0, <2>1, AnotherBuffer DEF CameraInv, InOnePlace, NotIn
<1>6. InOnePlace(camera', 0) /\ NewerThan(camera', LastPicture)
  <2>1. /\ NotIn(capture.buffer, camera.empty) /\ NotIn(capture.buffer, camera.full)
        /\ capture.buffer # 0 /\ NewerThan(camera, LastPicture)
    BY <1>0 DEF CameraInv, InOnePlace
  <2> QED BY <1>0, <1>4, <1>5, <2>1, GivenBack
<1>7. CameraInv'
  BY <1>0, <1>2, <1>4, <1>6, SamePublications DEF CameraInv
<1>8. SlotInv'
  BY <1>0, <1>2, SlotWaits DEF WriterInv
<1>y. WriterInv'
  BY <1>0, <1>2, <1>4, <1>7, <1>8 DEF WriterInv, Typed, PubsInv, Newest
<1>z. WriterStep
  BY <1>0, <1>2, SlotUntouched
<1> QED BY <1>y, <1>z

LEMMA EvenFacts ==
  ASSUME NEW w \in Nat
  PROVE  Even(2 * w) /\ ~Even(2 * w + 1) /\ Even(2 * (w + 1)) /\ 2 * (w + 1) = 2 * w + 2
BY DEF Even

LEMMA StoresAre == Stores = {"half1", "half2", "meta", "timing", "pub", "id"}
BY DEF Stores, Program, Range

LEMMA TodosAre ==
  /\ Stores \in CaptureTodo /\ Chunks \in CaptureTodo /\ {} \in CaptureTodo
  /\ \A todo \in CaptureTodo : \A x : todo \ {x} \in CaptureTodo
BY DEF CaptureTodo

\* One more publication.
LEMMA AppendedPublication ==
  ASSUME Typed, PubsInv, NEW r \in PublicationType, pubs' = Append(pubs, r)
  PROVE  /\ Newest \in Nat /\ Newest' = Newest + 1 /\ pubs' \in Seq(PublicationType)
         /\ \A n \in 1 .. Newest : pubs'[n] = pubs[n]
         /\ pubs'[Newest + 1] = r /\ LastPicture' = r.picture
<1>1. pubs \in Seq(PublicationType)
  BY DEF Typed
<1>2. /\ Newest \in Nat /\ Newest' = Newest + 1 /\ pubs' \in Seq(PublicationType)
      /\ \A n \in 1 .. Newest : pubs'[n] = pubs[n]
      /\ pubs'[Newest + 1] = r
  BY <1>1, AppendFacts DEF Newest
<1>3. Newest' # 0 /\ pubs'[Newest'] = r
  BY <1>2
<1>4. LastPicture' = pubs'[Newest'].picture
  BY <1>3 DEF LastPicture
<1> QED BY <1>2, <1>3, <1>4

LEMMA BeginPublishKeeps ==
  ASSUME WriterInv, BeginPublish
  PROVE  WriterInv' /\ WriterStep
<1> DEFINE held == camera.holds[capture.buffer]
           r == [id |-> capture.frameId, picture |-> held]
           s == 2 * capture.writeSeq + 1
<1>0. /\ Typed /\ CameraInv /\ PubsInv /\ SlotInv /\ capture \in CaptureType /\ capture.pc = "drain"
      /\ camera \in CameraType /\ capture.buffer \in 1 .. Buffers /\ mem \in MemType
      /\ capture.writeSeq \in Nat /\ capture.frameId \in Nat /\ capture.since \in Nat
      /\ UNCHANGED <<camera, reader, sent>>
  BY DEF WriterInv, BeginPublish, Drained, Typed, CameraInv, CaptureType, BufferOrNone
<1>1. /\ mem' = [mem EXCEPT !.seq = s]
      /\ capture' = [capture EXCEPT !.pc = "write", !.todo = Stores]
      /\ pubs' = Append(pubs, r)
  BY DEF BeginPublish
<1>2. held \in Nat /\ r \in PublicationType
  BY <1>0 DEF CameraType, PublicationType
<1>n. s \in Nat /\ ~Even(s) /\ s # 0
  BY <1>0, EvenFacts
<1>v. r.id = capture.frameId /\ r.picture = held
  OBVIOUS
<1> HIDE DEF r, s
<1>3. /\ Newest \in Nat /\ Newest' = Newest + 1 /\ pubs' \in Seq(PublicationType)
      /\ \A n \in 1 .. Newest : pubs'[n] = pubs[n]
      /\ pubs'[Newest + 1] = r /\ LastPicture' = r.picture
  BY <1>0, <1>1, <1>2, AppendedPublication
<1>4. /\ capture' \in CaptureType /\ capture'.pc = "write" /\ capture'.buffer = capture.buffer
      /\ capture'.frameId = capture.frameId /\ capture'.writeSeq = capture.writeSeq
      /\ capture'.since = capture.since /\ capture'.todo = Stores
  BY <1>0, <1>1, PcsAre, TodosAre DEF CaptureType
<1>5. /\ mem' \in MemType /\ mem'.seq = s /\ mem'.meta = mem.meta /\ mem'.pub = mem.pub
  BY <1>0, <1>1, <1>n DEF MemType
<1>6. CameraInv'
  BY <1>0, <1>3, <1>4, <1>v DEF CameraInv
<1>7. PubsInv'
  <2>1. LastPicture < held /\ LastPicture \in Nat
    BY <1>0, LastFacts DEF CameraInv
  <2>2. \A n \in 1 .. Newest : pubs[n].picture \in Nat /\ pubs[n].picture <= LastPicture
    <3> TAKE n \in 1 .. Newest
    <3>1. LastPicture = pubs[Newest].picture /\ pubs[n].picture \in Nat /\ Newest \in 1 .. Newest
      BY <1>0, LastFacts DEF PublicationType
    <3>2. n < Newest \/ n = Newest
      BY <1>3
    <3> QED BY <1>0, <2>1, <3>1, <3>2 DEF PubsInv
  <2>3. \A n \in 1 .. Newest' : n \in 1 .. Newest \/ n = Newest + 1
    BY <1>3
  <2>4. \A n \in 1 .. Newest' : pubs'[n].picture > 0
    BY <1>0, <1>2, <1>3, <1>v, <2>1, <2>3 DEF PubsInv
  <2>5. ASSUME NEW m \in 1 .. Newest', NEW n \in 1 .. Newest', m < n
        PROVE  pubs'[m].picture < pubs'[n].picture
    <3>1. m \in 1 .. Newest
      BY <1>3, <2>5
    <3>2. CASE n \in 1 .. Newest
      BY <1>0, <1>3, <2>5, <3>1, <3>2 DEF PubsInv
    <3>3. CASE n = Newest + 1
      BY <1>2, <1>3, <1>v, <2>1, <2>2, <3>1, <3>3
    <3> QED BY <2>3, <3>2, <3>3
  <2> QED BY <2>4, <2>5 DEF PubsInv
<1>8. SlotInv'
  <2>1. \A f \in {"half1", "half2", "meta", "timing", "pub", "id"} : ~Stored(f)'
    BY <1>4, StoresAre DEF Stored
  <2>2. /\ capture.writeSeq = Newest - capture.since /\ capture.frameId = capture.writeSeq
        /\ capture.since <= Newest /\ mem.meta <= Newest /\ mem.pub <= Newest
    BY <1>0 DEF SlotInv
  <2>3. mem.meta \in Nat /\ mem.pub \in Nat
    BY <1>0 DEF MemType
  <2>x. /\ capture.writeSeq + 1 = (Newest + 1) - capture.since /\ capture.since <= Newest + 1
        /\ mem.meta < Newest + 1 /\ mem.pub < Newest + 1
        /\ mem.meta <= Newest + 1 /\ mem.pub <= Newest + 1
    BY <1>0, <1>3, <2>2, <2>3
  <2>4. /\ capture'.writeSeq + 1 = Newest' - capture'.since /\ capture'.frameId = capture'.writeSeq
        /\ capture'.since <= Newest' /\ mem'.meta < Newest' /\ mem'.pub < Newest'
        /\ mem'.meta <= Newest' /\ mem'.pub <= Newest'
    BY <1>3, <1>4, <1>5, <2>2, <2>x
  <2>5. mem'.seq = 2 * capture'.writeSeq + 1 /\ ~Even(mem'.seq) /\ mem'.seq # 0
    BY <1>4, <1>5, <1>n DEF s
  <2>6. pubs'[Newest'].id = capture'.frameId
    BY <1>3, <1>4, <1>v
  <2> QED BY <1>4, <2>1, <2>4, <2>5, <2>6 DEF SlotInv
<1>y. WriterInv'
  BY <1>0, <1>3, <1>4, <1>5, <1>6, <1>7, <1>8 DEF WriterInv, Typed
<1>z. WriterStep
  <2>1. /\ Newest <= Newest' /\ Newest # Newest' /\ \A n \in 1 .. Newest : pubs'[n] = pubs[n]
    BY <1>3
  <2>2. \A x \in Nat : x <= Newest => x < Newest' /\ x <= Newest'
    BY <1>3
  <2>3. /\ mem'.seq = mem.seq + 1 /\ (mem.seq = 0 => mem.pub = 0)
    <3>1. /\ mem.seq = 2 * capture.writeSeq /\ capture.writeSeq = Newest - capture.since
          /\ Newest = capture.since => mem.pub = 0
      BY <1>0 DEF SlotInv
    <3> QED BY <1>0, <1>3, <1>5, <3>1 DEF s
  <2>4. capture.since = Newest => BetweenPasses
    BY DEF BeginPublish, Newest
  <2> QED BY <1>0, <1>4, <1>5, <2>1, <2>2, <2>3, <2>4 DEF WriterStep, MetaSettled, PubSettled
<1> QED BY <1>y, <1>z

\* While a publication is written the capture keeps everything else.
LEMMA CaptureWrites ==
  ASSUME WriterInv, capture.pc = "write"
  PROVE  /\ capture \in CaptureType /\ mem \in MemType /\ Newest \in Nat \ {0}
         /\ ~Even(mem.seq) /\ mem.seq # 0 /\ capture.since < Newest
         /\ capture.writeSeq \in Nat /\ capture.frameId \in Nat /\ capture.since \in Nat
         /\ LastPicture = camera.holds[capture.buffer] /\ LastPicture = pubs[Newest].picture
         /\ LastPicture \in Nat /\ pubs[Newest].id = capture.frameId
<1>1. /\ capture \in CaptureType /\ mem \in MemType /\ Newest \in Nat /\ LastPicture \in Nat
      /\ capture.writeSeq \in Nat /\ capture.frameId \in Nat /\ capture.since \in Nat
  BY LastFacts DEF WriterInv, Typed, CaptureType
<1>2. /\ capture.writeSeq + 1 = Newest - capture.since /\ pubs[Newest].id = capture.frameId
      /\ mem.seq = 2 * capture.writeSeq + 1
  BY DEF WriterInv, SlotInv
<1>3. Newest # 0 /\ capture.since < Newest
  BY <1>1, <1>2
<1>4. ~Even(mem.seq) /\ mem.seq # 0
  BY <1>1, <1>2, EvenFacts
<1>5. LastPicture = camera.holds[capture.buffer]
  BY DEF WriterInv, CameraInv
<1>6. LastPicture = pubs[Newest].picture
  BY <1>3 DEF LastPicture
<1> QED BY <1>1, <1>2, <1>3, <1>4, <1>5, <1>6

LEMMA StoreKeeps ==
  ASSUME WriterInv, NEW f \in Stores, Store(f)
  PROVE  WriterInv' /\ WriterStep
<1> DEFINE rest == capture.todo \ {f}
           pic == camera.holds[capture.buffer]
           P == Newest
<1>0. /\ Typed /\ CameraInv /\ PubsInv /\ SlotInv /\ capture.pc = "write" /\ f \in capture.todo
      /\ UNCHANGED <<camera, pubs, reader, sent>>
  BY DEF WriterInv, Store
<1>1. /\ capture \in CaptureType /\ mem \in MemType /\ Newest \in Nat \ {0}
      /\ ~Even(mem.seq) /\ mem.seq # 0 /\ capture.since < Newest
      /\ capture.writeSeq \in Nat /\ capture.frameId \in Nat /\ capture.since \in Nat
      /\ LastPicture = pic /\ LastPicture = pubs[Newest].picture /\ pic \in Nat
      /\ pubs[Newest].id = capture.frameId
  BY <1>0, CaptureWrites
<1>2. capture' = [capture EXCEPT !.todo = rest] /\ Len(pubs) = P
  BY DEF Store, Newest
<1>3. /\ capture' \in CaptureType /\ capture'.pc = "write" /\ capture'.buffer = capture.buffer
      /\ capture'.frameId = capture.frameId /\ capture'.writeSeq = capture.writeSeq
      /\ capture'.since = capture.since /\ capture'.todo = rest
  BY <1>0, <1>1, <1>2, TodosAre DEF CaptureType
<1>4. /\ Newest' = Newest /\ LastPicture' = LastPicture /\ P \in Nat
      /\ \A x : Stored(x)' <=> Stored(x) \/ x = f
  BY <1>0, <1>1, <1>3, SamePublications DEF Stored
<1> HIDE DEF rest, pic, P
<1>5. CameraInv'
  BY <1>0, <1>3, <1>4 DEF CameraInv
<1>6. /\ mem.meta <= Newest /\ mem.pub <= Newest
      /\ capture.writeSeq + 1 = Newest - capture.since /\ capture.frameId = capture.writeSeq
      /\ mem.seq = 2 * capture.writeSeq + 1 /\ capture.todo \subseteq Stores
      /\ Stored("id") => mem.id = capture.frameId
      /\ IF Stored("meta") THEN mem.meta = Newest /\ mem.flags = 2 ELSE mem.meta < Newest
      /\ IF Stored("pub") THEN mem.pub = Newest ELSE mem.pub < Newest
      /\ Stored("timing") => mem.timing = Newest
      /\ Stored("half1") => mem.half1 = pubs[Newest].picture
      /\ Stored("half2") => mem.half2 = pubs[Newest].picture
  BY <1>0 DEF SlotInv
<1>7. rest \subseteq Stores
  BY <1>6 DEF rest
<1>8. /\ mem' \in MemType /\ mem'.seq = mem.seq
      /\ (f = "id" /\ mem'.id = capture.frameId) \/ (f # "id" /\ mem'.id = mem.id)
      /\ \/ f = "meta" /\ mem'.meta = Newest /\ mem'.flags = 2
         \/ f # "meta" /\ mem'.meta = mem.meta /\ mem'.flags = mem.flags
      /\ (f = "pub" /\ mem'.pub = Newest) \/ (f # "pub" /\ mem'.pub = mem.pub)
      /\ (f = "timing" /\ mem'.timing = Newest) \/ (f # "timing" /\ mem'.timing = mem.timing)
      /\ (f = "half1" /\ mem'.half1 = pic) \/ (f # "half1" /\ mem'.half1 = mem.half1)
      /\ (f = "half2" /\ mem'.half2 = pic) \/ (f # "half2" /\ mem'.half2 = mem.half2)
  <2>0. Newest = P
    BY DEF P
  <2>1. CASE f = "id"
    <3>1. mem' = [mem EXCEPT !.id = capture.frameId]
      BY <2>1 DEF Store, Halves
    <3> QED BY <1>1, <2>1, <3>1 DEF MemType
  <2>2. CASE f = "meta"
    <3>1. mem' = [mem EXCEPT !.meta = P, !.flags = 2]
      BY <1>2, <2>2 DEF Store, Halves
    <3> QED BY <1>1, <1>4, <2>0, <2>2, <3>1 DEF MemType
  <2>3. CASE f = "half1"
    <3>1. mem' = [mem EXCEPT !.half1 = pic]
      BY <2>3 DEF Store, Halves, pic
    <3> QED BY <1>1, <2>3, <3>1 DEF MemType
  <2>4. CASE f = "half2"
    <3>1. mem' = [mem EXCEPT !.half2 = pic]
      BY <2>4 DEF Store, Halves, pic
    <3> QED BY <1>1, <2>4, <3>1 DEF MemType
  <2>5. CASE f = "pub"
    <3>1. mem' = [mem EXCEPT !.pub = P]
      BY <1>2, <2>5 DEF Store, Halves
    <3> QED BY <1>1, <1>4, <2>0, <2>5, <3>1 DEF MemType
  <2>6. CASE f = "timing"
    <3>1. mem' = [mem EXCEPT !.timing = P]
      BY <1>2, <2>6 DEF Store, Halves
    <3> QED BY <1>1, <1>4, <2>0, <2>6, <3>1 DEF MemType
  <2> QED BY <2>1, <2>2, <2>3, <2>4, <2>5, <2>6, StoresAre
<1>9. SlotInv'
  <2>1. capture'.since <= Newest' /\ mem'.meta <= Newest' /\ mem'.pub <= Newest'
    BY <1>1, <1>3, <1>4, <1>6, <1>8
  <2>2. ~Even(mem'.seq) /\ mem'.seq # 0 /\ mem'.seq = 2 * capture'.writeSeq + 1
    BY <1>1, <1>3, <1>6, <1>8
  <2>3. /\ capture'.writeSeq + 1 = Newest' - capture'.since /\ capture'.frameId = capture'.writeSeq
        /\ pubs'[Newest'].id = capture'.frameId /\ capture'.todo \subseteq Stores
    BY <1>0, <1>1, <1>3, <1>4, <1>6, <1>7
  <2>4. Stored("id")' => mem'.id = capture'.frameId
    BY <1>3, <1>4, <1>6, <1>8
  <2>5. /\ IF Stored("meta")' THEN mem'.meta = Newest' /\ mem'.flags = 2 ELSE mem'.meta < Newest'
        /\ IF Stored("pub")' THEN mem'.pub = Newest' ELSE mem'.pub < Newest'
        /\ Stored("timing")' => mem'.timing = Newest'
    BY <1>4, <1>6, <1>8
  <2>6. /\ Stored("half1")' => mem'.half1 = pubs'[Newest'].picture
        /\ Stored("half2")' => mem'.half2 = pubs'[Newest'].picture
    BY <1>0, <1>1, <1>4, <1>6, <1>8
  <2> QED BY <1>3, <2>1, <2>2, <2>3, <2>4, <2>5, <2>6 DEF SlotInv
<1>y. WriterInv'
  BY <1>0, <1>3, <1>5, <1>8, <1>9 DEF WriterInv, Typed, PubsInv, Newest
<1>z. WriterStep
  <2>1. \A n \in 1 .. Newest : pubs'[n] = pubs[n]
    BY <1>0
  <2>2. ASSUME NEW x \in Nat, MetaSettled(x)
        PROVE  MetaSettled(x)' /\ (mem.meta # x => mem'.meta # x)
    BY <1>0, <1>1, <1>3, <1>4, <1>8, <2>2 DEF MetaSettled, Stored
  <2>3. ASSUME NEW x \in Nat, PubSettled(x)
        PROVE  PubSettled(x)' /\ (mem.pub # x => mem'.pub # x)
    BY <1>0, <1>1, <1>3, <1>4, <1>8, <2>3 DEF PubSettled, Stored
  <2> QED BY <1>0, <1>1, <1>3, <1>4, <1>8, <2>1, <2>2, <2>3 DEF WriterStep
<1> QED BY <1>y, <1>z

LEMMA EndPublishKeeps ==
  ASSUME WriterInv, EndPublish
  PROVE  WriterInv' /\ WriterStep
<1> DEFINE s == 2 * (capture.writeSeq + 1)
           w == capture.writeSeq + 1
           i == capture.frameId + 1
<1>0. /\ Typed /\ CameraInv /\ PubsInv /\ SlotInv /\ capture.pc = "write" /\ capture.todo = {}
      /\ UNCHANGED <<camera, pubs, reader, sent>>
  BY DEF WriterInv, EndPublish
<1>1. /\ capture \in CaptureType /\ mem \in MemType /\ Newest \in Nat \ {0} /\ capture.since < Newest
      /\ capture.writeSeq \in Nat /\ capture.frameId \in Nat /\ capture.since \in Nat
      /\ LastPicture = pubs[Newest].picture /\ pubs[Newest].id = capture.frameId
  BY <1>0, CaptureWrites
<1>2. /\ mem' = [mem EXCEPT !.seq = s]
      /\ capture' = [capture EXCEPT !.pc = "return", !.frameId = i, !.writeSeq = w]
  BY <1>1 DEF EndPublish, CaptureType
<1>n. s \in Nat /\ w \in Nat /\ i \in Nat /\ Even(s) /\ s # 0 /\ s = 2 * w
  BY <1>1, EvenFacts
<1>3. /\ capture.writeSeq + 1 = Newest - capture.since /\ capture.frameId = capture.writeSeq
      /\ mem.meta <= Newest /\ mem.pub <= Newest
  BY <1>0 DEF SlotInv
<1>w. w = Newest - capture.since /\ i = w
  BY <1>3
<1> HIDE DEF s, w, i
<1>4. /\ capture' \in CaptureType /\ capture'.pc = "return" /\ capture'.buffer = capture.buffer
      /\ capture'.frameId = i /\ capture'.writeSeq = w /\ capture'.since = capture.since
  BY <1>1, <1>2, <1>n, PcsAre DEF CaptureType
<1>5. /\ mem' \in MemType /\ mem'.seq = s
      /\ mem'.id = mem.id /\ mem'.meta = mem.meta /\ mem'.flags = mem.flags /\ mem'.pub = mem.pub
      /\ mem'.half1 = mem.half1 /\ mem'.half2 = mem.half2 /\ mem'.timing = mem.timing
  BY <1>1, <1>2, <1>n DEF MemType
<1>6. Newest' = Newest /\ LastPicture' = LastPicture /\ pubs' = pubs
  BY <1>0, SamePublications
<1>7. Complete'
  <2>1. Complete
    BY <1>0, <1>1 DEF SlotInv, Stored, Complete
  <2> QED BY <1>5, <1>6, <2>1 DEF Complete
<1>8. CameraInv'
  BY <1>0, <1>4, <1>6 DEF CameraInv
<1>9. SlotInv'
  <2>1. capture'.since <= Newest' /\ mem'.meta <= Newest' /\ mem'.pub <= Newest' /\ Newest' # capture'.since
    BY <1>1, <1>3, <1>4, <1>5, <1>6
  <2>2. mem'.seq # 0 /\ mem'.seq = 2 * capture'.writeSeq
    BY <1>4, <1>5, <1>n
  <2>3. capture'.writeSeq = Newest' - capture'.since /\ capture'.frameId = capture'.writeSeq
    BY <1>4, <1>6, <1>w
  <2> QED BY <1>4, <1>7, <2>1, <2>2, <2>3 DEF SlotInv
<1>y. WriterInv'
  BY <1>0, <1>4, <1>5, <1>8, <1>9 DEF WriterInv, Typed, PubsInv, Newest
<1>z. WriterStep
  <2>1. mem'.seq = mem.seq + 1 /\ mem.seq # 0
    <3>1. mem.seq = 2 * capture.writeSeq + 1
      BY <1>0 DEF SlotInv
    <3> QED BY <1>1, <1>5, <3>1 DEF s
  <2> QED BY <1>0, <1>1, <1>4, <1>5, <1>6, <2>1 DEF WriterStep, MetaSettled, PubSettled
<1> QED BY <1>y, <1>z

\* Whatever it was doing, the slot stays as the stop found it.
LEMMA StopKeeps ==
  ASSUME WriterInv, Stop
  PROVE  WriterInv' /\ WriterStep
<1>0. /\ Typed /\ CameraInv /\ PubsInv /\ SlotInv
      /\ capture \in CaptureType /\ camera \in CameraType
      /\ UNCHANGED <<mem, pubs, reader, sent>>
  BY DEF WriterInv, Stop, Typed
<1>1. /\ capture' = [capture EXCEPT !.pc = "down", !.todo = {}, !.buffer = 0, !.left = 0]
      /\ camera' = [camera EXCEPT !.empty = <<>>, !.full = <<>>]
  BY DEF Stop
<1>2. 0 \in BufferOrNone
  BY BoundsAssumption DEF BufferOrNone
<1>3. /\ capture' \in CaptureType /\ capture'.pc = "down" /\ capture'.buffer = 0
      /\ capture'.since = capture.since
  BY <1>0, <1>1, <1>2, PcsAre, TodosAre DEF CaptureType
<1>4. /\ camera' \in CameraType /\ Len(camera'.empty) = 0 /\ Len(camera'.full) = 0
      /\ camera'.pictures = camera.pictures
  <2> DEFINE B == 1 .. Buffers
             none == <<>>
  <2>1. none \in Seq(B) /\ Len(none) = 0
    OBVIOUS
  <2>2. camera' = [camera EXCEPT !.empty = none, !.full = none]
    BY <1>1
  <2>3. camera \in [empty : Seq(B), full : Seq(B), holds : [B -> Nat], pictures : Nat]
    BY <1>0 DEF CameraType
  <2> HIDE DEF B, none
  <2>4. /\ camera' \in [empty : Seq(B), full : Seq(B), holds : [B -> Nat], pictures : Nat]
        /\ camera'.empty = none /\ camera'.full = none /\ camera'.pictures = camera.pictures
    BY <2>1, <2>2, <2>3
  <2> QED BY <2>1, <2>4 DEF B, CameraType
<1>5. CameraInv'
  BY <1>0, <1>3, <1>4, SamePublications
     DEF CameraInv, InOnePlace, NewerThan, Once, NotIn, Apart
<1>6. SlotInv'
  BY <1>0, <1>3 DEF SlotInv, Newest, Complete
<1>y. WriterInv'
  BY <1>0, <1>3, <1>4, <1>5, <1>6 DEF WriterInv, Typed, PubsInv, Newest
<1>z. WriterStep
  BY <1>0, <1>3, SlotUntouched
<1> QED BY <1>y, <1>z

LEMMA StartKeeps ==
  ASSUME WriterInv, Start
  PROVE  WriterInv' /\ WriterStep
<1>0. /\ Typed /\ CameraInv /\ PubsInv /\ SlotInv /\ capture.pc = "down" /\ Newest \in Nat
      /\ capture \in CaptureType /\ camera \in CameraType /\ capture.boot + 1 \in Nat
      /\ LastPicture \in Nat /\ LastPicture <= camera.pictures /\ camera.pictures \in Nat
      /\ UNCHANGED <<mem, pubs, reader, sent>>
  BY LastFacts DEF WriterInv, Start, Typed, CaptureType, CameraType, CameraInv
<1> DEFINE n == capture.boot + 1
           all == [b \in 1 .. Buffers |-> b]
           none == [b \in 1 .. Buffers |-> 0]
<1>1. /\ capture' = [pc |-> "clear", todo |-> Chunks, buffer |-> 0, left |-> 0, frameId |-> 0,
                     writeSeq |-> 0, boot |-> n, since |-> Len(pubs)]
      /\ camera' = [InitMmapBuffers EXCEPT !.pictures = camera.pictures]
  BY DEF Start
<1>2. 0 \in BufferOrNone /\ Newest = Len(pubs) /\ capture.since <= Newest
  BY <1>0, BoundsAssumption DEF BufferOrNone, Newest, SlotInv
<1>3. /\ capture' \in CaptureType /\ capture'.pc = "clear" /\ capture'.buffer = 0
      /\ capture'.since = Newest /\ capture'.writeSeq = 0 /\ capture'.frameId = 0
      /\ capture'.todo = Chunks
  <2> HIDE DEF n
  <2>1. n \in Nat
    BY <1>0 DEF n
  <2> QED BY <1>0, <1>1, <1>2, <2>1, PcsAre, TodosAre DEF CaptureType
<1>4. /\ all \in Seq(1 .. Buffers) /\ Len(all) = Buffers /\ none \in [1 .. Buffers -> Nat]
      /\ \A b \in 1 .. Buffers : all[b] = b
  BY BoundsAssumption
<1> HIDE DEF all, none
<1>5. /\ camera' \in CameraType /\ camera'.empty = all /\ camera'.full = <<>>
      /\ camera'.pictures = camera.pictures
  <2>1. camera' = [empty |-> all, full |-> <<>>, holds |-> none, pictures |-> camera.pictures]
    BY <1>1 DEF InitMmapBuffers, all, none
  <2> QED BY <1>0, <1>4, <2>1 DEF CameraType
<1>6. CameraInv'
  <2>1. Once(all) /\ NotIn(0, all)
    BY <1>4 DEF Once, NotIn
  <2> QED BY <1>0, <1>3, <1>5, <2>1, SamePublications
          DEF CameraInv, InOnePlace, NewerThan, NotIn, Apart
<1>7. SlotInv'
  <2>1. ~Stored("ident")' /\ ~Stored("state")' /\ ~Stored("stamp")'
    BY <1>3 DEF Stored, Chunks
  <2>2. Newest' = Newest
    BY <1>0, SamePublications
  <2>3. /\ mem'.meta <= Newest' /\ mem'.pub <= Newest' /\ (mem'.meta # 0 => mem'.seq # 0)
        /\ Even(mem'.seq) /\ mem'.meta # 0 => Complete'
    BY <1>0, <2>2 DEF SlotInv, Complete
  <2> QED BY <1>0, <1>3, <2>1, <2>2, <2>3 DEF SlotInv
<1>y. WriterInv'
  BY <1>0, <1>3, <1>5, <1>6, <1>7 DEF WriterInv, Typed, PubsInv, Newest
<1>z. WriterStep
  BY <1>0, <1>3, SlotUntouched DEF Start
<1> QED BY <1>y, <1>z

LEMMA ClearKeeps ==
  ASSUME WriterInv, NEW chunk \in Chunks, Clear(chunk)
  PROVE  WriterInv' /\ WriterStep
<1> DEFINE rest == capture.todo \ {chunk}
           pc == IF capture.todo = {chunk} THEN "idle" ELSE "clear"
<1>0. /\ Typed /\ CameraInv /\ PubsInv /\ SlotInv /\ capture.pc = "clear" /\ Newest \in Nat
      /\ capture \in CaptureType /\ mem \in MemType /\ chunk = Lowest(capture.todo)
      /\ mem.seq \in Nat /\ mem.meta \in Nat /\ mem.pub \in Nat
      /\ UNCHANGED <<camera, pubs, reader, sent>>
  BY LastFacts DEF WriterInv, Clear, Typed, MemType
<1>1. capture' = [capture EXCEPT !.todo = rest, !.pc = pc] /\ mem' = WithChunk(mem, ZeroHeader, chunk)
  BY <1>0 DEF Clear
<1>2. /\ Newest = capture.since /\ capture.writeSeq = 0 /\ capture.frameId = 0
      /\ capture.todo \subseteq Chunks
      /\ Stored("ident") => mem.meta = 0
      /\ Stored("state") => mem.seq = 0
      /\ Stored("stamp") => mem.pub = 0
      /\ mem.meta <= Newest /\ mem.pub <= Newest /\ (mem.meta # 0 => mem.seq # 0)
      /\ Even(mem.seq) /\ mem.meta # 0 => Complete
  BY <1>0 DEF SlotInv
<1>3. pc \in CapturePcs /\ (pc = "idle" \/ pc = "clear")
  BY PcsAre
<1>p. pc = "idle" => capture.todo = {chunk}
  OBVIOUS
<1>r. rest \subseteq Chunks
  BY <1>2
<1> HIDE DEF pc
<1>4. /\ capture' \in CaptureType /\ capture'.pc = pc /\ capture'.buffer = capture.buffer
      /\ capture'.frameId = 0 /\ capture'.writeSeq = 0
      /\ capture'.since = Newest /\ capture'.todo = rest
  BY <1>0, <1>1, <1>2, <1>3, TodosAre DEF CaptureType
<1>5. Newest' = Newest /\ LastPicture' = LastPicture /\ \A x : Stored(x)' <=> Stored(x) \/ x = chunk
  BY <1>0, <1>4, SamePublications DEF Stored
<1> HIDE DEF rest
<1>6. CameraInv'
  BY <1>0, <1>3, <1>4, <1>5 DEF CameraInv
<1>7. /\ mem' \in MemType
      /\ mem'.half1 = mem.half1 /\ mem'.half2 = mem.half2 /\ mem'.timing = mem.timing
      /\ \/ chunk = "ident" /\ mem'.id = 0 /\ mem'.meta = 0
         \/ chunk # "ident" /\ mem'.id = mem.id /\ mem'.meta = mem.meta
      /\ \/ chunk = "state" /\ mem'.seq = 0 /\ mem'.flags = 0
         \/ chunk # "state" /\ mem'.seq = mem.seq /\ mem'.flags = mem.flags
      /\ (chunk = "stamp" /\ mem'.pub = 0) \/ (chunk # "stamp" /\ mem'.pub = mem.pub)
  <2>1. CASE chunk = "ident"
    <3>1. mem' = [mem EXCEPT !.id = 0, !.meta = 0]
      BY <1>1, <2>1 DEF WithChunk, ZeroHeader
    <3> QED BY <1>0, <2>1, <3>1 DEF MemType
  <2>2. CASE chunk = "state"
    <3>1. mem' = [mem EXCEPT !.seq = 0, !.flags = 0]
      BY <1>1, <2>2 DEF WithChunk, ZeroHeader
    <3> QED BY <1>0, <2>2, <3>1 DEF MemType
  <2>3. CASE chunk = "stamp"
    <3>1. mem' = [mem EXCEPT !.pub = 0]
      BY <1>1, <2>3 DEF WithChunk, ZeroHeader
    <3> QED BY <1>0, <2>3, <3>1 DEF MemType
  <2> QED BY <2>1, <2>2, <2>3 DEF Chunks
<1>8. SlotInv'
  <2>1. /\ mem'.meta <= Newest' /\ mem'.pub <= Newest'
        /\ (Stored("ident")' => mem'.meta = 0) /\ (Stored("state")' => mem'.seq = 0)
        /\ (Stored("stamp")' => mem'.pub = 0)
    BY <1>0, <1>2, <1>5, <1>7
  <2>2. mem'.meta # 0 => /\ mem'.meta = mem.meta /\ mem'.seq = mem.seq /\ mem'.pub = mem.pub
                         /\ mem'.id = mem.id /\ mem'.flags = mem.flags
                         /\ mem.meta # 0
                      \/ chunk = "stamp"
    BY <1>0, <1>2, <1>7 DEF Lowest, Stored
  <2>3. chunk = "stamp" => Stored("ident")
    BY <1>0 DEF Lowest, Stored
  <2>4. mem'.meta # 0 => mem'.seq # 0
    BY <1>2, <1>7, <2>2, <2>3
  <2>5. Even(mem'.seq) /\ mem'.meta # 0 => Complete'
    BY <1>0, <1>2, <1>5, <1>7, <2>2, <2>3 DEF Complete
  <2>6. pc = "idle" => mem'.seq = 0 /\ mem'.meta = 0 /\ mem'.pub = 0
    BY <1>2, <1>7, <1>p DEF Stored
  <2> QED BY <1>0, <1>3, <1>4, <1>5, <1>r, <2>1, <2>4, <2>5, <2>6 DEF SlotInv, rest
<1>y. WriterInv'
  BY <1>0, <1>4, <1>6, <1>7, <1>8 DEF WriterInv, Typed, PubsInv, Newest
<1>z. WriterStep
  <2>1. \/ mem'.seq = mem.seq
        \/ mem'.seq = 0 /\ mem.meta = 0
    BY <1>0, <1>2, <1>7 DEF Lowest, Stored
  <2>2. \A x \in Nat : (x # 0 /\ mem.meta # x => mem'.meta # x) /\ (x # 0 /\ mem.pub # x => mem'.pub # x)
    BY <1>7
  <2> QED BY <1>0, <1>2, <1>3, <1>4, <1>5, <2>1, <2>2 DEF WriterStep, MetaSettled, PubSettled
<1> QED BY <1>y, <1>z

LEMMA CaptureKeeps ==
  ASSUME WriterInv, Capture
  PROVE  WriterInv' /\ WriterStep
BY TakePictureKeeps, DequeueKeeps, DrainKeeps, SkipPictureKeeps, ReturnBufferKeeps,
   BeginPublishKeeps, StoreKeeps, EndPublishKeeps, StopKeeps, StartKeeps, ClearKeeps DEF Capture

(***************************************************************************)
(* The readers while the capture steps.                                    *)
(***************************************************************************)
LEMMA ReaderFacts ==
  ASSUME Typed
  PROVE  /\ Newest \in Nat /\ capture.since \in Nat /\ mem.seq \in Nat /\ mem.pub \in Nat
         /\ mem.meta \in Nat /\ mem.flags \in Nat /\ mem.id \in Nat
         /\ reader.h \in HeaderType /\ reader.h.pub \in Nat /\ reader.h.meta \in Nat
         /\ reader.h.seq \in Nat /\ reader.h.id \in Nat /\ reader.h.flags \in Nat
         /\ reader.seq1 \in Nat /\ reader.after \in Nat
         /\ sent.h.pub \in Nat /\ sent.n \in Nat
<1>1. /\ reader \in ReaderType /\ mem \in MemType /\ pubs \in Seq(PublicationType)
      /\ sent \in FrameType /\ capture \in CaptureType
  BY DEF Typed
<1>2. reader.h \in HeaderType /\ reader.seq1 \in Nat /\ reader.after \in Nat
  BY <1>1 DEF ReaderType
<1>3. sent.h \in HeaderType /\ sent.n \in Nat
  BY <1>1 DEF FrameType
<1>4. Newest \in Nat
  BY <1>1 DEF Newest
<1>5. capture.since \in Nat
  BY <1>1 DEF CaptureType
<1> QED BY <1>1, <1>2, <1>3, <1>4, <1>5 DEF MemType, HeaderType

LEMMA LongerStill ==
  ASSUME Typed, Typed', WriterStep
  PROVE  /\ Newest \in Nat /\ Newest' \in Nat /\ Newest <= Newest'
         /\ \A n \in 1 .. Newest : n \in 1 .. Newest' /\ pubs'[n] = pubs[n]
         /\ reader' = reader /\ sent' = sent
<1>1. Newest \in Nat /\ Newest' \in Nat
  BY DEF Typed, Newest
<1> QED BY <1>1 DEF WriterStep

LEMMA SentStays ==
  ASSUME Typed, Typed', SentInv, WriterStep
  PROVE  SentInv'
<1>1. sent.h.pub \in Nat
  BY ReaderFacts
<1>2. Whole(sent) => Whole(sent)'
  BY LongerStill DEF Whole, Newest
<1> QED BY <1>1, <1>2, LongerStill DEF SentInv

LEMMA GatewayWaits ==
  ASSUME WriterInv, WriterInv', SentInv, GatewayInv, reader.kind = "gateway", WriterStep
  PROVE  GatewayInv'
<1>0. /\ Typed /\ Typed' /\ reader' = reader /\ sent' = sent /\ Newest \in Nat /\ Newest' \in Nat
      /\ Newest <= Newest' /\ capture.since \in Nat /\ capture'.since \in Nat
      /\ mem.seq \in Nat /\ mem'.seq \in Nat /\ reader.h.seq \in Nat /\ reader.h.pub \in Nat
      /\ reader.seq1 \in Nat /\ sent.h.pub \in Nat /\ sent.h.pub <= Newest
      /\ \A n \in 1 .. Newest : n \in 1 .. Newest' /\ pubs'[n] = pubs[n]
  BY ReaderFacts, LongerStill DEF WriterInv, Typed, CaptureType, MemType, SentInv
<1>1. CASE reader.pc = "top"
  <2>1. capture'.since < Newest' /\ sent.h.pub = Newest' =>
           capture.since < Newest /\ Newest' = Newest /\ reader.lastId = pubs[Newest].id
    BY <1>0, <1>1 DEF GatewayInv, WriterStep
  <2>2. Newest \in 1 .. Newest \/ Newest = 0
    BY <1>0
  <2> QED BY <1>0, <1>1, <2>1, <2>2 DEF GatewayInv
<1>2. CASE reader.pc # "top" /\ capture.since = Newest
  <2>1. Newest' = Newest /\ capture'.since = capture.since
    BY <1>0, <1>2 DEF WriterStep, BetweenPasses
  <2> QED BY <1>0, <1>2, <2>1 DEF GatewayInv
<1>3. CASE reader.pc # "top" /\ capture.since # Newest
  <2>1. /\ capture'.since = capture.since /\ capture.since < Newest /\ capture'.since < Newest'
        /\ Newest # 0 /\ Newest \in 1 .. Newest
    BY <1>0, <1>3 DEF WriterStep, WriterInv, SlotInv, BetweenPasses
  <2>2. (mem'.seq = mem.seq /\ Newest' = Newest) \/ mem'.seq = mem.seq + 1
    BY <1>3 DEF WriterStep
  <2>3. ASSUME mem'.seq = mem.seq, Even(mem.seq)
        PROVE  /\ mem'.id = mem.id /\ mem'.meta = mem.meta /\ mem'.flags = mem.flags
               /\ mem'.pub = mem.pub
    <3>1. Complete /\ Complete'
      BY <2>1, <2>3 DEF WriterInv, SlotInv
    <3> QED BY <1>0, <2>1, <2>2, <2>3, <3>1 DEF Complete
  <2>4. /\ reader.pc \in {"snap", "decide", "copy"} /\ reader.copy.timing = 0
        /\ reader.h.pub <= Newest
        /\ reader.pc = "snap" => SnapInv
        /\ reader.pc \in {"decide", "copy"} => HeaderInv
        /\ sent.h.pub = Newest => reader.lastId = pubs[Newest].id
        /\ reader.pc = "copy" =>
             /\ reader.h.id # reader.lastId
             /\ mem.seq = reader.h.seq =>
                   \A half \in Halves : Read(half) => reader.copy[half] = pubs[Newest].picture
    BY <1>3, <2>1 DEF GatewayInv
  <2>5. reader.pc = "snap" => SnapInv'
    <3>1. mem'.seq = reader.seq1 /\ SnapInv => mem.seq = reader.seq1 /\ mem'.seq = mem.seq /\ Even(mem.seq)
      BY <1>0, <2>2 DEF SnapInv
    <3>2. SnapInv => reader.seq1 <= mem'.seq
      BY <1>0, <2>2 DEF SnapInv
    <3> QED BY <1>0, <2>3, <2>4, <3>1, <3>2 DEF SnapInv, Read
  <2>6. HeaderInv /\ mem'.seq = reader.h.seq => mem.seq = reader.h.seq /\ Newest' = Newest
    BY <1>0, <2>2 DEF HeaderInv
  <2>7. HeaderInv => HeaderInv'
    <3>1. HeaderInv => reader.h.seq <= mem'.seq
      BY <1>0, <2>2 DEF HeaderInv
    <3> QED BY <1>0, <2>6, <3>1 DEF HeaderInv, HeaderOf
  <2>8. sent.h.pub = Newest' => reader.lastId = pubs'[Newest'].id
    BY <1>0, <2>1, <2>2, <2>4
  <2>9. reader.pc = "copy" /\ mem'.seq = reader.h.seq =>
           \A half \in Halves : Read(half) => reader.copy[half] = pubs'[Newest'].picture
    BY <1>0, <2>1, <2>4, <2>6
  <2> QED BY <1>0, <2>1, <2>4, <2>5, <2>7, <2>8, <2>9 DEF GatewayInv, Read
<1> QED BY <1>1, <1>2, <1>3

LEMMA NodeWaits ==
  ASSUME WriterInv, WriterInv', SentInv, NodeInv, reader.kind = "node", WriterStep
  PROVE  NodeInv'
<1>0. /\ Typed /\ Typed' /\ reader' = reader /\ sent' = sent /\ Newest \in Nat /\ Newest' \in Nat
      /\ Newest <= Newest'
      /\ mem.seq \in Nat /\ mem'.seq \in Nat /\ reader.h.seq \in Nat /\ reader.h.pub \in Nat
      /\ reader.h.meta \in Nat /\ reader.after \in Nat
      /\ \A n \in 1 .. Newest : n \in 1 .. Newest' /\ pubs'[n] = pubs[n]
  BY ReaderFacts, LongerStill DEF WriterInv, Typed, MemType
<1>1. /\ MetaSettled(reader.h.meta)' /\ PubSettled(reader.h.pub)'
      /\ reader.h.meta # 0 /\ mem'.meta = reader.h.meta => mem.meta = reader.h.meta
      /\ reader.h.pub # 0 /\ mem'.pub = reader.h.pub => mem.pub = reader.h.pub
  <2>1. /\ \A x \in Nat : MetaSettled(x) => /\ MetaSettled(x)'
                                            /\ x # 0 /\ mem.meta # x => mem'.meta # x
        /\ \A x \in Nat : PubSettled(x) => /\ PubSettled(x)'
                                           /\ x # 0 /\ mem.pub # x => mem'.pub # x
    BY DEF WriterStep
  <2>2. MetaSettled(reader.h.meta) /\ PubSettled(reader.h.pub)
    BY DEF NodeInv
  <2>3. PICK m \in Nat, p \in Nat : m = reader.h.meta /\ p = reader.h.pub
    BY <1>0
  <2>4. MetaSettled(m) /\ PubSettled(p)
    BY <2>2, <2>3 DEF MetaSettled, PubSettled
  <2>5. /\ MetaSettled(m)' /\ (m # 0 /\ mem.meta # m => mem'.meta # m)
        /\ PubSettled(p)' /\ (p # 0 /\ mem.pub # p => mem'.pub # p)
    BY <2>1, <2>4
  <2>6. MetaSettled(reader.h.meta)' /\ PubSettled(reader.h.pub)'
    BY <1>0, <2>3, <2>5 DEF MetaSettled, PubSettled
  <2> QED BY <2>3, <2>5, <2>6
<1>2. StandsFor'
  <2>1. Newest # 0 => Newest \in 1 .. Newest
    BY <1>0
  <2>2. MetaKept' => MetaKept /\ mem.meta # 0
    BY <1>0, <1>1 DEF MetaKept
  <2>3. MetaKept' /\ StateRead =>
           /\ mem'.seq = mem.seq \/ mem'.seq = mem.seq + 1
           /\ reader.h.seq # 0 /\ reader.h.seq <= mem.seq
    BY <2>2 DEF WriterStep, NodeInv, StandsFor
  <2>4. MetaKept' /\ StateRead => reader.h.seq # 0 /\ reader.h.seq <= mem'.seq
    BY <1>0, <2>3
  <2>5. MetaKept' /\ StateRead /\ mem'.seq = reader.h.seq => mem.seq = reader.h.seq /\ Newest' = Newest
    BY <1>0, <2>3 DEF WriterStep
  <2>6. mem.meta # 0 => Newest # 0
    BY <1>0, ReaderFacts DEF WriterInv, SlotInv
  <2>7. UNCHANGED <<StateRead, StampRead>> /\ \A half : Copied(half)' = Copied(half)
    BY <1>0 DEF StateRead, StampRead, Copied, Read
  <2> QED BY <1>0, <2>1, <2>2, <2>4, <2>5, <2>6, <2>7 DEF NodeInv, StandsFor
<1>3. Good(reader) => Good(reader)'
  BY <1>0 DEF Good
<1>4. reader.pc = "verify" => reader.h.pub # 0 /\ Even(reader.h.seq)
  BY <1>0 DEF NodeInv
<1>5. SecondState'
  <2>1. SUFFICES ASSUME reader.pc = "verify", Read("ident"), ~Read("state"), SizesAgree, PubKept'
                 PROVE  /\ reader.h.seq # 0 /\ (reader.h.seq <= mem'.seq \/ mem'.seq = 0)
                        /\ mem'.seq = reader.h.seq => Good(reader)'
    BY <1>0 DEF SecondState, Read, SizesAgree
  <2>2. PubKept
    BY <1>0, <1>1, <1>4, <2>1 DEF PubKept
  <2>3. /\ reader.h.seq # 0 /\ (reader.h.seq <= mem.seq \/ mem.seq = 0)
        /\ mem.seq = reader.h.seq => Good(reader)
    BY <2>1, <2>2 DEF NodeInv, SecondState
  <2>4. CASE mem'.seq = mem.seq
    BY <1>3, <2>3, <2>4
  <2>5. CASE mem'.seq = 0
    BY <2>3, <2>5
  <2>6. CASE mem'.seq = mem.seq + 1 /\ mem.seq # 0
    BY <1>0, <2>3, <2>6
  <2>7. CASE mem.seq = 0 /\ mem.pub = 0
    BY <1>4, <2>1, <2>2, <2>7 DEF PubKept
  <2> QED BY <2>4, <2>5, <2>6, <2>7 DEF WriterStep
<1>6. SecondStamp'
  <2>1. PubKept' /\ reader.pc = "verify" => PubKept
    BY <1>0, <1>1, <1>4 DEF PubKept
  <2> QED BY <1>0, <1>3, <2>1 DEF NodeInv, SecondStamp, Read, SizesAgree
<1> QED BY <1>0, <1>1, <1>2, <1>5, <1>6 DEF NodeInv, Read

(***************************************************************************)
(* The readers' own steps.                                                 *)
(***************************************************************************)
LEMMA KindsAre ==
  /\ "gateway" \in ReaderKinds /\ "node" \in ReaderKinds
  /\ "top" \in ReaderPcs /\ "snap" \in ReaderPcs /\ "decide" \in ReaderPcs
  /\ "copy" \in ReaderPcs /\ "header" \in ReaderPcs /\ "verify" \in ReaderPcs
  /\ {} \in ReaderTodo /\ Chunks \in ReaderTodo /\ Halves \in ReaderTodo
  /\ \A todo \in ReaderTodo : \A x : todo \ {x} \in ReaderTodo
BY DEF ReaderKinds, ReaderPcs, ReaderTodo

LEMMA Zeros ==
  /\ ZeroHeader \in HeaderType /\ NoCopy \in CopyType /\ NoFrame \in FrameType
  /\ ZeroHeader.pub = 0 /\ ZeroHeader.meta = 0 /\ NoCopy.timing = 0
  /\ NoFrame.h.pub = 0 /\ NoFrame.copy.half1 = 0
BY DEF ZeroHeader, NoCopy, NoFrame, HeaderType, CopyType, FrameType

LEMMA ReaderSteps ==
  ASSUME WriterInv, ReaderOnly, reader' \in ReaderType, sent' \in FrameType
  PROVE  WriterInv'
BY DEF WriterInv, ReaderOnly, Typed, CameraInv, PubsInv, SlotInv, Newest, LastPicture, Complete,
       Stored

LEMMA ChunkRead ==
  ASSUME NEW h \in HeaderType, NEW m \in MemType, NEW chunk \in Chunks,
         NEW g, g = WithChunk(h, m, chunk)
  PROVE  /\ g \in HeaderType
         /\ \/ chunk = "ident" /\ g.id = m.id /\ g.meta = m.meta
            \/ chunk # "ident" /\ g.id = h.id /\ g.meta = h.meta
         /\ \/ chunk = "state" /\ g.seq = m.seq /\ g.flags = m.flags
            \/ chunk # "state" /\ g.seq = h.seq /\ g.flags = h.flags
         /\ (chunk = "stamp" /\ g.pub = m.pub) \/ (chunk # "stamp" /\ g.pub = h.pub)
<1>1. m.id \in Nat /\ m.meta \in Nat /\ m.seq \in Nat /\ m.flags \in Nat /\ m.pub \in Nat
  BY DEF MemType
<1>2. CASE chunk = "ident"
  <2>1. g = [h EXCEPT !.id = m.id, !.meta = m.meta]
    BY <1>2 DEF WithChunk
  <2> QED BY <1>1, <1>2, <2>1 DEF HeaderType
<1>3. CASE chunk = "state"
  <2>1. g = [h EXCEPT !.seq = m.seq, !.flags = m.flags]
    BY <1>3 DEF WithChunk
  <2> QED BY <1>1, <1>3, <2>1 DEF HeaderType
<1>4. CASE chunk = "stamp"
  <2>1. g = [h EXCEPT !.pub = m.pub]
    BY <1>4 DEF WithChunk
  <2> QED BY <1>1, <1>4, <2>1 DEF HeaderType
<1> QED BY <1>2, <1>3, <1>4 DEF Chunks

LEMMA TopFacts ==
  ASSUME NEW r \in ReaderType, NEW t, t = Top(r)
  PROVE  /\ t \in ReaderType /\ t.kind = r.kind /\ t.pc = "top" /\ t.h = ZeroHeader
         /\ t.copy = NoCopy /\ t.lastId = r.lastId /\ t.after = r.after
BY KindsAre, Zeros DEF Top, ReaderType

\* Of a finished slot every part is of the newest publication.
LEMMA HalfRead ==
  ASSUME Complete, NEW half \in Halves
  PROVE  mem[half] = pubs[Newest].picture
BY DEF Complete, Halves

LEMMA HalfCopied ==
  ASSUME NEW c \in CopyType, NEW half \in Halves, NEW x \in Nat, NEW d, d = [c EXCEPT ![half] = x]
  PROVE  /\ d \in CopyType /\ d[half] = x /\ d.timing = c.timing
         /\ \A other \in Halves : other # half => d[other] = c[other]
BY DEF CopyType, Halves

LEMMA HalvesAre ==
  ASSUME mem \in MemType, NEW half \in Halves
  PROVE  mem[half] \in Nat
BY DEF MemType, Halves

(***************************************************************************)
(* The gateway's steps.                                                    *)
(***************************************************************************)
GatewayPart == WriterInv /\ SentInv /\ reader.kind = "gateway" /\ GatewayInv

\* A look that ends without a frame leaves nothing behind.
LEMMA GatewayAtTop ==
  ASSUME GatewayPart, ReaderOnly, sent' = sent, reader' \in ReaderType, reader'.kind = "gateway",
         reader'.pc = "top", reader'.h = ZeroHeader, reader'.copy = NoCopy,
         reader'.lastId = reader.lastId
  PROVE  GatewayPart'
<1>1. WriterInv /\ Typed /\ SentInv /\ Newest \in Nat /\ Newest' = Newest
      /\ UNCHANGED <<mem, camera, capture, pubs>> /\ sent \in FrameType
  BY ReaderFacts DEF GatewayPart, WriterInv, ReaderOnly, Newest, Typed
<1>2. WriterInv'
  BY <1>1, ReaderSteps
<1>3. SentInv'
  BY <1>1 DEF SentInv, Whole, Newest
<1>4. GatewayInv'
  <2>1. capture.since < Newest /\ sent.h.pub = Newest => reader.lastId = pubs[Newest].id
    BY DEF GatewayPart, GatewayInv
  <2> QED BY <1>1, <2>1, Zeros DEF GatewayInv
<1> QED BY <1>2, <1>3, <1>4 DEF GatewayPart

LEMMA GwSeq1Keeps ==
  ASSUME GatewayPart, GwSeq1
  PROVE  GatewayPart'
<1> DEFINE s == mem.seq
<1>1. /\ WriterInv /\ Typed /\ SentInv /\ GatewayInv /\ Newest \in Nat /\ Newest' = Newest
      /\ UNCHANGED <<mem, camera, capture, pubs, sent>> /\ ReaderOnly
      /\ sent \in FrameType /\ reader \in ReaderType /\ s \in Nat /\ s % 2 = 0
      /\ reader.kind = "gateway" /\ reader.pc = "top"
  BY ReaderFacts DEF GatewayPart, WriterInv, ReaderOnly, Newest, Typed, GwSeq1
<1>2. reader' = [reader EXCEPT !.pc = "snap", !.todo = Chunks, !.seq1 = s]
  BY DEF GwSeq1
<1> HIDE DEF s
<1>3. /\ reader' \in ReaderType /\ reader'.kind = "gateway" /\ reader'.pc = "snap"
      /\ reader'.todo = Chunks /\ reader'.seq1 = s /\ reader'.h = reader.h
      /\ reader'.copy = reader.copy /\ reader'.lastId = reader.lastId
  BY <1>1, <1>2, KindsAre DEF ReaderType
<1>4. WriterInv' /\ SentInv'
  BY <1>1, <1>3, ReaderSteps DEF SentInv, Whole, Newest
<1>5. SnapInv'
  <2>1. ~Read("ident")' /\ ~Read("state")' /\ ~Read("stamp")'
    BY <1>3 DEF Read, Chunks
  <2> QED BY <1>1, <1>3, <2>1 DEF SnapInv, Even, s
<1>6. GatewayInv'
  BY <1>1, <1>3, <1>5 DEF GatewayInv
<1> QED BY <1>3, <1>4, <1>6 DEF GatewayPart

LEMMA GwSnapKeeps ==
  ASSUME GatewayPart, NEW chunk \in Chunks, GwSnap(chunk)
  PROVE  GatewayPart'
<1> DEFINE g == WithChunk(reader.h, mem, chunk)
           rest == reader.todo \ {chunk}
<1>1. /\ WriterInv /\ Typed /\ SentInv /\ GatewayInv /\ Newest \in Nat /\ Newest' = Newest
      /\ UNCHANGED <<mem, camera, capture, pubs, sent>> /\ ReaderOnly
      /\ sent \in FrameType /\ reader \in ReaderType /\ mem \in MemType /\ reader.h \in HeaderType
      /\ reader.kind = "gateway" /\ reader.pc = "snap" /\ mem.pub <= Newest
  BY ReaderFacts DEF GatewayPart, WriterInv, ReaderOnly, Newest, Typed, GwSnap, SlotInv
<1>2. reader' = [reader EXCEPT !.h = g, !.todo = rest]
  BY <1>1 DEF GwSnap, ReaderType
<1>3. /\ g \in HeaderType
      /\ \/ chunk = "ident" /\ g.id = mem.id /\ g.meta = mem.meta
         \/ chunk # "ident" /\ g.id = reader.h.id /\ g.meta = reader.h.meta
      /\ \/ chunk = "state" /\ g.seq = mem.seq /\ g.flags = mem.flags
         \/ chunk # "state" /\ g.seq = reader.h.seq /\ g.flags = reader.h.flags
      /\ (chunk = "stamp" /\ g.pub = mem.pub) \/ (chunk # "stamp" /\ g.pub = reader.h.pub)
  <2> HIDE DEF g
  <2> QED BY <1>1, ChunkRead DEF g
<1> HIDE DEF g
<1>4. /\ reader' \in ReaderType /\ reader'.kind = "gateway" /\ reader'.pc = "snap"
      /\ reader'.todo = rest /\ reader'.seq1 = reader.seq1 /\ reader'.h = g
      /\ reader'.copy = reader.copy /\ reader'.lastId = reader.lastId
  BY <1>1, <1>2, <1>3, KindsAre DEF ReaderType
<1>5. WriterInv' /\ SentInv'
  BY <1>1, <1>4, ReaderSteps DEF SentInv, Whole, Newest
<1>6. SnapInv => SnapInv'
  <2>1. \A c : Read(c)' <=> Read(c) \/ c = chunk
    BY <1>4 DEF Read
  <2> QED BY <1>1, <1>3, <1>4, <2>1 DEF SnapInv
<1>7. g.pub <= Newest
  BY <1>1, <1>3 DEF GatewayInv
<1>8. GatewayInv'
  BY <1>1, <1>4, <1>6, <1>7 DEF GatewayInv
<1> QED BY <1>4, <1>5, <1>8 DEF GatewayPart

LEMMA GwSeq2Keeps ==
  ASSUME GatewayPart, GwSeq2
  PROVE  GatewayPart'
<1>1. /\ WriterInv /\ Typed /\ SentInv /\ GatewayInv /\ Newest \in Nat /\ Newest' = Newest
      /\ UNCHANGED <<mem, camera, capture, pubs, sent>> /\ ReaderOnly
      /\ sent \in FrameType /\ reader \in ReaderType /\ mem.seq \in Nat
      /\ reader.kind = "gateway" /\ reader.pc = "snap" /\ reader.todo = {}
  BY ReaderFacts DEF GatewayPart, WriterInv, ReaderOnly, Newest, Typed, GwSeq2
<1>2. CASE mem.seq # reader.seq1
  <2>1. reader' = Top(reader)
    BY <1>2 DEF GwSeq2
  <2> QED BY <1>1, <2>1, TopFacts, GatewayAtTop
<1>3. CASE mem.seq = reader.seq1
  <2>1. reader' = [reader EXCEPT !.pc = "decide"]
    BY <1>3 DEF GwSeq2
  <2>2. /\ reader' \in ReaderType /\ reader'.kind = "gateway" /\ reader'.pc = "decide"
        /\ reader'.h = reader.h /\ reader'.copy = reader.copy /\ reader'.lastId = reader.lastId
    BY <1>1, <2>1, KindsAre DEF ReaderType
  <2>3. WriterInv' /\ SentInv'
    BY <1>1, <2>2, ReaderSteps DEF SentInv, Whole, Newest
  <2>4. ASSUME capture.since < Newest PROVE HeaderInv'
    <3>1. SnapInv /\ Read("ident") /\ Read("state") /\ Read("stamp")
      BY <1>1, <2>4 DEF GatewayInv, Read
    <3>2. /\ Even(mem.seq) /\ reader.h.id = mem.id /\ reader.h.meta = mem.meta
          /\ reader.h.seq = mem.seq /\ reader.h.flags = mem.flags /\ reader.h.pub = mem.pub
      BY <1>3, <3>1 DEF SnapInv
    <3>3. Complete
      BY <1>1, <2>4, <3>2 DEF WriterInv, SlotInv
    <3>4. Newest \in 1 .. Newest /\ mem.seq <= mem.seq
      BY <1>1, <2>4, ReaderFacts
    <3> QED BY <1>1, <2>2, <3>2, <3>3, <3>4 DEF HeaderInv, HeaderOf, Complete
  <2>5. GatewayInv'
    BY <1>1, <2>2, <2>4 DEF GatewayInv
  <2> QED BY <2>2, <2>3, <2>5 DEF GatewayPart
<1> QED BY <1>2, <1>3

LEMMA GwSkipKeeps ==
  ASSUME GatewayPart, GwSkip
  PROVE  GatewayPart'
<1>1. /\ reader \in ReaderType /\ reader.kind = "gateway" /\ ReaderOnly /\ sent' = sent
      /\ reader' = Top(reader)
  BY DEF GatewayPart, WriterInv, Typed, GwSkip
<1> QED BY <1>1, TopFacts, GatewayAtTop

\* Once a start has published, no look that ended well found sizes of zero.
LEMMA GwInvalidKeeps ==
  ASSUME GatewayPart, GwInvalid
  PROVE  GatewayPart'
<1> DEFINE t == Top(reader)
           i == reader.h.id
<1>1. /\ WriterInv /\ Typed /\ SentInv /\ GatewayInv /\ Newest \in Nat /\ Newest' = Newest
      /\ UNCHANGED <<mem, camera, capture, pubs, sent>> /\ ReaderOnly
      /\ sent \in FrameType /\ reader \in ReaderType /\ i \in Nat
      /\ reader.kind = "gateway" /\ reader.pc = "decide" /\ reader.h.meta = 0
  BY ReaderFacts DEF GatewayPart, WriterInv, ReaderOnly, Newest, Typed, GwInvalid
<1>2. reader' = [t EXCEPT !.lastId = i]
  BY DEF GwInvalid
<1>3. /\ t \in ReaderType /\ t.kind = "gateway" /\ t.pc = "top" /\ t.h = ZeroHeader
      /\ t.copy = NoCopy
  BY <1>1, TopFacts
<1> HIDE DEF t, i
<1>4. /\ reader' \in ReaderType /\ reader'.kind = "gateway" /\ reader'.pc = "top"
      /\ reader'.h = ZeroHeader /\ reader'.copy = NoCopy
  BY <1>1, <1>2, <1>3 DEF ReaderType
<1>5. WriterInv' /\ SentInv'
  BY <1>1, <1>4, ReaderSteps DEF SentInv, Whole, Newest
<1>6. ~(capture.since < Newest)
  <2>1. capture.since < Newest => reader.h.pub \in 1 .. Newest /\ reader.h.meta = reader.h.pub
    BY <1>1 DEF GatewayInv, HeaderInv, HeaderOf
  <2> QED BY <1>1, <2>1
<1>7. GatewayInv'
  BY <1>1, <1>4, <1>6, Zeros DEF GatewayInv
<1> QED BY <1>4, <1>5, <1>7 DEF GatewayPart

LEMMA GwTakeKeeps ==
  ASSUME GatewayPart, GwTake
  PROVE  GatewayPart'
<1>1. /\ WriterInv /\ Typed /\ SentInv /\ GatewayInv /\ Newest \in Nat /\ Newest' = Newest
      /\ UNCHANGED <<mem, camera, capture, pubs, sent>> /\ ReaderOnly
      /\ sent \in FrameType /\ reader \in ReaderType
      /\ reader.kind = "gateway" /\ reader.pc = "decide" /\ reader.h.id # reader.lastId
  BY ReaderFacts DEF GatewayPart, WriterInv, ReaderOnly, Newest, Typed, GwTake, IsNew
<1>2. reader' = [reader EXCEPT !.pc = "copy", !.todo = Halves]
  BY DEF GwTake
<1>3. /\ reader' \in ReaderType /\ reader'.kind = "gateway" /\ reader'.pc = "copy"
      /\ reader'.todo = Halves /\ reader'.h = reader.h /\ reader'.copy = reader.copy
      /\ reader'.lastId = reader.lastId
  BY <1>1, <1>2, KindsAre DEF ReaderType
<1>4. WriterInv' /\ SentInv'
  BY <1>1, <1>3, ReaderSteps DEF SentInv, Whole, Newest
<1>5. capture.since < Newest
  BY <1>1, ReaderFacts DEF GwTake, GatewayInv
<1>6. HeaderInv'
  BY <1>1, <1>3, <1>5 DEF GatewayInv, HeaderInv, HeaderOf
<1>7. \A half \in Halves : ~Read(half)'
  BY <1>3 DEF Read
<1>8. GatewayInv'
  BY <1>1, <1>3, <1>5, <1>6, <1>7 DEF GatewayInv
<1> QED BY <1>3, <1>4, <1>8 DEF GatewayPart

LEMMA GwCopyKeeps ==
  ASSUME GatewayPart, NEW half \in Halves, GwCopy(half)
  PROVE  GatewayPart'
<1> DEFINE x == mem[half]
           d == [reader.copy EXCEPT ![half] = x]
           rest == reader.todo \ {half}
<1>1. /\ WriterInv /\ Typed /\ SentInv /\ GatewayInv /\ Newest \in Nat /\ Newest' = Newest
      /\ UNCHANGED <<mem, camera, capture, pubs, sent>> /\ ReaderOnly
      /\ sent \in FrameType /\ reader \in ReaderType /\ mem \in MemType /\ reader.copy \in CopyType
      /\ reader.kind = "gateway" /\ reader.pc = "copy"
  BY ReaderFacts DEF GatewayPart, WriterInv, ReaderOnly, Newest, Typed, GwCopy, ReaderType
<1>2. reader' = [reader EXCEPT !.copy = d, !.todo = rest]
  BY <1>1 DEF GwCopy, ReaderType
<1>3. x \in Nat
  BY <1>1, HalvesAre
<1> HIDE DEF x
<1>4. /\ d \in CopyType /\ d[half] = x /\ d.timing = reader.copy.timing
      /\ \A other \in Halves : other # half => d[other] = reader.copy[other]
  BY <1>1, <1>3, HalfCopied
<1> HIDE DEF d
<1>5. /\ reader' \in ReaderType /\ reader'.kind = "gateway" /\ reader'.pc = "copy"
      /\ reader'.todo = rest /\ reader'.h = reader.h /\ reader'.copy = d
      /\ reader'.lastId = reader.lastId
  BY <1>1, <1>2, <1>4, KindsAre DEF ReaderType
<1>6. WriterInv' /\ SentInv'
  BY <1>1, <1>5, ReaderSteps DEF SentInv, Whole, Newest
<1>7. capture.since < Newest /\ HeaderInv
  BY <1>1 DEF GatewayInv
<1>8. HeaderInv'
  BY <1>1, <1>5, <1>7 DEF HeaderInv, HeaderOf
<1>9. mem.seq = reader.h.seq =>
         \A other \in Halves : Read(other)' => d[other] = pubs[Newest].picture
  <2>1. mem.seq = reader.h.seq => x = pubs[Newest].picture
    BY <1>1, <1>7, HalfRead DEF HeaderInv, WriterInv, SlotInv, x
  <2>2. \A other : Read(other)' <=> Read(other) \/ other = half
    BY <1>5 DEF Read
  <2> QED BY <1>1, <1>4, <2>1, <2>2 DEF GatewayInv
<1>10. GatewayInv'
  BY <1>1, <1>4, <1>5, <1>7, <1>8, <1>9 DEF GatewayInv
<1> QED BY <1>5, <1>6, <1>10 DEF GatewayPart

\* A newer publication is of a newer picture.
Forward == sent' # sent => sent'.h.pub > sent.h.pub /\ sent'.copy.half1 > sent.copy.half1

LEMMA NewerPicture ==
  ASSUME Typed, PubsInv, SentInv, NEW n \in 1 .. Newest, sent.h.pub < n
  PROVE  sent.copy.half1 < pubs[n].picture
<1>1. CASE sent = NoFrame
  BY <1>1, Zeros DEF PubsInv
<1>2. CASE Whole(sent)
  BY <1>2 DEF Whole, PubsInv, Newest
<1> QED BY <1>1, <1>2 DEF SentInv

LEMMA GwReleaseKeeps ==
  ASSUME GatewayPart, GwRelease
  PROVE  GatewayPart' /\ Forward
<1>1. /\ WriterInv /\ Typed /\ SentInv /\ PubsInv /\ GatewayInv /\ Newest \in Nat /\ Newest' = Newest
      /\ UNCHANGED <<mem, camera, capture, pubs>> /\ ReaderOnly
      /\ sent \in FrameType /\ reader \in ReaderType /\ mem.seq \in Nat
      /\ reader.kind = "gateway" /\ reader.pc = "copy" /\ reader.todo = {}
  BY ReaderFacts DEF GatewayPart, WriterInv, ReaderOnly, Newest, Typed, GwRelease
<1>2. CASE mem.seq # reader.h.seq
  <2>1. reader' = Top(reader) /\ sent' = sent
    BY <1>2 DEF GwRelease
  <2> QED BY <1>1, <2>1, TopFacts, GatewayAtTop DEF Forward
<1>3. CASE mem.seq = reader.h.seq
  <2> DEFINE t == Top(reader)
             i == reader.h.id
             n == sent.n + 1
  <2>1. /\ sent' = [h |-> reader.h, copy |-> reader.copy, n |-> n]
        /\ reader' = [t EXCEPT !.lastId = i]
    BY <1>3 DEF GwRelease
  <2>2. /\ t \in ReaderType /\ t.kind = "gateway" /\ t.pc = "top" /\ t.h = ZeroHeader
        /\ t.copy = NoCopy
    BY <1>1, TopFacts
  <2>3. i \in Nat /\ n \in Nat /\ reader.h \in HeaderType /\ reader.copy \in CopyType
    BY <1>1, ReaderFacts DEF ReaderType
  <2> HIDE DEF t, n
  <2>4. /\ reader' \in ReaderType /\ reader'.kind = "gateway" /\ reader'.pc = "top"
        /\ reader'.h = ZeroHeader /\ reader'.copy = NoCopy /\ reader'.lastId = i
    BY <2>1, <2>2, <2>3 DEF ReaderType
  <2>5. sent' \in FrameType /\ sent'.h = reader.h /\ sent'.copy = reader.copy
    BY <2>1, <2>3 DEF FrameType
  <2>6. WriterInv'
    BY <1>1, <2>4, <2>5, ReaderSteps
  <2>7. /\ capture.since < Newest /\ HeaderInv /\ reader.h.id # reader.lastId
        /\ \A half \in Halves : reader.copy[half] = pubs[Newest].picture
        /\ reader.copy.timing = 0
        /\ sent.h.pub = Newest => reader.lastId = pubs[Newest].id
    BY <1>1, <1>3 DEF GatewayInv, Read
  <2>8. /\ reader.h.pub = Newest /\ Newest \in 1 .. Newest /\ reader.h.meta = Newest
        /\ reader.h.id = pubs[Newest].id
    BY <1>3, <2>7 DEF HeaderInv, HeaderOf
  <2>9. reader.copy.half1 = pubs[Newest].picture /\ reader.copy.half2 = pubs[Newest].picture
    BY <2>7 DEF Halves
  <2>10. SentInv'
    <3>1. Whole(sent')
      BY <2>5, <2>7, <2>8, <2>9 DEF Whole, Newest
    <3>2. Newest <= Newest
      BY <1>1
    <3> QED BY <1>1, <2>5, <2>8, <3>1, <3>2 DEF SentInv, Whole
  <2>11. GatewayInv'
    BY <1>1, <2>4, <2>5, <2>8, Zeros DEF GatewayInv
  <2>12. sent.h.pub < Newest
    BY <1>1, <2>7, <2>8, ReaderFacts DEF SentInv
  <2>13. sent.copy.half1 < pubs[Newest].picture
    BY <1>1, <2>8, <2>12, NewerPicture
  <2> QED BY <2>4, <2>5, <2>6, <2>8, <2>9, <2>10, <2>11, <2>12, <2>13 DEF GatewayPart, Forward
<1> QED BY <1>2, <1>3

LEMMA GatewayKeeps ==
  ASSUME GatewayPart, Gateway
  PROVE  GatewayPart' /\ Forward
<1>1. sent' = sent => Forward
  BY DEF Forward
<1>2. CASE GwSeq1
  BY <1>1, <1>2, GwSeq1Keeps DEF GwSeq1
<1>3. CASE \E chunk \in Chunks : GwSnap(chunk)
  BY <1>1, <1>3, GwSnapKeeps DEF GwSnap
<1>4. CASE GwSeq2
  BY <1>1, <1>4, GwSeq2Keeps DEF GwSeq2
<1>5. CASE GwSkip
  BY <1>1, <1>5, GwSkipKeeps DEF GwSkip
<1>6. CASE GwInvalid
  BY <1>1, <1>6, GwInvalidKeeps DEF GwInvalid
<1>7. CASE GwTake
  BY <1>1, <1>7, GwTakeKeeps DEF GwTake
<1>8. CASE \E half \in Halves : GwCopy(half)
  BY <1>1, <1>8, GwCopyKeeps DEF GwCopy
<1>9. CASE GwRelease
  BY <1>9, GwReleaseKeeps
<1> QED BY <1>2, <1>3, <1>4, <1>5, <1>6, <1>7, <1>8, <1>9 DEF Gateway

(***************************************************************************)
(* The Node server's steps.                                                *)
(***************************************************************************)
NodePart == WriterInv /\ SentInv /\ reader.kind = "node" /\ NodeInv

\* What the header holds was there before the stores under way.
LEMMA Settled ==
  ASSUME WriterInv
  PROVE  /\ MetaSettled(mem.meta) /\ PubSettled(mem.pub) /\ MetaSettled(0) /\ PubSettled(0)
<1>1. Newest \in Nat
  BY ReaderFacts DEF WriterInv
<1>2. capture.pc = "write" => Newest > 0
  BY CaptureWrites
<1>3. /\ mem.meta <= Newest /\ mem.pub <= Newest
      /\ capture.pc = "write" /\ ~Stored("meta") => mem.meta < Newest
      /\ capture.pc = "write" /\ ~Stored("pub") => mem.pub < Newest
  BY DEF WriterInv, SlotInv
<1> QED BY <1>1, <1>2, <1>3 DEF MetaSettled, PubSettled

LEMMA NodeFacts ==
  ASSUME NodePart
  PROVE  /\ WriterInv /\ Typed /\ SentInv /\ NodeInv /\ reader.kind = "node"
         /\ Newest \in Nat /\ sent \in FrameType /\ reader \in ReaderType /\ mem \in MemType
         /\ reader.h \in HeaderType /\ reader.copy \in CopyType /\ reader.again \in HeaderType
         /\ mem.seq \in Nat /\ reader.h.seq \in Nat /\ reader.h.pub \in Nat
         /\ reader.todo \subseteq Chunks \union Halves
BY ReaderFacts DEF NodePart, WriterInv, Typed, ReaderType, ReaderTodo

\* A step of the reader alone that releases nothing.
LEMMA NodeOnly ==
  ASSUME NodePart, ReaderOnly, sent' = sent, reader' \in ReaderType
  PROVE  /\ WriterInv' /\ SentInv' /\ Newest' = Newest
         /\ mem' = mem /\ capture' = capture /\ pubs' = pubs
         /\ \A x : MetaSettled(x)' = MetaSettled(x) /\ PubSettled(x)' = PubSettled(x)
<1>1. UNCHANGED <<mem, camera, capture, pubs>> /\ Newest' = Newest
  BY DEF ReaderOnly, Newest
<1>2. WriterInv'
  BY NodeFacts, ReaderSteps
<1> QED BY <1>1, <1>2, NodeFacts DEF SentInv, Whole, Newest, MetaSettled, PubSettled, Stored

LEMMA NodeAtTop ==
  ASSUME NodePart, ReaderOnly, sent' = sent, reader' \in ReaderType, reader'.kind = "node",
         reader'.pc = "top", reader'.h = ZeroHeader, reader'.copy = NoCopy,
         reader'.after = reader.after
  PROVE  NodePart'
<1>1. MetaSettled(reader.h.meta)' /\ PubSettled(reader.h.pub)'
  <2>1. Newest' = Newest /\ capture' = capture /\ WriterInv
    BY NodeOnly, NodeFacts
  <2> QED BY <2>1, Settled, Zeros DEF MetaSettled, PubSettled, Stored
<1>2. reader'.after = sent'.h.pub
  BY NodeFacts DEF NodeInv
<1>3. NodeInv'
  BY <1>1, <1>2, Zeros DEF NodeInv, StandsFor, StateRead, SecondState, SecondStamp
<1> QED BY <1>3, NodeOnly DEF NodePart

LEMMA NodeSettled ==
  ASSUME NodePart, ReaderOnly, sent' = sent, reader' \in ReaderType,
         reader'.h.meta = mem.meta \/ reader'.h.meta = reader.h.meta,
         reader'.h.pub = mem.pub \/ reader'.h.pub = reader.h.pub,
         reader'.after = reader.after
  PROVE  MetaSettled(reader.h.meta)' /\ PubSettled(reader.h.pub)' /\ reader'.after = sent'.h.pub
<1>1. Newest' = Newest /\ capture' = capture /\ WriterInv /\ NodeInv
  BY NodeOnly, NodeFacts
<1>2. /\ MetaSettled(mem.meta) /\ MetaSettled(reader.h.meta)
      /\ PubSettled(mem.pub) /\ PubSettled(reader.h.pub) /\ reader.after = sent.h.pub
  BY <1>1, Settled DEF NodeInv
<1> QED BY <1>1, <1>2 DEF MetaSettled, PubSettled, Stored

LEMMA NodeBeginKeeps ==
  ASSUME NodePart, NodeBegin
  PROVE  NodePart'
<1>1. /\ NodeInv /\ reader \in ReaderType /\ reader.kind = "node" /\ reader.pc = "top"
      /\ ReaderOnly /\ sent' = sent
  BY NodeFacts DEF NodeBegin
<1>2. reader' = [reader EXCEPT !.pc = "header", !.todo = Chunks]
  BY DEF NodeBegin
<1>3. /\ reader' \in ReaderType /\ reader'.kind = "node" /\ reader'.pc = "header"
      /\ reader'.todo = Chunks /\ reader'.h = reader.h /\ reader'.copy = reader.copy
      /\ reader'.after = reader.after
  BY <1>1, <1>2, KindsAre DEF ReaderType
<1>4. ~Read("ident")' /\ ~Read("state")' /\ ~Read("stamp")'
  BY <1>3 DEF Read, Chunks
<1>5. MetaSettled(reader.h.meta)' /\ PubSettled(reader.h.pub)' /\ reader'.after = sent'.h.pub
  BY <1>1, <1>3, NodeSettled
<1>6. NodeInv'
  BY <1>1, <1>3, <1>4, <1>5 DEF NodeInv, StandsFor, StateRead, SecondState, SecondStamp
<1> QED BY <1>1, <1>3, <1>6, NodeOnly DEF NodePart

\* The order of the chunks.
LEMMA LowestFacts ==
  ASSUME NEW todo \in SUBSET Chunks, todo # {}, NEW chunk, chunk = Lowest(todo)
  PROVE  /\ chunk \in todo
         /\ chunk = "state" => "ident" \notin todo
         /\ chunk = "stamp" => "ident" \notin todo /\ "state" \notin todo
BY DEF Lowest, Chunks

\* The sizes, the counter and the time stamp of one look at the header.
LEMMA NodeHeaderKeeps ==
  ASSUME NodePart, NEW chunk \in Chunks, NodeHeader(chunk)
  PROVE  NodePart'
<1> DEFINE g == WithChunk(reader.h, mem, chunk)
           rest == reader.todo \ {chunk}
<1>1. /\ NodeInv /\ WriterInv /\ reader \in ReaderType /\ reader.kind = "node" /\ reader.pc = "header"
      /\ ReaderOnly /\ sent' = sent /\ mem \in MemType /\ reader.h \in HeaderType
      /\ chunk = Lowest(reader.todo) /\ mem.seq \in Nat /\ reader.h.seq \in Nat
      /\ reader.copy.timing = 0
  BY NodeFacts DEF NodeHeader, NodeInv
<1>2. reader' = [reader EXCEPT !.h = g, !.todo = rest]
  BY <1>1 DEF NodeHeader, ReaderType
<1>3. /\ g \in HeaderType
      /\ \/ chunk = "ident" /\ g.id = mem.id /\ g.meta = mem.meta
         \/ chunk # "ident" /\ g.id = reader.h.id /\ g.meta = reader.h.meta
      /\ \/ chunk = "state" /\ g.seq = mem.seq /\ g.flags = mem.flags
         \/ chunk # "state" /\ g.seq = reader.h.seq /\ g.flags = reader.h.flags
      /\ (chunk = "stamp" /\ g.pub = mem.pub) \/ (chunk # "stamp" /\ g.pub = reader.h.pub)
  <2> HIDE DEF g
  <2> QED BY <1>1, ChunkRead DEF g
<1> HIDE DEF g
<1>4. /\ reader' \in ReaderType /\ reader'.kind = "node" /\ reader'.pc = "header"
      /\ reader'.todo = rest /\ reader'.h = g /\ reader'.copy = reader.copy
      /\ reader'.after = reader.after
  BY <1>1, <1>2, <1>3, KindsAre DEF ReaderType
<1>5. \A c : Read(c)' <=> Read(c) \/ c = chunk
  BY <1>4 DEF Read
<1>6. /\ Read("stamp") => Read("state")
      /\ Read("state") => Read("ident")
  BY <1>1 DEF NodeInv
<1>7. /\ ~Read(chunk) /\ rest \subseteq Chunks
      /\ chunk = "state" => Read("ident")
      /\ chunk = "stamp" => Read("ident") /\ Read("state")
  <2>1. reader.todo \subseteq Chunks /\ reader.todo # {}
    BY <1>1 DEF NodeInv, NodeHeader
  <2> QED BY <1>1, <2>1, LowestFacts DEF Read
<1>8. (Read("stamp") => Read("state"))' /\ (Read("state") => Read("ident"))'
  BY <1>5, <1>6, <1>7
<1>9. MetaSettled(reader.h.meta)' /\ PubSettled(reader.h.pub)' /\ reader'.after = sent'.h.pub
  BY <1>1, <1>3, <1>4, NodeSettled
<1>10. /\ mem.meta # 0 => mem.seq # 0
       /\ Even(mem.seq) /\ mem.meta # 0 => mem.pub = Newest
  BY <1>1 DEF WriterInv, SlotInv, Complete
<1>11. StandsFor'
  <2>1. /\ StateRead' <=> Read("state") \/ chunk = "state"
        /\ StampRead' <=> Read("stamp") \/ chunk = "stamp"
        /\ StateRead <=> Read("state")
        /\ StampRead <=> Read("stamp")
        /\ \A half : ~Copied(half)'
        /\ mem' = mem /\ Newest' = Newest /\ pubs' = pubs
    BY <1>1, <1>4, <1>5, NodeOnly DEF StateRead, StampRead, Copied
  <2>2. CASE chunk = "ident"
    BY <1>6, <1>7, <2>1, <2>2 DEF StandsFor
  <2>3. CASE chunk = "state"
    <3>1. ~Read("stamp") /\ mem.seq <= mem.seq
      BY <1>1, <1>6, <1>7, <2>3
    <3> QED BY <1>1, <1>3, <1>4, <1>10, <2>1, <2>3, <3>1 DEF StandsFor, MetaKept
  <2>4. CASE chunk = "stamp"
    BY <1>1, <1>3, <1>4, <1>7, <1>10, <2>1, <2>4 DEF NodeInv, StandsFor, MetaKept
  <2> QED BY <2>2, <2>3, <2>4 DEF Chunks
<1>12. NodeInv'
  BY <1>1, <1>4, <1>7, <1>8, <1>9, <1>11 DEF NodeInv, SecondState, SecondStamp
<1> QED BY <1>1, <1>4, <1>12, NodeOnly DEF NodePart

LEMMA NodeAdmitKeeps ==
  ASSUME NodePart, NodeAdmit
  PROVE  NodePart'
<1>1. /\ NodeInv /\ reader \in ReaderType /\ reader.kind = "node" /\ reader.pc = "header"
      /\ reader.todo = {} /\ ReaderOnly /\ sent' = sent /\ reader.copy.timing = 0
      /\ reader.h.seq \in Nat /\ reader.h.pub \in Nat /\ reader.after \in Nat
  BY NodeFacts, ReaderFacts DEF NodeAdmit, NodeInv
<1>2. CASE reader.h.seq % 2 = 1 \/ reader.h.meta = 0 \/ reader.h.pub <= reader.after
  <2>1. reader' = Top(reader)
    BY <1>2 DEF NodeAdmit
  <2> QED BY <1>1, <2>1, TopFacts, NodeAtTop
<1>3. CASE ~(reader.h.seq % 2 = 1 \/ reader.h.meta = 0 \/ reader.h.pub <= reader.after)
  <2>1. reader' = [reader EXCEPT !.pc = "copy", !.todo = Halves]
    BY <1>3 DEF NodeAdmit
  <2>2. /\ reader' \in ReaderType /\ reader'.kind = "node" /\ reader'.pc = "copy"
        /\ reader'.todo = Halves /\ reader'.h = reader.h /\ reader'.copy = reader.copy
        /\ reader'.after = reader.after
    BY <1>1, <2>1, KindsAre DEF ReaderType
  <2>3. Even(reader.h.seq) /\ reader.h.meta # 0 /\ reader.after < reader.h.pub
    BY <1>1, <1>3 DEF Even
  <2>4. MetaSettled(reader.h.meta)' /\ PubSettled(reader.h.pub)' /\ reader'.after = sent'.h.pub
    BY <1>1, <2>2, NodeSettled
  <2>5. StandsFor'
    <3>1. StateRead /\ StampRead /\ \A half \in Halves : ~Copied(half)'
      BY <1>1, <2>2 DEF StateRead, StampRead, Copied, Read
    <3>2. mem' = mem /\ Newest' = Newest /\ pubs' = pubs
      BY <1>1, <2>2, NodeOnly
    <3> QED BY <1>1, <2>2, <3>1, <3>2 DEF NodeInv, StandsFor, MetaKept
  <2>6. NodeInv'
    BY <1>1, <2>2, <2>3, <2>4, <2>5 DEF NodeInv, SecondState, SecondStamp
  <2> QED BY <1>1, <2>2, <2>6, NodeOnly DEF NodePart
<1> QED BY <1>2, <1>3

LEMMA NodeCopyKeeps ==
  ASSUME NodePart, NEW half \in Halves, NodeCopy(half)
  PROVE  NodePart'
<1> DEFINE x == mem[half]
           d == [reader.copy EXCEPT ![half] = x]
           rest == reader.todo \ {half}
<1>1. /\ NodeInv /\ WriterInv /\ reader \in ReaderType /\ reader.kind = "node" /\ reader.pc = "copy"
      /\ ReaderOnly /\ sent' = sent /\ reader.copy.timing = 0 /\ reader.copy \in CopyType
      /\ mem \in MemType
  BY NodeFacts DEF NodeCopy, NodeInv
<1>2. reader' = [reader EXCEPT !.copy = d, !.todo = rest]
  BY <1>1 DEF NodeCopy, ReaderType
<1>3. x \in Nat
  BY <1>1, HalvesAre
<1> HIDE DEF x
<1>4. /\ d \in CopyType /\ d[half] = x /\ d.timing = reader.copy.timing
      /\ \A other \in Halves : other # half => d[other] = reader.copy[other]
  BY <1>1, <1>3, HalfCopied
<1> HIDE DEF d
<1>5. /\ reader' \in ReaderType /\ reader'.kind = "node" /\ reader'.pc = "copy"
      /\ reader'.todo = rest /\ reader'.h = reader.h /\ reader'.copy = d
      /\ reader'.after = reader.after
  BY <1>1, <1>2, <1>4, KindsAre DEF ReaderType
<1>6. MetaSettled(reader.h.meta)' /\ PubSettled(reader.h.pub)' /\ reader'.after = sent'.h.pub
  BY <1>1, <1>5, NodeSettled
<1>7. StandsFor'
  <2>1. /\ StateRead /\ StampRead
        /\ \A other \in Halves : Copied(other)' <=> Copied(other) \/ other = half
    BY <1>1, <1>5 DEF StateRead, StampRead, Copied, Read
  <2>2. mem' = mem /\ Newest' = Newest /\ pubs' = pubs
    BY <1>1, <1>5, NodeOnly
  <2>3. Even(mem.seq) /\ mem.meta # 0 => x = pubs[Newest].picture
    BY <1>1, HalfRead DEF WriterInv, SlotInv, x
  <2> QED BY <1>1, <1>4, <1>5, <2>1, <2>2, <2>3 DEF NodeInv, StandsFor, MetaKept
<1>8. NodeInv'
  BY <1>1, <1>4, <1>5, <1>6, <1>7 DEF NodeInv, SecondState, SecondStamp
<1> QED BY <1>1, <1>5, <1>8, NodeOnly DEF NodePart

LEMMA NodeTimingKeeps ==
  ASSUME NodePart, NodeTiming
  PROVE  NodePart'
<1> DEFINE t == IF reader.h.flags = 2 THEN mem.timing ELSE 0
           d == [reader.copy EXCEPT !.timing = t]
<1>1. /\ NodeInv /\ WriterInv /\ reader \in ReaderType /\ reader.kind = "node" /\ reader.pc = "copy"
      /\ reader.todo = {} /\ ReaderOnly /\ sent' = sent /\ reader.copy \in CopyType
      /\ mem \in MemType
  BY NodeFacts DEF NodeTiming, NodeInv
<1>2. CASE reader.h.flags = 2 /\ mem.timing # reader.h.pub
  <2>1. reader' = Top(reader)
    BY <1>2 DEF NodeTiming
  <2> QED BY <1>1, <2>1, TopFacts, NodeAtTop
<1>3. CASE ~(reader.h.flags = 2 /\ mem.timing # reader.h.pub)
  <2>1. reader' = [reader EXCEPT !.pc = "verify", !.todo = Chunks, !.copy = d]
    BY <1>1, <1>3 DEF NodeTiming, ReaderType
  <2>2. t \in Nat /\ t \in {0, reader.h.pub}
    BY <1>1, <1>3 DEF MemType
  <2> HIDE DEF t
  <2>3. d \in CopyType /\ d.timing = t /\ \A half \in Halves : d[half] = reader.copy[half]
    BY <1>1, <2>2 DEF CopyType, Halves
  <2> HIDE DEF d
  <2>4. /\ reader' \in ReaderType /\ reader'.kind = "node" /\ reader'.pc = "verify"
        /\ reader'.todo = Chunks /\ reader'.h = reader.h /\ reader'.copy = d
        /\ reader'.after = reader.after
    BY <1>1, <2>1, <2>3, KindsAre DEF ReaderType
  <2>5. MetaSettled(reader.h.meta)' /\ PubSettled(reader.h.pub)' /\ reader'.after = sent'.h.pub
    BY <1>1, <2>4, NodeSettled
  <2>6. ~Read("ident")' /\ ~Read("state")' /\ ~Read("stamp")'
    BY <2>4 DEF Read, Chunks
  <2>7. StandsFor'
    <3>1. StateRead /\ StampRead /\ \A half \in Halves : Copied(half)
      BY <1>1 DEF StateRead, StampRead, Copied, Read
    <3>2. mem' = mem /\ Newest' = Newest /\ pubs' = pubs
      BY <1>1, <2>4, NodeOnly
    <3> QED BY <1>1, <2>2, <2>3, <2>4, <3>1, <3>2 DEF NodeInv, StandsFor, MetaKept
  <2>8. NodeInv'
    BY <1>1, <2>4, <2>5, <2>6, <2>7 DEF NodeInv, SecondState, SecondStamp
  <2> QED BY <1>1, <2>4, <2>8, NodeOnly DEF NodePart
<1> QED BY <1>2, <1>3

\* The same header again, in the same order: the sizes name the publication the
\* counter stood for, the counter and the time stamp confirm it.
LEMMA NodeVerifyKeeps ==
  ASSUME NodePart, NEW chunk \in Chunks, NodeVerify(chunk)
  PROVE  NodePart'
<1> DEFINE g == WithChunk(reader.again, mem, chunk)
           rest == reader.todo \ {chunk}
<1>1. /\ NodeInv /\ WriterInv /\ reader \in ReaderType /\ reader.kind = "node" /\ reader.pc = "verify"
      /\ ReaderOnly /\ sent' = sent /\ mem \in MemType /\ reader.again \in HeaderType
      /\ chunk = Lowest(reader.todo) /\ mem.seq \in Nat /\ reader.h.seq \in Nat
      /\ Newest \in Nat /\ reader.todo # {}
  BY NodeFacts DEF NodeVerify
<1>2. reader' = [reader EXCEPT !.again = g, !.todo = rest]
  BY <1>1 DEF NodeVerify, ReaderType
<1>3. /\ g \in HeaderType
      /\ \/ chunk = "ident" /\ g.id = mem.id /\ g.meta = mem.meta
         \/ chunk # "ident" /\ g.id = reader.again.id /\ g.meta = reader.again.meta
      /\ \/ chunk = "state" /\ g.seq = mem.seq /\ g.flags = mem.flags
         \/ chunk # "state" /\ g.seq = reader.again.seq /\ g.flags = reader.again.flags
      /\ (chunk = "stamp" /\ g.pub = mem.pub) \/ (chunk # "stamp" /\ g.pub = reader.again.pub)
  <2> HIDE DEF g
  <2> QED BY <1>1, ChunkRead DEF g
<1> HIDE DEF g
<1>4. /\ reader' \in ReaderType /\ reader'.kind = "node" /\ reader'.pc = "verify"
      /\ reader'.todo = rest /\ reader'.h = reader.h /\ reader'.copy = reader.copy
      /\ reader'.again = g /\ reader'.after = reader.after
  BY <1>1, <1>2, <1>3, KindsAre DEF ReaderType
<1>5. \A c : Read(c)' <=> Read(c) \/ c = chunk
  BY <1>4 DEF Read
<1>6. /\ Read("stamp") => Read("state")
      /\ Read("state") => Read("ident")
      /\ reader.h.meta # 0 /\ Even(reader.h.seq)
      /\ StandsFor /\ SecondState /\ SecondStamp
  BY <1>1 DEF NodeInv
<1>7. /\ ~Read(chunk) /\ rest \subseteq Chunks
      /\ chunk = "state" => Read("ident")
      /\ chunk = "stamp" => Read("ident") /\ Read("state")
  <2>1. reader.todo \subseteq Chunks
    BY <1>1 DEF NodeInv
  <2> QED BY <1>1, <2>1, LowestFacts DEF Read
<1>8. (Read("stamp") => Read("state"))' /\ (Read("state") => Read("ident"))'
  BY <1>5, <1>6, <1>7
<1>9. MetaSettled(reader.h.meta)' /\ PubSettled(reader.h.pub)' /\ reader'.after = sent'.h.pub
  BY <1>1, <1>3, <1>4, NodeSettled
<1>10. mem' = mem /\ Newest' = Newest /\ pubs' = pubs
  BY <1>1, <1>4, NodeOnly
<1>11. StandsFor'
  <2>1. /\ StateRead /\ StampRead /\ \A half \in Halves : Copied(half)
    BY <1>1 DEF StateRead, StampRead, Copied
  <2> QED BY <1>4, <1>6, <1>10, <2>1 DEF StandsFor, MetaKept
<1>12. chunk # "ident" => g.meta = reader.again.meta /\ g.id = reader.again.id /\ Good(reader)' = Good(reader)
  BY <1>3, <1>4, <1>10 DEF Good, Newest
<1>13. SecondState'
  <2>1. SUFFICES ASSUME Read("ident")', ~Read("state")', SizesAgree', PubKept
                 PROVE  /\ reader.h.seq # 0 /\ (reader.h.seq <= mem.seq \/ mem.seq = 0)
                        /\ mem.seq = reader.h.seq => Good(reader)'
    BY <1>4, <1>10 DEF SecondState, PubKept
  <2>2. chunk = "ident"
    BY <1>5, <1>7, <2>1 DEF Chunks
  <2>3. MetaKept /\ g.meta = mem.meta /\ g.id = mem.id /\ mem.meta = reader.h.meta
    BY <1>3, <1>4, <1>6, <2>1, <2>2 DEF MetaKept, SizesAgree
  <2>4. /\ StateRead /\ StampRead /\ \A half \in Halves : Copied(half)
    BY <1>1 DEF StateRead, StampRead, Copied
  <2>5. reader.h.seq # 0 /\ reader.h.seq <= mem.seq
    BY <1>6, <2>3, <2>4 DEF StandsFor
  <2>6. ASSUME mem.seq = reader.h.seq PROVE Good(reader)'
    <3>1. Complete
      BY <1>1, <1>6, <2>3, <2>6 DEF WriterInv, SlotInv
    <3>2. /\ reader.h.pub = Newest /\ reader.copy.timing \in {0, Newest}
          /\ \A half \in Halves : reader.copy[half] = pubs[Newest].picture
      BY <1>6, <2>3, <2>4, <2>6 DEF StandsFor
    <3>3. mem.meta = Newest /\ mem.id = pubs[Newest].id
      BY <3>1 DEF Complete
    <3>4. Newest \in 1 .. Newest
      BY <1>1, <1>6, <2>3, <3>3
    <3> QED BY <1>4, <1>10, <2>3, <3>2, <3>3, <3>4 DEF Good, Newest
  <2> QED BY <2>5, <2>6
<1>14. SecondStamp'
  <2>1. SUFFICES ASSUME Read("state")', SizesAgree', g.seq = reader.h.seq,
                        IF Read("stamp")' THEN g.pub = reader.h.pub ELSE PubKept
                 PROVE  Good(reader)'
    BY <1>4, <1>10 DEF SecondStamp, PubKept
  <2>2. CASE chunk = "state"
    <3>1. /\ Read("ident") /\ ~Read("state") /\ ~Read("stamp") /\ SizesAgree /\ PubKept
          /\ mem.seq = reader.h.seq
      BY <1>3, <1>4, <1>5, <1>6, <1>7, <2>1, <2>2 DEF SizesAgree
    <3> QED BY <1>1, <1>6, <1>12, <2>2, <3>1 DEF SecondState
  <2>3. CASE chunk = "stamp"
    <3>1. /\ Read("state") /\ ~Read("stamp") /\ SizesAgree /\ PubKept
          /\ reader.again.seq = reader.h.seq
      BY <1>3, <1>4, <1>5, <1>6, <1>7, <2>1, <2>3 DEF SizesAgree, PubKept
    <3> QED BY <1>1, <1>6, <1>12, <2>3, <3>1 DEF SecondStamp
  <2>4. CASE chunk = "ident"
    BY <1>5, <1>6, <1>7, <2>1, <2>4
  <2> QED BY <2>2, <2>3, <2>4 DEF Chunks
<1>15. NodeInv'
  BY <1>1, <1>4, <1>6, <1>7, <1>8, <1>9, <1>11, <1>13, <1>14, NodeFacts DEF NodeInv
<1> QED BY <1>1, <1>4, <1>15, NodeOnly DEF NodePart

LEMMA NodeReturnKeeps ==
  ASSUME NodePart, NodeReturn
  PROVE  NodePart' /\ Forward
<1>1. /\ NodeInv /\ WriterInv /\ Typed /\ PubsInv /\ SentInv /\ reader \in ReaderType
      /\ reader.kind = "node" /\ reader.pc = "verify"
      /\ reader.todo = {} /\ ReaderOnly /\ Newest \in Nat /\ sent \in FrameType
      /\ Newest' = Newest /\ UNCHANGED <<mem, camera, capture, pubs>>
  BY NodeFacts DEF NodeReturn, WriterInv, ReaderOnly, Newest
<1>2. CASE ~SameHeader(reader)
  <2>1. reader' = Top(reader) /\ sent' = sent
    BY <1>2 DEF NodeReturn
  <2> QED BY <1>1, <2>1, TopFacts, NodeAtTop DEF Forward
<1>3. CASE SameHeader(reader)
  <2> DEFINE t == Top(reader)
             p == reader.h.pub
             n == sent.n + 1
  <2>1. /\ sent' = [h |-> reader.h, copy |-> reader.copy, n |-> n]
        /\ reader' = [t EXCEPT !.after = p]
    BY <1>3 DEF NodeReturn
  <2>2. /\ t \in ReaderType /\ t.kind = "node" /\ t.pc = "top" /\ t.h = ZeroHeader
        /\ t.copy = NoCopy
    BY <1>1, TopFacts
  <2>3. p \in Nat /\ n \in Nat /\ reader.h \in HeaderType /\ reader.copy \in CopyType
    BY <1>1, ReaderFacts DEF ReaderType
  <2> HIDE DEF t, n
  <2>4. /\ reader' \in ReaderType /\ reader'.kind = "node" /\ reader'.pc = "top"
        /\ reader'.h = ZeroHeader /\ reader'.copy = NoCopy /\ reader'.after = p
    BY <2>1, <2>2, <2>3 DEF ReaderType
  <2>5. sent' \in FrameType /\ sent'.h = reader.h /\ sent'.copy = reader.copy
    BY <2>1, <2>3 DEF FrameType
  <2>6. WriterInv'
    BY <1>1, <2>4, <2>5, ReaderSteps
  <2>7. Good(reader) /\ reader.again = reader.h
    <3>1. reader.again = reader.h
      BY <1>3 DEF SameHeader
    <3>2. Read("state") /\ Read("stamp") /\ SizesAgree /\ SecondStamp
      BY <1>1, <3>1 DEF Read, SizesAgree, NodeInv
    <3> QED BY <1>1, <3>1, <3>2 DEF SecondStamp
  <2>8. /\ reader.h.pub \in 1 .. Newest /\ reader.h.meta = reader.h.pub
        /\ reader.h.id = pubs[reader.h.pub].id
        /\ reader.copy.half1 = pubs[reader.h.pub].picture
        /\ reader.copy.half2 = pubs[reader.h.pub].picture
        /\ reader.copy.timing \in {0, reader.h.pub}
    BY <2>7 DEF Good, Halves
  <2>9. SentInv'
    <3>1. Whole(sent')
      BY <2>5, <2>8 DEF Whole, Newest
    <3> QED BY <1>1, <2>5, <2>8, <3>1 DEF SentInv, Whole
  <2>10. NodeInv'
    <3>1. MetaSettled(reader.h.meta)' /\ PubSettled(reader.h.pub)'
      BY <1>1, <2>4, Settled, Zeros DEF MetaSettled, PubSettled, Stored
    <3> QED BY <2>4, <2>5, <3>1, Zeros DEF NodeInv, StandsFor, StateRead, SecondState, SecondStamp
  <2>11. sent.h.pub < reader.h.pub
    BY <1>1 DEF NodeInv
  <2>12. sent.copy.half1 < pubs[p].picture
    <3>1. p \in 1 .. Newest /\ sent.h.pub < p
      BY <2>8, <2>11
    <3> HIDE DEF p
    <3> QED BY <1>1, <3>1, NewerPicture
  <2>13. Forward
    <3>1. sent'.h.pub > sent.h.pub
      BY <1>1, <2>3, <2>5, <2>11, ReaderFacts
    <3>2. sent'.copy.half1 > sent.copy.half1
      BY <2>5, <2>8, <2>12
    <3> QED BY <3>1, <3>2 DEF Forward
  <2> QED BY <2>4, <2>6, <2>9, <2>10, <2>13 DEF NodePart
<1> QED BY <1>2, <1>3

LEMMA NodeKeeps ==
  ASSUME NodePart, Node
  PROVE  NodePart' /\ Forward
<1>1. sent' = sent => Forward
  BY DEF Forward
<1>2. CASE NodeBegin
  BY <1>1, <1>2, NodeBeginKeeps DEF NodeBegin
<1>3. CASE \E chunk \in Chunks : NodeHeader(chunk)
  BY <1>1, <1>3, NodeHeaderKeeps DEF NodeHeader
<1>4. CASE NodeAdmit
  BY <1>1, <1>4, NodeAdmitKeeps DEF NodeAdmit
<1>5. CASE \E half \in Halves : NodeCopy(half)
  BY <1>1, <1>5, NodeCopyKeeps DEF NodeCopy
<1>6. CASE NodeTiming
  BY <1>1, <1>6, NodeTimingKeeps DEF NodeTiming
<1>7. CASE \E chunk \in Chunks : NodeVerify(chunk)
  BY <1>1, <1>7, NodeVerifyKeeps DEF NodeVerify
<1>8. CASE NodeReturn
  BY <1>8, NodeReturnKeeps
<1> QED BY <1>2, <1>3, <1>4, <1>5, <1>6, <1>7, <1>8 DEF Node

(***************************************************************************)
(* The theorems.                                                           *)
(***************************************************************************)
LEMMA InitWriter ==
  ASSUME Init
  PROVE  WriterInv
<1> DEFINE all == [b \in 1 .. Buffers |-> b]
           none == [b \in 1 .. Buffers |-> 0]
<1>1. /\ capture = [pc |-> "idle", todo |-> {}, buffer |-> 0, left |-> 0, frameId |-> 0,
                    writeSeq |-> 0, boot |-> 1, since |-> 0]
      /\ mem = [id |-> 0, meta |-> 0, seq |-> 0, flags |-> 0, pub |-> 0,
                half1 |-> 0, half2 |-> 0, timing |-> 0]
      /\ pubs = <<>> /\ sent = NoFrame
  BY DEF Init
<1>2. /\ all \in Seq(1 .. Buffers) /\ Len(all) = Buffers /\ none \in [1 .. Buffers -> Nat]
      /\ \A b \in 1 .. Buffers : all[b] = b
  BY BoundsAssumption
<1> HIDE DEF all, none
<1>3. /\ camera \in CameraType /\ camera.empty = all /\ camera.full = <<>> /\ camera.pictures = 0
  <2>1. camera = [empty |-> all, full |-> <<>>, holds |-> none, pictures |-> 0]
    BY DEF Init, InitMmapBuffers, all, none
  <2> QED BY <1>2, <2>1 DEF CameraType
<1>4. capture \in CaptureType /\ capture.pc = "idle" /\ capture.buffer = 0
  <2>1. 0 \in BufferOrNone
    BY BoundsAssumption DEF BufferOrNone
  <2> QED BY <1>1, <2>1, PcsAre, TodosAre DEF CaptureType
<1>5. reader \in ReaderType
  <2>1. /\ reader.kind \in ReaderKinds
        /\ reader \in [kind : ReaderKinds, pc : {"top"}, todo : {{}}, h : {ZeroHeader},
                       again : {ZeroHeader}, copy : {NoCopy}, seq1 : {0},
                       lastId : {NoId}, after : {0}]
    BY DEF Init, ReaderKinds
  <2>2. NoId \in Nat
    BY BoundsAssumption DEF NoId
  <2> QED BY <2>1, <2>2, KindsAre, Zeros DEF ReaderType
<1>6. mem \in MemType
  BY <1>1 DEF MemType
<1>7. pubs \in Seq(PublicationType) /\ Newest = 0 /\ LastPicture = 0
  BY <1>1 DEF Newest, LastPicture
<1>8. CameraInv
  <2>1. Once(all) /\ NotIn(0, all)
    BY <1>2 DEF Once, NotIn
  <2> QED BY <1>3, <1>4, <1>7, <2>1 DEF CameraInv, InOnePlace, NewerThan, NotIn, Apart
<1>9. PubsInv /\ SlotInv
  BY <1>1, <1>7 DEF PubsInv, SlotInv, Even
<1>10. sent \in FrameType
  BY <1>1, Zeros
<1> QED BY <1>3, <1>4, <1>5, <1>6, <1>7, <1>8, <1>9, <1>10 DEF WriterInv, Typed

LEMMA InitAll ==
  ASSUME Init
  PROVE  IInv
<1>1. WriterInv /\ Newest \in Nat
  BY InitWriter, ReaderFacts DEF WriterInv
<1>2. /\ reader.pc = "top" /\ reader.h = ZeroHeader /\ reader.copy = NoCopy /\ reader.after = 0
      /\ sent = NoFrame /\ capture.since = 0 /\ Newest = 0
  BY DEF Init, Newest
<1>3. SentInv
  BY <1>2, Zeros DEF SentInv
<1>4. GatewayInv
  BY <1>2, Zeros DEF GatewayInv
<1>5. NodeInv
  BY <1>1, <1>2, Settled, Zeros DEF NodeInv, StandsFor, StateRead, SecondState, SecondStamp
<1> QED BY <1>1, <1>3, <1>4, <1>5 DEF IInv, WriterInv

LEMMA StepKeeps ==
  ASSUME IInv, [Next]_vars
  PROVE  IInv' /\ Forward
<1>1. WriterInv /\ SentInv /\ reader \in ReaderType /\ reader.kind \in ReaderKinds
  BY DEF IInv, WriterInv, Typed, ReaderType
<1>2. CASE Capture
  <2>1. WriterInv' /\ WriterStep
    BY <1>1, <1>2, CaptureKeeps
  <2>2. SentInv' /\ reader' = reader /\ sent' = sent
    BY <1>1, <2>1, SentStays DEF WriterInv, WriterStep
  <2>3. reader.kind = "gateway" => GatewayInv'
    BY <1>1, <2>1, GatewayWaits DEF IInv
  <2>4. reader.kind = "node" => NodeInv'
    BY <1>1, <2>1, NodeWaits DEF IInv
  <2> QED BY <2>1, <2>2, <2>3, <2>4 DEF IInv, WriterInv, Forward
<1>3. CASE Gateway
  <2>1. reader.kind = "gateway"
    BY <1>3 DEF Gateway, GwSeq1, GwSnap, GwSeq2, GwSkip, GwInvalid, GwTake, GwCopy, GwRelease
  <2>2. GatewayPart
    BY <1>1, <2>1 DEF IInv, GatewayPart
  <2>3. GatewayPart' /\ Forward
    BY <1>3, <2>2, GatewayKeeps
  <2> QED BY <2>3 DEF GatewayPart, IInv, WriterInv
<1>4. CASE Node
  <2>1. reader.kind = "node"
    BY <1>4 DEF Node, NodeBegin, NodeHeader, NodeAdmit, NodeCopy, NodeTiming, NodeVerify, NodeReturn
  <2>2. NodePart
    BY <1>1, <2>1 DEF IInv, NodePart
  <2>3. NodePart' /\ Forward
    BY <1>4, <2>2, NodeKeeps
  <2> QED BY <2>3 DEF NodePart, IInv, WriterInv
<1>5. CASE UNCHANGED vars
  BY <1>5 DEF vars, IInv, Typed, CameraInv, PubsInv, SlotInv, SentInv, Whole, GatewayInv, SnapInv,
     HeaderInv, HeaderOf, NodeInv, StandsFor, SecondState, SecondStamp, Newest, LastPicture,
     Complete, Stored, MetaSettled, PubSettled, Read, StateRead, StampRead, Copied, MetaKept,
     PubKept, SizesAgree, Good, Forward
<1> QED BY <1>2, <1>3, <1>4, <1>5 DEF Next

\* The slot, the camera and the reader's registers are always as described above.
THEOREM SlotInvariance == Spec => []IInv
<1>1. Init => IInv
  BY InitAll
<1>2. IInv /\ [Next]_vars => IInv'
  BY StepKeeps
<1> QED BY <1>1, <1>2, PTL DEF Spec

\* A released frame is one publication, all of it, of one picture.
THEOREM FramesWhole == Spec => []FramesAreWhole
<1>1. IInv => FramesAreWhole
  BY DEF IInv, SentInv, FramesAreWhole
<1> QED BY <1>1, SlotInvariance, PTL

\* A released frame is a newer publication, of a newer picture, than the one before.
THEOREM FramesForward == Spec => FramesMoveForward
<1>1. IInv /\ [Next]_vars =>
         [sent' # sent => sent'.h.pub > sent.h.pub /\ sent'.copy.half1 > sent.copy.half1]_vars
  BY StepKeeps DEF Forward
<1> QED BY <1>1, SlotInvariance, PTL DEF Spec, FramesMoveForward
=============================================================================
