---------------------------- MODULE RecordProofs ----------------------------
(***************************************************************************)
(* Proofs about the two records that are kept of the station: what the     *)
(* gateway's audit store claims of a command (StationLink), and what the   *)
(* observer's store tells of an alarm (Evidence).                          *)
(***************************************************************************)
EXTENDS StationLink, Evidence, FiniteSetTheorems, TLAPS

-----------------------------------------------------------------------------
(***************************************************************************)
(* The audit store.  What a record claims rests on three parties: the      *)
(* device, whose registers tell of its owner's commands; the gateway,      *)
(* which reads them for the session it commands with; and the calls in     *)
(* between, whose late blocks belong to sessions that are over.            *)
(***************************************************************************)
Answers == {"NONE", "COMPLETED", "FAILED", "REJECTED", "ACCEPTED"}
AnswerType == [seq : Nat, result : Answers]
DeviceType == [boot : Nat \ {0}, owner : Nat, highwater : Nat, active : Nat,
               ack : AnswerType, finished : AnswerType]
BlockType == [kind : Kinds \union {"NONE"}, seq : Nat, boot : Nat, session : Nat]
RecordType == [boot : Nat, session : Nat, seq : Nat, kind : Kinds,
               status : Answers \union {"SENT", "UNKNOWN"}]
GatewayType == [session : Nat \ {0}, sequence : Nat, armed : BOOLEAN, boot : Nat, good : BOOLEAN,
                failed : BOOLEAN, call : BlockType, answered : BOOLEAN,
                records : SUBSET RecordType]

\* The gateway's books: a pending motion or setting needs an armed session, and
\* nothing is pending, armed or good once the session failed.
Books(g) ==
    /\ g \in GatewayType
    /\ \A r \in g.records : IsPending(r) => ~g.failed /\ (r.kind # "ARM" => g.armed)
    /\ g.armed \/ g.good => ~g.failed
    /\ g.good => g.boot # 0

\* A call in progress is of this session; an ARM goes out alone.
Calling(g) ==
    /\ g.call # NoBlock =>
          /\ g.call.kind \in Kinds /\ g.call.session = g.session /\ g.call.boot = g.boot
          /\ g.boot # 0 /\ ~g.failed
          /\ g.call.kind = "ARM" => \A r \in g.records : IsPending(r) => r.kind = "ARM"
    /\ g.answered => g.call # NoBlock

\* Blocks on their way are of sessions that are over.
Strays(g, s) == \A b \in s : b \in BlockType /\ b.kind \in Kinds /\ b.session # 0 /\ b.session < g.session

\* The owner is no session the gateway has not used yet, and its own session
\* owns the device of the boot it knows.
OwnerKnown(d, g) == /\ d.owner <= g.session
                    /\ d.owner = g.session => d.boot = g.boot /\ ~g.failed

\* The registers tell of the owner: the end of a motion, and a command that ended.
Said(d, x) == [boot |-> d.boot, session |-> d.owner, seq |-> x.seq, result |-> x.result]
EndsSaid(d, v) ==
    /\ d.active # 0 => d.owner # 0
    /\ d.owner # 0 /\ d.finished.result # "NONE" => Said(d, d.finished) \in v
    /\ d.owner # 0 /\ d.ack.result \in {"COMPLETED", "FAILED"} => Said(d, d.ack) \in v
AckSaid(d, g, v) == d.owner = g.session /\ d.ack.result # "NONE" => Said(d, d.ack) \in v

EndsTrue(records, v) ==
    \A r \in records : r.kind = "MOVE" /\ r.status \in {"COMPLETED", "FAILED"} => Verdict(r) \in v
OwnTrue(records, v) ==
    \A r \in records :
       r.kind # "ARM" /\ r.status \in {"COMPLETED", "FAILED", "REJECTED", "ACCEPTED"} => Verdict(r) \in v

Tells(d, g, l, v) == /\ d \in DeviceType /\ OwnerKnown(d, g) /\ EndsSaid(d, v)
                     /\ ~l => AckSaid(d, g, v)
Claims(g, l, v) == EndsTrue(g.records, v) /\ (~l => OwnTrue(g.records, v))

LinkInv == /\ Books(gateway) /\ Calling(gateway) /\ Strays(gateway, stray)
           /\ Tells(dev, gateway, landed, verdicts) /\ Claims(gateway, landed, verdicts)

LEMMA NoBlockFacts == NoBlock \in BlockType /\ NoBlock.session = 0
BY DEF NoBlock, BlockType

(***************************************************************************)
(* The device.                                                             *)
(***************************************************************************)
LEMMA AnsweredFacts ==
  ASSUME NEW d \in DeviceType, NEW b \in BlockType, NEW r \in Answers
  PROVE  LET e == Answered(d, b, r) IN
         /\ e \in DeviceType /\ e.ack = [seq |-> b.seq, result |-> r]
         /\ e.boot = d.boot /\ e.owner = d.owner /\ e.active = d.active /\ e.finished = d.finished
BY DEF Answered, DeviceType, BlockType, AnswerType

LEMMA EndedFacts ==
  ASSUME NEW d \in DeviceType, NEW r \in Answers
  PROVE  LET e == Ended(d, r) IN
         /\ e \in DeviceType /\ e.active = 0
         /\ e.boot = d.boot /\ e.owner = d.owner
         /\ d.active = 0 => e = d
         /\ d.active # 0 => /\ e.finished = [seq |-> d.active, result |-> r]
                            /\ e.ack = [seq |-> d.active, result |-> r]
BY DEF Ended, DeviceType, AnswerType

\* What the execution of a block changes: it answers the block; another owner
\* comes with a block of this boot; a motion that ends is the owner's.
LEMMA ExecutedFacts ==
  ASSUME NEW d \in DeviceType, NEW b \in BlockType, b.kind \in Kinds, b.session # 0,
         NEW e \in Executed(d, b), NEW v, NEW w, EndsSaid(d, v), v \subseteq w,
         [boot |-> b.boot, session |-> b.session, seq |-> b.seq, result |-> e.ack.result] \in w,
         d.active # 0 /\ e.active = 0
            => [boot |-> d.boot, session |-> d.owner, seq |-> d.active, result |-> e.finished.result] \in w
  PROVE  /\ e \in DeviceType /\ EndsSaid(e, w) /\ e.boot = d.boot /\ e.ack.seq = b.seq
         /\ e.owner = d.owner \/ (e.owner = b.session /\ b.boot = d.boot)
<1> DEFINE Told(x) == [boot |-> b.boot, session |-> b.session, seq |-> b.seq, result |-> x.ack.result] \in w
           Over(x) == d.active # 0 /\ x.active = 0
             => [boot |-> d.boot, session |-> d.owner, seq |-> d.active, result |-> x.finished.result] \in w
           Good(x) == /\ x \in DeviceType /\ EndsSaid(x, w) /\ x.boot = d.boot /\ x.ack.seq = b.seq
                      /\ x.owner = d.owner \/ (x.owner = b.session /\ b.boot = d.boot)
           s == Series(d, b)
           h == [s EXCEPT !.highwater = b.seq]
<1>0. "REJECTED" \in Answers /\ "COMPLETED" \in Answers /\ "ACCEPTED" \in Answers /\ "FAILED" \in Answers
  BY DEF Answers
<1>1. ASSUME NEW x \in DeviceType, EndsSaid(x, w), x.boot = d.boot,
             x.owner = d.owner \/ (x.owner = b.session /\ b.boot = d.boot),
             NEW r \in Answers, Told(Answered(x, b, r)),
             r \in {"COMPLETED", "FAILED"} => x.owner = b.session /\ b.boot = d.boot
      PROVE  Good(Answered(x, b, r))
  <2> DEFINE y == Answered(x, b, r)
  <2>1. /\ y \in DeviceType /\ y.ack = [seq |-> b.seq, result |-> r]
        /\ y.boot = x.boot /\ y.owner = x.owner /\ y.active = x.active /\ y.finished = x.finished
    BY <1>1, AnsweredFacts
  <2> HIDE DEF y
  <2>2. y.ack.seq = b.seq /\ y.ack.result = r
    BY <2>1
  <2>3. r \in {"COMPLETED", "FAILED"} => Said(y, y.ack) \in w
    BY <1>1, <2>1, <2>2 DEF Said, y
  <2>4. EndsSaid(y, w)
    BY <1>1, <2>1, <2>2, <2>3 DEF EndsSaid, Said
  <2> QED BY <1>1, <2>1, <2>2, <2>4 DEF y
<1>2. EndsSaid(d, w)
  BY DEF EndsSaid
<1>3. CASE e = Answered(d, b, "REJECTED")
  BY <1>0, <1>1, <1>2, <1>3
<1>4. CASE \E r \in Results : e = Answered(d, b, r) /\ Repeated(d, b)
  <2>1. PICK r \in Results : e = Answered(d, b, r) /\ Repeated(d, b)
    BY <1>4
  <2>2. r \in Answers /\ b.boot = d.boot /\ b.session = d.owner
    BY <2>1 DEF Results, Answers, Repeated
  <2> QED BY <1>1, <1>2, <2>1, <2>2
<1>5. CASE Admissible(d, b) /\ e \in Outcomes(h, b)
  <2>1. /\ b.boot = d.boot
        /\ b.kind = "ARM" => d.active = 0 /\ d.owner \in {0, b.session}
        /\ b.kind # "ARM" => b.session = d.owner
    BY <1>5 DEF Admissible
  <2>2. /\ h \in DeviceType /\ h.boot = d.boot /\ h.owner = d.owner /\ h.active = d.active
        /\ h.ack = d.ack
        /\ h.finished = IF b.kind = "ARM" /\ d.owner # b.session THEN Nothing ELSE d.finished
    BY DEF Series, DeviceType, BlockType, Nothing, AnswerType, Answers
  <2> HIDE DEF h
  <2>3. Nothing.result = "NONE"
    BY DEF Nothing
  <2>4. EndsSaid(h, w)
    BY <1>2, <2>2, <2>3 DEF EndsSaid, Said
  <2>5. CASE e = Answered(h, b, "REJECTED")
    BY <1>0, <1>1, <2>2, <2>4, <2>5
  <2>6. CASE b.kind = "ARM" /\ e = Answered([h EXCEPT !.owner = b.session], b, "COMPLETED")
    <3> DEFINE a == [h EXCEPT !.owner = b.session]
    <3>1. /\ a \in DeviceType /\ a.boot = d.boot /\ a.owner = b.session /\ a.active = 0
          /\ a.ack = d.ack /\ a.finished = h.finished
      BY <2>1, <2>2, <2>6 DEF DeviceType, BlockType
    <3> HIDE DEF a
    <3>2. a.finished.result # "NONE" => Said(a, a.finished) \in w
      BY <1>2, <2>2, <2>3, <2>6, <3>1 DEF EndsSaid, Said
    <3>z. [boot |-> b.boot, session |-> b.session, seq |-> b.seq, result |-> e.ack.result] \in w
      OBVIOUS
    <3>3. Good(e)
      <4>1. /\ e \in DeviceType /\ e.ack = [seq |-> b.seq, result |-> "COMPLETED"]
            /\ e.boot = a.boot /\ e.owner = a.owner /\ e.active = a.active /\ e.finished = a.finished
        BY ZenonT(60), <1>0, <2>6, <3>1, AnsweredFacts DEF a
      <4>2. e.ack.seq = b.seq /\ Said(e, e.ack) \in w
        BY <2>1, <3>z, <3>1, <4>1 DEF Said
      <4>3. EndsSaid(e, w)
        BY <3>1, <3>2, <4>1, <4>2 DEF EndsSaid, Said
      <4> QED BY <2>1, <3>1, <4>1, <4>2, <4>3
    <3> QED BY <3>3
  <2>7. CASE b.kind = "STOP" /\ e = Answered(Ended(h, "FAILED"), b, "COMPLETED")
    <3> DEFINE a == Ended(h, "FAILED")
    <3>1. /\ a \in DeviceType /\ a.active = 0 /\ a.boot = h.boot /\ a.owner = h.owner
          /\ h.active = 0 => a = h
          /\ h.active # 0 => a.finished = [seq |-> h.active, result |-> "FAILED"]
                             /\ a.ack = [seq |-> h.active, result |-> "FAILED"]
      BY <1>0, <2>2, EndedFacts
    <3> HIDE DEF a
    <3>2. /\ e \in DeviceType /\ e.ack = [seq |-> b.seq, result |-> "COMPLETED"]
          /\ e.boot = a.boot /\ e.owner = a.owner /\ e.active = a.active /\ e.finished = a.finished
      BY <1>0, <2>7, <3>1, AnsweredFacts DEF a
    <3>3. e.ack.seq = b.seq /\ Said(e, e.ack) \in w
      BY <2>1, <2>2, <2>7, <3>1, <3>2 DEF Said
    <3>4. e.finished.result # "NONE" => Said(e, e.finished) \in w
      <4>1. CASE h.active = 0
        BY <2>4, <2>1, <2>2, <2>7, <3>1, <3>2, <4>1 DEF EndsSaid, Said
      <4>2. CASE h.active # 0
        BY <2>2, <3>1, <3>2, <4>2 DEF Said
      <4> QED BY <4>1, <4>2
    <3>5. EndsSaid(e, w)
      BY <3>1, <3>2, <3>3, <3>4 DEF EndsSaid
    <3> QED BY <2>2, <3>1, <3>2, <3>3, <3>5
  <2>8. CASE b.kind = "SET" /\ e = Answered(h, b, "COMPLETED")
    BY <1>0, <1>1, <2>1, <2>2, <2>4, <2>8
  <2>9. CASE b.kind = "MOVE" /\ h.active = 0 /\ e = Answered([h EXCEPT !.active = b.seq], b, "ACCEPTED")
    <3> DEFINE a == [h EXCEPT !.active = b.seq]
    <3>1. /\ a \in DeviceType /\ a.boot = d.boot /\ a.owner = d.owner
          /\ a.ack = h.ack /\ a.finished = h.finished
      BY <2>2 DEF DeviceType, BlockType
    <3> HIDE DEF a
    <3>2. EndsSaid(a, w)
      BY <2>1, <2>2, <2>4, <2>9, <3>1 DEF EndsSaid, Said
    <3> QED BY <1>0, <1>1, <2>9, <3>1, <3>2 DEF a
  <2> QED BY <1>5, <2>5, <2>6, <2>7, <2>8, <2>9 DEF Outcomes
<1>6. \/ e = Answered(d, b, "REJECTED")
      \/ \E r \in Results : e = Answered(d, b, r) /\ Repeated(d, b)
      \/ Admissible(d, b) /\ e \in Outcomes(h, b)
  BY Zenon DEF Executed
<1> HIDE DEF h
<1> QED BY <1>3, <1>4, <1>5, <1>6

(***************************************************************************)
(* The gateway.                                                            *)
(***************************************************************************)
LEMMA AbandonedFacts ==
  ASSUME NEW g, Books(g), NEW l, NEW v, Claims(g, l, v), NEW a, a = Abandoned(g.records)
  PROVE  /\ a \in SUBSET RecordType /\ \A r \in a : ~IsPending(r)
         /\ EndsTrue(a, v) /\ (~l => OwnTrue(a, v))
<1>1. ASSUME NEW r \in a
      PROVE  /\ r \in RecordType /\ ~IsPending(r)
             /\ r \in g.records \/ r.status = "UNKNOWN"
  <2>1. PICK x \in g.records : r = IF IsPending(x) THEN [x EXCEPT !.status = "UNKNOWN"] ELSE x
    BY DEF Abandoned
  <2>2. x \in RecordType
    BY DEF Books, GatewayType
  <2> QED BY <2>1, <2>2 DEF RecordType, IsPending
<1> QED BY <1>1 DEF Claims, EndsTrue, OwnTrue

\* A failure ends the session, unless it has ended already.
LEMMA FailFacts ==
  ASSUME NEW g, Books(g), NEW l, NEW v, Claims(g, l, v), NEW d, Tells(d, g, l, v)
  PROVE  LET f == Fail(g) IN
         /\ Books(f) /\ Claims(f, l, v) /\ Tells(d, f, l, v)
         /\ f.failed /\ f.call = g.call /\ f.answered = g.answered /\ f.boot = g.boot
         /\ \A r \in f.records : ~IsPending(r)
         /\ f.session = IF g.failed THEN g.session ELSE g.session + 1
<1> DEFINE f == Fail(g)
<1>0. g \in GatewayType /\ g.session \in Nat \ {0} /\ d.owner \in Nat
  BY DEF Books, GatewayType, Tells, DeviceType
<1>1. CASE g.failed
  <2>1. f = [g EXCEPT !.good = FALSE]
    BY <1>1 DEF Fail
  <2>2. /\ f \in GatewayType /\ f.failed = g.failed /\ f.call = g.call /\ f.answered = g.answered
        /\ f.boot = g.boot /\ f.records = g.records /\ f.session = g.session
        /\ f.armed = g.armed /\ ~f.good
    BY <1>0, <2>1 DEF GatewayType
  <2> HIDE DEF f
  <2>3. Books(f) /\ \A r \in f.records : ~IsPending(r)
    BY <1>1, <2>2 DEF Books
  <2>4. Claims(f, l, v) /\ Tells(d, f, l, v)
    BY <2>2 DEF Claims, Tells, OwnerKnown, AckSaid
  <2> QED BY <1>1, <2>2, <2>3, <2>4 DEF f
<1>2. CASE ~g.failed
  <2> DEFINE a == Abandoned(g.records)
             n == g.session + 1
  <2>1. /\ a \in SUBSET RecordType /\ \A r \in a : ~IsPending(r)
        /\ EndsTrue(a, v) /\ (~l => OwnTrue(a, v))
    BY AbandonedFacts
  <2>n. n \in Nat \ {0} /\ n > g.session
    BY <1>0
  <2>2. f = [g EXCEPT !.armed = FALSE, !.session = n, !.sequence = 0,
                      !.records = a, !.failed = TRUE, !.good = FALSE]
    BY <1>0, <1>2 DEF Fail, GatewayType
  <2> HIDE DEF a, n, f
  <2>3. /\ f \in GatewayType /\ f.failed /\ f.call = g.call /\ f.answered = g.answered
        /\ f.boot = g.boot /\ f.records = a /\ f.session = n /\ ~f.armed /\ ~f.good
    BY <1>0, <2>1, <2>2, <2>n DEF GatewayType
  <2>4. Books(f)
    BY <2>1, <2>3 DEF Books
  <2>5. d.owner < f.session
    BY <1>0, <2>3, <2>n DEF Tells, OwnerKnown
  <2>6. Claims(f, l, v) /\ Tells(d, f, l, v)
    BY <1>0, <2>1, <2>3, <2>5, <2>n DEF Claims, Tells, OwnerKnown, AckSaid
  <2> QED BY <1>2, <2>1, <2>3, <2>4, <2>6 DEF f, n
<1> QED BY <1>1, <1>2

\* An observation gives a pending record the verdict of the device on the
\* command of that session, for its session owns the device.
LEMMA ObservedFacts ==
  ASSUME NEW g, Books(g), NEW l, NEW v, Claims(g, l, v), NEW d, Tells(d, g, l, v)
  PROVE  LET o == Observed(g, d) IN
         /\ Books(o) /\ Claims(o, l, v) /\ Tells(d, o, l, v)
         /\ ~o.failed /\ o.call = g.call /\ o.answered = g.answered /\ o.boot = d.boot
         /\ g.session <= o.session
         /\ \A r \in o.records : IsPending(r) => \E x \in g.records : IsPending(x) /\ x.kind = r.kind
<1> DEFINE p == IF g.boot \notin {0, d.boot} THEN Fail(g) ELSE g
           q == IF p.armed /\ d.owner # p.session THEN Fail(p) ELSE p
           m == {Matched(r, q.session, d) : r \in q.records}
           o == Observed(g, d)
           Same(x) == /\ Books(x) /\ Claims(x, l, v) /\ Tells(d, x, l, v)
                      /\ x.call = g.call /\ x.answered = g.answered
                      /\ x.session \in Nat /\ g.session <= x.session
                      /\ \A r \in x.records : IsPending(r) => r \in g.records
<1>0. g.session \in Nat
  BY DEF Books, GatewayType
<1>1. Same(p) /\ (g.boot \notin {0, d.boot} => p.failed) /\ p.boot = g.boot
  BY <1>0, FailFacts
<1> HIDE DEF p
<1>2. /\ Same(q) /\ (g.boot \notin {0, d.boot} => q.failed) /\ q.boot = g.boot
      /\ q.armed => d.owner = q.session
  <2>1. CASE p.armed /\ d.owner # p.session
    <3>1. q = Fail(p)
      BY <2>1
    <3> HIDE DEF q
    <3>2. /\ Books(q) /\ Claims(q, l, v) /\ Tells(d, q, l, v)
          /\ q.failed /\ q.call = p.call /\ q.answered = p.answered /\ q.boot = p.boot
          /\ \A r \in q.records : ~IsPending(r)
          /\ q.session = IF p.failed THEN p.session ELSE p.session + 1
      BY <1>1, <3>1, FailFacts
    <3> QED BY <1>0, <1>1, <3>2 DEF Books
  <2>2. CASE ~(p.armed /\ d.owner # p.session)
    <3>1. q = p
      BY <2>2
    <3> HIDE DEF q
    <3> QED BY <1>1, <2>2, <3>1
  <2> QED BY <2>1, <2>2
<1>3. o = [q EXCEPT !.boot = d.boot, !.good = TRUE, !.failed = FALSE, !.records = m]
  BY DEF Observed, p
<1>4. q \in GatewayType /\ d \in DeviceType /\ OwnerKnown(d, q) /\ EndsSaid(d, v)
  BY <1>2 DEF Books, Tells
<1> HIDE DEF q, o
<1>5. ASSUME NEW x \in q.records, NEW r, r = Matched(x, q.session, d)
      PROVE  /\ r \in RecordType /\ r.kind = x.kind /\ (IsPending(r) => IsPending(x))
             /\ r.kind = "MOVE" /\ r.status \in {"COMPLETED", "FAILED"} => Verdict(r) \in v
             /\ ~l /\ r.kind # "ARM" /\ r.status \in {"COMPLETED", "FAILED", "REJECTED", "ACCEPTED"}
                   => Verdict(r) \in v
  <2>1. x \in RecordType
    BY <1>4 DEF GatewayType
  <2>2. CASE r = x
    <3>1. /\ r.kind = "MOVE" /\ r.status \in {"COMPLETED", "FAILED"} => Verdict(r) \in v
          /\ ~l /\ r.kind # "ARM" /\ r.status \in {"COMPLETED", "FAILED", "REJECTED", "ACCEPTED"}
             => Verdict(r) \in v
      BY <1>2, <2>2 DEF Claims, EndsTrue, OwnTrue
    <3> QED BY <2>1, <2>2, <3>1
  <2>3. CASE r # x
    <3>1. /\ IsPending(x) /\ x.boot = d.boot /\ x.session = q.session
          /\ \/ x.seq = d.finished.seq /\ r = [x EXCEPT !.status = d.finished.result]
             \/ x.seq = d.ack.seq /\ r = [x EXCEPT !.status = d.ack.result]
      BY <1>5, <2>3 DEF Matched
    <3>2. d.finished \in AnswerType /\ d.ack \in AnswerType
      BY <1>4 DEF DeviceType
    <3>3. /\ r \in RecordType /\ r.kind = x.kind /\ r.boot = x.boot /\ r.session = x.session
          /\ r.seq = x.seq
          /\ \/ r.seq = d.finished.seq /\ r.status = d.finished.result
             \/ r.seq = d.ack.seq /\ r.status = d.ack.result
      BY <2>1, <3>1, <3>2 DEF RecordType, AnswerType
    <3>4. ASSUME r.kind # "ARM"
          PROVE  d.owner = q.session /\ d.owner # 0
      BY <1>2, <1>4, <3>1, <3>3, <3>4 DEF Books, GatewayType
    <3>5. ASSUME r.kind # "ARM"
          PROVE  \/ r.seq = d.finished.seq /\ r.status = d.finished.result /\ Verdict(r) = Said(d, d.finished)
                 \/ r.seq = d.ack.seq /\ r.status = d.ack.result /\ Verdict(r) = Said(d, d.ack)
      BY <3>1, <3>3, <3>4, <3>5 DEF Verdict, Said
    <3>6. r.kind = "MOVE" /\ r.status \in {"COMPLETED", "FAILED"} => Verdict(r) \in v
      BY <1>4, <3>4, <3>5 DEF EndsSaid
    <3>7. ~l /\ r.kind # "ARM" /\ r.status \in {"COMPLETED", "FAILED", "REJECTED", "ACCEPTED"}
            => Verdict(r) \in v
      BY <1>2, <1>4, <3>4, <3>5 DEF EndsSaid, Tells, AckSaid
    <3> QED BY <3>1, <3>3, <3>6, <3>7
  <2> QED BY <2>2, <2>3
<1>6. /\ m \in SUBSET RecordType
      /\ \A r \in m : IsPending(r) => \E x \in q.records : IsPending(x) /\ x.kind = r.kind
      /\ EndsTrue(m, v) /\ (~l => OwnTrue(m, v))
  BY <1>5 DEF EndsTrue, OwnTrue
<1> HIDE DEF m
<1>7. /\ o \in GatewayType /\ o.boot = d.boot /\ o.good /\ ~o.failed /\ o.records = m
      /\ o.session = q.session /\ o.armed = q.armed /\ o.call = q.call /\ o.answered = q.answered
  BY <1>3, <1>4, <1>6 DEF GatewayType, DeviceType
<1>8. Books(o)
  BY <1>2, <1>4, <1>6, <1>7 DEF Books, DeviceType
<1>9. Claims(o, l, v)
  BY <1>6, <1>7 DEF Claims
<1>10. Tells(d, o, l, v)
  BY <1>2, <1>4, <1>7 DEF Tells, OwnerKnown, AckSaid
<1> QED BY <1>2, <1>6, <1>7, <1>8, <1>9, <1>10 DEF o

(***************************************************************************)
(* The steps.                                                              *)
(***************************************************************************)
\* The end of a call: what was learned is kept, and no call is left.
WithoutCall(g) == [g EXCEPT !.call = NoBlock, !.answered = FALSE]

LEMMA CallOver ==
  ASSUME NEW g, Books(g), NEW l, NEW v, Claims(g, l, v), NEW d, Tells(d, g, l, v),
         NEW o, o = WithoutCall(g)
  PROVE  Books(o) /\ Claims(o, l, v) /\ Tells(d, o, l, v) /\ Calling(o) /\ o.session = g.session
<1>1. g \in GatewayType
  BY DEF Books
<1>2. /\ o \in GatewayType /\ o.records = g.records /\ o.session = g.session /\ o.armed = g.armed
      /\ o.good = g.good /\ o.failed = g.failed /\ o.boot = g.boot
      /\ o.call = NoBlock /\ ~o.answered
  BY <1>1, NoBlockFacts DEF GatewayType, WithoutCall
<1> QED BY <1>2 DEF Books, Claims, Tells, OwnerKnown, AckSaid, Calling

\* A step of the gateway alone.
GatewayKeeps(g) == /\ Books(g) /\ Calling(g) /\ Strays(g, stray)
                   /\ Tells(dev, g, landed, verdicts) /\ Claims(g, landed, verdicts)

LEMMA GatewayStep ==
  ASSUME GatewayKeeps(gateway'), GatewayOnly
  PROVE  LinkInv'
BY DEF GatewayKeeps, GatewayOnly, LinkInv, Books, Calling, Strays, Tells, Claims, OwnerKnown,
       EndsSaid, AckSaid, Said, EndsTrue, OwnTrue, Verdict, IsPending

LEMMA StraysLater ==
  ASSUME NEW g, NEW o, NEW s, Strays(g, s), Books(g), Books(o), g.session <= o.session
  PROVE  Strays(o, s)
<1>1. g.session \in Nat /\ o.session \in Nat
  BY DEF Books, GatewayType
<1>2. \A b \in s : b.session \in Nat
  BY DEF Strays, BlockType
<1> QED BY <1>1, <1>2 DEF Strays

LEMMA PollKeeps ==
  ASSUME LinkInv, Idle,
         NEW o, o \in {Observed(gateway, dev), Fail(gateway), Fail(Observed(gateway, dev))}
  PROVE  GatewayKeeps(o)
<1>0. /\ Books(gateway) /\ Calling(gateway) /\ Strays(gateway, stray)
      /\ Tells(dev, gateway, landed, verdicts) /\ Claims(gateway, landed, verdicts)
      /\ gateway.call = NoBlock
  BY DEF LinkInv, Idle
<1> DEFINE Fine(g) == /\ Books(g) /\ Tells(dev, g, landed, verdicts) /\ Claims(g, landed, verdicts)
                      /\ g.call = NoBlock /\ ~g.answered /\ gateway.session <= g.session
<1>1. ~gateway.answered /\ gateway.session \in Nat
  BY <1>0 DEF Calling, Books, GatewayType
<1>2. Fine(Fail(gateway))
  BY <1>0, <1>1, FailFacts
<1>3. Fine(Observed(gateway, dev))
  BY <1>0, <1>1, ObservedFacts
<1>4. Fine(Fail(Observed(gateway, dev)))
  <2> DEFINE p == Observed(gateway, dev)
  <2>1. Fine(p)
    BY <1>3
  <2> HIDE DEF p
  <2>2. p.session \in Nat
    BY <2>1 DEF Books, GatewayType
  <2>3. Fine(Fail(p))
    BY <1>1, <2>1, <2>2, FailFacts
  <2> QED BY <2>3 DEF p
<1>5. Fine(o)
  BY <1>2, <1>3, <1>4
<1>6. Strays(o, stray)
  BY <1>0, <1>5, StraysLater
<1> QED BY <1>5, <1>6 DEF GatewayKeeps, Calling

LEMMA SubmitKeeps ==
  ASSUME LinkInv, NEW kind \in Kinds, Submit(kind) \/ SubmitTooLate(kind)
  PROVE  LinkInv'
<1> DEFINE block == [kind |-> kind, seq |-> gateway.sequence + 1, boot |-> gateway.boot,
                     session |-> gateway.session]
           record == [boot |-> block.boot, session |-> block.session, seq |-> block.seq,
                      kind |-> kind, status |-> "SENT"]
           n == gateway.sequence + 1
           all == gateway.records \union {record}
<1>0. /\ Books(gateway) /\ Calling(gateway) /\ Strays(gateway, stray)
      /\ Tells(dev, gateway, landed, verdicts) /\ Claims(gateway, landed, verdicts)
      /\ gateway \in GatewayType
  BY DEF LinkInv, Books
<1>1. /\ gateway.call = NoBlock /\ gateway.good /\ (kind = "ARM" \/ gateway.armed)
      /\ (Pending(gateway.records) = {} \/ kind = "STOP")
      /\ GatewayOnly
  BY DEF Submit, SubmitTooLate, Idle, Admits
<1>2. ~gateway.failed /\ gateway.boot # 0 /\ n \in Nat
  BY <1>0, <1>1 DEF Books, GatewayType
<1>3. ASSUME SubmitTooLate(kind)
      PROVE  GatewayKeeps(gateway')
  <2>1. gateway' = [gateway EXCEPT !.sequence = n]
    BY <1>0, <1>3 DEF SubmitTooLate, GatewayType
  <2> HIDE DEF n
  <2>2. /\ gateway' \in GatewayType /\ gateway'.records = gateway.records
        /\ gateway'.session = gateway.session /\ gateway'.armed = gateway.armed
        /\ gateway'.good = gateway.good /\ gateway'.failed = gateway.failed
        /\ gateway'.boot = gateway.boot /\ gateway'.call = gateway.call
        /\ gateway'.answered = gateway.answered
    BY <1>0, <1>2, <2>1 DEF GatewayType
  <2> QED BY <1>0, <2>2 DEF GatewayKeeps, Books, Calling, Strays, Tells, Claims, OwnerKnown, AckSaid
<1>4. ASSUME Submit(kind)
      PROVE  GatewayKeeps(gateway')
  <2>1. gateway' = [gateway EXCEPT !.sequence = n, !.call = block, !.records = all]
    BY <1>0, <1>4 DEF Submit, GatewayType
  <2>2. /\ block \in BlockType /\ block.kind = kind /\ block.session = gateway.session
        /\ block.boot = gateway.boot
        /\ record \in RecordType /\ record.kind = kind /\ record.status = "SENT"
    BY <1>0, <1>2 DEF BlockType, RecordType, GatewayType
  <2> HIDE DEF n, block, record
  <2>3. /\ gateway' \in GatewayType /\ gateway'.records = all
        /\ gateway'.session = gateway.session /\ gateway'.armed = gateway.armed
        /\ gateway'.good = gateway.good /\ gateway'.failed = gateway.failed
        /\ gateway'.boot = gateway.boot /\ gateway'.call = block
        /\ gateway'.answered = gateway.answered
    BY <1>0, <1>2, <2>1, <2>2 DEF GatewayType
  <2>4. Books(gateway')
    BY <1>0, <1>1, <1>2, <2>2, <2>3 DEF Books
  <2>5. Calling(gateway')
    <3>1. ~gateway.answered
      BY <1>0, <1>1 DEF Calling
    <3>2. kind = "ARM" => \A r \in all : IsPending(r) => r.kind = "ARM"
      BY <1>1, <2>2 DEF Pending
    <3> QED BY <1>2, <2>2, <2>3, <3>1, <3>2 DEF Calling
  <2>6. Claims(gateway', landed, verdicts)
    BY <1>0, <2>2, <2>3 DEF Claims, EndsTrue, OwnTrue
  <2>7. Strays(gateway', stray) /\ Tells(dev, gateway', landed, verdicts)
    BY <1>0, <2>3 DEF Strays, Tells, OwnerKnown, AckSaid
  <2> QED BY <2>4, <2>5, <2>6, <2>7 DEF GatewayKeeps
<1> QED BY <1>1, <1>3, <1>4, GatewayStep

LEMMA ReadBackKeeps ==
  ASSUME LinkInv, ReadBack
  PROVE  LinkInv'
<1> DEFINE g == Observed(gateway, dev)
           a == IF gateway.call.kind = "ARM" THEN Armed(g, dev) ELSE g
           o == [a EXCEPT !.call = NoBlock, !.answered = FALSE]
<1>0. /\ Books(gateway) /\ Calling(gateway) /\ Strays(gateway, stray)
      /\ Tells(dev, gateway, landed, verdicts) /\ Claims(gateway, landed, verdicts)
      /\ gateway.call # NoBlock /\ GatewayOnly /\ gateway.answered
  BY DEF LinkInv, ReadBack, Calling
<1>1. /\ Books(g) /\ Claims(g, landed, verdicts) /\ Tells(dev, g, landed, verdicts) /\ ~g.failed
      /\ \A r \in g.records : IsPending(r) => \E x \in gateway.records : IsPending(x) /\ x.kind = r.kind
      /\ gateway.session <= g.session
  BY <1>0, ObservedFacts
<1>2. gateway' = o
  BY DEF ReadBack
<1> HIDE DEF g
<1>3. Books(a) /\ Claims(a, landed, verdicts) /\ Tells(dev, a, landed, verdicts) /\ a.session = g.session
  <2>1. CASE gateway.call.kind = "ARM"
    <3> DEFINE now == IF dev.ack = [seq |-> g.sequence, result |-> "COMPLETED"]
                      THEN dev.owner = g.session ELSE g.armed
    <3>1. a = [g EXCEPT !.armed = now]
      BY <1>1, <2>1 DEF Armed, Books, GatewayType
    <3>2. now \in BOOLEAN
      BY <1>1 DEF Books, GatewayType
    <3> HIDE DEF now, a
    <3>3. /\ a \in GatewayType /\ a.records = g.records /\ a.session = g.session
          /\ a.good = g.good /\ a.failed = g.failed /\ a.boot = g.boot
      BY <1>1, <3>1, <3>2 DEF Books, GatewayType
    <3>4. \A r \in g.records : IsPending(r) => r.kind = "ARM"
      BY <1>0, <1>1, <2>1 DEF Calling
    <3> QED BY <1>1, <3>3, <3>4 DEF Books, Claims, Tells, OwnerKnown, AckSaid
  <2>2. CASE gateway.call.kind # "ARM"
    BY <1>1, <2>2
  <2> QED BY <2>1, <2>2
<1> HIDE DEF a
<1>z. o = WithoutCall(a)
  BY DEF WithoutCall
<1> HIDE DEF o
<1>4. /\ Books(o) /\ Claims(o, landed, verdicts) /\ Tells(dev, o, landed, verdicts) /\ Calling(o)
      /\ o.session = a.session
  BY <1>3, <1>z, CallOver
<1>5. Strays(o, stray)
  BY <1>0, <1>1, <1>3, <1>4, StraysLater
<1> QED BY <1>0, <1>2, <1>4, <1>5, GatewayStep DEF GatewayKeeps

\* A call that fails ends its session, so its block may arrive at any time later.
LEMMA CallFails ==
  ASSUME LinkInv, gateway.call # NoBlock,
         NEW o, o = [Fail(gateway) EXCEPT !.call = NoBlock, !.answered = FALSE],
         NEW s, s \in {stray, stray \union {gateway.call}}
  PROVE  /\ Books(o) /\ Calling(o) /\ Strays(o, s)
         /\ Tells(dev, o, landed, verdicts) /\ Claims(o, landed, verdicts)
<1> DEFINE f == Fail(gateway)
<1>0. /\ Books(gateway) /\ Calling(gateway) /\ Strays(gateway, stray)
      /\ Tells(dev, gateway, landed, verdicts) /\ Claims(gateway, landed, verdicts)
      /\ gateway.session \in Nat \ {0} /\ gateway.call \in BlockType
  BY DEF LinkInv, Books, GatewayType
<1>1. ~gateway.failed /\ gateway.call.kind \in Kinds /\ gateway.call.session = gateway.session
  BY <1>0 DEF Calling
<1>2. /\ Books(f) /\ Claims(f, landed, verdicts) /\ Tells(dev, f, landed, verdicts)
      /\ f.session = gateway.session + 1
  BY <1>0, <1>1, FailFacts
<1> HIDE DEF f
<1>3. /\ Books(o) /\ Claims(o, landed, verdicts) /\ Tells(dev, o, landed, verdicts) /\ Calling(o)
      /\ o.session = gateway.session + 1
  <2>1. o = WithoutCall(f)
    BY DEF f, WithoutCall
  <2> QED BY <1>2, <2>1, CallOver
<1>4. gateway.session < o.session /\ gateway.session <= o.session
  BY <1>0, <1>3
<1>5. Strays(o, stray)
  BY <1>0, <1>3, <1>4, StraysLater
<1>6. ASSUME NEW b \in s
      PROVE  b \in BlockType /\ b.kind \in Kinds /\ b.session # 0 /\ b.session < o.session
  <2>1. CASE b \in stray
    BY <1>5, <2>1 DEF Strays
  <2>2. CASE b = gateway.call
    <3>1. gateway.call.session # 0 /\ gateway.call.session < o.session
      BY <1>0, <1>1, <1>4
    <3> QED BY <1>0, <1>1, <2>2, <3>1
  <2> QED BY <2>1, <2>2
<1>7. Strays(o, s)
  BY <1>6 DEF Strays
<1> QED BY <1>3, <1>7

LEMMA RestartKeeps ==
  ASSUME LinkInv, GatewayRestart
  PROVE  LinkInv'
<1> DEFINE a == Abandoned(gateway.records)
           n == gateway.session + 1
           o == [session |-> n, sequence |-> 0, armed |-> FALSE, boot |-> 0,
                 good |-> FALSE, failed |-> FALSE, call |-> NoBlock, answered |-> FALSE,
                 records |-> a]
<1>0. /\ Books(gateway) /\ Calling(gateway) /\ Strays(gateway, stray)
      /\ Tells(dev, gateway, landed, verdicts) /\ Claims(gateway, landed, verdicts)
      /\ gateway.session \in Nat \ {0} /\ gateway.call \in BlockType /\ dev.owner \in Nat
  BY DEF LinkInv, Books, GatewayType, Tells, DeviceType
<1>1. /\ a \in SUBSET RecordType /\ \A r \in a : ~IsPending(r)
      /\ EndsTrue(a, verdicts) /\ (~landed => OwnTrue(a, verdicts))
  BY <1>0, AbandonedFacts
<1>2. /\ gateway' = o /\ dev' = dev /\ landed' = landed /\ verdicts' = verdicts
      /\ stray' = stray \/ (gateway.call # NoBlock /\ stray' = stray \union {gateway.call})
  BY DEF GatewayRestart, Idle
<1>n. n \in Nat \ {0} /\ n > gateway.session /\ dev.owner < n
  BY <1>0 DEF Tells, OwnerKnown
<1> HIDE DEF a, n
<1>3. o \in GatewayType /\ o.records = a /\ o.session = n /\ o.call = NoBlock
  BY <1>1, <1>n, NoBlockFacts DEF GatewayType
<1>4. Books(o) /\ Calling(o)
  BY <1>1, <1>3 DEF Books, Calling
<1>5. Claims(o, landed, verdicts) /\ Tells(dev, o, landed, verdicts)
  BY <1>0, <1>1, <1>3, <1>n DEF Claims, Tells, OwnerKnown, AckSaid
<1>6. Strays(o, stray)
  BY <1>0, <1>3, <1>4, <1>n, StraysLater
<1>7. Strays(o, stray')
  BY <1>0, <1>2, <1>3, <1>6, <1>n DEF Strays, Calling
<1> HIDE DEF o
<1> QED BY <1>2, <1>4, <1>5, <1>7 DEF LinkInv, Books, Calling, Strays, Tells, Claims, OwnerKnown,
      EndsSaid, AckSaid, Said, EndsTrue, OwnTrue, Verdict, IsPending

\* What the gateway knows survives a longer list of verdicts.
LEMMA MoreVerdicts ==
  ASSUME NEW g, NEW l, NEW v, NEW w, v \subseteq w, Claims(g, l, v), NEW m, l => m
  PROVE  Claims(g, m, w)
BY DEF Claims, EndsTrue, OwnTrue

LEMMA ExecuteKeeps ==
  ASSUME LinkInv, NEW b, b \in BlockType, b.kind \in Kinds, b.session # 0, Execute(b),
         \/ b.session < gateway.session /\ landed' = TRUE
         \/ b = gateway.call /\ b # NoBlock /\ landed' = landed
  PROVE  Tells(dev', gateway, landed', verdicts') /\ Claims(gateway, landed', verdicts')
<1>0. /\ Books(gateway) /\ Calling(gateway)
      /\ Tells(dev, gateway, landed, verdicts) /\ Claims(gateway, landed, verdicts)
      /\ gateway.session \in Nat \ {0} /\ b.session \in Nat
  BY DEF LinkInv, Books, GatewayType, BlockType
<1>1. /\ dev \in DeviceType /\ OwnerKnown(dev, gateway) /\ EndsSaid(dev, verdicts)
      /\ dev.owner \in Nat
  BY <1>0 DEF Tells, DeviceType
<1>2. /\ dev' \in Executed(dev, b) /\ verdicts \subseteq verdicts'
      /\ [boot |-> b.boot, session |-> b.session, seq |-> b.seq, result |-> dev'.ack.result] \in verdicts'
      /\ dev.active # 0 /\ dev'.active = 0
           => [boot |-> dev.boot, session |-> dev.owner, seq |-> dev.active,
               result |-> dev'.finished.result] \in verdicts'
  BY DEF Execute, EndedNow
<1>3. /\ dev' \in DeviceType /\ EndsSaid(dev', verdicts') /\ dev'.boot = dev.boot
      /\ dev'.ack.seq = b.seq
      /\ dev'.owner = dev.owner \/ (dev'.owner = b.session /\ b.boot = dev.boot)
  BY <1>1, <1>2, ExecutedFacts
<1>4. Claims(gateway, landed', verdicts')
  BY <1>0, <1>2, MoreVerdicts
<1>5. CASE b.session < gateway.session /\ landed' = TRUE
  <2>1. OwnerKnown(dev', gateway)
    BY <1>0, <1>1, <1>3, <1>5 DEF OwnerKnown
  <2> QED BY <1>3, <1>4, <1>5, <2>1 DEF Tells
<1>6. CASE b = gateway.call /\ b # NoBlock /\ landed' = landed
  <2>1. b.session = gateway.session /\ b.boot = gateway.boot /\ ~gateway.failed
    BY <1>0, <1>6 DEF Calling
  <2>2. OwnerKnown(dev', gateway)
    BY <1>0, <1>1, <1>3, <2>1 DEF OwnerKnown
  <2>3. AckSaid(dev', gateway, verdicts')
    BY <1>2, <1>3, <2>1, <2>2 DEF AckSaid, Said, OwnerKnown
  <2> QED BY <1>3, <1>4, <2>2, <2>3 DEF Tells
<1> QED BY <1>5, <1>6

\* A motion ends, or the lease with it: the end is noted under its owner.
LEMMA EndKeeps ==
  ASSUME LinkInv, MotionEnds \/ LeaseEnds
  PROVE  LinkInv'
<1>0. /\ Books(gateway) /\ Calling(gateway) /\ Strays(gateway, stray)
      /\ Tells(dev, gateway, landed, verdicts) /\ Claims(gateway, landed, verdicts)
      /\ dev \in DeviceType /\ OwnerKnown(dev, gateway) /\ EndsSaid(dev, verdicts)
      /\ gateway.session \in Nat \ {0}
  BY DEF LinkInv, Tells, Books, GatewayType
<1>1. /\ verdicts' = verdicts \union EndedNow /\ gateway' = gateway /\ stray' = stray
      /\ landed' = landed /\ "FAILED" \in Answers /\ "COMPLETED" \in Answers
  BY DEF MotionEnds, LeaseEnds, Answers
<1>2. ASSUME MotionEnds
      PROVE  Tells(dev', gateway, landed, verdicts')
  <2>1. PICK r \in {"COMPLETED", "FAILED"} : dev' = Ended(dev, r) /\ dev.active # 0
    BY <1>2 DEF MotionEnds
  <2>2. /\ dev' \in DeviceType /\ dev'.active = 0 /\ dev'.boot = dev.boot /\ dev'.owner = dev.owner
        /\ dev'.finished = [seq |-> dev.active, result |-> r]
        /\ dev'.ack = [seq |-> dev.active, result |-> r]
    BY <1>0, <1>1, <2>1, EndedFacts
  <2>3. Said(dev', dev'.ack) \in verdicts' /\ Said(dev', dev'.finished) \in verdicts'
    BY <1>1, <2>1, <2>2 DEF EndedNow, Said
  <2> QED BY <1>0, <2>2, <2>3 DEF Tells, OwnerKnown, EndsSaid, AckSaid
<1>3. ASSUME LeaseEnds
      PROVE  Tells(dev', gateway, landed, verdicts')
  <2> DEFINE e == Ended(dev, "FAILED")
  <2>1. dev' = [e EXCEPT !.owner = 0]
    BY <1>3 DEF LeaseEnds
  <2>2. e \in DeviceType /\ e.active = 0
    BY <1>0, <1>1, EndedFacts
  <2> HIDE DEF e
  <2>3. dev' \in DeviceType /\ dev'.active = 0 /\ dev'.owner = 0
    BY <2>1, <2>2 DEF DeviceType
  <2> QED BY <1>0, <2>3 DEF Tells, OwnerKnown, EndsSaid, AckSaid
<1>4. Claims(gateway, landed, verdicts')
  BY <1>0, <1>1, MoreVerdicts
<1> QED BY <1>0, <1>1, <1>2, <1>3, <1>4 DEF LinkInv, Books, Calling, Strays, Tells, Claims, OwnerKnown,
      EndsSaid, AckSaid, Said, EndsTrue, OwnTrue, Verdict, IsPending

\* The steps that leave the device and its verdicts alone.
LEMMA FailureKeeps ==
  ASSUME LinkInv, WriteFails \/ ReadBackFails
  PROVE  LinkInv'
<1> DEFINE o == [Fail(gateway) EXCEPT !.call = NoBlock, !.answered = FALSE]
<1>0. Calling(gateway) /\ Books(gateway) /\ gateway.call # NoBlock
  BY DEF LinkInv, WriteFails, ReadBackFails, Calling
<1>1. gateway' = o
  <2>1. CASE WriteFails
    <3> DEFINE f == Fail(gateway)
    <3>1. f.answered = gateway.answered /\ f \in GatewayType
      BY FailFacts DEF LinkInv, Books
    <3>2. ~gateway.answered /\ gateway' = [f EXCEPT !.call = NoBlock]
      BY <2>1 DEF WriteFails
    <3>3. f.answered = FALSE
      BY <1>0, <3>1, <3>2 DEF Books, GatewayType
    <3> HIDE DEF f
    <3>4. [f EXCEPT !.call = NoBlock] = [f EXCEPT !.call = NoBlock, !.answered = FALSE]
      BY <3>1, <3>3 DEF GatewayType
    <3> QED BY <3>2, <3>4 DEF f
  <2>2. CASE ReadBackFails
    BY <2>2 DEF ReadBackFails
  <2> QED BY <2>1, <2>2
<1>2. /\ dev' = dev /\ landed' = landed /\ verdicts' = verdicts
      /\ stray' \in {stray, stray \union {gateway.call}}
  BY DEF WriteFails, ReadBackFails, GatewayOnly
<1> HIDE DEF o
<1>3. /\ Books(o) /\ Calling(o) /\ Strays(o, stray')
      /\ Tells(dev, o, landed, verdicts) /\ Claims(o, landed, verdicts)
  BY <1>0, <1>2, CallFails DEF o
<1> QED BY <1>1, <1>2, <1>3 DEF LinkInv, Books, Calling, Strays, Tells, Claims, OwnerKnown,
      EndsSaid, AckSaid, Said, EndsTrue, OwnTrue, Verdict, IsPending

\* The device executes the block of the call in progress.
LEMMA DeliveredKeeps ==
  ASSUME LinkInv, Delivered
  PROVE  LinkInv'
<1>0. /\ Books(gateway) /\ Calling(gateway) /\ Strays(gateway, stray)
      /\ gateway.session \in Nat \ {0} /\ gateway.call \in BlockType
      /\ gateway.call # NoBlock /\ gateway \in GatewayType
  BY DEF LinkInv, Books, GatewayType, Delivered
<1>1. gateway.call.kind \in Kinds /\ gateway.call.session # 0
  BY <1>0 DEF Calling
<1>2. /\ Execute(gateway.call) /\ gateway' = [gateway EXCEPT !.answered = TRUE]
      /\ stray' = stray /\ landed' = landed
  BY DEF Delivered
<1>3. Tells(dev', gateway, landed', verdicts') /\ Claims(gateway, landed', verdicts')
  BY <1>0, <1>1, <1>2, ExecuteKeeps
<1>4. /\ gateway' \in GatewayType /\ gateway'.records = gateway.records
      /\ gateway'.session = gateway.session /\ gateway'.armed = gateway.armed
      /\ gateway'.good = gateway.good /\ gateway'.failed = gateway.failed
      /\ gateway'.boot = gateway.boot /\ gateway'.call = gateway.call
  BY <1>0, <1>2 DEF GatewayType
<1>5. Books(gateway') /\ Calling(gateway') /\ Strays(gateway', stray)
  BY <1>0, <1>4 DEF Books, Calling, Strays
<1>6. Tells(dev', gateway', landed', verdicts') /\ Claims(gateway', landed', verdicts')
  BY <1>3, <1>4 DEF Tells, OwnerKnown, AckSaid, Claims
<1> QED BY <1>2, <1>5, <1>6 DEF LinkInv, Books, Calling, Strays, Tells, Claims, OwnerKnown,
      EndsSaid, AckSaid, Said, EndsTrue, OwnTrue, Verdict, IsPending

\* The device executes a block of a session that is over.
LEMMA LateArrivalKeeps ==
  ASSUME LinkInv, LateArrival
  PROVE  LinkInv'
<1>1. PICK b \in stray : Execute(b) /\ stray' = stray \ {b} /\ landed' = TRUE /\ gateway' = gateway
  BY DEF LateArrival
<1>2. /\ Books(gateway) /\ Calling(gateway) /\ Strays(gateway, stray)
      /\ b \in BlockType /\ b.kind \in Kinds /\ b.session # 0 /\ b.session < gateway.session
  BY DEF LinkInv, Strays
<1>3. Tells(dev', gateway, landed', verdicts') /\ Claims(gateway, landed', verdicts')
  BY <1>1, <1>2, ExecuteKeeps
<1>4. Strays(gateway, stray')
  BY <1>1, <1>2 DEF Strays
<1> QED BY <1>1, <1>2, <1>3, <1>4 DEF LinkInv, Books, Calling, Strays, Tells, Claims, OwnerKnown,
      EndsSaid, AckSaid, Said, EndsTrue, OwnTrue, Verdict, IsPending

\* A device that restarts has no owner, so its registers speak for nobody.
LEMMA DeviceRestartKeeps ==
  ASSUME LinkInv, DeviceRestart
  PROVE  LinkInv'
<1> DEFINE n == dev.boot + 1
<1>0. /\ dev \in DeviceType /\ gateway.session \in Nat \ {0}
      /\ dev' = Booted(n) /\ UNCHANGED <<gateway, stray, landed, verdicts>>
  BY DEF LinkInv, Tells, Books, GatewayType, DeviceRestart, Reboot
<1>1. n \in Nat \ {0}
  BY <1>0 DEF DeviceType
<1> HIDE DEF n
<1>2. dev' \in DeviceType /\ dev'.owner = 0 /\ dev'.active = 0
  BY <1>0, <1>1 DEF Booted, Nothing, DeviceType, AnswerType, Answers
<1>3. Tells(dev', gateway, landed, verdicts)
  BY <1>0, <1>2 DEF Tells, OwnerKnown, EndsSaid, AckSaid
<1> QED BY <1>0, <1>3 DEF LinkInv, Books, Calling, Strays, Tells, Claims, OwnerKnown,
      EndsSaid, AckSaid, Said, EndsTrue, OwnTrue, Verdict, IsPending

(***************************************************************************)
(* The invariant, and what it shows.                                       *)
(***************************************************************************)
LEMMA LinkStart == LinkInit => LinkInv
<1> SUFFICES ASSUME LinkInit PROVE LinkInv
  OBVIOUS
<1>1. dev = Booted(1) /\ stray = {} /\ verdicts = {} /\ landed = FALSE
  BY DEF LinkInit, DeviceInit
<1>2. /\ gateway \in GatewayType /\ gateway.session = 1 /\ ~gateway.armed /\ ~gateway.good
      /\ gateway.call = NoBlock /\ ~gateway.answered /\ gateway.records = {}
  BY NoBlockFacts DEF LinkInit, GatewayType
<1>3. dev \in DeviceType /\ dev.owner = 0 /\ dev.active = 0
  BY <1>1 DEF Booted, Nothing, DeviceType, AnswerType, Answers
<1> QED BY <1>1, <1>2, <1>3 DEF LinkInv, Books, Calling, Strays, Tells, Claims, OwnerKnown,
      EndsSaid, AckSaid, EndsTrue, OwnTrue

LEMMA LinkStep == LinkInv /\ [LinkNext]_linkVars => LinkInv'
<1> SUFFICES ASSUME LinkInv, [LinkNext]_linkVars PROVE LinkInv'
  OBVIOUS
<1>1. CASE Poll \/ PollFails \/ KeepaliveFails
  <2>1. /\ Idle /\ GatewayOnly
        /\ gateway' \in {Observed(gateway, dev), Fail(gateway), Fail(Observed(gateway, dev))}
    BY <1>1 DEF Poll, PollFails, KeepaliveFails
  <2>2. GatewayKeeps(gateway')
    BY <2>1, PollKeeps
  <2> QED BY <2>1, <2>2, GatewayStep
<1>2. CASE \E kind \in Kinds : Submit(kind) \/ SubmitTooLate(kind)
  BY <1>2, SubmitKeeps
<1>3. CASE WriteFails \/ ReadBackFails
  BY <1>3, FailureKeeps
<1>4. CASE Delivered
  BY <1>4, DeliveredKeeps
<1>5. CASE ReadBack
  BY <1>5, ReadBackKeeps
<1>6. CASE GatewayRestart
  BY <1>6, RestartKeeps
<1>7. CASE LateArrival
  BY <1>7, LateArrivalKeeps
<1>8. CASE MotionEnds \/ LeaseEnds
  BY <1>8, EndKeeps
<1>9. CASE DeviceRestart
  BY <1>9, DeviceRestartKeeps
<1>10. CASE UNCHANGED linkVars
  BY <1>10 DEF linkVars, LinkInv, Books, Calling, Strays, Tells, Claims, OwnerKnown,
      EndsSaid, AckSaid, Said, EndsTrue, OwnTrue, Verdict, IsPending
<1> QED BY <1>1, <1>2, <1>3, <1>4, <1>5, <1>6, <1>7, <1>8, <1>9, <1>10 DEF LinkNext

\* The gateway, the device and the calls between them stay in agreement about
\* whose answers the registers hold (gateway.py:52-74, 100-190).
THEOREM LinkInvariance == LinkSpec => []LinkInv
<1>1. LinkInit => LinkInv
  BY LinkStart
<1>2. LinkInv /\ [LinkNext]_linkVars => LinkInv'
  BY LinkStep
<1> QED BY <1>1, <1>2, PTL DEF LinkSpec

\* While no late block has landed, every answer a record claims was given by
\* the device to that command (gateway.py:115-123).
THEOREM OwnedTrue == LinkSpec => []OwnedResultsAreTrue
<1>1. LinkInv => OwnedResultsAreTrue
  BY DEF LinkInv, Claims, OwnTrue, OwnedResultsAreTrue, Reported
<1> QED BY <1>1, LinkInvariance, PTL

\* The end of a motion in a record is the end of that motion, even after late
\* blocks of dead sessions were executed (gateway.py:115-123, model.py:139-192).
THEOREM MotionEndsTrue == LinkSpec => []MotionEndsAreTrue
<1>1. LinkInv => MotionEndsAreTrue
  BY DEF LinkInv, Claims, EndsTrue, MotionEndsAreTrue, Reported
<1> QED BY <1>1, LinkInvariance, PTL
-----------------------------------------------------------------------------
(***************************************************************************)
(* The alarms, for any choice of their rules, any number of transitions,   *)
(* failures and starts, any size of contexts and of the table.             *)
(*                                                                         *)
(* A count is backed by the readings that were seen in a row; a transition *)
(* without an event yet is backed by as many as its rule requires.  While  *)
(* the store has not failed, an open context holds every sample since its  *)
(* event, and not yet all it is to have.                                   *)
(***************************************************************************)
Flags == BOOLEAN
Alarms == [active : Flags, count : Nat]
Notes == [reading : {"trip", "clear", "band", "missing"}, times : Nat]
Ages == SUBSET Nat
Contexts == [id : Nat, age : Nat, after : Ages]
Rows == [code : Codes, active : Flags, note : Notes, after : Ages, complete : Flags]

\* The readings that were seen last speak for the state b of an alarm, n of them
\* in a row, or as many as its rule asks for.
Speaks(c, note, b, n) == /\ note.reading = (IF b THEN "trip" ELSE "clear")
                         /\ note.times >= n \/ note.times >= Required[c]
Counted(c, alarm, note) == alarm.count > 0 => Speaks(c, note, ~alarm.active, alarm.count)
Raised(c, alarm, note) == Speaks(c, note, alarm.active, Threshold(c, alarm.active))

Engine == \A c \in Codes : /\ engine[c] \in Alarms /\ seen[c] \in Notes
                           /\ Counted(c, engine[c], seen[c])
Transitions == /\ todo \subseteq Codes
               /\ pc = "events" <=> todo # {}
               /\ \A c \in todo : Raised(c, engine[c], seen[c])

\* An open context, f failures of the store ago; a row of the table.
Open(p, f) == /\ p \in Contexts /\ 0 \notin p.after
              /\ f = 0 => p.age < Following /\ p.after = 1 .. p.age
Debounced(e) == Speaks(e.code, e.note, e.active, Threshold(e.code, e.active))
Truthful(e, f) == /\ 0 \notin e.after
                  /\ e.complete => Cardinality(e.after) >= Following
                  /\ e.complete /\ f = 0 => e.after = 1 .. Following
                  /\ ~e.complete /\ f = 0 => Cardinality(e.after) < Following
Row(e, f) == e \in Rows /\ Debounced(e) /\ Truthful(e, f)
Table(t, f) == \A id \in DOMAIN t : Row(t[id], f)
Store == /\ lastId \in Nat /\ faults \in Nat
         /\ \A p \in pending : Open(p, faults)
         /\ Table(events, faults)

Inv == Engine /\ Transitions /\ Store

-----------------------------------------------------------------------------
LEMMA TheRules ==
  ASSUME NEW c \in Codes
  PROVE  /\ Required[c] \in Nat /\ Required[c] >= Recovery /\ Recovery = 2
         /\ c \in {"CAPTURE_STALE", "HOST_HOT", "HOST_BUSY", "WIFI_WEAK"}
<1>1. c \in ToSet(Rules) BY EvidenceAssumption
<1>2. DOMAIN Rules = 1 .. 4 BY DEF Rules
<1>3. c \in {"CAPTURE_STALE", "HOST_HOT", "HOST_BUSY", "WIFI_WEAK"}
  BY <1>1, <1>2 DEF ToSet, Rules
<1> QED BY <1>3 DEF Required, Recovery

\* Place and First: among the codes there is one whose rule comes first.
LEMMA FirstIsOne ==
  ASSUME todo \subseteq Codes, todo # {} PROVE First \in todo
<1>1. ASSUME NEW c \in todo PROVE Place(c) \in 1 .. 4
  <2>1. c \in ToSet(Rules) BY EvidenceAssumption
  <2>2. DOMAIN Rules = 1 .. 4 BY DEF Rules
  <2>3. \E i \in DOMAIN Rules : Rules[i] = c BY <2>1 DEF ToSet
  <2> QED BY <2>2, <2>3 DEF Place
<1>2. \E c \in todo : \A d \in todo : Place(c) <= Place(d)
  <2>1. CASE \E c \in todo : Place(c) = 1 BY <1>1, <2>1
  <2>2. CASE (\A c \in todo : Place(c) # 1) /\ \E c \in todo : Place(c) = 2 BY <1>1, <2>2
  <2>3. CASE (\A c \in todo : Place(c) \notin {1, 2}) /\ \E c \in todo : Place(c) = 3
    BY <1>1, <2>3
  <2>4. CASE \A c \in todo : Place(c) \notin {1, 2, 3} BY <1>1, <2>4
  <2> QED BY <2>1, <2>2, <2>3, <2>4
<1> QED BY <1>2 DEF First

-----------------------------------------------------------------------------
(***************************************************************************)
(* The engine.                                                             *)
(***************************************************************************)
LEMMA UpdateCounts ==
  ASSUME NEW c \in Codes, NEW a \in Alarms, NEW n \in Notes, Counted(c, a, n),
         NEW r \in {"trip", "clear", "band", "missing"}
  PROVE  /\ Updated(c, a, r) \in Alarms /\ Noted(c, n, r) \in Notes
         /\ Counted(c, Updated(c, a, r), Noted(c, n, r))
         /\ Turns(c, a, r) => Raised(c, Updated(c, a, r), Noted(c, n, r))
<1> DEFINE u == Updated(c, a, r)
           m == Noted(c, n, r)
           b == Condition(a, r)
           k == Contradictions(a, r)
<1>1. PICK q \in Nat : q = Required[c] BY TheRules
<1>2. q >= 2 /\ Recovery = 2 BY <1>1, TheRules
<1>3. a.active \in BOOLEAN /\ a.count \in Nat /\ n.times \in Nat
  BY DEF Alarms, Notes, Flags
<1>4. b \in BOOLEAN BY DEF Condition
<1>5. /\ m.reading = r /\ m.times \in Nat /\ m \in Notes
      /\ m.times >= 1
      /\ n.reading = r => m.times >= n.times + 1 \/ m.times >= q
  <2>1. PICK t : t = (IF n.reading # r THEN 1 ELSE IF n.times < q THEN n.times + 1 ELSE n.times)
    OBVIOUS
  <2>2. t \in Nat /\ t >= 1 /\ (n.reading = r => t >= n.times + 1 \/ t >= q)
    BY <1>1, <1>2, <1>3, <2>1
  <2>3. m = [reading |-> r, times |-> t] BY <1>1, <2>1 DEF Noted
  <2> QED BY <2>2, <2>3 DEF Notes
<1>6. k \in Nat /\ k = (IF b # a.active THEN a.count + 1 ELSE 0)
  BY <1>3 DEF Contradictions
<1>7. ASSUME r # "missing", b # a.active
      PROVE  /\ r = (IF b THEN "trip" ELSE "clear") /\ b = ~a.active
             /\ m.times >= k \/ m.times >= q
  <2>1. r = (IF b THEN "trip" ELSE "clear") /\ b = ~a.active
    BY <1>3, <1>4, <1>7 DEF Condition
  <2>2. k = a.count + 1 BY <1>6, <1>7
  <2>3. m.times >= k \/ m.times >= q
    <3>1. CASE a.count = 0 BY <1>5, <2>2, <3>1
    <3>2. CASE a.count > 0
      <4>1. n.reading = r /\ (n.times >= a.count \/ n.times >= q)
        BY <1>1, <2>1, <3>2 DEF Counted, Speaks
      <4>2. m.times >= n.times + 1 \/ m.times >= q BY <1>5, <4>1
      <4> HIDE DEF m, k
      <4> QED BY <1>3, <1>5, <2>2, <4>1, <4>2
    <3> QED BY <1>3, <3>1, <3>2
  <2> QED BY <2>1, <2>3
<1>8. CASE r = "missing"
  <2>1. u = [a EXCEPT !.count = 0] BY <1>8 DEF Updated
  <2>2. u \in Alarms /\ u.count = 0 BY <2>1 DEF Alarms
  <2>3. ~Turns(c, a, r) BY <1>8 DEF Turns
  <2> QED BY <1>5, <2>2, <2>3 DEF Counted
<1>9. CASE r # "missing" /\ Turns(c, a, r)
  <2>1. u = [active |-> b, count |-> 0] BY <1>9 DEF Updated
  <2>2. u \in Alarms /\ u.count = 0 /\ u.active = b BY <1>4, <2>1 DEF Alarms, Flags
  <2>3. k >= Threshold(c, b) BY <1>9 DEF Turns
  <2>4. Threshold(c, b) \in Nat /\ Threshold(c, b) >= 2 /\ Threshold(c, b) <= q
    BY <1>1, <1>2 DEF Threshold
  <2>5. b # a.active BY <1>6, <2>3, <2>4
  <2>6. r = (IF b THEN "trip" ELSE "clear") /\ (m.times >= k \/ m.times >= q)
    BY <1>7, <1>9, <2>5
  <2>7. m.times >= Threshold(c, b) BY <1>5, <1>6, <2>3, <2>4, <2>6
  <2>8. Raised(c, u, m) BY <1>5, <2>2, <2>6, <2>7 DEF Raised, Speaks
  <2> QED BY <1>5, <2>2, <2>8 DEF Counted
<1>10. CASE r # "missing" /\ ~Turns(c, a, r)
  <2>1. u = [a EXCEPT !.count = k] BY <1>10 DEF Updated
  <2>2. u \in Alarms /\ u.count = k /\ u.active = a.active BY <1>6, <2>1 DEF Alarms
  <2>3. Counted(c, u, m)
    <3>1. SUFFICES ASSUME k > 0 PROVE Speaks(c, m, ~a.active, k) BY <2>2 DEF Counted
    <3>2. b # a.active BY <1>6, <3>1
    <3> QED BY <1>1, <1>5, <1>7, <1>10, <3>2 DEF Speaks
  <2> QED BY <1>5, <1>10, <2>2, <2>3
<1> QED BY <1>8, <1>9, <1>10

LEMMA SampleCounts ==
  ASSUME Engine, NEW readings \in [Codes -> UNION {Readings(c) : c \in Codes}],
         \A c \in Codes : readings[c] \in Readings(c),
         engine' = [c \in Codes |-> Updated(c, engine[c], readings[c])],
         seen' = [c \in Codes |-> Noted(c, seen[c], readings[c])],
         todo' = {c \in Codes : Turns(c, engine[c], readings[c])},
         pc' = IF todo' = {} THEN "commit" ELSE "events"
  PROVE  Engine' /\ Transitions'
<1>1. ASSUME NEW c \in Codes
      PROVE  /\ engine'[c] \in Alarms /\ seen'[c] \in Notes /\ Counted(c, engine'[c], seen'[c])
             /\ c \in todo' => Raised(c, engine'[c], seen'[c])
  <2>1. readings[c] \in {"trip", "clear", "band", "missing"} BY DEF Readings
  <2>2. PICK r \in {"trip", "clear", "band", "missing"} : r = readings[c] BY <2>1
  <2>3. engine[c] \in Alarms /\ seen[c] \in Notes /\ Counted(c, engine[c], seen[c])
    BY DEF Engine
  <2>4. engine'[c] = Updated(c, engine[c], r) /\ seen'[c] = Noted(c, seen[c], r) BY <2>2
  <2>5. c \in todo' <=> Turns(c, engine[c], r) BY <2>2
  <2> QED BY <2>3, <2>4, <2>5, UpdateCounts
<1>2. todo' \subseteq Codes OBVIOUS
<1> QED BY <1>1, <1>2 DEF Engine, Transitions

-----------------------------------------------------------------------------
(***************************************************************************)
(* The store.                                                              *)
(***************************************************************************)
LEMMA CountTo ==
  ASSUME NEW n \in Nat PROVE IsFiniteSet(1 .. n) /\ Cardinality(1 .. n) = n
<1>1. 1 \in Int /\ n \in Int OBVIOUS
<1>2. IsFiniteSet(1 .. n) /\ Cardinality(1 .. n) = IF 1 > n THEN 0 ELSE n - 1 + 1
  BY <1>1, FS_Interval
<1> QED BY <1>2

LEMMA OlderFields ==
  ASSUME NEW p \in Contexts
  PROVE  /\ Older(p) \in Contexts /\ Older(p).id = p.id /\ Older(p).after = p.after
         /\ Older(p).age = NextAge(p.age) /\ NextAge(p.age) \in Nat \ {0}
<1>1. PICK g \in Nat : g = NextAge(p.age) /\ g # 0
  BY EvidenceAssumption DEF Contexts, NextAge, LongSettled
<1>2. PICK o : o = [p EXCEPT !.age = g] OBVIOUS
<1>3. o = Older(p) BY <1>1, <1>2 DEF Older
<1>4. o \in Contexts /\ o.id = p.id /\ o.after = p.after /\ o.age = g
  BY <1>2 DEF Contexts
<1> QED BY <1>1, <1>3, <1>4

LEMMA ExtendedFields ==
  ASSUME NEW p, NEW f \in Nat, Open(p, f)
  PROVE  /\ Extended(p) \in Contexts /\ Extended(p).id = p.id /\ 0 \notin Extended(p).after
         /\ Full(Extended(p)) /\ f = 0 => Extended(p).after = 1 .. Following
         /\ ~Full(Extended(p)) => Open(Extended(p), f)
<1>1. p \in Contexts /\ 0 \notin p.after BY DEF Open
<1>2. PICK o : o = Older(p) OBVIOUS
<1>3. /\ o \in Contexts /\ o.id = p.id /\ o.after = p.after /\ o.age = NextAge(p.age)
      /\ o.age \in Nat \ {0} /\ p.after \in Ages /\ p.age \in Nat
  BY <1>1, <1>2, OlderFields DEF Contexts
<1>4. PICK s \in Ages : s = p.after \cup {o.age} BY <1>3 DEF Ages
<1>5. PICK e : e = [o EXCEPT !.after = s] OBVIOUS
<1>6. e = Extended(p) BY <1>2, <1>3, <1>4, <1>5 DEF Extended
<1>7. e \in Contexts /\ e.id = p.id /\ e.after = s /\ e.age = o.age
  BY <1>3, <1>5 DEF Contexts
<1>8. 0 \notin e.after BY <1>1, <1>3, <1>4, <1>7
<1>9. Following \in Nat BY EvidenceAssumption
<1>10. ASSUME f = 0
       PROVE  /\ e.age <= Following /\ e.after = 1 .. e.age
              /\ Cardinality(e.after) = e.age
  <2>1. p.age < Following /\ p.after = 1 .. p.age BY <1>10 DEF Open
  <2>2. NextAge(p.age) = p.age + 1
    BY <1>3, <1>9, <2>1, EvidenceAssumption DEF NextAge, LongSettled
  <2>3. 1 .. p.age + 1 = (1 .. p.age) \cup {p.age + 1} BY <1>3
  <2>4. e.after = 1 .. e.age BY <1>3, <1>4, <1>7, <2>1, <2>2, <2>3
  <2>5. e.age \in Nat /\ e.age <= Following BY <1>3, <1>7, <1>9, <2>1, <2>2
  <2> QED BY <2>4, <2>5, CountTo
<1>11. Full(e) /\ f = 0 => e.after = 1 .. Following
  <2>1. SUFFICES ASSUME Full(e), f = 0 PROVE e.after = 1 .. Following OBVIOUS
  <2>2. e.age = Following BY <1>3, <1>7, <1>9, <1>10, <2>1 DEF Full
  <2> QED BY <1>10, <2>1, <2>2
<1>12. ~Full(e) => Open(e, f)
  <2>1. SUFFICES ASSUME ~Full(e), f = 0 PROVE e.age < Following /\ e.after = 1 .. e.age
    BY <1>7, <1>8 DEF Open
  <2> QED BY <1>3, <1>7, <1>9, <1>10, <2>1 DEF Full
<1> QED BY <1>6, <1>7, <1>8, <1>11, <1>12

LEMMA ContextsStored ==
  ASSUME NEW t, NEW f \in Nat, Table(t, f), NEW ps, NEW done \in Flags,
         \A p \in ps : /\ p \in Contexts /\ 0 \notin p.after
                       /\ done => Full(p) /\ (f = 0 => p.after = 1 .. Following)
                       /\ ~done /\ f = 0 => Cardinality(p.after) < Following
  PROVE  Table(WithContexts(t, ps, done), f)
<1> DEFINE w == WithContexts(t, ps, done)
<1>1. DOMAIN w = DOMAIN t BY DEF WithContexts
<1>2. ASSUME NEW i \in DOMAIN t PROVE Row(w[i], f)
  <2>1. CASE ~\E p \in ps : p.id = i
    BY <2>1 DEF WithContexts, Table
  <2>2. CASE \E p \in ps : p.id = i
    <3>1. PICK p \in ps : p = (CHOOSE q \in ps : q.id = i) BY <2>2
    <3>2. PICK s \in Ages : s = p.after BY <3>1 DEF Contexts
    <3>3. Context(ps, i) = s BY <3>1, <3>2 DEF Context
    <3>4. w[i] = [t[i] EXCEPT !.after = s, !.complete = done]
      BY <2>2, <3>3 DEF WithContexts
    <3>5. PICK x : x = t[i] OBVIOUS
    <3>6. x \in Rows /\ Debounced(x) BY <3>5 DEF Table, Row
    <3>7. PICK y : y = [x EXCEPT !.after = s, !.complete = done] OBVIOUS
    <3>8. /\ y \in Rows /\ y.after = s /\ y.complete = done /\ y.code = x.code
          /\ y.note = x.note /\ y.active = x.active
      BY <3>6, <3>7 DEF Rows
    <3>9. Debounced(y) BY <3>6, <3>8 DEF Debounced
    <3>10. Truthful(y, f) BY <3>2, <3>8 DEF Truthful, Full
    <3>11. w[i] = y BY <3>4, <3>5, <3>7
    <3> QED BY <3>8, <3>9, <3>10, <3>11 DEF Row
  <2> QED BY <2>1, <2>2
<1> HIDE DEF w
<1>3. Table(w, f) BY <1>1, <1>2 DEF Table
<1> QED BY <1>3 DEF w

\* What holds without failures is not claimed after one.
LEMMA AfterAFailure ==
  ASSUME NEW f \in Nat
  PROVE  /\ \A p : Open(p, f) => Open(p, f + 1)
         /\ \A t : Table(t, f) => Table(t, f + 1)
<1>1. f + 1 # 0 OBVIOUS
<1>2. \A e : Row(e, f) => Row(e, f + 1) BY <1>1 DEF Row, Truthful
<1> QED BY <1>1, <1>2 DEF Open, Table

LEMMA EventStored ==
  ASSUME Engine, Transitions, todo # {}, NEW f \in Nat, Table(events, f), lastId \in Nat
  PROVE  Table(WithEvent(events, lastId + 1, NewEvent), f)
<1> DEFINE w == WithEvent(events, lastId + 1, NewEvent)
<1>1. First \in todo /\ First \in Codes BY FirstIsOne DEF Transitions
<1>2. PICK e, c, a, n : e = NewEvent /\ c = First /\ a = engine[First] /\ n = seen[First]
  OBVIOUS
<1>3. c \in Codes /\ a \in Alarms /\ n \in Notes /\ Raised(c, a, n)
  BY <1>1, <1>2 DEF Engine, Transitions
<1>4. e = [code |-> c, active |-> a.active, note |-> n, after |-> {}, complete |-> FALSE]
  BY <1>2 DEF NewEvent
<1>5. /\ e \in Rows /\ e.code = c /\ e.active = a.active /\ e.note = n /\ e.after = {}
      /\ e.complete = FALSE
  <2>1. {} \in Ages /\ a.active \in Flags /\ FALSE \in Flags BY <1>3 DEF Ages, Alarms, Flags
  <2> QED BY <1>3, <1>4, <2>1 DEF Rows
<1>6. Debounced(e) BY <1>3, <1>5 DEF Debounced, Raised
<1>7. Truthful(e, f)
  <2>1. Cardinality({}) = 0 BY FS_EmptySet
  <2>2. Following \in Nat \ {0} BY EvidenceAssumption
  <2> QED BY <1>5, <2>1, <2>2 DEF Truthful
<1>8. \A i \in DOMAIN w : w[i] = e \/ (i \in DOMAIN events /\ w[i] = events[i])
  BY <1>2 DEF WithEvent
<1> HIDE DEF w
<1>9. \A i \in DOMAIN w : Row(w[i], f) BY <1>5, <1>6, <1>7, <1>8 DEF Row, Table
<1>10. Table(w, f) BY <1>9 DEF Table
<1> QED BY <1>10 DEF w

-----------------------------------------------------------------------------
(***************************************************************************)
(* The steps.                                                              *)
(***************************************************************************)
LEMMA SampleKeeps ==
  ASSUME Inv, Sample PROVE Inv'
<1> DEFINE extended == {Extended(p) : p \in pending}
           complete == {p \in extended : Full(p)}
<1>1. Engine /\ Transitions /\ Store BY DEF Inv
<1>2. /\ events' = WithContexts(events, complete, TRUE) /\ pending' = extended \ complete
      /\ UNCHANGED <<lastId, faults>>
  BY DEF Sample
<1>3. PICK readings \in [Codes -> UNION {Readings(c) : c \in Codes}] :
        /\ \A c \in Codes : readings[c] \in Readings(c)
        /\ engine' = [c \in Codes |-> Updated(c, engine[c], readings[c])]
        /\ seen' = [c \in Codes |-> Noted(c, seen[c], readings[c])]
        /\ todo' = {c \in Codes : Turns(c, engine[c], readings[c])}
        /\ pc' = IF todo' = {} THEN "commit" ELSE "events"
  BY DEF Sample
<1>4. Engine' /\ Transitions' BY <1>1, <1>3, SampleCounts
<1>5. faults \in Nat /\ lastId \in Nat /\ Table(events, faults) /\ \A p \in pending : Open(p, faults)
  BY <1>1 DEF Store
<1>6. \A e \in extended : /\ e \in Contexts /\ 0 \notin e.after
                          /\ Full(e) /\ faults = 0 => e.after = 1 .. Following
                          /\ ~Full(e) => Open(e, faults)
  BY <1>5, ExtendedFields
<1>7. TRUE \in Flags BY DEF Flags
<1>8. Table(WithContexts(events, complete, TRUE), faults)
  BY <1>5, <1>6, <1>7, ContextsStored
<1>9. \A p \in pending' : Open(p, faults) BY <1>2, <1>6
<1> HIDE DEF extended, complete
<1>10. Store' BY <1>2, <1>5, <1>8, <1>9 DEF Store
<1> QED BY <1>4, <1>10 DEF Inv

\* A step of the store that leaves the engine alone.
LEMMA EngineRests ==
  ASSUME Engine, Transitions, UNCHANGED <<engine, seen>>, todo' \subseteq todo,
         pc' = "events" <=> todo' # {}
  PROVE  Engine' /\ Transitions'
BY DEF Engine, Transitions

LEMMA SampleFailsKeeps ==
  ASSUME Inv, SampleFails PROVE Inv'
<1>1. Engine /\ Transitions /\ Store BY DEF Inv
<1>2. PICK p, tried, missed, done :
        /\ p \in pending
        /\ tried = {Extended(q) : q \in Before(p) \cup {p}}
        /\ missed = {Older(q) : q \in pending \ (Before(p) \cup {p})}
        /\ done = {e \in tried : Full(e) /\ e.id # p.id}
        /\ events' = WithContexts(events, done, TRUE)
        /\ pending' = (tried \ done) \cup missed
  BY DEF SampleFails
<1>3. /\ pc = "idle" /\ faults' = faults + 1 /\ UNCHANGED <<engine, seen, todo, pc, lastId>>
  BY DEF SampleFails, observer
<1>4. Engine' /\ Transitions'
  <2>1. pc' = "events" <=> todo' # {} BY <1>1, <1>3 DEF Transitions
  <2> QED BY <1>1, <1>3, <2>1, EngineRests
<1>5. /\ faults \in Nat /\ lastId \in Nat /\ Table(events, faults)
      /\ \A q \in pending : Open(q, faults)
  BY <1>1 DEF Store
<1>6. \A e \in tried : /\ e \in Contexts /\ 0 \notin e.after
                       /\ Full(e) /\ faults = 0 => e.after = 1 .. Following
  BY <1>2, <1>5, ExtendedFields DEF Before
<1>7. \A e \in missed : e \in Contexts /\ 0 \notin e.after
  BY <1>2, <1>5, OlderFields DEF Open
<1>8. TRUE \in Flags BY DEF Flags
<1>9. Table(events', faults) BY <1>2, <1>5, <1>6, <1>8, ContextsStored
<1>10. faults' \in Nat /\ faults' # 0 BY <1>3, <1>5
<1>11. Table(events', faults') BY <1>3, <1>5, <1>9, AfterAFailure
<1>12. \A q \in pending' : Open(q, faults') BY <1>2, <1>6, <1>7, <1>10 DEF Open
<1>13. Store' BY <1>3, <1>5, <1>10, <1>11, <1>12 DEF Store
<1> QED BY <1>4, <1>13 DEF Inv

LEMMA StoreEventKeeps ==
  ASSUME Inv, StoreEvent PROVE Inv'
<1>1. Engine /\ Transitions /\ Store BY DEF Inv
<1>2. /\ lastId' = lastId + 1 /\ events' = WithEvent(events, lastId + 1, NewEvent)
      /\ pending' = pending \cup {NewPending(lastId + 1)} /\ todo' = todo \ {First}
      /\ pc' = (IF todo = {First} THEN "commit" ELSE "events")
      /\ UNCHANGED <<engine, seen, faults>> /\ todo # {}
  BY <1>1 DEF StoreEvent, Transitions
<1>3. Engine' /\ Transitions'
  <2>1. First \in todo BY <1>1, <1>2, FirstIsOne DEF Transitions
  <2>2. pc' = "events" <=> todo' # {} BY <1>2, <2>1
  <2>3. todo' \subseteq todo BY <1>2
  <2> QED BY <1>1, <1>2, <2>2, <2>3, EngineRests
<1>4. /\ faults \in Nat /\ lastId \in Nat /\ Table(events, faults)
      /\ \A q \in pending : Open(q, faults)
  BY <1>1 DEF Store
<1>5. Table(events', faults) BY <1>1, <1>2, <1>4, EventStored
<1>6. PICK p : p = NewPending(lastId + 1) OBVIOUS
<1>7. Open(p, faults)
  <2>1. p = [id |-> lastId + 1, age |-> 0, after |-> {}] BY <1>6 DEF NewPending
  <2>2. p \in Contexts /\ p.age = 0 /\ p.after = {} BY <1>4, <2>1 DEF Contexts, Ages
  <2>3. 1 .. 0 = {} OBVIOUS
  <2>4. 0 < Following BY EvidenceAssumption
  <2> QED BY <2>2, <2>3, <2>4 DEF Open
<1>8. \A q \in pending' : Open(q, faults) BY <1>2, <1>4, <1>6, <1>7
<1>9. Store' BY <1>2, <1>4, <1>5, <1>8 DEF Store
<1> QED BY <1>3, <1>9 DEF Inv

LEMMA StoreEventFailsKeeps ==
  ASSUME Inv, StoreEventFails PROVE Inv'
<1>1. Engine /\ Transitions /\ Store BY DEF Inv
<1>2. /\ todo' = {} /\ pc' = "idle" /\ faults' = faults + 1 /\ todo # {}
      /\ UNCHANGED <<engine, seen, pending>>
      /\ \/ UNCHANGED <<events, lastId>>
         \/ lastId' = lastId + 1 /\ events' = WithEvent(events, lastId + 1, NewEvent)
  BY <1>1 DEF StoreEventFails, Transitions
<1>3. Engine' /\ Transitions' BY <1>1, <1>2, EngineRests
<1>4. /\ faults \in Nat /\ lastId \in Nat /\ Table(events, faults)
      /\ \A q \in pending : Open(q, faults)
  BY <1>1 DEF Store
<1>5. Table(events', faults) /\ lastId' \in Nat BY <1>1, <1>2, <1>4, EventStored
<1>6. Table(events', faults') /\ \A q \in pending' : Open(q, faults')
  BY <1>2, <1>4, <1>5, AfterAFailure
<1>7. Store' BY <1>2, <1>4, <1>5, <1>6 DEF Store
<1> QED BY <1>3, <1>7 DEF Inv

LEMMA CloseKeeps ==
  ASSUME Inv, Close PROVE Inv'
<1>1. Engine /\ Transitions /\ Store BY DEF Inv
<1>2. pending' = {} /\ todo' = {} /\ pc' = "down" /\ UNCHANGED <<engine, seen, lastId>>
  BY DEF Close
<1>3. Engine' /\ Transitions' BY <1>1, <1>2, EngineRests
<1>4. /\ faults \in Nat /\ lastId \in Nat /\ Table(events, faults)
      /\ \A q \in pending : Open(q, faults)
  BY <1>1 DEF Store
<1>5. FALSE \in Flags BY DEF Flags
<1>6. \A q \in pending : /\ q \in Contexts /\ 0 \notin q.after
                         /\ faults = 0 => Cardinality(q.after) < Following
  <2>1. SUFFICES ASSUME NEW q \in pending, faults = 0 PROVE Cardinality(q.after) < Following
    BY <1>4 DEF Open
  <2>2. q.age \in Nat /\ q.age < Following /\ q.after = 1 .. q.age
    BY <1>4, <2>1 DEF Open, Contexts
  <2> QED BY <2>2, CountTo
<1>7. \A ps \in SUBSET pending : Table(WithContexts(events, ps, FALSE), faults)
  <2>1. SUFFICES ASSUME NEW ps \in SUBSET pending
                 PROVE Table(WithContexts(events, ps, FALSE), faults)
    OBVIOUS
  <2>2. \A q \in ps : /\ q \in Contexts /\ 0 \notin q.after
                      /\ faults = 0 => Cardinality(q.after) < Following
    BY <1>6
  <2> QED BY <1>4, <1>5, <2>2, ContextsStored
<1>8. Table(events', faults') /\ faults' \in Nat
  <2>1. CASE events' = WithContexts(events, pending, FALSE) /\ UNCHANGED faults
    BY <1>4, <1>7, <2>1
  <2>2. CASE /\ faults' = faults + 1
             /\ \E p \in pending : events' = WithContexts(events, Before(p), FALSE)
    <3>1. PICK p \in pending : events' = WithContexts(events, Before(p), FALSE) BY <2>2
    <3>2. Before(p) \in SUBSET pending BY DEF Before
    <3>3. Table(events', faults) BY <1>7, <3>1, <3>2
    <3>4. Table(events', faults + 1) BY <1>4, <3>3, AfterAFailure
    <3>5. PICK f \in Nat : f = faults + 1 BY <1>4
    <3>6. f = faults' /\ Table(events', f) BY <2>2, <3>4, <3>5
    <3> QED BY <3>5, <3>6
  <2> QED BY <2>1, <2>2 DEF Close
<1>9. Store' BY <1>2, <1>4, <1>8 DEF Store
<1> QED BY <1>3, <1>9 DEF Inv

LEMMA RestKeeps ==
  ASSUME Inv, StoreSample \/ Crash \/ UNCHANGED vars PROVE Inv'
<1>1. Engine /\ Transitions /\ Store BY DEF Inv
<1>2. /\ UNCHANGED <<engine, seen, events, lastId, faults>>
      /\ todo' \subseteq todo /\ pending' \subseteq pending
  BY DEF StoreSample, Crash, observer, vars
<1>3. pc' = "events" <=> todo' # {}
  BY <1>1 DEF StoreSample, Crash, observer, vars, Transitions
<1>4. Engine' /\ Transitions' BY <1>1, <1>2, <1>3, EngineRests
<1>5. Store' BY <1>1, <1>2 DEF Store
<1> QED BY <1>4, <1>5 DEF Inv

LEMMA FreshEngine ==
  ASSUME NEW c \in Codes, NEW a, NEW n, a = NewEngine[c], n = NothingSeen[c]
  PROVE  a \in Alarms /\ n \in Notes /\ Counted(c, a, n)
<1>1. a = [active |-> FALSE, count |-> 0] /\ n = [reading |-> "missing", times |-> 0]
  BY DEF NewEngine, NothingSeen
<1>2. a \in Alarms /\ a.count = 0 /\ n \in Notes
  BY <1>1 DEF Alarms, Notes, Flags
<1> QED BY <1>2 DEF Counted

LEMMA StartUpKeeps ==
  ASSUME Inv, StartUp PROVE Inv'
<1>1. Engine /\ Transitions /\ Store BY DEF Inv
<1>2. /\ engine' = NewEngine /\ seen' = NothingSeen /\ pc' = "idle" /\ pc = "down"
      /\ UNCHANGED <<todo, pending, events, lastId, faults>>
  BY DEF StartUp
<1>3. Engine' BY <1>2, FreshEngine DEF Engine
<1>4. Transitions' BY <1>1, <1>2 DEF Transitions
<1>5. Store' BY <1>1, <1>2 DEF Store
<1> QED BY <1>3, <1>4, <1>5 DEF Inv

LEMMA InitInv ==
  ASSUME Init PROVE Inv
<1>1. Engine BY FreshEngine DEF Init, Engine
<1>2. Transitions BY DEF Init, Transitions
<1>3. Store
  <2>1. DOMAIN events = {} BY DEF Init
  <2> QED BY <2>1 DEF Init, Store, Table
<1> QED BY <1>1, <1>2, <1>3 DEF Inv

\* Counts and transitions are backed by readings, open contexts and rows of the
\* table by samples, through failures of the store and restarts.
THEOREM ObserverInvariance == Spec => []Inv
<1>1. Init => Inv BY InitInv
<1>2. Inv /\ [Next]_vars => Inv'
  BY SampleKeeps, SampleFailsKeeps, StoreEventKeeps, StoreEventFailsKeeps, CloseKeeps,
     RestKeeps, StartUpKeeps DEF Next
<1> QED BY <1>1, <1>2, PTL DEF Spec

\* No alarm is raised or taken back on fewer samples in a row than its rule asks
\* for, whatever readings are missing or between the levels.
THEOREM AlarmsDebounced == Spec => []AlarmsAreDebounced
<1>1. Inv => AlarmsAreDebounced
  <2>1. SUFFICES ASSUME Inv, NEW id \in DOMAIN events
                 PROVE LET e == events[id]
                       IN  /\ e.note.reading = IF e.active THEN "trip" ELSE "clear"
                           /\ e.note.times >= Threshold(e.code, e.active)
    BY DEF AlarmsAreDebounced
  <2>2. PICK e : e = events[id] OBVIOUS
  <2>3. e \in Rows /\ Debounced(e) BY <2>1, <2>2 DEF Inv, Store, Table, Row
  <2>4. PICK c \in Codes : c = e.code BY <2>3 DEF Rows
  <2>5. Required[c] \in Nat /\ Required[c] >= Recovery /\ Recovery = 2 BY TheRules
  <2>6. Threshold(c, e.active) \in Nat /\ Threshold(c, e.active) <= Required[c]
    BY <2>5 DEF Threshold
  <2>7. e.note.times \in Nat BY <2>3 DEF Rows, Notes
  <2>8. /\ e.note.reading = (IF e.active THEN "trip" ELSE "clear")
        /\ e.note.times >= Threshold(c, e.active) \/ e.note.times >= Required[c]
    BY <2>3, <2>4 DEF Debounced, Speaks
  <2>9. e.note.times >= Threshold(c, e.active) BY <2>5, <2>6, <2>7, <2>8
  <2> QED BY <2>2, <2>4, <2>8, <2>9
<1> QED BY <1>1, ObserverInvariance, PTL

\* A context that says it is complete is, and while the store has not failed it
\* holds exactly the samples that followed its event.
THEOREM ContextsTrue == Spec => []ContextsAreTrue
<1>1. Inv => ContextsAreTrue
  BY DEF Inv, Store, Table, Row, Truthful, ContextsAreTrue
<1> QED BY <1>1, ObserverInvariance, PTL
=============================================================================
