--------------------------- MODULE StationProofs ---------------------------
(***************************************************************************)
(* Proofs about Station.  Every operator that a handler is composed of has *)
(* a lemma saying what it preserves; the theorems at the end of the first  *)
(* part put them together, one step per action.  The second part proves    *)
(* that Station implements Device and that the results of commands are     *)
(* final.                                                                  *)
(***************************************************************************)
EXTENDS StationProperties, StationRefinement, FiniteSetTheorems, TLAPS

\* What an operator that leaves the authority over the device alone keeps.
SameAuthority(s, r) == /\ r.boot = s.boot /\ r.now = s.now /\ r.owner = s.owner
                       /\ r.highwater = s.highwater /\ r.retired = s.retired
                       /\ r.lastKeepalive = s.lastKeepalive /\ r.motionStarts = s.motionStarts

\* The passing of time clears no alarm and starts no motion.
StaysOff(s, r) == (s.alarm # "NONE" => r.alarm # "NONE") /\ (~Active(s) => ~Active(r))

\* A handler's own work, after its ticks, takes no time; a session that owns the
\* device after it was not retired by it; out of an alarm nothing moves.
Handled(s, r) == /\ r.boot = s.boot /\ r.now = s.now
                 /\ r.owner # 0 => r.retired = s.retired
                 /\ s.alarm # "NONE" => ~Active(r)

USE SessionsAssumption, CommandsAssumption, KeepalivesAssumption, TimingAssumption, RetirementAssumption,
    BoundsAssumption

LEMMA FinishFacts ==
  ASSUME NEW s \in StationType, NEW r \in Results, NEW q \in Reasons
  PROVE  LET f == Finish(s, r, q) IN
         /\ f \in StationType /\ ~Active(f)
         /\ SameAuthority(s, f)
         /\ f.state = s.state /\ f.alarm = s.alarm /\ f.position = s.position /\ f.fault = s.fault
         /\ f.active.legBegan <= s.active.legBegan
<1> DEFINE end == [seq |-> s.active.seq, result |-> r, reason |-> q]
           rest == {e \in s.cache : e.cmd.seq # s.active.seq}
                   \union {Entry(e.cmd, r, q) : e \in Known(s, s.active.seq)}
<1>1. NoMotion \in MotionType /\ NoMotion.seq = 0 /\ NoMotion.legBegan = 0
  BY DEF NoMotion, MotionType, Places
<1>2. end \in AckType
  BY DEF AckType, StationType, MotionType
<1>3. rest \in SUBSET EntryType
  BY DEF EntryType, StationType, Entry, Known
<1>4. s.active \in MotionType
  BY DEF StationType
<1>5. CASE ~Active(s)
  BY <1>5, <1>4 DEF Finish, SameAuthority, MotionType
<1>6. CASE Active(s)
  <2> HIDE DEF end, rest
  <2>1. Finish(s, r, q) = [s EXCEPT !.finished = end, !.ack = end, !.active = NoMotion, !.cache = rest]
    BY <1>6 DEF Finish, end, rest
  <2>2. Finish(s, r, q) \in StationType
    BY ZenonT(60), <2>1, <1>1, <1>2, <1>3 DEF StationType
  <2>3. /\ Finish(s, r, q).active = NoMotion
        /\ SameAuthority(s, Finish(s, r, q))
        /\ Finish(s, r, q).state = s.state /\ Finish(s, r, q).alarm = s.alarm
        /\ Finish(s, r, q).position = s.position /\ Finish(s, r, q).fault = s.fault
    BY <2>1 DEF StationType, SameAuthority
  <2> QED BY <2>2, <2>3, <1>1, <1>4 DEF Active, MotionType
<1> QED BY <1>5, <1>6

LEMMA TripCore ==
  ASSUME NEW s, Core(s), NEW q \in Reasons \ {"NONE"}
  PROVE  /\ Core(Trip(s, q)) /\ SameAuthority(s, Trip(s, q)) /\ ~Active(Trip(s, q))
         /\ Trip(s, q).alarm # "NONE"
<1> DEFINE f == Finish(s, "FAILED", q)
<1>1. /\ f \in StationType /\ ~Active(f)
      /\ SameAuthority(s, f)
      /\ f.active.legBegan <= s.active.legBegan
  BY FinishFacts DEF Core, Results
<1> HIDE DEF f
<1>2. Trip(s, q) = [f EXCEPT !.state = "FAULT", !.alarm = q]
  BY DEF Trip, f
<1>3. Trip(s,q) \in StationType
  BY ZenonT(60), <1>1, <1>2 DEF StationType, States
<1>4. /\ Trip(s, q).state = "FAULT" /\ Trip(s, q).alarm = q /\ Trip(s, q).active = f.active
      /\ SameAuthority(s, Trip(s, q))
  BY <1>1, <1>2 DEF StationType, SameAuthority
<1>5. s.now \in Nat /\ s.active.legBegan \in Nat /\ f.active.legBegan \in Nat
  BY <1>1 DEF Core, StationType, MotionType
<1> QED BY <1>1, <1>3, <1>4, <1>5 DEF Core, Clocks, Outputs, InCache, Ruled, InService, Active, SameAuthority

LEMMA AtTimeCore ==
  ASSUME NEW s, Core(s), NEW t \in Nat, s.now <= t
  PROVE  LET a == AtTime(s, t) IN
         /\ Core(a) /\ a.now = t
         /\ a.boot = s.boot /\ a.owner = s.owner /\ a.highwater = s.highwater
         /\ a.retired = s.retired /\ a.motionStarts = s.motionStarts
         /\ a.lastKeepalive = s.lastKeepalive /\ StaysOff(s, a)
<1> DEFINE a == AtTime(s, t)
<1>1. a \in StationType
  BY DEF AtTime, Core, StationType, Faults
<1>2. /\ a.now = t /\ a.boot = s.boot /\ a.owner = s.owner /\ a.highwater = s.highwater
      /\ a.retired = s.retired /\ a.motionStarts = s.motionStarts
      /\ a.lastKeepalive = s.lastKeepalive /\ a.active = s.active /\ a.state = s.state
      /\ a.alarm = s.alarm /\ a.position = s.position /\ a.cache = s.cache
  BY DEF AtTime, Core, StationType
<1>3. s.now \in Nat /\ s.lastKeepalive \in Nat /\ s.active.legBegan \in Nat
      /\ (s.owner # 0 => s.retired[s.owner] \in Nat)
  BY DEF Core, StationType, MotionType
<1> HIDE DEF a
<1>4. Clocks(a)  BY <1>2, <1>3 DEF Clocks, Core
<1>5. Outputs(a) /\ InCache(a) /\ Ruled(a)  BY <1>2 DEF Outputs, InCache, Ruled, Core, Active
<1>6. InService(a)  BY <1>2, <1>3 DEF InService, Core
<1> QED BY <1>1, <1>2, <1>4, <1>5, <1>6 DEF Core, StaysOff, Active, a

Released(s, r) == /\ s.owner # 0 /\ r.owner = 0
                  /\ r.retired = [s.retired EXCEPT ![s.owner] = s.now + RetireMs]

LEMMA CheckLeaseCore ==
  ASSUME NEW s, Core(s)
  PROVE  LET r == CheckLease(s) IN
         /\ Core(r) /\ Leased(r)
         /\ r.boot = s.boot /\ r.now = s.now /\ r.highwater = s.highwater
         /\ r.motionStarts = s.motionStarts /\ r.lastKeepalive = s.lastKeepalive
         /\ StaysOff(s, r)
         /\ \/ r.owner = s.owner /\ r.retired = s.retired
            \/ Released(s, r)
<1> DEFINE f == IF Active(s) THEN Trip(s, "COMM_TIMEOUT") ELSE s
           r == CheckLease(s)
<1>1. Core(f) /\ SameAuthority(s, f) /\ ~Active(f) /\ StaysOff(s, f)
  BY TripCore DEF Reasons, SameAuthority, StaysOff
<1> HIDE DEF f
<1>2. CASE ~LeaseExpired(s)
  BY <1>2 DEF CheckLease, LeaseExpired, Leased, Core, StationType, StaysOff
<1>3. CASE LeaseExpired(s)
  <2>1. r = [f EXCEPT !.owner = 0, !.retired[s.owner] = s.now + RetireMs]
    BY <1>3 DEF CheckLease, f
  <2>2. s.owner # 0  BY <1>3 DEF LeaseExpired
  <2> DEFINE g == [s.retired EXCEPT ![s.owner] = s.now + RetireMs]
  <2>a. g \in [Sessions -> Nat]
    BY <2>2 DEF Core, StationType
  <2>b. f \in StationType /\ f.retired = s.retired
    BY <1>1 DEF Core, SameAuthority
  <2> HIDE DEF r
  <2>c. r = [f EXCEPT !.owner = 0, !.retired = g]
    BY <2>1, <2>b
  <2> HIDE DEF g
  <2>3. r \in StationType
    BY <2>a, <2>b, <2>c DEF StationType
  <2>4. /\ r.owner = 0 /\ r.boot = s.boot /\ r.now = s.now /\ r.highwater = s.highwater
        /\ r.motionStarts = s.motionStarts /\ r.lastKeepalive = s.lastKeepalive
        /\ r.retired = [s.retired EXCEPT ![s.owner] = s.now + RetireMs]
        /\ r.active = f.active /\ r.state = f.state /\ r.alarm = f.alarm /\ r.position = f.position
    BY <1>1, <2>b, <2>c DEF StationType, SameAuthority, g
  <2>5. Core(r)
    BY <1>1, <2>3, <2>4 DEF Core, Clocks, Outputs, InCache, Ruled, InService, Active, SameAuthority
  <2>6. StaysOff(s, r)
    BY <1>1, <2>4 DEF StaysOff, Active
  <2> QED BY <2>2, <2>4, <2>5, <2>6 DEF Leased, Released, r
<1> QED BY <1>2, <1>3

LEMMA LegFacts ==
  ASSUME NEW s \in StationType, NEW target \in {"HOME", "EXTENDED"}
  PROVE  LET l == Leg(s, target) IN
         /\ l \in StationType /\ SameAuthority(s, l)
         /\ l.state = IF target = "EXTENDED" THEN "EXTENDING" ELSE "RETRACTING"
         /\ l.active.seq = s.active.seq /\ l.active.target = target /\ l.active.legBegan = s.now
         /\ l.alarm = s.alarm /\ l.position = s.position /\ l.cache = s.cache
<1> DEFINE l == Leg(s, target)
           a == [s.active EXCEPT !.target = target, !.start = s.position, !.legBegan = s.now]
<1>1. a \in MotionType /\ a.seq = s.active.seq /\ a.target = target /\ a.legBegan = s.now
  BY DEF StationType, MotionType
<1>2. l = [s EXCEPT !.active = a, !.state = IF target = "EXTENDED" THEN "EXTENDING" ELSE "RETRACTING"]
  BY DEF Leg, StationType, MotionType
<1> HIDE DEF a, l
<1>3. l \in StationType
  BY <1>1, <1>2 DEF StationType, States
<1>4. /\ SameAuthority(s, l) /\ l.active = a /\ l.alarm = s.alarm /\ l.position = s.position
      /\ l.cache = s.cache
      /\ l.state = IF target = "EXTENDED" THEN "EXTENDING" ELSE "RETRACTING"
  BY <1>2 DEF StationType, SameAuthority
<1> QED BY <1>1, <1>3, <1>4 DEF l

LEMMA ConflictCore ==
  ASSUME NEW s, Core(s), Leased(s)
  PROVE  /\ Core(CheckConflict(s)) /\ SameAuthority(s, CheckConflict(s)) /\ Leased(CheckConflict(s))
         /\ StaysOff(s, CheckConflict(s))
BY TripCore DEF CheckConflict, SameAuthority, Leased, Reasons, StaysOff

LEMMA ArriveCore ==
  ASSUME NEW s, Core(s), Active(s), s.position = s.active.target
  PROVE  /\ Core(Arrive(s)) /\ SameAuthority(s, Arrive(s))
         /\ Prompt(Arrive(s))
<1>1. s \in StationType /\ s.active \in MotionType /\ s.now \in Nat
  BY DEF Core, StationType
<1>2. s.alarm = "NONE" /\ s.active.target \in {"HOME", "EXTENDED"}
  BY <1>1 DEF Core, Outputs, MotionType
<1>3. CASE s.active.target = "EXTENDED" /\ s.active.cycle
  <2> DEFINE v == [s EXCEPT !.visitedExtended = TRUE]
             l == Leg(v, "HOME")
  <2>1. v \in StationType /\ SameAuthority(s, v) /\ v.active = s.active /\ v.alarm = s.alarm
        /\ v.position = s.position /\ v.cache = s.cache
    BY <1>1 DEF StationType, SameAuthority
  <2>2. Arrive(s) = l
    BY <1>3 DEF Arrive
  <2> HIDE DEF v
  <2>3. /\ l \in StationType /\ SameAuthority(v, l)
        /\ l.state = "RETRACTING"
        /\ l.active.seq = s.active.seq /\ l.active.target = "HOME" /\ l.active.legBegan = s.now
        /\ l.alarm = s.alarm /\ l.cache = s.cache
    BY <2>1, LegFacts DEF SameAuthority
  <2> HIDE DEF l
  <2>4. SameAuthority(s, l)
    BY <2>1, <2>3 DEF SameAuthority
  <2>5. Core(l)
    BY <1>1, <1>2, <2>3, <2>4 DEF Core, Clocks, Outputs, InCache, Ruled, InService, Active, SameAuthority
  <2>6. Prompt(l)
    BY <1>1, <2>3, <2>4 DEF Prompt, Elapsed, SameAuthority
  <2> QED BY <2>2, <2>4, <2>5, <2>6
<1>4. CASE s.active.target = "EXTENDED" /\ ~s.active.cycle
  <2> DEFINE v == [[s EXCEPT !.visitedExtended = TRUE] EXCEPT !.state = "EXTENDED"]
             f == Finish(v, "COMPLETED", "NONE")
  <2>1. v \in StationType /\ SameAuthority(s, v) /\ v.active = s.active /\ v.alarm = s.alarm
        /\ v.position = s.position /\ v.state = "EXTENDED"
    BY <1>1 DEF StationType, SameAuthority, States
  <2>2. Arrive(s) = f
    BY <1>4 DEF Arrive
  <2> HIDE DEF v
  <2>3. /\ f \in StationType /\ ~Active(f) /\ SameAuthority(v, f)
        /\ f.state = "EXTENDED" /\ f.alarm = s.alarm /\ f.position = s.position
        /\ f.active.legBegan <= s.active.legBegan
    BY <2>1, FinishFacts DEF Results, Reasons
  <2> HIDE DEF f
  <2>4. SameAuthority(s, f)
    BY <2>1, <2>3 DEF SameAuthority
  <2>5. f.active.legBegan \in Nat /\ s.active.legBegan \in Nat
    BY <1>1, <2>3 DEF StationType, MotionType
  <2>6. Core(f)
    BY <1>1, <1>2, <1>4, <2>3, <2>4, <2>5 DEF Core, Clocks, Outputs, InCache, Ruled, InService, Active, SameAuthority
  <2> QED BY <2>2, <2>3, <2>4, <2>6 DEF Prompt
<1>5. CASE s.active.target = "HOME"
  <2> DEFINE n == IF s.visitedExtended THEN s.cycles + 1 ELSE s.cycles
  <2>a. n \in Nat
    BY <1>1 DEF StationType
  <2> HIDE DEF n
  <2> DEFINE v == [s EXCEPT !.state = "IDLE", !.visitedExtended = FALSE, !.cycles = n]
             f == Finish(v, "COMPLETED", "NONE")
  <2>1. v \in StationType /\ SameAuthority(s, v) /\ v.active = s.active /\ v.alarm = s.alarm
        /\ v.position = s.position /\ v.state = "IDLE"
    BY <1>1, <2>a DEF StationType, SameAuthority, States
  <2>2. Arrive(s) = f
    BY <1>1, <1>5 DEF Arrive, n, StationType
  <2> HIDE DEF v
  <2>3. /\ f \in StationType /\ ~Active(f) /\ SameAuthority(v, f)
        /\ f.state = "IDLE" /\ f.alarm = s.alarm /\ f.position = s.position
        /\ f.active.legBegan <= s.active.legBegan
    BY <2>1, FinishFacts DEF Results, Reasons
  <2> HIDE DEF f
  <2>4. SameAuthority(s, f)
    BY <2>1, <2>3 DEF SameAuthority
  <2>5. f.active.legBegan \in Nat /\ s.active.legBegan \in Nat
    BY <1>1, <2>3 DEF StationType, MotionType
  <2>6. Core(f)
    BY <1>1, <1>2, <1>5, <2>3, <2>4, <2>5 DEF Core, Clocks, Outputs, InCache, Ruled, InService, Active, SameAuthority
  <2> QED BY <2>2, <2>3, <2>4, <2>6 DEF Prompt
<1> QED BY <1>2, <1>3, <1>4, <1>5

LEMMA TravelCore ==
  ASSUME NEW s, Core(s), Leased(s)
  PROVE  /\ Core(Travel(s)) /\ SameAuthority(s, Travel(s))
         /\ Leased(Travel(s)) /\ Prompt(Travel(s)) /\ StaysOff(s, Travel(s))
<1> DEFINE moved == [s EXCEPT !.position = PlaceNow(s)]
<1>1. CASE ~Active(s)
  BY <1>1 DEF Travel, SameAuthority, Prompt, StaysOff
<1>2. CASE Active(s)
  <2>0. StaysOff(s, Travel(s))
    BY <1>2 DEF StaysOff, Core, Outputs
  <2>1. moved \in StationType
    <3>1. PlaceNow(s) \in Places
      BY DEF PlaceNow, Places, Core, StationType, MotionType
    <3> QED BY <3>1 DEF Core, StationType
  <2>2. /\ SameAuthority(s, moved) /\ moved.active = s.active /\ moved.state = s.state
        /\ moved.alarm = s.alarm /\ moved.cache = s.cache
    BY DEF Core, StationType, SameAuthority
  <2>3. moved.position = PlaceNow(s)
    BY DEF Core, StationType
  <2> HIDE DEF moved
  <2>4. Core(moved) /\ Active(moved)
    BY <1>2, <2>1, <2>2 DEF Core, Clocks, Outputs, InCache, Ruled, InService, Active, SameAuthority
  <2>5. CASE Reached(moved)
    <3>1. Travel(s) = Arrive(moved)
      BY <1>2, <2>5 DEF Travel, moved
    <3>2. Core(Arrive(moved)) /\ SameAuthority(moved, Arrive(moved)) /\ Prompt(Arrive(moved))
      BY <2>4, <2>5, ArriveCore DEF Reached
    <3> QED BY <2>0, <2>2, <3>1, <3>2 DEF SameAuthority, Leased
  <2>6. CASE ~Reached(moved) /\ Elapsed(s) >= TimeoutMs
    <3>1. Travel(s) = Trip(moved, "ACTION_TIMEOUT")
      BY <1>2, <2>6 DEF Travel, moved
    <3>2. LET p == Trip(moved, "ACTION_TIMEOUT")
          IN  Core(p) /\ SameAuthority(moved, p) /\ ~Active(p)
      BY <2>4, TripCore DEF Reasons
    <3> QED BY <2>0, <2>2, <3>1, <3>2 DEF SameAuthority, Leased, Prompt
  <2>7. CASE ~Reached(moved) /\ ~(Elapsed(s) >= TimeoutMs)
    <3>1. Travel(s) = moved
      BY <1>2, <2>7 DEF Travel, moved
    <3>2. Elapsed(moved) = Elapsed(s) /\ Elapsed(s) \in Int
      BY <2>2 DEF Elapsed, SameAuthority, Core, StationType, MotionType
    <3> QED BY <2>0, <2>2, <2>4, <2>7, <3>1, <3>2 DEF SameAuthority, Leased, Prompt
  <2> QED BY <2>5, <2>6, <2>7
<1> QED BY <1>1, <1>2

LEMMA TickCore ==
  ASSUME NEW s, Core(s), NEW t \in Nat, s.now <= t
  PROVE  LET r == Tick(s, t) IN
         /\ Core(r) /\ Leased(r) /\ Prompt(r)
         /\ r.boot = s.boot /\ r.now = t /\ r.highwater = s.highwater
         /\ r.motionStarts = s.motionStarts /\ StaysOff(s, r)
         /\ \/ r.owner = s.owner /\ r.retired = s.retired
            \/ /\ s.owner # 0 /\ r.owner = 0
               /\ r.retired = [s.retired EXCEPT ![s.owner] = t + RetireMs]
<1> DEFINE a == AtTime(s, t)
           b == CheckLease(a)
           c == CheckConflict(b)
           d == Travel(c)
<1>1. /\ Core(a) /\ a.now = t
      /\ a.boot = s.boot /\ a.owner = s.owner /\ a.highwater = s.highwater
      /\ a.retired = s.retired /\ a.motionStarts = s.motionStarts /\ StaysOff(s, a)
  BY AtTimeCore
<1> HIDE DEF a
<1>2. /\ Core(b) /\ Leased(b)
      /\ b.boot = a.boot /\ b.now = a.now /\ b.highwater = a.highwater
      /\ b.motionStarts = a.motionStarts /\ StaysOff(a, b)
      /\ \/ b.owner = a.owner /\ b.retired = a.retired
         \/ Released(a, b)
  BY <1>1, CheckLeaseCore
<1> HIDE DEF b
<1>3. Core(c) /\ SameAuthority(b, c) /\ Leased(c) /\ StaysOff(b, c)
  BY <1>2, ConflictCore
<1> HIDE DEF c
<1>4. Core(d) /\ SameAuthority(c, d) /\ Leased(d) /\ Prompt(d) /\ StaysOff(c, d)
  BY <1>3, TravelCore
<1>5. Tick(s, t) = d
  BY DEF Tick, a, b, c
<1> HIDE DEF d
<1>6. StaysOff(s, d)
  BY <1>1, <1>2, <1>3, <1>4 DEF StaysOff
<1> QED BY <1>1, <1>2, <1>3, <1>4, <1>5, <1>6 DEF SameAuthority, Released

\* A tick brings the clock, and at most takes the device from its owner.
LEMMA TickDrops ==
  ASSUME NEW s, Core(s), NEW t \in Nat, s.now <= t
  PROVE  /\ Tick(s, t).now = t
         /\ \/ Tick(s, t).owner = s.owner /\ Tick(s, t).retired = s.retired
            \/ s.owner # 0 /\ Tick(s, t).owner = 0
BY ZenonT(60), TickCore

LEMMA TickOwner ==
  ASSUME NEW s, Core(s), NEW t \in Nat, s.now <= t
  PROVE  /\ StaysOff(s, Tick(s, t))
         /\ Tick(s, t).owner # 0 => Tick(s, t).retired = s.retired
<1> DEFINE r == Tick(s, t)
<1>1. /\ StaysOff(s, r)
      /\ \/ r.owner = s.owner /\ r.retired = s.retired
         \/ /\ s.owner # 0 /\ r.owner = 0
            /\ r.retired = [s.retired EXCEPT ![s.owner] = t + RetireMs]
  BY TickCore
<1> HIDE DEF r
<1> QED BY <1>1 DEF r

LEMMA CommandFacts ==
  ASSUME NEW c \in Commands
  PROVE  c.seq \in Nat /\ c.boot \in Nat /\ c.deadline \in Nat /\ c.session \in Sessions \union {0}
BY DEF CommandType

LEMMA CachedFacts ==
  ASSUME NEW s \in StationType, NEW c \in Commands, NEW r \in Results, NEW q \in Reasons
  PROVE  LET x == Cached(s, c, r, q) IN
         /\ x \in StationType /\ SameAuthority(s, x)
         /\ x.state = s.state /\ x.alarm = s.alarm /\ x.position = s.position
         /\ x.active = s.active /\ x.fault = s.fault
         /\ (InCache(s) /\ c.seq # s.active.seq) => InCache(x)
         /\ (c.seq = s.active.seq /\ r = "ACCEPTED") => InCache(x)
<1> DEFINE x == Cached(s, c, r, q)
           all == {e \in s.cache : e.cmd.seq # c.seq} \union {Entry(c, r, q)}
           kept == Trimmed(all, s.active.seq)
           a == [seq |-> c.seq, result |-> r, reason |-> q]
<1>1. all \in SUBSET EntryType
  BY DEF StationType, EntryType, Entry
<1>2. a \in AckType
  BY CommandFacts DEF AckType
<1>3. x = [s EXCEPT !.cache = kept, !.ack = a]
  BY DEF Cached
<1>4. Entry(c, r, q).cmd = c /\ Entry(c, r, q).result = r
  BY DEF Entry
<1>5. \A e \in all : e.cmd.seq = s.active.seq => e \in kept
  BY DEF Trimmed
<1>6. kept \in SUBSET EntryType
  BY <1>1 DEF Trimmed
<1>7. ASSUME InCache(s), Active(s), c.seq # s.active.seq
      PROVE  \E e \in kept : e.cmd.seq = s.active.seq /\ e.result = "ACCEPTED"
  <2>1. PICK e \in s.cache : e.cmd.seq = s.active.seq /\ e.result = "ACCEPTED"
    BY <1>7 DEF InCache
  <2>2. e \in all
    BY <2>1, <1>7
  <2> QED BY <2>1, <2>2, <1>5
<1>8. ASSUME c.seq = s.active.seq, r = "ACCEPTED"
      PROVE  \E e \in kept : e.cmd.seq = s.active.seq /\ e.result = "ACCEPTED"
  BY <1>4, <1>5, <1>8
<1> HIDE DEF x, all, kept, a
<1>9. /\ x \in StationType /\ SameAuthority(s, x)
      /\ x.state = s.state /\ x.alarm = s.alarm /\ x.position = s.position
      /\ x.active = s.active /\ x.fault = s.fault /\ x.cache = kept
  BY <1>2, <1>3, <1>6 DEF StationType, SameAuthority
<1> QED BY <1>7, <1>8, <1>9 DEF InCache, Active, x

\* What holds of the machine and of a block whose sequence number was just consumed.
Ready(s, c) ==
    /\ Core(s) /\ Leased(s) /\ Prompt(s)
    /\ c.session # 0 /\ c.seq # 0 /\ c.action \in Actions
    /\ s.highwater = c.seq
    /\ Active(s) => s.active.seq < c.seq
    /\ IF c.action = "ARM"
       THEN ~Active(s) /\ s.owner \in {0, c.session} /\ s.retired[c.session] <= s.now
       ELSE s.owner = c.session

Governed(s, c, r) ==
    /\ r.boot = s.boot /\ r.now = s.now /\ r.retired = s.retired
    /\ r.highwater = s.highwater /\ r.motionStarts = s.motionStarts
    /\ r.owner = IF c.action = "ARM" THEN c.session ELSE s.owner

LEMMA StopCore ==
  ASSUME NEW s, Core(s)
  PROVE  Core(StopMotion(s)) /\ SameAuthority(s, StopMotion(s)) /\ ~Active(StopMotion(s))
<1> DEFINE f == Finish(s, "FAILED", "STOPPED")
           w == IF f.state = "FAULT" THEN "FAULT" ELSE RestState(f)
<1>1. /\ f \in StationType /\ ~Active(f) /\ SameAuthority(s, f)
      /\ f.state = s.state /\ f.alarm = s.alarm /\ f.position = s.position
      /\ f.active.legBegan <= s.active.legBegan
  BY FinishFacts DEF Core, Results, Reasons
<1> HIDE DEF f
<1>2. StopMotion(s) = [f EXCEPT !.state = w]
  BY DEF StopMotion, f
<1>3. w \in States /\ (w = "FAULT" <=> f.state = "FAULT") /\ w \notin {"EXTENDING", "RETRACTING"}
      /\ (w = "IDLE" => f.position = "HOME") /\ (w = "EXTENDED" => f.position = "EXTENDED")
      /\ (w = "STOPPED" => f.position = "BETWEEN")
  BY <1>1 DEF RestState, States, StationType, Places
<1> HIDE DEF w
<1> DEFINE z == StopMotion(s)
<1>4. /\ z \in StationType /\ SameAuthority(s, z) /\ z.state = w /\ z.alarm = s.alarm
      /\ z.position = s.position /\ z.active = f.active
  BY <1>1, <1>2, <1>3 DEF StationType, SameAuthority
<1>5. s.active.legBegan \in Nat /\ f.active.legBegan \in Nat /\ s.now \in Nat
  BY <1>1 DEF Core, StationType, MotionType
<1> HIDE DEF z
<1>6. Core(z)
  BY <1>1, <1>3, <1>4, <1>5 DEF Core, Clocks, Outputs, InCache, Ruled, InService, Active, SameAuthority
<1> QED BY <1>1, <1>4, <1>6 DEF Active, z

LEMMA EffectCore ==
  ASSUME NEW s, NEW c \in Commands, Ready(s, c), c.action \notin Motions, Denial(s, c) = "NONE"
  PROVE  LET e == Effect(s, c) IN Core(e) /\ ~Active(e) /\ Governed(s, c, e)
<1> DEFINE e == Effect(s, c)
<1>0. Core(s) /\ s \in StationType
  BY DEF Ready, Core
<1>1. CASE c.action = "ARM"
  <2>1. e = [s EXCEPT !.owner = c.session, !.lastKeepalive = s.now]
    BY <1>1 DEF Effect
  <2>2. /\ e \in StationType /\ e.owner = c.session /\ e.lastKeepalive = s.now
        /\ e.boot = s.boot /\ e.now = s.now /\ e.retired = s.retired
        /\ e.highwater = s.highwater /\ e.motionStarts = s.motionStarts
        /\ e.active = s.active /\ e.state = s.state /\ e.alarm = s.alarm
        /\ e.position = s.position
    BY ZenonT(60), <1>0, <2>1, CommandFacts DEF StationType
  <2>3. ~Active(s) /\ s.retired[c.session] <= s.now /\ s.now \in Nat
    BY <1>0, <1>1 DEF Ready, StationType
  <2> HIDE DEF e
  <2>4. Core(e)
    BY <1>0, <2>2, <2>3 DEF Core, Clocks, Outputs, InCache, Ruled, InService, Active
  <2> QED BY <1>1, <2>2, <2>3, <2>4 DEF Governed, Active, e
<1>2. CASE c.action = "STOP"
  BY <1>0, <1>2, StopCore DEF Effect, Governed, SameAuthority
<1>3. CASE c.action \in {"INJECT", "RESET", "MODE"}
  <2>1. ~Active(s)
    BY <1>3 DEF Denial
  <2>2. /\ e \in StationType /\ SameAuthority(s, e) /\ e.active = s.active
        /\ e.position = s.position
        /\ \/ e.state = s.state /\ e.alarm = s.alarm
           \/ e.state = RestState(s) /\ e.alarm = "NONE"
    <3>1. CASE c.action = "INJECT"
      <4>1. c.param \in Faults
        BY <3>1, <2>1 DEF Denial
      <4>2. e = [s EXCEPT !.fault = c.param, !.faultUntil = s.now + FaultMs]
        BY <3>1 DEF Effect
      <4>3. s.now + FaultMs \in Nat
        BY <1>0 DEF StationType
      <4> QED BY ZenonT(60), <1>0, <4>1, <4>2, <4>3 DEF StationType, SameAuthority
    <3>2. CASE c.action = "RESET"
      <4>1. e = [s EXCEPT !.alarm = "NONE", !.state = RestState(s)]
        BY <3>2 DEF Effect
      <4>2. RestState(s) \in States /\ "NONE" \in Reasons
        BY <1>0 DEF RestState, States, Reasons, StationType, Places
      <4> QED BY ZenonT(60), <1>0, <4>1, <4>2 DEF StationType, SameAuthority
    <3>3. CASE c.action = "MODE"
      <4>1. c.param \in Modes
        BY <3>3, <2>1 DEF Denial, Motions
      <4>2. e = [s EXCEPT !.mode = c.param]
        BY <3>3 DEF Effect
      <4> QED BY <1>0, <4>1, <4>2 DEF StationType, SameAuthority
    <3> QED BY <1>3, <3>1, <3>2, <3>3
  <2>3. s.position \in Places
    BY <1>0 DEF StationType
  <2>4. RestState(s) = IF s.position = "HOME" THEN "IDLE"
                       ELSE IF s.position = "EXTENDED" THEN "EXTENDED" ELSE "STOPPED"
    BY <2>3 DEF RestState, Places
  <2> HIDE DEF e
  <2>5. Core(e)
    BY <1>0, <2>1, <2>2, <2>3, <2>4 DEF Core, Clocks, Outputs, InCache, Ruled, InService, Active, SameAuthority, Places
  <2> QED BY <1>3, <2>1, <2>2, <2>5 DEF Governed, SameAuthority, Active, e
<1> QED BY <1>1, <1>2, <1>3 DEF Ready, Actions

LEMMA StartCore ==
  ASSUME NEW s, NEW c \in Commands, Ready(s, c), c.action \in Motions, Denial(s, c) = "NONE"
  PROVE  LET r == StartMotion(s, c) IN
         /\ Core(r) /\ Leased(r) /\ Prompt(r)
         /\ r.boot = s.boot /\ r.now = s.now /\ r.retired = s.retired /\ r.owner = s.owner
         /\ r.highwater = s.highwater /\ r.motionStarts = s.motionStarts + 1
<1> DEFINE m == [NoMotion EXCEPT !.seq = c.seq, !.cycle = (c.action = "CYCLE")]
           n == s.motionStarts + 1
           b == [s EXCEPT !.active = m, !.motionStarts = n]
           target == IF c.action = "RETRACT" THEN "HOME" ELSE "EXTENDED"
           l == Leg(b, target)
           r == Cached(l, c, "ACCEPTED", "NONE")
<1>0. s \in StationType /\ Core(s) /\ c.seq \in Nat
  BY CommandFacts DEF Ready, Core
<1>1. ~Active(s) /\ s.alarm = "NONE"
  BY DEF Denial, Motions
<1>2. m \in MotionType /\ m.seq = c.seq
  BY <1>0 DEF NoMotion, MotionType, Places
<1>3. StartMotion(s, c) = r
  BY <1>0 DEF StartMotion, StationType
<1>n. n \in Nat
  BY <1>0 DEF StationType
<1> HIDE DEF m, n
<1>4. /\ b \in StationType /\ b.active.seq = c.seq
      /\ b.boot = s.boot /\ b.now = s.now /\ b.owner = s.owner /\ b.highwater = s.highwater
      /\ b.retired = s.retired /\ b.lastKeepalive = s.lastKeepalive
      /\ b.motionStarts = n /\ b.alarm = s.alarm
  BY <1>0, <1>2, <1>n DEF StationType
<1> HIDE DEF b
<1>5. target \in {"HOME", "EXTENDED"}
  OBVIOUS
<1> HIDE DEF target
<1>6. /\ l \in StationType /\ SameAuthority(b, l)
      /\ l.state = IF target = "EXTENDED" THEN "EXTENDING" ELSE "RETRACTING"
      /\ l.active.seq = c.seq /\ l.active.target = target /\ l.active.legBegan = b.now
      /\ l.alarm = "NONE"
  BY <1>1, <1>4, <1>5, LegFacts
<1> HIDE DEF l
<1>7. /\ r \in StationType /\ SameAuthority(l, r)
      /\ r.state = l.state /\ r.alarm = l.alarm /\ r.active = l.active /\ InCache(r)
  BY ZenonT(60), <1>6, CachedFacts DEF Results, Reasons
<1> HIDE DEF r
<1>8. /\ r.boot = s.boot /\ r.now = s.now /\ r.retired = s.retired /\ r.owner = s.owner
      /\ r.highwater = s.highwater /\ r.motionStarts = s.motionStarts + 1
      /\ r.lastKeepalive = s.lastKeepalive /\ r.active.legBegan = s.now
      /\ r.active.seq = c.seq /\ r.alarm = "NONE" /\ r.active.target = target
      /\ r.state = IF target = "EXTENDED" THEN "EXTENDING" ELSE "RETRACTING"
  BY <1>4, <1>6, <1>7 DEF SameAuthority, n
<1>9. c.seq # 0 /\ c.session # 0 /\ s.owner = c.session /\ s.highwater = c.seq /\ s.now \in Nat
      /\ c.seq \in Nat
  BY <1>0 DEF Ready, Motions, StationType
<1>10. Core(r)
  BY <1>0, <1>5, <1>7, <1>8, <1>9 DEF Core, Clocks, Outputs, Ruled, InService, Active
<1>11. Leased(r) /\ Prompt(r)
  BY <1>8, <1>9 DEF Ready, Leased, Prompt, Elapsed
<1> QED BY <1>3, <1>8, <1>10, <1>11

LEMMA HistorySame ==
  ASSUME NEW s, NEW r, NEW st, History(s, st), SameAuthority(s, r)
  PROVE  History(r, st)
BY DEF History, SameAuthority, Spent

LEMMA HistoryTick ==
  ASSUME NEW s, Core(s), NEW t \in Nat, s.now <= t, NEW st, History(s, st)
  PROVE  History(Tick(s, t), st)
<1> DEFINE r == Tick(s, t)
<1>1. /\ r.boot = s.boot /\ r.now = t /\ r.highwater = s.highwater
      /\ r.motionStarts = s.motionStarts
      /\ \/ r.owner = s.owner /\ r.retired = s.retired
         \/ /\ s.owner # 0 /\ r.owner = 0
            /\ r.retired = [s.retired EXCEPT ![s.owner] = t + RetireMs]
  BY TickCore
<1> HIDE DEF r
<1>2. /\ s.now \in Nat /\ s.boot \in Nat /\ s.highwater \in Nat
      /\ s.retired \in [Sessions -> Nat] /\ s.owner \in Sessions \union {0}
  BY DEF Core, StationType
<1>3. ASSUME NEW c \in st, c.boot = s.boot
      PROVE  c.deadline <= r.now + HorizonMs /\ Spent(r, c)
  <2>1. c \in Commands /\ c.session # 0 /\ c.deadline <= s.now + HorizonMs /\ Spent(s, c)
    BY <1>3 DEF History
  <2>2. c.session \in Sessions /\ c.seq \in Nat /\ c.deadline \in Nat
    BY <2>1, CommandFacts
  <2>3. c.deadline <= t + HorizonMs
    BY <1>2, <2>1, <2>2
  <2>4. CASE r.owner = s.owner /\ r.retired = s.retired
    BY <1>1, <1>2, <2>1, <2>2, <2>4 DEF Spent
  <2>5. CASE /\ s.owner # 0 /\ r.owner = 0
             /\ r.retired = [s.retired EXCEPT ![s.owner] = t + RetireMs]
    <3>1. CASE c.session = s.owner
      <4>1. r.retired[c.session] = t + RetireMs
        BY <1>2, <2>5, <3>1
      <4>2. c.deadline <= t + RetireMs
        BY <2>2, <2>3
      <4> QED BY <1>1, <2>3, <4>1, <4>2 DEF Spent
    <3>2. CASE c.session # s.owner
      <4>1. r.retired[c.session] = s.retired[c.session]
        BY <1>2, <2>2, <2>5, <3>2
      <4> QED BY <4>1, <1>1, <1>2, <2>1, <2>2, <3>2 DEF Spent
    <3> QED BY <3>1, <3>2
  <2> QED BY <1>1, <2>3, <2>4, <2>5
<1> QED BY <1>1, <1>3 DEF History, r

LEMMA PerformCore ==
  ASSUME NEW s, NEW c \in Commands, Ready(s, c), c.boot = s.boot, ~OutOfTime(s, c),
         NEW st, History(s, st), c.action \in Motions => c \notin st
  PROVE  LET r == Perform(s, c) IN
         /\ Core(r) /\ Leased(r) /\ Prompt(r) /\ Handled(s, r)
         /\ History(r, IF r.motionStarts # s.motionStarts THEN st \union {c} ELSE st)
<1> DEFINE r == Perform(s, c)
<1>0. /\ Core(s) /\ Leased(s) /\ Prompt(s) /\ s \in StationType
      /\ s.now \in Nat /\ s.boot \in Nat /\ s.motionStarts \in Nat
      /\ c.seq \in Nat /\ c.boot \in Nat /\ c.deadline \in Nat /\ c.session \in Sessions
  BY CommandFacts DEF Ready, Core, StationType
<1>1. CASE Denial(s, c) # "NONE"
  <2> DEFINE x == Cached(s, c, "REJECTED", Denial(s, c))
  <2>1. r = x
    BY <1>1 DEF Perform
  <2>2. Denial(s, c) \in Reasons /\ "REJECTED" \in Results
    BY DEF Denial, Reasons, Results
  <2>3. s.active.seq # c.seq
    <3>1. s.active.seq \in Nat
      BY <1>0 DEF StationType, MotionType
    <3> QED BY <1>0, <3>1 DEF Ready, Active
  <2>4. InCache(s)
    BY <1>0 DEF Core
  <2>5. /\ x \in StationType /\ SameAuthority(s, x) /\ InCache(x)
        /\ x.state = s.state /\ x.alarm = s.alarm /\ x.position = s.position
        /\ x.active = s.active
    BY <1>0, <2>2, <2>3, <2>4, CachedFacts
  <2> HIDE DEF x
  <2>6. Core(x) /\ Leased(x) /\ Prompt(x)
    BY <1>0, <2>5 DEF Core, Clocks, Outputs, Ruled, InService, Leased, Prompt, Elapsed, Active, SameAuthority
  <2>7. History(x, st)
    BY <2>5, HistorySame
  <2>8. Handled(s, x)
    BY <1>0, <2>5 DEF Handled, SameAuthority, Core, Outputs, Active
  <2> QED BY <2>1, <2>5, <2>6, <2>7, <2>8 DEF SameAuthority
<1>2. CASE Denial(s, c) = "NONE" /\ c.action \in Motions
  <2>1. r = StartMotion(s, c)
    BY <1>2 DEF Perform
  <2>2. /\ Core(r) /\ Leased(r) /\ Prompt(r)
        /\ r.boot = s.boot /\ r.now = s.now /\ r.retired = s.retired /\ r.owner = s.owner
        /\ r.highwater = s.highwater /\ r.motionStarts = s.motionStarts + 1
    BY <1>2, <2>1, StartCore
  <2> HIDE DEF r
  <2>3. r.motionStarts # s.motionStarts
    BY <1>0, <2>2
  <2>4. History(r, st \union {c})
    <3>1. st \union {c} \subseteq Commands /\ IsFiniteSet(st \union {c})
      BY FS_AddElement DEF History
    <3>2. Cardinality({d \in st \union {c} : d.boot = s.boot})
             = Cardinality({d \in st : d.boot = s.boot}) + 1
      <4> DEFINE now == {d \in st : d.boot = s.boot}
      <4>1. IsFiniteSet(now)
        BY FS_Subset DEF History
      <4>2. {d \in st \union {c} : d.boot = s.boot} = now \union {c}
        OBVIOUS
      <4>3. c \notin now
        BY <1>2
      <4> HIDE DEF now
      <4>4. Cardinality(now \union {c}) = Cardinality(now) + 1
        BY <4>1, <4>3, FS_AddElement
      <4> QED BY <4>2, <4>4 DEF now
    <3>3. r.motionStarts = Cardinality({d \in st \union {c} : d.boot = r.boot})
      BY <2>2, <3>2 DEF History
    <3>4. ASSUME NEW d \in st
          PROVE  /\ d.session # 0 /\ d.boot <= r.boot
                 /\ d.boot = r.boot => d.deadline <= r.now + HorizonMs /\ Spent(r, d)
      BY <2>2 DEF History, Spent
    <3>5. c.session # 0 /\ c.boot <= r.boot /\ c.deadline <= r.now + HorizonMs /\ Spent(r, c)
      BY <1>0, <1>2, <2>2 DEF Ready, OutOfTime, Spent, Motions
    <3> QED BY <3>1, <3>3, <3>4, <3>5 DEF History
  <2>5. s.alarm = "NONE"
    BY <1>2 DEF Denial, Motions
  <2> QED BY <2>2, <2>3, <2>4, <2>5 DEF r, Handled
<1>3. CASE Denial(s, c) = "NONE" /\ c.action \notin Motions
  <2> DEFINE e == Effect(s, c)
             x == Cached(e, c, "COMPLETED", "NONE")
  <2>1. Core(e) /\ ~Active(e) /\ Governed(s, c, e)
    BY <1>3, EffectCore
  <2>2. r = Tick(x, s.now)
    BY <1>3 DEF Perform
  <2> HIDE DEF e
  <2>3. /\ x \in StationType /\ SameAuthority(e, x)
        /\ x.state = e.state /\ x.alarm = e.alarm /\ x.position = e.position
        /\ x.active = e.active
    BY <2>1, CachedFacts DEF Core, Results, Reasons
  <2> HIDE DEF x
  <2>4. Core(x)
    BY <2>1, <2>3 DEF Core, Clocks, Outputs, InCache, Ruled, InService, Active, SameAuthority
  <2>5. Governed(s, c, x)
    BY <2>1, <2>3 DEF Governed, SameAuthority
  <2>6. History(x, st)
    <3>1. ASSUME NEW d \in st, d.boot = s.boot, Spent(s, d), d.session # 0
          PROVE  Spent(x, d)
      BY <2>5, <3>1 DEF Governed, Spent, Ready
    <3> QED BY <2>5, <3>1 DEF History, Governed
  <2>7. x.now = s.now
    BY <2>5 DEF Governed
  <2> HIDE DEF r
  <2>a. x.now <= s.now
    BY <1>0, <2>7
  <2>8. /\ Core(r) /\ Leased(r) /\ Prompt(r) /\ r.boot = x.boot /\ r.now = s.now
        /\ r.motionStarts = x.motionStarts
    BY <1>0, <2>2, <2>4, <2>a, TickCore
  <2>b. StaysOff(x, r) /\ (r.owner # 0 => r.retired = x.retired)
    BY <1>0, <2>2, <2>4, <2>a, TickOwner
  <2>9. History(r, st)
    BY <1>0, <2>2, <2>4, <2>6, <2>a, HistoryTick
  <2>10. Handled(s, r)
    <3>1. ~Active(r)
      BY <2>1, <2>3, <2>b DEF StaysOff, Active
    <3> QED BY <2>5, <2>8, <2>b, <3>1 DEF Handled, Governed
  <2> QED BY <2>5, <2>8, <2>9, <2>10 DEF Governed, r
<1> QED BY <1>1, <1>2, <1>3

LEMMA AcknowledgedSound ==
  ASSUME NEW s, NEW st, Sound(s, st), NEW a \in AckType
  PROVE  /\ Sound([s EXCEPT !.ack = a], st) /\ SameAuthority(s, [s EXCEPT !.ack = a])
         /\ Handled(s, [s EXCEPT !.ack = a])
<1> DEFINE x == [s EXCEPT !.ack = a]
<1>1. s \in StationType
  BY DEF Sound, Core
<1>2. /\ x \in StationType /\ SameAuthority(s, x) /\ x.state = s.state /\ x.alarm = s.alarm
      /\ x.position = s.position /\ x.active = s.active /\ x.cache = s.cache
  BY <1>1 DEF StationType, SameAuthority
<1> HIDE DEF x
<1>3. Core(x) /\ Leased(x) /\ Prompt(x)
  BY <1>2 DEF Sound, Core, Clocks, Outputs, InCache, Ruled, InService, Leased, Prompt, Elapsed, Active, SameAuthority
<1>4. History(x, st)
  BY <1>2, HistorySame DEF Sound
<1>5. Handled(s, x)
  BY <1>2 DEF Handled, SameAuthority, Sound, Core, Outputs, Active
<1> QED BY <1>2, <1>3, <1>4, <1>5 DEF Sound, x

LEMMA NamespaceSound ==
  ASSUME NEW s, NEW st, Sound(s, st), NEW c \in Commands, Refusal(s, c) = "NONE"
  PROVE  LET n == Namespace(s, c) IN
         /\ Sound(n, st) /\ n.boot = s.boot /\ n.now = s.now /\ n.owner = s.owner
         /\ n.retired = s.retired /\ n.motionStarts = s.motionStarts /\ n.active = s.active
         /\ n.alarm = s.alarm
         /\ c.action # "ARM" => n = s
<1> DEFINE n == Namespace(s, c)
<1>1. CASE ~(c.action = "ARM" /\ s.owner # c.session)
  BY <1>1 DEF Namespace
<1>2. CASE c.action = "ARM" /\ s.owner # c.session
  <2>1. s.owner = 0 /\ ~Active(s)
    BY <1>2 DEF Refusal, Actions
  <2>2. n = [s EXCEPT !.cache = {}, !.highwater = 0, !.keepaliveCounter = 0, !.finished = NoAck]
    BY <1>2 DEF Namespace
  <2>3. s \in StationType /\ NoAck \in AckType
    BY DEF Sound, Core, NoAck, AckType, Results, Reasons
  <2> HIDE DEF n
  <2>4. /\ n \in StationType /\ n.boot = s.boot /\ n.now = s.now /\ n.owner = s.owner
        /\ n.retired = s.retired /\ n.motionStarts = s.motionStarts /\ n.active = s.active
        /\ n.state = s.state /\ n.alarm = s.alarm /\ n.position = s.position
        /\ n.lastKeepalive = s.lastKeepalive
    BY <2>2, <2>3 DEF StationType
  <2>5. Core(n) /\ Leased(n) /\ Prompt(n)
    BY <2>1, <2>4 DEF Sound, Core, Clocks, Outputs, InCache, Ruled, InService, Leased, Prompt, Active
  <2>6. History(n, st)
    BY <2>1, <2>4 DEF Sound, History, Spent
  <2> QED BY <1>2, <2>4, <2>5, <2>6 DEF Sound, n
<1> QED BY <1>1, <1>2

\* A number above the mark is consumed: the machine is ready for the block.
LEMMA AdmitReady ==
  ASSUME NEW s, NEW st, Sound(s, st), NEW c \in Commands, Refusal(s, c) = "NONE",
         NEW n, n = Namespace(s, c), ~(c.seq <= n.highwater)
  PROVE  LET h == [n EXCEPT !.highwater = c.seq] IN
         /\ Ready(h, c) /\ History(h, st)
         /\ h.boot = n.boot /\ h.now = n.now /\ h.owner = n.owner
         /\ h.motionStarts = n.motionStarts /\ h.alarm = n.alarm
         /\ h.retired = n.retired /\ h.cache = n.cache
<1> DEFINE h == [n EXCEPT !.highwater = c.seq]
<1>1. /\ Sound(n, st) /\ n.boot = s.boot /\ n.now = s.now /\ n.owner = s.owner
      /\ n.retired = s.retired /\ n.active = s.active
  BY NamespaceSound
<1>2. n \in StationType /\ c.seq \in Nat /\ c.session \in Sessions \union {0}
  BY <1>1, CommandFacts DEF Sound, Core
<1>3. n.highwater \in Nat /\ n.highwater < c.seq /\ n.active.seq \in Nat
  BY <1>2 DEF StationType, MotionType
<1>4. /\ h \in StationType /\ h.highwater = c.seq /\ h.boot = n.boot /\ h.now = n.now
      /\ h.owner = n.owner /\ h.retired = n.retired /\ h.motionStarts = n.motionStarts
      /\ h.active = n.active /\ h.state = n.state /\ h.alarm = n.alarm
      /\ h.position = n.position /\ h.lastKeepalive = n.lastKeepalive /\ h.cache = n.cache
  BY <1>2 DEF StationType
<1> HIDE DEF h
<1>5. Core(h) /\ Leased(h) /\ Prompt(h)
  BY <1>1, <1>2, <1>3, <1>4 DEF Sound, Core, Clocks, Outputs, InCache, Ruled, InService, Leased, Prompt, Elapsed, Active
<1>6. History(h, st)
  <2>1. ASSUME NEW d \in st, Spent(n, d)
        PROVE  Spent(h, d)
    <3>1. d.seq \in Nat
      BY <1>1, CommandFacts DEF Sound, History
    <3> QED BY <1>2, <1>3, <1>4, <2>1, <3>1 DEF Spent
  <2> QED BY ZenonT(60), <1>1, <1>4, <2>1 DEF Sound, History
<1>7. Active(h) => h.active.seq < c.seq
  BY <1>1, <1>2, <1>3, <1>4 DEF Sound, Core, Ruled, Active
<1>8. c.session # 0 /\ c.seq # 0 /\ c.action \in Actions
  BY DEF Refusal
<1>9. IF c.action = "ARM"
      THEN ~Active(h) /\ h.owner \in {0, c.session} /\ ~(h.retired[c.session] > h.now)
      ELSE h.owner = c.session
  BY <1>1, <1>4 DEF Refusal, Active
<1>10. h.now \in Nat /\ h.retired[c.session] \in Nat
  BY <1>2, <1>4, <1>8 DEF StationType
<1>11. Ready(h, c)
  BY <1>4, <1>5, <1>7, <1>8, <1>9, <1>10 DEF Ready
<1> QED BY <1>4, <1>6, <1>11 DEF h

LEMMA AdmitSound ==
  ASSUME NEW s, NEW st, Sound(s, st), NEW c \in Commands, Refusal(s, c) = "NONE", ~OutOfTime(s, c)
  PROVE  LET r == Admit(s, c) IN
         /\ Handled(s, r)
         /\ Sound(r, IF r.motionStarts # s.motionStarts THEN st \union {c} ELSE st)
<1> DEFINE n == Namespace(s, c)
           h == [n EXCEPT !.highwater = c.seq]
           r == Admit(s, c)
<1>1. /\ Sound(n, st) /\ n.boot = s.boot /\ n.now = s.now /\ n.owner = s.owner
      /\ n.retired = s.retired /\ n.motionStarts = s.motionStarts /\ n.active = s.active
      /\ n.alarm = s.alarm
      /\ c.action # "ARM" => n = s
  BY NamespaceSound
<1>2. r = IF c.seq <= n.highwater THEN Rejected(n, c, "SEQUENCE") ELSE Perform(h, c)
  BY DEF Admit
<1> HIDE DEF n, r
<1>3. CASE c.seq <= n.highwater
  <2>1. [seq |-> c.seq, result |-> "REJECTED", reason |-> "SEQUENCE"] \in AckType
    BY CommandFacts DEF AckType, Results, Reasons
  <2>2. LET x == Rejected(n, c, "SEQUENCE")
        IN  Sound(x, st) /\ SameAuthority(n, x) /\ Handled(n, x)
    BY <1>1, <2>1, AcknowledgedSound DEF Rejected
  <2> QED BY <1>1, <1>2, <1>3, <2>2 DEF SameAuthority, Handled, r
<1>4. CASE ~(c.seq <= n.highwater)
  <2>1. n \in StationType /\ c.seq \in Nat /\ c.session \in Sessions \union {0}
    BY <1>1, CommandFacts DEF Sound, Core
  <2>2. n.highwater \in Nat /\ n.highwater < c.seq /\ n.active.seq \in Nat
    BY <1>4, <2>1 DEF StationType, MotionType
  <2>3. /\ Ready(h, c) /\ History(h, st)
        /\ h.boot = n.boot /\ h.now = n.now /\ h.owner = n.owner
        /\ h.motionStarts = n.motionStarts /\ h.alarm = n.alarm /\ h.retired = n.retired
    BY <1>4, AdmitReady DEF n
  <2> HIDE DEF h
  <2>7. c.action \in Motions => c \notin st
    <3> SUFFICES ASSUME c.action \in Motions, c \in st
                 PROVE  FALSE
      OBVIOUS
    <3>1. n = s /\ s.owner = c.session /\ c.boot = s.boot /\ c.session # 0
      BY <1>1 DEF Refusal, Motions
    <3>2. Spent(s, c) /\ InService(s)
      BY <3>1 DEF Sound, History, Core
    <3>3. c.deadline > s.now /\ s.retired[c.session] <= s.now
      <4>1. c.deadline \in Nat /\ s.now \in Nat
        BY <2>1, <3>1, CommandFacts DEF StationType
      <4> QED BY <3>1, <3>2, <4>1 DEF OutOfTime, InService
    <3>4. s.retired[c.session] \in Nat /\ s.now \in Nat /\ c.deadline \in Nat
      BY <2>1, <3>1, CommandFacts DEF StationType
    <3> QED BY <2>2, <3>1, <3>2, <3>3, <3>4, <2>1 DEF Spent
  <2>8. c.boot = h.boot /\ ~OutOfTime(h, c)
    BY <1>1, <2>3 DEF Refusal, OutOfTime
  <2> DEFINE p == Perform(h, c)
  <2>9. /\ Core(p) /\ Leased(p) /\ Prompt(p) /\ Handled(h, p)
        /\ History(p, IF p.motionStarts # h.motionStarts THEN st \union {c} ELSE st)
    BY <2>3, <2>7, <2>8, PerformCore
  <2> HIDE DEF p
  <2>10. r = p
    BY <1>2, <1>4 DEF p
  <2> QED BY <1>1, <2>3, <2>9, <2>10 DEF Sound, Handled, r
<1> QED BY <1>3, <1>4

LEMMA ExecuteSound ==
  ASSUME NEW s, NEW st, Sound(s, st), NEW c \in Commands
  PROVE  LET r == Execute(s, c) IN
         /\ Sound(r, IF r.motionStarts # s.motionStarts THEN st \union {c} ELSE st)
         /\ Handled(s, r)
<1> DEFINE r == Execute(s, c)
<1>1. ASSUME NEW a \in AckType, r = [s EXCEPT !.ack = a]
      PROVE  /\ Sound(r, IF r.motionStarts # s.motionStarts THEN st \union {c} ELSE st)
             /\ Handled(s, r)
  <2>1. /\ Sound([s EXCEPT !.ack = a], st) /\ SameAuthority(s, [s EXCEPT !.ack = a])
        /\ Handled(s, [s EXCEPT !.ack = a])
    BY AcknowledgedSound
  <2> HIDE DEF r
  <2> QED BY <1>1, <2>1 DEF SameAuthority
<1>2. \A q \in Reasons : [seq |-> c.seq, result |-> "REJECTED", reason |-> q] \in AckType
  BY CommandFacts DEF AckType, Results
<1>3. CASE Refusal(s, c) # "NONE"
  <2>1. Refusal(s, c) \in Reasons
    BY DEF Refusal, Reasons
  <2>2. r = [s EXCEPT !.ack = [seq |-> c.seq, result |-> "REJECTED", reason |-> Refusal(s, c)]]
    BY <1>3 DEF Execute, Rejected
  <2> QED BY <1>1, <1>2, <2>1, <2>2
<1>4. CASE Refusal(s, c) = "NONE" /\ Duplicate(s, c)
  <2>1. r = Replayed(s, c)
    BY <1>4 DEF Execute
  <2> DEFINE same == {e \in Known(s, c.seq) : e.cmd = c}
  <2>2. CASE same = {}
    <3>1. "SEQUENCE" \in Reasons
      BY DEF Reasons
    <3> QED BY <1>1, <1>2, <2>1, <2>2, <3>1 DEF Replayed, Rejected
  <2>3. CASE same # {}
    <3> DEFINE e == CHOOSE x \in same : TRUE
               a == [seq |-> c.seq, result |-> e.result, reason |-> e.reason]
    <3>1. e \in same
      BY <2>3
    <3>2. e \in EntryType
      BY <3>1 DEF Known, Sound, Core, StationType
    <3>3. a \in AckType
      BY <3>2, CommandFacts DEF AckType, EntryType
    <3>4. r = [s EXCEPT !.ack = a]
      BY <2>1, <2>3 DEF Replayed
    <3> QED BY <1>1, <3>3, <3>4
  <2> QED BY <2>2, <2>3
<1>5. CASE Refusal(s, c) = "NONE" /\ ~Duplicate(s, c) /\ OutOfTime(s, c)
  <2>1. "EXPIRED" \in Reasons
    BY DEF Reasons
  <2> QED BY <1>1, <1>2, <1>5, <2>1 DEF Execute, Rejected
<1>6. CASE Refusal(s, c) = "NONE" /\ ~Duplicate(s, c) /\ ~OutOfTime(s, c)
  BY <1>6, AdmitSound DEF Execute
<1> QED BY <1>3, <1>4, <1>5, <1>6

LEMMA RenewSound ==
  ASSUME NEW s, NEW st, Sound(s, st), NEW k \in Keepalives
  PROVE  Sound(Renew(s, k), st) /\ Handled(s, Renew(s, k))
<1> DEFINE x == [s EXCEPT !.keepaliveCounter = k.counter, !.lastKeepalive = s.now]
<1>1. s \in StationType /\ k.counter \in Nat
  BY DEF Sound, Core, KeepaliveType
<1>2. /\ x \in StationType /\ x.state = s.state /\ x.alarm = s.alarm
      /\ x.position = s.position /\ x.active = s.active /\ x.cache = s.cache
      /\ x.boot = s.boot /\ x.now = s.now /\ x.owner = s.owner /\ x.highwater = s.highwater
      /\ x.retired = s.retired /\ x.motionStarts = s.motionStarts /\ x.lastKeepalive = s.now
      /\ s.now \in Nat
  BY <1>1 DEF StationType
<1> HIDE DEF x
<1>3. Core(x) /\ Leased(x) /\ Prompt(x)
  BY <1>2 DEF Sound, Core, Clocks, Outputs, InCache, Ruled, InService, Leased, Prompt, Elapsed, Active
<1>4. History(x, st)
  BY <1>2 DEF Sound, History, Spent
<1>5. Handled(s, x) /\ Handled(s, s)
  BY <1>2 DEF Handled, Sound, Core, Outputs, Active
<1> QED BY <1>3, <1>4, <1>5 DEF Renew, x, Sound

LEMMA TickSound ==
  ASSUME NEW s, NEW st, Sound(s, st), NEW t \in Nat, s.now <= t
  PROVE  /\ Sound(Tick(s, t), st)
         /\ Tick(s, t).now = t /\ Tick(s, t).motionStarts = s.motionStarts
BY ZenonT(60), TickCore, HistoryTick DEF Sound

LEMMA FreshSound ==
  ASSUME NEW boot \in Nat \ {0}, NEW st \in SUBSET Commands, IsFiniteSet(st),
         \A c \in st : c.session # 0 /\ c.boot < boot
  PROVE  Sound(Fresh(boot), st)
<1> DEFINE f == Fresh(boot)
<1>1. /\ NoAck \in AckType /\ NoMotion \in MotionType /\ NoMotion.seq = 0 /\ NoMotion.legBegan = 0
      /\ [x \in Sessions |-> 0] \in [Sessions -> Nat]
  BY DEF NoAck, NoMotion, AckType, MotionType, Results, Reasons, Places
<1>2. /\ f \in StationType /\ f.boot = boot /\ f.now = 0 /\ f.owner = 0 /\ f.active = NoMotion
      /\ f.lastKeepalive = 0 /\ f.state = "IDLE" /\ f.alarm = "NONE" /\ f.position = "HOME"
      /\ f.motionStarts = 0
  BY <1>1 DEF Fresh, StationType, States, Modes, Reasons, Places, Faults
<1> HIDE DEF f
<1>3. Core(f) /\ Leased(f) /\ Prompt(f)
  BY <1>1, <1>2 DEF Core, Clocks, Outputs, InCache, Ruled, InService, Leased, Prompt, Active
<1>4. \A c \in st : c.boot \in Nat
  BY CommandFacts
<1>5. {c \in st : c.boot = boot} = {}
  BY <1>4
<1>6. History(f, st)
  BY SMTT(40), <1>2, <1>4, <1>5, FS_EmptySet DEF History
<1> QED BY <1>3, <1>6 DEF Sound, f

\* The invariant is inductive: every handler of the device preserves it.
THEOREM Invariance == Spec => []Inv
<1>1. Init => Inv
  <2>1. IsFiniteSet({})
    BY FS_EmptySet
  <2> QED BY <2>1, FreshSound DEF Init, Inv
<1>2. Inv /\ [Next]_vars => Inv'
  <2> SUFFICES ASSUME Inv, [Next]_vars
               PROVE  Inv'
    OBVIOUS
  <2>0. /\ Sound(station, started) /\ station.now \in Nat /\ station.boot \in Nat
        /\ started \in SUBSET Commands /\ IsFiniteSet(started)
    BY DEF Inv, Sound, Core, StationType, History
  <2>1. ASSUME NEW t \in Instants, TickOrRead(t)
        PROVE  Inv'
    <3>1. t \in Nat /\ station.now <= t
      BY <2>0 DEF Instants
    <3> QED BY <2>0, <2>1, <3>1, TickSound DEF TickOrRead, Inv
  <2>2. ASSUME NEW t \in Instants, NEW c \in Commands, WriteCommand(t, c)
        PROVE  Inv'
    <3> DEFINE s == Tick(station, t)
               z == Tick(s, t)
               r == Execute(z, c)
    <3>1. t \in Nat /\ station.now <= t /\ t <= t
      BY <2>0 DEF Instants
    <3>2. Sound(s, started) /\ s.now = t /\ s.motionStarts = station.motionStarts
      BY <2>0, <3>1, TickSound
    <3>3. Sound(z, started) /\ z.motionStarts = station.motionStarts
      <4> HIDE DEF s
      <4> QED BY <3>1, <3>2, TickSound
    <3>4. /\ station' = IF Silent(s) THEN s ELSE r
          /\ started' = IF station'.motionStarts # station.motionStarts
                        THEN started \union {c} ELSE started
      BY <2>2 DEF WriteCommand
    <3> HIDE DEF s, z
    <3>5. Sound(r, IF r.motionStarts # z.motionStarts THEN started \union {c} ELSE started)
      BY <3>3, ExecuteSound
    <3> QED BY <3>2, <3>3, <3>4, <3>5 DEF Inv
  <2>3. ASSUME NEW t \in Instants, NEW k \in Keepalives, WriteKeepalive(t, k)
        PROVE  Inv'
    <3> DEFINE s == Tick(station, t)
               z == Tick(s, t)
    <3>1. t \in Nat /\ station.now <= t /\ t <= t
      BY <2>0 DEF Instants
    <3>2. Sound(s, started) /\ s.now = t
      BY <2>0, <3>1, TickSound
    <3>3. Sound(z, started)
      <4> HIDE DEF s
      <4> QED BY <3>1, <3>2, TickSound
    <3>4. station' = (IF Silent(s) THEN s ELSE Renew(z, k)) /\ started' = started
      BY <2>3 DEF WriteKeepalive
    <3> HIDE DEF s, z
    <3>5. Sound(Renew(z, k), started)
      BY <3>3, RenewSound
    <3> QED BY <3>2, <3>4, <3>5 DEF Inv
  <2>4. CASE Restart
    <3>1. \A c \in started : c.session # 0 /\ c.boot <= station.boot
      BY <2>0 DEF Sound, History
    <3>2. \A c \in started : c.boot \in Nat
      BY <2>0, CommandFacts
    <3>3. \A c \in started : c.session # 0 /\ c.boot < station.boot + 1
      BY <2>0, <3>1, <3>2
    <3>4. station.boot + 1 \in Nat \ {0}
      BY <2>0
    <3>5. Sound(Fresh(station.boot + 1), started)
      BY <2>0, <3>3, <3>4, FreshSound
    <3> QED BY <2>4, <3>5 DEF Restart, Inv
  <2>5. CASE UNCHANGED vars
    BY <2>5 DEF vars, Inv
  <2> QED BY <2>1, <2>2, <2>3, <2>4, <2>5 DEF Next
<1> QED BY <1>1, <1>2, PTL DEF Spec

\* What the passing of time does to the owner: it keeps the device or loses it.
Kept(s, r) == /\ r.boot = s.boot /\ s.now <= r.now /\ StaysOff(s, r)
              /\ r.owner \in {s.owner, 0}
              /\ \A x \in Sessions : x # s.owner => r.retired[x] = s.retired[x]

LEMMA TickKeeps ==
  ASSUME NEW s, Core(s), NEW t \in Nat, s.now <= t
  PROVE  Kept(s, Tick(s, t))
<1> DEFINE r == Tick(s, t)
<1>1. /\ r.boot = s.boot /\ r.now = t /\ StaysOff(s, r)
      /\ \/ r.owner = s.owner /\ r.retired = s.retired
         \/ r.owner = 0 /\ r.retired = [s.retired EXCEPT ![s.owner] = t + RetireMs]
  BY TickCore
<1>2. s.retired \in [Sessions -> Nat]
  BY DEF Core, StationType
<1> HIDE DEF r
<1> QED BY <1>1, <1>2 DEF Kept, r

\* Two ticks at one instant, which is how a write that is served begins.
LEMMA TwoTicksKeep ==
  ASSUME Inv, NEW t \in Instants
  PROVE  LET s == Tick(station, t)
             z == Tick(s, t)
         IN  Kept(station, s) /\ Core(s) /\ Kept(station, z) /\ Sound(z, started)
<1> DEFINE s == Tick(station, t)
           z == Tick(s, t)
<1>1. Sound(station, started) /\ t \in Nat /\ station.now <= t /\ t <= t
  BY DEF Inv, Sound, Core, StationType, Instants
<1>2. Sound(s, started) /\ s.now = t
  BY <1>1, TickSound
<1>3. Kept(station, s)
  BY <1>1, TickKeeps DEF Sound
<1> HIDE DEF s
<1>4. Sound(z, started) /\ z.now = t
  BY <1>1, <1>2, TickSound
<1>5. Kept(s, z)
  BY <1>1, <1>2, TickKeeps DEF Sound
<1> HIDE DEF z
<1>6. station.now <= z.now
  BY <1>1, <1>4
<1>7. Kept(station, z)
  BY <1>3, <1>5, <1>6 DEF Kept, StaysOff
<1>8. Core(s)
  BY <1>2 DEF Sound
<1> QED BY <1>3, <1>4, <1>7, <1>8 DEF s, z

\* What a step within a boot keeps: the clock runs on, a session that becomes
\* the owner keeps its retirement, and an alarm leads to no motion.
StepKeeps(s, r) ==
    /\ s.now <= r.now
    /\ \A x \in Sessions : (x # s.owner /\ x = r.owner) => r.retired[x] = s.retired[x]
    /\ s.alarm # "NONE" => ~Active(r)

LEMMA HandlerKeeps ==
  ASSUME NEW s, NEW z, NEW r, Core(z), Kept(s, z), Handled(z, r)
  PROVE  StepKeeps(s, r)
<1>1. \A x \in Sessions : x # 0
  OBVIOUS
<1>2. ASSUME NEW x \in Sessions, x # s.owner, x = r.owner
      PROVE  r.retired[x] = s.retired[x]
  BY <1>1, <1>2 DEF Kept, Handled
<1> QED BY <1>2 DEF StepKeeps, Kept, Handled, StaysOff

LEMMA BootKeeps ==
  ASSUME Inv, [Next]_vars, station'.boot = station.boot
  PROVE  StepKeeps(station, station')
<1>0. station.now \in Nat /\ station.boot \in Nat
  BY DEF Inv, Sound, Core, StationType
<1>1. ASSUME NEW z, Core(z)
      PROVE  Handled(z, z)
  BY <1>1 DEF Handled, Core, Outputs
<1>2. ASSUME NEW t \in Instants, TickOrRead(t)
      PROVE  StepKeeps(station, station')
  <2>1. station' = Tick(station, t)
    BY <1>2 DEF TickOrRead
  <2>2. Kept(station, Tick(station, t)) /\ Core(Tick(station, t))
    BY TwoTicksKeep
  <2> QED BY <1>1, <2>1, <2>2, HandlerKeeps
<1>3. ASSUME NEW t \in Instants, NEW c \in Commands, WriteCommand(t, c)
      PROVE  StepKeeps(station, station')
  <2> DEFINE s == Tick(station, t)
             z == Tick(s, t)
  <2>1. station' = IF Silent(s) THEN s ELSE Execute(z, c)
    BY <1>3 DEF WriteCommand
  <2>2. Kept(station, s) /\ Core(s) /\ Kept(station, z) /\ Sound(z, started)
    BY TwoTicksKeep
  <2> HIDE DEF s, z
  <2>3. Handled(z, Execute(z, c)) /\ Core(z)
    BY <2>2, ExecuteSound DEF Sound
  <2>4. StepKeeps(station, s)
    BY <1>1, <2>2, HandlerKeeps
  <2>5. StepKeeps(station, Execute(z, c))
    BY <2>2, <2>3, HandlerKeeps
  <2> QED BY <2>1, <2>4, <2>5
<1>4. ASSUME NEW t \in Instants, NEW k \in Keepalives, WriteKeepalive(t, k)
      PROVE  StepKeeps(station, station')
  <2> DEFINE s == Tick(station, t)
             z == Tick(s, t)
  <2>1. station' = IF Silent(s) THEN s ELSE Renew(z, k)
    BY <1>4 DEF WriteKeepalive
  <2>2. Kept(station, s) /\ Core(s) /\ Kept(station, z) /\ Sound(z, started)
    BY TwoTicksKeep
  <2> HIDE DEF s, z
  <2>3. Handled(z, Renew(z, k)) /\ Core(z)
    BY <2>2, RenewSound DEF Sound
  <2>4. StepKeeps(station, s)
    BY <1>1, <2>2, HandlerKeeps
  <2>5. StepKeeps(station, Renew(z, k))
    BY <2>2, <2>3, HandlerKeeps
  <2> QED BY <2>1, <2>4, <2>5
<1>5. CASE Restart
  <2>1. Fresh(station.boot + 1).boot = station.boot + 1
    BY DEF Fresh
  <2> QED BY <1>0, <1>5, <2>1 DEF Restart
<1>6. CASE UNCHANGED vars
  BY <1>0, <1>6 DEF vars, StepKeeps, Inv, Sound, Core, Outputs
<1> QED BY <1>2, <1>3, <1>4, <1>5, <1>6 DEF Next

\* The state of the device keeps its type.
THEOREM TypeCorrect == Spec => []TypeOK
<1>1. Inv => TypeOK
  BY DEF Inv, Sound, Core, History, TypeOK
<1> QED BY <1>1, Invariance, PTL

\* Exactly-once motion: no block moves the actuator twice in a boot, for any
\* lease, cache size, set of blocks and order of writes, provided a retirement
\* lasts at least as long as the furthest deadline accepted.
THEOREM MovesOnce == Spec => []EachCommandMovesOnce
<1>1. Inv => EachCommandMovesOnce
  BY DEF Inv, Sound, History, EachCommandMovesOnce, StartedNow
<1> QED BY <1>1, Invariance, PTL

\* The actuator never moves without an owner inside its lease, nor longer than
\* the limit of a leg, and its outputs follow the active command.
THEOREM MotionIsAuthorised == Spec => [](MotionNeedsLease /\ LegWithinLimit /\ OutputsFollowCommand)
<1>1. Inv => MotionNeedsLease /\ LegWithinLimit /\ OutputsFollowCommand
  BY DEF Inv, Sound, Core, Ruled, MotionNeedsLease, LegWithinLimit, OutputsFollowCommand
<1> QED BY <1>1, Invariance, PTL

\* No session comes back to the device within the validity of a block it moved
\* it with.  A step of the same boot ticks twice and then does its work: a
\* session other than the owner keeps its retirement through all three, so a
\* new owner's retirement is over, and so is the deadline that it covers.
THEOREM ReturnIsLate == Spec => NoReturnWithinValidity
<1> DEFINE Late(c) ==
             (/\ station'.boot = station.boot /\ c.boot = station.boot
              /\ station.owner # c.session /\ station'.owner = c.session)
             => c.deadline <= station'.now
<1>1. ASSUME Inv, Inv', [Next]_vars, NEW c \in started
      PROVE  Late(c)
  <2> SUFFICES ASSUME station'.boot = station.boot, c.boot = station.boot,
                      station.owner # c.session, station'.owner = c.session
               PROVE  c.deadline <= station'.now
    OBVIOUS
  <2>1. c \in Commands /\ c.session # 0 /\ Spent(station, c)
    BY <1>1 DEF Inv, Sound, History
  <2>2. c.session \in Sessions /\ c.deadline \in Nat
    BY <2>1, CommandFacts
  <2>3. /\ station.now \in Nat /\ station'.now \in Nat /\ station.boot \in Nat
        /\ station.retired[c.session] \in Nat /\ station'.retired[c.session] \in Nat
    BY <1>1, <2>2 DEF Inv, Sound, Core, StationType
  <2>4. station'.retired[c.session] <= station'.now
    BY <1>1, <2>1 DEF Inv, Sound, Core, InService
  <2>5. station.now <= station'.now /\ station'.retired[c.session] = station.retired[c.session]
    BY <1>1, <2>2, BootKeeps DEF StepKeeps
  <2> QED BY <2>1, <2>2, <2>3, <2>4, <2>5 DEF Spent
<1>2. Inv /\ Inv' /\ [Next]_vars => [\A c \in started : Late(c)]_vars
  BY <1>1
<1> QED BY <1>2, Invariance, PTL DEF Spec, NoReturnWithinValidity

\* An alarm ends every motion, and no step leads out of it into one.
THEOREM AlarmStopsMotion == Spec => NoMotionOutOfAlarm
<1>1. ASSUME Inv, [Next]_vars, station.alarm # "NONE", station'.boot = station.boot
      PROVE  ~Active(station')
  BY <1>1, BootKeeps DEF StepKeeps
<1>2. Inv /\ [Next]_vars
      => [station.alarm # "NONE" /\ station'.boot = station.boot => ~Active(station')]_vars
  BY <1>1
<1> QED BY <1>2, Invariance, PTL DEF Spec, NoMotionOutOfAlarm

\* Bounded eviction never loses the active command.
THEOREM CacheKeepsActive == Spec => []ActiveIsCached
<1>1. Inv => ActiveIsCached
  BY DEF Inv, Sound, Core, ActiveIsCached
<1> QED BY <1>1, Invariance, PTL

-----------------------------------------------------------------------------
(***************************************************************************)
(* Station implements Device.  A tick may end the motion or the ownership, *)
(* a handler does what Device allows between two ticks; both only add to   *)
(* the cache above the high-water mark or carry its entries on.            *)
(***************************************************************************)
\* The registers of a machine, as Registers has them of `station'.
Reg(s) == [boot |-> s.boot, owner |-> s.owner, highwater |-> s.highwater,
           active |-> s.active.seq, ack |-> Plain(s.ack), finished |-> Plain(s.finished)]

\* The cache: results of consumed numbers, one entry for each number.
Remembers(s) ==
    /\ \A e \in s.cache : e.result # "NONE" /\ e.cmd.seq <= s.highwater
    /\ \A e, f \in s.cache : e.cmd.seq = f.cmd.seq => e = f

\* An entry carried on: the same block, and its result if it was final.
Carried(e, f) == f.cmd = e.cmd /\ (e.result # "ACCEPTED" => f = e)
Descends(s, r) == \A f \in r.cache : \E e \in s.cache : Carried(e, f)
Grows(s, r) == \A f \in r.cache : f.cmd.seq > s.highwater \/ \E e \in s.cache : Carried(e, f)

\* What the mechanics do to the registers: nothing, or the motion ends.
Ends(d) == {d, Abstract!Ended(d, "COMPLETED"), Abstract!Ended(d, "FAILED")}
Moved(s, r) == Remembers(r) /\ Descends(s, r) /\ Reg(r) \in Ends(Reg(s))

LEMMA RegFields ==
  ASSUME NEW s
  PROVE  /\ Reg(s).boot = s.boot /\ Reg(s).owner = s.owner /\ Reg(s).highwater = s.highwater
         /\ Reg(s).active = s.active.seq /\ Reg(s).ack = Plain(s.ack)
         /\ Reg(s).finished = Plain(s.finished)
BY DEF Reg

LEMMA SameMoved ==
  ASSUME NEW s, NEW r, Remembers(s), Reg(r) = Reg(s), r.cache = s.cache
  PROVE  Moved(s, r)
<1>1. r.highwater = s.highwater
  BY RegFields
<1> QED BY <1>1 DEF Moved, Remembers, Descends, Carried, Ends

LEMMA EndedTwice ==
  ASSUME NEW d, NEW e, NEW f, e \in Ends(d), f \in Ends(e), \E s : d = Reg(s)
  PROVE  f \in Ends(d)
<1>1. PICK s : d = Reg(s)
  OBVIOUS
<1>2. CASE e = d
  BY <1>2
<1>3. CASE e # d
  <2>1. e.active = 0
    BY <1>1, <1>3 DEF Ends, Abstract!Ended, Reg
  <2>2. f = e
    BY <2>1 DEF Ends, Abstract!Ended
  <2> QED BY <2>2
<1> QED BY <1>2, <1>3

LEMMA MovedTwice ==
  ASSUME NEW a, NEW b, NEW c, Moved(a, b), Moved(b, c)
  PROVE  Moved(a, c)
<1>1. Reg(c) \in Ends(Reg(a))
  BY EndedTwice DEF Moved
<1>2. ASSUME NEW f \in c.cache
      PROVE  \E e \in a.cache : Carried(e, f)
  <2>1. PICK g \in b.cache : Carried(g, f)
    BY DEF Moved, Descends
  <2>2. PICK e \in a.cache : Carried(e, g)
    BY DEF Moved, Descends
  <2> QED BY <2>1, <2>2 DEF Carried
<1> QED BY <1>1, <1>2 DEF Moved, Descends

\* The end of the motion, in the cache and in the registers.
LEMMA FinishMoved ==
  ASSUME NEW s \in StationType, InCache(s), Remembers(s),
         NEW r \in {"COMPLETED", "FAILED"}, NEW q \in Reasons
  PROVE  /\ Moved(s, Finish(s, r, q))
         /\ Reg(Finish(s, r, q)) = Abstract!Ended(Reg(s), r)
<1> DEFINE end == [seq |-> s.active.seq, result |-> r, reason |-> q]
           rest == {e \in s.cache : e.cmd.seq # s.active.seq}
                   \union {Entry(e.cmd, r, q) : e \in Known(s, s.active.seq)}
           f == Finish(s, r, q)
<1>1. CASE ~Active(s)
  <2>1. f = s
    BY <1>1 DEF Finish
  <2>2. Reg(s) = Abstract!Ended(Reg(s), r)
    BY <1>1, RegFields DEF Abstract!Ended, Active
  <2> HIDE DEF f
  <2> QED BY <2>1, <2>2, SameMoved DEF f
<1>2. CASE Active(s)
  <2>1. PICK a \in s.cache : a.cmd.seq = s.active.seq /\ a.result = "ACCEPTED"
    BY <1>2 DEF InCache
  <2>2. \A e \in Known(s, s.active.seq) : e = a
    BY <2>1 DEF Known, Remembers
  <2>3. \A e \in s.cache : Entry(e.cmd, r, q).cmd = e.cmd /\ Entry(e.cmd, r, q).result = r
    BY DEF Entry
  <2>4. rest = {e \in s.cache : e.cmd.seq # s.active.seq} \union {Entry(a.cmd, r, q)}
    BY <2>1, <2>2 DEF Known
  <2>5. \A g \in rest : \E e \in s.cache : Carried(e, g)
    BY <2>1, <2>3, <2>4 DEF Carried
  <2>6. /\ \A g \in rest : g.result # "NONE" /\ g.cmd.seq <= s.highwater
        /\ \A g, h \in rest : g.cmd.seq = h.cmd.seq => g = h
    BY <2>1, <2>3, <2>4 DEF Remembers
  <2> HIDE DEF end, rest
  <2>7. f = [s EXCEPT !.finished = end, !.ack = end, !.active = NoMotion, !.cache = rest]
    BY <1>2 DEF Finish, end, rest
  <2> HIDE DEF f
  <2>8. /\ f.finished = end /\ f.ack = end /\ f.active = NoMotion /\ f.cache = rest
        /\ f.boot = s.boot /\ f.owner = s.owner /\ f.highwater = s.highwater
    BY <2>7 DEF StationType
  <2>9. Reg(f) = Abstract!Ended(Reg(s), r)
    <3>1. Plain(end) = [seq |-> s.active.seq, result |-> r] /\ NoMotion.seq = 0
      BY DEF Plain, end, NoMotion
    <3>2. Reg(f) = [boot |-> s.boot, owner |-> s.owner, highwater |-> s.highwater,
                    active |-> 0, ack |-> Plain(end), finished |-> Plain(end)]
      BY <2>8, <3>1 DEF Reg
    <3>3. Abstract!Ended(Reg(s), r)
            = [Reg(s) EXCEPT !.active = 0, !.ack = Plain(end), !.finished = Plain(end)]
      BY <1>2, <3>1, RegFields DEF Abstract!Ended, Active
    <3> QED BY <3>2, <3>3 DEF Reg
  <2> QED BY <2>5, <2>6, <2>8, <2>9 DEF Moved, Remembers, Descends, Ends, f
<1> QED BY <1>1, <1>2

LEMMA TripMoved ==
  ASSUME NEW s \in StationType, InCache(s), Remembers(s), NEW q \in Reasons
  PROVE  /\ Moved(s, Trip(s, q))
         /\ Reg(Trip(s, q)) = Abstract!Ended(Reg(s), "FAILED")
<1> DEFINE f == Finish(s, "FAILED", q)
           p == Trip(s, q)
<1>1. Moved(s, f) /\ Reg(f) = Abstract!Ended(Reg(s), "FAILED") /\ f \in StationType
  BY FinishMoved, FinishFacts DEF Results
<1>2. p = [f EXCEPT !.state = "FAULT", !.alarm = q]
  BY DEF Trip
<1> HIDE DEF f, p
<1>3. Reg(p) = Reg(f) /\ p.cache = f.cache
  BY <1>1, <1>2 DEF StationType, Reg
<1>4. Moved(f, p)
  BY <1>1, <1>3, SameMoved DEF Moved
<1>5. Moved(s, p)
  BY <1>1, <1>4, MovedTwice
<1> QED BY <1>1, <1>3, <1>5 DEF p

LEMMA AtTimeMoved ==
  ASSUME NEW s, Core(s), Remembers(s), NEW t
  PROVE  Moved(s, AtTime(s, t)) /\ Reg(AtTime(s, t)) = Reg(s)
<1> DEFINE a == AtTime(s, t)
<1>1. Reg(a) = Reg(s) /\ a.cache = s.cache
  BY DEF AtTime, Core, StationType, Reg
<1> HIDE DEF a
<1> QED BY <1>1, SameMoved DEF a

\* The lease: nothing happens, or the owner and its motion go.
LEMMA LeaseMoved ==
  ASSUME NEW s, Core(s), Remembers(s)
  PROVE  LET r == CheckLease(s) IN
         /\ Remembers(r) /\ Descends(s, r)
         /\ ~LeaseExpired(s) => r = s
         /\ LeaseExpired(s) => Reg(r) = [Abstract!Ended(Reg(s), "FAILED") EXCEPT !.owner = 0]
<1> DEFINE f == IF Active(s) THEN Trip(s, "COMM_TIMEOUT") ELSE s
           r == CheckLease(s)
<1>0. s \in StationType /\ InCache(s)
  BY DEF Core
<1>1. Core(f) /\ Moved(s, f) /\ Reg(f) = Abstract!Ended(Reg(s), "FAILED")
  <2>1. CASE Active(s)
    <3>1. "COMM_TIMEOUT" \in Reasons \ {"NONE"}
      BY DEF Reasons
    <3> QED BY <1>0, <2>1, <3>1, TripMoved, TripCore
  <2>2. CASE ~Active(s)
    <3>1. Reg(s) = Abstract!Ended(Reg(s), "FAILED")
      BY <2>2, RegFields DEF Abstract!Ended, Active
    <3> QED BY <2>2, <3>1, SameMoved
  <2> QED BY <2>1, <2>2
<1> HIDE DEF f
<1>2. CASE ~LeaseExpired(s)
  <2>1. r = s
    BY <1>2 DEF CheckLease
  <2> HIDE DEF r
  <2> QED BY <1>2, <2>1 DEF Descends, Carried, r
<1>3. CASE LeaseExpired(s)
  <2>1. r = [f EXCEPT !.owner = 0, !.retired[s.owner] = s.now + RetireMs]
    BY <1>3 DEF CheckLease, f
  <2>2. f \in StationType
    BY <1>1 DEF Core
  <2>3. /\ r.owner = 0 /\ r.boot = f.boot /\ r.highwater = f.highwater /\ r.active = f.active
        /\ r.ack = f.ack /\ r.finished = f.finished /\ r.cache = f.cache
    BY <2>1, <2>2 DEF StationType
  <2> HIDE DEF r
  <2>4. Reg(r) = [Reg(f) EXCEPT !.owner = 0]
    BY <2>3 DEF Reg
  <2> QED BY <1>1, <1>3, <2>3, <2>4 DEF Moved, Remembers, Descends, r
<1> QED BY <1>2, <1>3

LEMMA ConflictMoved ==
  ASSUME NEW s, Core(s), Remembers(s)
  PROVE  Moved(s, CheckConflict(s))
<1>1. s \in StationType /\ InCache(s) /\ "LIMIT_CONFLICT" \in Reasons
  BY DEF Core, Reasons
<1>2. Moved(s, Trip(s, "LIMIT_CONFLICT")) /\ Moved(s, s)
  BY <1>1, TripMoved, SameMoved
<1> QED BY <1>2 DEF CheckConflict

LEMMA LegMoved ==
  ASSUME NEW s \in StationType, Remembers(s), NEW target
  PROVE  Moved(s, Leg(s, target))
<1> DEFINE l == Leg(s, target)
<1>1. Reg(l) = Reg(s) /\ l.cache = s.cache
  BY DEF Leg, StationType, MotionType, Reg
<1> HIDE DEF l
<1> QED BY <1>1, SameMoved DEF l

LEMMA ArriveMoved ==
  ASSUME NEW s \in StationType, InCache(s), Remembers(s)
  PROVE  Moved(s, Arrive(s))
<1> DEFINE n == IF s.visitedExtended THEN s.cycles + 1 ELSE s.cycles
           u == [s EXCEPT !.visitedExtended = TRUE]
           v == [u EXCEPT !.state = "EXTENDED"]
           w == [s EXCEPT !.state = "IDLE", !.visitedExtended = FALSE, !.cycles = n]
<1>n. n \in Nat
  BY DEF StationType
<1> HIDE DEF n
<1>1. u \in StationType /\ Reg(u) = Reg(s) /\ u.cache = s.cache /\ u.active = s.active
  BY DEF StationType, Reg
<1> HIDE DEF u
<1>2. v \in StationType /\ Reg(v) = Reg(s) /\ v.cache = s.cache /\ v.active = s.active
  BY <1>1 DEF StationType, Reg, States
<1>3. w \in StationType /\ Reg(w) = Reg(s) /\ w.cache = s.cache /\ w.active = s.active
  BY <1>n DEF StationType, Reg, States
<1> HIDE DEF v, w
<1>4. Moved(s, u) /\ Moved(s, v) /\ Moved(s, w)
  BY <1>1, <1>2, <1>3, SameMoved
<1>5. InCache(v) /\ InCache(w) /\ Remembers(u) /\ Remembers(v) /\ Remembers(w)
  BY <1>2, <1>3, <1>4 DEF InCache, Active, Moved
<1>6. Moved(u, Leg(u, "HOME"))
  BY <1>1, <1>5, LegMoved
<1>7. "NONE" \in Reasons
  BY DEF Reasons
<1>8. Moved(v, Finish(v, "COMPLETED", "NONE")) /\ Moved(w, Finish(w, "COMPLETED", "NONE"))
  BY <1>2, <1>3, <1>5, <1>7, FinishMoved
<1>9. /\ Moved(s, Leg(u, "HOME")) /\ Moved(s, Finish(v, "COMPLETED", "NONE"))
      /\ Moved(s, Finish(w, "COMPLETED", "NONE"))
  BY <1>4, <1>6, <1>8, MovedTwice
<1>10. w = [s EXCEPT !.state = "IDLE", !.visitedExtended = FALSE,
                     !.cycles = IF s.visitedExtended THEN @ + 1 ELSE @]
  BY DEF w, n
<1> QED BY <1>9, <1>10 DEF Arrive, u, v

LEMMA TravelMoved ==
  ASSUME NEW s, Core(s), Remembers(s)
  PROVE  Moved(s, Travel(s))
<1> DEFINE moved == [s EXCEPT !.position = PlaceNow(s)]
<1>0. s \in StationType /\ InCache(s)
  BY DEF Core
<1>1. PlaceNow(s) \in Places
  BY <1>0 DEF PlaceNow, Places, StationType, MotionType
<1>2. /\ moved \in StationType /\ Reg(moved) = Reg(s) /\ moved.cache = s.cache
      /\ moved.active = s.active
  BY <1>0, <1>1 DEF StationType, Reg
<1> HIDE DEF moved
<1>3. Moved(s, moved) /\ Moved(s, s)
  BY <1>2, SameMoved
<1>4. InCache(moved) /\ Remembers(moved)
  BY <1>0, <1>2, <1>3 DEF InCache, Active, Moved
<1>5. "ACTION_TIMEOUT" \in Reasons
  BY DEF Reasons
<1>6. Moved(moved, Arrive(moved)) /\ Moved(moved, Trip(moved, "ACTION_TIMEOUT"))
  BY <1>2, <1>4, <1>5, ArriveMoved, TripMoved
<1>7. Moved(s, Arrive(moved)) /\ Moved(s, Trip(moved, "ACTION_TIMEOUT"))
  BY <1>3, <1>6, MovedTwice
<1> QED BY <1>3, <1>7 DEF Travel, moved

\* What a tick does: what Device calls settling, and it ends no ownership
\* whose lease is running at that instant.
LEMMA TickSettles ==
  ASSUME NEW s, Core(s), Remembers(s), NEW t \in Nat, s.now <= t
  PROVE  LET r == Tick(s, t) IN
         /\ Remembers(r) /\ Descends(s, r) /\ Reg(r) \in Abstract!Settled(Reg(s))
         /\ (Leased(s) /\ s.now = t) => Moved(s, r)
<1> DEFINE a == AtTime(s, t)
           b == CheckLease(a)
           c == CheckConflict(b)
           d == Travel(c)
<1>1. Core(a) /\ a.now = t /\ a.owner = s.owner /\ a.lastKeepalive = s.lastKeepalive
  BY AtTimeCore
<1>2. Moved(s, a) /\ Reg(a) = Reg(s) /\ Remembers(a)
  BY AtTimeMoved DEF Moved
<1> HIDE DEF a
<1>3. Core(b) /\ Leased(b)
  BY <1>1, CheckLeaseCore
<1>4. /\ Remembers(b) /\ Descends(a, b)
      /\ ~LeaseExpired(a) => b = a
      /\ LeaseExpired(a) => Reg(b) = [Abstract!Ended(Reg(a), "FAILED") EXCEPT !.owner = 0]
  BY <1>1, <1>2, LeaseMoved
<1> HIDE DEF b
<1>5. Core(c) /\ Leased(c) /\ Moved(b, c) /\ Remembers(c)
  BY <1>3, <1>4, ConflictCore, ConflictMoved DEF Moved
<1> HIDE DEF c
<1>6. Moved(c, d)
  BY <1>5, TravelMoved
<1>7. Tick(s, t) = d
  BY DEF Tick, a, b, c
<1> HIDE DEF d
<1>8. Moved(b, d)
  BY <1>5, <1>6, MovedTwice
<1>9. Descends(s, d) /\ Remembers(d)
  <2>1. ASSUME NEW f \in d.cache
        PROVE  \E e \in s.cache : Carried(e, f)
    <3>1. PICK g \in b.cache : Carried(g, f)
      BY <1>8 DEF Moved, Descends
    <3>2. PICK h \in a.cache : Carried(h, g)
      BY <1>4 DEF Descends
    <3>3. PICK e \in s.cache : Carried(e, h)
      BY <1>2 DEF Moved, Descends
    <3> QED BY <3>1, <3>2, <3>3 DEF Carried
  <2> QED BY <1>8, <2>1 DEF Descends, Moved
<1>10. CASE ~LeaseExpired(a)
  <2>1. Moved(s, d)
    BY <1>2, <1>4, <1>8, <1>10, MovedTwice
  <2>2. Reg(d) \in Abstract!Settled(Reg(s))
    BY <2>1 DEF Moved, Ends, Abstract!Settled
  <2> QED BY <1>7, <1>9, <2>1, <2>2
<1>11. CASE LeaseExpired(a)
  <2>1. Reg(b) = [Abstract!Ended(Reg(s), "FAILED") EXCEPT !.owner = 0]
    BY <1>2, <1>4, <1>11
  <2>2. Reg(b).active = 0
    BY <2>1 DEF Abstract!Ended, Reg
  <2>3. Reg(d) = Reg(b)
    BY <1>8, <2>2 DEF Moved, Ends, Abstract!Ended
  <2>4. Reg(d) \in Abstract!Settled(Reg(s))
    BY <2>1, <2>3 DEF Abstract!Settled
  <2>5. ~(Leased(s) /\ s.now = t)
    <3>1. s.lastKeepalive \in Nat /\ s.now \in Nat /\ LeaseMs \in Nat
      BY TimingAssumption DEF Core, StationType
    <3> QED BY <1>1, <1>11, <3>1 DEF LeaseExpired, Leased
  <2> QED BY <1>7, <1>9, <2>4, <2>5
<1> QED BY <1>10, <1>11

LEMMA SettledEnds ==
  ASSUME NEW s, NEW e, NEW f, e \in Abstract!Settled(Reg(s)), f \in Ends(e)
  PROVE  f \in Abstract!Settled(Reg(s))
<1>1. CASE e = Reg(s)
  BY <1>1 DEF Ends, Abstract!Settled
<1>2. CASE e # Reg(s)
  <2>1. CASE e.active = 0
    <3>1. f = e
      BY <2>1 DEF Ends, Abstract!Ended
    <3> QED BY <3>1
  <2>2. CASE e.active # 0
    BY <1>2, <2>2 DEF Abstract!Settled, Abstract!Ended, Reg
  <2> QED BY <2>1, <2>2
<1> QED BY <1>1, <1>2

\* A write ticks twice at one instant: the second tick is the model's own, and
\* finds the lease that the first one left.
LEMMA TwoTicksSettle ==
  ASSUME NEW s, Core(s), Remembers(s), NEW t \in Nat, s.now <= t
  PROVE  LET y == Tick(s, t)
             z == Tick(y, t)
         IN  /\ Remembers(y) /\ Descends(s, y) /\ Reg(y) \in Abstract!Settled(Reg(s))
             /\ Remembers(z) /\ Descends(s, z) /\ Reg(z) \in Abstract!Settled(Reg(s))
<1> DEFINE y == Tick(s, t)
           z == Tick(y, t)
<1>1. /\ Remembers(y) /\ Descends(s, y) /\ Reg(y) \in Abstract!Settled(Reg(s))
      /\ Core(y) /\ Leased(y) /\ y.now = t
  BY ZenonT(60), TickSettles, TickCore
<1> HIDE DEF y
<1>2. Moved(y, z)
  BY <1>1, TickSettles
<1> HIDE DEF z
<1>3. Reg(z) \in Abstract!Settled(Reg(s))
  BY <1>1, <1>2, SettledEnds DEF Moved
<1>4. Descends(s, z)
  <2>1. ASSUME NEW f \in z.cache
        PROVE  \E e \in s.cache : Carried(e, f)
    <3>1. PICK g \in y.cache : Carried(g, f)
      BY <1>2 DEF Moved, Descends
    <3>2. PICK e \in s.cache : Carried(e, g)
      BY <1>1 DEF Descends
    <3> QED BY <3>1, <3>2 DEF Carried
  <2> QED BY <2>1 DEF Descends
<1> QED BY <1>1, <1>2, <1>3, <1>4 DEF Moved, y, z

LEMMA KindFacts ==
  ASSUME NEW c
  PROVE  LET p == Promised(c) IN
         /\ p.seq = c.seq /\ p.boot = c.boot /\ p.session = c.session
         /\ p.kind = "ARM" <=> c.action = "ARM"
         /\ c.action \in Motions => p.kind = "MOVE"
         /\ c.action = "STOP" => p.kind = "STOP"
         /\ c.action \in {"INJECT", "RESET", "MODE"} => p.kind = "SET"
BY DEF Promised, Kind, Motions

\* An entry under the newest number joins the cache.
LEMMA CachedGrows ==
  ASSUME NEW s \in StationType, Remembers(s), NEW c \in Commands, c.seq = s.highwater,
         NEW r \in Results \ {"NONE"}, NEW q
  PROVE  LET x == Cached(s, c, r, q) IN
         /\ Remembers(x)
         /\ Reg(x) = Abstract!Answered(Reg(s), Promised(c), r)
         /\ \A f \in x.cache : f.cmd.seq = c.seq \/ f \in s.cache
<1> DEFINE x == Cached(s, c, r, q)
           all == {e \in s.cache : e.cmd.seq # c.seq} \union {Entry(c, r, q)}
           kept == Trimmed(all, s.active.seq)
           a == [seq |-> c.seq, result |-> r, reason |-> q]
<1>1. x = [s EXCEPT !.cache = kept, !.ack = a]
  BY DEF Cached
<1>2. Entry(c, r, q).cmd = c /\ Entry(c, r, q).result = r
  BY DEF Entry
<1>3. kept \subseteq all
  BY DEF Trimmed
<1>4. c.seq \in Nat /\ c.seq <= s.highwater
  BY CommandFacts
<1>5. /\ \A e \in all : e.result # "NONE" /\ e.cmd.seq <= s.highwater
      /\ \A e, f \in all : e.cmd.seq = f.cmd.seq => e = f
      /\ \A f \in all : f.cmd.seq = c.seq \/ f \in s.cache
  BY <1>2, <1>4 DEF Remembers
<1> HIDE DEF all, kept, x
<1>6. /\ x.cache = kept /\ x.ack = a /\ x.boot = s.boot /\ x.owner = s.owner
      /\ x.highwater = s.highwater /\ x.active = s.active /\ x.finished = s.finished
  BY <1>1 DEF StationType
<1>7. Reg(x) = Abstract!Answered(Reg(s), Promised(c), r)
  BY <1>6, KindFacts DEF Reg, Abstract!Answered, Plain
<1> QED BY <1>3, <1>5, <1>6, <1>7 DEF Remembers, x

\* Commands that complete at once, in the registers.
LEMMA EffectOutcome ==
  ASSUME NEW s, NEW c \in Commands, Ready(s, c), Remembers(s), c.action \notin Motions,
         Denial(s, c) = "NONE"
  PROVE  LET e == Effect(s, c) IN
         /\ Remembers(e) /\ Descends(s, e) /\ e.highwater = s.highwater
         /\ Abstract!Answered(Reg(e), Promised(c), "COMPLETED")
              \in Abstract!Outcomes(Reg(s), Promised(c))
<1> DEFINE e == Effect(s, c)
           p == Promised(c)
<1>0. s \in StationType /\ InCache(s)
  BY DEF Ready, Core
<1>k. /\ p.seq = c.seq /\ p.boot = c.boot /\ p.session = c.session
      /\ p.kind = "ARM" <=> c.action = "ARM"
      /\ c.action = "STOP" => p.kind = "STOP"
      /\ c.action \in {"INJECT", "RESET", "MODE"} => p.kind = "SET"
  BY KindFacts
<1> HIDE DEF p
<1>1. CASE c.action = "ARM"
  <2>1. e = [s EXCEPT !.owner = c.session, !.lastKeepalive = s.now]
    BY <1>1 DEF Effect
  <2>2. e.cache = s.cache /\ e.highwater = s.highwater /\ Reg(e) = [Reg(s) EXCEPT !.owner = c.session]
    BY <1>0, <2>1 DEF StationType, Reg
  <2> HIDE DEF e
  <2>3. Remembers(e) /\ Descends(s, e)
    BY <2>2 DEF Remembers, Descends, Carried
  <2>4. Abstract!Answered(Reg(e), p, "COMPLETED") \in Abstract!Outcomes(Reg(s), p)
    BY <1>1, <1>k, <2>2 DEF Abstract!Outcomes
  <2> QED BY <2>2, <2>3, <2>4 DEF e, p
<1>2. CASE c.action = "STOP"
  <2> DEFINE f == Finish(s, "FAILED", "STOPPED")
  <2>1. /\ Moved(s, f) /\ Reg(f) = Abstract!Ended(Reg(s), "FAILED")
        /\ f \in StationType
    BY <1>0, FinishMoved, FinishFacts DEF Results, Reasons
  <2>2. e = [f EXCEPT !.state = IF @ = "FAULT" THEN @ ELSE RestState(f)]
    BY <1>2 DEF Effect, StopMotion
  <2> HIDE DEF e, f
  <2>3. Reg(e) = Reg(f) /\ e.cache = f.cache /\ e.highwater = f.highwater
    BY <2>1, <2>2 DEF StationType, Reg
  <2>4. f.highwater = s.highwater
    BY <2>1, RegFields DEF Abstract!Ended, Reg
  <2>5. Remembers(e) /\ Descends(s, e)
    BY <2>1, <2>3 DEF Moved, Remembers, Descends
  <2>6. Abstract!Answered(Reg(e), p, "COMPLETED") \in Abstract!Outcomes(Reg(s), p)
    BY <1>2, <1>k, <2>1, <2>3 DEF Abstract!Outcomes
  <2> QED BY <2>3, <2>4, <2>5, <2>6 DEF e, p
<1>3. CASE c.action \in {"INJECT", "RESET", "MODE"}
  <2>1. ~Active(s)
    BY <1>3 DEF Denial
  <2>2. Reg(e) = Reg(s) /\ e.cache = s.cache /\ e.highwater = s.highwater
    BY <1>0, <1>3 DEF Effect, StationType, Reg
  <2> HIDE DEF e
  <2>3. Remembers(e) /\ Descends(s, e)
    BY <2>2 DEF Remembers, Descends, Carried
  <2>4. Reg(s).active = 0
    BY <2>1, RegFields DEF Active
  <2>5. Abstract!Answered(Reg(e), p, "COMPLETED") \in Abstract!Outcomes(Reg(s), p)
    BY <1>3, <1>k, <2>2, <2>4 DEF Abstract!Outcomes
  <2> QED BY <2>2, <2>3, <2>5 DEF e, p
<1> QED BY <1>1, <1>2, <1>3 DEF Ready, Actions

\* What a block may leave behind, up to the ticks.
After(d, c) == UNION {Abstract!Settled(x) : x \in Abstract!Executed(d, c)}
Consumed(d, c) == UNION {Abstract!Settled(x) : x \in Abstract!Outcomes(d, c)}

LEMMA SettledSelf ==
  ASSUME NEW d
  PROVE  d \in Abstract!Settled(d)
BY DEF Abstract!Settled

LEMMA PerformSettles ==
  ASSUME NEW s, NEW c \in Commands, Ready(s, c), Remembers(s)
  PROVE  LET r == Perform(s, c) IN
         /\ Remembers(r) /\ Reg(r) \in Consumed(Reg(s), Promised(c))
         /\ \A f \in r.cache : f.cmd.seq = c.seq \/ \E e \in s.cache : Carried(e, f)
         /\ r.owner \in {0, s.owner, c.session}
<1> DEFINE p == Promised(c)
           r == Perform(s, c)
<1>0. Core(s) /\ s \in StationType /\ c.seq = s.highwater /\ s.now \in Nat
  BY DEF Ready, Core, StationType
<1>k. p.seq = c.seq /\ (c.action \in Motions => p.kind = "MOVE")
  BY KindFacts
<1> HIDE DEF p
<1>c. \A e \in s.cache : Carried(e, e)
  BY DEF Carried
<1>1. CASE Denial(s, c) # "NONE"
  <2> DEFINE x == Cached(s, c, "REJECTED", Denial(s, c))
  <2>1. r = x
    BY <1>1 DEF Perform
  <2>2. /\ Remembers(x) /\ Reg(x) = Abstract!Answered(Reg(s), p, "REJECTED")
        /\ \A f \in x.cache : f.cmd.seq = c.seq \/ f \in s.cache
    BY <1>0, CachedGrows DEF Results, p
  <2> HIDE DEF x, r
  <2>3. Reg(x) \in Abstract!Outcomes(Reg(s), p)
    BY <2>2 DEF Abstract!Outcomes
  <2>4. Reg(x) \in Consumed(Reg(s), p)
    BY <2>3, SettledSelf DEF Consumed
  <2>5. x.owner = s.owner
    BY <2>2, RegFields DEF Abstract!Answered, Reg
  <2> QED BY <1>c, <2>1, <2>2, <2>4, <2>5 DEF p, r
<1>2. CASE Denial(s, c) = "NONE" /\ c.action \in Motions
  <2> DEFINE m == [NoMotion EXCEPT !.seq = c.seq, !.cycle = (c.action = "CYCLE")]
             n == s.motionStarts + 1
             b == [s EXCEPT !.active = m, !.motionStarts = n]
             target == IF c.action = "RETRACT" THEN "HOME" ELSE "EXTENDED"
             l == Leg(b, target)
             x == Cached(l, c, "ACCEPTED", "NONE")
  <2>1. r = x
    BY <1>2, <1>0 DEF Perform, StartMotion, StationType
  <2>2. ~Active(s)
    BY <1>2 DEF Denial, Motions
  <2>3. m \in MotionType /\ m.seq = c.seq
    BY CommandFacts DEF NoMotion, MotionType, Places
  <2>4. n \in Nat
    BY <1>0 DEF StationType
  <2> HIDE DEF m, n
  <2>5. /\ b \in StationType /\ Reg(b) = [Reg(s) EXCEPT !.active = c.seq] /\ b.cache = s.cache
        /\ b.highwater = s.highwater
    <3>1. /\ b \in StationType /\ b.active = m /\ b.cache = s.cache /\ b.highwater = s.highwater
          /\ b.boot = s.boot /\ b.owner = s.owner /\ b.ack = s.ack /\ b.finished = s.finished
      BY <1>0, <2>3, <2>4 DEF StationType
    <3> HIDE DEF b
    <3> QED BY <2>3, <3>1 DEF Reg
  <2> HIDE DEF b
  <2>6. Remembers(b)
    BY <2>5 DEF Remembers
  <2>7. target \in {"HOME", "EXTENDED"}
    OBVIOUS
  <2> HIDE DEF target
  <2>8. l \in StationType /\ Remembers(l) /\ l.cache = b.cache /\ Reg(l) = Reg(b)
    <3>1. l \in StationType /\ l.cache = b.cache
      BY <2>5, <2>7, LegFacts
    <3>2. Reg(l) = Reg(b)
      BY <2>5 DEF Leg, StationType, MotionType, Reg
    <3>3. Remembers(l)
      BY <2>5, <2>6, <2>7, LegMoved DEF Moved
    <3> QED BY <3>1, <3>2, <3>3
  <2> HIDE DEF l
  <2>9. l.highwater = c.seq
    BY <1>0, <2>5, <2>8, RegFields
  <2>10. /\ Remembers(x) /\ Reg(x) = Abstract!Answered(Reg(l), p, "ACCEPTED")
         /\ \A f \in x.cache : f.cmd.seq = c.seq \/ f \in s.cache
    BY <2>5, <2>8, <2>9, CachedGrows DEF Results, p
  <2> HIDE DEF x, r
  <2>11. Reg(s).active = 0
    BY <2>2, RegFields DEF Active
  <2>12. Reg(x) \in Abstract!Outcomes(Reg(s), p)
    BY <1>2, <1>k, <2>5, <2>8, <2>10, <2>11 DEF Abstract!Outcomes
  <2>13. Reg(x) \in Consumed(Reg(s), p)
    BY <2>12, SettledSelf DEF Consumed
  <2>14. x.owner = s.owner
    BY <2>5, <2>8, <2>10, RegFields DEF Abstract!Answered, Reg
  <2> QED BY <1>c, <2>1, <2>10, <2>13, <2>14 DEF p, r
<1>3. CASE Denial(s, c) = "NONE" /\ c.action \notin Motions
  <2> DEFINE e == Effect(s, c)
             x == Cached(e, c, "COMPLETED", "NONE")
  <2>1. Core(e) /\ ~Active(e) /\ Governed(s, c, e)
    BY <1>3, EffectCore
  <2>2. /\ Remembers(e) /\ Descends(s, e) /\ e.highwater = s.highwater
        /\ Abstract!Answered(Reg(e), p, "COMPLETED") \in Abstract!Outcomes(Reg(s), p)
    BY <1>3, EffectOutcome DEF p
  <2>3. r = Tick(x, s.now)
    BY <1>3 DEF Perform
  <2> HIDE DEF e
  <2>4. /\ x \in StationType /\ SameAuthority(e, x)
        /\ x.state = e.state /\ x.alarm = e.alarm /\ x.position = e.position
        /\ x.active = e.active
    BY <2>1, CachedFacts DEF Core, Results, Reasons
  <2>5. /\ Remembers(x) /\ Reg(x) = Abstract!Answered(Reg(e), p, "COMPLETED")
        /\ \A f \in x.cache : f.cmd.seq = c.seq \/ f \in e.cache
    BY <1>0, <2>1, <2>2, CachedGrows DEF Results, Core, p
  <2> HIDE DEF x, r
  <2>6. Core(x)
    BY <2>1, <2>4 DEF Core, Clocks, Outputs, InCache, Ruled, InService, Active, SameAuthority
  <2>7. x.now = s.now /\ x.now <= s.now
    BY <1>0, <2>1, <2>4 DEF Governed, SameAuthority
  <2>8. Remembers(r) /\ Descends(x, r) /\ Reg(r) \in Abstract!Settled(Reg(x))
    BY <1>0, <2>3, <2>5, <2>6, <2>7, TickSettles
  <2>9. Reg(r) \in Consumed(Reg(s), p)
    BY <2>2, <2>5, <2>8 DEF Consumed
  <2>10. r.owner \in {0, x.owner}
    BY <1>0, <2>3, <2>6, <2>7, TickDrops
  <2>11. r.owner \in {0, s.owner, c.session}
    BY <2>1, <2>4, <2>10 DEF Governed, SameAuthority
  <2>12. ASSUME NEW f \in r.cache
         PROVE  f.cmd.seq = c.seq \/ \E g \in s.cache : Carried(g, f)
    <3>1. PICK g \in x.cache : Carried(g, f)
      BY <2>8 DEF Descends
    <3>2. CASE g.cmd.seq = c.seq
      BY <3>1, <3>2 DEF Carried
    <3>3. CASE g \in e.cache
      <4>1. PICK h \in s.cache : Carried(h, g)
        BY <2>2, <3>3 DEF Descends
      <4> QED BY <3>1, <4>1 DEF Carried
    <3> QED BY <2>5, <3>2, <3>3
  <2> QED BY <2>8, <2>9, <2>11, <2>12 DEF p, r
<1> QED BY <1>1, <1>2, <1>3

\* What carries a result on: below the high-water mark the cache only ages,
\* unless an ARM opened a new namespace, which takes a device without an owner,
\* a session that is not retired and a deadline ahead.
Opened(s, c, r) == /\ s.owner = 0 /\ r.owner \in {0, c.session} /\ ~OutOfTime(s, c)
                   /\ c.session # 0 /\ s.retired[c.session] <= s.now

LEMMA RejectedSettles ==
  ASSUME NEW s \in StationType, Remembers(s), NEW c \in Commands, NEW q,
         NEW res \in Results \ {"NONE"},
         res # "REJECTED" => c.boot = s.boot /\ c.session = s.owner /\ c.seq <= s.highwater,
         NEW r, r = [s EXCEPT !.ack = [seq |-> c.seq, result |-> res, reason |-> q]]
  PROVE  Remembers(r) /\ Grows(s, r) /\ Reg(r) \in After(Reg(s), Promised(c))
<1> DEFINE p == Promised(c)
<1>k. p.seq = c.seq /\ p.boot = c.boot /\ p.session = c.session
  BY KindFacts
<1>1. /\ r.cache = s.cache /\ r.highwater = s.highwater
      /\ Reg(r) = [Reg(s) EXCEPT !.ack = [seq |-> c.seq, result |-> res]]
  BY DEF StationType, Reg, Plain
<1> HIDE DEF p
<1>2. Remembers(r) /\ Grows(s, r)
  BY <1>1 DEF Remembers, Grows, Carried
<1>3. Reg(r) = Abstract!Answered(Reg(s), p, res)
  BY <1>1, <1>k DEF Abstract!Answered
<1>4. Reg(r) \in Abstract!Executed(Reg(s), p)
  <2>1. CASE res = "REJECTED"
    BY <1>3, <2>1 DEF Abstract!Executed
  <2>2. CASE res # "REJECTED"
    <3>1. Abstract!Repeated(Reg(s), p)
      BY <1>k, <2>2, RegFields DEF Abstract!Repeated
    <3>2. res \in Abstract!Results
      BY DEF Results, Abstract!Results
    <3> QED BY <1>3, <3>1, <3>2 DEF Abstract!Executed
  <2> QED BY <2>1, <2>2
<1> QED BY <1>2, <1>4, SettledSelf DEF After, p

LEMMA AdmitSettles ==
  ASSUME NEW s, NEW st, Sound(s, st), Remembers(s), NEW c \in Commands,
         Refusal(s, c) = "NONE", ~OutOfTime(s, c)
  PROVE  LET r == Admit(s, c) IN
         /\ Remembers(r) /\ Reg(r) \in After(Reg(s), Promised(c))
         /\ Grows(s, r) \/ Opened(s, c, r)
<1> DEFINE n == Namespace(s, c)
           h == [n EXCEPT !.highwater = c.seq]
           r == Admit(s, c)
           p == Promised(c)
<1>0. s \in StationType /\ c.seq \in Nat /\ c.seq # 0 /\ c.session # 0
  BY CommandFacts DEF Sound, Core, Refusal
<1>k. /\ p.seq = c.seq /\ p.boot = c.boot /\ p.session = c.session
      /\ p.kind = "ARM" <=> c.action = "ARM"
  BY KindFacts
<1> HIDE DEF p
<1>1. Reg(n) = Abstract!Series(Reg(s), p) /\ n \in StationType /\ Remembers(n)
  <2>1. CASE c.action = "ARM" /\ s.owner # c.session
    <3>1. NoAck \in AckType /\ Plain(NoAck) = Abstract!Nothing
      BY DEF NoAck, AckType, Results, Reasons, Plain, Abstract!Nothing
    <3>2. n = [s EXCEPT !.cache = {}, !.highwater = 0, !.keepaliveCounter = 0, !.finished = NoAck]
      BY <2>1 DEF Namespace
    <3> HIDE DEF n
    <3>3. /\ n \in StationType /\ n.cache = {} /\ n.highwater = 0 /\ n.finished = NoAck
          /\ n.boot = s.boot /\ n.owner = s.owner /\ n.active = s.active /\ n.ack = s.ack
      BY <1>0, <3>1, <3>2 DEF StationType
    <3>4. Reg(n) = Abstract!Series(Reg(s), p)
      BY <1>k, <2>1, <3>1, <3>3 DEF Reg, Abstract!Series
    <3> QED BY <3>3, <3>4 DEF Remembers
  <2>2. CASE ~(c.action = "ARM" /\ s.owner # c.session)
    <3>1. n = s
      BY <2>2 DEF Namespace
    <3> HIDE DEF n
    <3>2. Reg(s) = Abstract!Series(Reg(s), p)
      BY <1>k, <2>2, RegFields DEF Abstract!Series
    <3> QED BY <1>0, <3>1, <3>2
  <2> QED BY <2>1, <2>2
<1>2. n = s \/ (/\ n.highwater = 0 /\ s.owner = 0 /\ n.owner = 0
                /\ s.retired[c.session] <= s.now)
  <2>1. CASE c.action = "ARM" /\ s.owner # c.session
    <3>1. s.owner = 0 /\ ~(s.retired[c.session] > s.now)
      BY <2>1 DEF Refusal, Actions
    <3>2. n.highwater = 0 /\ n.owner = s.owner
      BY <1>0, <2>1 DEF Namespace, StationType
    <3>3. s.retired[c.session] \in Nat /\ s.now \in Nat
      BY <1>0, CommandFacts DEF StationType
    <3> QED BY <3>1, <3>2, <3>3
  <2>2. CASE ~(c.action = "ARM" /\ s.owner # c.session)
    BY <2>2 DEF Namespace
  <2> QED BY <2>1, <2>2
<1>3. r = IF c.seq <= n.highwater THEN Rejected(n, c, "SEQUENCE") ELSE Perform(h, c)
  BY DEF Admit
<1>4. CASE c.seq <= n.highwater
  <2>1. n = s
    BY <1>0, <1>2, <1>4
  <2>2. r = [s EXCEPT !.ack = [seq |-> c.seq, result |-> "REJECTED", reason |-> "SEQUENCE"]]
    BY <1>3, <1>4, <2>1 DEF Rejected
  <2> HIDE DEF r, n
  <2>3. Remembers(r) /\ Grows(s, r) /\ Reg(r) \in After(Reg(s), p)
    BY <1>0, <2>2, RejectedSettles DEF Results, p
  <2> QED BY <2>3 DEF p, r
<1>5. CASE ~(c.seq <= n.highwater)
  <2>1. Ready(h, c) /\ h.owner = n.owner /\ h.cache = n.cache
    BY <1>5, AdmitReady
  <2>2. r = Perform(h, c)
    BY <1>3, <1>5
  <2>3. Reg(h) = [Reg(n) EXCEPT !.highwater = c.seq] /\ h.highwater = c.seq
    BY <1>1 DEF StationType, Reg
  <2>a. n.highwater \in Nat
    BY <1>1 DEF StationType
  <2>b. \A e \in n.cache : e.cmd.seq \in Nat /\ e.cmd.seq <= n.highwater
    <3>1. ASSUME NEW e \in n.cache PROVE e.cmd.seq \in Nat
      BY <1>1, CommandFacts DEF StationType, EntryType
    <3> QED BY <1>1, <3>1 DEF Remembers
  <2> HIDE DEF r, h, n
  <2>4. Remembers(h)
    BY <1>0, <1>1, <1>5, <2>1, <2>3, <2>a, <2>b DEF Remembers
  <2>5. /\ Remembers(r) /\ Reg(r) \in Consumed(Reg(h), p)
        /\ \A f \in r.cache : f.cmd.seq = c.seq \/ \E e \in h.cache : Carried(e, f)
        /\ r.owner \in {0, h.owner, c.session}
    BY <2>1, <2>2, <2>4, PerformSettles DEF p
  <2>6. Abstract!Admissible(Reg(s), p)
    <3>1. c.boot = s.boot
      BY DEF Refusal
    <3>2. CASE c.action = "ARM"
      <4>1. ~Active(s) /\ s.owner \in {0, c.session}
        BY <3>2 DEF Refusal, Actions
      <4> QED BY <1>k, <3>1, <3>2, <4>1, RegFields DEF Abstract!Admissible, Active
    <3>3. CASE c.action # "ARM"
      <4>1. c.session = s.owner
        BY <3>3 DEF Refusal
      <4> QED BY <1>k, <3>1, <3>3, <4>1, RegFields DEF Abstract!Admissible
    <3> QED BY <3>2, <3>3
  <2>7. p.seq > Abstract!Series(Reg(s), p).highwater
    <3>1. Abstract!Series(Reg(s), p).highwater = n.highwater
      BY <1>1, RegFields
    <3> QED BY <1>0, <1>k, <1>5, <2>a, <3>1
  <2>8. Reg(h) = [Abstract!Series(Reg(s), p) EXCEPT !.highwater = p.seq]
    BY <1>k, <1>1, <2>3
  <2>9. Abstract!Outcomes(Reg(h), p) \subseteq Abstract!Executed(Reg(s), p)
    BY <2>6, <2>7, <2>8 DEF Abstract!Executed
  <2>10. Reg(r) \in After(Reg(s), p)
    BY <2>5, <2>9 DEF After, Consumed
  <2>11. CASE n = s
    <3>1. \A f \in r.cache : f.cmd.seq = c.seq \/ \E e \in s.cache : Carried(e, f)
      BY <2>1, <2>5, <2>11
    <3>2. c.seq > s.highwater
      BY <1>0, <1>5, <2>a, <2>11
    <3>3. Grows(s, r)
      BY <3>1, <3>2 DEF Grows
    <3> QED BY <2>5, <2>10, <3>3 DEF p, r
  <2>12. CASE /\ n.highwater = 0 /\ s.owner = 0 /\ n.owner = 0
              /\ s.retired[c.session] <= s.now
    <3>1. Opened(s, c, r)
      BY <1>0, <2>1, <2>5, <2>12 DEF Opened
    <3> QED BY <2>5, <2>10, <3>1 DEF p, r
  <2> QED BY <1>2, <2>11, <2>12
<1> QED BY <1>4, <1>5

LEMMA ExecuteSettles ==
  ASSUME NEW s, NEW st, Sound(s, st), Remembers(s), NEW c \in Commands
  PROVE  LET r == Execute(s, c) IN
         /\ Remembers(r) /\ Reg(r) \in After(Reg(s), Promised(c))
         /\ Grows(s, r) \/ Opened(s, c, r)
<1> DEFINE r == Execute(s, c)
<1>0. s \in StationType
  BY DEF Sound, Core
<1>1. ASSUME NEW q, r = [s EXCEPT !.ack = [seq |-> c.seq, result |-> "REJECTED", reason |-> q]]
      PROVE  Remembers(r) /\ Grows(s, r) /\ Reg(r) \in After(Reg(s), Promised(c))
  <2> HIDE DEF r
  <2> QED BY <1>0, <1>1, RejectedSettles DEF Results
<1>2. CASE Refusal(s, c) # "NONE"
  BY <1>1, <1>2 DEF Execute, Rejected
<1>3. CASE Refusal(s, c) = "NONE" /\ Duplicate(s, c)
  <2> DEFINE same == {e \in Known(s, c.seq) : e.cmd = c}
  <2>1. r = Replayed(s, c)
    BY <1>3 DEF Execute
  <2>2. CASE same = {}
    BY <1>1, <2>1, <2>2 DEF Replayed, Rejected
  <2>3. CASE same # {}
    <3> DEFINE e == CHOOSE x \in same : TRUE
               a == [seq |-> c.seq, result |-> e.result, reason |-> e.reason]
    <3>1. e \in same
      BY <2>3
    <3>2. r = [s EXCEPT !.ack = a]
      BY <2>1, <2>3 DEF Replayed
    <3> HIDE DEF e
    <3>3. e \in s.cache /\ e.cmd = c /\ c.boot = s.boot /\ c.session = s.owner
      BY <1>3, <3>1 DEF Known, Duplicate, Refusal
    <3>4. e.result \in Results \ {"NONE"} /\ c.seq <= s.highwater
      BY <1>0, <3>3 DEF Remembers, StationType, EntryType
    <3> HIDE DEF r
    <3>5. Remembers(r) /\ Grows(s, r) /\ Reg(r) \in After(Reg(s), Promised(c))
      BY <1>0, <3>2, <3>3, <3>4, RejectedSettles
    <3> QED BY <3>5 DEF r
  <2> QED BY <2>2, <2>3
<1>4. CASE Refusal(s, c) = "NONE" /\ ~Duplicate(s, c) /\ OutOfTime(s, c)
  BY <1>1, <1>4 DEF Execute, Rejected
<1>5. CASE Refusal(s, c) = "NONE" /\ ~Duplicate(s, c) /\ ~OutOfTime(s, c)
  BY <1>5, AdmitSettles DEF Execute
<1> QED BY <1>2, <1>3, <1>4, <1>5

\* An owner that loses the device in the ticks before a write does not open a
\* new namespace in that write: it was retired at that instant.
LEMMA NoReturnInAWrite ==
  ASSUME NEW s, NEW st, Sound(s, st), Remembers(s), NEW t \in Nat, s.now <= t, NEW c \in Commands,
         NEW r, s.owner # 0, r.owner = s.owner
  PROVE  ~Opened(Tick(Tick(s, t), t), c, r)
<1> DEFINE y == Tick(s, t)
           z == Tick(y, t)
<1>1. /\ Core(y) /\ Leased(y) /\ y.now = t
      /\ \/ y.owner = s.owner /\ y.retired = s.retired
         \/ /\ s.owner # 0 /\ y.owner = 0
            /\ y.retired = [s.retired EXCEPT ![s.owner] = t + RetireMs]
  BY TickCore DEF Sound
<1>2. Remembers(y) /\ t <= t
  BY TickSettles DEF Sound
<1> HIDE DEF y
<1>3. /\ z.now = t
      /\ \/ z.owner = y.owner /\ z.retired = y.retired
         \/ y.owner # 0 /\ z.owner = 0
  BY <1>1, <1>2, TickDrops
<1>4. Moved(y, z)
  BY <1>1, <1>2, TickSettles
<1> HIDE DEF z
<1>5. z.owner = y.owner
  BY <1>4 DEF Moved, Ends, Abstract!Ended, Reg
<1> SUFFICES ASSUME Opened(z, c, r)
             PROVE  FALSE
  BY DEF y, z
<1>6. z.owner = 0 /\ c.session = s.owner /\ z.retired[c.session] <= t /\ ~OutOfTime(z, c)
  BY <1>3 DEF Opened
<1>7. s.retired \in [Sessions -> Nat] /\ s.owner \in Sessions
  BY DEF Sound, Core, StationType
<1>8. z.retired[c.session] = t + RetireMs
  BY <1>1, <1>3, <1>5, <1>6, <1>7
<1>9. HorizonMs = 0
  BY <1>6, <1>8, RetirementAssumption
<1>10. c.deadline \in Nat
  BY CommandFacts
<1> QED BY <1>3, <1>6, <1>9, <1>10 DEF OutOfTime

\* Each step: a step of Device or none, and for an owner that stays the cache
\* only grows above the high-water mark.
Carries == (station.owner # 0 /\ station'.owner = station.owner) => Grows(station, station')

LEMMA StepSettles ==
  ASSUME Inv, Remembers(station), [Next]_vars
  PROVE  Remembers(station') /\ [Abstract!DeviceNext]_Registers /\ Carries
<1>0. /\ Sound(station, started) /\ Core(station) /\ station.now \in Nat /\ station.boot \in Nat
      /\ station.highwater \in Nat
  BY DEF Inv, Sound, Core, StationType
<1>r. Registers = Reg(station) /\ Registers' = Reg(station')
  BY DEF Registers, Reg
<1>g. ASSUME NEW z, Descends(station, z)
      PROVE  Grows(station, z)
  BY <1>g DEF Descends, Grows
<1>e. ASSUME Reg(station') \in Abstract!Settled(Reg(station))
      PROVE  [Abstract!DeviceNext]_Registers
  BY <1>e, <1>r DEF Abstract!DeviceNext, Abstract!Elapse
<1>1. ASSUME NEW t \in Instants, TickOrRead(t)
      PROVE  Remembers(station') /\ [Abstract!DeviceNext]_Registers /\ Carries
  <2>1. t \in Nat /\ station.now <= t
    BY <1>0 DEF Instants
  <2>2. station' = Tick(station, t)
    BY <1>1 DEF TickOrRead
  <2>3. /\ Remembers(station') /\ Descends(station, station')
        /\ Reg(station') \in Abstract!Settled(Reg(station))
    BY <1>0, <2>1, <2>2, TickSettles
  <2> QED BY <1>e, <1>g, <2>3 DEF Carries
<1>2. ASSUME NEW t \in Instants, NEW c \in Commands, WriteCommand(t, c)
      PROVE  Remembers(station') /\ [Abstract!DeviceNext]_Registers /\ Carries
  <2> DEFINE y == Tick(station, t)
             z == Tick(y, t)
             r == Execute(z, c)
             p == Promised(c)
  <2>1. t \in Nat /\ station.now <= t
    BY <1>0 DEF Instants
  <2>2. station' = IF Silent(y) THEN y ELSE r
    BY <1>2 DEF WriteCommand
  <2>3. /\ Remembers(y) /\ Descends(station, y) /\ Reg(y) \in Abstract!Settled(Reg(station))
        /\ Remembers(z) /\ Descends(station, z) /\ Reg(z) \in Abstract!Settled(Reg(station))
    BY <1>0, <2>1, TwoTicksSettle
  <2>4. Sound(z, started) /\ z.highwater = station.highwater
    <3>1. Sound(y, started) /\ y.now = t /\ y.highwater = station.highwater
      BY ZenonT(60), <1>0, <2>1, TickSound, TickCore
    <3>2. t <= t
      BY <2>1
    <3> HIDE DEF y
    <3>3. Sound(z, started) /\ z.highwater = y.highwater
      BY <2>1, <3>1, <3>2, TickSound, TickCore DEF Sound
    <3> QED BY <3>1, <3>3
  <2>n. ASSUME station.owner # 0, r.owner = station.owner
        PROVE  ~Opened(z, c, r)
    <3> HIDE DEF r
    <3> QED BY <1>0, <2>1, <2>n, NoReturnInAWrite
  <2> HIDE DEF y, z
  <2>5. /\ Remembers(r) /\ Reg(r) \in After(Reg(z), p)
        /\ Grows(z, r) \/ Opened(z, c, r)
    BY <2>3, <2>4, ExecuteSettles
  <2> HIDE DEF r
  <2>6. CASE Silent(y)
    BY <1>e, <1>g, <2>2, <2>3, <2>6 DEF Carries
  <2>7. CASE ~Silent(y)
    <3>1. station' = r
      BY <2>2, <2>7
    <3>2. p \in {Promised(x) : x \in Commands}
      OBVIOUS
    <3> HIDE DEF p
    <3>3. Reg(r) \in UNION {Abstract!Settled(x) : x \in
                              UNION {Abstract!Executed(q, p) : q \in Abstract!Settled(Reg(station))}}
      BY <2>3, <2>5 DEF After
    <3>4. Abstract!Write(p)
      BY <1>r, <3>1, <3>3 DEF Abstract!Write
    <3>5. ASSUME station.owner # 0, station'.owner = station.owner
          PROVE  Grows(station, station')
      <4>1. Grows(z, r)
        BY <2>5, <2>n, <3>1, <3>5
      <4>2. ASSUME NEW f \in r.cache
            PROVE  f.cmd.seq > station.highwater \/ \E e \in station.cache : Carried(e, f)
        <5>1. CASE f.cmd.seq > z.highwater
          BY <2>4, <5>1
        <5>2. CASE \E g \in z.cache : Carried(g, f)
          <6>1. PICK g \in z.cache : Carried(g, f)
            BY <5>2
          <6>2. PICK e \in station.cache : Carried(e, g)
            BY <2>3 DEF Descends
          <6> QED BY <6>1, <6>2 DEF Carried
        <5> QED BY <4>1, <5>1, <5>2 DEF Grows
      <4> QED BY <3>1, <4>2 DEF Grows
    <3> QED BY <2>5, <3>1, <3>2, <3>4, <3>5 DEF Abstract!DeviceNext, Carries
  <2> QED BY <2>6, <2>7
<1>3. ASSUME NEW t \in Instants, NEW k \in Keepalives, WriteKeepalive(t, k)
      PROVE  Remembers(station') /\ [Abstract!DeviceNext]_Registers /\ Carries
  <2> DEFINE y == Tick(station, t)
             z == Tick(y, t)
             r == Renew(z, k)
  <2>1. t \in Nat /\ station.now <= t
    BY <1>0 DEF Instants
  <2>2. station' = IF Silent(y) THEN y ELSE r
    BY <1>3 DEF WriteKeepalive
  <2>3. /\ Remembers(y) /\ Descends(station, y) /\ Reg(y) \in Abstract!Settled(Reg(station))
        /\ Remembers(z) /\ Descends(station, z) /\ Reg(z) \in Abstract!Settled(Reg(station))
    BY <1>0, <2>1, TwoTicksSettle
  <2>4. z \in StationType
    BY TwoTicksKeep DEF Sound, Core
  <2> HIDE DEF y, z
  <2>5. Reg(r) = Reg(z) /\ r.cache = z.cache /\ r.highwater = z.highwater
    BY <2>4 DEF Renew, StationType, Reg
  <2> HIDE DEF r
  <2>6. Remembers(r) /\ Descends(station, r)
    BY <2>3, <2>5 DEF Remembers, Descends
  <2> QED BY <1>e, <1>g, <2>2, <2>3, <2>5, <2>6 DEF Carries
<1>4. CASE Restart
  <2>1. station' = Fresh(station.boot + 1) /\ station.boot < MaxBoot
    BY <1>4 DEF Restart
  <2>2. Reg(station') = Abstract!Booted(station.boot + 1) /\ station'.cache = {} /\ station'.owner = 0
    BY <2>1 DEF Fresh, Reg, Plain, NoAck, NoMotion, Abstract!Booted, Abstract!Nothing
  <2>3. Abstract!Reboot
    BY <1>r, <2>1, <2>2, RegFields DEF Abstract!Reboot
  <2> QED BY <2>2, <2>3 DEF Remembers, Carries, Abstract!DeviceNext
<1>5. CASE UNCHANGED vars
  <2>1. station' = station
    BY <1>5 DEF vars
  <2>2. Descends(station, station)
    BY DEF Descends, Carried
  <2> QED BY <1>g, <1>r, <2>1, <2>2 DEF Carries
<1> QED BY <1>1, <1>2, <1>3, <1>4, <1>5 DEF Next

LEMMA Remembered == Spec => []Remembers(station)
<1>1. Init => Remembers(station)
  BY DEF Init, Fresh, Remembers
<1>2. Inv /\ Remembers(station) /\ [Next]_vars => Remembers(station)'
  BY StepSettles
<1> QED BY <1>1, <1>2, Invariance, PTL DEF Spec

\* The device keeps what the gateway is built on: every handler of the model,
\* with the ticks before and inside it, is one step of Device on the registers
\* or none, for every lease, horizon, cache size and set of blocks.
THEOREM DeviceImplemented == Spec => ImplementsDevice
<1>1. Init => Abstract!DeviceInit
  <2> SUFFICES ASSUME Init
               PROVE  Abstract!DeviceInit
    OBVIOUS
  <2>1. station = Fresh(1)
    BY DEF Init
  <2> QED BY <2>1 DEF Abstract!DeviceInit, Registers, Fresh, Plain, NoAck, NoMotion, Abstract!Booted,
                      Abstract!Nothing
<1>2. Inv /\ Remembers(station) /\ [Next]_vars => [Abstract!DeviceNext]_Registers
  BY StepSettles
<1> QED BY <1>1, <1>2, Invariance, Remembered, PTL DEF Spec, ImplementsDevice, Abstract!DeviceSpec

\* A final result is final: while an owner keeps the device, a number answers
\* for one block and its result, once it is not ACCEPTED, never changes.
THEOREM ResultsStay == Spec => ResultsAreFinal
<1> DEFINE Final == \A e \in station.cache, f \in station'.cache :
                      (e.cmd.seq = f.cmd.seq /\ station.owner # 0 /\ station'.owner = station.owner) =>
                         /\ f.cmd = e.cmd
                         /\ e.result # "ACCEPTED" => f.result = e.result /\ f.reason = e.reason
<1>1. ASSUME Inv, Remembers(station), [Next]_vars
      PROVE  Final
  <2> SUFFICES ASSUME NEW e \in station.cache, NEW f \in station'.cache,
                      e.cmd.seq = f.cmd.seq, station.owner # 0, station'.owner = station.owner
               PROVE  /\ f.cmd = e.cmd
                      /\ e.result # "ACCEPTED" => f.result = e.result /\ f.reason = e.reason
    OBVIOUS
  <2>1. Grows(station, station')
    BY <1>1, StepSettles DEF Carries
  <2>2. e.cmd.seq \in Nat /\ station.highwater \in Nat
    BY <1>1, CommandFacts DEF Inv, Sound, Core, StationType, EntryType
  <2>3. ~(f.cmd.seq > station.highwater)
    BY <1>1, <2>2 DEF Remembers
  <2>4. PICK g \in station.cache : Carried(g, f)
    BY <2>1, <2>3 DEF Grows
  <2>5. g = e
    BY <1>1, <2>4 DEF Carried, Remembers
  <2> QED BY <2>4, <2>5 DEF Carried
<1>2. Inv /\ Remembers(station) /\ [Next]_vars => [Final]_vars
  BY <1>1
<1> QED BY <1>2, Invariance, Remembered, PTL DEF Spec, ResultsAreFinal
=============================================================================
