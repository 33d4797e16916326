------------------------------- MODULE Station -------------------------------
(***************************************************************************)
(* The simulated actuator of industrial_station/model.py, behind the       *)
(* Modbus access handler of industrial_station/simulator.py.               *)
(*                                                                         *)
(* The whole object is one record, `station'.  Every handler reads the     *)
(* clock, ticks the model and then does its work, so an action is          *)
(* "time t arrives, and the handler runs at t": `station.now' is the time  *)
(* of the latest handler.  A handler is a composition of operators on the  *)
(* record, one per method of the class.                                    *)
(*                                                                         *)
(* Abstractions: the position is one of three places (at home, between,    *)
(* extended); 32-bit words are naturals; the durations reported in the     *)
(* registers and the count of ticks are left out; parameters are named     *)
(* instead of numbered; boot identifiers, random in the code, are fresh.   *)
(***************************************************************************)
EXTENDS Naturals, FiniteSets

CONSTANTS Sessions,    \* session identifiers, none of them 0
          Commands,    \* the command blocks a master may write
          Keepalives,  \* the keepalive blocks a master may write
          MoveMs,      \* time of one leg
          TimeoutMs,   \* limit on one leg
          LeaseMs,     \* lease of the owner session
          FaultMs,     \* how long a communication fault lasts
          HorizonMs,   \* furthest deadline accepted (line 148: 5000)
          RetireMs,    \* retirement of a session whose lease ran out (line 75: 5000)
          SlowFactor,  \* SLOW_MOTION multiplies the leg by it (line 84: 10)
          CacheSize,   \* deduplication cache (line 47: 128)
          MaxGap,      \* bound: longest time between two handlers
          MaxTime,     \* bound: last instant of a boot that is explored
          MaxBoot      \* bound: boots explored

Motions == {"EXTEND", "RETRACT", "CYCLE"}
Actions == Motions \union {"STOP", "RESET", "MODE", "INJECT", "ARM"}
Modes == {"MANUAL", "AUTO"}
Faults == {"NONE", "TARGET_LIMIT_MISSING", "BOTH_LIMITS", "SLOW_MOTION",
           "COMM_SILENT", "FROZEN_HEARTBEAT"}
NoParam == "NONE"      \* the number 0: no parameter, and Fault.NONE for INJECT
States == {"IDLE", "EXTENDING", "EXTENDED", "RETRACTING", "FAULT", "STOPPED"}
Places == {"HOME", "BETWEEN", "EXTENDED"}
Results == {"NONE", "ACCEPTED", "COMPLETED", "REJECTED", "FAILED"}
Reasons == {"NONE", "BOOT", "SESSION", "EXPIRED", "SEQUENCE", "BUSY", "INTERLOCK",
            "PARAMETER", "ACTION_TIMEOUT", "LIMIT_CONFLICT", "COMM_TIMEOUT",
            "STOPPED", "FAULT_ACTIVE"}

\* A command block: "action" outside Actions stands for an unknown code or
\* for reserved words that are not zero.
CommandType == [action : STRING, seq : Nat, param : STRING, boot : Nat,
                session : Sessions \union {0}, deadline : Nat]
KeepaliveType == [boot : Nat, owner : Sessions \union {0}, counter : Nat]

ASSUME SessionsAssumption == Sessions \subseteq Nat \ {0}
ASSUME CommandsAssumption == Commands \subseteq CommandType
ASSUME KeepalivesAssumption == Keepalives \subseteq KeepaliveType
ASSUME TimingAssumption ==      \* the constructor's check, line 12
    /\ MoveMs \in Nat \ {0} /\ TimeoutMs \in Nat /\ MoveMs < TimeoutMs
    /\ LeaseMs \in Nat \ {0} /\ FaultMs \in Nat \ {0}
    /\ SlowFactor \in Nat \ {0}
ASSUME RetirementAssumption ==  \* both are 5000 in the code
    /\ HorizonMs \in Nat /\ RetireMs \in Nat /\ HorizonMs <= RetireMs
ASSUME BoundsAssumption ==
    /\ CacheSize \in Nat \ {0} /\ MaxGap \in Nat /\ MaxTime \in Nat /\ MaxBoot \in Nat

VARIABLES station,     \* the Station object
          started      \* history: the commands that started a motion

vars == <<station, started>>

NoMotion == [seq |-> 0, cycle |-> FALSE, target |-> "HOME", start |-> "HOME", legBegan |-> 0]
NoAck == [seq |-> 0, result |-> "NONE", reason |-> "NONE"]

Fresh(boot) ==
    [boot |-> boot, now |-> 0, state |-> "IDLE", mode |-> "MANUAL", alarm |-> "NONE",
     position |-> "HOME", cycles |-> 0, motionStarts |-> 0, visitedExtended |-> FALSE,
     owner |-> 0, lastKeepalive |-> 0, keepaliveCounter |-> 0, highwater |-> 0,
     heartbeat |-> 0, ack |-> NoAck, finished |-> NoAck, active |-> NoMotion,
     fault |-> "NONE", faultUntil |-> 0, cache |-> {},
     retired |-> [x \in Sessions |-> 0]]

Active(s) == s.active.seq # 0
RestState(s) == CASE s.position = "HOME" -> "IDLE"
                  [] s.position = "EXTENDED" -> "EXTENDED"
                  [] OTHER -> "STOPPED"

(***************************************************************************)
(* The deduplication cache: entries in insertion order, which is the order *)
(* of their sequence numbers, because only numbers above the high-water    *)
(* mark are inserted.  The oldest entry that is not the active command's   *)
(* leaves when the cache is over its size.                                 *)
(***************************************************************************)
Entry(c, result, reason) == [cmd |-> c, result |-> result, reason |-> reason]
Known(s, seq) == {e \in s.cache : e.cmd.seq = seq}

Trimmed(entries, keep) ==
    IF Cardinality(entries) <= CacheSize THEN entries
    ELSE {e \in entries : \/ e.cmd.seq = keep
                          \/ \E f \in entries : f.cmd.seq # keep /\ f.cmd.seq < e.cmd.seq}

Cached(s, c, result, reason) ==
    [s EXCEPT !.cache = Trimmed({e \in @ : e.cmd.seq # c.seq} \union {Entry(c, result, reason)},
                                s.active.seq),
              !.ack = [seq |-> c.seq, result |-> result, reason |-> reason]]

\* Faulty variants: the result goes to the newest number; the command stays active.
FinishNewest(s, result, reason) ==
    LET end == [seq |-> s.highwater, result |-> result, reason |-> reason] IN
    IF ~Active(s) THEN s
    ELSE [s EXCEPT !.finished = end, !.ack = end, !.active = NoMotion,
                   !.cache = {e \in @ : e.cmd.seq # s.highwater}
                             \union {Entry(e.cmd, result, reason) : e \in Known(s, s.highwater)}]
FinishKeepsActive(s, result, reason) ==
    IF ~Active(s) THEN s
    ELSE [s EXCEPT !.finished = [seq |-> s.active.seq, result |-> result, reason |-> reason]]

Finish(s, result, reason) ==
    LET end == [seq |-> s.active.seq, result |-> result, reason |-> reason] IN
    IF ~Active(s) THEN s
    ELSE [s EXCEPT !.finished = end, !.ack = end, !.active = NoMotion,
                   !.cache = {e \in @ : e.cmd.seq # s.active.seq}
                             \union {Entry(e.cmd, result, reason) : e \in Known(s, s.active.seq)}]

Trip(s, reason) == [Finish(s, "FAILED", reason) EXCEPT !.state = "FAULT", !.alarm = reason]

(***************************************************************************)
(* tick(): communication faults run out, the lease is checked, the         *)
(* injected limit conflict trips, the motion advances.  A retired session  *)
(* is one whose retirement lies ahead of the clock, which is what line 69  *)
(* keeps in the table.                                                     *)
(***************************************************************************)
AtTime(s, t) ==
    LET cleared == s.fault \in {"COMM_SILENT", "FROZEN_HEARTBEAT"} /\ t >= s.faultUntil
        fault == IF cleared THEN "NONE" ELSE s.fault
    IN [s EXCEPT !.now = t, !.fault = fault,
                 !.heartbeat = IF fault = "FROZEN_HEARTBEAT" THEN @ ELSE t]

\* Faulty variant: one unit late.
LeaseExpiredLate(s) == s.owner # 0 /\ s.now - s.lastKeepalive > LeaseMs
LeaseExpired(s) == s.owner # 0 /\ s.now - s.lastKeepalive >= LeaseMs

\* Faulty variant: the owner goes, its motion continues.
CheckLeaseOnly(s) ==
    IF ~LeaseExpired(s) THEN s
    ELSE [s EXCEPT !.owner = 0, !.retired[s.owner] = s.now + RetireMs]

CheckLease(s) ==
    LET released == IF Active(s) THEN Trip(s, "COMM_TIMEOUT") ELSE s IN
    IF ~LeaseExpired(s) THEN s
    ELSE [released EXCEPT !.owner = 0, !.retired[s.owner] = s.now + RetireMs]

CheckConflict(s) == IF s.fault = "BOTH_LIMITS" THEN Trip(s, "LIMIT_CONFLICT") ELSE s

Elapsed(s) == s.now - s.active.legBegan
LegDuration(s) == IF s.fault = "SLOW_MOTION" THEN MoveMs * SlowFactor ELSE MoveMs

PlaceNow(s) == IF Elapsed(s) = 0 THEN s.active.start
               ELSE IF Elapsed(s) >= LegDuration(s) THEN s.active.target
               ELSE IF s.active.start = s.active.target THEN s.active.start
               ELSE "BETWEEN"

Leg(s, target) ==
    [s EXCEPT !.active.target = target, !.active.start = s.position,
              !.active.legBegan = s.now,
              !.state = IF target = "EXTENDED" THEN "EXTENDING" ELSE "RETRACTING"]

\* The limit input of the target: the two limits are consulted only here
\* while a command is active, and BOTH_LIMITS leaves none active.
Reached(s) == /\ s.position = s.active.target
              /\ ~ /\ s.fault = "TARGET_LIMIT_MISSING"
                   /\ (s.state = "EXTENDING") = (s.active.target = "EXTENDED")

Arrive(s) ==
    IF s.active.target = "EXTENDED"
    THEN LET v == [s EXCEPT !.visitedExtended = TRUE] IN
         IF s.active.cycle THEN Leg(v, "HOME")
         ELSE Finish([v EXCEPT !.state = "EXTENDED"], "COMPLETED", "NONE")
    ELSE Finish([s EXCEPT !.state = "IDLE", !.visitedExtended = FALSE,
                          !.cycles = IF s.visitedExtended THEN @ + 1 ELSE @],
                "COMPLETED", "NONE")

\* Faulty variant: the limit of the leg is tested one unit late.
TravelLate(s) ==
    LET moved == [s EXCEPT !.position = PlaceNow(s)] IN
    IF ~Active(s) THEN s
    ELSE IF Reached(moved) THEN Arrive(moved)
    ELSE IF Elapsed(s) > TimeoutMs THEN Trip(moved, "ACTION_TIMEOUT")
    ELSE moved

Travel(s) ==
    LET moved == [s EXCEPT !.position = PlaceNow(s)] IN
    IF ~Active(s) THEN s
    ELSE IF Reached(moved) THEN Arrive(moved)
    ELSE IF Elapsed(s) >= TimeoutMs THEN Trip(moved, "ACTION_TIMEOUT")
    ELSE moved

Tick(s, t) == Travel(CheckConflict(CheckLease(AtTime(s, t))))

(***************************************************************************)
(* execute(): the checks in the order of the code.  The first group        *)
(* rejects and remembers nothing; the second one consumes the sequence     *)
(* number and remembers the rejection.                                     *)
(***************************************************************************)
Rejected(s, c, reason) ==
    [s EXCEPT !.ack = [seq |-> c.seq, result |-> "REJECTED", reason |-> reason]]

\* Faulty variant: the table of retired sessions is not consulted.
RefusalForgetsRetired(s, c) ==
    IF c.boot # s.boot THEN "BOOT"
    ELSE IF c.session = 0 \/ c.seq = 0 \/ c.action \notin Actions THEN "PARAMETER"
    ELSE IF c.action # "ARM" THEN (IF c.session = s.owner THEN "NONE" ELSE "SESSION")
    ELSE IF Active(s) \/ s.owner \notin {0, c.session} THEN "BUSY"
    ELSE "NONE"

Refusal(s, c) ==
    IF c.boot # s.boot THEN "BOOT"
    ELSE IF c.session = 0 \/ c.seq = 0 \/ c.action \notin Actions THEN "PARAMETER"
    ELSE IF c.action # "ARM" THEN (IF c.session = s.owner THEN "NONE" ELSE "SESSION")
    ELSE IF Active(s) \/ s.owner \notin {0, c.session} THEN "BUSY"
    ELSE IF s.retired[c.session] > s.now THEN "SESSION"
    ELSE "NONE"

Duplicate(s, c) == c.session = s.owner /\ Known(s, c.seq) # {}

\* A faulty variant: another block with a known number takes the place of it.
ReplayedOver(s, c) ==
    LET same == {e \in Known(s, c.seq) : e.cmd = c} IN
    IF same = {} THEN Cached(s, c, "REJECTED", "SEQUENCE")
    ELSE LET e == CHOOSE x \in same : TRUE
         IN [s EXCEPT !.ack = [seq |-> c.seq, result |-> e.result, reason |-> e.reason]]

Replayed(s, c) ==
    LET same == {e \in Known(s, c.seq) : e.cmd = c} IN
    IF same = {} THEN Rejected(s, c, "SEQUENCE")
    ELSE LET e == CHOOSE x \in same : TRUE
         IN [s EXCEPT !.ack = [seq |-> c.seq, result |-> e.result, reason |-> e.reason]]

OutOfTime(s, c) == c.deadline <= s.now \/ c.deadline > s.now + HorizonMs

\* An ARM by a session that is not the owner opens a new namespace.
Namespace(s, c) ==
    IF c.action = "ARM" /\ s.owner # c.session
    THEN [s EXCEPT !.cache = {}, !.highwater = 0, !.keepaliveCounter = 0, !.finished = NoAck]
    ELSE s

Permitted(s, action) ==
    \/ action = "EXTEND" /\ s.mode = "MANUAL" /\ s.state \in {"IDLE", "STOPPED"}
    \/ action = "RETRACT" /\ s.mode = "MANUAL" /\ s.state \in {"EXTENDED", "STOPPED"}
    \/ action = "CYCLE" /\ s.mode = "AUTO" /\ s.state = "IDLE"

Denial(s, c) ==
    IF c.param # NoParam /\ c.action \notin {"MODE", "INJECT"} THEN "PARAMETER"
    ELSE IF Active(s) /\ c.action # "STOP" THEN "BUSY"
    ELSE IF \/ c.action = "INJECT" /\ c.param \notin Faults
            \/ c.action = "MODE" /\ c.param \notin Modes THEN "PARAMETER"
    ELSE IF \/ c.action = "RESET" /\ s.fault # "NONE"
            \/ c.action \in Motions /\ s.alarm # "NONE" THEN "FAULT_ACTIVE"
    ELSE IF c.action \in Motions /\ ~Permitted(s, c.action) THEN "INTERLOCK"
    ELSE "NONE"

StopMotion(s) ==
    LET f == Finish(s, "FAILED", "STOPPED")
    IN [f EXCEPT !.state = IF @ = "FAULT" THEN @ ELSE RestState(f)]

\* The commands that complete at once.
Effect(s, c) ==
    CASE c.action = "ARM" -> [s EXCEPT !.owner = c.session, !.lastKeepalive = s.now]
      [] c.action = "STOP" -> StopMotion(s)
      [] c.action = "INJECT" -> [s EXCEPT !.fault = c.param, !.faultUntil = s.now + FaultMs]
      [] c.action = "RESET" -> [s EXCEPT !.alarm = "NONE", !.state = RestState(s)]
      [] c.action = "MODE" -> [s EXCEPT !.mode = c.param]

StartMotion(s, c) ==
    LET begun == [s EXCEPT !.active = [NoMotion EXCEPT !.seq = c.seq, !.cycle = (c.action = "CYCLE")],
                           !.motionStarts = @ + 1]
        leg == Leg(begun, IF c.action = "RETRACT" THEN "HOME" ELSE "EXTENDED")
    IN Cached(leg, c, "ACCEPTED", "NONE")

Perform(s, c) ==
    IF Denial(s, c) # "NONE" THEN Cached(s, c, "REJECTED", Denial(s, c))
    ELSE IF c.action \in Motions THEN StartMotion(s, c)
    ELSE Tick(Cached(Effect(s, c), c, "COMPLETED", "NONE"), s.now)

\* Faulty variant: no sequence floor under the bounded cache.
AdmitAnySequence(s, c) == Perform([Namespace(s, c) EXCEPT !.highwater = c.seq], c)

Admit(s, c) ==
    LET n == Namespace(s, c) IN
    IF c.seq <= n.highwater THEN Rejected(n, c, "SEQUENCE")
    ELSE Perform([n EXCEPT !.highwater = c.seq], c)

Execute(s, c) ==
    IF Refusal(s, c) # "NONE" THEN Rejected(s, c, Refusal(s, c))
    ELSE IF Duplicate(s, c) THEN Replayed(s, c)
    ELSE IF OutOfTime(s, c) THEN Rejected(s, c, "EXPIRED")
    ELSE Admit(s, c)

Renew(s, k) ==
    IF k.boot = s.boot /\ k.owner # 0 /\ k.owner = s.owner /\ k.counter > s.keepaliveCounter
    THEN [s EXCEPT !.keepaliveCounter = k.counter, !.lastKeepalive = s.now]
    ELSE s

(***************************************************************************)
(* The actions: the ticker of the simulator or a status read, a write of   *)
(* the command block, a write of the keepalive block, a restart of the     *)
(* process.  While COMM_SILENT lasts, a write is answered DEVICE_BUSY      *)
(* after the access handler's own tick.                                    *)
(***************************************************************************)
Instants == {t \in station.now .. station.now + MaxGap : t <= MaxTime}
Silent(s) == s.fault = "COMM_SILENT"

TickOrRead(t) == station' = Tick(station, t) /\ UNCHANGED started

WriteCommand(t, c) ==
    LET s == Tick(station, t) IN
    /\ station' = IF Silent(s) THEN s ELSE Execute(Tick(s, t), c)
    /\ started' = IF station'.motionStarts # station.motionStarts
                  THEN started \union {c} ELSE started

WriteKeepalive(t, k) ==
    LET s == Tick(station, t) IN
    /\ station' = IF Silent(s) THEN s ELSE Renew(Tick(s, t), k)
    /\ UNCHANGED started

Restart ==
    /\ station.boot < MaxBoot
    /\ station' = Fresh(station.boot + 1)
    /\ UNCHANGED started

Init == station = Fresh(1) /\ started = {}

Next ==
    \/ \E t \in Instants : TickOrRead(t)
    \/ \E t \in Instants, c \in Commands : WriteCommand(t, c)
    \/ \E t \in Instants, k \in Keepalives : WriteKeepalive(t, k)
    \/ Restart

Spec == Init /\ [][Next]_vars
=============================================================================
