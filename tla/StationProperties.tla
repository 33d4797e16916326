------------------------- MODULE StationProperties -------------------------
(***************************************************************************)
(* What the actuator of Station promises, and the inductive invariant of   *)
(* the proofs in StationProofs.                                            *)
(***************************************************************************)
EXTENDS Station

AckType == [seq : Nat, result : Results, reason : Reasons]
MotionType == [seq : Nat, cycle : BOOLEAN, target : {"HOME", "EXTENDED"},
               start : Places, legBegan : Nat]
EntryType == [cmd : Commands, result : Results, reason : Reasons]
StationType ==
    [boot : Nat, now : Nat, state : States, mode : Modes, alarm : Reasons,
     position : Places, cycles : Nat, motionStarts : Nat, visitedExtended : BOOLEAN,
     owner : Sessions \union {0}, lastKeepalive : Nat, keepaliveCounter : Nat,
     highwater : Nat, heartbeat : Nat, ack : AckType, finished : AckType,
     active : MotionType, fault : Faults, faultUntil : Nat,
     cache : SUBSET EntryType, retired : [Sessions -> Nat]]

Clocks(s) == s.lastKeepalive <= s.now /\ s.active.legBegan <= s.now

\* The fields keep their types, no timer starts ahead of the clock, and only
\* blocks that were written enter the history (model.py:10-29).
TypeOK == station \in StationType /\ started \subseteq Commands /\ Clocks(station)

\* One command block moves the actuator at most once, however often and
\* however late it is written, through cache eviction, a lost lease, a new
\* owner and the return of an old one: motion_starts (model.py:194) equals the
\* number of distinct blocks of this boot that ever started a motion.
StartedNow == {c \in started : c.boot = station.boot}
EachCommandMovesOnce == station.motionStarts = Cardinality(StartedNow)

\* No handler leaves the actuator moving without an owner whose lease is
\* running: the lease is renewed only by that owner (model.py:74-78).
Leased(s) == s.owner # 0 => s.now - s.lastKeepalive < LeaseMs
MotionNeedsLease == Active(station) => station.owner # 0 /\ Leased(station)

\* A leg that has not ended is within its time limit: a slowed motion or a
\* missing limit input never stays energised past TimeoutMs (model.py:102).
Prompt(s) == Active(s) => Elapsed(s) < TimeoutMs
LegWithinLimit == Prompt(station)

\* The output registers, derived from the state alone (registers(), line 205),
\* are energised exactly while a command is active; an alarm and the FAULT
\* state stand together; a state at rest tells the true place.
Outputs(s) ==
    /\ Active(s) <=> s.state \in {"EXTENDING", "RETRACTING"}
    /\ s.alarm # "NONE" <=> s.state = "FAULT"
    /\ s.state = "IDLE" => s.position = "HOME"
    /\ s.state = "EXTENDED" => s.position = "EXTENDED"
    /\ s.state = "STOPPED" => s.position = "BETWEEN"
    /\ s.state = "EXTENDING" <=> (Active(s) /\ s.active.target = "EXTENDED")
OutputsFollowCommand == Outputs(station)

\* The active command keeps its entry in the bounded cache until it ends
\* (`_finish' reads it, line 58, and would raise KeyError), still ACCEPTED.
InCache(s) ==
    Active(s) => \E e \in s.cache : e.cmd.seq = s.active.seq /\ e.result = "ACCEPTED"
ActiveIsCached == InCache(station)

(***************************************************************************)
(* The inductive invariant.  What it adds: a motion has an owner and a     *)
(* number under the high-water mark; the owner is not retired; and every   *)
(* block that moved the actuator is spent, for one of three reasons.       *)
(***************************************************************************)
Ruled(s) == Active(s) => s.owner # 0 /\ s.active.seq <= s.highwater
InService(s) == s.owner # 0 => s.retired[s.owner] <= s.now
Spent(s, c) == \/ s.owner = c.session /\ c.seq <= s.highwater
               \/ c.deadline <= s.retired[c.session]
               \/ c.deadline <= s.now

Core(s) == s \in StationType /\ Clocks(s) /\ Outputs(s) /\ InCache(s) /\ Ruled(s) /\ InService(s)
History(s, st) ==
    /\ st \subseteq Commands /\ IsFiniteSet(st)
    /\ s.motionStarts = Cardinality({c \in st : c.boot = s.boot})
    /\ \A c \in st : /\ c.session # 0 /\ c.boot <= s.boot
                     /\ c.boot = s.boot => c.deadline <= s.now + HorizonMs /\ Spent(s, c)
Sound(s, st) == Core(s) /\ Leased(s) /\ Prompt(s) /\ History(s, st)

\* A block that moved the actuator cannot be admitted again: it is under its
\* owner's high-water mark, its session is retired past its deadline, or the
\* deadline is over (model.py:75, 139, 148, 155), with all of the above.
Inv == Sound(station, started)

\* The result of a command never changes once it is final, nor do two
\* different blocks ever hold one sequence number of an owner (model.py:142-147).
ResultsAreFinal ==
    [][\A e \in station.cache, f \in station'.cache :
         (e.cmd.seq = f.cmd.seq /\ station.owner # 0 /\ station'.owner = station.owner) =>
            /\ f.cmd = e.cmd
            /\ e.result # "ACCEPTED" => f.result = e.result /\ f.reason = e.reason]_vars

\* A session that lost its lease cannot own the device again while a block
\* it used to move the device is still within its deadline
\* (README of industrial_station, section 3: the retirement covers the validity).
NoReturnWithinValidity ==
    [][\A c \in started :
         (/\ station'.boot = station.boot /\ c.boot = station.boot
          /\ station.owner # c.session /\ station'.owner = c.session)
         => c.deadline <= station'.now]_vars

\* An alarm never clears in a step that also moves the actuator: a RESET
\* does not start a motion (model.py:174-178, 185).
NoMotionOutOfAlarm ==
    [][station.alarm # "NONE" /\ station'.boot = station.boot => ~Active(station')]_vars
=============================================================================
