------------------------------- MODULE Device -------------------------------
(***************************************************************************)
(* What the simulated device promises to whoever commands it: ownership,   *)
(* sequence numbers, one motion at a time, results.  Time, the mechanics   *)
(* of a motion and the reasons of a refusal are left open: a lease may run *)
(* out, a motion may end and a command may be refused at any moment.       *)
(* Station implements this (StationRefinement); StationLink is the gateway *)
(* on top of it.                                                           *)
(***************************************************************************)
EXTENDS Naturals

CONSTANTS Commands,  \* the blocks ever written: [kind, seq, boot, session]
          MaxBoot    \* bound: starts of the device

ASSUME CommandsAssumption ==
    \A c \in Commands : c.kind \in {"ARM", "STOP", "MOVE", "SET"} /\ c.seq \in Nat
ASSUME BootAssumption == MaxBoot \in Nat

VARIABLE dev   \* the registers a client sees, and the high-water mark

Results == {"COMPLETED", "FAILED", "REJECTED", "ACCEPTED"}
Nothing == [seq |-> 0, result |-> "NONE"]

Booted(boot) == [boot |-> boot, owner |-> 0, highwater |-> 0, active |-> 0,
                 ack |-> Nothing, finished |-> Nothing]

Answered(d, c, result) == [d EXCEPT !.ack = [seq |-> c.seq, result |-> result]]

\* The motion in progress, if there is one, ends.
Ended(d, result) ==
    LET end == [seq |-> d.active, result |-> result] IN
    IF d.active = 0 THEN d
    ELSE [d EXCEPT !.active = 0, !.ack = end, !.finished = end]

\* Time passes: nothing happens, the motion ends, or the lease runs out.
Settled(d) == {d, Ended(d, "COMPLETED"), Ended(d, "FAILED")}
              \union {[Ended(d, "FAILED") EXCEPT !.owner = 0]}

Repeated(d, c) == c.boot = d.boot /\ c.session = d.owner /\ c.seq <= d.highwater

Admissible(d, c) ==
    /\ c.boot = d.boot
    /\ IF c.kind = "ARM" THEN d.active = 0 /\ d.owner \in {0, c.session}
                         ELSE c.session = d.owner

\* Faulty variant: the last end survives the change of owner.
SeriesKeepsEnd(d, c) == IF c.kind = "ARM" /\ d.owner # c.session
                        THEN [d EXCEPT !.highwater = 0] ELSE d

\* A new owner starts a new series of sequence numbers.
Series(d, c) == IF c.kind = "ARM" /\ d.owner # c.session
                THEN [d EXCEPT !.highwater = 0, !.finished = Nothing] ELSE d

\* What an admissible command with a new number may do.
Outcomes(d, c) ==
    {Answered(d, c, "REJECTED")}
    \union (IF c.kind = "ARM" THEN {Answered([d EXCEPT !.owner = c.session], c, "COMPLETED")} ELSE {})
    \union (IF c.kind = "STOP" THEN {Answered(Ended(d, "FAILED"), c, "COMPLETED")} ELSE {})
    \union (IF c.kind = "SET" /\ d.active = 0 THEN {Answered(d, c, "COMPLETED")} ELSE {})
    \union (IF c.kind = "MOVE" /\ d.active = 0
            THEN {Answered([d EXCEPT !.active = c.seq], c, "ACCEPTED")} ELSE {})

Executed(d, c) ==
    {Answered(d, c, "REJECTED")}
    \union (IF Repeated(d, c) THEN {Answered(d, c, result) : result \in Results} ELSE {})
    \union (IF Admissible(d, c) /\ c.seq > Series(d, c).highwater
            THEN Outcomes([Series(d, c) EXCEPT !.highwater = c.seq], c) ELSE {})

Elapse == dev' \in Settled(dev)

Write(c) == dev' \in UNION {Settled(x) : x \in UNION {Executed(y, c) : y \in Settled(dev)}}

Reboot == dev.boot < MaxBoot /\ dev' = Booted(dev.boot + 1)

DeviceInit == dev = Booted(1)
DeviceNext == Elapse \/ (\E c \in Commands : Write(c)) \/ Reboot
DeviceSpec == DeviceInit /\ [][DeviceNext]_dev
=============================================================================
