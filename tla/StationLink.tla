---------------------------- MODULE StationLink ----------------------------
(***************************************************************************)
(* The gateway of the industrial station (gateway.py with the records of   *)
(* store.py) commanding a Device over a Modbus connection that loses       *)
(* answers, and, when Late, delivers a block long after its call failed.   *)
(*                                                                         *)
(* io_lock makes a poll one step; a submission is three: the block is      *)
(* written, the device executes it, the status is read back.  Sessions are *)
(* random 32-bit numbers, here numbers never used before.                  *)
(***************************************************************************)
EXTENDS Device, FiniteSets

CONSTANTS MaxSession,  \* bound: sessions the gateway draws
          MaxSequence, \* bound: commands submitted in one session
          Late         \* may a block arrive after its call failed?

ASSUME LinkBounds == MaxSession \in Nat /\ MaxSequence \in Nat /\ Late \in BOOLEAN

VARIABLES gateway,   \* the Gateway object and its store
          stray,     \* blocks whose calls failed, still on their way
          landed, verdicts   \* history: what the device answered and how its motions ended

linkVars == <<dev, gateway, stray, landed, verdicts>>

Kinds == {"ARM", "STOP", "MOVE", "SET"}
Id(block) == [boot |-> block.boot, session |-> block.session, seq |-> block.seq]
NoBlock == [kind |-> "NONE", seq |-> 0, boot |-> 0, session |-> 0]

(***************************************************************************)
(* The store: records that are CREATED, SENT or ACCEPTED are pending.      *)
(* CREATED becomes SENT in the same step of submit().                      *)
(***************************************************************************)
IsPending(r) == r.status \in {"SENT", "ACCEPTED"}
Pending(records) == {r \in records : IsPending(r)}
Abandoned(records) ==
    {IF IsPending(r) THEN [r EXCEPT !.status = "UNKNOWN"] ELSE r : r \in records}

(***************************************************************************)
(* fail() and observe().  boot 0 is "no sample yet"; of failures only the  *)
(* first one changes anything but the quality.                             *)
(***************************************************************************)

Fail(g) ==
    IF g.failed THEN [g EXCEPT !.good = FALSE]
    ELSE [g EXCEPT !.armed = FALSE, !.session = @ + 1, !.sequence = 0,
                   !.records = Abandoned(@), !.failed = TRUE, !.good = FALSE]

\* Faulty variants: a motion's end is taken for that of every later command;
\* only the acknowledgement is looked at.
MatchedUpTo(r, session, d) ==
    IF ~IsPending(r) \/ r.boot # d.boot \/ r.session # session THEN r
    ELSE IF r.seq >= d.finished.seq THEN [r EXCEPT !.status = d.finished.result] ELSE r

MatchedAckOnly(r, session, d) ==
    IF ~IsPending(r) \/ r.boot # d.boot \/ r.session # session THEN r
    ELSE IF r.seq = d.ack.seq THEN [r EXCEPT !.status = d.ack.result] ELSE r

\* The status registers carry numbers, not sessions.
Matched(r, session, d) ==
    IF ~IsPending(r) \/ r.boot # d.boot \/ r.session # session THEN r
    ELSE IF r.seq = d.finished.seq THEN [r EXCEPT !.status = d.finished.result]
    ELSE IF r.seq = d.ack.seq THEN [r EXCEPT !.status = d.ack.result]
    ELSE r

Observed(g, d) ==
    LET restarted == IF g.boot \notin {0, d.boot} THEN Fail(g) ELSE g
        owned == IF restarted.armed /\ d.owner # restarted.session
                 THEN Fail(restarted) ELSE restarted
    IN [owned EXCEPT !.boot = d.boot, !.good = TRUE, !.failed = FALSE,
                     !.records = {Matched(r, owned.session, d) : r \in @}]

(***************************************************************************)
(* poll(): read and observe, then renew the lease when armed.  Any failure *)
(* of either is a fail(); so is a heartbeat frozen for 400 ms.             *)
(***************************************************************************)
Idle == gateway.call = NoBlock
\* The bounds: nothing fails in the last session, which only an observation of
\* the device may end; after it nothing is submitted.
CanFail == gateway.session < MaxSession
Bounded == gateway.session <= MaxSession /\ gateway.sequence < (IF CanFail THEN MaxSequence ELSE MaxSequence - 1)
GatewayOnly == UNCHANGED <<dev, stray, landed, verdicts>>

Poll == /\ Idle
        /\ gateway' = Observed(gateway, dev)
        /\ GatewayOnly

PollFails == /\ Idle /\ CanFail
             /\ gateway' = Fail(gateway)
             /\ GatewayOnly

KeepaliveFails == /\ Idle /\ CanFail
                  /\ gateway' = Fail(Observed(gateway, dev))
                  /\ Observed(gateway, dev).armed
                  /\ GatewayOnly

(***************************************************************************)
(* submit(): admission, record, write, read back.                          *)
(***************************************************************************)
Admits(kind) == /\ gateway.good
                /\ kind = "ARM" \/ gateway.armed
                /\ Pending(gateway.records) = {} \/ kind = "STOP"

Submit(kind) ==
    /\ Idle /\ Admits(kind) /\ Bounded
    /\ LET block == [kind |-> kind, seq |-> gateway.sequence + 1, boot |-> gateway.boot,
                     session |-> gateway.session]
           record == [boot |-> block.boot, session |-> block.session, seq |-> block.seq,
                      kind |-> kind, status |-> "SENT"]
       IN gateway' = [gateway EXCEPT !.sequence = @ + 1, !.call = block,
                                     !.records = @ \union {record}]
    /\ GatewayOnly

\* The number is spent before the freshness of the sample is found insufficient.
SubmitTooLate(kind) ==
    /\ Idle /\ Admits(kind) /\ Bounded
    /\ gateway' = [gateway EXCEPT !.sequence = @ + 1]
    /\ GatewayOnly

WriteFails ==
    /\ gateway.call # NoBlock /\ ~gateway.answered /\ CanFail
    /\ gateway' = [Fail(gateway) EXCEPT !.call = NoBlock]
    /\ stray' \in {stray} \union (IF Late THEN {stray \union {gateway.call}} ELSE {})
    /\ UNCHANGED <<dev, landed, verdicts>>

Armed(g, d) ==
    [g EXCEPT !.armed = IF d.ack = [seq |-> g.sequence, result |-> "COMPLETED"]
                        THEN d.owner = g.session ELSE @]

ReadBack ==
    /\ gateway.answered
    /\ LET g == Observed(gateway, dev) IN
       gateway' = [IF gateway.call.kind = "ARM" THEN Armed(g, dev) ELSE g
                   EXCEPT !.call = NoBlock, !.answered = FALSE]
    /\ GatewayOnly

ReadBackFails ==
    /\ gateway.answered /\ CanFail
    /\ gateway' = [Fail(gateway) EXCEPT !.call = NoBlock, !.answered = FALSE]
    /\ GatewayOnly

\* close() and the next start, or a crash and the next start: Store.__init__
\* abandons what close() did not.
GatewayRestart ==
    /\ CanFail
    /\ gateway' = [session |-> gateway.session + 1, sequence |-> 0, armed |-> FALSE, boot |-> 0,
                   good |-> FALSE, failed |-> FALSE, call |-> NoBlock, answered |-> FALSE,
                   records |-> Abandoned(gateway.records)]
    /\ stray' \in {stray} \union (IF Late /\ ~Idle /\ ~gateway.answered
                                  THEN {stray \union {gateway.call}} ELSE {})
    /\ UNCHANGED <<dev, landed, verdicts>>

(***************************************************************************)
(* The device's side, with its verdicts noted.                             *)
(***************************************************************************)
EndedNow == IF dev.active # 0 /\ dev'.active = 0
            THEN {[boot |-> dev.boot, session |-> dev.owner, seq |-> dev.active,
                   result |-> dev'.finished.result]} ELSE {}

Execute(block) ==
    /\ dev' \in Executed(dev, block)
    /\ verdicts' = verdicts \union {[boot |-> block.boot, session |-> block.session,
                                     seq |-> block.seq, result |-> dev'.ack.result]}
                            \union EndedNow

Delivered == /\ gateway.call # NoBlock /\ ~gateway.answered
             /\ Execute(gateway.call)
             /\ gateway' = [gateway EXCEPT !.answered = TRUE]
             /\ UNCHANGED <<stray, landed>>

LateArrival == \E block \in stray : /\ Execute(block)
                                    /\ stray' = stray \ {block}
                                    /\ landed' = TRUE /\ UNCHANGED gateway

\* A block may also be executed and its answer lost: Delivered, ReadBackFails.
MotionEnds == /\ dev.active # 0
              /\ dev' \in {Ended(dev, "COMPLETED"), Ended(dev, "FAILED")}
              /\ verdicts' = verdicts \union EndedNow
              /\ UNCHANGED <<gateway, stray, landed>>

LeaseEnds == /\ dev.owner # 0
             /\ dev' = [Ended(dev, "FAILED") EXCEPT !.owner = 0]
             /\ verdicts' = verdicts \union EndedNow
             /\ UNCHANGED <<gateway, stray, landed>>

DeviceRestart == Reboot /\ UNCHANGED <<gateway, stray, landed, verdicts>>

LinkInit ==
    /\ DeviceInit
    /\ gateway = [session |-> 1, sequence |-> 0, armed |-> FALSE, boot |-> 0, good |-> FALSE,
                  failed |-> FALSE, call |-> NoBlock, answered |-> FALSE, records |-> {}]
    /\ stray = {} /\ verdicts = {} /\ landed = FALSE

LinkNext ==
    \/ Poll \/ PollFails \/ KeepaliveFails
    \/ \E kind \in Kinds : Submit(kind) \/ SubmitTooLate(kind)
    \/ WriteFails \/ Delivered \/ ReadBack \/ ReadBackFails \/ GatewayRestart
    \/ LateArrival \/ MotionEnds \/ LeaseEnds \/ DeviceRestart

\* The gateway polls for ever, a call is answered or times out, and every
\* motion has a limit; nothing obliges anything to fail.
LinkFairness == /\ WF_linkVars(Poll) /\ WF_linkVars(Delivered \/ WriteFails)
                /\ WF_linkVars(ReadBack \/ ReadBackFails) /\ WF_linkVars(MotionEnds)

LinkSpec == LinkInit /\ [][LinkNext]_linkVars /\ LinkFairness

(***************************************************************************)
(* Properties.                                                             *)
(***************************************************************************)

Verdict(r) == [boot |-> r.boot, session |-> r.session, seq |-> r.seq, result |-> r.status]
Reported(kinds, results) ==
    {Verdict(r) : r \in {x \in gateway.records : x.kind \in kinds /\ x.status \in results}}

\* What a record says the device said of the command: the registers carry a
\* number only, and many sessions use the same numbers (gateway.py:115-123).  Once
\* a block of a dead session has landed late, its acknowledgement may be taken
\* for that of a new setting with the same number.
OwnedResultsAreTrue ==
    ~landed => Reported(Kinds \ {"ARM"}, {"COMPLETED", "FAILED", "REJECTED", "ACCEPTED"}) \subseteq verdicts

\* The end of a motion is never another session's, not even when the blocks
\* of dead sessions still arrive.
MotionEndsAreTrue == Reported({"MOVE"}, {"COMPLETED", "FAILED"}) \subseteq verdicts

\* Every motion and every setting is settled in the end, by the device's answer
\* or as unknown, whatever fails in between (gateway.py:68-74, 115-123).  STOP
\* and ARM are not: the end of a motion between the write and the read-back
\* replaces the acknowledgement of their refusal.
Unsettled == \E r \in Pending(gateway.records) : r.kind \in {"MOVE", "SET"}
MotionsAndSettingsSettle == Unsettled ~> (~Unsettled \/ landed)

=============================================================================
