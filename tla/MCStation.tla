----------------------------- MODULE MCStation -----------------------------
(***************************************************************************)
(* Instance of Station for TLC, and its properties.  What is on the wire   *)
(* is one of two scenarios, chosen at the start.                           *)
(***************************************************************************)
EXTENDS StationProperties, StationRefinement

VARIABLE scenario

Block(action, seq, param, boot, session, deadline) ==
    [action |-> action, seq |-> seq, param |-> param, boot |-> boot,
     session |-> session, deadline |-> deadline]

\* One operator, every action, every injected fault but the two that only
\* silence the link.
MotionCommands ==
    {Block("ARM", 1, NoParam, 1, 1, 3)}
    \union {Block(a, q, NoParam, 1, 1, 4) : a \in {"EXTEND", "RETRACT"}, q \in {2, 3}}
    \union {Block("STOP", q, NoParam, 1, 1, 6) : q \in {3}}
    \union {Block("INJECT", q, p, 1, 1, 5) :
              q \in {2, 4}, p \in {"NONE", "TARGET_LIMIT_MISSING", "BOTH_LIMITS", "SLOW_MOTION"}}
    \union {Block("RESET", 4, NoParam, 1, 1, 6), Block("MODE", 2, "AUTO", 1, 1, 5),
            Block("CYCLE", 3, NoParam, 1, 1, 5)}

\* Two sessions that race for the device, delayed and repeated blocks, a
\* silent link and a restart.
AuthorityCommands ==
    {Block("ARM", q, NoParam, 1, x, d) : q \in {1, 3}, x \in {1, 2}, d \in {2, 5}}
    \union {Block("EXTEND", q, NoParam, 1, x, 4) : q \in {2, 3}, x \in {1, 2}}
    \union {Block("INJECT", 3, "COMM_SILENT", 1, 1, 5), Block("STOP", 3, NoParam, 1, 1, 5),
            Block("STOP", 1, "AUTO", 1, 2, 5), Block("ARM", 1, NoParam, 2, 1, 2)}

AllCommands == MotionCommands \union AuthorityCommands
AllKeepalives == {[boot |-> 1, owner |-> 1, counter |-> k] : k \in 1..3}

Scenarios == [motion |-> MotionCommands, authority |-> AuthorityCommands]

ScenarioInit == Init /\ scenario \in DOMAIN Scenarios
ScenarioNext ==
    /\ \/ \E t \in Instants : TickOrRead(t)
       \/ \E t \in Instants, c \in Scenarios[scenario] : WriteCommand(t, c)
       \/ \E t \in Instants, k \in Keepalives : WriteKeepalive(t, k)
       \/ scenario = "authority" /\ Restart
    /\ scenario = "motion" => station'.now <= station.now + 1
    /\ UNCHANGED scenario
ScenarioSpec == ScenarioInit /\ [][ScenarioNext]_<<vars, scenario>>
=============================================================================
