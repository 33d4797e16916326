------------------------------ MODULE Evidence ------------------------------
(***************************************************************************)
(* The observer (monitoring/server.py) with its alarm engine (alarms.py)   *)
(* and its evidence store (store.py): one sample a second, debounced       *)
(* alarms with hysteresis, and for each transition an event to which the   *)
(* following samples are added.                                            *)
(*                                                                         *)
(* A reading is what the engine tells apart: past the trip level, clear of *)
(* the reset level, in the band between, or missing.  The `after' of an    *)
(* event is the set of the ages of its samples: the event's own sample has *)
(* age 0, the next one taken 1, whether or not it could be stored.  Every  *)
(* call of the store may fail (a full or locked database).                 *)
(***************************************************************************)
EXTENDS Naturals, Sequences, FiniteSets, SequencesExt

CONSTANTS Codes,       \* the alarm rules observed
          Following,   \* samples that complete an event, 5 in the code
          EventLimit,  \* events that are kept, 500 in the code
          MaxEvents,   \* bound: transitions
          MaxFaults,   \* bound: failures of the store
          MaxRuns      \* bound: starts of the process

VARIABLES engine,   \* AlarmEngine: active and counts of each code
          seen,     \* history: the last reading of each code, and how often in a row
          todo,     \* codes of this sample's transitions that have no event yet
          pc,       \* where sample() stands
          pending,  \* Observer.pending; the order of insertion is that of the ids
          events,   \* the events table
          lastId,   \* the last id that was given out
          faults,   \* failures of the store so far
          run       \* starts of the process so far

vars == <<engine, seen, todo, pc, pending, events, lastId, faults, run>>
observer == <<engine, seen, todo>>

Rules == <<"CAPTURE_STALE", "HOST_HOT", "HOST_BUSY", "WIFI_WEAK">>
Required == [CAPTURE_STALE |-> 2, HOST_HOT |-> 3, HOST_BUSY |-> 5, WIFI_WEAK |-> 5]
Recovery == 2

ASSUME EvidenceAssumption ==
    /\ Codes \subseteq ToSet(Rules)
    /\ Following \in Nat \ {0} /\ EventLimit \in Nat \ {0}
    /\ MaxEvents \in Nat /\ MaxFaults \in Nat /\ MaxRuns \in Nat

\* The age of the capture has one threshold, and is never missing.
Readings(code) ==
    IF code = "CAPTURE_STALE" THEN {"trip", "clear"} ELSE {"trip", "clear", "band", "missing"}

(***************************************************************************)
(* AlarmEngine.update.                                                     *)
(***************************************************************************)
Condition(alarm, reading) == reading = "trip" \/ (reading = "band" /\ alarm.active)

Threshold(code, condition) == IF condition THEN Required[code] ELSE Recovery

\* The count of samples that contradict the state of the alarm, this one included.
Contradictions(alarm, reading) ==
    IF Condition(alarm, reading) # alarm.active THEN alarm.count + 1 ELSE 0

Turns(code, alarm, reading) ==
    /\ reading # "missing"
    /\ Contradictions(alarm, reading) >= Threshold(code, Condition(alarm, reading))

\* Faulty variant: a missing reading leaves the count as it is.
UpdatedKeepsCount(code, alarm, reading) ==
    IF reading = "missing" THEN alarm
    ELSE IF Turns(code, alarm, reading)
    THEN [active |-> Condition(alarm, reading), count |-> 0]
    ELSE [alarm EXCEPT !.count = Contradictions(alarm, reading)]

Updated(code, alarm, reading) ==
    IF reading = "missing" THEN [alarm EXCEPT !.count = 0]
    ELSE IF Turns(code, alarm, reading)
    THEN [active |-> Condition(alarm, reading), count |-> 0]
    ELSE [alarm EXCEPT !.count = Contradictions(alarm, reading)]

\* The history of readings counts as far as the debounce asks.
Noted(code, note, reading) ==
    [reading |-> reading,
     times |-> IF note.reading # reading THEN 1
               ELSE IF note.times < Required[code] THEN note.times + 1 ELSE note.times]

(***************************************************************************)
(* EvidenceStore.                                                          *)
(***************************************************************************)

\* event(): a new row, and the rows below the limit are gone.
WithEvent(table, id, record) ==
    [i \in {j \in DOMAIN table \cup {id} : j + EventLimit > id} |->
        IF i = id THEN record ELSE table[i]]

\* update_context() for each of the pending events ps: one whose event retention
\* has removed is passed over.
Context(ps, id) == (CHOOSE p \in ps : p.id = id).after
WithContexts(table, ps, done) ==
    [i \in DOMAIN table |->
        IF \E p \in ps : p.id = i
        THEN [table[i] EXCEPT !.after = Context(ps, i), !.complete = done] ELSE table[i]]

(***************************************************************************)
(* Observer.sample.  It begins once the sensors and the capture are read.  *)
(***************************************************************************)
\* Ages past LongSettled, which no open context reaches, are not told apart.
LongSettled == Following + MaxFaults + 1
NextAge(age) == IF age < LongSettled THEN age + 1 ELSE age
Older(p) == [p EXCEPT !.age = NextAge(@)]
Extended(p) == [Older(p) EXCEPT !.after = @ \cup {Older(p).age}]

\* Faulty variant: a context that has outgrown its size is never complete.
FullExactly(p) == Cardinality(p.after) = Following

Full(p) == Cardinality(p.after) >= Following

\* Faulty variant: a context takes in the sample of its own event.
NewPendingWithOwn(id) == [id |-> id, age |-> 0, after |-> {0}]

NewPending(id) == [id |-> id, age |-> 0, after |-> {}]

Sample ==
    /\ pc = "idle"
    /\ LET extended == {Extended(p) : p \in pending}
           complete == {p \in extended : Full(p)}
       IN  /\ events' = WithContexts(events, complete, TRUE)
           /\ pending' = extended \ complete
    /\ \E readings \in [Codes -> UNION {Readings(c) : c \in Codes}] :
          LET turned == {c \in Codes : Turns(c, engine[c], readings[c])}
          IN  /\ \A c \in Codes : readings[c] \in Readings(c)
              /\ lastId + Cardinality(turned) <= MaxEvents
              /\ engine' = [c \in Codes |-> Updated(c, engine[c], readings[c])]
              /\ seen' = [c \in Codes |-> Noted(c, seen[c], readings[c])]
              /\ todo' = turned
              /\ pc' = IF turned = {} THEN "commit" ELSE "events"
    /\ UNCHANGED <<lastId, faults, run>>

\* update_context raises for one pending event: the ones after it do not get this
\* sample, the engine does not see it, and it is not stored.
Before(p) == {q \in pending : q.id < p.id}

SampleFails ==
    /\ pc = "idle" /\ faults < MaxFaults
    /\ \E p \in pending :
          LET tried == {Extended(q) : q \in Before(p) \cup {p}}
              missed == {Older(q) : q \in pending \ (Before(p) \cup {p})}
              done == {e \in tried : Full(e) /\ e.id # p.id}
          IN  /\ Full(Extended(p))
              /\ events' = WithContexts(events, done, TRUE)
              /\ pending' = (tried \ done) \cup missed
    /\ faults' = faults + 1
    /\ UNCHANGED <<observer, pc, lastId, run>>

\* The engine looks at the rules in their order.
Place(code) == CHOOSE i \in DOMAIN Rules : Rules[i] = code
First == CHOOSE c \in todo : \A d \in todo : Place(c) <= Place(d)

NewEvent ==
    [code |-> First, active |-> engine[First].active, note |-> seen[First],
     after |-> {}, complete |-> FALSE]

\* The picture has been read; the first transition gets its event.
StoreEvent ==
    /\ pc = "events"
    /\ lastId' = lastId + 1
    /\ events' = WithEvent(events, lastId + 1, NewEvent)
    /\ pending' = pending \cup {NewPending(lastId + 1)}
    /\ todo' = todo \ {First}
    /\ pc' = IF todo = {First} THEN "commit" ELSE "events"
    /\ UNCHANGED <<engine, seen, faults, run>>

\* store.event raises: this transition and the ones after it are not recorded.
\* Raised by the commit, the row is there, but nothing will complete it.
StoreEventFails ==
    /\ pc = "events" /\ faults < MaxFaults
    /\ \/ UNCHANGED <<events, lastId>>
       \/ /\ lastId' = lastId + 1
          /\ events' = WithEvent(events, lastId + 1, NewEvent)
    /\ todo' = {} /\ pc' = "idle" /\ faults' = faults + 1
    /\ UNCHANGED <<engine, seen, pending, run>>

\* store.sample commits the sample, or raises; the loop sleeps until the next.
StoreSample ==
    /\ pc = "commit" /\ pc' = "idle"
    /\ UNCHANGED <<observer, pending, events, lastId, faults, run>>

(***************************************************************************)
(* The process.                                                            *)
(***************************************************************************)
\* SIGTERM: the task is cancelled where it awaits, and close() writes what the
\* open contexts have; if it raises, the others stay as they are.
Close ==
    /\ pc \in {"idle", "events"}
    /\ \/ /\ events' = WithContexts(events, pending, FALSE)
          /\ UNCHANGED faults
       \/ /\ faults < MaxFaults /\ faults' = faults + 1
          /\ \E p \in pending : events' = WithContexts(events, Before(p), FALSE)
    /\ pending' = {} /\ todo' = {} /\ pc' = "down"
    /\ UNCHANGED <<engine, seen, lastId, run>>

Crash ==
    /\ pc # "down" /\ pc' = "down"
    /\ pending' = {} /\ todo' = {}
    /\ UNCHANGED <<engine, seen, events, lastId, faults, run>>

NewEngine == [c \in Codes |-> [active |-> FALSE, count |-> 0]]
NothingSeen == [c \in Codes |-> [reading |-> "missing", times |-> 0]]

StartUp ==
    /\ pc = "down" /\ run < MaxRuns /\ run' = run + 1
    /\ engine' = NewEngine /\ seen' = NothingSeen /\ pc' = "idle"
    /\ UNCHANGED <<todo, pending, events, lastId, faults>>

Init ==
    /\ engine = NewEngine /\ seen = NothingSeen /\ todo = {} /\ pc = "idle"
    /\ pending = {} /\ events = <<>> /\ lastId = 0 /\ faults = 0 /\ run = 1

Next ==
    \/ Sample \/ SampleFails \/ StoreEvent \/ StoreEventFails \/ StoreSample
    \/ Close \/ Crash \/ StartUp

\* The loop goes on while the process lives, and the store fails now and then.
Spec == Init /\ [][Next]_vars /\ WF_vars(Sample) /\ WF_vars(StoreEvent) /\ WF_vars(StoreSample)

-----------------------------------------------------------------------------
(***************************************************************************)
(* Properties.                                                             *)
(***************************************************************************)
PendingIds == {p.id : p \in pending}

\* An alarm is raised after as many samples in a row past its limit as the rule
\* requires, and taken back after two in a row that are clear; a missing or an
\* indecisive reading in between starts the count again (alarms.py:20-28,
\* monitoring/README.md:74).
AlarmsAreDebounced ==
    \A id \in DOMAIN events :
        LET e == events[id]
        IN  /\ e.note.reading = IF e.active THEN "trip" ELSE "clear"
            /\ e.note.times >= Threshold(e.code, e.active)

\* A context that is marked complete holds samples taken after its event only, no
\* fewer than it should; without failures of the store exactly the next ones.  One
\* that is not marked is never full, but by a failure.
ContextsAreTrue ==
    \A id \in DOMAIN events :
        LET e == events[id]
        IN  /\ 0 \notin e.after
            /\ e.complete => Cardinality(e.after) >= Following
            /\ e.complete /\ faults = 0 => e.after = 1 .. Following
            /\ ~e.complete /\ faults = 0 => Cardinality(e.after) < Following

\* No context stays open for ever: it is completed, though the store may fail
\* right then and its event may be gone, or the process ends.
ContextsAreSettled ==
    \A id \in 1 .. MaxEvents : id \in PendingIds ~> id \notin PendingIds
=============================================================================
