------------------------ MODULE PeerConnectionProofs ------------------------
(***************************************************************************)
(* Proof that Closed is the last report of a connection and that nothing   *)
(* of it is left when it has come to rest, however many events of the      *)
(* network there are and on whichever threads they meet.                   *)
(***************************************************************************)
EXTENDS PeerConnection, SequenceTheorems, TLAPS

-----------------------------------------------------------------------------
(***************************************************************************)
(* What the threads have still to do.  Closed is not among the reports that *)
(* they queue: it is told by whoever closes.                               *)
(***************************************************************************)
Reports == {"Connecting", "Connected", "Disconnected", "Failed"}
Tasks == Reports \cup {"remoteClose", "openChannels", "closeChannels"}
TransportStates == {"New", "Connecting", "Connected", "Completed", "Disconnected", "Failed"}
TransportRecords ==
    [layer : Layers, below : Nat, state : TransportStates, heard : BOOLEAN, in : Nat]

MakingSteps == {"store", "start", "check"}
PlainSteps == {"leave", "stop", "mute", "endAbove"}
LoneSteps == {"assign", "openChannels", "closeChannels", "remoteClose", "stopSctp",
              "finish", "close", "lastReport"}
Dos == MakingSteps \cup PlainSteps \cup LoneSteps \cup {"change", "enqueue", "init", "take", "call"}
Tos == Tasks \cup Layers \cup TransportStates \cup {""}

\* The steps there may be when n transports have been made.
Steps(n) ==
    {step \in [do : Dos, id : Nat, to : Tos] :
        /\ step.do = "change" => step.to \in Reports
        /\ step.do = "enqueue" => step.to \in Tasks
        /\ step.do = "take" => step.to \in Layers
        /\ step.do = "init" => step.to \in Layers \ {"ice"}
        /\ step.do \in MakingSteps => step.id \in 2 .. n
        /\ step.do = "call" => /\ step.to \in TransportStates \ {"New"}
                               /\ step.to = "Connected" => step.id \in 1 .. n}

Typed ==
    /\ transports \in Seq(TransportRecords) /\ Len(transports) >= 1
    /\ member \in [Layers -> Nat]
    /\ tasks \in Seq(Tasks)
    /\ run \in [Threads -> Seq(Steps(Len(transports)))]
    /\ callback \in BOOLEAN
    /\ app \in [told : Tasks \cup {"New", "Closed"}, restart : BOOLEAN, exiting : BOOLEAN]

\* The callback is gone before the application hears Closed.
ClosedTakesCallback == app.told = "Closed" => ~callback

-----------------------------------------------------------------------------
(***************************************************************************)
(* Why nothing outlives a connection.                                      *)
(***************************************************************************)
\* The steps that a thread has still to take, in whatever order.
Of(q) == {q[k] : k \in 1 .. Len(q)}
Pending(t) == Of(run[t])

\* A member is a transport of its layer; that of ICE is the first, and the only one.
MembersAreMade ==
    /\ \A l \in Layers : member[l] # Null => member[l] \in Made /\ transports[member[l]].layer = l
    /\ transports[1].layer = "ice"
    /\ \A i \in Made : i # 1 => transports[i].layer # "ice"

\* Only the processor and main close.
ClosingSteps == {"remoteClose", "stopSctp", "finish", "close", "lastReport", "take", "mute"}
Closes(t) == \E step \in Pending(t) : step.do \in ClosingSteps
OnlyTwoClose ==
    /\ \A t \in Threads : Closes(t) => t \in {Proc, Main}
    /\ Closes(Main) => channel # "new"

\* Whoever was later takes the transport away: it starts it, and will check, or it
\* has changed the state, and will take all three.
SomeoneTakes(l) ==
    \E t \in Threads : \/ Step("take", Null, l) \in Pending(t)
                       \/ On("start", member[l]) \in Pending(t)
                       \/ On("check", member[l]) \in Pending(t)
MembersAreTaken == state = "Closed" => \A l \in Layers : member[l] # Null => SomeoneTakes(l)

\* The channels are about to be closed.
ClosingChannelsQueued == \E k \in 1 .. Len(tasks) : tasks[k] = "closeChannels"
ChannelsWillClose ==
    \/ ClosingChannelsQueued
    \/ \E t \in Threads : Enqueue("closeChannels") \in Pending(t) \/ Do("closeChannels") \in Pending(t)

\* While the processor closes, the task that closes the channels waits for it, with
\* the channels that are assigned until ICE is taken away; main closes only when
\* they are open.
ChannelsAreClosed ==
    /\ (\E step \in Pending(Proc) : step.do \in {"close", "take"})
          => ClosingChannelsQueued \/ Enqueue("closeChannels") \in Pending(Proc)
    /\ (\E step \in Pending(Main) : step.do = "close") => ChannelsWillClose \/ channel = "closed"
    /\ state = "Closed" => channel \in {"new", "closed"} \/ ChannelsWillClose

IInv == /\ Typed /\ ClosedTakesCallback
        /\ MembersAreMade /\ OnlyTwoClose /\ MembersAreTaken /\ ChannelsAreClosed

-----------------------------------------------------------------------------
(***************************************************************************)
(* Threads and their steps.                                                *)
(***************************************************************************)
LEMMA ThreadsAreNumbers == Threads \subseteq Nat /\ Proc \in Threads /\ Main \in Threads
BY BoundsAssumption DEF Threads, Ids, Proc, Main

LEMMA StepsGrow ==
    ASSUME NEW n \in Nat, NEW m \in Nat, n <= m
    PROVE  Seq(Steps(n)) \subseteq Seq(Steps(m))
<1>1. Steps(n) \subseteq Steps(m)
    BY DEF Steps
<1> QED BY <1>1

\* A thread that takes a step, and puts others before the rest.
LEMMA ContinueKeeps ==
    ASSUME NEW n \in Nat, NEW m \in Nat, n <= m, run \in [Threads -> Seq(Steps(n))],
           NEW t \in Threads, run[t] # <<>>,
           NEW first \in Seq(Steps(m)), Continue(t, first)
    PROVE  run' \in [Threads -> Seq(Steps(m))]
<1>1. run \in [Threads -> Seq(Steps(m))]
    BY StepsGrow
<1>2. Tail(run[t]) \in Seq(Steps(m))
    BY <1>1
<1>3. first \o Tail(run[t]) \in Seq(Steps(m))
    BY <1>2
<1> QED BY <1>1, <1>3 DEF Continue

\* The step that a thread takes is one of them.
LEMMA HeadIsAStep ==
    ASSUME NEW n \in Nat, run \in [Threads -> Seq(Steps(n))], NEW t \in Threads, run[t] # <<>>
    PROVE  This(t) \in Steps(n)
BY DEF This

\* The kinds of steps that the operators below put before the rest.
LEMMA MadeSteps ==
    ASSUME NEW n \in Nat
    PROVE  /\ \A s \in Reports : Change(s) \in Steps(n)
           /\ \A task \in Tasks : Enqueue(task) \in Steps(n)
           /\ \A layer \in Layers \ {"ice"} : Step("init", Null, layer) \in Steps(n)
           /\ \A layer \in Layers : Step("take", Null, layer) \in Steps(n)
           /\ \A do \in MakingSteps, id \in 2 .. n : On(do, id) \in Steps(n)
           /\ \A do \in PlainSteps, id \in Nat : On(do, id) \in Steps(n)
           /\ \A do \in LoneSteps : Do(do) \in Steps(n)
           /\ \A id \in Nat, s \in TransportStates \ {"New"} :
                 s # "Connected" \/ id \in 1 .. n => Step("call", id, s) \in Steps(n)
<1> USE DEF Steps, Step, Null, Dos, Tos, MakingSteps, PlainSteps, LoneSteps
<1>1. ASSUME NEW s \in Reports PROVE Change(s) \in Steps(n)
    BY DEF Change, Reports, Tasks
<1>2. ASSUME NEW task \in Tasks PROVE Enqueue(task) \in Steps(n)
    BY DEF Enqueue, Tasks, Reports
<1>3. ASSUME NEW layer \in Layers
      PROVE  /\ Step("take", Null, layer) \in Steps(n)
             /\ layer # "ice" => Step("init", Null, layer) \in Steps(n)
    BY DEF Layers
<1>7. ASSUME NEW do \in MakingSteps, NEW id \in 2 .. n PROVE On(do, id) \in Steps(n)
    <2>1. id \in Nat
        OBVIOUS
    <2> QED BY <2>1 DEF On
<1>4. ASSUME NEW do \in PlainSteps, NEW id \in Nat PROVE On(do, id) \in Steps(n)
    BY DEF On
<1>5. ASSUME NEW do \in LoneSteps PROVE Do(do) \in Steps(n)
    BY DEF Do, On
<1>6. ASSUME NEW id \in Nat, NEW s \in TransportStates \ {"New"}, s # "Connected" \/ id \in 1 .. n
      PROVE  Step("call", id, s) \in Steps(n)
    BY <1>6 DEF TransportStates
<1> QED BY <1>1, <1>2, <1>3, <1>4, <1>5, <1>6, <1>7

-----------------------------------------------------------------------------
(***************************************************************************)
(* The application hears what a report says, and every other step leaves   *)
(* it and its callback alone.                                              *)
(***************************************************************************)
LEMMA HeardIsTold ==
    ASSUME Typed, NEW s \in Tasks \cup {"New", "Closed"}
    PROVE  /\ Heard(s) \in [told : Tasks \cup {"New", "Closed"}, restart : BOOLEAN, exiting : BOOLEAN]
           /\ Heard(s).told = s
BY DEF Heard, Typed

LEMMA OtherStepsTellNothing ==
    ASSUME NEW t, Goes(t), ~ReportClosed(t)
    PROVE  UNCHANGED <<app, callback>>
<1>1. CASE \/ ChangeState(t) \/ EnqueueTask(t) \/ Call(t) \/ Leave(t) \/ InitTransport(t)
           \/ Store(t) \/ Start(t) \/ CheckClosed(t) \/ Stop(t)
    BY <1>1 DEF ChangeState, EnqueueTask, Call, Leave, InitTransport, Store, Start, CheckClosed, Stop
<1>2. CASE \/ BeginClose(t) \/ StopSctp(t) \/ FinishClose(t) \/ ChangeToClosed(t)
           \/ TakeTransport(t) \/ Mute(t)
    BY <1>2 DEF BeginClose, StopSctp, FinishClose, ChangeToClosed, TakeTransport, Mute
<1>3. CASE AssignChannels(t) \/ OpenChannels(t) \/ CloseChannels(t) \/ EndAbove(t)
    BY <1>3 DEF AssignChannels, OpenChannels, CloseChannels, EndAbove
<1> QED BY <1>1, <1>2, <1>3 DEF Goes

-----------------------------------------------------------------------------
(***************************************************************************)
(* Every step keeps the types.                                             *)
(***************************************************************************)
\* Steps of a thread that make no transport and queue no task.
LEMMA KeepsTyped ==
    ASSUME Typed, NEW t \in Threads, run[t] # <<>>,
           NEW first \in Seq(Steps(Len(transports))), Continue(t, first),
           transports' \in Seq(TransportRecords), Len(transports') = Len(transports),
           member' \in [Layers -> Nat], UNCHANGED <<tasks, callback, app>>
    PROVE  Typed'
<1>1. Len(transports) \in Nat /\ run \in [Threads -> Seq(Steps(Len(transports)))]
    BY DEF Typed
<1>2. run' \in [Threads -> Seq(Steps(Len(transports)))]
    BY <1>1, ContinueKeeps
<1> QED BY <1>2 DEF Typed

\* One transport is written, if there is such a transport.
LEMMA WrittenTransport ==
    ASSUME NEW S, NEW q \in Seq(S), NEW i, NEW x, i \in DOMAIN q => x \in S
    PROVE  [q EXCEPT ![i] = x] \in Seq(S) /\ Len([q EXCEPT ![i] = x]) = Len(q)
<1>1. CASE i \in DOMAIN q
    BY <1>1, ExceptSeq
<1>2. CASE i \notin DOMAIN q
    <2>1. [q EXCEPT ![i] = x] = q
        BY <1>2
    <2> QED BY <2>1
<1> QED BY <1>1, <1>2

\* Of one transport a field is written.
LEMMA WrittenField ==
    ASSUME Typed, NEW i
    PROVE  /\ \A s \in TransportStates :
                /\ [transports EXCEPT ![i].state = s] \in Seq(TransportRecords)
                /\ Len([transports EXCEPT ![i].state = s]) = Len(transports)
           /\ \A b \in BOOLEAN :
                /\ [transports EXCEPT ![i].heard = b] \in Seq(TransportRecords)
                /\ Len([transports EXCEPT ![i].heard = b]) = Len(transports)
           /\ \A n \in Nat :
                /\ [transports EXCEPT ![i].in = n] \in Seq(TransportRecords)
                /\ Len([transports EXCEPT ![i].in = n]) = Len(transports)
<1>1. transports \in Seq(TransportRecords)
    BY DEF Typed
<1>2. i \in DOMAIN transports => transports[i] \in TransportRecords
    BY <1>1
<1>3. ASSUME NEW s \in TransportStates
      PROVE  i \in DOMAIN transports => [transports[i] EXCEPT !.state = s] \in TransportRecords
    BY <1>2 DEF TransportRecords
<1>4. ASSUME NEW b \in BOOLEAN
      PROVE  i \in DOMAIN transports => [transports[i] EXCEPT !.heard = b] \in TransportRecords
    BY <1>2 DEF TransportRecords
<1>5. ASSUME NEW n \in Nat
      PROVE  i \in DOMAIN transports => [transports[i] EXCEPT !.in = n] \in TransportRecords
    BY <1>2 DEF TransportRecords
<1> QED BY <1>1, <1>3, <1>4, <1>5, WrittenTransport

\* What a callback does about a transport's new state.
LEMMA ReactionSteps ==
    ASSUME NEW n \in Nat, NEW layer, NEW s \in TransportStates \ {"New"},
           s = "Connected" => layer \in Layers
    PROVE  Reaction(layer, s) \in Seq(Steps(n))
<1>1. CASE s \in {"Failed", "Disconnected"}
    <2>1. Reaction(layer, s) = <<Change(s), Enqueue("remoteClose")>>
        BY <1>1 DEF Reaction
    <2>2. Change(s) \in Steps(n) /\ Enqueue("remoteClose") \in Steps(n)
        BY <1>1, MadeSteps DEF Reports, Tasks
    <2> QED BY <2>1, <2>2
<1>2. CASE s = "Connected" /\ layer \in {"ice", "dtls"}
    <2>1. \E above \in Layers \ {"ice"} : Reaction(layer, s) = <<Step("init", Null, above)>>
        BY <1>2 DEF Reaction, Layers
    <2>2. \A above \in Layers \ {"ice"} : Step("init", Null, above) \in Steps(n)
        BY MadeSteps
    <2> QED BY <2>1, <2>2
<1>3. CASE s = "Connected" /\ layer = "sctp"
    <2>1. Reaction(layer, s) = <<Change("Connected"), Do("assign")>>
        BY <1>3 DEF Reaction
    <2>2. Change("Connected") \in Steps(n) /\ Do("assign") \in Steps(n)
        BY MadeSteps DEF Reports, LoneSteps
    <2> QED BY <2>1, <2>2
<1>4. CASE s = "Connecting"
    <2>1. Reaction(layer, s) = <<Change("Connecting")>>
        BY <1>4 DEF Reaction
    <2>2. Change("Connecting") \in Steps(n)
        BY MadeSteps DEF Reports
    <2> QED BY <2>1, <2>2
<1>5. CASE s = "Completed"
    <2>1. Reaction(layer, s) = <<>>
        BY <1>5 DEF Reaction
    <2> QED BY <2>1
<1> QED BY <1>1, <1>2, <1>3, <1>4, <1>5 DEF TransportStates, Layers

-----------------------------------------------------------------------------
(***************************************************************************)
(* One lemma per step of a thread, in the order of the module.             *)
(***************************************************************************)
LEMMA StepOf ==
    ASSUME Typed, NEW t \in Threads, NEW do, At(t, do)
    PROVE  /\ run[t] # <<>> /\ This(t).do = do
           /\ Len(transports) \in Nat
           /\ This(t) \in Steps(Len(transports))
<1>1. run[t] # <<>> /\ This(t).do = do
    BY DEF At
<1>2. Len(transports) \in Nat /\ run \in [Threads -> Seq(Steps(Len(transports)))]
    BY DEF Typed
<1> QED BY <1>1, <1>2, HeadIsAStep

LEMMA ChangeStateKeeps ==
    ASSUME Typed, NEW t \in Threads, ChangeState(t) PROVE Typed'
<1>1. At(t, "change")
    BY DEF ChangeState
<1>2. This(t).to \in Reports
    BY <1>1, StepOf DEF Steps
<1>3. <<>> \in Seq(Steps(Len(transports))) /\ <<Enqueue(This(t).to)>> \in Seq(Steps(Len(transports)))
    <2>1. Enqueue(This(t).to) \in Steps(Len(transports))
        BY <1>1, <1>2, StepOf, MadeSteps DEF Tasks
    <2> QED BY <2>1
<1>4. /\ Continue(t, <<>>) \/ Continue(t, <<Enqueue(This(t).to)>>)
      /\ UNCHANGED <<callback, member, transports, tasks, app>>
    BY DEF ChangeState
<1>5. transports \in Seq(TransportRecords) /\ member \in [Layers -> Nat]
    BY DEF Typed
<1> QED BY <1>1, <1>3, <1>4, <1>5, StepOf, KeepsTyped

LEMMA EnqueueTaskKeeps ==
    ASSUME Typed, NEW t \in Threads, EnqueueTask(t) PROVE Typed'
<1>1. At(t, "enqueue")
    BY DEF EnqueueTask
<1>2. This(t).to \in Tasks
    BY <1>1, StepOf DEF Steps
<1>3. tasks' \in Seq(Tasks)
    BY <1>2 DEF EnqueueTask, Typed
<1>4. run' \in [Threads -> Seq(Steps(Len(transports)))]
    <2>1. <<>> \in Seq(Steps(Len(transports))) /\ Continue(t, <<>>)
        BY DEF EnqueueTask
    <2>2. Len(transports) \in Nat /\ Len(transports) <= Len(transports)
        BY DEF Typed
    <2>3. run[t] # <<>> /\ run \in [Threads -> Seq(Steps(Len(transports)))]
        BY <1>1, StepOf DEF Typed
    <2> QED BY <2>1, <2>2, <2>3, ContinueKeeps
<1> QED BY <1>3, <1>4 DEF EnqueueTask, Typed

LEMMA CallKeeps ==
    ASSUME Typed, NEW t \in Threads, Call(t) PROVE Typed'
<1> DEFINE i == This(t).id
           s == This(t).to
           n == Len(transports)
<1>1. At(t, "call")
    BY DEF Call
<1>2. /\ i \in Nat /\ s \in TransportStates \ {"New"} /\ n \in Nat
      /\ s = "Connected" => i \in 1 .. n
    BY <1>1, StepOf DEF Steps
<1>3. transports \in Seq(TransportRecords) /\ member \in [Layers -> Nat]
    BY DEF Typed
<1>4. CASE transports[i].heard
    <2>1. s = "Connected" => transports[i].layer \in Layers
        <3>1. s = "Connected" => transports[i] \in TransportRecords
            BY <1>2, <1>3, ElementOfSeq
        <3> QED BY <3>1 DEF TransportRecords
    <2>2. Reaction(transports[i].layer, s) \o <<On("leave", i)>> \in Seq(Steps(n))
        <3>1. Reaction(transports[i].layer, s) \in Seq(Steps(n))
            BY <1>2, <2>1, ReactionSteps
        <3>2. On("leave", i) \in Steps(n)
            BY <1>2, MadeSteps DEF PlainSteps
        <3> QED BY <3>1, <3>2
    <2>3. transports' \in Seq(TransportRecords) /\ Len(transports') = n
        BY <1>4, WrittenField, ThreadsAreNumbers DEF Call
    <2>4. /\ Continue(t, Reaction(transports[i].layer, s) \o <<On("leave", i)>>)
          /\ UNCHANGED <<member, tasks, callback, app>>
        BY <1>4 DEF Call
    <2> QED BY <1>1, <1>3, <2>2, <2>3, <2>4, StepOf, KeepsTyped
<1>5. CASE ~transports[i].heard
    <2>1. Continue(t, <<>>) /\ UNCHANGED <<transports, member, tasks, callback, app>>
        BY <1>5 DEF Call
    <2>2. <<>> \in Seq(Steps(n))
        OBVIOUS
    <2> QED BY <1>1, <1>3, <2>1, <2>2, StepOf, KeepsTyped
<1> QED BY <1>4, <1>5

LEMMA LeaveKeeps ==
    ASSUME Typed, NEW t \in Threads, Leave(t) PROVE Typed'
<1>1. At(t, "leave") /\ Continue(t, <<>>) /\ UNCHANGED <<member, tasks, callback, app>>
    BY DEF Leave
<1>2. transports' \in Seq(TransportRecords) /\ Len(transports') = Len(transports)
    BY WrittenField DEF Leave, Nobody
<1>3. <<>> \in Seq(Steps(Len(transports))) /\ member \in [Layers -> Nat]
    BY DEF Typed
<1> QED BY <1>1, <1>2, <1>3, StepOf, KeepsTyped

LEMMA InitTransportKeeps ==
    ASSUME Typed, NEW t \in Threads, InitTransport(t) PROVE Typed'
<1> DEFINE layer == This(t).to
           n == Len(transports)
<1>1. At(t, "init") /\ UNCHANGED <<member, tasks, callback, app>>
    BY DEF InitTransport
<1>2. layer \in Layers /\ n \in Nat
    BY <1>1, StepOf DEF Steps
<1>3. transports \in Seq(TransportRecords) /\ member \in [Layers -> Nat]
    BY DEF Typed
<1>4. CASE UNCHANGED transports /\ (Continue(t, <<>>) \/ Continue(t, <<Change("Failed")>>))
    <2>1. <<>> \in Seq(Steps(n)) /\ <<Change("Failed")>> \in Seq(Steps(n))
        <3>1. Change("Failed") \in Steps(n)
            BY <1>2, MadeSteps DEF Reports
        <3> QED BY <3>1
    <2> QED BY <1>1, <1>3, <1>4, <2>1, StepOf, KeepsTyped
<1>5. CASE /\ transports' = Append(transports, Transport(layer, member[Below(layer)]))
           /\ Continue(t, <<On("store", n + 1)>>)
    <2>1. Transport(layer, member[Below(layer)]) \in TransportRecords
        <3>1. member[Below(layer)] \in Nat
            BY <1>2, <1>3 DEF Below, Layers
        <3> QED BY <1>2, <3>1 DEF Transport, TransportRecords, TransportStates, Nobody
    <2>2. transports' \in Seq(TransportRecords) /\ Len(transports') = n + 1
        BY <1>3, <1>5, <2>1
    <2>3. <<On("store", n + 1)>> \in Seq(Steps(n + 1))
        <3>1. On("store", n + 1) \in Steps(n + 1)
            <4>1. n + 1 \in 2 .. n + 1 /\ n + 1 \in Nat
                BY <1>2 DEF Typed
            <4> QED BY <4>1, MadeSteps DEF MakingSteps
        <3> QED BY <3>1
    <2>4. run' \in [Threads -> Seq(Steps(n + 1))]
        <3>1. n <= n + 1 /\ n + 1 \in Nat
            BY <1>2
        <3>2. run[t] # <<>> /\ run \in [Threads -> Seq(Steps(n))]
            BY <1>1, StepOf DEF Typed
        <3> QED BY <1>2, <1>5, <2>3, <3>1, <3>2, ContinueKeeps
    <2> QED BY <1>1, <1>2, <2>2, <2>4 DEF Typed
<1> QED BY <1>4, <1>5 DEF InitTransport

LEMMA StoreKeeps ==
    ASSUME Typed, NEW t \in Threads, Store(t) PROVE Typed'
<1>1. At(t, "store") /\ UNCHANGED <<transports, tasks, callback, app>>
    BY DEF Store
<1>2. This(t).id \in 2 .. Len(transports) /\ Len(transports) \in Nat
    BY <1>1, StepOf DEF Steps, MakingSteps
<1>3. member' \in [Layers -> Nat]
    <2>1. This(t).id \in Nat
        BY <1>2
    <2> QED BY <2>1 DEF Store, Typed
<1>4. Continue(t, <<On("start", This(t).id)>>)
    BY DEF Store
<1>5. <<On("start", This(t).id)>> \in Seq(Steps(Len(transports)))
    <2>1. On("start", This(t).id) \in Steps(Len(transports))
        BY <1>2, MadeSteps DEF MakingSteps
    <2> QED BY <2>1
<1>6. transports \in Seq(TransportRecords)
    BY DEF Typed
<1> QED BY <1>1, <1>3, <1>4, <1>5, <1>6, StepOf, KeepsTyped

LEMMA StartKeeps ==
    ASSUME Typed, NEW t \in Threads, Start(t) PROVE Typed'
<1> DEFINE i == This(t).id
           n == Len(transports)
<1>1. At(t, "start") /\ UNCHANGED <<tasks, callback, app>>
    BY DEF Start
<1>2. i \in 2 .. n /\ n \in Nat
    BY <1>1, StepOf DEF Steps, MakingSteps
<1>3. <<On("check", i)>> \in Seq(Steps(n)) /\ <<Change("Failed")>> \in Seq(Steps(n))
    <2>1. On("check", i) \in Steps(n) /\ Change("Failed") \in Steps(n)
        BY <1>2, MadeSteps DEF MakingSteps, Reports
    <2> QED BY <2>1
<1>4. transports \in Seq(TransportRecords) /\ member \in [Layers -> Nat]
    BY DEF Typed
<1>5. CASE /\ transports' = [transports EXCEPT ![i].state = "Connecting"]
           /\ AfterStart(t, i) /\ UNCHANGED member
    <2>1. transports' \in Seq(TransportRecords) /\ Len(transports') = n
        BY <1>5, WrittenField DEF TransportStates
    <2> QED BY <1>1, <1>3, <1>4, <1>5, <2>1, StepOf, KeepsTyped DEF AfterStart
<1>6. CASE /\ transports' = [transports EXCEPT ![i].state = "Connecting", ![i].heard = FALSE]
           /\ member' = [member EXCEPT !["sctp"] = Null]
           /\ Continue(t, <<Change("Failed")>>)
    <2>1. transports' \in Seq(TransportRecords) /\ Len(transports') = n
        <3> DEFINE once == [transports EXCEPT ![i].state = "Connecting"]
        <3>1. once \in Seq(TransportRecords) /\ Len(once) = n
            BY WrittenField DEF TransportStates
        <3>2. i \in DOMAIN once => [once[i] EXCEPT !.heard = FALSE] \in TransportRecords
            <4>1. i \in DOMAIN once => once[i] \in TransportRecords
                BY <3>1
            <4> QED BY <4>1 DEF TransportRecords
        <3>3. transports' = [once EXCEPT ![i] = [once[i] EXCEPT !.heard = FALSE]]
            BY <1>6
        <3> HIDE DEF once
        <3> QED BY <3>1, <3>2, <3>3, WrittenTransport
    <2>2. member' \in [Layers -> Nat]
        BY <1>4, <1>6 DEF Null
    <2> QED BY <1>1, <1>3, <1>6, <2>1, <2>2, StepOf, KeepsTyped
<1> QED BY <1>5, <1>6 DEF Start

LEMMA CheckClosedKeeps ==
    ASSUME Typed, NEW t \in Threads, CheckClosed(t) PROVE Typed'
<1>1. At(t, "check") /\ UNCHANGED <<transports, tasks, callback, app>>
    BY DEF CheckClosed
<1>2. This(t).id \in Nat /\ Len(transports) \in Nat
    BY <1>1, StepOf DEF Steps
<1>3. member' \in [Layers -> Nat]
    BY DEF CheckClosed, Typed, Null
<1>4. Continue(t, <<>>) \/ Continue(t, <<On("stop", This(t).id)>>)
    BY DEF CheckClosed
<1>5. <<>> \in Seq(Steps(Len(transports))) /\ <<On("stop", This(t).id)>> \in Seq(Steps(Len(transports)))
    <2>1. On("stop", This(t).id) \in Steps(Len(transports))
        BY <1>2, MadeSteps DEF PlainSteps
    <2> QED BY <2>1
<1>6. transports \in Seq(TransportRecords)
    BY DEF Typed
<1> QED BY <1>1, <1>3, <1>4, <1>5, <1>6, StepOf, KeepsTyped

LEMMA StopKeeps ==
    ASSUME Typed, NEW t \in Threads, Stop(t) PROVE Typed'
<1> DEFINE n == Len(transports)
<1>1. At(t, "stop") /\ UNCHANGED <<member, tasks, callback, app>>
    BY DEF Stop
<1>2. This(t).id \in Nat /\ n \in Nat
    BY <1>1, StepOf DEF Steps
<1>3. <<>> \in Seq(Steps(n)) /\ <<Step("call", This(t).id, "Failed")>> \in Seq(Steps(n))
    <2>1. Step("call", This(t).id, "Failed") \in Steps(n)
        BY <1>2, MadeSteps DEF TransportStates
    <2> QED BY <2>1
<1>4. Continue(t, <<>>) \/ Continue(t, <<Step("call", This(t).id, "Failed")>>)
    BY DEF Stop
<1>5. transports' \in Seq(TransportRecords) /\ Len(transports') = n
    BY ZenonT(60), WrittenField DEF Stop, TransportStates, Typed
<1>6. member \in [Layers -> Nat]
    BY DEF Typed
<1> QED BY <1>1, <1>3, <1>4, <1>5, <1>6, StepOf, KeepsTyped

\* The steps of close and remoteClose, which write no transport themselves.
LEMMA ClosingKeeps ==
    ASSUME Typed, NEW t \in Threads,
           BeginClose(t) \/ StopSctp(t) \/ FinishClose(t) \/ ChangeToClosed(t) \/ TakeTransport(t)
    PROVE  Typed'
<1> DEFINE n == Len(transports)
<1>1. n \in Nat /\ transports \in Seq(TransportRecords) /\ member \in [Layers -> Nat]
    BY DEF Typed
<1>2. CASE BeginClose(t)
    <2>1. At(t, "remoteClose") /\ UNCHANGED <<member, transports, tasks, callback, app>>
        BY <1>2 DEF BeginClose
    <2>2. Continue(t, <<Do("finish")>>) \/ Continue(t, <<Do("stopSctp"), Do("finish")>>)
        BY <1>2 DEF BeginClose
    <2>3. <<Do("finish")>> \in Seq(Steps(n)) /\ <<Do("stopSctp"), Do("finish")>> \in Seq(Steps(n))
        <3>1. Do("finish") \in Steps(n) /\ Do("stopSctp") \in Steps(n)
            BY <1>1, MadeSteps DEF LoneSteps
        <3> QED BY <3>1
    <2> QED BY <1>1, <2>1, <2>2, <2>3, StepOf, KeepsTyped
<1>3. CASE StopSctp(t)
    <2>1. At(t, "stopSctp") /\ UNCHANGED <<member, transports, tasks, callback, app>>
        BY <1>3 DEF StopSctp
    <2>2. Continue(t, <<Do("finish")>>) \/ Continue(t, <<On("stop", member["sctp"])>>)
        BY <1>3 DEF StopSctp
    <2>3. <<Do("finish")>> \in Seq(Steps(n)) /\ <<On("stop", member["sctp"])>> \in Seq(Steps(n))
        <3>1. member["sctp"] \in Nat
            BY <1>1 DEF Layers
        <3>2. Do("finish") \in Steps(n) /\ On("stop", member["sctp"]) \in Steps(n)
            BY <1>1, <3>1, MadeSteps DEF LoneSteps, PlainSteps
        <3> QED BY <3>2
    <2> QED BY <1>1, <2>1, <2>2, <2>3, StepOf, KeepsTyped
<1>4. CASE FinishClose(t)
    <2>1. At(t, "finish") /\ UNCHANGED <<member, transports, tasks, callback, app>>
        BY <1>4 DEF FinishClose
    <2>2. Continue(t, <<>>) \/ Continue(t, <<Enqueue("closeChannels"), Do("close")>>)
        BY <1>4 DEF FinishClose
    <2>3. <<>> \in Seq(Steps(n)) /\ <<Enqueue("closeChannels"), Do("close")>> \in Seq(Steps(n))
        <3>1. Enqueue("closeChannels") \in Steps(n) /\ Do("close") \in Steps(n)
            BY <1>1, MadeSteps DEF LoneSteps, Tasks
        <3> QED BY <3>1
    <2> QED BY <1>1, <2>1, <2>2, <2>3, StepOf, KeepsTyped
<1>5. CASE ChangeToClosed(t)
    <2> DEFINE rest == <<Do("lastReport"), Step("take", Null, "sctp"),
                         Step("take", Null, "dtls"), Step("take", Null, "ice")>>
    <2>1. At(t, "close") /\ UNCHANGED <<member, transports, tasks, callback, app>>
        BY <1>5 DEF ChangeToClosed
    <2>2. Continue(t, <<>>) \/ Continue(t, rest)
        BY <1>5 DEF ChangeToClosed
    <2>3. <<>> \in Seq(Steps(n)) /\ rest \in Seq(Steps(n))
        <3>1. Do("lastReport") \in Steps(n)
            BY <1>1, MadeSteps DEF LoneSteps
        <3>2. \A layer \in {"sctp", "dtls", "ice"} : Step("take", Null, layer) \in Steps(n)
            BY <1>1, MadeSteps DEF Layers
        <3> QED BY <3>1, <3>2
    <2> HIDE DEF rest
    <2> QED BY <1>1, <2>1, <2>2, <2>3, StepOf, KeepsTyped
<1>6. CASE TakeTransport(t)
    <2> DEFINE i == member[This(t).to]
    <2>1. At(t, "take") /\ UNCHANGED <<transports, tasks, callback, app>>
        BY <1>6 DEF TakeTransport
    <2>2. This(t).to \in Layers
        BY <2>1, StepOf DEF Steps
    <2>3. i \in Nat /\ member' \in [Layers -> Nat]
        BY <1>1, <1>6, <2>2 DEF TakeTransport, Null
    <2>4. run' \in [Threads -> Seq(Steps(n))]
        <3>1. On("mute", i) \in Steps(n)
            BY <1>1, <2>3, MadeSteps DEF PlainSteps
        <3>2. run[t] # <<>> /\ run[t] \in Seq(Steps(n)) /\ run \in [Threads -> Seq(Steps(n))]
            BY <2>1, StepOf DEF Typed
        <3>3. Tail(run[t]) \o <<>> \in Seq(Steps(n)) /\ Tail(run[t]) \o <<On("mute", i)>> \in Seq(Steps(n))
            BY <3>1, <3>2
        <3> QED BY <1>6, <3>2, <3>3 DEF TakeTransport
    <2> QED BY <2>1, <2>3, <2>4 DEF Typed
<1> QED BY <1>2, <1>3, <1>4, <1>5, <1>6

LEMMA ReportClosedKeeps ==
    ASSUME Typed, NEW t \in Threads, ReportClosed(t) PROVE Typed'
<1>1. At(t, "lastReport") /\ UNCHANGED <<member, transports, tasks>> /\ callback' = FALSE
    BY DEF ReportClosed
<1>2. app' \in [told : Tasks \cup {"New", "Closed"}, restart : BOOLEAN, exiting : BOOLEAN]
    BY HeardIsTold DEF ReportClosed
<1>3. run' \in [Threads -> Seq(Steps(Len(transports)))]
    <2>1. <<>> \in Seq(Steps(Len(transports))) /\ Continue(t, <<>>)
        BY DEF ReportClosed
    <2>2. Len(transports) \in Nat /\ Len(transports) <= Len(transports)
        BY DEF Typed
    <2>3. run[t] # <<>> /\ run \in [Threads -> Seq(Steps(Len(transports)))]
        BY <1>1, StepOf DEF Typed
    <2> QED BY <2>1, <2>2, <2>3, ContinueKeeps
<1> QED BY <1>1, <1>2, <1>3 DEF Typed

LEMMA MuteKeeps ==
    ASSUME Typed, NEW t \in Threads, Mute(t) PROVE Typed'
<1>1. At(t, "mute") /\ Continue(t, <<>>) /\ UNCHANGED <<member, tasks, callback, app>>
    BY DEF Mute
<1>2. transports' \in Seq(TransportRecords) /\ Len(transports') = Len(transports)
    BY WrittenField DEF Mute
<1>3. <<>> \in Seq(Steps(Len(transports))) /\ member \in [Layers -> Nat]
    BY DEF Typed
<1> QED BY <1>1, <1>2, <1>3, StepOf, KeepsTyped

LEMMA ChannelsKeep ==
    ASSUME Typed, NEW t \in Threads, AssignChannels(t) \/ OpenChannels(t) \/ CloseChannels(t)
    PROVE  Typed'
<1> DEFINE n == Len(transports)
<1>1. UNCHANGED <<member, transports, tasks, callback, app>>
    BY DEF AssignChannels, OpenChannels, CloseChannels
<1>2. run[t] # <<>>
    BY DEF AssignChannels, OpenChannels, CloseChannels, At
<1>3. Continue(t, <<>>) \/ Continue(t, <<Enqueue("openChannels")>>)
    BY DEF AssignChannels, OpenChannels, CloseChannels
<1>4. n \in Nat /\ transports \in Seq(TransportRecords) /\ member \in [Layers -> Nat]
    BY DEF Typed
<1>5. <<>> \in Seq(Steps(n)) /\ <<Enqueue("openChannels")>> \in Seq(Steps(n))
    <2>1. Enqueue("openChannels") \in Steps(n)
        BY <1>4, MadeSteps DEF Tasks
    <2> QED BY <2>1
<1> QED BY <1>1, <1>2, <1>3, <1>4, <1>5, KeepsTyped

\* What ends above an ended transport.
LEMMA EndAboveKeeps ==
    ASSUME Typed, NEW t \in Threads, EndAbove(t) PROVE Typed'
<1> DEFINE n == Len(transports)
           above == {j \in Made : transports[j].below = This(t).id
                                  /\ transports[j].state \notin {"New", "Failed"}}
           told == {j \in above : transports[j].state # "Disconnected"}
           calls == IF told = {} THEN <<>>
                    ELSE <<Step("call", CHOOSE j \in told : TRUE, "Disconnected")>>
           closes == IF \E j \in above : transports[j].heard THEN <<Do("closeChannels")>> ELSE <<>>
<1>1. At(t, "endAbove") /\ UNCHANGED <<member, tasks, callback, app>>
    BY DEF EndAbove
<1>2. n \in Nat /\ transports \in Seq(TransportRecords) /\ member \in [Layers -> Nat]
    BY DEF Typed
<1>3. transports' \in Seq(TransportRecords) /\ Len(transports') = n
    <2>1. transports' = [j \in Made |-> IF j \in above
                            THEN [transports[j] EXCEPT !.state = "Disconnected"] ELSE transports[j]]
        BY DEF EndAbove
    <2>2. \A j \in Made : transports[j] \in TransportRecords
        BY <1>2, ElementOfSeq DEF Made
    <2>3. \A j \in Made : [transports[j] EXCEPT !.state = "Disconnected"] \in TransportRecords
        BY <2>2 DEF TransportRecords, TransportStates
    <2>4. transports' \in [1 .. n -> TransportRecords]
        BY <2>1, <2>2, <2>3 DEF Made
    <2> QED BY <1>2, <2>4
<1>4. calls \in Seq(Steps(n))
    <2>1. CASE told = {}
        BY <2>1
    <2>2. CASE told # {}
        <3>1. (CHOOSE j \in told : TRUE) \in Made
            BY <2>2
        <3>2. Step("call", CHOOSE j \in told : TRUE, "Disconnected") \in Steps(n)
            BY <1>2, <3>1, MadeSteps DEF Made, TransportStates
        <3> QED BY <2>2, <3>2
    <2> QED BY <2>1, <2>2
<1>5. closes \in Seq(Steps(n))
    <2>1. Do("closeChannels") \in Steps(n)
        BY <1>2, MadeSteps DEF LoneSteps
    <2> QED BY <2>1
<1>6. Continue(t, calls \o closes)
    BY DEF EndAbove
<1> HIDE DEF calls, closes
<1>7. calls \o closes \in Seq(Steps(n))
    BY <1>4, <1>5
<1> QED BY <1>1, <1>2, <1>3, <1>6, <1>7, StepOf, KeepsTyped

LEMMA GoesKeeps ==
    ASSUME Typed, NEW t \in Threads, Goes(t) PROVE Typed'
<1>1. CASE ChangeState(t) \/ EnqueueTask(t) \/ Call(t) \/ Leave(t) \/ InitTransport(t)
    BY <1>1, ChangeStateKeeps, EnqueueTaskKeeps, CallKeeps, LeaveKeeps, InitTransportKeeps
<1>2. CASE Store(t) \/ Start(t) \/ CheckClosed(t) \/ Stop(t)
    BY <1>2, StoreKeeps, StartKeeps, CheckClosedKeeps, StopKeeps
<1>3. CASE \/ BeginClose(t) \/ StopSctp(t) \/ FinishClose(t) \/ ChangeToClosed(t)
           \/ ReportClosed(t) \/ TakeTransport(t) \/ Mute(t)
    BY <1>3, ClosingKeeps, ReportClosedKeeps, MuteKeeps
<1>4. CASE AssignChannels(t) \/ OpenChannels(t) \/ CloseChannels(t) \/ EndAbove(t)
    BY <1>4, ChannelsKeep, EndAboveKeeps
<1> QED BY <1>1, <1>2, <1>3, <1>4 DEF Goes

-----------------------------------------------------------------------------
(***************************************************************************)
(* What the processor, the network and main begin.                         *)
(***************************************************************************)
LEMMA ProcessorKeeps ==
    ASSUME Typed, ProcessorTakes PROVE Typed'
<1> DEFINE n == Len(transports)
           task == Head(tasks)
<1>1. n \in Nat /\ task \in Tasks /\ tasks' \in Seq(Tasks)
    BY DEF ProcessorTakes, Typed
<1>2. UNCHANGED <<callback, member, transports>>
    BY DEF ProcessorTakes
<1>3. CASE task \in {"remoteClose", "openChannels", "closeChannels"}
    <2>1. run' = [run EXCEPT ![Proc] = <<Do(task)>>] /\ UNCHANGED app
        BY <1>3 DEF ProcessorTakes
    <2>2. <<Do(task)>> \in Seq(Steps(n))
        <3>1. Do(task) \in Steps(n)
            BY <1>1, <1>3, MadeSteps DEF LoneSteps
        <3> QED BY <3>1
    <2>3. run' \in [Threads -> Seq(Steps(n))]
        BY <2>1, <2>2 DEF Typed
    <2> QED BY <1>1, <1>2, <2>1, <2>3 DEF Typed
<1>4. CASE task \notin {"remoteClose", "openChannels", "closeChannels"}
    <2>1. UNCHANGED run /\ (app' = app \/ app' = Heard(task))
        BY <1>4 DEF ProcessorTakes
    <2>2. Heard(task) \in [told : Tasks \cup {"New", "Closed"}, restart : BOOLEAN, exiting : BOOLEAN]
        BY <1>1, HeardIsTold
    <2> QED BY <1>1, <1>2, <2>1, <2>2 DEF Typed
<1> QED BY <1>3, <1>4

\* A transport changes state, and the thread begins what follows from it.
LEMMA BeginsKeeps ==
    ASSUME Typed, NEW i, NEW s \in TransportStates, transports' = Changed(i, s),
           NEW first \in Seq(Steps(Len(transports))), run' = [run EXCEPT ![i] = first],
           UNCHANGED <<tasks, callback, app, member>>
    PROVE  Typed'
<1>1. transports' \in Seq(TransportRecords) /\ Len(transports') = Len(transports)
    BY WrittenField DEF Changed
<1>2. run' \in [Threads -> Seq(Steps(Len(transports)))]
    BY DEF Typed
<1> QED BY <1>1, <1>2 DEF Typed

LEMMA CallsAreSteps ==
    ASSUME Typed, NEW i \in Made, NEW s \in TransportStates \ {"New"}
    PROVE  Calls(i, s) \in Seq(Steps(Len(transports)))
<1>1. Len(transports) \in Nat
    BY DEF Typed
<1>2. Step("call", i, s) \in Steps(Len(transports))
    BY <1>1, MadeSteps DEF Made
<1> QED BY <1>2 DEF Calls

LEMMA FirstIsMade == ASSUME Typed PROVE 1 \in Made
BY DEF Typed, Made

LEMMA AgentKeeps ==
    ASSUME Typed, ProcessStateChange \/ ProcessTimeout PROVE Typed'
<1> USE FirstIsMade
<1>1. CASE ProcessStateChange
    <2>1. UNCHANGED <<tasks, callback, app, member>>
        BY <1>1 DEF ProcessStateChange
    <2>2. PICK agent \in {"connecting", "connected", "ready", "disconnected", "failed"} :
              /\ transports' = IF agent = "failed" THEN transports ELSE Changed(1, StateOf(agent))
              /\ run' = [run EXCEPT ![1] = IF agent = "failed" THEN <<>> ELSE Calls(1, StateOf(agent))]
        BY <1>1 DEF ProcessStateChange
    <2>3. CASE agent = "failed"
        <3>1. UNCHANGED transports /\ run' = [run EXCEPT ![1] = <<>>]
            BY <2>2, <2>3
        <3>2. run' \in [Threads -> Seq(Steps(Len(transports)))]
            <4>1. <<>> \in Seq(Steps(Len(transports)))
                OBVIOUS
            <4> QED BY <3>1, <4>1 DEF Typed
        <3> QED BY <2>1, <3>1, <3>2 DEF Typed
    <2>4. CASE agent # "failed"
        <3>1. StateOf(agent) \in TransportStates \ {"New"}
            BY <2>4 DEF StateOf, TransportStates
        <3>2. Calls(1, StateOf(agent)) \in Seq(Steps(Len(transports)))
            BY <3>1, CallsAreSteps
        <3>3. /\ transports' = Changed(1, StateOf(agent))
              /\ run' = [run EXCEPT ![1] = Calls(1, StateOf(agent))]
            BY <2>2, <2>4
        <3> QED BY <2>1, <3>1, <3>2, <3>3, BeginsKeeps
    <2> QED BY <2>3, <2>4
<1>2. CASE ProcessTimeout
    <2>1. UNCHANGED <<tasks, callback, app, member>> /\ "Failed" \in TransportStates \ {"New"}
        BY <1>2 DEF ProcessTimeout, TransportStates
    <2>2. transports' = Changed(1, "Failed") /\ run' = [run EXCEPT ![1] = Calls(1, "Failed")]
        BY <1>2 DEF ProcessTimeout
    <2>3. Calls(1, "Failed") \in Seq(Steps(Len(transports)))
        BY <2>1, CallsAreSteps
    <2> QED BY <2>1, <2>2, <2>3, BeginsKeeps
<1> QED BY <1>1, <1>2

LEMMA NetworkKeeps ==
    ASSUME Typed, NEW i \in Made, NetworkEvent(i) PROVE Typed'
<1> DEFINE n == Len(transports)
<1>1. UNCHANGED <<tasks, callback, app, member>> /\ n \in Nat /\ i \in Nat
    BY DEF NetworkEvent, Typed, Made
<1>2. PICK s \in NextStates(transports[i]) :
          /\ transports' = Changed(i, s)
          /\ run' = [run EXCEPT ![i] = Calls(i, s) \o
                        CASE s # "Disconnected" -> <<>>
                          [] transports[i].layer = "dtls" -> <<On("endAbove", i)>>
                          [] OTHER -> IF transports[i].heard THEN <<Do("closeChannels")>> ELSE <<>>]
    BY DEF NetworkEvent
<1>3. s \in TransportStates \ {"New"}
    BY DEF NextStates, TransportStates
<1> DEFINE rest == CASE s # "Disconnected" -> <<>>
                     [] transports[i].layer = "dtls" -> <<On("endAbove", i)>>
                     [] OTHER -> IF transports[i].heard THEN <<Do("closeChannels")>> ELSE <<>>
<1>4. rest \in Seq(Steps(n))
    <2>1. On("endAbove", i) \in Steps(n) /\ Do("closeChannels") \in Steps(n)
        BY <1>1, MadeSteps DEF PlainSteps, LoneSteps
    <2>2. rest \in {<<>>, <<On("endAbove", i)>>, <<Do("closeChannels")>>}
        BY <1>3
    <2> QED BY <2>1, <2>2
<1>5. Calls(i, s) \in Seq(Steps(n))
    BY <1>3, CallsAreSteps
<1>6. run' = [run EXCEPT ![i] = Calls(i, s) \o rest]
    BY <1>2
<1> HIDE DEF rest
<1>7. Calls(i, s) \o rest \in Seq(Steps(n))
    BY <1>4, <1>5
<1> QED BY <1>1, <1>2, <1>3, <1>6, <1>7, BeginsKeeps

LEMMA MainExitsKeeps ==
    ASSUME Typed, MainExits PROVE Typed'
<1>1. Do("remoteClose") \in Steps(Len(transports))
    BY MadeSteps DEF LoneSteps, Typed
<1>2. run' \in [Threads -> Seq(Steps(Len(transports)))]
    <2>1. <<Do("remoteClose")>> \in Seq(Steps(Len(transports)))
        BY <1>1
    <2> QED BY <2>1 DEF MainExits, Typed
<1>3. app' \in [told : Tasks \cup {"New", "Closed"}, restart : BOOLEAN, exiting : BOOLEAN]
    BY DEF MainExits, Typed
<1> QED BY <1>2, <1>3 DEF MainExits, Typed

-----------------------------------------------------------------------------
(***************************************************************************)
(* The theorems.                                                           *)
(***************************************************************************)
LEMMA InitTyped == Init => Typed
<1> SUFFICES ASSUME Init PROVE Typed
    OBVIOUS
<1> DEFINE first == [Transport("ice", Null) EXCEPT !.state = "Connecting"]
<1>1. first \in TransportRecords
    BY DEF Transport, Null, Nobody, TransportRecords, TransportStates, Layers
<1>2. transports = <<first>>
    BY DEF Init
<1>3. transports \in Seq(TransportRecords) /\ Len(transports) = 1
    BY <1>1, <1>2
<1>4. member \in [Layers -> Nat] /\ callback \in BOOLEAN /\ tasks \in Seq(Tasks)
    BY DEF Init, Null
<1>5. run \in [Threads -> Seq(Steps(Len(transports)))]
    BY DEF Init
<1>6. app \in [told : Tasks \cup {"New", "Closed"}, restart : BOOLEAN, exiting : BOOLEAN]
    BY DEF Init
<1> QED BY <1>3, <1>4, <1>5, <1>6 DEF Typed

LEMMA NextTyped == Typed /\ [Next]_vars => Typed'
<1> SUFFICES ASSUME Typed, [Next]_vars PROVE Typed'
    OBVIOUS
<1>1. CASE \E t \in Threads : Goes(t)
    BY <1>1, GoesKeeps
<1>2. CASE ProcessorTakes \/ ProcessStateChange \/ ProcessTimeout
    BY <1>2, ProcessorKeeps, AgentKeeps
<1>3. CASE \E i \in Made : NetworkEvent(i)
    BY <1>3, NetworkKeeps
<1>4. CASE \E i \in Made : AckArrives(i)
    BY <1>4 DEF AckArrives, Typed
<1>5. CASE MainExits
    BY <1>5, MainExitsKeeps
<1>6. CASE UNCHANGED vars
    BY <1>6 DEF vars, Typed
<1> QED BY <1>1, <1>2, <1>3, <1>4, <1>5, <1>6 DEF Next

\* Steps and tasks keep their kinds: a state that is reported is never Closed, a
\* transport that is called Connected has been made, and only a layer's transport
\* is taken away.
THEOREM ConnectionTyped == Spec => []Typed
BY InitTyped, NextTyped, PTL DEF Spec

\* A step keeps the reason, and with it what was told.
LEMMA NextKeepsClosed ==
    ASSUME Typed, ClosedTakesCallback, [Next]_vars
    PROVE  ClosedTakesCallback' /\ (app.told = "Closed" => app'.told = "Closed")
<1> DEFINE Kept == ClosedTakesCallback' /\ (app.told = "Closed" => app'.told = "Closed")
<1>1. ASSUME UNCHANGED <<app, callback>> PROVE Kept
    BY <1>1 DEF ClosedTakesCallback
<1>2. ASSUME NEW t \in Threads, Goes(t) PROVE Kept
    <2>1. CASE ReportClosed(t)
        <3>1. app'.told = "Closed" /\ callback' = FALSE
            BY <2>1, HeardIsTold DEF ReportClosed
        <3> QED BY <3>1 DEF ClosedTakesCallback
    <2>2. CASE ~ReportClosed(t)
        BY <1>1, <1>2, <2>2, OtherStepsTellNothing
    <2> QED BY <2>1, <2>2
<1>3. CASE ProcessorTakes
    <2>1. CASE app' = app
        BY <1>1, <1>3, <2>1 DEF ProcessorTakes
    <2>2. CASE app' # app
        <3>1. Head(tasks) \in Tasks
            BY <1>3 DEF ProcessorTakes, Typed
        <3>2. app' = Heard(Head(tasks)) /\ callback
            BY <1>3, <2>2 DEF ProcessorTakes
        <3>3. app'.told # "Closed"
            BY <3>1, <3>2, HeardIsTold DEF Tasks, Reports
        <3>4. app.told # "Closed"
            BY <3>2, Zenon DEF ClosedTakesCallback
        <3> QED BY <3>3, <3>4 DEF ClosedTakesCallback
    <2> QED BY <2>1, <2>2
<1>4. CASE ProcessStateChange \/ ProcessTimeout
    BY <1>1, <1>4 DEF ProcessStateChange, ProcessTimeout
<1>5. ASSUME NEW i \in Made, NetworkEvent(i) \/ AckArrives(i) PROVE Kept
    BY <1>1, <1>5 DEF NetworkEvent, AckArrives
<1>6. CASE MainExits
    <2>1. app'.told = app.told /\ callback' = callback
        BY <1>6 DEF MainExits, Typed
    <2> QED BY <2>1 DEF ClosedTakesCallback
<1>7. CASE UNCHANGED vars
    BY <1>1, <1>7 DEF vars
<1> QED BY <1>2, <1>3, <1>4, <1>5, <1>6, <1>7 DEF Next

\* Once the application has heard Closed it hears nothing else: neither a report
\* that another thread queued before, nor one of a transport that is still ending
\* (peerconnection.cpp:1324).
THEOREM ClosedIsLast == Spec => ClosedIsTheLastReport
<1>1. Init => ClosedTakesCallback
    BY DEF Init, ClosedTakesCallback
<1>2. Typed /\ ClosedTakesCallback /\ [Next]_vars => ClosedTakesCallback'
    BY NextKeepsClosed
<1>3. Typed /\ ClosedTakesCallback /\ [Next]_vars => [app.told = "Closed" => app'.told = "Closed"]_vars
    BY NextKeepsClosed
<1> QED BY <1>1, <1>2, <1>3, ConnectionTyped, PTL DEF Spec, ClosedIsTheLastReport

-----------------------------------------------------------------------------
(***************************************************************************)
(* What is pending before and after a step.                                *)
(***************************************************************************)
LEMMA OfShort ==
    /\ Of(<<>>) = {}
    /\ \A a : Of(<<a>>) = {a}
    /\ \A a, b : Of(<<a, b>>) = {a, b}
    /\ \A a, b, c, d : Of(<<a, b, c, d>>) = {a, b, c, d}
BY DEF Of

LEMMA OfJoined ==
    ASSUME NEW S, NEW p \in Seq(S), NEW q \in Seq(S)
    PROVE  Of(p \o q) = Of(p) \cup Of(q)
<1>1. Len(p) \in Nat /\ Len(q) \in Nat /\ Len(p \o q) = Len(p) + Len(q)
    OBVIOUS
<1>2. \A k \in 1 .. Len(p) + Len(q) : (p \o q)[k] = IF k <= Len(p) THEN p[k] ELSE q[k - Len(p)]
    BY ConcatProperties
<1>3. Of(p \o q) \subseteq Of(p) \cup Of(q)
    BY <1>1, <1>2 DEF Of
<1>4. Of(p) \subseteq Of(p \o q)
    BY <1>1, <1>2 DEF Of
<1>5. ASSUME NEW k \in 1 .. Len(q) PROVE q[k] \in Of(p \o q)
    <2>1. k + Len(p) \in 1 .. Len(p) + Len(q) /\ (p \o q)[k + Len(p)] = q[k]
        BY <1>1, <1>2
    <2> QED BY <1>1, <2>1 DEF Of
<1> QED BY <1>3, <1>4, <1>5 DEF Of

LEMMA OfHeadAndTail ==
    ASSUME NEW S, NEW q \in Seq(S), q # <<>>
    PROVE  Of(q) = {Head(q)} \cup Of(Tail(q))
<1>1. /\ Len(q) \in Nat \ {0} /\ Len(Tail(q)) = Len(q) - 1 /\ Head(q) = q[1]
      /\ \A k \in 1 .. Len(q) - 1 : Tail(q)[k] = q[k + 1]
    OBVIOUS
<1>2. ASSUME NEW k \in 1 .. Len(q) PROVE q[k] \in {Head(q)} \cup Of(Tail(q))
    <2>1. CASE k = 1
        BY <1>1, <2>1
    <2>2. CASE k # 1
        <3>1. k - 1 \in 1 .. Len(q) - 1 /\ Tail(q)[k - 1] = q[k]
            BY <1>1, <2>2
        <3> QED BY <1>1, <3>1 DEF Of
    <2> QED BY <2>1, <2>2
<1>3. Head(q) \in Of(q)
    BY <1>1 DEF Of
<1>4. ASSUME NEW k \in 1 .. Len(Tail(q)) PROVE Tail(q)[k] \in Of(q)
    BY <1>1 DEF Of
<1> QED BY <1>2, <1>3, <1>4 DEF Of

\* A thread has taken its step, and has those of `add' to take before the rest.
Took(t, add) ==
    /\ This(t) \in Pending(t)
    /\ \A u \in Threads \ {t} : Pending(u)' = Pending(u)
    /\ Pending(t) \ {This(t)} \subseteq Pending(t)'
    /\ Pending(t)' \subseteq Pending(t) \cup add
    /\ add \subseteq Pending(t)'

LEMMA ContinueTakes ==
    ASSUME NEW S, run \in [Threads -> Seq(S)], NEW T, S \subseteq T,
           NEW t \in Threads, run[t] # <<>>, NEW first \in Seq(T), Continue(t, first)
    PROVE  Took(t, Of(first))
<1>1. run[t] \in Seq(S) /\ Tail(run[t]) \in Seq(T)
    <2>1. Tail(run[t]) \in Seq(S)
        OBVIOUS
    <2> QED BY <2>1, SeqMonotonic
<1>2. Pending(t) = {This(t)} \cup Of(Tail(run[t]))
    BY <1>1, OfHeadAndTail DEF Pending, This
<1>3. run'[t] = first \o Tail(run[t]) /\ \A u \in Threads \ {t} : run'[u] = run[u]
    BY DEF Continue
<1>4. Pending(t)' = Of(first) \cup Of(Tail(run[t]))
    <2>1. Of(first \o Tail(run[t])) = Of(first) \cup Of(Tail(run[t]))
        BY ZenonT(60), <1>1, OfJoined
    <2>2. Pending(t)' = Of(run'[t])
        BY DEF Pending, Of
    <2> QED BY <1>3, <2>1, <2>2
<1>5. \A u \in Threads \ {t} : Pending(u)' = Pending(u)
    BY <1>3 DEF Pending, Of
<1> QED BY <1>2, <1>4, <1>5 DEF Took

LEMMA TakesSome ==
    ASSUME Typed, NEW t \in Threads, run[t] # <<>>
    PROVE  /\ Continue(t, <<>>) => Took(t, {})
           /\ \A a : Continue(t, <<a>>) => Took(t, {a})
           /\ \A a, b : Continue(t, <<a, b>>) => Took(t, {a, b})
           /\ \A a, b, c, d : Continue(t, <<a, b, c, d>>) => Took(t, {a, b, c, d})
<1> DEFINE S == Steps(Len(transports))
<1>1. run \in [Threads -> Seq(S)]
    BY DEF Typed
<1> HIDE DEF S
<1>2. Continue(t, <<>>) => Took(t, {})
    <2>1. <<>> \in Seq(S) /\ Of(<<>>) = {}
        BY OfShort
    <2> QED BY <1>1, <2>1, ContinueTakes
<1>3. ASSUME NEW a, Continue(t, <<a>>) PROVE Took(t, {a})
    <2>1. <<a>> \in Seq(S \cup {a}) /\ Of(<<a>>) = {a} /\ S \subseteq S \cup {a}
        BY OfShort
    <2> QED BY <1>1, <1>3, <2>1, ContinueTakes
<1>4. ASSUME NEW a, NEW b, Continue(t, <<a, b>>) PROVE Took(t, {a, b})
    <2>1. <<a, b>> \in Seq(S \cup {a, b}) /\ Of(<<a, b>>) = {a, b} /\ S \subseteq S \cup {a, b}
        BY OfShort
    <2> QED BY <1>1, <1>4, <2>1, ContinueTakes
<1>5. ASSUME NEW a, NEW b, NEW c, NEW d, Continue(t, <<a, b, c, d>>) PROVE Took(t, {a, b, c, d})
    <2>1. /\ <<a, b, c, d>> \in Seq(S \cup {a, b, c, d}) /\ S \subseteq S \cup {a, b, c, d}
          /\ Of(<<a, b, c, d>>) = {a, b, c, d}
        BY OfShort
    <2> QED BY <1>1, <1>5, <2>1, ContinueTakes
<1> QED BY <1>2, <1>3, <1>4, <1>5

\* The kinds of the steps that are lost, and of those that are new.
Lost(kinds) == \A u \in Threads : \A step \in Pending(u) \ Pending(u)' : step.do \in kinds
Gained(kinds) == \A u \in Threads : \A step \in Pending(u)' \ Pending(u) : step.do \in kinds

LEMMA TookLoses ==
    ASSUME NEW t \in Threads, NEW add, Took(t, add), NEW kinds, \A step \in add : step.do \in kinds
    PROVE  Lost({This(t).do}) /\ Gained(kinds)
BY DEF Took, Lost, Gained

\* The steps that neither close nor make anything.
Innocent == {"change", "call", "leave", "init", "store", "stop", "assign", "openChannels",
             "closeChannels", "endAbove", "enqueue"}

LEMMA ReactionIsInnocent ==
    ASSUME NEW layer, NEW s \in TransportStates \ {"New"}, s = "Connected" => layer \in Layers
    PROVE  \A step \in Of(Reaction(layer, s)) : step.do \in Innocent
<1>1. \/ Reaction(layer, s) = <<Change(s), Enqueue("remoteClose")>>
      \/ Reaction(layer, s) = <<Step("init", Null, "dtls")>>
      \/ Reaction(layer, s) = <<Step("init", Null, "sctp")>>
      \/ Reaction(layer, s) = <<Change("Connected"), Do("assign")>>
      \/ Reaction(layer, s) = <<Change("Connecting")>>
      \/ Reaction(layer, s) = <<>>
    BY DEF Reaction, TransportStates, Layers
<1>2. /\ Change(s).do = "change" /\ Enqueue("remoteClose").do = "enqueue"
      /\ Step("init", Null, "dtls").do = "init" /\ Step("init", Null, "sctp").do = "init"
      /\ Change("Connected").do = "change" /\ Do("assign").do = "assign"
      /\ Change("Connecting").do = "change"
    BY DEF Change, Enqueue, Do, On, Step
<1>3. \A a : a.do \in Innocent => \A step \in Of(<<a>>) : step.do \in Innocent
    BY OfShort
<1>4. \A a, b : a.do \in Innocent /\ b.do \in Innocent => \A step \in Of(<<a, b>>) : step.do \in Innocent
    BY OfShort
<1>5. \A step \in Of(<<>>) : step.do \in Innocent
    BY OfShort
<1> QED BY <1>1, <1>2, <1>3, <1>4, <1>5 DEF Innocent

LEMMA CallTakes ==
    ASSUME Typed, NEW t \in Threads, Call(t) PROVE Lost({"call"}) /\ Gained(Innocent)
<1>1. At(t, "call") /\ This(t).do = "call"
    BY DEF Call, At
<1>2. \E add : Took(t, add) /\ \A step \in add : step.do \in Innocent
    <2>1. CASE transports[This(t).id].heard
        <3>1. SUFFICES
                ASSUME NEW i, i = This(t).id, NEW s, s = This(t).to, NEW n, n = Len(transports),
                       NEW first, first = Reaction(transports[i].layer, s)
                PROVE  \E add : Took(t, add) /\ \A step \in add : step.do \in Innocent
            OBVIOUS
        <3>2. /\ i \in Nat /\ s \in TransportStates \ {"New"} /\ n \in Nat
              /\ s = "Connected" => i \in 1 .. n
            BY <1>1, <3>1, StepOf DEF Steps
        <3>3. s = "Connected" => transports[i].layer \in Layers
            <4>1. transports \in Seq(TransportRecords)
                BY DEF Typed
            <4>2. s = "Connected" => transports[i] \in TransportRecords
                BY <3>1, <3>2, <4>1, ElementOfSeq
            <4> QED BY <4>2 DEF TransportRecords
        <3>4. first \in Seq(Steps(n)) /\ \A step \in Of(first) : step.do \in Innocent
            BY <3>1, <3>2, <3>3, ReactionSteps, ReactionIsInnocent
        <3>5. On("leave", i) \in Steps(n) /\ <<On("leave", i)>> \in Seq(Steps(n))
            <4>1. On("leave", i) \in Steps(n)
                BY <3>2, MadeSteps DEF PlainSteps
            <4> QED BY <4>1
        <3>6. /\ Of(first \o <<On("leave", i)>>) = Of(first) \cup {On("leave", i)}
              /\ first \o <<On("leave", i)>> \in Seq(Steps(n))
            <4>1. Of(first \o <<On("leave", i)>>) = Of(first) \cup Of(<<On("leave", i)>>)
                BY ZenonT(60), <3>4, <3>5, OfJoined
            <4>2. Of(<<On("leave", i)>>) = {On("leave", i)}
                BY OfShort
            <4> QED BY <3>4, <3>5, <4>1, <4>2
        <3>7. Continue(t, first \o <<On("leave", i)>>)
            BY <2>1, <3>1 DEF Call
        <3>8. run[t] # <<>> /\ run \in [Threads -> Seq(Steps(n))]
            BY <1>1, <3>1, StepOf DEF Typed
        <3>9. Took(t, Of(first \o <<On("leave", i)>>))
            BY <3>6, <3>7, <3>8, ContinueTakes
        <3>10. \A step \in Of(first \o <<On("leave", i)>>) : step.do \in Innocent
            <4>1. On("leave", i).do \in Innocent
                BY DEF On, Step, Innocent
            <4> QED BY <3>4, <3>6, <4>1
        <3> QED BY <3>9, <3>10
    <2>2. CASE ~transports[This(t).id].heard
        <3>1. Continue(t, <<>>)
            BY <2>2 DEF Call
        <3> QED BY <1>1, <3>1, StepOf, TakesSome
    <2> QED BY <2>1, <2>2
<1> QED BY <1>1, <1>2, TookLoses

\* Every step of a thread takes one step away; the kinds of what it adds.
LEMMA OthersTake ==
    ASSUME Typed, NEW t \in Threads
    PROVE  /\ ChangeState(t) => Lost({"change"}) /\ Gained(Innocent)
           /\ EnqueueTask(t) => Took(t, {}) /\ This(t).do = "enqueue"
           /\ Leave(t) => Lost({"leave"}) /\ Gained({})
           /\ InitTransport(t) => Lost({"init"}) /\ Gained(Innocent)
           /\ Store(t) => Took(t, {On("start", This(t).id)}) /\ This(t).do = "store"
           /\ Start(t) => /\ This(t).do = "start"
                          /\ Took(t, {On("check", This(t).id)}) \/ Took(t, {Change("Failed")})
           /\ CheckClosed(t) => /\ This(t).do = "check"
                                /\ Took(t, {}) \/ Took(t, {On("stop", This(t).id)})
           /\ Stop(t) => Lost({"stop"}) /\ Gained(Innocent)
           /\ AssignChannels(t) => Lost({"assign"}) /\ Gained(Innocent)
           /\ OpenChannels(t) => Lost({"openChannels"}) /\ Gained({})
           /\ CloseChannels(t) => Lost({"closeChannels"}) /\ Gained({})
<1> USE DEF Step, On, Do, Change, Enqueue, Innocent
<1>1. \A do : At(t, do) => run[t] # <<>> /\ This(t).do = do
    BY DEF At
<1>2. \A a, kinds : Took(t, {a}) /\ a.do \in kinds => Lost({This(t).do}) /\ Gained(kinds)
    BY TookLoses
<1>3. \A kinds : Took(t, {}) => Lost({This(t).do}) /\ Gained(kinds)
    BY TookLoses
<1>4. run[t] # <<>> => (Continue(t, <<>>) => Took(t, {}))
    BY TakesSome
<1>5. ASSUME NEW a, run[t] # <<>>, Continue(t, <<a>>) PROVE Took(t, {a})
    BY <1>5, TakesSome
<1>6. ASSUME ChangeState(t) PROVE Lost({"change"}) /\ Gained(Innocent)
    <2>1. At(t, "change") /\ (Continue(t, <<>>) \/ Continue(t, <<Enqueue(This(t).to)>>))
        BY <1>6 DEF ChangeState
    <2>2. Took(t, {}) \/ Took(t, {Enqueue(This(t).to)})
        BY <1>1, <1>4, <1>5, <2>1
    <2> QED BY <1>1, <1>2, <1>3, <2>1, <2>2
<1>7. ASSUME EnqueueTask(t) PROVE Took(t, {}) /\ This(t).do = "enqueue"
    BY <1>1, <1>4, <1>7 DEF EnqueueTask
<1>8. ASSUME Leave(t) PROVE Lost({"leave"}) /\ Gained({})
    BY <1>1, <1>3, <1>4, <1>8 DEF Leave
<1>9. ASSUME InitTransport(t) PROVE Lost({"init"}) /\ Gained(Innocent)
    <2>1. /\ At(t, "init")
          /\ \/ Continue(t, <<>>) \/ Continue(t, <<Change("Failed")>>)
             \/ Continue(t, <<On("store", Len(transports) + 1)>>)
        BY <1>9 DEF InitTransport
    <2>2. Took(t, {}) \/ Took(t, {Change("Failed")}) \/ Took(t, {On("store", Len(transports) + 1)})
        BY <1>1, <1>4, <1>5, <2>1
    <2> QED BY <1>1, <1>2, <1>3, <2>1, <2>2
<1>10. ASSUME Store(t) PROVE Took(t, {On("start", This(t).id)}) /\ This(t).do = "store"
    <2>1. At(t, "store") /\ Continue(t, <<On("start", This(t).id)>>)
        BY <1>10 DEF Store
    <2> QED BY <1>1, <1>5, <2>1
<1>11. ASSUME Start(t)
       PROVE  /\ This(t).do = "start"
              /\ Took(t, {On("check", This(t).id)}) \/ Took(t, {Change("Failed")})
    <2>1. At(t, "start") /\ (Continue(t, <<On("check", This(t).id)>>) \/ Continue(t, <<Change("Failed")>>))
        BY <1>11 DEF Start, AfterStart
    <2> QED BY <1>1, <1>5, <2>1
<1>12. ASSUME CheckClosed(t)
       PROVE  This(t).do = "check" /\ (Took(t, {}) \/ Took(t, {On("stop", This(t).id)}))
    <2>1. At(t, "check") /\ (Continue(t, <<>>) \/ Continue(t, <<On("stop", This(t).id)>>))
        BY <1>12 DEF CheckClosed
    <2> QED BY <1>1, <1>4, <1>5, <2>1
<1>13. ASSUME Stop(t) PROVE Lost({"stop"}) /\ Gained(Innocent)
    <2>1. At(t, "stop") /\ (Continue(t, <<>>) \/ Continue(t, <<Step("call", This(t).id, "Failed")>>))
        BY <1>13 DEF Stop
    <2>2. Took(t, {}) \/ Took(t, {Step("call", This(t).id, "Failed")})
        BY <1>1, <1>4, <1>5, <2>1
    <2> QED BY <1>1, <1>2, <1>3, <2>1, <2>2
<1>14. ASSUME AssignChannels(t) PROVE Lost({"assign"}) /\ Gained(Innocent)
    <2>1. At(t, "assign") /\ (Continue(t, <<>>) \/ Continue(t, <<Enqueue("openChannels")>>))
        BY <1>14 DEF AssignChannels
    <2>2. Took(t, {}) \/ Took(t, {Enqueue("openChannels")})
        BY <1>1, <1>4, <1>5, <2>1
    <2> QED BY <1>1, <1>2, <1>3, <2>1, <2>2
<1>15. ASSUME OpenChannels(t) PROVE Lost({"openChannels"}) /\ Gained({})
    BY <1>1, <1>3, <1>4, <1>15 DEF OpenChannels
<1>16. ASSUME CloseChannels(t) PROVE Lost({"closeChannels"}) /\ Gained({})
    BY <1>1, <1>3, <1>4, <1>16 DEF CloseChannels
<1> QED BY <1>6, <1>7, <1>8, <1>9, <1>10, <1>11, <1>12, <1>13, <1>14, <1>15, <1>16

LEMMA ClosersTake ==
    ASSUME Typed, NEW t \in Threads
    PROVE  /\ BeginClose(t) => /\ This(t).do = "remoteClose"
                               /\ Took(t, {Do("finish")}) \/ Took(t, {Do("stopSctp"), Do("finish")})
           /\ StopSctp(t) => /\ This(t).do = "stopSctp"
                             /\ Took(t, {Do("finish")}) \/ Took(t, {On("stop", member["sctp"])})
           /\ FinishClose(t) => /\ This(t).do = "finish"
                                /\ Took(t, {}) \/ Took(t, {Enqueue("closeChannels"), Do("close")})
           /\ ChangeToClosed(t) =>
                /\ This(t).do = "close"
                /\ state = "Closed" => Took(t, {})
                /\ state # "Closed" =>
                      Took(t, {Do("lastReport"), Step("take", Null, "sctp"),
                               Step("take", Null, "dtls"), Step("take", Null, "ice")})
           /\ ReportClosed(t) => This(t).do = "lastReport" /\ Took(t, {})
           /\ TakeTransport(t) => /\ This(t).do = "take"
                                  /\ Took(t, {}) \/ Took(t, {On("mute", member[This(t).to])})
           /\ Mute(t) => This(t).do = "mute" /\ Took(t, {})
<1>1. \A do : At(t, do) => run[t] # <<>> /\ This(t).do = do
    BY DEF At
<1>2. run[t] # <<>> => (Continue(t, <<>>) => Took(t, {}))
    BY TakesSome
<1>3. ASSUME NEW a, run[t] # <<>>, Continue(t, <<a>>) PROVE Took(t, {a})
    BY <1>3, TakesSome
<1>4. ASSUME NEW a, NEW b, run[t] # <<>>, Continue(t, <<a, b>>) PROVE Took(t, {a, b})
    BY <1>4, TakesSome
<1>5. ASSUME BeginClose(t)
      PROVE  /\ This(t).do = "remoteClose"
             /\ Took(t, {Do("finish")}) \/ Took(t, {Do("stopSctp"), Do("finish")})
    <2>1. /\ At(t, "remoteClose")
          /\ Continue(t, <<Do("finish")>>) \/ Continue(t, <<Do("stopSctp"), Do("finish")>>)
        BY <1>5 DEF BeginClose
    <2> QED BY <1>1, <1>3, <1>4, <2>1
<1>6. ASSUME StopSctp(t)
      PROVE  /\ This(t).do = "stopSctp"
             /\ Took(t, {Do("finish")}) \/ Took(t, {On("stop", member["sctp"])})
    <2>1. /\ At(t, "stopSctp")
          /\ Continue(t, <<Do("finish")>>) \/ Continue(t, <<On("stop", member["sctp"])>>)
        BY <1>6 DEF StopSctp
    <2> QED BY <1>1, <1>3, <2>1
<1>7. ASSUME FinishClose(t)
      PROVE  /\ This(t).do = "finish"
             /\ Took(t, {}) \/ Took(t, {Enqueue("closeChannels"), Do("close")})
    <2>1. /\ At(t, "finish")
          /\ Continue(t, <<>>) \/ Continue(t, <<Enqueue("closeChannels"), Do("close")>>)
        BY <1>7 DEF FinishClose
    <2> QED BY <1>1, <1>2, <1>4, <2>1
<1>8. ASSUME ChangeToClosed(t)
      PROVE  /\ This(t).do = "close"
             /\ state = "Closed" => Took(t, {})
             /\ state # "Closed" =>
                   Took(t, {Do("lastReport"), Step("take", Null, "sctp"),
                            Step("take", Null, "dtls"), Step("take", Null, "ice")})
    <2>1. /\ At(t, "close")
          /\ state = "Closed" => Continue(t, <<>>)
          /\ state # "Closed" =>
                Continue(t, <<Do("lastReport"), Step("take", Null, "sctp"),
                              Step("take", Null, "dtls"), Step("take", Null, "ice")>>)
        BY <1>8 DEF ChangeToClosed
    <2>2. run[t] # <<>>
        BY <1>1, <2>1
    <2>3. \A a, b, c, d : Continue(t, <<a, b, c, d>>) => Took(t, {a, b, c, d})
        BY <2>2, TakesSome
    <2> QED BY <1>1, <1>2, <2>1, <2>3
<1>9. ASSUME ReportClosed(t) PROVE This(t).do = "lastReport" /\ Took(t, {})
    BY <1>1, <1>2, <1>9 DEF ReportClosed
<1>10. ASSUME Mute(t) PROVE This(t).do = "mute" /\ Took(t, {})
    BY <1>1, <1>2, <1>10 DEF Mute
<1>11. ASSUME TakeTransport(t)
       PROVE  /\ This(t).do = "take"
              /\ Took(t, {}) \/ Took(t, {On("mute", member[This(t).to])})
    <2>1. At(t, "take") /\ run[t] # <<>> /\ This(t).do = "take"
        BY <1>1, <1>11 DEF TakeTransport
    <2>2. run[t] \in Seq(Steps(Len(transports))) /\ run \in [Threads -> Seq(Steps(Len(transports)))]
        BY DEF Typed
    <2>3. PICK mute : /\ mute = <<>> \/ mute = <<On("mute", member[This(t).to])>>
                      /\ run' = [run EXCEPT ![t] = Tail(@) \o mute]
        BY <1>11 DEF TakeTransport
    <2>4. Pending(t)' = Of(Tail(run[t])) \cup Of(mute)
        <3> DEFINE T == Steps(Len(transports)) \cup {On("mute", member[This(t).to])}
        <3>1. Tail(run[t]) \in Seq(T) /\ mute \in Seq(T)
            <4>1. <<>> \in Seq(T) /\ <<On("mute", member[This(t).to])>> \in Seq(T)
                OBVIOUS
            <4>2. Tail(run[t]) \in Seq(Steps(Len(transports)))
                BY <2>1, <2>2
            <4> QED BY <2>3, <4>1, <4>2, SeqMonotonic
        <3> HIDE DEF T
        <3>2. Of(Tail(run[t]) \o mute) = Of(Tail(run[t])) \cup Of(mute)
            BY ZenonT(60), <3>1, OfJoined
        <3>3. run'[t] = Tail(run[t]) \o mute
            BY <2>2, <2>3
        <3> QED BY <3>2, <3>3 DEF Pending, Of
    <2>5. Of(mute) = {} \/ Of(mute) = {On("mute", member[This(t).to])}
        BY <2>3, OfShort
    <2>6. Pending(t) = {This(t)} \cup Of(Tail(run[t]))
        BY <2>1, <2>2, OfHeadAndTail DEF Pending, This
    <2>7. \A u \in Threads \ {t} : Pending(u)' = Pending(u)
        BY <2>2, <2>3 DEF Pending, Of
    <2> QED BY <2>1, <2>4, <2>5, <2>6, <2>7 DEF Took
<1> QED BY <1>5, <1>6, <1>7, <1>8, <1>9, <1>10, <1>11

-----------------------------------------------------------------------------
(***************************************************************************)
(* Steps that leave a part of the invariant as it is.                      *)
(***************************************************************************)
\* A channel that is assigned stays so, and one that is closed stays closed.
ChannelMovesOn == /\ channel # "new" => channel' # "new"
                  /\ channel = "closed" => channel' = "closed"

LEMMA KeepsOnlyTwo ==
    ASSUME OnlyTwoClose, ChannelMovesOn, NEW kinds, Gained(kinds), kinds \cap ClosingSteps = {}
    PROVE  OnlyTwoClose'
<1>1. ASSUME NEW u \in Threads, Closes(u)' PROVE Closes(u)
    BY <1>1 DEF Closes, Gained
<1>2. Main \in Threads
    BY ThreadsAreNumbers
<1>3. \A u \in Threads : Closes(u)' => u \in {Proc, Main}
    BY <1>1 DEF OnlyTwoClose
<1>4. Closes(Main)' => channel' # "new"
    BY <1>1, <1>2 DEF OnlyTwoClose, ChannelMovesOn
<1> QED BY <1>3, <1>4 DEF OnlyTwoClose, Proc, Main

\* Who closes goes on closing.
LEMMA ClosersStay ==
    ASSUME OnlyTwoClose, ChannelMovesOn, NEW t \in Threads, NEW add, Took(t, add),
           This(t).do \in ClosingSteps
    PROVE  OnlyTwoClose'
<1>1. Closes(t)
    BY DEF Took, Closes
<1>2. ASSUME NEW u \in Threads, Closes(u)' PROVE Closes(u)
    BY <1>1, <1>2 DEF Closes, Took
<1>3. Main \in Threads
    BY ThreadsAreNumbers
<1>4. \A u \in Threads : Closes(u)' => u \in {Proc, Main}
    BY <1>2 DEF OnlyTwoClose
<1>5. Closes(Main)' => channel' # "new"
    BY <1>2, <1>3 DEF OnlyTwoClose, ChannelMovesOn
<1> QED BY <1>4, <1>5 DEF OnlyTwoClose, Proc, Main

LEMMA KindsOfSteps ==
    /\ \A do, id, to : Step(do, id, to).do = do
    /\ \A do, id : On(do, id).do = do /\ On(do, id).id = id
    /\ \A do : Do(do).do = do
    /\ \A s : Change(s).do = "change"
    /\ \A task : Enqueue(task).do = "enqueue" /\ Enqueue(task).to = task
BY DEF Step, On, Do, Change, Enqueue

TakingSteps == {"take", "start", "check"}

LEMMA KindsOfTakers ==
    /\ \A l : Step("take", Null, l).do \in TakingSteps
    /\ \A i : On("start", i).do \in TakingSteps /\ On("check", i).do \in TakingSteps
BY KindsOfSteps DEF TakingSteps

LEMMA KeepsTaken ==
    ASSUME MembersAreTaken, NEW kinds, Lost(kinds), kinds \cap TakingSteps = {},
           \A l \in Layers : member'[l] \in {Null, member[l]}, state' = "Closed" => state = "Closed"
    PROVE  MembersAreTaken'
<1>1. SUFFICES ASSUME state' = "Closed", NEW l \in Layers, member'[l] # Null
               PROVE  SomeoneTakes(l)'
    BY DEF MembersAreTaken
<1>2. member'[l] = member[l] /\ member[l] # Null /\ SomeoneTakes(l)
    BY <1>1 DEF MembersAreTaken
<1>3. PICK u \in Threads : \/ Step("take", Null, l) \in Pending(u)
                           \/ On("start", member[l]) \in Pending(u)
                           \/ On("check", member[l]) \in Pending(u)
    BY <1>2 DEF SomeoneTakes
<1>4. \A step \in Pending(u) : step.do \in TakingSteps => step \in Pending(u)'
    BY DEF Lost
<1> QED BY <1>2, <1>3, <1>4, KindsOfTakers DEF SomeoneTakes

\* The channels that are about to be closed still are.
LEMMA KeepsClosing ==
    ASSUME ChannelsWillClose, NEW kinds, Lost(kinds), kinds \cap {"enqueue", "closeChannels"} = {},
           UNCHANGED tasks
    PROVE  ChannelsWillClose'
<1>1. ClosingChannelsQueued => ClosingChannelsQueued'
    BY DEF ClosingChannelsQueued
<1>2. Enqueue("closeChannels").do = "enqueue" /\ Do("closeChannels").do = "closeChannels"
    BY DEF Enqueue, Do, On, Step
<1>3. \A t \in Threads : \A step \in Pending(t) :
          step.do \in {"enqueue", "closeChannels"} => step \in Pending(t)'
    BY DEF Lost
<1> QED BY <1>1, <1>2, <1>3 DEF ChannelsWillClose

LEMMA KeepsChannels ==
    ASSUME ChannelsAreClosed, NEW kinds, Lost(kinds), kinds \cap {"enqueue", "closeChannels"} = {},
           NEW others, Gained(others), others \cap {"close", "take"} = {},
           UNCHANGED tasks, channel \in {"new", "closed"} => channel' = channel,
           state' = "Closed" => state = "Closed"
    PROVE  ChannelsAreClosed'
<1>1. Proc \in Threads /\ Main \in Threads /\ Proc' = Proc /\ Main' = Main
    BY ThreadsAreNumbers DEF Proc, Main
<1>2. ASSUME NEW u \in Threads, NEW step \in Pending(u)', step.do \in {"close", "take"}
      PROVE  step \in Pending(u)
    BY <1>2 DEF Gained
<1>3. Enqueue("closeChannels") \in Pending(Proc) => Enqueue("closeChannels") \in Pending(Proc)'
    <2>1. Enqueue("closeChannels").do = "enqueue"
        BY DEF Enqueue, Step
    <2> QED BY <1>1, <2>1 DEF Lost
<1>4. ClosingChannelsQueued' <=> ClosingChannelsQueued
    BY DEF ClosingChannelsQueued
<1>5. ChannelsWillClose => ChannelsWillClose'
    BY KeepsClosing
<1>6. (\E step \in Pending(Proc)' : step.do \in {"close", "take"})
          => ClosingChannelsQueued' \/ Enqueue("closeChannels") \in Pending(Proc)'
    BY <1>1, <1>2, <1>3, <1>4 DEF ChannelsAreClosed
<1>7. (\E step \in Pending(Main)' : step.do = "close") => ChannelsWillClose' \/ channel' = "closed"
    BY <1>1, <1>2, <1>5 DEF ChannelsAreClosed
<1>8. state' = "Closed" => channel' \in {"new", "closed"} \/ ChannelsWillClose'
    BY <1>5 DEF ChannelsAreClosed
<1> QED BY <1>1, <1>6, <1>7, <1>8 DEF ChannelsAreClosed

\* The transports keep their layers, and no member is set.
LEMMA KeepsMade ==
    ASSUME MembersAreMade, Len(transports') = Len(transports), Len(transports) \in Nat,
           Len(transports) >= 1,
           \A i \in Made : transports'[i].layer = transports[i].layer,
           \A l \in Layers : member'[l] \in {Null, member[l]}
    PROVE  MembersAreMade'
<1>1. Made' = Made /\ 1 \in Made
    BY DEF Made
<1> QED BY <1>1 DEF MembersAreMade

-----------------------------------------------------------------------------
(***************************************************************************)
(* Every step keeps what the members are.                                  *)
(***************************************************************************)
Writes(i) ==
    \/ \E s \in TransportStates : transports' = [transports EXCEPT ![i].state = s]
    \/ \E b \in BOOLEAN : transports' = [transports EXCEPT ![i].heard = b]
    \/ \E n \in Nat : transports' = [transports EXCEPT ![i].in = n]
    \/ transports' = [transports EXCEPT ![i].state = "Connecting", ![i].heard = FALSE]
    \/ UNCHANGED transports

LEMMA LayersStay ==
    ASSUME Typed, NEW i, Writes(i), NEW j \in Made
    PROVE  transports'[j].layer = transports[j].layer
<1>1. transports \in Seq(TransportRecords) /\ j \in DOMAIN transports
    BY DEF Typed, Made
<1>2. transports[j] \in TransportRecords
    BY <1>1
<1>3. ASSUME NEW s, transports' = [transports EXCEPT ![i].state = s]
      PROVE  transports'[j].layer = transports[j].layer
    BY <1>1, <1>2, <1>3 DEF TransportRecords
<1>4. ASSUME NEW b, transports' = [transports EXCEPT ![i].heard = b]
      PROVE  transports'[j].layer = transports[j].layer
    BY <1>1, <1>2, <1>4 DEF TransportRecords
<1>5. ASSUME NEW n, transports' = [transports EXCEPT ![i].in = n]
      PROVE  transports'[j].layer = transports[j].layer
    BY <1>1, <1>2, <1>5 DEF TransportRecords
<1>6. ASSUME transports' = [transports EXCEPT ![i].state = "Connecting", ![i].heard = FALSE]
      PROVE  transports'[j].layer = transports[j].layer
    BY <1>1, <1>2, <1>6 DEF TransportRecords
<1> QED BY <1>3, <1>4, <1>5, <1>6 DEF Writes

\* A state, a listener or a lock that is written.
LEMMA WritesKeepMade ==
    ASSUME Typed, MembersAreMade, NEW i, Writes(i),
           \A l \in Layers : member'[l] \in {Null, member[l]}
    PROVE  MembersAreMade'
<1>1. Len(transports) \in Nat /\ Len(transports) >= 1
    BY DEF Typed
<1>2. Len(transports') = Len(transports)
    <2>1. transports \in Seq(TransportRecords)
        BY DEF Typed
    <2>2. CASE transports' = [transports EXCEPT ![i].state = "Connecting", ![i].heard = FALSE]
        BY <2>1, <2>2
    <2> QED BY <2>2, WrittenField DEF Writes
<1>3. \A j \in Made : transports'[j].layer = transports[j].layer
    BY LayersStay
<1> QED BY <1>1, <1>2, <1>3, KeepsMade

LEMMA InitTransportKeepsMade ==
    ASSUME Typed, MembersAreMade, NEW t \in Threads, InitTransport(t) PROVE MembersAreMade'
<1>1. member' = member
    BY DEF InitTransport
<1>2. CASE UNCHANGED transports
    BY <1>1, <1>2 DEF MembersAreMade, Made
<1>3. CASE ~UNCHANGED transports
    <2>1. transports' = Append(transports, Transport(This(t).to, member[Below(This(t).to)]))
        BY <1>3 DEF InitTransport
    <2>2. Len(transports) \in Nat /\ Len(transports) >= 1 /\ transports \in Seq(TransportRecords)
        BY DEF Typed
    <2>3. This(t).to \in Layers \ {"ice"}
        <3>1. At(t, "init")
            BY DEF InitTransport
        <3> QED BY <3>1, StepOf DEF Steps
    <2>4. Transport(This(t).to, member[Below(This(t).to)]).layer = This(t).to
        BY DEF Transport
    <2>5. /\ Len(transports') = Len(transports) + 1
          /\ \A j \in Made : transports'[j] = transports[j]
          /\ transports'[Len(transports) + 1].layer = This(t).to
        BY <2>1, <2>2, <2>4 DEF Made
    <2>6. Made' = Made \cup {Len(transports) + 1} /\ 1 \in Made
        BY <2>2, <2>5 DEF Made
    <2>7. transports'[1].layer = "ice"
        BY <2>5, <2>6 DEF MembersAreMade
    <2>8. \A l \in Layers : member'[l] # Null => member'[l] \in Made' /\ transports'[member'[l]].layer = l
        BY <1>1, <2>5, <2>6 DEF MembersAreMade
    <2>9. \A j \in Made' : j # 1 => transports'[j].layer # "ice"
        BY <2>3, <2>5, <2>6 DEF MembersAreMade
    <2> QED BY <2>7, <2>8, <2>9 DEF MembersAreMade
<1> QED BY <1>2, <1>3

LEMMA StoreKeepsMade ==
    ASSUME Typed, MembersAreMade, NEW t \in Threads, Store(t)
    PROVE  MembersAreMade' /\ \A l \in Layers : member'[l] \in {member[l], This(t).id}
<1>1. At(t, "store") /\ UNCHANGED transports
    BY DEF Store
<1>2. This(t).id \in 2 .. Len(transports) /\ Len(transports) \in Nat
    BY <1>1, StepOf DEF Steps, MakingSteps
<1>3. This(t).id \in Made
    BY <1>2 DEF Made
<1>4. \A l \in Layers : member'[l] = IF l = transports[This(t).id].layer THEN This(t).id ELSE member[l]
    BY DEF Store, Typed
<1>5. \A l \in Layers : member'[l] # Null => member'[l] \in Made /\ transports[member'[l]].layer = l
    BY <1>3, <1>4 DEF MembersAreMade
<1>6. Made' = Made
    BY <1>1 DEF Made
<1> QED BY <1>1, <1>4, <1>5, <1>6 DEF MembersAreMade

LEMMA StartKeepsMade ==
    ASSUME Typed, MembersAreMade, NEW t \in Threads, Start(t)
    PROVE  MembersAreMade' /\ \A l \in Layers : member'[l] \in {Null, member[l]}
<1>1. \A l \in Layers : member'[l] \in {Null, member[l]}
    BY DEF Start, Typed
<1>2. Writes(This(t).id)
    BY DEF Start, Writes, TransportStates
<1> QED BY <1>1, <1>2, WritesKeepMade

LEMMA EndAboveKeepsMade ==
    ASSUME Typed, MembersAreMade, NEW t \in Threads, EndAbove(t) PROVE MembersAreMade'
<1>1. transports \in Seq(TransportRecords) /\ Len(transports) \in Nat /\ Len(transports) >= 1
    BY DEF Typed
<1>2. PICK above : transports' = [j \in Made |-> IF j \in above
                       THEN [transports[j] EXCEPT !.state = "Disconnected"] ELSE transports[j]]
    BY DEF EndAbove
<1>3. Len(transports') = Len(transports)
    BY <1>1, <1>2, EndAboveKeeps DEF Made, Typed
<1>4. ASSUME NEW j \in Made PROVE transports'[j].layer = transports[j].layer
    <2>1. transports[j] \in TransportRecords
        BY <1>1 DEF Made
    <2> QED BY <1>2, <2>1 DEF TransportRecords
<1>5. \A l \in Layers : member'[l] \in {Null, member[l]}
    BY DEF EndAbove
<1> QED BY <1>1, <1>3, <1>4, <1>5, KeepsMade

LEMMA GoesKeepsMade ==
    ASSUME Typed, MembersAreMade, NEW t \in Threads, Goes(t) PROVE MembersAreMade'
<1>1. CASE \/ ChangeState(t) \/ EnqueueTask(t) \/ BeginClose(t) \/ StopSctp(t) \/ FinishClose(t)
           \/ ChangeToClosed(t) \/ ReportClosed(t) \/ AssignChannels(t) \/ OpenChannels(t)
           \/ CloseChannels(t)
    <2>1. UNCHANGED <<transports, member>>
        BY <1>1 DEF ChangeState, EnqueueTask, BeginClose, StopSctp, FinishClose, ChangeToClosed,
                    ReportClosed, AssignChannels, OpenChannels, CloseChannels
    <2> QED BY <2>1 DEF MembersAreMade, Made
<1>2. CASE CheckClosed(t) \/ TakeTransport(t)
    <2>1. UNCHANGED transports /\ \A l \in Layers : member'[l] \in {Null, member[l]}
        BY <1>2 DEF CheckClosed, TakeTransport, Typed
    <2> QED BY <2>1, WritesKeepMade DEF Writes
<1>3. CASE Call(t) \/ Leave(t) \/ Stop(t) \/ Mute(t)
    <2>1. Writes(This(t).id) /\ member' = member
        BY <1>3, ThreadsAreNumbers DEF Call, Leave, Stop, Mute, Writes, TransportStates, Nobody
    <2> QED BY <2>1, WritesKeepMade
<1> QED BY <1>1, <1>2, <1>3, InitTransportKeepsMade, StoreKeepsMade, StartKeepsMade,
           EndAboveKeepsMade DEF Goes

-----------------------------------------------------------------------------
(***************************************************************************)
(* Every step of a thread keeps the rest.                                  *)
(***************************************************************************)
\* What goes on above an end is told to the threads of the transports there.
LEMMA EndAboveTakes ==
    ASSUME Typed, NEW t \in Threads, EndAbove(t) PROVE Lost({"endAbove"}) /\ Gained(Innocent)
<1>1. At(t, "endAbove") /\ run[t] # <<>> /\ This(t).do = "endAbove"
    BY DEF EndAbove, At
<1>2. PICK told, calls, closes :
        /\ calls = <<>> \/ calls = <<Step("call", CHOOSE j \in told : TRUE, "Disconnected")>>
        /\ closes = <<>> \/ closes = <<Do("closeChannels")>>
        /\ Continue(t, calls \o closes)
    BY DEF EndAbove
<1> DEFINE call == Step("call", CHOOSE j \in told : TRUE, "Disconnected")
           S == Steps(Len(transports)) \cup {call, Do("closeChannels")}
<1>3. call.do = "call" /\ Do("closeChannels").do = "closeChannels"
    BY DEF Step, Do, On
<1>4. calls \in Seq(S) /\ closes \in Seq(S)
    <2>1. <<>> \in Seq(S) /\ <<call>> \in Seq(S) /\ <<Do("closeChannels")>> \in Seq(S)
        OBVIOUS
    <2> HIDE DEF S
    <2> QED BY <1>2, <2>1
<1>5. Steps(Len(transports)) \subseteq S /\ run \in [Threads -> Seq(Steps(Len(transports)))]
    BY DEF Typed
<1>6. /\ Of(calls) = {} \/ Of(calls) = {call}
      /\ Of(closes) = {} \/ Of(closes) = {Do("closeChannels")}
    BY <1>2, OfShort
<1> HIDE DEF call, S
<1>7. calls \o closes \in Seq(S) /\ Of(calls \o closes) = Of(calls) \cup Of(closes)
    BY <1>4, OfJoined
<1>8. Took(t, Of(calls \o closes))
    BY <1>1, <1>2, <1>5, <1>7, ContinueTakes
<1>9. \A step \in Of(calls \o closes) : step.do \in Innocent
    BY <1>3, <1>6, <1>7 DEF Innocent
<1> QED BY <1>1, <1>8, <1>9, TookLoses

\* The channel moves on.
LEMMA GoesMovesChannelOn ==
    ASSUME NEW t, Goes(t)
    PROVE  /\ ChannelMovesOn
           /\ ~AssignChannels(t) /\ ~CloseChannels(t) => (channel \in {"new", "closed"} => channel' = channel)
<1>1. CASE \/ ChangeState(t) \/ EnqueueTask(t) \/ Call(t) \/ Leave(t) \/ InitTransport(t)
           \/ Store(t) \/ Start(t) \/ CheckClosed(t) \/ Stop(t)
    BY <1>1 DEF ChangeState, EnqueueTask, Call, Leave, InitTransport, Store, Start, CheckClosed, Stop,
                ChannelMovesOn
<1>2. CASE \/ BeginClose(t) \/ StopSctp(t) \/ FinishClose(t) \/ ChangeToClosed(t)
           \/ ReportClosed(t) \/ TakeTransport(t) \/ Mute(t) \/ EndAbove(t)
    BY <1>2 DEF BeginClose, StopSctp, FinishClose, ChangeToClosed, ReportClosed, TakeTransport, Mute,
                EndAbove, ChannelMovesOn
<1>3. CASE AssignChannels(t) \/ OpenChannels(t) \/ CloseChannels(t)
    BY <1>3 DEF AssignChannels, OpenChannels, CloseChannels, ChannelMovesOn
<1> QED BY <1>1, <1>2, <1>3 DEF Goes

LEMMA GoesKeepsOnlyTwo ==
    ASSUME Typed, OnlyTwoClose, NEW t \in Threads, Goes(t) PROVE OnlyTwoClose'
<1>1. ChannelMovesOn /\ Innocent \cap ClosingSteps = {} /\ {} \cap ClosingSteps = {}
    BY GoesMovesChannelOn DEF Innocent, ClosingSteps
<1>2. CASE \/ ChangeState(t) \/ Call(t) \/ Leave(t) \/ InitTransport(t) \/ Stop(t)
           \/ AssignChannels(t) \/ OpenChannels(t) \/ CloseChannels(t) \/ EndAbove(t)
    <2>1. Gained(Innocent) \/ Gained({})
        BY <1>2, CallTakes, OthersTake, EndAboveTakes
    <2> QED BY <1>1, <2>1, KeepsOnlyTwo
<1>3. CASE EnqueueTask(t) \/ Store(t) \/ Start(t) \/ CheckClosed(t)
    <2>1. PICK add : /\ Took(t, add)
                     /\ \/ add = {} \/ add = {On("start", This(t).id)} \/ add = {On("check", This(t).id)}
                        \/ add = {Change("Failed")} \/ add = {On("stop", This(t).id)}
        BY <1>3, OthersTake
    <2> DEFINE kinds == {"start", "check", "change", "stop"}
    <2>2. \A step \in add : step.do \in kinds
        BY <2>1, KindsOfSteps
    <2>3. kinds \cap ClosingSteps = {}
        BY DEF ClosingSteps
    <2> HIDE DEF kinds
    <2>4. Gained(kinds)
        BY <2>1, <2>2, TookLoses
    <2> QED BY <1>1, <2>3, <2>4, KeepsOnlyTwo
<1>4. CASE \/ BeginClose(t) \/ StopSctp(t) \/ FinishClose(t) \/ ChangeToClosed(t)
           \/ ReportClosed(t) \/ TakeTransport(t) \/ Mute(t)
    <2>1. This(t).do \in ClosingSteps
        <3>1. \/ At(t, "remoteClose") \/ At(t, "stopSctp") \/ At(t, "finish") \/ At(t, "close")
              \/ At(t, "lastReport") \/ At(t, "take") \/ At(t, "mute")
            BY <1>4, Zenon DEF BeginClose, StopSctp, FinishClose, ChangeToClosed, ReportClosed,
                               TakeTransport, Mute
        <3> QED BY <3>1 DEF ClosingSteps, At
    <2>2. \E add : Took(t, add)
        <3>1. CASE ChangeToClosed(t)
            BY <3>1, ClosersTake, Zenon
        <3>2. CASE ~ChangeToClosed(t)
            BY <1>4, <3>2, ClosersTake, Zenon
        <3> QED BY <3>1, <3>2
    <2> QED BY <1>1, <2>1, <2>2, ClosersStay
<1> QED BY <1>2, <1>3, <1>4 DEF Goes

\* A transport that stays in its member is known to its taker by its number.
LEMMA StartedIsAlone ==
    ASSUME Typed, MembersAreMade, NEW i \in Made, NEW l \in Layers,
           member[l] # Null, l # transports[i].layer
    PROVE  member[l] # i
BY DEF MembersAreMade

\* Who takes a step that makes something leaves the other two kinds of takers, and
\* those for other transports.
LEMMA OtherTakersStay ==
    ASSUME NEW t \in Threads, NEW add, Took(t, add), NEW l \in Layers,
           \/ This(t).do \in {"start", "check"} /\ This(t).id # member[l]
           \/ This(t).do = "take" /\ This(t).to # l,
           member'[l] = member[l], SomeoneTakes(l)
    PROVE  SomeoneTakes(l)'
<1>1. PICK u \in Threads : \/ Step("take", Null, l) \in Pending(u)
                           \/ On("start", member[l]) \in Pending(u)
                           \/ On("check", member[l]) \in Pending(u)
    BY DEF SomeoneTakes
<1>2. /\ Step("take", Null, l).do = "take" /\ Step("take", Null, l).to = l
      /\ On("start", member[l]).id = member[l] /\ On("check", member[l]).id = member[l]
      /\ On("start", member[l]).do = "start" /\ On("check", member[l]).do = "check"
    BY DEF Step, On
<1>3. /\ This(t) # Step("take", Null, l) /\ This(t) # On("start", member[l])
      /\ This(t) # On("check", member[l])
    BY <1>2
<1>4. \A step \in Pending(u) : step # This(t) => step \in Pending(u)'
    BY DEF Took
<1> QED BY <1>1, <1>3, <1>4 DEF SomeoneTakes

LEMMA StoreKeepsTaken ==
    ASSUME Typed, MembersAreMade, MembersAreTaken, NEW t \in Threads, Store(t) PROVE MembersAreTaken'
<1>1. SUFFICES ASSUME state' = "Closed", NEW l \in Layers, member'[l] # Null
               PROVE  SomeoneTakes(l)'
    BY DEF MembersAreTaken
<1>2. Took(t, {On("start", This(t).id)}) /\ This(t).do = "store" /\ state = "Closed"
    BY <1>1, OthersTake DEF Store
<1>3. CASE member'[l] = This(t).id
    <2>1. On("start", member'[l]) \in Pending(t)'
        BY <1>2, <1>3 DEF Took
    <2> QED BY <2>1 DEF SomeoneTakes
<1>4. CASE member'[l] = member[l]
    <2>1. PICK u \in Threads : \/ Step("take", Null, l) \in Pending(u)
                               \/ On("start", member[l]) \in Pending(u)
                               \/ On("check", member[l]) \in Pending(u)
        BY <1>1, <1>2, <1>4 DEF MembersAreTaken, SomeoneTakes
    <2>2. \A step \in Pending(u) : step.do # "store" => step \in Pending(u)'
        BY <1>2 DEF Took
    <2> QED BY <1>4, <2>1, <2>2, KindsOfSteps DEF SomeoneTakes
<1> QED BY <1>3, <1>4, StoreKeepsMade

LEMMA StartKeepsTaken ==
    ASSUME Typed, MembersAreMade, MembersAreTaken, NEW t \in Threads, Start(t) PROVE MembersAreTaken'
<1>1. SUFFICES ASSUME state' = "Closed", NEW l \in Layers, member'[l] # Null
               PROVE  SomeoneTakes(l)'
    BY DEF MembersAreTaken
<1>2. member'[l] = member[l] /\ SomeoneTakes(l)
    BY <1>1, StartKeepsMade DEF MembersAreTaken, Start
<1>3. This(t).do = "start"
    BY DEF Start, At
<1>4. CASE Took(t, {On("check", This(t).id)}) /\ member[l] = This(t).id
    <2>1. On("check", member'[l]) \in Pending(t)'
        BY <1>2, <1>4 DEF Took
    <2> QED BY <2>1 DEF SomeoneTakes
<1>5. CASE member[l] # This(t).id
    <2>1. \E add : Took(t, add)
        BY OthersTake
    <2> QED BY <1>2, <1>3, <1>5, <2>1, OtherTakersStay
<1>6. CASE ~Took(t, {On("check", This(t).id)})
    <2>1. ~AfterStart(t, This(t).id)
        <3>1. run[t] # <<>>
            BY DEF Start, At
        <3> QED BY <1>6, <3>1, TakesSome DEF AfterStart
    <2>2. transports[This(t).id].layer = "sctp" /\ member' = [member EXCEPT !["sctp"] = Null]
        BY <2>1 DEF Start
    <2>3. l # "sctp"
        BY <1>1, <2>2 DEF Typed
    <2>4. This(t).id \in Made
        <3>1. At(t, "start")
            BY DEF Start
        <3>2. This(t).id \in 2 .. Len(transports) /\ Len(transports) \in Nat
            BY <3>1, StepOf DEF Steps, MakingSteps
        <3> QED BY <3>2 DEF Made
    <2>5. member[l] # This(t).id
        BY <1>1, <1>2, <2>2, <2>3, <2>4, StartedIsAlone
    <2> QED BY <1>5, <2>5
<1> QED BY <1>4, <1>5, <1>6

LEMMA CheckClosedKeepsTaken ==
    ASSUME Typed, MembersAreMade, MembersAreTaken, NEW t \in Threads, CheckClosed(t)
    PROVE  MembersAreTaken'
<1>1. SUFFICES ASSUME state' = "Closed", NEW l \in Layers, member'[l] # Null
               PROVE  SomeoneTakes(l)'
    BY DEF MembersAreTaken
<1>2. /\ state = "Closed" /\ This(t).do = "check" /\ \E add : Took(t, add)
    <2>1. state = "Closed" /\ This(t).do = "check"
        BY <1>1 DEF CheckClosed, At
    <2>2. \E add : Took(t, add)
        BY OthersTake, Zenon
    <2> QED BY <2>1, <2>2
<1>3. member' = [member EXCEPT ![transports[This(t).id].layer] = Null]
    BY <1>2 DEF CheckClosed
<1>4. member'[l] = member[l] /\ l # transports[This(t).id].layer
    BY <1>1, <1>3 DEF Typed
<1>5. This(t).id \in Made
    <2>1. At(t, "check")
        BY DEF CheckClosed
    <2>2. This(t).id \in 2 .. Len(transports) /\ Len(transports) \in Nat
        BY <2>1, StepOf DEF Steps, MakingSteps
    <2> QED BY <2>2 DEF Made
<1>6. member[l] # This(t).id
    BY <1>1, <1>4, <1>5, StartedIsAlone
<1>7. SomeoneTakes(l)
    BY <1>1, <1>2, <1>4 DEF MembersAreTaken
<1> QED BY <1>2, <1>4, <1>6, <1>7, OtherTakersStay

LEMMA TakeTransportKeepsTaken ==
    ASSUME Typed, MembersAreTaken, NEW t \in Threads, TakeTransport(t) PROVE MembersAreTaken'
<1>1. SUFFICES ASSUME state' = "Closed", NEW l \in Layers, member'[l] # Null
               PROVE  SomeoneTakes(l)'
    BY DEF MembersAreTaken
<1>2. This(t).do = "take" /\ \E add : Took(t, add)
    <2>1. This(t).do = "take"
        BY DEF TakeTransport, At
    <2>2. \E add : Took(t, add)
        BY ClosersTake, Zenon
    <2> QED BY <2>1, <2>2
<1>3. state = "Closed" /\ member' = [member EXCEPT ![This(t).to] = Null]
    BY <1>1 DEF TakeTransport
<1>4. member'[l] = member[l] /\ This(t).to # l
    BY <1>1, <1>3 DEF Typed
<1>5. SomeoneTakes(l)
    BY <1>1, <1>3, <1>4 DEF MembersAreTaken
<1> QED BY <1>2, <1>4, <1>5, OtherTakersStay

\* Who changes the state to Closed will take all three.
LEMMA ChangeToClosedKeepsTaken ==
    ASSUME Typed, MembersAreTaken, NEW t \in Threads, ChangeToClosed(t) PROVE MembersAreTaken'
<1>1. member' = member
    BY DEF ChangeToClosed
<1>2. CASE state = "Closed"
    <2>1. Lost({"close"})
        <3>1. Took(t, {}) /\ This(t).do = "close"
            BY <1>2, ClosersTake
        <3> QED BY <3>1 DEF Took, Lost
    <2>2. {"close"} \cap TakingSteps = {}
        BY DEF TakingSteps
    <2> QED BY <1>1, <1>2, <2>1, <2>2, KeepsTaken
<1>3. CASE state # "Closed"
    <2>1. \A l \in Layers : Step("take", Null, l) \in Pending(t)'
        <3>1. Took(t, {Do("lastReport"), Step("take", Null, "sctp"),
                       Step("take", Null, "dtls"), Step("take", Null, "ice")})
            BY <1>3, ClosersTake
        <3> QED BY <3>1 DEF Took, Layers
    <2> QED BY <2>1 DEF MembersAreTaken, SomeoneTakes
<1> QED BY <1>2, <1>3

LEMMA GoesKeepsTaken ==
    ASSUME Typed, MembersAreMade, MembersAreTaken, NEW t \in Threads, Goes(t) PROVE MembersAreTaken'
<1>1. \A kind : kind \notin TakingSteps => {kind} \cap TakingSteps = {}
    OBVIOUS
<1>2. CASE \/ ChangeState(t) \/ Call(t) \/ Leave(t) \/ InitTransport(t) \/ Stop(t)
           \/ AssignChannels(t) \/ OpenChannels(t) \/ CloseChannels(t) \/ EndAbove(t)
    <2>1. member' = member /\ (state' = "Closed" => state = "Closed")
        <3>1. CASE ChangeState(t)
            <4>1. This(t).to \in Reports
                <5>1. At(t, "change")
                    BY <3>1 DEF ChangeState
                <5> QED BY <5>1, StepOf DEF Steps
            <4> QED BY <3>1, <4>1 DEF ChangeState, Reports
        <3>2. CASE ~ChangeState(t)
            BY <1>2, <3>2 DEF Call, Leave, InitTransport, Stop, AssignChannels, OpenChannels,
                              CloseChannels, EndAbove
        <3> QED BY <3>1, <3>2
    <2>2. \/ Lost({"change"}) \/ Lost({"call"}) \/ Lost({"leave"}) \/ Lost({"init"}) \/ Lost({"stop"})
          \/ Lost({"assign"}) \/ Lost({"openChannels"}) \/ Lost({"closeChannels"}) \/ Lost({"endAbove"})
        BY <1>2, CallTakes, OthersTake, EndAboveTakes
    <2>3. PICK kind : Lost({kind}) /\ kind \notin TakingSteps
        <3>1. PICK kind \in {"change", "call", "leave", "init", "stop", "assign", "openChannels",
                             "closeChannels", "endAbove"} : Lost({kind})
            BY <2>2, Zenon
        <3> QED BY <3>1 DEF TakingSteps
    <2> QED BY <1>1, <2>1, <2>3, KeepsTaken
<1>3. CASE \/ EnqueueTask(t) \/ BeginClose(t) \/ StopSctp(t) \/ FinishClose(t)
           \/ ReportClosed(t) \/ Mute(t)
    <2>1. UNCHANGED <<member, state>>
        BY <1>3 DEF EnqueueTask, BeginClose, StopSctp, FinishClose, ReportClosed, Mute
    <2>2. This(t).do \notin TakingSteps
        <3>1. \/ At(t, "enqueue") \/ At(t, "remoteClose") \/ At(t, "stopSctp") \/ At(t, "finish")
              \/ At(t, "lastReport") \/ At(t, "mute")
            BY <1>3, Zenon DEF EnqueueTask, BeginClose, StopSctp, FinishClose, ReportClosed, Mute
        <3> QED BY <3>1 DEF TakingSteps, At
    <2>3. PICK add : Took(t, add)
        BY <1>3, OthersTake, ClosersTake, Zenon
    <2>4. Lost({This(t).do})
        BY <2>3 DEF Took, Lost
    <2> QED BY <1>1, <2>1, <2>2, <2>4, KeepsTaken
<1> QED BY <1>2, <1>3, StoreKeepsTaken, StartKeepsTaken, CheckClosedKeepsTaken,
           TakeTransportKeepsTaken, ChangeToClosedKeepsTaken DEF Goes

\* Steps that have nothing to do with the end of the channels.
LEMMA PlainKeepsChannels ==
    ASSUME Typed, ChannelsAreClosed, NEW t \in Threads,
           \/ ChangeState(t) \/ Call(t) \/ Leave(t) \/ InitTransport(t) \/ Stop(t)
           \/ OpenChannels(t) \/ EndAbove(t)
    PROVE  ChannelsAreClosed'
<1>1. Goes(t) /\ ~AssignChannels(t) /\ ~CloseChannels(t)
    BY DEF Goes, ChangeState, Call, Leave, InitTransport, Stop, OpenChannels, EndAbove,
           AssignChannels, CloseChannels, At
<1>2. channel \in {"new", "closed"} => channel' = channel
    BY <1>1, GoesMovesChannelOn
<1>3. UNCHANGED tasks /\ (state' = "Closed" => state = "Closed")
    <2>1. CASE ChangeState(t)
        <3>1. This(t).to \in Reports
            <4>1. At(t, "change")
                BY <2>1 DEF ChangeState
            <4> QED BY <4>1, StepOf DEF Steps
        <3> QED BY <2>1, <3>1 DEF ChangeState, Reports
    <2>2. CASE ~ChangeState(t)
        BY <2>2 DEF Call, Leave, InitTransport, Stop, OpenChannels, EndAbove
    <2> QED BY <2>1, <2>2
<1>4. PICK kind \in {"change", "call", "leave", "init", "stop", "openChannels", "endAbove"} : Lost({kind})
    <2>1. \/ Lost({"change"}) \/ Lost({"call"}) \/ Lost({"leave"}) \/ Lost({"init"}) \/ Lost({"stop"})
          \/ Lost({"openChannels"}) \/ Lost({"endAbove"})
        BY CallTakes, OthersTake, EndAboveTakes
    <2> QED BY <2>1, Zenon
<1>5. {kind} \cap {"enqueue", "closeChannels"} = {}
    BY <1>4
<1>6. PICK others \in {{}, Innocent} : Gained(others)
    <2>1. Gained({}) \/ Gained(Innocent)
        BY CallTakes, OthersTake, EndAboveTakes
    <2> QED BY <2>1
<1>7. others \cap {"close", "take"} = {}
    BY <1>6 DEF Innocent
<1> QED BY <1>2, <1>3, <1>4, <1>5, <1>6, <1>7, KeepsChannels

\* The same of the steps whose additions the proofs know one by one.
LEMMA KnownKeepChannels ==
    ASSUME Typed, ChannelsAreClosed, NEW t \in Threads,
           \/ Store(t) \/ Start(t) \/ CheckClosed(t) \/ BeginClose(t) \/ StopSctp(t)
           \/ ReportClosed(t) \/ TakeTransport(t) \/ Mute(t)
    PROVE  ChannelsAreClosed'
<1>1. UNCHANGED <<tasks, channel, state>>
    BY DEF Store, Start, CheckClosed, BeginClose, StopSctp, ReportClosed, TakeTransport, Mute
<1>2. This(t).do \notin {"enqueue", "closeChannels"}
    <2>1. \/ At(t, "store") \/ At(t, "start") \/ At(t, "check") \/ At(t, "remoteClose")
          \/ At(t, "stopSctp") \/ At(t, "lastReport") \/ At(t, "take") \/ At(t, "mute")
        BY Zenon DEF Store, Start, CheckClosed, BeginClose, StopSctp, ReportClosed, TakeTransport, Mute
    <2> QED BY <2>1 DEF At
<1> DEFINE kinds == {"start", "check", "change", "stop", "finish", "stopSctp", "mute"}
<1>3. PICK add : Took(t, add) /\ \A step \in add : step.do \in kinds
    <2>1. PICK add : /\ Took(t, add)
                     /\ \/ add = {} \/ add = {On("start", This(t).id)} \/ add = {On("check", This(t).id)}
                        \/ add = {Change("Failed")} \/ add = {On("stop", This(t).id)}
                        \/ add = {Do("finish")} \/ add = {Do("stopSctp"), Do("finish")}
                        \/ add = {On("stop", member["sctp"])}
                        \/ add = {On("mute", member[This(t).to])}
        BY OthersTake, ClosersTake, Zenon
    <2>2. \A step \in add : step.do \in kinds
        BY <2>1, KindsOfSteps
    <2> QED BY <2>1, <2>2
<1>4. kinds \cap {"close", "take"} = {} /\ {This(t).do} \cap {"enqueue", "closeChannels"} = {}
    BY <1>2
<1> HIDE DEF kinds
<1>5. Lost({This(t).do}) /\ Gained(kinds)
    BY <1>3, TookLoses
<1> QED BY <1>1, <1>4, <1>5, KeepsChannels

LEMMA EnqueueTaskKeepsChannels ==
    ASSUME Typed, ChannelsAreClosed, NEW t \in Threads, EnqueueTask(t) PROVE ChannelsAreClosed'
<1>1. Took(t, {}) /\ This(t).do = "enqueue"
    BY OthersTake
<1>2. tasks' = Append(tasks, This(t).to) /\ UNCHANGED <<state, channel>>
    BY DEF EnqueueTask
<1>3. tasks \in Seq(Tasks) /\ Len(tasks) \in Nat
    BY DEF Typed
<1>4. /\ Len(tasks') = Len(tasks) + 1 /\ tasks'[Len(tasks) + 1] = This(t).to
      /\ \A k \in 1 .. Len(tasks) : tasks'[k] = tasks[k]
    BY <1>2, <1>3
<1>5. ClosingChannelsQueued => ClosingChannelsQueued'
    BY <1>3, <1>4 DEF ClosingChannelsQueued
<1>6. This(t) = Enqueue("closeChannels") => ClosingChannelsQueued'
    <2>1. Len(tasks) + 1 \in 1 .. Len(tasks')
        BY <1>3, <1>4
    <2> QED BY <1>4, <2>1, KindsOfSteps DEF ClosingChannelsQueued
<1>7. This(t) # Do("closeChannels")
    BY <1>1, KindsOfSteps
<1>8. \A u \in Threads : Pending(u)' \subseteq Pending(u) /\ Pending(u) \ {This(t)} \subseteq Pending(u)'
    BY <1>1 DEF Took
<1>9. ChannelsWillClose => ChannelsWillClose'
    BY <1>5, <1>6, <1>7, <1>8 DEF ChannelsWillClose
<1>10. Proc \in Threads /\ Main \in Threads /\ Proc' = Proc /\ Main' = Main
    BY ThreadsAreNumbers DEF Proc, Main
<1>11. (\E step \in Pending(Proc)' : step.do \in {"close", "take"})
           => ClosingChannelsQueued' \/ Enqueue("closeChannels") \in Pending(Proc)'
    BY <1>5, <1>6, <1>8, <1>10 DEF ChannelsAreClosed
<1>12. (\E step \in Pending(Main)' : step.do = "close") => ChannelsWillClose' \/ channel' = "closed"
    BY <1>2, <1>8, <1>9, <1>10 DEF ChannelsAreClosed
<1>13. state' = "Closed" => channel' \in {"new", "closed"} \/ ChannelsWillClose'
    BY <1>2, <1>9 DEF ChannelsAreClosed
<1> QED BY <1>10, <1>11, <1>12, <1>13 DEF ChannelsAreClosed

LEMMA CloseChannelsKeepsChannels ==
    ASSUME Typed, OnlyTwoClose, ChannelsAreClosed, NEW t \in Threads, CloseChannels(t)
    PROVE  ChannelsAreClosed'
<1>1. Lost({"closeChannels"}) /\ Gained({})
    BY OthersTake
<1>2. UNCHANGED <<tasks, state>> /\ channel' = IF channel = "new" THEN channel ELSE "closed"
    BY DEF CloseChannels
<1>3. Proc \in Threads /\ Main \in Threads /\ Proc' = Proc /\ Main' = Main
    BY ThreadsAreNumbers DEF Proc, Main
<1>4. \A u \in Threads : /\ Pending(u)' \subseteq Pending(u)
                         /\ \A step \in Pending(u) : step.do # "closeChannels" => step \in Pending(u)'
    BY <1>1 DEF Lost, Gained
<1>5. ClosingChannelsQueued' <=> ClosingChannelsQueued
    BY <1>2 DEF ClosingChannelsQueued
<1>6. (\E step \in Pending(Proc)' : step.do \in {"close", "take"})
          => ClosingChannelsQueued' \/ Enqueue("closeChannels") \in Pending(Proc)'
    BY <1>3, <1>4, <1>5, KindsOfSteps DEF ChannelsAreClosed
<1>7. (\E step \in Pending(Main)' : step.do = "close") => channel' = "closed"
    <2>1. ASSUME NEW step \in Pending(Main)', step.do = "close" PROVE channel # "new"
        BY <1>3, <1>4, <2>1 DEF OnlyTwoClose, Closes, ClosingSteps
    <2> QED BY <1>2, <2>1
<1> QED BY <1>2, <1>3, <1>6, <1>7 DEF ChannelsAreClosed

LEMMA FinishCloseKeepsChannels ==
    ASSUME Typed, OnlyTwoClose, ChannelsAreClosed, NEW t \in Threads, FinishClose(t)
    PROVE  ChannelsAreClosed'
<1>1. UNCHANGED <<tasks, state, channel>> /\ This(t).do = "finish"
    BY DEF FinishClose, At
<1>2. Took(t, {}) \/ Took(t, {Enqueue("closeChannels"), Do("close")})
    BY ClosersTake
<1>3. {"finish"} \cap {"enqueue", "closeChannels"} = {}
    OBVIOUS
<1>4. CASE Took(t, {})
    <2>1. Lost({"finish"}) /\ Gained({})
        BY <1>1, <1>4, TookLoses
    <2>2. {} \cap {"close", "take"} = {}
        OBVIOUS
    <2> QED BY <1>1, <1>3, <2>1, <2>2, KeepsChannels
<1>5. CASE Took(t, {Enqueue("closeChannels"), Do("close")})
    <2>1. Proc \in Threads /\ Main \in Threads /\ Proc' = Proc /\ Main' = Main
        BY ThreadsAreNumbers DEF Proc, Main
    <2>2. Enqueue("closeChannels") \in Pending(t)'
        BY <1>5 DEF Took
    <2>3. ChannelsWillClose'
        BY <2>2 DEF ChannelsWillClose
    <2>4. (\E step \in Pending(Proc)' : step.do \in {"close", "take"})
              => ClosingChannelsQueued' \/ Enqueue("closeChannels") \in Pending(Proc)'
        <3>1. CASE t = Proc
            BY <2>2, <3>1
        <3>2. CASE t # Proc
            <4>1. Pending(Proc)' = Pending(Proc)
                BY <1>5, <2>1, <3>2 DEF Took
            <4>2. ClosingChannelsQueued' <=> ClosingChannelsQueued
                BY <1>1 DEF ClosingChannelsQueued
            <4> QED BY <4>1, <4>2 DEF ChannelsAreClosed
        <3> QED BY <3>1, <3>2
    <2> QED BY <2>1, <2>3, <2>4 DEF ChannelsAreClosed
<1> QED BY <1>2, <1>4, <1>5

\* The processor has queued the end of the channels before it changes the state, and
\* so has main: or they are closed already.
LEMMA ChangeToClosedKeepsChannels ==
    ASSUME Typed, OnlyTwoClose, ChannelsAreClosed, NEW t \in Threads, ChangeToClosed(t)
    PROVE  ChannelsAreClosed'
<1>1. UNCHANGED <<tasks, channel>> /\ This(t).do = "close"
    BY DEF ChangeToClosed, At
<1>2. PICK add : Took(t, add) /\ \A step \in add : step.do \in {"lastReport", "take"}
    <2>1. CASE state = "Closed"
        <3>1. Took(t, {})
            BY <2>1, ClosersTake
        <3> QED BY <3>1
    <2>2. CASE state # "Closed"
        <3>1. Took(t, {Do("lastReport"), Step("take", Null, "sctp"),
                       Step("take", Null, "dtls"), Step("take", Null, "ice")})
            BY <2>2, ClosersTake
        <3>2. \A step \in {Do("lastReport"), Step("take", Null, "sctp"),
                            Step("take", Null, "dtls"), Step("take", Null, "ice")} :
                  step.do \in {"lastReport", "take"}
            BY KindsOfSteps
        <3> QED BY <3>1, <3>2
    <2> QED BY <2>1, <2>2
<1>3. Proc \in Threads /\ Main \in Threads /\ Proc' = Proc /\ Main' = Main
    BY ThreadsAreNumbers DEF Proc, Main
<1>4. This(t) \in Pending(t) /\ t \in {Proc, Main}
    <2>1. This(t) \in Pending(t)
        BY <1>2 DEF Took
    <2> QED BY <1>1, <2>1 DEF OnlyTwoClose, Closes, ClosingSteps
<1>5. ChannelsWillClose \/ channel = "closed"
    <2>1. CASE t = Proc
        BY <1>1, <1>3, <1>4, <2>1 DEF ChannelsAreClosed, ChannelsWillClose
    <2>2. CASE t = Main
        BY <1>1, <1>4, <2>2 DEF ChannelsAreClosed
    <2> QED BY <1>4, <2>1, <2>2
<1>6. Lost({"close"})
    BY <1>1, <1>2 DEF Took, Lost
<1>7. ChannelsWillClose => ChannelsWillClose'
    <2>1. {"close"} \cap {"enqueue", "closeChannels"} = {}
        OBVIOUS
    <2> QED BY <1>1, <1>6, <2>1, KeepsClosing
<1>8. (\E step \in Pending(Proc)' : step.do \in {"close", "take"})
          => ClosingChannelsQueued' \/ Enqueue("closeChannels") \in Pending(Proc)'
    <2>1. ASSUME \E step \in Pending(Proc)' : step.do \in {"close", "take"}
          PROVE  \E step \in Pending(Proc) : step.do \in {"close", "take"}
        <3>1. CASE t = Proc
            BY <1>1, <1>4, <3>1
        <3>2. CASE t # Proc
            BY <1>2, <1>3, <2>1, <3>2 DEF Took
        <3> QED BY <3>1, <3>2
    <2>2. Enqueue("closeChannels") \in Pending(Proc) => Enqueue("closeChannels") \in Pending(Proc)'
        BY <1>3, <1>6, KindsOfSteps DEF Lost
    <2>3. ClosingChannelsQueued' <=> ClosingChannelsQueued
        BY <1>1 DEF ClosingChannelsQueued
    <2> QED BY <2>1, <2>2, <2>3 DEF ChannelsAreClosed
<1> QED BY <1>1, <1>3, <1>5, <1>7, <1>8 DEF ChannelsAreClosed

\* Channels that are assigned though the connection is closed: ICE is still there, and
\* it is the processor that will take it away.
LEMMA AssignChannelsKeepsChannels ==
    ASSUME Typed, MembersAreMade, OnlyTwoClose, MembersAreTaken, ChannelsAreClosed,
           NEW t \in Threads, AssignChannels(t)
    PROVE  ChannelsAreClosed'
<1>1. UNCHANGED <<tasks, state>> /\ Lost({"assign"}) /\ Gained(Innocent)
    BY OthersTake DEF AssignChannels
<1>2. {"assign"} \cap {"enqueue", "closeChannels"} = {} /\ Innocent \cap {"close", "take"} = {}
    BY DEF Innocent
<1>3. CASE channel \in {"new", "closed"} => channel' = channel
    BY <1>1, <1>2, <1>3, KeepsChannels
<1>4. CASE ~(channel \in {"new", "closed"} => channel' = channel)
    <2>1. channel = "new" /\ member["ice"] # Null
        BY <1>4 DEF AssignChannels
    <2>2. state = "Closed" => ChannelsWillClose
        <3>1. SUFFICES ASSUME state = "Closed" PROVE ChannelsWillClose
            OBVIOUS
        <3>2. SomeoneTakes("ice")
            BY <2>1, <3>1 DEF MembersAreTaken, Layers
        <3>3. member["ice"] = 1
            BY <2>1 DEF MembersAreMade, Layers
        <3>4. PICK u \in Threads : \/ Step("take", Null, "ice") \in Pending(u)
                                   \/ On("start", 1) \in Pending(u)
                                   \/ On("check", 1) \in Pending(u)
            BY <3>2, <3>3 DEF SomeoneTakes
        <3>5. \A step \in Pending(u) : step \in Steps(Len(transports))
            BY DEF Pending, Of, Typed
        <3>6. On("start", 1) \notin Pending(u) /\ On("check", 1) \notin Pending(u)
            <4>1. \A step \in Pending(u) : step.do \in MakingSteps => step.id \in 2 .. Len(transports)
                BY <3>5 DEF Steps
            <4>2. 1 \notin 2 .. Len(transports)
                BY DEF Typed
            <4>3. "start" \in MakingSteps /\ "check" \in MakingSteps
                BY DEF MakingSteps
            <4> QED BY <4>1, <4>2, <4>3, KindsOfSteps
        <3>7. Step("take", Null, "ice") \in Pending(u) /\ Step("take", Null, "ice").do = "take"
            BY <3>4, <3>6, KindsOfSteps
        <3>8. Closes(u)
            BY <3>7 DEF Closes, ClosingSteps
        <3>9. u = Proc
            BY <2>1, <3>8 DEF OnlyTwoClose
        <3>10. Proc \in Threads
            BY ThreadsAreNumbers
        <3> QED BY <3>7, <3>9, <3>10 DEF ChannelsAreClosed, ChannelsWillClose
    <2>3. Proc \in Threads /\ Main \in Threads /\ Proc' = Proc /\ Main' = Main
        BY ThreadsAreNumbers DEF Proc, Main
    <2>4. ChannelsWillClose => ChannelsWillClose'
        BY <1>1, <1>2, KeepsClosing
    <2>5. \A u \in Threads : \A step \in Pending(u)' : step.do \in {"close", "take"} => step \in Pending(u)
        BY <1>1 DEF Gained, Innocent
    <2>6. (\E step \in Pending(Proc)' : step.do \in {"close", "take"})
              => ClosingChannelsQueued' \/ Enqueue("closeChannels") \in Pending(Proc)'
        <3>1. Enqueue("closeChannels") \in Pending(Proc) => Enqueue("closeChannels") \in Pending(Proc)'
            BY <1>1, <2>3, KindsOfSteps DEF Lost
        <3>2. ClosingChannelsQueued' <=> ClosingChannelsQueued
            BY <1>1 DEF ClosingChannelsQueued
        <3> QED BY <2>3, <2>5, <3>1, <3>2 DEF ChannelsAreClosed
    <2>7. \A step \in Pending(Main)' : step.do # "close"
        BY <2>1, <2>3, <2>5 DEF OnlyTwoClose, Closes, ClosingSteps
    <2>8. state' = "Closed" => ChannelsWillClose'
        BY <1>1, <2>2, <2>4
    <2> QED BY <2>3, <2>6, <2>7, <2>8 DEF ChannelsAreClosed
<1> QED BY <1>3, <1>4

LEMMA GoesKeepsChannels ==
    ASSUME IInv, NEW t \in Threads, Goes(t) PROVE ChannelsAreClosed'
BY PlainKeepsChannels, KnownKeepChannels, EnqueueTaskKeepsChannels, CloseChannelsKeepsChannels,
   FinishCloseKeepsChannels, ChangeToClosedKeepsChannels, AssignChannelsKeepsChannels DEF Goes, IInv

-----------------------------------------------------------------------------
(***************************************************************************)
(* The environment and the processor give a thread that has nothing to do  *)
(* something to do.                                                        *)
(***************************************************************************)
LEMMA FillsIdle ==
    ASSUME Typed, NEW i, run[i] = <<>>, NEW q, run' = [run EXCEPT ![i] = q],
           NEW kinds, \A step \in Of(q) : step.do \in kinds
    PROVE  Lost({}) /\ Gained(kinds)
<1>1. run \in [Threads -> Seq(Steps(Len(transports)))]
    BY DEF Typed
<1>2. ASSUME NEW u \in Threads, u # i PROVE Pending(u)' = Pending(u)
    BY <1>1, <1>2 DEF Pending, Of
<1>3. ASSUME i \in Threads PROVE Pending(i) = {} /\ Pending(i)' = Of(q)
    <2>1. run'[i] = q
        BY <1>1, <1>3
    <2> QED BY <2>1, OfShort DEF Pending, Of
<1> QED BY <1>2, <1>3 DEF Lost, Gained

LEMMA FillsKeep ==
    ASSUME IInv, Lost({}), Gained(Innocent), UNCHANGED <<state, member, tasks>>,
           channel \in {"new", "closed"} => channel' = channel, ChannelMovesOn
    PROVE  OnlyTwoClose' /\ MembersAreTaken' /\ ChannelsAreClosed'
<1>1. /\ Innocent \cap ClosingSteps = {} /\ Innocent \cap {"close", "take"} = {}
      /\ {} \cap TakingSteps = {} /\ {} \cap {"enqueue", "closeChannels"} = {}
    BY DEF Innocent, ClosingSteps
<1>2. OnlyTwoClose'
    BY <1>1, KeepsOnlyTwo DEF IInv
<1>3. MembersAreTaken'
    BY <1>1, KeepsTaken DEF IInv
<1>4. ChannelsAreClosed'
    BY <1>1, KeepsChannels DEF IInv
<1> QED BY <1>2, <1>3, <1>4

LEMMA CallsAreInnocent ==
    ASSUME NEW i, NEW s PROVE \A step \in Of(Calls(i, s)) : step.do \in Innocent
<1>1. Step("call", i, s).do \in Innocent
    BY KindsOfSteps DEF Innocent
<1>2. Of(Calls(i, s)) \in {{}, {Step("call", i, s)}}
    BY OfShort DEF Calls
<1> QED BY <1>1, <1>2

LEMMA EnvironmentKeeps ==
    ASSUME IInv, ProcessStateChange \/ ProcessTimeout \/ \E i \in Made : NetworkEvent(i) \/ AckArrives(i)
    PROVE  MembersAreMade' /\ OnlyTwoClose' /\ MembersAreTaken' /\ ChannelsAreClosed'
<1> DEFINE Kept == MembersAreMade' /\ OnlyTwoClose' /\ MembersAreTaken' /\ ChannelsAreClosed'
<1>1. Typed /\ MembersAreMade
    BY DEF IInv
<1>2. ASSUME NEW i, run[i] = <<>>, NEW q, run' = [run EXCEPT ![i] = q],
             \A step \in Of(q) : step.do \in Innocent,
             Writes(i), UNCHANGED <<state, member, tasks, channel>>
      PROVE  Kept
    <2>1. Lost({}) /\ Gained(Innocent)
        BY <1>1, <1>2, FillsIdle
    <2>2. MembersAreMade'
        BY <1>1, <1>2, WritesKeepMade
    <2>3. ChannelMovesOn
        BY <1>2 DEF ChannelMovesOn
    <2> QED BY <1>2, <2>1, <2>2, <2>3, FillsKeep
<1>3. CASE ProcessStateChange
    <2>1. run[1] = <<>> /\ UNCHANGED <<state, member, tasks, channel>>
        BY <1>3 DEF ProcessStateChange
    <2>2. PICK agent \in {"connecting", "connected", "ready", "disconnected", "failed"} :
              /\ transports' = IF agent = "failed" THEN transports ELSE Changed(1, StateOf(agent))
              /\ run' = [run EXCEPT ![1] = IF agent = "failed" THEN <<>> ELSE Calls(1, StateOf(agent))]
        BY <1>3 DEF ProcessStateChange
    <2>3. CASE agent = "failed"
        <3>1. Of(<<>>) = {} /\ Writes(1) /\ run' = [run EXCEPT ![1] = <<>>]
            BY <2>2, <2>3, OfShort DEF Writes
        <3> QED BY <1>2, <2>1, <3>1
    <2>4. CASE agent # "failed"
        <3>1. StateOf(agent) \in TransportStates
            BY <2>4 DEF StateOf, TransportStates
        <3>2. Writes(1) /\ run' = [run EXCEPT ![1] = Calls(1, StateOf(agent))]
            BY <2>2, <2>4, <3>1 DEF Writes, Changed
        <3> QED BY <1>2, <2>1, <3>2, CallsAreInnocent
    <2> QED BY <2>3, <2>4
<1>4. CASE ProcessTimeout
    <2>1. run[1] = <<>> /\ UNCHANGED <<state, member, tasks, channel>>
        BY <1>4 DEF ProcessTimeout
    <2>2. Writes(1) /\ run' = [run EXCEPT ![1] = Calls(1, "Failed")]
        BY <1>4 DEF ProcessTimeout, Writes, Changed, TransportStates
    <2> QED BY <1>2, <2>1, <2>2, CallsAreInnocent
<1>5. ASSUME NEW i \in Made, NetworkEvent(i) PROVE Kept
    <2>1. run[i] = <<>> /\ UNCHANGED <<state, member, tasks, channel>> /\ i \in Nat
        BY <1>5 DEF NetworkEvent, Made
    <2>2. PICK s \in NextStates(transports[i]) :
              /\ transports' = Changed(i, s)
              /\ run' = [run EXCEPT ![i] = Calls(i, s) \o
                            CASE s # "Disconnected" -> <<>>
                              [] transports[i].layer = "dtls" -> <<On("endAbove", i)>>
                              [] OTHER -> IF transports[i].heard THEN <<Do("closeChannels")>> ELSE <<>>]
        BY <1>5 DEF NetworkEvent
    <2>3. s \in TransportStates
        BY DEF NextStates, TransportStates
    <2>4. Writes(i)
        BY <2>2, <2>3 DEF Writes, Changed
    <2>5. PICK rest : /\ rest = <<>> \/ rest = <<On("endAbove", i)>> \/ rest = <<Do("closeChannels")>>
                      /\ run' = [run EXCEPT ![i] = Calls(i, s) \o rest]
        <3> DEFINE rest == CASE s # "Disconnected" -> <<>>
                             [] transports[i].layer = "dtls" -> <<On("endAbove", i)>>
                             [] OTHER -> IF transports[i].heard THEN <<Do("closeChannels")>> ELSE <<>>
        <3>1. rest = <<>> \/ rest = <<On("endAbove", i)>> \/ rest = <<Do("closeChannels")>>
            BY <2>3
        <3>2. run' = [run EXCEPT ![i] = Calls(i, s) \o rest]
            BY <2>2
        <3> HIDE DEF rest
        <3> QED BY <3>1, <3>2
    <2>6. \A step \in Of(Calls(i, s) \o rest) : step.do \in Innocent
        <3> DEFINE S == {Step("call", i, s), On("endAbove", i), Do("closeChannels")}
        <3>1. <<>> \in Seq(S) /\ <<Step("call", i, s)>> \in Seq(S) /\ <<On("endAbove", i)>> \in Seq(S)
              /\ <<Do("closeChannels")>> \in Seq(S)
            OBVIOUS
        <3> HIDE DEF S
        <3>2. Calls(i, s) \in Seq(S) /\ rest \in Seq(S)
            BY <2>5, <3>1 DEF Calls
        <3>3. Of(Calls(i, s) \o rest) = Of(Calls(i, s)) \cup Of(rest)
            BY <3>2, OfJoined
        <3>4. Of(rest) \subseteq {On("endAbove", i), Do("closeChannels")}
            BY <2>5, OfShort
        <3>5. On("endAbove", i).do \in Innocent /\ Do("closeChannels").do \in Innocent
            BY KindsOfSteps DEF Innocent
        <3> QED BY <3>3, <3>4, <3>5, CallsAreInnocent
    <2> QED BY <1>2, <2>1, <2>4, <2>5, <2>6
<1>6. ASSUME NEW i \in Made, AckArrives(i) PROVE Kept
    <2>1. UNCHANGED <<state, member, tasks, transports, run>> /\ channel = "asked" /\ channel' = "open"
        BY <1>6 DEF AckArrives
    <2>2. Lost({}) /\ Gained(Innocent)
        BY <2>1 DEF Lost, Gained, Pending, Of
    <2>3. ChannelMovesOn
        BY <2>1 DEF ChannelMovesOn
    <2>4. MembersAreMade'
        BY <1>1, <2>1 DEF MembersAreMade, Made
    <2> QED BY <2>1, <2>2, <2>3, <2>4, FillsKeep
<1> QED BY <1>3, <1>4, <1>5, <1>6

\* main begins to close when the channels are open.
LEMMA MainExitsKeepsRest ==
    ASSUME IInv, MainExits
    PROVE  MembersAreMade' /\ OnlyTwoClose' /\ MembersAreTaken' /\ ChannelsAreClosed'
<1>1. UNCHANGED <<state, member, transports, tasks, channel>> /\ channel = "open"
    BY DEF MainExits
<1>2. Lost({}) /\ Gained({"remoteClose"})
    <2>1. \A step \in Of(<<Do("remoteClose")>>) : step.do \in {"remoteClose"}
        BY OfShort, KindsOfSteps
    <2>2. run[Main] = <<>> /\ run' = [run EXCEPT ![Main] = <<Do("remoteClose")>>]
        BY DEF MainExits
    <2> QED BY <2>1, <2>2, FillsIdle DEF IInv
<1>3. MembersAreMade'
    BY <1>1 DEF IInv, MembersAreMade, Made
<1>4. MembersAreTaken' /\ ChannelsAreClosed'
    <2>1. {} \cap TakingSteps = {} /\ {} \cap {"enqueue", "closeChannels"} = {}
          /\ {"remoteClose"} \cap {"close", "take"} = {}
        OBVIOUS
    <2> QED BY <1>1, <1>2, <2>1, KeepsTaken, KeepsChannels DEF IInv
<1>5. OnlyTwoClose'
    <2>1. \A u \in Threads : u # Main => Pending(u)' = Pending(u)
        BY DEF MainExits, IInv, Typed, Pending, Of
    <2>2. \A u \in Threads : u # Main => (Closes(u)' => Closes(u))
        BY <2>1 DEF Closes
    <2>3. \A u \in Threads : Closes(u)' => u \in {Proc, Main}
        BY <2>2 DEF IInv, OnlyTwoClose
    <2>4. channel' # "new"
        BY <1>1
    <2> QED BY <2>3, <2>4 DEF OnlyTwoClose, Proc, Main
<1> QED BY <1>3, <1>4, <1>5

\* The processor takes the task that closes the channels, or leaves it in the queue.
LEMMA ProcessorKeepsRest ==
    ASSUME IInv, ProcessorTakes
    PROVE  MembersAreMade' /\ OnlyTwoClose' /\ MembersAreTaken' /\ ChannelsAreClosed'
<1>1. UNCHANGED <<state, member, transports, channel>> /\ run[Proc] = <<>> /\ tasks # <<>>
      /\ tasks' = Tail(tasks)
    BY DEF ProcessorTakes
<1>2. Proc \in Threads /\ Main \in Threads /\ Proc' = Proc /\ Main' = Main /\ Proc # Main
    BY ThreadsAreNumbers, BoundsAssumption DEF Proc, Main
<1>3. tasks \in Seq(Tasks) /\ run \in [Threads -> Seq(Steps(Len(transports)))]
    BY DEF IInv, Typed
<1> DEFINE own == {"remoteClose", "openChannels", "closeChannels"}
<1>4. Lost({}) /\ Gained(own) /\ (Head(tasks) = "closeChannels" => Do("closeChannels") \in Pending(Proc)')
    <2>1. CASE Head(tasks) \in own
        <3>1. run' = [run EXCEPT ![Proc] = <<Do(Head(tasks))>>]
            BY <2>1 DEF ProcessorTakes
        <3>2. \A step \in Of(<<Do(Head(tasks))>>) : step.do \in own
            BY <2>1, OfShort, KindsOfSteps
        <3>3. Lost({}) /\ Gained(own)
            BY <1>1, <3>1, <3>2, FillsIdle DEF IInv
        <3>4. run'[Proc] = <<Do(Head(tasks))>>
            BY <1>2, <1>3, <3>1
        <3>5. Pending(Proc)' = Of(run'[Proc])
            BY <1>2 DEF Pending, Of
        <3>6. Do(Head(tasks)) \in Pending(Proc)'
            BY <3>4, <3>5, OfShort
        <3> QED BY <3>3, <3>6
    <2>2. CASE Head(tasks) \notin own
        <3>1. UNCHANGED run
            BY <2>2 DEF ProcessorTakes
        <3> QED BY <2>2, <3>1 DEF Lost, Gained, Pending, Of
    <2> QED BY <2>1, <2>2
<1>5. MembersAreMade'
    BY <1>1 DEF IInv, MembersAreMade, Made
<1>6. MembersAreTaken'
    <2>1. {} \cap TakingSteps = {}
        OBVIOUS
    <2> QED BY <1>1, <1>4, <2>1, KeepsTaken DEF IInv
<1>7. \A u \in Threads \ {Proc} : Pending(u)' = Pending(u)
    BY <1>3 DEF ProcessorTakes, Pending, Of
<1>8. OnlyTwoClose'
    <2>1. \A u \in Threads : u # Proc => (Closes(u)' => Closes(u))
        BY <1>7 DEF Closes
    <2>2. \A u \in Threads : Closes(u)' => u \in {Proc, Main}
        BY <2>1 DEF IInv, OnlyTwoClose
    <2>3. Closes(Main)' => channel' # "new"
        BY <1>1, <1>2, <2>1 DEF IInv, OnlyTwoClose
    <2> QED BY <1>2, <2>2, <2>3 DEF OnlyTwoClose
<1>9. ChannelsWillClose => ChannelsWillClose'
    <2>1. ASSUME NEW k \in 1 .. Len(tasks), tasks[k] = "closeChannels" PROVE ChannelsWillClose'
        <3>1. CASE k = 1
            BY <1>2, <1>4, <2>1, <3>1 DEF ChannelsWillClose
        <3>2. CASE k # 1
            <4>1. k - 1 \in 1 .. Len(tasks') /\ tasks'[k - 1] = "closeChannels"
                BY <1>1, <1>3, <2>1, <3>2
            <4> QED BY <4>1 DEF ChannelsWillClose, ClosingChannelsQueued
        <3> QED BY <3>1, <3>2
    <2>2. \A u \in Threads : Pending(u) \subseteq Pending(u)'
        BY <1>4 DEF Lost
    <2> QED BY <2>1, <2>2 DEF ChannelsWillClose, ClosingChannelsQueued
<1>10. \A step \in Pending(Proc)' : step.do \notin {"close", "take"}
    <2>1. Pending(Proc) = {}
        BY <1>1, OfShort DEF Pending
    <2> QED BY <1>2, <1>4, <2>1 DEF Gained
<1>11. (\E step \in Pending(Main)' : step.do = "close") => ChannelsWillClose' \/ channel' = "closed"
    BY <1>1, <1>2, <1>7, <1>9 DEF IInv, ChannelsAreClosed
<1>12. state' = "Closed" => channel' \in {"new", "closed"} \/ ChannelsWillClose'
    BY <1>1, <1>9 DEF IInv, ChannelsAreClosed
<1> QED BY <1>2, <1>5, <1>6, <1>8, <1>10, <1>11, <1>12 DEF ChannelsAreClosed

-----------------------------------------------------------------------------
LEMMA InitHolds == Init => IInv
<1> SUFFICES ASSUME Init PROVE IInv
    OBVIOUS
<1>1. Typed /\ ClosedTakesCallback
    BY InitTyped DEF Init, ClosedTakesCallback
<1>2. \A t \in Threads : Pending(t) = {}
    BY OfShort DEF Init, Pending
<1>3. OnlyTwoClose
    BY <1>2, ThreadsAreNumbers DEF OnlyTwoClose, Closes
<1>4. MembersAreTaken
    BY DEF Init, MembersAreTaken
<1>5. ChannelsAreClosed
    BY <1>2, ThreadsAreNumbers DEF ChannelsAreClosed, Init
<1>6. MembersAreMade
    <2>1. Len(transports) = 1 /\ transports[1].layer = "ice"
        BY DEF Init, Transport
    <2>2. \A l \in Layers : member[l] # Null => l = "ice" /\ member[l] = 1
        BY DEF Init
    <2> QED BY <2>1, <2>2 DEF MembersAreMade, Made
<1> QED BY <1>1, <1>3, <1>4, <1>5, <1>6 DEF IInv

LEMMA NextHolds == IInv /\ [Next]_vars => IInv'
<1> SUFFICES ASSUME IInv, [Next]_vars PROVE IInv'
    OBVIOUS
<1>1. Typed' /\ ClosedTakesCallback'
    BY NextTyped, NextKeepsClosed DEF IInv
<1> DEFINE Rest == MembersAreMade' /\ OnlyTwoClose' /\ MembersAreTaken' /\ ChannelsAreClosed'
<1>2. ASSUME NEW t \in Threads, Goes(t) PROVE Rest
    BY <1>2, GoesKeepsMade, GoesKeepsOnlyTwo, GoesKeepsTaken, GoesKeepsChannels DEF IInv
<1>3. ASSUME ProcessorTakes PROVE Rest
    BY <1>3, ProcessorKeepsRest
<1>4. ASSUME ProcessStateChange \/ ProcessTimeout \/ \E i \in Made : NetworkEvent(i) \/ AckArrives(i)
      PROVE  Rest
    BY <1>4, EnvironmentKeeps
<1>5. ASSUME MainExits PROVE Rest
    BY <1>5, MainExitsKeepsRest
<1>6. ASSUME UNCHANGED vars PROVE Rest
    <2>1. UNCHANGED <<state, member, transports, tasks, run, channel>>
        BY <1>6 DEF vars
    <2>2. Lost({}) /\ Gained(Innocent) /\ ChannelMovesOn
        BY <2>1 DEF Lost, Gained, Pending, Of, ChannelMovesOn
    <2>3. MembersAreMade'
        BY <2>1 DEF IInv, MembersAreMade, Made
    <2> QED BY <2>1, <2>2, <2>3, FillsKeep
<1>7. Rest
    BY <1>2, <1>3, <1>4, <1>5, <1>6 DEF Next
<1> QED BY <1>1, <1>7 DEF IInv

\* When a closed connection has come to rest, none of its transports is left in a
\* member and no channel that had a stream is open, whichever threads made, closed,
\* assigned and opened in whatever order (peerconnection.cpp:147).
THEOREM NothingOutlives == Spec => []NothingOutlivesTheConnection
<1>1. IInv => NothingOutlivesTheConnection
    <2>1. SUFFICES ASSUME IInv, Quiet, state = "Closed"
                   PROVE  channel \in {"new", "closed"} /\ \A l \in Layers : member[l] = Null
        BY DEF NothingOutlivesTheConnection
    <2>2. \A t \in Threads : Pending(t) = {}
        BY <2>1, OfShort DEF Quiet, Pending
    <2>3. \A l \in Layers : member[l] = Null
        BY <2>1, <2>2 DEF IInv, MembersAreTaken, SomeoneTakes
    <2>4. ~ClosingChannelsQueued
        BY <2>1 DEF Quiet, ClosingChannelsQueued
    <2>5. channel \in {"new", "closed"}
        BY <2>1, <2>2, <2>4 DEF IInv, ChannelsAreClosed, ChannelsWillClose
    <2> QED BY <2>3, <2>5
<1> QED BY <1>1, InitHolds, NextHolds, PTL DEF Spec
=============================================================================
