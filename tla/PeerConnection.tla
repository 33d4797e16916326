--------------------------- MODULE PeerConnection ---------------------------
(***************************************************************************)
(* How the gateway's connection comes up and ends: rtc::impl::             *)
(* PeerConnection (libdatachannel/src/impl/peerconnection.cpp) with its    *)
(* three transports, each of which has the one above it made by a callback *)
(* on a thread of its own, while another thread may be closing it all.     *)
(*                                                                         *)
(* A thread is the list of steps it has still to take, each one atomic     *)
(* access or one lock; a step may put others before the rest.  What the    *)
(* network does to a transport is free, in any order, up to MaxEvents.     *)
(* ICE, on top of the agent of libnice, was started with the local         *)
(* description before.  After a connection is closed a separate thread     *)
(* stops and frees its transports; nothing of that can be heard any more,  *)
(* and it is left out.                                                     *)
(***************************************************************************)
EXTENDS Naturals, Sequences, FiniteSets

CONSTANT MaxEvents       \* bound: events of the network

ASSUME BoundsAssumption == MaxEvents \in Nat

VARIABLES state,       \* PeerConnection::state
          closing,     \* PeerConnection::closing
          callback,    \* stateChangeCallback is set
          member,      \* mIceTransport, mDtlsTransport and mSctpTransport
          transports,  \* the transports made so far
          ice,         \* the state of the agent, and whether the timer of ICE runs
          tasks,       \* mProcessor's queue
          run,         \* per thread, the steps it has still to take
          channel,     \* one data channel of the gateway (the other is alike)
          app,         \* the gateway: the last state heard, restartRequested, exiting
          events       \* events of the network so far

vars == <<state, closing, callback, member, transports, ice, tasks, run, channel, app, events>>

Layers == {"ice", "dtls", "sctp"}
Below(layer) == IF layer = "sctp" THEN "dtls" ELSE "ice"

Null == 0
Nobody == 0
Ids == 1 .. MaxEvents + 1      \* each event has at most one transport made
Made == 1 .. Len(transports)
Proc == MaxEvents + 2          \* the thread that runs mProcessor
Main == MaxEvents + 3          \* the gateway's main thread
Threads == Ids \cup {Proc, Main}   \* and each transport's own

Transport(layer, below) ==
    [layer |-> layer, below |-> below, state |-> "New", heard |-> TRUE, in |-> Nobody]

\* Steps: what to do, to which transport, with which state, task or layer.
Step(do, id, to) == [do |-> do, id |-> id, to |-> to]
On(do, id) == Step(do, id, "")
Do(do) == On(do, Null)
Change(s) == Step("change", Null, s)
Enqueue(task) == Step("enqueue", Null, task)

This(t) == Head(run[t])
At(t, do) == run[t] # <<>> /\ This(t).do = do
Continue(t, first) == run' = [run EXCEPT ![t] = first \o Tail(@)]

Init ==
    /\ state = "New" /\ closing = FALSE /\ callback = TRUE
    /\ member = [l \in Layers |-> IF l = "ice" THEN 1 ELSE Null]
    /\ transports = <<[Transport("ice", Null) EXCEPT !.state = "Connecting"]>>
    /\ ice = [agent |-> "connecting", timer |-> FALSE]
    /\ tasks = <<>>
    /\ run = [t \in Threads |-> <<>>]
    /\ channel = "new"
    /\ app = [told |-> "New", restart |-> FALSE, exiting |-> FALSE]
    /\ events = 0

-----------------------------------------------------------------------------
(***************************************************************************)
(* The state of the connection and its reports.  A state is exchanged      *)
(* first; its report is a task of the processor and comes later, and other *)
(* threads go on in between.  Closed is final.                             *)
(***************************************************************************)
ChangeState(t) ==
    /\ At(t, "change")
    /\ IF state \in {"Closed", This(t).to}
       THEN Continue(t, <<>>) /\ UNCHANGED state
       ELSE Continue(t, <<Enqueue(This(t).to)>>) /\ state' = This(t).to
    /\ UNCHANGED <<closing, callback, member, transports, tasks, channel, app, events, ice>>

EnqueueTask(t) ==
    /\ At(t, "enqueue")
    /\ tasks' = Append(tasks, This(t).to)
    /\ Continue(t, <<>>)
    /\ UNCHANGED <<state, closing, callback, member, transports, channel, app, events, ice>>

\* The gateway's onStateChange.
Heard(s) == [app EXCEPT !.told = s, !.restart = @ \/ s \in {"Failed", "Closed"}]

\* The processor takes its next task: a report, or one of PeerConnection's.
ProcessorTakes ==
    /\ run[Proc] = <<>> /\ tasks # <<>>
    /\ tasks' = Tail(tasks)
    /\ LET task == Head(tasks)
       IN  IF task \in {"remoteClose", "openChannels", "closeChannels"}
           THEN run' = [run EXCEPT ![Proc] = <<Do(task)>>] /\ UNCHANGED app
           ELSE app' = (IF callback THEN Heard(task) ELSE app) /\ UNCHANGED run
    /\ UNCHANGED <<state, closing, callback, member, transports, channel, events, ice>>

(***************************************************************************)
(* The callbacks of the transports.  Each is under a lock of its own,      *)
(* which also waits for it when it is taken away.                          *)
(***************************************************************************)
\* Faulty variant: a disconnected transport is reported, and the connection stays.
ReactionKeepsDisconnected(layer, s) ==
    CASE s = "Disconnected" -> <<Change(s)>>
      [] s = "Failed" -> <<Change(s), Enqueue("remoteClose")>>
      [] s = "Connected" /\ layer = "ice" -> <<Step("init", Null, "dtls")>>
      [] s = "Connected" /\ layer = "dtls" -> <<Step("init", Null, "sctp")>>
      [] s = "Connected" /\ layer = "sctp" ->
            <<Change("Connected"), Do("assign")>>
      [] s = "Connecting" -> <<Change("Connecting")>>
      [] s = "Completed" -> <<>>

Reaction(layer, s) ==
    CASE s \in {"Failed", "Disconnected"} -> <<Change(s), Enqueue("remoteClose")>>
      [] s = "Connected" /\ layer = "ice" -> <<Step("init", Null, "dtls")>>
      [] s = "Connected" /\ layer = "dtls" -> <<Step("init", Null, "sctp")>>
      [] s = "Connected" /\ layer = "sctp" ->
            <<Change("Connected"), Do("assign")>>
      [] s = "Connecting" -> <<Change("Connecting")>>
      [] s = "Completed" -> <<>>

Call(t) ==
    /\ At(t, "call")
    /\ LET i == This(t).id
       IN  IF transports[i].heard
           THEN /\ transports[i].in = Nobody
                /\ transports' = [transports EXCEPT ![i].in = t]
                /\ Continue(t, Reaction(transports[i].layer, This(t).to) \o <<On("leave", i)>>)
           ELSE Continue(t, <<>>) /\ UNCHANGED transports
    /\ UNCHANGED <<state, closing, callback, member, tasks, channel, app, events, ice>>

Leave(t) ==
    /\ At(t, "leave")
    /\ transports' = [transports EXCEPT ![This(t).id].in = Nobody]
    /\ Continue(t, <<>>)
    /\ UNCHANGED <<state, closing, callback, member, tasks, channel, app, events, ice>>

(***************************************************************************)
(* initDtlsTransport, initSctpTransport and emplaceTransport.              *)
(***************************************************************************)
InitTransport(t) ==
    /\ At(t, "init")
    /\ LET layer == This(t).to
           below == member[Below(layer)]
       IN  IF member[layer] # Null
           THEN Continue(t, <<>>) /\ UNCHANGED transports
           ELSE IF below = Null
           THEN Continue(t, <<Change("Failed")>>) /\ UNCHANGED transports
           ELSE /\ transports' = Append(transports, Transport(layer, below))
                /\ Continue(t, <<On("store", Len(transports) + 1)>>)
    /\ UNCHANGED <<state, closing, callback, member, tasks, channel, app, events, ice>>

Store(t) ==
    /\ At(t, "store")
    /\ LET i == This(t).id
       IN  /\ member' = [member EXCEPT ![transports[i].layer] = i]
           /\ Continue(t, <<On("start", i)>>)
    /\ UNCHANGED <<state, closing, callback, transports, tasks, channel, app, events, ice>>

AfterStart(t, i) == Continue(t, <<On("check", i)>>)

\* A start that throws (usrsctp may refuse) drops the transport.
Start(t) ==
    /\ At(t, "start")
    /\ LET i == This(t).id
       IN  \/ /\ transports' = [transports EXCEPT ![i].state = "Connecting"]
              /\ AfterStart(t, i)
              /\ UNCHANGED member
           \/ /\ transports[i].layer = "sctp"
              /\ transports' = [transports EXCEPT ![i].state = "Connecting", ![i].heard = FALSE]
              /\ member' = [member EXCEPT !["sctp"] = Null]
              /\ Continue(t, <<Change("Failed")>>)
    /\ UNCHANGED <<state, closing, callback, tasks, channel, app, events, ice>>

\* Faulty variant: a transport that was started stays.
CheckNothing(t) ==
    /\ At(t, "check")
    /\ Continue(t, <<>>)
    /\ UNCHANGED <<state, closing, callback, member, transports, tasks, channel, app, events, ice>>

\* The connection may have been closed since: then nobody else stops it.
CheckClosed(t) ==
    /\ At(t, "check")
    /\ LET i == This(t).id
       IN  IF closing \/ state = "Closed"
           THEN /\ member' = [member EXCEPT ![transports[i].layer] = Null]
                /\ Continue(t, <<On("stop", i)>>)
           ELSE Continue(t, <<>>) /\ UNCHANGED member
    /\ UNCHANGED <<state, closing, callback, transports, tasks, channel, app, events, ice>>

\* SctpTransport::close: what had not come up yet has failed.  The others have
\* no more to do than to stop listening.
Stop(t) ==
    /\ At(t, "stop")
    /\ LET i == This(t).id
       IN  IF transports[i].layer = "sctp" /\ transports[i].state = "Connecting"
           THEN /\ transports' = [transports EXCEPT ![i].state = "Failed"]
                /\ Continue(t, <<Step("call", i, "Failed")>>)
           ELSE Continue(t, <<>>) /\ UNCHANGED transports
    /\ UNCHANGED <<state, closing, callback, member, tasks, channel, app, events, ice>>

-----------------------------------------------------------------------------
(***************************************************************************)
(* close, remoteClose and closeTransports.                                 *)
(***************************************************************************)
BeginClose(t) ==
    /\ At(t, "remoteClose")
    /\ closing' = TRUE
    /\ Continue(t, IF closing THEN <<Do("finish")>> ELSE <<Do("stopSctp"), Do("finish")>>)
    /\ UNCHANGED <<state, callback, member, transports, tasks, channel, app, events, ice>>

StopSctp(t) ==
    /\ At(t, "stopSctp")
    /\ Continue(t, IF member["sctp"] = Null
                   THEN <<Do("finish")>> ELSE <<On("stop", member["sctp"])>>)
    /\ UNCHANGED <<state, closing, callback, member, transports, tasks, channel, app, events, ice>>

FinishClose(t) ==
    /\ At(t, "finish")
    /\ Continue(t, IF state = "Closed"
                   THEN <<>> ELSE <<Enqueue("closeChannels"), Do("close")>>)
    /\ UNCHANGED <<state, closing, callback, member, transports, tasks, channel, app, events, ice>>

\* Who changes the state to Closed goes on alone.
ChangeToClosed(t) ==
    /\ At(t, "close")
    /\ state' = "Closed"
    /\ Continue(t, IF state = "Closed" THEN <<>>
                   ELSE <<Do("lastReport"), Step("take", Null, "sctp"),
                          Step("take", Null, "dtls"), Step("take", Null, "ice")>>)
    /\ UNCHANGED <<closing, callback, member, transports, tasks, channel, app, events, ice>>

\* Faulty variant: the callback is called, and stays where it is.
ReportClosedOnly(t) ==
    /\ At(t, "lastReport")
    /\ app' = Heard("Closed")
    /\ Continue(t, <<>>)
    /\ UNCHANGED <<state, closing, callback, member, transports, tasks, channel, events, ice>>

\* The callback is stolen and called at once.
ReportClosed(t) ==
    /\ At(t, "lastReport")
    /\ callback' = FALSE
    /\ app' = Heard("Closed")
    /\ Continue(t, <<>>)
    /\ UNCHANGED <<state, closing, member, transports, tasks, channel, events, ice>>

TakeTransport(t) ==
    /\ At(t, "take")
    /\ LET i == member[This(t).to]
       IN  /\ member' = [member EXCEPT ![This(t).to] = Null]
           /\ run' = [run EXCEPT ![t] = Tail(@) \o (IF i = Null THEN <<>> ELSE <<On("mute", i)>>)]
    /\ UNCHANGED <<state, closing, callback, transports, tasks, channel, app, events, ice>>

Mute(t) ==
    /\ At(t, "mute")
    /\ transports[This(t).id].in \in {Nobody, t}
    /\ transports' = [transports EXCEPT ![This(t).id].heard = FALSE]
    /\ Continue(t, <<>>)
    /\ UNCHANGED <<state, closing, callback, member, tasks, channel, app, events, ice>>

(***************************************************************************)
(* The data channels.  assignDataChannels throws without an ICE transport, *)
(* and its caller goes no further.                                         *)
(***************************************************************************)
AssignChannels(t) ==
    /\ At(t, "assign")
    /\ IF member["ice"] = Null
       THEN Continue(t, <<>>) /\ UNCHANGED channel
       ELSE /\ channel' = IF channel = "new" THEN "assigned" ELSE channel
            /\ Continue(t, <<Enqueue("openChannels")>>)
    /\ UNCHANGED <<state, closing, callback, member, transports, tasks, app, events, ice>>

\* A request to open goes to the other end; the channel waits for its answer.
OpenChannels(t) ==
    /\ At(t, "openChannels")
    /\ channel' = IF member["sctp"] # Null /\ channel = "assigned" THEN "asked" ELSE channel
    /\ Continue(t, <<>>)
    /\ UNCHANGED <<state, closing, callback, member, transports, tasks, app, events, ice>>

\* Only a channel that has got its stream is found.
CloseChannels(t) ==
    /\ At(t, "closeChannels")
    /\ channel' = IF channel = "new" THEN channel ELSE "closed"
    /\ Continue(t, <<>>)
    /\ UNCHANGED <<state, closing, callback, member, transports, tasks, app, events, ice>>

\* The end of DTLS is the end of SCTP above it, unless that has failed before.
EndAbove(t) ==
    /\ At(t, "endAbove")
    /\ LET above == {j \in Made : transports[j].below = This(t).id
                                  /\ transports[j].state \notin {"New", "Failed"}}
           told == {j \in above : transports[j].state # "Disconnected"}
       IN  /\ transports' = [j \in Made |-> IF j \in above
                                THEN [transports[j] EXCEPT !.state = "Disconnected"]
                                ELSE transports[j]]
           /\ Continue(t, (IF told = {} THEN <<>>
                           ELSE <<Step("call", CHOOSE j \in told : TRUE, "Disconnected")>>)
                          \o (IF \E j \in above : transports[j].heard
                              THEN <<Do("closeChannels")>> ELSE <<>>))
    /\ UNCHANGED <<state, closing, callback, member, tasks, channel, app, events, ice>>

-----------------------------------------------------------------------------
(***************************************************************************)
(* The environment.                                                        *)
(***************************************************************************)
\* A transport's new state, if it is one, is called back (Transport::changeState).
Changed(i, s) == [transports EXCEPT ![i].state = s]
Calls(i, s) == IF transports[i].state = s THEN <<>> ELSE <<Step("call", i, s)>>

\* What the agent's states are to the transport.
StateOf(agent) == CASE agent = "connecting" -> "Connecting" [] agent = "connected" -> "Connected"
                    [] agent = "ready" -> "Completed" [] agent = "disconnected" -> "Disconnected"

\* The agent changes state.  The page's answer does not say that its candidates end
\* there, so ICE has not failed yet when the agent has: a timer is started, or
\* started again, and only a connection stops it.
ProcessStateChange ==
    /\ run[1] = <<>> /\ events < MaxEvents
    /\ events' = events + 1
    /\ \E agent \in {"connecting", "connected", "ready", "disconnected", "failed"} \ {ice.agent} :
          /\ agent = "ready" => ice.agent = "connected"
          /\ ice' = [agent |-> agent, timer |-> CASE agent = "failed" -> TRUE
                                                 [] agent = "connected" -> FALSE
                                                 [] OTHER -> ice.timer]
          /\ transports' = IF agent = "failed" THEN transports ELSE Changed(1, StateOf(agent))
          /\ run' = [run EXCEPT ![1] = IF agent = "failed" THEN <<>> ELSE Calls(1, StateOf(agent))]
    /\ UNCHANGED <<state, closing, callback, member, tasks, channel, app>>

ProcessTimeout ==
    /\ run[1] = <<>> /\ ice.timer
    /\ ice' = [ice EXCEPT !.timer = FALSE]
    /\ transports' = Changed(1, "Failed")
    /\ run' = [run EXCEPT ![1] = Calls(1, "Failed")]
    /\ UNCHANGED <<state, closing, callback, member, tasks, channel, app, events>>

\* The states a transport above may go to by itself.
NextStates(tr) == CASE tr.state = "Connecting" -> {"Connected", "Failed"}
                    [] tr.state = "Connected" -> {"Disconnected"}
                    [] OTHER -> {}

\* The DTLS handshake or the SCTP association changes state: on the transport's
\* own thread, which calls back and then tells the layer above.
NetworkEvent(i) ==
    /\ i # 1 /\ run[i] = <<>> /\ events < MaxEvents
    /\ events' = events + 1
    /\ \E s \in NextStates(transports[i]) :
          /\ transports' = Changed(i, s)
          /\ run' = [run EXCEPT ![i] = Calls(i, s) \o
                        CASE s # "Disconnected" -> <<>>
                          [] transports[i].layer = "dtls" -> <<On("endAbove", i)>>
                          [] OTHER -> IF transports[i].heard THEN <<Do("closeChannels")>> ELSE <<>>]
    /\ UNCHANGED <<state, closing, callback, member, tasks, channel, app, ice>>

\* The other end accepts the channel (forwardMessage, DataChannel::incoming).
AckArrives(i) ==
    /\ channel = "asked" /\ run[i] = <<>>
    /\ transports[i].layer = "sctp" /\ transports[i].state = "Connected" /\ transports[i].heard
    /\ member["ice"] # Null /\ member["sctp"] # Null
    /\ channel' = "open"
    /\ UNCHANGED <<state, closing, callback, member, transports, tasks, run, app, events, ice>>

\* main waits for the open channel and may return then (no shared memory): the
\* connection is destroyed with the process's objects.
MainExits ==
    /\ channel = "open" /\ ~app.exiting /\ run[Main] = <<>>
    /\ app' = [app EXCEPT !.exiting = TRUE]
    /\ run' = [run EXCEPT ![Main] = <<Do("remoteClose")>>]
    /\ UNCHANGED <<state, closing, callback, member, transports, tasks, channel, events, ice>>

Goes(t) ==
    \/ ChangeState(t) \/ EnqueueTask(t) \/ Call(t) \/ Leave(t)
    \/ InitTransport(t) \/ Store(t) \/ Start(t) \/ CheckClosed(t) \/ Stop(t)
    \/ BeginClose(t) \/ StopSctp(t) \/ FinishClose(t) \/ ChangeToClosed(t)
    \/ ReportClosed(t) \/ TakeTransport(t) \/ Mute(t)
    \/ AssignChannels(t) \/ OpenChannels(t) \/ CloseChannels(t) \/ EndAbove(t)

Next ==
    \/ \E t \in Threads : Goes(t)
    \/ ProcessorTakes \/ ProcessStateChange \/ ProcessTimeout
    \/ \E i \in Made : NetworkEvent(i) \/ AckArrives(i)
    \/ MainExits

\* Every thread goes on, and a timer fires; the network owes nothing.
Spec ==
    /\ Init /\ [][Next]_vars
    /\ \A t \in Threads : WF_run(Goes(t))
    /\ WF_tasks(ProcessorTakes) /\ WF_ice(ProcessTimeout)

-----------------------------------------------------------------------------
(***************************************************************************)
(* Properties.                                                             *)
(***************************************************************************)
Quiet == tasks = <<>> /\ \A t \in Threads : run[t] = <<>>

\* A transport that is made while the connection closes is not left running in
\* it: whoever is later, the thread that starts it or the one that takes the
\* three of them away, finds it (peerconnection.cpp:147).  No channel that a
\* stream was assigned to is left open or opening either, though channels are
\* assigned, opened and closed by different threads.
NothingOutlivesTheConnection ==
    Quiet /\ state = "Closed" => channel \in {"new", "closed"} /\ \A l \in Layers : member[l] = Null

\* Closed is the last thing the application hears: reports that were queued
\* before are dropped, whichever thread closes (peerconnection.cpp:1324).
ClosedIsTheLastReport == [][app.told = "Closed" => app'.told = "Closed"]_vars

\* No end of a transport is lost between the threads: the gateway always gets to
\* hear of it as Failed or Closed, on which it starts its session again.  Neither
\* is an agent that has failed, though it is given more time: unless it recovers.
EndIsNoticed ==
    /\ (\E i \in Made : transports[i].state \in {"Failed", "Disconnected"}) ~> app.restart
    /\ ice.agent = "failed" ~> app.restart \/ ice.agent # "failed"
=============================================================================
