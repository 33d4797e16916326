----------------------------- MODULE WebSocket -----------------------------
(***************************************************************************)
(* rtc::impl::WebSocket (libdatachannel/src/impl/websocket.cpp), client or *)
(* server, with the transports below it: TCP, perhaps an HTTP proxy,       *)
(* perhaps TLS, and the WebSocket protocol.  Each has the one above it     *)
(* made by a callback when it is connected, on the thread of the poll      *)
(* service or, with TLS, one of the thread pool, while the application,    *)
(* the timers or another transport's end close it all.                     *)
(*                                                                         *)
(* A thread is the list of steps it has still to take, each one atomic     *)
(* access or one lock.  The other end of the connection is external and    *)
(* keeps to the protocol, or refuses, or goes; TLS is as much of           *)
(* SecureTransport as is seen from above and below.                        *)
(***************************************************************************)
EXTENDS TcpTransport

CONSTANTS Setups,              \* what is configured, and what may happen: see below
          MaxAddresses,        \* bound: addresses that a name resolves to
          Room,                \* units that a socket takes before it would block
          MaxOutstandingPings  \* WebSocketConfiguration::maxOutstandingPings, not 0

\* Configured: a server's or not, a proxy, TLS, connectionTimeout.  Bounds of what
\* happens: what the application calls, its messages, frames and ends that arrive.
ASSUME SetupsAssumption ==
    Setups \subseteq [server : BOOLEAN, proxy : BOOLEAN, tls : BOOLEAN, timeout : BOOLEAN,
                     call : {"none", "close", "forceClose"}, sends : Nat, arrivals : Nat]
ASSUME BoundsAssumption ==
    {MaxAddresses, Room, MaxOutstandingPings} \subseteq Nat \ {0}

VARIABLES setup,    \* the configuration
          state,    \* WebSocket::state
          race,     \* history: threads have met where the code does not keep them apart
          member,   \* mTcpTransport, mProxyTransport, mTlsTransport and mWsTransport that are set
          layers,   \* per transport, its state; "none" before it is made
          heard,    \* the callbacks that are set: of states, and "recv" of messages
          reads,    \* the transports that receive from the one below
          tcp,      \* the TCP transport's socket and send queue
          inbox,    \* the TLS transport's mIncomingQueue
          ws,       \* the WebSocket transport: mCloseSent, mOutstandingPings, mPartial
          peer,     \* the other end
          app,      \* the application and its callbacks
          run,      \* per thread, the steps it has still to take
          tasks,    \* calls in the thread pool
          timers,   \* the timers that are armed
          torn      \* the transports the teardown thread has

kept == <<state, member, heard>>
control == <<race, kept>>
lower == <<tcp, inbox, tasks, timers, torn>>
vars == <<setup, control, layers, reads, lower, ws, peer, app, run>>

Threads == {"app", "poll", "pool", "timer", "teardown"}
Nobody == "nobody"
Layers == {"tcp", "proxy", "tls", "ws"}

Above(l) == CASE l = "tcp" /\ setup.proxy -> "proxy"
              [] l \in {"tcp", "proxy"} /\ setup.tls -> "tls"
              [] OTHER -> "ws"
Under(l) == CASE l = "ws" /\ setup.tls -> "tls"
              [] l \in {"ws", "tls"} /\ setup.proxy -> "proxy"
              [] OTHER -> "tcp"

\* Steps: what to do, at which transport, with what.
Item(kind, number) == [kind |-> kind, number |-> number, parts |-> <<>>]
Step(do, l, item) == [do |-> do, at |-> l, item |-> item]
On(do, l) == Step(do, l, Item("", 0))
Do(do) == On(do, "")
Enter(l, s) == Step("enter", l, Item(s, 0))
In(l, kind) == Step("in", l, Item(kind, 0))
RemoteClose == <<Do("close"), Do("closeTransports")>>

This(t) == Head(run[t])
At(t, do) == run[t] # <<>> /\ This(t).do = do

\* A thread is in a callback until it has taken the step that leaves it.
Inside(callback) == {t \in Threads : \E i \in DOMAIN run[t] : run[t][i] = On("leave", callback)}
Left(steps) ==
    LET more == {i \in DOMAIN steps : steps[i].do # "leave"}
    IN  IF more = {} THEN <<>> ELSE SubSeq(steps, CHOOSE i \in more : \A j \in more : i <= j, Len(steps))

GoesOn(t, steps) == run' = [run EXCEPT ![t] = Left(steps)]
Continue(t, first) == GoesOn(t, first \o Tail(run[t]))
Starts(t, steps) == run[t] = <<>> /\ run' = [run EXCEPT ![t] = steps]

Init ==
    /\ setup \in Setups
    /\ state = "Closed" /\ race = FALSE /\ member = {}
    /\ layers = [l \in Layers |-> "none"] /\ heard = {} /\ reads = {}
    /\ tcp = Socket(Room) /\ inbox = <<>>
    /\ ws = [closeSent |-> FALSE, pings |-> 0, partial |-> <<>>]
    /\ peer = [answered |-> {}, arrivals |-> 0, sent |-> 0, begun |-> FALSE, closed |-> FALSE]
    /\ app = [begun |-> FALSE, called |-> FALSE, sent |-> 0, told |-> <<>>, stored |-> {},
              callbacks |-> IF setup.server THEN {} ELSE {"open", "message", "closed"},
              triggered |-> FALSE, received |-> <<>>]
    /\ run = [t \in Threads |-> <<>>]
    /\ tasks = <<>> /\ timers = {}
    /\ torn = [taken |-> {}, phase |-> "none"]

\* What is sent to a transport gets out: every one of its states lets it, and the socket.
Carries(l) ==
    /\ tcp.sock = "up" /\ layers["tcp"] = "Connected"
    /\ setup.proxy /\ l \in {"proxy", "tls"} => layers["proxy"] = "Connected"
    /\ setup.tls /\ l = "tls" => layers["tls"] = "Connected"

\* The poll thread flushes the queue without mSendMutex.
Flushing == At("poll", "give")

\* A thread sends, and goes on with these steps.  Who leaves messages in the queue
\* has the poll service wait for room, under mSendMutex: the poll thread at once,
\* any other one when the poll thread is idle.
Send(t, message, steps) ==
    /\ tcp.owner = Nobody
    /\ race' = Flushing
    /\ LET next == Sent(tcp, message)
       IN  \/ next.queue = <<>> /\ tcp' = next /\ GoesOn(t, steps)
           \/ /\ next.queue # <<>> /\ t = "poll"
              /\ tcp' = [next EXCEPT !.poll = "both"] /\ GoesOn(t, steps)
           \/ /\ next.queue # <<>> /\ t # "poll"
              /\ tcp' = [next EXCEPT !.owner = t] /\ GoesOn(t, <<Do("setPoll")>> \o steps)

SetPoll(t) ==
    /\ At(t, "setPoll") /\ run["poll"] = <<>>
    /\ tcp' = [tcp EXCEPT !.poll = "both", !.owner = Nobody]
    /\ Continue(t, <<>>)
    /\ UNCHANGED <<setup, control, layers, reads, inbox, tasks, timers, torn, ws, peer, app>>

-----------------------------------------------------------------------------
(***************************************************************************)
(* The application's callbacks (impl/channel.cpp).  What is told before a  *)
(* callback is set is told when it is.                                     *)
(***************************************************************************)
Tell(what) ==
    IF what \in app.callbacks
    THEN [app EXCEPT !.told = Append(@, Item(what, 0))]
    ELSE [app EXCEPT !.stored = @ \cup {what}]

TellClosed(t) ==
    /\ At(t, "tellClosed")
    /\ app' = Tell("closed")
    /\ Continue(t, <<>>)
    /\ UNCHANGED <<setup, control, layers, reads, lower, ws, peer>>

TriggerOpen(t) ==
    /\ At(t, "triggerOpen")
    /\ app' = [Tell("open") EXCEPT !.triggered = TRUE]
    /\ Continue(t, <<Do("deliver")>>)
    /\ UNCHANGED <<setup, control, layers, reads, lower, ws, peer>>

\* flushPendingMessages: a message is taken from mRecvQueue, and then told.
Deliver(t) ==
    /\ At(t, "deliver")
    /\ IF app.triggered /\ "message" \in app.callbacks /\ app.received # <<>>
       THEN /\ app' = [app EXCEPT !.received = Tail(@)]
            /\ race' = (\E u \in Threads \ {t} : At(u, "message"))
            /\ Continue(t, <<Step("message", "", Head(app.received)), Do("deliver")>>)
       ELSE Continue(t, <<>>) /\ UNCHANGED <<app, race>>
    /\ UNCHANGED <<setup, state, member, heard, layers, reads, lower, ws, peer>>

TellMessage(t) ==
    /\ At(t, "message")
    /\ app' = [app EXCEPT !.told = Append(@, This(t).item)]
    /\ Continue(t, <<>>)
    /\ UNCHANGED <<setup, control, layers, reads, lower, ws, peer>>

\* onOpen and onClosed, onMessage.
SetCallback(t) ==
    /\ At(t, "set")
    /\ LET what == This(t).item.kind
       IN  /\ app' = [app EXCEPT !.callbacks = @ \cup {what}, !.stored = @ \ {what},
                                 !.told = IF what \in app.stored THEN Append(@, Item(what, 0)) ELSE @]
           /\ Continue(t, IF what = "message" THEN <<Do("deliver")>> ELSE <<>>)
    /\ UNCHANGED <<setup, control, layers, reads, lower, ws, peer>>

\* WebSocket::incoming, for a message or for the end, unless closeTransports has
\* taken the callback away.
Incoming(t) ==
    /\ At(t, "up")
    /\ IF "recv" \in heard
       THEN /\ Inside("recv") \subseteq {t}
            /\ LET end == This(t).item.kind = "end"
               IN  /\ app' = IF end THEN app ELSE [app EXCEPT !.received = Append(@, This(t).item)]
                   /\ Continue(t, (IF end THEN RemoteClose ELSE <<Do("deliver")>>) \o <<On("leave", "recv")>>)
       ELSE Continue(t, <<>>) /\ UNCHANGED app
    /\ UNCHANGED <<setup, control, layers, reads, lower, ws, peer>>

-----------------------------------------------------------------------------
(***************************************************************************)
(* The callbacks of the transports' states, each under a lock.             *)
(***************************************************************************)
Reaction(l, s) ==
    CASE s = "Connected" /\ l # "ws" -> <<On("init", Above(l))>>
      [] s = "Connected" /\ l = "ws" /\ state = "Connecting" -> <<Do("setOpen")>>
      [] s = "Failed" -> RemoteClose
      [] s = "Disconnected" /\ (l = "ws" \/ state = "Connecting") -> RemoteClose
      [] OTHER -> <<>>

Call(t) ==
    /\ At(t, "enter")
    /\ LET l == This(t).at
       IN  IF l \in heard
           THEN /\ Inside(l) \subseteq {t}
                /\ Continue(t, Reaction(l, This(t).item.kind) \o <<On("leave", l)>>)
           ELSE Continue(t, <<>>)
    /\ UNCHANGED <<setup, control, layers, reads, lower, ws, peer, app>>

\* The state was looked at in the callback: it may have changed since.
SetOpen(t) ==
    /\ At(t, "setOpen")
    /\ race' = (state = "Closed")
    /\ state' = "Open"
    /\ Continue(t, IF state = "Open" THEN <<>> ELSE <<Do("triggerOpen")>>)
    /\ UNCHANGED <<setup, member, heard, layers, reads, lower, ws, peer, app>>

(***************************************************************************)
(* initProxyTransport, initTlsTransport, initWsTransport: the transport    *)
(* below may have been taken away, and sending may fail; both end in       *)
(* remoteClose.  emplaceTransport looks again when the transport runs.     *)
(***************************************************************************)
InitTransport(t, l, callbacks) ==
    /\ At(t, "init") /\ This(t).at = l
    /\ IF Under(l) \notin member
       THEN Continue(t, RemoteClose) /\ UNCHANGED <<layers, heard>>
       ELSE /\ layers' = [layers EXCEPT ![l] = "Disconnected"]
            /\ heard' = heard \cup callbacks
            /\ Continue(t, <<On("store", l), On("start", l)>>)
    /\ UNCHANGED <<setup, state, race, member, reads, lower, ws, peer, app>>

InitProxyTransport(t) == InitTransport(t, "proxy", {"proxy"})
InitTlsTransport(t) == InitTransport(t, "tls", {"tls"})
InitWsTransport(t) == InitTransport(t, "ws", {"ws", "recv"})

Store(t) ==
    /\ At(t, "store")
    /\ member' = member \cup {This(t).at}
    /\ Continue(t, <<>>)
    /\ UNCHANGED <<setup, state, race, heard, layers, reads, lower, ws, peer, app>>

\* A transport that goes stops listening, and stops the one it stands on.
Without(l) == reads \ ({l} \cup ({Under(l)} \ {"tcp"}))
Stopped(l) == IF Under(l) = "tls" \/ l = "tls" THEN Append(inbox, Item("end", 0)) ELSE inbox

\* With a socket that was accepted.
StartTcp(t) ==
    /\ At(t, "start") /\ This(t).at = "tcp" /\ setup.server
    /\ layers' = [layers EXCEPT !["tcp"] = "Connected"]
    /\ Continue(t, <<Enter("tcp", "Connected"), Do("pollIn"), On("check", "tcp")>>)
    /\ UNCHANGED <<setup, control, reads, lower, ws, peer, app>>

Connect(t) ==
    /\ At(t, "start") /\ This(t).at = "tcp" /\ ~setup.server
    /\ layers' = [layers EXCEPT !["tcp"] = "Connecting"]
    /\ Continue(t, <<On("check", "tcp")>>)
    /\ tasks' = Append(tasks, "resolve")
    /\ UNCHANGED <<setup, control, reads, tcp, inbox, timers, torn, ws, peer, app>>

StartTls(t) ==
    /\ At(t, "start") /\ This(t).at = "tls"
    /\ layers' = [layers EXCEPT !["tls"] = "Connecting"]
    /\ reads' = reads \cup {"tls"}
    /\ inbox' = Append(inbox, Item("begin", 0))
    /\ Continue(t, <<On("check", "tls")>>)
    /\ UNCHANGED <<setup, control, tcp, tasks, timers, torn, ws, peer, app>>

\* The proxy's and the WebSocket's begin with a request, but for a server's.
StartWithRequest(t, l) ==
    /\ At(t, "start") /\ This(t).at = l
    /\ layers' = [layers EXCEPT ![l] = "Connecting"]
    /\ IF setup.server \/ Carries(Under(l))
       THEN /\ reads' = reads \cup {l}
            /\ IF setup.server THEN UNCHANGED <<tcp, race>> /\ Continue(t, <<On("check", l)>>)
               ELSE Send(t, Control, <<On("check", l)>> \o Tail(run[t]))
            /\ UNCHANGED <<member, heard, inbox>>
       ELSE /\ reads' = Without(l) /\ inbox' = Stopped(l)
            /\ member' = member \ {l} /\ heard' = heard \ {l}
            /\ Continue(t, RemoteClose)
            /\ UNCHANGED <<tcp, race>>
    /\ UNCHANGED <<setup, state, tasks, timers, torn, ws, peer, app>>

StartProxy(t) == StartWithRequest(t, "proxy")
StartWs(t) == StartWithRequest(t, "ws")

\* Faulty variant: a transport that was started stays.
CheckNothing(t) ==
    /\ At(t, "check")
    /\ Continue(t, <<>>)
    /\ UNCHANGED <<setup, control, layers, reads, lower, ws, peer, app>>

CheckClosed(t) ==
    /\ At(t, "check")
    /\ IF state = "Closed"
       THEN member' = member \ {This(t).at} /\ Continue(t, <<On("drop", This(t).at)>>)
       ELSE Continue(t, <<>>) /\ UNCHANGED member
    /\ UNCHANGED <<setup, state, race, heard, layers, reads, lower, ws, peer, app>>

\* ~TcpTransport; the poll service lets nobody remove a socket while it works.
Unpolled(t) == t = "poll" \/ run["poll"] = <<>>
ClosedSocket == [tcp EXCEPT !.sock = "none", !.poll = "none"]

Drop(t) ==
    /\ At(t, "drop")
    /\ LET l == This(t).at
       IN  IF l = "tcp"
           THEN /\ Unpolled(t) /\ tcp.owner = Nobody
                /\ tcp' = ClosedSocket /\ layers' = [layers EXCEPT !["tcp"] = "Disconnected"]
                /\ UNCHANGED <<reads, inbox>>
           ELSE /\ reads' = Without(l) /\ inbox' = Stopped(l)
                /\ UNCHANGED <<tcp, layers>>
    /\ Continue(t, <<>>)
    /\ UNCHANGED <<setup, control, tasks, timers, torn, ws, peer, app>>

-----------------------------------------------------------------------------
(***************************************************************************)
(* close, remoteClose and closeTransports.                                 *)
(***************************************************************************)
BeginClose(t) ==
    /\ At(t, "close")
    /\ Continue(t, IF state \in {"Connecting", "Open"} THEN <<Do("closing")>> ELSE <<>>)
    /\ UNCHANGED <<setup, control, layers, reads, lower, ws, peer, app>>

\* The state is not looked at again.
ChangeToClosing(t) ==
    /\ At(t, "closing")
    /\ race' = (state = "Closed")
    /\ state' = "Closing"
    /\ Continue(t, IF "ws" \in member THEN <<Do("closeWs")>> ELSE RemoteClose)
    /\ UNCHANGED <<setup, member, heard, layers, reads, lower, ws, peer, app>>

\* Who changes the state to Closed goes on alone.  The proxy's transport stays.
CloseTransports(t) ==
    /\ At(t, "closeTransports")
    /\ state' = "Closed"
    /\ IF state = "Closed" THEN Continue(t, <<>>) /\ UNCHANGED <<member, torn>>
       ELSE /\ member' = member \cap {"proxy"}
            /\ torn' = [torn EXCEPT !.taken = @ \cup (member \ {"proxy"})]
            /\ Continue(t, <<Do("mute"), Do("tellClosed")>>)
    /\ UNCHANGED <<setup, race, heard, layers, reads, tcp, inbox, tasks, timers, ws, peer, app>>

\* Taking the callbacks away waits for the threads in them.
Mute(t) ==
    /\ At(t, "mute")
    /\ LET gone == torn.taken \cup (IF "ws" \in torn.taken THEN {"recv"} ELSE {})
       IN  /\ \A callback \in gone : Inside(callback) \subseteq {t}
           /\ heard' = heard \ gone
    /\ torn' = [torn EXCEPT !.phase = "queued"]
    /\ Continue(t, <<>>)
    /\ UNCHANGED <<setup, state, race, member, layers, reads, tcp, inbox, tasks, timers, ws, peer, app>>

\* The first transport is stopped, and then all of them go.
TearDown ==
    /\ torn.phase = "queued"
    /\ torn' = [torn EXCEPT !.phase = "stopping"]
    /\ Starts("teardown", (IF "ws" \in torn.taken THEN <<Do("closeWs")>> ELSE <<>>) \o <<Do("dropAll")>>)
    /\ IF "tls" \in torn.taken /\ "ws" \notin torn.taken
       THEN reads' = reads \ {"tls"} /\ inbox' = Append(inbox, Item("end", 0))
       ELSE UNCHANGED <<reads, inbox>>
    /\ UNCHANGED <<setup, control, layers, tcp, tasks, timers, ws, peer, app>>

\* Threads that are at work hold references.  TCP stays when a proxy's transport does.
DropAll ==
    /\ At("teardown", "dropAll")
    /\ run["poll"] = <<>> /\ run["pool"] = <<>> /\ tcp.owner = Nobody
    /\ Continue("teardown", <<>>)
    /\ torn' = [torn EXCEPT !.phase = "dropped"]
    /\ reads' = IF torn.taken = {"tcp"} THEN reads ELSE {}
    /\ inbox' = IF "tls" \in torn.taken THEN Append(inbox, Item("end", 0)) ELSE inbox
    /\ IF "proxy" \in member THEN UNCHANGED <<tcp, layers>>
       ELSE tcp' = ClosedSocket /\ layers' = [layers EXCEPT !["tcp"] = "Disconnected"]
    /\ UNCHANGED <<setup, control, tasks, timers, ws, peer, app>>

-----------------------------------------------------------------------------
(***************************************************************************)
(* TcpTransport: resolving and connecting, on the thread pool and the poll *)
(* service's thread.                                                       *)
(***************************************************************************)
TcpFails ==
    /\ layers' = [layers EXCEPT !["tcp"] = "Failed"]
    /\ Starts("pool", <<Enter("tcp", "Failed")>>)

Resolve ==
    /\ tasks # <<>> /\ Head(tasks) = "resolve" /\ run["pool"] = <<>>
    /\ \/ layers["tcp"] # "Connecting" /\ tasks' = Tail(tasks) /\ UNCHANGED <<tcp, layers, run>>
       \/ /\ layers["tcp"] = "Connecting" /\ tasks' = Append(Tail(tasks), "attempt")
          /\ \E n \in 1 .. MaxAddresses : tcp' = [tcp EXCEPT !.left = n]
          /\ UNCHANGED <<layers, run>>
       \/ layers["tcp"] = "Connecting" /\ tasks' = Tail(tasks) /\ TcpFails /\ UNCHANGED tcp
    /\ UNCHANGED <<setup, control, reads, inbox, timers, torn, ws, peer, app>>

\* A socket that is connecting, or none: the next address is tried.
CreateSocket ==
    /\ tcp.left > 0
    /\ \/ /\ run["poll"] = <<>> /\ tasks' = Tail(tasks)
          /\ tcp' = [tcp EXCEPT !.left = @ - 1, !.sock = "connecting", !.poll = "connect"]
       \/ /\ tasks' = Append(Tail(tasks), "attempt")
          /\ tcp' = [tcp EXCEPT !.left = @ - 1]

Attempt ==
    /\ tasks # <<>> /\ Head(tasks) = "attempt" /\ run["pool"] = <<>>
    /\ \/ layers["tcp"] # "Connecting" /\ tasks' = Tail(tasks) /\ UNCHANGED <<tcp, layers, run>>
       \/ /\ layers["tcp"] = "Connecting" /\ tcp.left = 0
          /\ tasks' = Tail(tasks) /\ TcpFails /\ UNCHANGED tcp
       \/ layers["tcp"] = "Connecting" /\ CreateSocket /\ UNCHANGED <<layers, run>>
    /\ UNCHANGED <<setup, control, reads, inbox, timers, torn, ws, peer, app>>

\* The socket is connected, or there is an error or no answer in 10 s; the socket
\* of an attempt that failed is forgotten.
ConnectionMade ==
    /\ tcp.poll = "connect"
    /\ Starts("poll", <<Enter("tcp", "Connected"), Do("pollIn")>>)
    /\ layers' = [layers EXCEPT !["tcp"] = "Connected"]
    /\ tcp' = [tcp EXCEPT !.sock = "up"]
    /\ UNCHANGED <<setup, control, reads, inbox, tasks, timers, torn, ws, peer, app>>

ConnectionRefused ==
    /\ tcp.poll = "connect" /\ run["poll"] = <<>>
    /\ tcp' = [tcp EXCEPT !.sock = "none", !.poll = "none"]
    /\ tasks' = Append(tasks, "attempt")
    /\ UNCHANGED <<setup, control, layers, reads, inbox, timers, torn, ws, peer, app, run>>

PollIn(t) ==
    /\ At(t, "pollIn")
    /\ tcp' = [tcp EXCEPT !.poll = "in"]
    /\ Continue(t, <<>>)
    /\ UNCHANGED <<setup, control, layers, reads, inbox, tasks, timers, torn, ws, peer, app>>

(***************************************************************************)
(* TcpTransport::process, on the poll service's thread.  When there is     *)
(* room, the queue is flushed without mSendMutex.                          *)
(***************************************************************************)
Polled(directions) == tcp.poll \in directions /\ run["poll"] = <<>>

RoomFound ==
    /\ Polled({"both"}) /\ tcp.sock = "up" /\ tcp.room > 0
    /\ Starts("poll", <<Do("flush")>>)
    /\ UNCHANGED <<setup, control, layers, reads, lower, ws, peer, app>>

Peek ==
    /\ At("poll", "flush")
    /\ IF tcp.queue = <<>>
       THEN Continue("poll", <<Do("pollIn")>>) /\ UNCHANGED tcp
       ELSE tcp' = [tcp EXCEPT !.copy = Head(tcp.queue)] /\ Continue("poll", <<Do("give")>>)
    /\ UNCHANGED <<setup, control, layers, reads, inbox, tasks, timers, torn, ws, peer, app>>

\* The message goes, or its rest takes its place; or whatever is there by then.
Give ==
    /\ At("poll", "give")
    /\ IF tcp.sock = "broken"
       THEN Continue("poll", <<Do("tcpEnds")>>) /\ UNCHANGED tcp
       ELSE LET n == Least(tcp.room, Len(tcp.copy))
                rest == SubSeq(tcp.copy, n + 1, Len(tcp.copy))
                others == IF tcp.queue = <<>> THEN <<>> ELSE Tail(tcp.queue)
            IN  /\ tcp' = [tcp EXCEPT !.out = @ \o Recorded(SubSeq(tcp.copy, 1, n)), !.room = @ - n, !.copy = <<>>,
                                      !.queue = IF rest = <<>> \/ @ = <<>> THEN others ELSE <<rest>> \o others]
                /\ Continue("poll", IF rest = <<>> THEN <<Do("flush")>> ELSE <<>>)
    /\ UNCHANGED <<setup, control, layers, reads, inbox, tasks, timers, torn, ws, peer, app>>

\* Nothing came for as long as the ping interval, in which what came before was
\* read: an empty message goes up.  It does something in a connected WebSocket only.
Idle ==
    /\ Polled({"in"}) /\ tcp.sock = "up" /\ "ws" \in reads /\ layers["ws"] = "Connected"
    /\ inbox = <<>> /\ run["pool"] = <<>>
    /\ tcp' = [tcp EXCEPT !.poll = "none"]
    /\ Starts("poll", <<In(Above("tcp"), "idle"), Do("pollIn")>>)
    /\ UNCHANGED <<setup, control, layers, reads, inbox, tasks, timers, torn, ws, peer, app>>

TcpEnds ==
    /\ At("poll", "tcpEnds")
    /\ tcp' = [tcp EXCEPT !.sock = "broken", !.poll = "none"]
    /\ layers' = [layers EXCEPT !["tcp"] = "Disconnected"]
    /\ Continue("poll", <<Enter("tcp", "Disconnected"), In(Above("tcp"), "end")>>)
    /\ UNCHANGED <<setup, control, reads, inbox, tasks, timers, torn, ws, peer, app>>

EndArrives ==
    /\ Polled({"in", "both"})
    /\ \/ tcp.sock = "broken" /\ UNCHANGED peer
       \/ /\ tcp.sock = "up" /\ peer.arrivals < setup.arrivals
          /\ peer' = [peer EXCEPT !.arrivals = @ + 1]
    /\ Starts("poll", <<Do("tcpEnds")>>)
    /\ UNCHANGED <<setup, control, layers, reads, lower, ws, app>>

-----------------------------------------------------------------------------
(***************************************************************************)
(* What arrives at the transports above.  TLS puts it in a queue first,    *)
(* which the thread pool empties.                                          *)
(***************************************************************************)
Queued(t) ==
    /\ At(t, "in") /\ (This(t).at = "tls" \/ This(t).at \notin reads)
    /\ inbox' = IF This(t).at \in reads THEN Append(inbox, This(t).item) ELSE inbox
    /\ Continue(t, <<>>)
    /\ UNCHANGED <<setup, control, layers, reads, tcp, tasks, timers, torn, ws, peer, app>>

TlsReceives ==
    /\ inbox # <<>> /\ inbox' = Tail(inbox)
    /\ Starts("pool", <<Step("read", "tls", Head(inbox))>>)
    /\ UNCHANGED <<setup, control, layers, reads, tcp, tasks, timers, torn, ws, peer, app>>

\* The transport that looks at an item, and the item.
Looks(t, l, kinds) ==
    /\ \/ At(t, "in") /\ l # "tls" /\ l \in reads
       \/ At(t, "read")
    /\ This(t).at = l /\ This(t).item.kind \in kinds

ChangeLayer(t, l, s, then) ==
    /\ layers' = [layers EXCEPT ![l] = s]
    /\ Continue(t, <<Enter(l, s)>> \o then)

\* The answer that a handshake waits for.
HandshakeEnds(t, l) ==
    /\ Looks(t, l, {"answer"}) /\ layers[l] = "Connecting"
    /\ ~(setup.server /\ l = "ws")
    /\ ChangeLayer(t, l, "Connected", <<>>)
    /\ UNCHANGED <<setup, control, reads, lower, ws, peer, app>>

\* The end, a refusal, or a TLS client that cannot begin.
HandshakeFails(t, l) ==
    /\ layers[l] = "Connecting"
    /\ \/ Looks(t, l, {"end"})
       \/ Looks(t, l, {"refusal"}) /\ ~(setup.server /\ l = "ws")
       \/ Looks(t, l, {"begin"}) /\ ~setup.server /\ ~Carries(Under(l))
    /\ ChangeLayer(t, l, "Failed", <<>>)
    /\ UNCHANGED <<setup, control, reads, lower, ws, peer, app>>

EndPasses(t, l) ==
    /\ Looks(t, l, {"end"}) /\ layers[l] = "Connected"
    /\ ChangeLayer(t, l, "Disconnected",
                   <<IF l = "ws" THEN Step("up", "", Item("end", 0)) ELSE In(Above(l), "end")>>)
    /\ UNCHANGED <<setup, control, reads, lower, ws, peer, app>>

\* All else goes up as it is when connected, and is not looked at else.
Passes(t, l) ==
    /\ \/ Looks(t, l, {"answer", "refusal", "begin"}) /\ layers[l] # "Connecting"
       \/ Looks(t, l, {"begin"}) /\ (setup.server \/ Carries(Under(l)))
       \/ Looks(t, l, {"end"}) /\ layers[l] \notin {"Connecting", "Connected"}
       \/ Looks(t, l, {"idle", "whole", "first", "last", "ping", "pong", "close", "unknown"})
    /\ l = "ws" => layers[l] # "Connected"
    /\ Continue(t, IF l # "ws" /\ layers[l] = "Connected" /\ This(t).item.kind # "begin"
                   THEN <<Step("in", Above(l), This(t).item)>> ELSE <<>>)
    /\ UNCHANGED <<setup, control, layers, reads, lower, ws, peer, app>>

Receives(t, l) == HandshakeEnds(t, l) \/ HandshakeFails(t, l) \/ EndPasses(t, l) \/ Passes(t, l)
ProxyReceives(t) == Receives(t, "proxy")
TlsReads(t) == Receives(t, "tls")

(***************************************************************************)
(* WsTransport with a connection: frames and pings, and its close.         *)
(***************************************************************************)
Frame(t, kinds) == Looks(t, "ws", kinds) /\ layers["ws"] = "Connected"

Ping(t) ==
    /\ Frame(t, {"idle"}) /\ Carries(Under("ws"))
    /\ ws' = [ws EXCEPT !.pings = @ + 1]
    /\ IF ws.pings + 1 > MaxOutstandingPings
       THEN /\ layers' = [layers EXCEPT !["ws"] = "Failed"]
            /\ Send(t, Control, <<Enter("ws", "Failed")>> \o Tail(run[t]))
       ELSE Send(t, Control, Tail(run[t])) /\ UNCHANGED layers
    /\ UNCHANGED <<setup, kept, reads, inbox, tasks, timers, torn, peer, app>>

Pong(t) ==
    /\ Frame(t, {"ping"}) /\ Carries(Under("ws"))
    /\ Send(t, Control, Tail(run[t]))
    /\ UNCHANGED <<setup, kept, layers, reads, inbox, tasks, timers, torn, ws, peer, app>>

\* A server answers the request, with an error when it is not what it should be.
RequestArrives(t) ==
    /\ Looks(t, "ws", {"answer", "refusal"}) /\ layers["ws"] = "Connecting" /\ setup.server
    /\ LET s == IF Carries(Under("ws")) /\ This(t).item.kind = "answer" THEN "Connected" ELSE "Failed"
       IN  /\ layers' = [layers EXCEPT !["ws"] = s]
           /\ IF Carries(Under("ws")) THEN Send(t, Control, <<Enter("ws", s)>> \o Tail(run[t]))
              ELSE Continue(t, <<Enter("ws", s)>>) /\ UNCHANGED <<tcp, race>>
    /\ UNCHANGED <<setup, kept, reads, inbox, tasks, timers, torn, ws, peer, app>>

\* A frame that cannot be sent ends the connection.
CannotReply(t) ==
    /\ Frame(t, {"idle", "ping"}) /\ ~Carries(Under("ws"))
    /\ ChangeLayer(t, "ws", "Disconnected", <<Step("up", "", Item("end", 0))>>)
    /\ UNCHANGED <<setup, control, reads, lower, ws, peer, app>>

PongArrives(t) ==
    /\ Frame(t, {"pong"})
    /\ ws' = [ws EXCEPT !.pings = 0]
    /\ Continue(t, <<>>)
    /\ UNCHANGED <<setup, control, layers, reads, lower, peer, app>>

\* A message in one frame, or in several.
DataFrame(t) ==
    /\ Frame(t, {"whole", "first", "last"})
    /\ LET parts == ws.partial \o This(t).item.parts
           begins == This(t).item.kind = "first"
       IN  /\ ws' = [ws EXCEPT !.partial = IF begins THEN parts ELSE <<>>]
           /\ Continue(t, IF begins THEN <<>>
                          ELSE <<Step("up", "", [This(t).item EXCEPT !.kind = "message", !.parts = parts])>>)
    /\ UNCHANGED <<setup, control, layers, reads, lower, peer, app>>

CloseFrame(t) ==
    /\ Frame(t, {"close", "unknown"})
    /\ Continue(t, IF This(t).item.kind = "close" THEN <<Do("closeWs"), Do("wsDown")>> ELSE <<Do("closeWs")>>)
    /\ UNCHANGED <<setup, control, layers, reads, lower, ws, peer, app>>

WsReceives(t) ==
    \/ Receives(t, "ws") \/ RequestArrives(t)
    \/ Ping(t) \/ Pong(t) \/ CannotReply(t) \/ PongArrives(t) \/ DataFrame(t) \/ CloseFrame(t)

CloseWs(t) ==
    /\ At(t, "closeWs")
    /\ IF layers["ws"] # "Connected" \/ ws.closeSent
       THEN Continue(t, <<>>) /\ UNCHANGED <<ws, tcp, timers, race>>
       ELSE /\ ws' = [ws EXCEPT !.closeSent = TRUE]
            /\ IF Carries(Under("ws"))
               THEN Send(t, Control, Tail(run[t])) /\ timers' = timers \cup {"close"}
               ELSE Continue(t, <<Do("wsDown")>>) /\ UNCHANGED <<tcp, timers, race>>
    /\ UNCHANGED <<setup, kept, layers, reads, inbox, tasks, torn, peer, app>>

WsDown(t) ==
    /\ At(t, "wsDown")
    /\ IF layers["ws"] = "Disconnected" THEN Continue(t, <<>>) /\ UNCHANGED layers
       ELSE ChangeLayer(t, "ws", "Disconnected", <<>>)
    /\ UNCHANGED <<setup, control, reads, lower, ws, peer, app>>

\* The time to connect is over, or the time that the other end has to close; both
\* do nothing when it does not matter any more.
ConnectionTimeout ==
    /\ "connect" \in timers /\ state = "Connecting"
    /\ timers' = timers \ {"connect"}
    /\ Starts("timer", RemoteClose)
    /\ UNCHANGED <<setup, control, layers, reads, tcp, inbox, tasks, torn, ws, peer, app>>

CloseTimeout ==
    /\ "close" \in timers /\ torn.phase # "dropped"
    /\ timers' = timers \ {"close"}
    /\ Starts("timer", <<Do("wsDown")>>)
    /\ UNCHANGED <<setup, control, layers, reads, tcp, inbox, tasks, torn, ws, peer, app>>

-----------------------------------------------------------------------------
(***************************************************************************)
(* The application.  A server's gets to know its WebSocket when it runs    *)
(* already.                                                                *)
(***************************************************************************)
Begin(steps) ==
    /\ ~app.begun /\ app' = [app EXCEPT !.begun = TRUE]
    /\ state' = "Connecting" /\ member' = {"tcp"} /\ heard' = {"tcp"}
    /\ layers' = [layers EXCEPT !["tcp"] = "Disconnected"]
    /\ timers' = IF setup.timeout THEN {"connect"} ELSE {}
    /\ Starts("app", <<On("start", "tcp")>> \o steps)
    /\ UNCHANGED <<setup, race, reads, inbox, tasks, torn, ws, peer>>

Open == ~setup.server /\ Begin(<<>>) /\ UNCHANGED tcp

\* WebSocketServer::runLoop, for a socket that was accepted.
Accept ==
    /\ setup.server
    /\ Begin([i \in 1 .. 3 |-> Step("set", "", Item(<<"open", "message", "closed">>[i], 0))])
    /\ tcp' = [tcp EXCEPT !.sock = "up"]

Calls(call, steps) ==
    /\ app.begun /\ ~app.called /\ setup.call = call
    /\ app' = [app EXCEPT !.called = TRUE]
    /\ Starts("app", steps)
    /\ UNCHANGED <<setup, control, layers, reads, lower, ws, peer>>

Close == Calls("close", <<Do("close")>>)
ForceClose == Calls("forceClose", RemoteClose)

\* outgoing; in any other state it throws.
SendMessage ==
    /\ app.sent < setup.sends /\ run["app"] = <<>>
    /\ state = "Open" /\ "ws" \in member /\ layers["ws"] = "Connected" /\ Carries(Under("ws"))
    /\ app' = [app EXCEPT !.sent = @ + 1]
    /\ Send("app", Message(app.sent + 1), <<>>)
    /\ UNCHANGED <<setup, kept, layers, reads, inbox, tasks, timers, torn, ws, peer>>

-----------------------------------------------------------------------------
(***************************************************************************)
(* The other end.                                                          *)
(***************************************************************************)
\* It answers the handshake that waits for it, or refuses.
Answers ==
    \E l \in {"proxy", "tls", "ws"} \cap reads :
        /\ layers[l] = "Connecting" /\ l \notin peer.answered
        /\ peer' = [peer EXCEPT !.answered = @ \cup {l}]
        /\ \E kind \in {"answer", "refusal"} : Starts("poll", <<In(Above("tcp"), kind)>>)

Sends(kind, parts, next) ==
    /\ "ws" \in peer.answered /\ ~peer.closed /\ peer.arrivals < setup.arrivals
    /\ peer' = [next EXCEPT !.arrivals = @ + 1]
    /\ Starts("poll", <<Step("in", Above("tcp"), [kind |-> kind, number |-> next.sent, parts |-> parts])>>)

Arrives ==
    /\ Polled({"in", "both"}) /\ tcp.sock = "up"
    /\ \/ Answers
       \/ ~peer.begun /\ Sends("whole", <<1, 2>>, [peer EXCEPT !.sent = @ + 1])
       \/ ~peer.begun /\ Sends("first", <<1>>, [peer EXCEPT !.begun = TRUE, !.sent = @ + 1])
       \/ peer.begun /\ Sends("last", <<2>>, [peer EXCEPT !.begun = FALSE])
       \/ \E kind \in {"ping", "pong", "unknown"} : Sends(kind, <<>>, peer)
       \/ Sends("close", <<>>, [peer EXCEPT !.closed = TRUE])
    /\ UNCHANGED <<setup, control, layers, reads, lower, ws, app>>

Breaks ==
    /\ tcp.sock = "up" /\ peer.arrivals < setup.arrivals
    /\ tcp' = [tcp EXCEPT !.sock = "broken"]
    /\ peer' = [peer EXCEPT !.arrivals = @ + 1]
    /\ UNCHANGED <<setup, control, layers, reads, inbox, tasks, timers, torn, ws, app, run>>

TakesMore ==
    /\ tcp.room = 0 /\ tcp' = [tcp EXCEPT !.room = Room]
    /\ UNCHANGED <<setup, control, layers, reads, inbox, tasks, timers, torn, ws, peer, app, run>>

-----------------------------------------------------------------------------
Goes(t) ==
    \/ TellClosed(t) \/ TriggerOpen(t) \/ Deliver(t) \/ TellMessage(t) \/ SetCallback(t) \/ Incoming(t)
    \/ Call(t) \/ SetOpen(t)
    \/ InitProxyTransport(t) \/ InitTlsTransport(t) \/ InitWsTransport(t) \/ Store(t)
    \/ StartTcp(t) \/ Connect(t) \/ StartProxy(t) \/ StartTls(t) \/ StartWs(t) \/ CheckClosed(t) \/ Drop(t)
    \/ BeginClose(t) \/ ChangeToClosing(t) \/ CloseTransports(t) \/ Mute(t) \/ PollIn(t) \/ SetPoll(t)
    \/ Queued(t) \/ ProxyReceives(t) \/ TlsReads(t) \/ WsReceives(t) \/ CloseWs(t) \/ WsDown(t)

PollGoes == \/ Goes("poll") \/ Peek \/ Give \/ TcpEnds
            \/ RoomFound \/ (tcp.sock = "broken" /\ EndArrives)
Connects == ConnectionMade \/ ConnectionRefused
PoolGoes == Goes("pool") \/ Resolve \/ Attempt \/ TlsReceives
TearDownGoes == Goes("teardown") \/ TearDown \/ DropAll
TimerGoes == Goes("timer") \/ ConnectionTimeout \/ CloseTimeout

\* What follows a race is undefined, or told twice or in another order.  Nothing
\* is claimed of it, and the model stops there.
Next ==
    /\ ~race
    /\ \/ Goes("app") \/ PollGoes \/ Connects \/ PoolGoes \/ TearDownGoes \/ TimerGoes
       \/ EndArrives \/ Idle \/ Open \/ Accept \/ Close \/ ForceClose \/ SendMessage
       \/ Arrives \/ Breaks \/ TakesMore

\* Threads go on, timers fire, connecting and idling come to an end.
Fairness ==
    /\ WF_vars(~race /\ (Goes("app") \/ Open \/ Accept))
    /\ WF_vars(~race /\ PollGoes)
    /\ WF_vars(~race /\ Connects)
    /\ WF_vars(~race /\ PoolGoes)
    /\ WF_vars(~race /\ TearDownGoes)
    /\ WF_vars(~race /\ TimerGoes)
    /\ WF_vars(~race /\ Idle)
    /\ WF_vars(~race /\ TakesMore)

Spec == Init /\ [][Next]_vars /\ Fairness

-----------------------------------------------------------------------------
(***************************************************************************)
(* Properties.                                                             *)
(***************************************************************************)
Told(what) == Len(SelectSeq(app.told, LAMBDA item : item.kind = what))

\* The application is told once that the WebSocket is open, then its messages,
\* each whole, in the order they were sent, then once that it is closed.
ToldInOrder ==
    LET numbers == SelectSeq(app.told, LAMBDA item : item.kind = "message")
    IN  /\ Told("open") <= 1 /\ Told("closed") <= 1
        /\ \A i \in DOMAIN app.told :
              /\ app.told[i].kind = "open" => i = 1
              /\ app.told[i].kind = "closed" => i = Len(app.told)
              /\ app.told[i].kind = "message" => app.told[1].kind = "open"
        /\ \A i \in DOMAIN numbers : numbers[i].number = i /\ numbers[i].parts = <<1, 2>>

\* What the application has sent goes out once and in order.
StreamIsIntact ==
    \A i \in DOMAIN tcp.out : tcp.out[i] = [message |-> (i + 1) \div 2, part |-> 2 - (i % 2)]

\* Both ways messages go whole, once and in order, between open and closed, until
\* threads meet where the code does not keep them apart.
MessagesInOrder == race \/ (ToldInOrder /\ StreamIsIntact)

\* A WebSocket ends: the application is told, and the transports and the socket go,
\* a proxy's but for.  It does not when the other end is silent while it connects,
\* and there is no timeout or close() was called during the last handshake; nor
\* when a thread that sends and the poll thread wait for each other's mutex.
Ended ==
    /\ state = "Closed" /\ Told("closed") = 1 /\ member \subseteq {"proxy"}
    /\ ~setup.proxy => tcp.sock = "none" /\ tcp.poll = "none" /\ reads = {}
Abandoned ==
    \/ state = "Connecting" /\ ~setup.timeout
    \/ state = "Closing" /\ layers["ws"] = "Connecting"
Deadlocked == tcp.owner # Nobody /\ run["poll"] # <<>>
WebSocketEnds == <>[](race \/ Abandoned \/ Deadlocked \/ Ended)
=============================================================================
