# Models and proofs for the Raspberry Pi video and station system

This directory keeps TLA+ models of the repository's programs, the TLC
configurations that check them, and proofs that the TLA+ proof system checks.
Paths are relative to the repository root, of which `src/` is the content; `ldc/`
abbreviates `src/project_0321plus/webrtc-gateway/libdatachannel/src/`.

Contents: 1 The system, 2 Modules, 3 Runs, bounds and fairness, 4 What the code
does that no property claims, 5 Proofs, 6 Not modelled, 7 Plan.

## 1. The system

A Raspberry Pi captures MJPEG from a camera, keeps the latest frame in shared
memory and shows it in a browser, over WebRTC data channels or over a WebSocket.
Beside the video it samples its own health, and an experimental "industrial
station" commands a simulated actuator over Modbus TCP. The WebRTC side is
libdatachannel, whose source is part of the repository and by far its largest
part.

| Component | Source | State | Operations |
| --- | --- | --- | --- |
| video capture | `src/project_0321plus/video-processor/src/main.cpp` | camera buffers, frame counter, write sequence, the frame slot `/video_shm` | open, clear, drain, publish, stop after faults, restart by the supervisor |
| WebRTC gateway | `src/project_0321plus/webrtc-gateway/src/main.cpp` | last frame sent, signaling queue, peer connection, restart flag | read a stable header, copy and check, send fragments, negotiate, recycle itself |
| peer connection | `ldc/impl/peerconnection.cpp`, `ldc/peerconnection.cpp` | states, three transports, descriptions, tracks, data channels, processor queue | make transports from callbacks, negotiate, add and remove, dispatch media, close |
| descriptions | `ldc/description.cpp` | lines, codecs, sources, candidates | parse, generate, add, reciprocate, remove |
| ICE, DTLS, TLS | `ldc/impl/icetransport.cpp`, `dtlstransport.cpp`, `tlstransport.cpp`, `dtlssrtptransport.cpp` | state, incoming queue, pending calls, timers, keys | handshake, receive, time out, demultiplex, stop |
| SCTP and channels | `ldc/impl/sctptransport.cpp`, `datachannel.cpp`, `channel.cpp` | send queue, buffered amounts, streams | send, flush, open, acknowledge, close, reset |
| WebSocket | `ldc/impl/websocket.cpp`, `wstransport.cpp`, `tcptransport.cpp`, `httpproxytransport.cpp` | state, four transports, socket, send queue, pings | connect, handshake, send, receive, ping, close, time out, tear down |
| signaling server | `src/signaling-server/server.js` | gateway and viewer sockets, last offer, candidates, "session used" | connect and replace, relay, replay an offer, reset |
| latest source / session | `src/signaling-server/latest-source.js`, `latest-session.js` | open file; credits in flight, last publication | read and verify a frame; pump, request, wait |
| viewer page | `src/signaling-server/public/*` | peer connection, latest publication, retry timer, renderer, fragment assembler | answer, request, receive, assemble, decode, discard, reconnect |
| monitoring | `src/monitoring/*` | alarm counters, pending evidence, SQLite rows | sample, debounce, collect context, retain |
| station device | `src/industrial_station/model.py`, `simulator.py` | position, motion, owner and lease, sequence cache, alarm, faults | tick, execute, keepalive, registers, restart |
| station gateway | `src/industrial_station/gateway.py`, `store.py` | session, sequence, armed, last sample, command records | poll, submit, fail, start, close |

How they meet:

* capture and its two readers share memory with no lock, only a sequence
  counter; readers never write;
* the gateway's main thread, libdatachannel's processors, its transports'
  threads and its timers call into one peer connection; callbacks run on any;
* the Node server relays offers, answers and candidates between the gateway and
  one page at a time; frames then go in fragments over an unreliable channel;
* the Node server and the page exchange requests and frames over one WebSocket
  when WebRTC is not used;
* the station gateway writes command and keepalive blocks and reads status
  registers; the device never calls back, and the registers carry command
  numbers but no sessions.

What is hard in it: the shared slot is overwritten while it is read; either end
of every link may restart, and counters start again; pages and gateways replace
each other while messages for them are under way; transports are made by
callbacks on threads of their own while another thread closes the connection;
both ends add things while an answer is on its way; Modbus answers are lost
after the command was executed, and blocks arrive late; a lease, a deadline, a
time limit and a retirement run against each other on one clock; credits must
neither be lost nor multiplied by retries. `PROJECT.json` lists these as hazards,
each at its line, with the properties that would notice.

What makes the components correct, in short:

* device: a command moves the actuator at most once; nothing moves without a
  valid lease or beyond the limit of a leg; results are final;
* station gateway: what it records is what happened or "unknown"; nothing is
  unsettled for ever;
* shared frame: a released frame is one publication of one picture, and newer;
* latest session: transit is bounded by credits, the newest frame is shown in
  the end;
* rendezvous: a gateway hears one page, a consumed offer is not given away
  again, the page that stays is connected;
* frames over WebRTC: the image is one whole publication, never an older one,
  and what waits in the sender is bounded and leaves;
* monitoring: alarms are debounced, evidence is true and complete in the end;
* peer connection: nothing outlives it, its last report is Closed, no end of it
  is lost; negotiation ends, and then the two ends agree and media flows;
* channels and sockets: messages arrive whole, once and in order; what is
  closed at one end closes at the other and frees what it held.

## 2. Modules

### Station (`Station`, `StationProperties`, `MCStation`)

`Station` models `model.py` behind the access handler of `simulator.py`. The
object is one record, `station`, with the fields of the class; a method is an
operator from record to record, and a handler is an action: at some instant `t`
not before the last handler, `tick()` and then the method run without
interruption, as they do in one asyncio task. `TickOrRead` is the 10 ms ticker
or a status read, `WriteCommand` and `WriteKeepalive` are the writes (answered
DEVICE_BUSY after a tick while COMM_SILENT lasts), and `Restart` is the process.
`execute()` keeps its checks in the order of the code; `Refusal` rejects without
remembering, `Denial` rejects and spends the number.

Abstracted: the position (home, between, extended), durations that are only
reported, the tick counter, 32-bit packing, and numeric parameters, which are
names. `started` is a history variable: the blocks that started a motion.

Times are small numbers of units. The runs keep the relations the code has:
a leg is shorter than its limit, a slowed leg longer; the lease is short enough
to run out within a leg and can be renewed; the horizon of deadlines and the
retirement are equal (both 5000 in the code), and the proofs need only
`HorizonMs <= RetireMs`. `MCStation` chooses between two scenarios at the start:
"motion" is one operator with every action and fault, "authority" two sessions
that race for the device.

### Device and StationRefinement

`Device` is the abstract promise of the device to whoever commands it: owner,
high-water mark, one motion, acknowledgement and last end. Time and mechanics
are nondeterministic. `StationRefinement` maps `station` to it;
`ImplementsDevice` (`Abstract!DeviceSpec`) says each handler of the real device is one
step of the abstract one: what happens while the clock advances, then one block,
then what the final tick does.

### StationLink (`MCStationLink`)

The gateway on top of `Device`: `gateway` holds the fields of `Gateway` and its
records, `stray` the blocks of failed calls that are still on their way, and
`verdicts` is history, the answers the device really gave. `io_lock` makes
`poll()` a single step (`Poll`, `PollFails`, `KeepaliveFails`); `submit()` is
cut where it awaits: `Submit`, then `Delivered` or `WriteFails`, then `ReadBack`
or `ReadBackFails`, so that the device may move on, restart or lose its owner in
between. `Late` lets blocks of failed writes arrive afterwards. Sessions are
random 32-bit numbers in the code; here each is new.

### SharedFrame

The capture with the buffers of its camera, the slot `/video_shm`, and one
reader of either kind, one memory access per action. The camera fills the
buffers it has been given and keeps them in order; `WaitForFrame`, `Dequeue`,
`Drain`, `ReturnBuffer` are the calls of the capture loop, which takes the newest
of what is filled and gives a buffer back only when its picture is published.
Stores between the two release fences land in any order, and a process that dies
leaves a prefix of its program; the memset of a starting capture clears the
header chunk by chunk outside the sequence lock. The gateway loads the header
copy in any order, the Node server in ascending 16-byte chunks as a file read
does. "Whole" is: every part carries one number of a publication, and both halves
of the data the picture of that publication. Readers do not write, so one
reader at a time suffices. The capture may stop anywhere, which stands for its
five timeouts and faults; a start that fails is invisible to the readers.

Two timing facts are assumptions of the model and visible in it: a gateway
pass (milliseconds) does not span the restart of the capture (seconds)
(`BetweenPasses`), and the gateway's 100 ms staleness test rejects what was
published before a restart. Section 4 says what happens without the first.

### VideoChannel

The way of a frame from the gateway to the image: the sending loop with its
watermark, `SctpTransport` with one queue for both channels, its buffered
amount, its flush task and the upcall of usrsctp, a network that loses and
reorders on the video channel, and the page's `Assembler` across a restart of
the capture. usrsctp is external: it takes `Room` messages and then would
block; delivery and the acknowledgement that makes room are one step. Sizes are
counted in fragments. `RanLong` says when a restart can be told from a wrap of
the numbers: the first capture got further than the second one does here.

### LatestSession

`latest-session.js` and the page's `connectLatest` with `LatestRenderer`, with
the two directions of the socket as queues. Flow modes `decode`, `receive`
and `window2` are chosen initially. Reads may fail, notices may be dropped
(`sendJson` with a full buffer), the connection may break, `setTimeout` may be
overwritten so that the old timer can no longer be cleared (`stray`).

### Rendezvous

The relay of `server.js` between the lives of the gateway process and the loads
of the page. A gateway connects, sends its offer and candidates, hears answers,
streams, and recycles itself when its session ends; pages open, replace each
other and leave; the server restarts. Every socket is a queue that a close ends
for good, and nothing orders two sockets. That a broken media path is seen by
both ends is a fault (`MediaFails`) that the model lets happen when nothing else
is on its way (`Quiet`).

### Evidence

The observer, the alarm engine and the store. A sample begins with one action: it
is added to the pending contexts, the full ones are written, and the engine decides on
all its rules, with no await in between. Then there is one action for the event of
each transition, in the order of the rules, as the picture is read before each, and
one for the commit of the sample. Any store call may fail, and the process may be
cancelled where it awaits or die anywhere. A reading is what the rules tell apart
(past the limit, clear, between, missing). Left out: `recent` and the samples
before an event, retention of images and samples, the HTTP API, the sensors.

### PeerConnection

How the gateway's connection comes up and ends. A thread is the list of steps it
has still to take, each one atomic access or one lock; a transport's callback
puts the steps of the next transport's making before the rest. The agent of
libnice is its own source of states, with the timer that delays its failure; the
page's answer never ends its candidates, so that timer always runs its 30 s.
ICE was started with the local description before. Transports taken
away may still call until they are muted. One data channel stands for the
gateway's two. `MainExits` is main's return after the channel has opened; the
restart of the session is `_Exit` and needs no step. The separate thread that
frees closed transports can be heard by nobody and is left out.

### Negotiation and Description (`MCNegotiation`)

`Description` is `description.cpp` as operators on records: entries with
direction, codecs, header extensions and sources; parsing what was generated,
adding, reciprocating, removing. `Negotiation` has both ends of a connection,
each with an application thread, the signaling thread, the reports of its
processor and its agent: local and remote descriptions and their checks, the
roll-back of an offer, candidates, when an answer or an offer is needed, tracks
that are opened, given up and found again, DTLS-SRTP or DTLS, and which track
gets what arrives. `refused` records that a call has thrown. The viewer's
browser is stood for by the same library.

Bounded or abstracted: the ends offer in turns (a plan per end, the viewer's
after the gateway's); the gateway drops a report when signaling is not
connected; candidates are numbers and an agent without any never ends its
gathering; DTLS needs one candidate given at either end, and its handshake
completes at both in one step. Media handlers, retransmission streams and rids
are left out.

### SecureTransport

`DtlsTransport` and `TlsTransport` in their three variants (GnuTLS, Mbed TLS,
OpenSSL), chosen initially with what the peer sends: the thread below pushes
into a bounded queue and asks for a call of `doRecv` unless one is pending, workers
run the calls one at a time, the handshake's timer asks for more, the application
closes whenever it likes. `pending` counts as `mPendingRecvCount` does. DTLS-SRTP's
demultiplexing and keys are part of it.

### DataChannel

Data channels of both ends over one association: streams assigned by parity of
the DTLS role when the transports are up, open and acknowledge, messages, closing,
resets in both directions, and a stream that is used again. Each end has three
threads: application, SCTP's processor, the connection's processor. `open`,
`outgoing` and `close` are taken apart where they give up the lock of the channel:
`SetTransport` and `Request`, `BeginSend` and `EndSend`, and for `close` `LookUp` (the
transport, 100-104), `Exchange` (`mIsClosed`, 106) and `ResetStream` (107). A look that
finds a transport has no step of its own: the transport stays once it is there, so
the look may as well come with the exchange. usrsctp keeps the order of a stream and
loses nothing; the queue in front of it is VideoChannel's subject. Here only resets
ever wait in it, and whatever is sent next flushes them first, so `closeStream` puts
them on the wire, where they can wait as well.

### WebSocket and TcpTransport (`MCWebSocket`)

`impl::WebSocket` as client and as accepted end, over TCP, perhaps through an
HTTP proxy, perhaps with TLS: five threads (application, poll service, pool,
timers, teardown), each a list of steps. `TcpTransport` is the send queue with
partial writes. A socket takes `Room` units before it would block; TCP bytes
arrive as whole frames; muting the callbacks of the transports that are
taken away is one step. Where two threads meet without anything to keep them
apart, the model records `race` and stops, because what C++ does then is
undefined or depends on the build; the properties claim nothing of it.

## 3. Runs, bounds and fairness

| Run | Bounds | What it shows |
| --- | --- | --- |
| `station` | two scenarios; 2 sessions, 2 boots, 6 units of time, lease 2, cache 1 | the inductive invariant itself, mechanics and authority, replays after eviction and lease loss, finality of results, the refinement to `Device` |
| `station_link` | 2 boots, 2 sessions, 3 numbers, late blocks | records against verdicts, ends of motions never misattributed, settlement (liveness) |
| `shared_frame` | 2 buffers, 3 pictures, 3 publications, 2 starts | whole frames of one picture, in order, through a restart |
| `video_channel` | 3 publications, 2 starts, 2 fragments, watermark 0, room 2, numbers modulo 16 starting at 3 or 15 | whole and newer images, a bounded and draining queue |
| `latest_session` | 4 publications, 2 failed reads, 1 lost connection, three flows | credits, order, liveness, no deadlock |
| `rendezvous` | 2 pages, 5 gateway lives, 1 fault | one page per session, no replay, service in the end |
| `evidence` | 2 alarms, 3 following samples, 2 events kept, 3 transitions, 1 failure, 2 runs | debouncing, true contexts, settlement |
| `peer_connection` | 4 events of the network | closing against making, reports, no lost end |
| `negotiation` | 2 plans of three additions or removals, 1 candidate | agreement, media, stable lines, an end of negotiating |
| `secure_transport` | 2 handshake messages, queue of 2, 4 arrivals, 1 timer call | reading, reports, stopping, in six variants |
| `data_channel` | 2 channels of one end, one of them unordered; 2 messages or closes | opening, delivery, closing, reuse of streams |
| `websocket` | 11 setups; 1 address, room 2, 1 ping outstanding | messages whole and in order, an end of everything |

The largest explores 1 203 415 distinct states (`data_channel`); all finish within two
and a half minutes on two workers.

Why the bounds are enough. *Station*: one unit of time is the smallest difference
the code can make between two timers, a cache of one entry evicts at the first
chance, two sessions with two numbers each already contain every collision of
numbers, and the horizon is reached within the explored time; the proofs
carry the main results to all values. In the motion scenario handlers come at
every unit, as the ticker does. *StationLink*: a third number is needed for
ARM, MOVE and STOP in one session; a second session for a confusion between
two. *SharedFrame*: two starts with the same counter need two publications, a
third shows the order; with two buffers one is drained while the other is read.
*VideoChannel*: one id below and one at the wrap, a capture that restarts, a
frame of one and of two fragments, and a queue that is longer than what usrsctp
takes. *LatestSession*: window 2 with a pending, a rendering and a travelling
frame needs four. *Rendezvous*: two pages replace each other, and five lives let
each change and the fault recycle the gateway. *Evidence*: two events kept
and three raised is one eviction while a context is open. *PeerConnection*: the
three transports come up with three events, the fourth ends one of them at any
point. *Negotiation*: the plans make a channel and a track be added while an
answer is on its way, removed and found by the other end's line. *SecureTransport*:
one arrival more than the handshake and a queue that fills. *DataChannel*: two
channels, one of which can take the other's stream. *WebSocket*: the setups
cross the transports with who ends it; room 2 cuts a message in its middle.

`CHECK_DEADLOCK FALSE` where the bounds end the exploration or the modelled life
is over (publications, events or plans are used up, a connection has ended).
`Station` always has a tick left at the last instant and `LatestSession` never
stops, so deadlock is checked there.

### Fairness

Fairness is asked of the program's own threads, of timers that were set, and of
a network that is up; of faults, applications and users it is not. *Station*, *SharedFrame*:
none, only safety is claimed.

* *StationLink*: the poll loop runs (`Poll`), a call is answered or times out
  after 200 ms (`Delivered \/ WriteFails`, `ReadBack \/ ReadBackFails`), and a
  motion ends because every leg has a limit (`MotionEnds`, `model.py:102`).
* *LatestSession*: both event loops run, TCP delivers on a connection that stays,
  timers fire, decoding ends, a closed page socket reconnects (`index.html:514`).
  The camera need not publish.
* *Rendezvous*: the server handles each socket, pages receive, closes are seen,
  the server is started again by its supervisor, a gateway goes on and one that
  has to recycle does, and is started again.
* *VideoChannel*: the gateway's loop, the flush task and the wire; a copy is lost
  or delivered, but leaves.
* *Evidence*: the sampling loop runs and each await returns.
* *PeerConnection*: each thread by itself, the processor, and ICE's timer.
* *Negotiation*: one progress condition: while reports, deliveries or steps
  of threads are possible, one of them happens.
* *SecureTransport*: the thread below, the application's closing thread or the
  teardown it hands over to, the workers, the timers.
* *DataChannel*: one progress condition: while a thread or usrsctp has something to
  do, something of it is done. *WebSocket*: each thread, the TCP connecting, a
  socket that takes more, and the idle timer, as long as there is no race.

## 4. What the code does that no property claims

The properties hold, so no run expects a violation. While modelling, behaviour
was met that a reader of the code should know; it is in the models (or cut off
by a named condition) and is excluded by the properties that would contradict it.

Station and its gateway:

* A rejected ARM may be recorded COMPLETED, because its number is compared with
  the last ended motion of another session (`gateway.py:119`); hence
  `MotionEndsAreTrue` is about motions.
* An ARM whose refusal is overwritten before the read-back stays SENT and blocks
  ARM, and with it everything else, until the link fails or the gateway restarts
  (`gateway.py:170-173`, `model.py:57-59`); a refused STOP can be stranded
  likewise. `MotionsAndSettingsSettle` is claimed of the other commands.

Video:

* The gateway's payload check compares only the sequence counter, which a
  restarted capture repeats (`webrtc-gateway/src/main.cpp:491`). It takes a gateway
  suspended for the whole restart; the Node reader compares the whole header.
* In `window2` a retry after a wait returns a credit before its frame is decoded
  (`index.html:494`).
* A send on a channel that closes at that moment throws out of main
  (`webrtc-gateway/src/main.cpp:500`, `526`) and the container restarts.
* A capture that restarts before it got further than its successor is not
  recognised as restarted (`video-frames.js:56-57`), so late fragments of the old
  one are not held off; `RanLong` excludes it.
* A buffer that cannot be returned to the camera is lost without a report
  (`video-processor/src/main.cpp:412`).

Monitoring: when an update of a context fails, a later sample takes its place, so
the context can hold six ages where the documents say five; a transition whose
event cannot be stored leaves no record.

Peer connection and negotiation (`ldc/impl/peerconnection.cpp`, `ldc/peerconnection.cpp`):

* Reports may be queued in another order than the states changed (1317).
* The check of the signaling state in `createDataChannel` and the offer that
  follows are not one step, and the offer may throw (peerconnection.cpp:307-311).
  The gateway's handler uses the connection before `main` has assigned it and
  makes its second channel beside the signaling thread.
* Offers at both ends: a roll-back keeps the role it had taken (206-213).
* A data channel added after a connection with tracks only fails on a missing
  SCTP transport (1141-1145, peerconnection.cpp:295-297).
* A track closed but still held is offered for ever (1224, `track.cpp:68`); an
  answer to a removed line is not removed while the answerer's track lives
  (967-976); a track added again under a former mid, or under the number of the
  application's line, is never negotiated (801, 1031-1034).
* SRTP is chosen only if there is media in the local description when ICE connects
  (277); `mTrackLines` keeps tracks that are gone, so the shortcut for one
  track (564) stops applying; user callbacks run under `mTracksMutex`.
* The failure of ICE is delayed by its 30 s timer, and only CONNECTED cancels it
  (`icetransport.cpp:800-812`).

Data channels (`ldc/impl/datachannel.cpp`):

* A channel closed while it is being opened may stay open at the other end for ever.
  `close()` looks up the transport, gives up the lock and then exchanges
  `mIsClosed` (100-107): a call that finds none resets nothing, though the
  connection's processor opens the channel in between, or later, as `open` does not
  ask whether it is closed (252-310). `openDataChannels` asks before it comes to the
  first one (`impl/peerconnection.cpp:753`). And `open` gives up the lock before it
  sends the request (308-310), so that the reset may go out first.
  `ClosingReachesBothEnds` excludes just these channels (`late`, which notes a `close`
  without a transport, and a request sent after the reset).
* Between the same two steps of `open` another thread may send a message. It
  arrives before the request, on a stream that the other end has not heard of, and
  the channel is closed (`impl/peerconnection.cpp:508-515`). TLC finds
  `UndisturbedChannelsWork` violated when `Disturbed` does not name it (`ahead`).
* A channel made while SCTP comes up may be opened twice, which the other end
  answers by closing it (`Disturbed`).
* `outgoing()` sends after its lock (182-205); `onOpen` may follow `onClosed`; too
  many channels throw in the midst of the assignment; channels without a stream are
  not closed with the connection.

TLS: GnuTLS over TCP may report Failed after the end; OpenSSL stops reading at any
alert; after the end with GnuTLS or Mbed TLS nobody empties the queue, and 1024
more messages block the thread below.

WebSocket: `close()` loads and exchanges the state in two steps and so races with
the opening (`race`); a thread that sends and the poll thread can wait for each
other's mutex (`Deadlocked`); a peer that is silent during the handshake is waited
for without a timeout, or for ever after `close()` (`Abandoned`); the proxy
transport is never taken down; failed sockets leak when several addresses are
tried (`tcptransport.cpp:209`); with the default of no outstanding pings a
silent peer is never noticed; a server's client can be given callbacks
after it has run.

The two station behaviours were reproduced with the Python classes themselves and
a stubbed Modbus client; the others were read from the code and seen in TLC's
traces where the models reach them.

## 5. Proofs

| Module | Theorem | Property of a run |
| --- | --- | --- |
| `StationProofs` | `Invariance`, `TypeCorrect`, `MovesOnce`, `MotionIsAuthorised`, `CacheKeepsActive`, `ReturnIsLate`, `AlarmStopsMotion` | `Inv`, `EachCommandMovesOnce`, `MotionNeedsLease`, `NoReturnWithinValidity`, `NoMotionOutOfAlarm` |
| `StationProofs`, second part | `DeviceImplemented`, `ResultsStay` | `ImplementsDevice`, `ResultsAreFinal` |
| `RecordProofs` | `LinkInvariance`, `OwnedTrue`, `MotionEndsTrue` | `OwnedResultsAreTrue`, `MotionEndsAreTrue` |
| `SharedFrameProofs` | `SlotInvariance`, `FramesWhole`, `FramesForward` | `FramesAreWhole`, `FramesMoveForward` |
| `VideoChannelProofs` | `ChannelInvariance`, `FrameWhole`, `QueueBounded` | `ShownFrameIsWhole`, `BufferedAmountBoundsTheQueue` |
| `VideoChannelProofs`, second part | `OrderInvariance`, `NoOlder`, `NewCapture` | `NoOlderFrameShown`, `NewCaptureIsShown` |
| `SignalingProofs` | `MeetingInvariance`, `OnePageHeard`, `NoReplay` | `OnePagePerSession`, `ConsumedOfferIsNotReplayed` |
| `SignalingProofs`, second part | `SessionInvariance`, `FramesHoldCredits`, `FramesOnce` | `TransitHoldsCredit`, `EachFrameOnce` |
| `RecordProofs`, second part | `ObserverInvariance`, `AlarmsDebounced`, `ContextsTrue` | `AlarmsAreDebounced`, `ContextsAreTrue` |
| `PeerConnectionProofs` | `ConnectionTyped`, `ClosedIsLast`, `NothingOutlives` | `ClosedIsTheLastReport`, `NothingOutlivesTheConnection` |
| `SecureTransportProofs` | `StoryInvariance`, `ReportsOrdered` | `ReportsAreInOrder` |
| `WebSocketProofs` | `NothingIsLost`, `StreamStaysIntact` | the sending half of `MessagesInOrder` |

Every theorem is about the specification the run checks, for all values of its
constants under the assumptions that its module names (`...Assumption`), which
TLC evaluates on the instances; three theorems about VideoChannel state one more.
Each proof has the same shape: an inductive invariant made of named parts, one lemma
per action that keeps it, and the property read off the invariant, or off the
invariant and the step. The invariants were checked by TLC on the runs' instances
before they were proved.

### Station

`StationProofs` proves, for every set of sessions, blocks and keepalives, every
cache size and every timing with `MoveMs < TimeoutMs` and
`HorizonMs <= RetireMs`:

* `Invariance`: `Spec => []Inv`;
* `TypeCorrect`, `MovesOnce`, `MotionIsAuthorised`, `CacheKeepsActive`, which
  follow from it;
* `ReturnIsLate` and `AlarmStopsMotion`, the action properties
  `NoReturnWithinValidity` and `NoMotionOutOfAlarm`, which follow from it and
  from what a step keeps.

`EachCommandMovesOnce` is not inductive: that a block moved the actuator once
says nothing of why it cannot again. `Inv` adds the reason (`Spent`): each
block that moved it is under the high-water mark of its session while that
session owns the device, or has a deadline no later than the retirement of the
session, or is past its deadline. When an owner loses its lease at `now`, its
retirement ends at `now + RetireMs`, and no block it used has a deadline after
`now + HorizonMs`; that is where the two constants meet. `Inv` also says that a
motion has an owner and a number under the mark, that an owner is not retired,
that the running command is in the cache as ACCEPTED, and that outputs,
place and state agree.

The argument follows the code: each operator a handler is built from has a lemma
that says which parts of the invariant it keeps (`FinishFacts`, `TripCore`, ...,
`ExecuteSound`, `TickSound`), and `Invariance` has one step per action. Leases
and leg limits are re-established by every tick instead of preserved, which is
why `Core` leaves them out and `Sound` has them.

The two action properties need what a step keeps (`BootKeeps`). A handler is one
or two ticks, then its own work. The ticks let the owner go or keep it, touch no
other session's retirement, clear no alarm and start no motion (`Kept`); the work
takes no time, leaves the retirements alone unless it ends without an owner, and
moves nothing out of an alarm (`Handled`). So a session that becomes the owner
has the retirement it had before the step, `Inv` after the step says that it is
over, and `Spent` before the step says that the deadline is within it.

Assumed: the constants' assumptions in `Station`, evaluated by TLC on the
instances.

### Station implements Device

`DeviceImplemented` maps every handler to one step of `Device`. The abstract
step is found from what happened: the ticks before the work may end a motion or
lose the owner (`Passed`), then the block is refused, answered from the cache or
carried out, then the last tick may end a motion again. What makes it true is
`Remembers`: the cache holds results of numbers up to the high-water mark, one
entry for each number, so what it answers again is an answer to that number.
An owner lost in the ticks before a write cannot have its session open again by
that write, because its retirement has just begun (`HorizonMs <= RetireMs`, and
that it is not 0). `ResultsStay` comes from the same facts.

### StationLink

The registers carry a number and no session; the invariant says when they tell of
the session that the gateway means. Its parts are the books (records and the
answers given), the call in progress between write and read-back, the blocks of
failed calls, which belong to sessions that the gateway has given up, and the
registers: while the owner is the gateway's session, the last ended motion and,
as long as nothing has `landed`, the acknowledgement are answers to its own blocks.

### SharedFrame

The writer keeps an order of stores (`WriterInv`): the counter is odd from before
the first changed byte until after the last. `WriterStep` is what a reader can
notice of one writer step. For the gateway nothing but the counter is compared,
so its invariant counts: no start and no first publication falls inside
a pass (`BetweenPasses`), hence the counter only grows while it copies, and two
equal even values have nothing between them. The Node server may be overtaken by a
whole restart between two of its reads. Its invariant uses the whole header: sizes,
counter and time stamp are read in one order and written in another, and a value
that is gone never comes back, because stamps grow and the sizes of two
publications differ. The last is an idealisation: the model takes the
publication's number for its sizes, where the code has the byte count of a JPEG and
the process's start.

### VideoChannel

A frame of the assembler holds fragments of the one publication it names, whatever
its id (`Sound`), and there is one frame for an id. Fragments under way are of real
publications (`Sending`). A frame is complete when it has as many fragments as
the publication, and a set of that many of its fragments is all of them
(`WholeCounts`). For the queue: the buffered amount is the number of fragments
in it, and it and what the gateway has still to send make no more than the
watermark and a frame, because a frame is only taken when the queue alone is
under the watermark (`Amounts`). Nothing is assumed of the id space, the room in
usrsctp, or the number of restarts.

The second part is about the order of what is shown. Under `RanLong`, a condition of
both properties, every id of the first capture is above every id of the second,
and all are in one half of the number space (`Ordered`), so `Newer` compares numbers
(`NewerIsGreater`) and the page notices a restart exactly when a publication of the
second capture follows one of the first (`RestartsWhen`). From then on its floor
parts the captures: the frames in its map and the image's id are of the capture of
its latest publication (`Current`), or the image is below the floor and no id is
compared with it (`ShowsLatest`). Within a capture a greater id is a later
publication, so the image does not go back. For `NewCapture` the restarted page is
followed through `Accept`: the fragment makes its only frame, the trim leaves it, and
it is complete. Both theorems assume `FewCaptures`: two captures, whose publications
take at most half of the number space (2^31 frames, over two years at 30 a second).
More captures are outside: the second and the third both count from 0, so which of
their frames is later cannot be told by the id, and `RanLong` says nothing of them.

### LatestSession

What the page asks for next names a frame that it has had, and what is under way
comes after all frames it has had or asked with. So a repeated or late
request releases no credit of a frame that is still under way. Nothing is assumed
of the constants.

### Rendezvous

A gateway life offers once, before anything else it sends (`OfferIsFirst`,
`OffersOnce`), so the offer that the server remembers is of a life that no page
has been given another offer of, and while the session is not "used" nobody has
answered it (`AnsweredIsUsed`): this is `NoReplay`. For `OnePageHeard`, a gateway
that has no reset or close under way is the server's gateway; if it has heard a page,
or will, then the session is used and the server's viewer, if it is a viewer, is that
page (`Session`). The next viewer therefore makes the server send `viewer_reset`
first. A page of role "latest" is never offered anything.

### Evidence

A rule's count is backed by that many readings seen in a row that contradict the
state of its alarm (`Counted`), so a rule that turns has seen as many as it asks for; a
missing or an indecisive reading breaks the row and resets the count. A transition
that waits for its event keeps that backing, as the next sample is not taken before
(`Raised`). For the contexts: while the store has not failed, an open one holds the
samples of ages 1 up to its own age, which is under `Following` (`Open`); so one that
becomes full holds exactly the next ones, and one that `close()` writes is not full.
After a failure only what needs no count of failures remains: the event's own sample
is never in it, and a complete one has enough. The assumptions are that the rules
are those of the code and that a context has a size.

### PeerConnection

`Closed` is told by a thread that has taken the callback away first, and no report in
the queue is Closed; so it is the last. For `NothingOutlives`: members are
transports of their layer, only the processor and main close, and main only when
the channels are assigned. A thread that made a transport looks at the state
after it has stored it, and a thread that closes sets the state before it takes the
members, so whoever is later takes the transport away. The closing of the channels
is queued before the state changes and waits until ICE is taken.

### SecureTransport

`ReportsAreInOrder` says nothing of why the next report is in order, and four threads
can be the cause of one. The invariant has the reason (`Story`), as long as the owner's
callback is set. Before `start()` has reported Connecting nothing can run: no call of
`doRecv` is queued or scheduled and the thread below has the report before it
(`Early`). Then only the one worker inside `doRecv` changes the state, and what it has
still to do says which states it can be in (`Reads`), in all six back ends; what was
told so far is as far as that state goes (`Tells`). Each report has a rank in the
life of a connection, and a new one never ranks lower than an earlier one (`Ranked`).
With TLS the records that were told, that are read, that wait in the queue and that
come in are one increasing line (`InLine`). When the owner takes the transport away
it takes the callback first, and nothing is told after that (`SilentSteps`). Nothing is
assumed but `BoundsAssumption`: the theorem holds for any length of the handshake, any
size of the queue, and any number of arrivals and of calls of the timer.

### WebSocket

`MessagesInOrder` says two things, and the one about sending is proved: `StreamStaysIntact`,
and the stronger `NothingIsLost`, that what is not out yet waits in the queue. The poll
thread looks at the first message, lets go of the queue, sends what the kernel takes
of its copy and replaces or removes the first message; other threads append meanwhile.
So the copy is the first of the queue as long as that thread has it (`HoldsFirst`), and
the stream that went out with what the rest of the queue still puts out is what the
application has sent (`Complete`). For the second the operators of the queue need facts
about every queue: what the units of two queues are together, what the peer records
of them, and what a send that ends inside a message leaves. They are proved by
induction on lengths, by way of the smallest number for which a fact fails (`SmallestOf`),
which the library's theorem about well-founded relations gives. The other steps of
the eight threads, timers and callbacks are `Calm`: they neither send nor start to, and
leave only such steps behind them (`Quiet`). Until `race`, as in the property.

### Out of reach

Only model-checked: the properties of `Negotiation` and `DataChannel`, that the
callbacks of a WebSocket come in order (`ToldInOrder`, the receiving half of
`MessagesInOrder`), and all liveness. Liveness and ENABLED are beyond the prover used
here. `Description` and `Negotiation` compare what two ends compute by folds over
lists of media, which would take the same work again as the queue of WebSocket.
`DataChannel` declares a RECURSIVE operator, which takes the SMT solver away from
any proof about it.

## 6. Not modelled

* The HTTP interface of the station gateway, its tokens and input validation,
  `acceptance.py`, `cli.py`: stateless or test drivers.
* The latency estimation, the clock session and the observer proxy, the
  monitoring page: statistics, echoes and rendering.
* Sensor parsing, and the retention of images and samples by the store.
* Camera settings, TURN and STUN configuration.
* In libdatachannel: the C interface (`capi.cpp`), RTP packetizers and media
  handlers, the libjuice variant of ICE, resolution of candidates, certificates,
  statistics, logging, the accept loop of `WebSocketServer`. The gateway uses
  the C++ interface with data channels only; the container builds it with GnuTLS and
  libnice. The WebSocket is compiled into it and not used, and the tracks
  of `Negotiation` are not added by it; both are modelled because they are the
  library's most concurrent code.
* libnice, usrsctp, the TLS libraries, libwebsockets, pymodbus, aiohttp,
  SQLite and the browser are external; what the code relies on is in the models.
* `early_yuyv_dct_lz4` and `manufacturing_process_ai_concept`: not part of the
  running system.

## 7. Plan

1. Proofs: what `pending` counts in SecureTransport (`NothingStaysUnread` rests on
   it); the threads of WebSocket, apart from its send queue.
2. Models: both ends of a negotiation offering at once, with the roll-back and
   what the code leaves behind; the accept loop of `WebSocketServer`; the
   retention of images.
