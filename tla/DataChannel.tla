---------------------------- MODULE DataChannel ----------------------------
(***************************************************************************)
(* Data channels over one SCTP association: rtc::impl::DataChannel, the    *)
(* map of streams in PeerConnection and the part of SctpTransport they use *)
(* (libdatachannel/src/impl/datachannel.cpp, peerconnection.cpp,           *)
(* sctptransport.cpp, channel.cpp).  Both ends run this code; each has     *)
(* three threads: the application's, the one of SCTP's processor, which    *)
(* hands over what arrives, and the one of the connection's processor,     *)
(* which opens the channels that were made before the association was up.  *)
(* A thread's step is what it has still to do of a call: opening, sending  *)
(* and closing each look at the channel under its lock, give that up, and  *)
(* then act on what they have seen.                                        *)
(*                                                                         *)
(* usrsctp takes every message here (VideoChannel has it block): only      *)
(* resets wait in mSendQueue, and as whatever is sent after them has to    *)
(* flush it first, they are on the wire from the start.  Nothing is lost;  *)
(* a stream's ordered messages keep their order, and a reset comes after   *)
(* everything before it and before everything after it.                    *)
(* The rule of odd and even stream numbers comes from the DTLS roles.      *)
(* Channels negotiated by the applications, and more channels than         *)
(* streams, are left out; the association does not end (PeerConnection).   *)
(***************************************************************************)
EXTENDS Naturals, Sequences, FiniteSets, SequencesExt

CONSTANTS Creators,      \* the ends whose applications create channels
          MaxCreated,    \* bound: channels they create
          Unordered,     \* which of them, in this order, are unordered
          MaxUses        \* bound: messages the applications send and channels they close

Ends == {0, 1}       \* the end's number is the parity of the streams it takes
Peer(e) == 1 - e

ASSUME ChannelsAssumption ==
    /\ Creators \subseteq Ends /\ MaxCreated \in Nat /\ Unordered \subseteq 1 .. MaxCreated
    /\ MaxUses \in Nat

VARIABLES state,       \* SctpTransport::state, per end
          chan,        \* every DataChannel made so far
          map,         \* mDataChannels: the channel of a stream, per end
          unassigned,  \* mUnassignedDataChannels
          step,        \* the step each thread of each end has still to take
          todo,        \* openDataChannels: asked for, and the channels left
          wire,        \* what each end sent and the other has not got
          used         \* messages sent and channels closed by the applications

vars == <<state, chan, map, unassigned, step, todo, wire, used>>

Threads == {"application", "sctp", "processor"}

None == [do |-> "none"]
Step(do, c) == [do |-> do, chan |-> c]
Idle(e, t) == step[e][t] = None
At(e, t, do) == step[e][t].do = do
Goes(e, t, next) == step' = [step EXCEPT ![e][t] = next]

NoStream == 2 * MaxCreated
Streams == 0 .. NoStream - 1

\* of is the channel at the other end that the request came from; transport says that
\* it has one, and then it has a stream; asks counts the requests to open that were
\* sent.  History: ahead, a message was sent before the request; late, the channel
\* was closed by a call that found no transport, or asked for after its reset.
Channel(e, of, stream, unordered) ==
    [end |-> e, of |-> of, stream |-> stream, unordered |-> unordered,
     transport |-> of # 0, asks |-> 0, ahead |-> FALSE, late |-> FALSE,
     open |-> FALSE, closed |-> FALSE, sent |-> <<>>, waiting |-> <<>>, got |-> <<>>]

Ids == DOMAIN chan
IsIncoming(c) == chan[c].of # 0
Created == {c \in Ids : ~IsIncoming(c)}

Packet(kind, stream, from, n, ordered) ==
    [kind |-> kind, stream |-> stream, from |-> from, n |-> n, ordered |-> ordered]
Control(kind, c) == Packet(kind, chan[c].stream, c, 0, TRUE)
Reset(stream) == Packet("reset", stream, 0, 0, TRUE)

\* An end that creates nothing has nothing to do when SCTP comes up.
Init ==
    /\ state = [e \in Ends |-> IF e \in Creators THEN "Connecting" ELSE "Connected"]
    /\ chan = <<>>
    /\ map = [e \in Ends |-> <<>>]
    /\ unassigned = [e \in Ends |-> <<>>]
    /\ step = [e \in Ends |-> [t \in Threads |-> None]]
    /\ todo = [e \in Ends |-> [asked |-> FALSE, left |-> <<>>]]
    /\ wire = [e \in Ends |-> <<>>]
    /\ used = [sent |-> 0, closed |-> 0]

-----------------------------------------------------------------------------
\* SctpTransport::send, and closeStream with the flush it enqueues.
Send(e, p) == wire' = [wire EXCEPT ![e] = Append(@, p)]
CloseStream(e, stream) == Send(e, Reset(stream))

(***************************************************************************)
(* The streams.  An end takes the first of its parity that is not in its   *)
(* map.                                                                    *)
(***************************************************************************)
FirstFree(m, e) == CHOOSE s \in Streams :
    /\ s % 2 = e /\ s \notin DOMAIN m
    /\ \A r \in Streams : (r % 2 = e /\ r \notin DOMAIN m) => s <= r

With(m, s, c) == [r \in DOMAIN m \cup {s} |-> IF r = s THEN c ELSE m[r]]
Without(m, s) == [r \in DOMAIN m \ {s} |-> m[r]]

\* The map once the channels cs have got their streams.
RECURSIVE Assigned(_, _, _)
Assigned(m, e, cs) ==
    IF cs = <<>> THEN m ELSE Assigned(With(m, FirstFree(m, e), Head(cs)), e, Tail(cs))

StreamIn(m, c) == CHOOSE s \in DOMAIN m : m[s] = c

AssignDataChannels(e) ==
    LET m == Assigned(map[e], e, unassigned[e])
    IN  /\ map' = [map EXCEPT ![e] = m]
        /\ chan' = [c \in Ids |-> IF c \in ToSet(unassigned[e])
                                  THEN [chan[c] EXCEPT !.stream = StreamIn(m, c)] ELSE chan[c]]
        /\ unassigned' = [unassigned EXCEPT ![e] = <<>>]

(***************************************************************************)
(* DataChannel.                                                            *)
(***************************************************************************)
\* OutgoingDataChannel::open: the lock is held for the transport ...
SetTransport(e, t) ==
    /\ At(e, t, "open")
    /\ chan' = [chan EXCEPT ![step[e][t].chan].transport = TRUE]
    /\ Goes(e, t, Step("request", step[e][t].chan))
    /\ UNCHANGED <<state, map, unassigned, todo, wire, used>>

\* ... and not for the request; nothing tells it that it was called before, or
\* that the channel was closed.
Resetting(c) == \E t \in Threads : step[chan[c].end][t] = Step("reset", c)

Request(e, t) ==
    LET c == step[e][t].chan
    IN  /\ At(e, t, "request")
        /\ Send(e, Control("open", c))
        /\ chan' = [chan EXCEPT ![c].asks = @ + 1, ![c].late = @ \/ (chan[c].closed /\ ~Resetting(c))]
        /\ Goes(e, t, None)
        /\ UNCHANGED <<state, map, unassigned, todo, used>>

\* close and remoteClose: the transport is looked up under the lock, which is given
\* up.  One that is there stays, so only a call that finds none takes a step for it.
LookUp(e, t) ==
    /\ At(e, t, "close") /\ ~chan[step[e][t].chan].transport
    /\ Goes(e, t, Step("closeOnly", step[e][t].chan))
    /\ UNCHANGED <<state, chan, map, unassigned, todo, wire, used>>

\* The first to exchange mIsClosed goes on to the stream, if it found a transport ...
Exchange(e, t) ==
    LET c == step[e][t].chan
        first == ~chan[c].closed
        found == At(e, t, "close")
    IN  /\ (found /\ chan[c].transport) \/ At(e, t, "closeOnly")
        /\ chan' = [chan EXCEPT ![c].closed = TRUE, ![c].late = @ \/ (first /\ ~found)]
        /\ Goes(e, t, IF first /\ found THEN Step("reset", c) ELSE None)
        /\ UNCHANGED <<state, map, unassigned, todo, wire, used>>

\* ... and the stream is reset; the channel stays in the map.
ResetStream(e, t) ==
    /\ At(e, t, "reset")
    /\ CloseStream(e, chan[step[e][t].chan].stream)
    /\ Goes(e, t, None)
    /\ UNCHANGED <<state, chan, map, unassigned, todo, used>>

\* triggerOpen and triggerAvailable: what waits is given to the application once
\* the channel is open.
Delivered(ch) == IF ch.open THEN [ch EXCEPT !.got = @ \o ch.waiting, !.waiting = <<>>] ELSE ch

-----------------------------------------------------------------------------
(***************************************************************************)
(* The application's thread.                                               *)
(***************************************************************************)
\* emplaceDataChannel, up to the question whether SCTP is connected.
Create(e) ==
    /\ e \in Creators /\ Idle(e, "application") /\ Cardinality(Created) < MaxCreated
    /\ chan' = Append(chan, Channel(e, 0, NoStream, Cardinality(Created) + 1 \in Unordered))
    /\ unassigned' = [unassigned EXCEPT ![e] = Append(@, Len(chan) + 1)]
    /\ IF state[e] = "Connected" THEN Goes(e, "application", Step("assign", Len(chan) + 1))
                                 ELSE UNCHANGED step
    /\ UNCHANGED <<state, map, todo, wire, used>>

AssignCreated(e) ==
    /\ At(e, "application", "assign")
    /\ AssignDataChannels(e)
    /\ Goes(e, "application", Step("open", step[e].application.chan))
    /\ UNCHANGED <<state, todo, wire, used>>

\* The application knows a channel it created, and one it was told of.
Knows(e, c) == chan[c].end = e /\ (IsIncoming(c) => chan[c].open)

\* Before the answer, all messages are sent ordered.
OrderedUntilOpen(c) == chan[c].open => ~chan[c].unordered

\* outgoing: the channel is looked at, and its lock given up ...
BeginSend(e) ==
    /\ Idle(e, "application") /\ used.sent + used.closed < MaxUses
    /\ \E c \in Ids :
          /\ Knows(e, c) /\ ~chan[c].closed /\ chan[c].transport
          /\ Goes(e, "application",
                [do |-> "send", chan |-> c,
                 packet |-> Packet("data", chan[c].stream, c, used.sent + 1, OrderedUntilOpen(c))])
    /\ used' = [used EXCEPT !.sent = @ + 1]
    /\ UNCHANGED <<state, chan, map, unassigned, todo, wire>>

\* ... before the message goes to SCTP.
EndSend(e) ==
    LET c == step[e].application.chan
        packet == step[e].application.packet
    IN  /\ At(e, "application", "send")
        /\ Send(e, packet)
        /\ chan' = [chan EXCEPT ![c].sent = Append(@, packet.n),
                                ![c].ahead = @ \/ (~IsIncoming(c) /\ chan[c].asks = 0)]
        /\ Goes(e, "application", None)
        /\ UNCHANGED <<state, map, unassigned, todo, used>>

CloseByApplication(e) ==
    /\ Idle(e, "application") /\ used.sent + used.closed < MaxUses
    /\ \E c \in Ids : /\ Knows(e, c) /\ ~chan[c].closed
                      /\ Goes(e, "application", Step("close", c))
    /\ used' = [used EXCEPT !.closed = @ + 1]
    /\ UNCHANGED <<state, chan, map, unassigned, todo, wire>>

(***************************************************************************)
(* SCTP comes up; the connection's processor opens the channels.           *)
(***************************************************************************)
Connect(e) ==
    /\ state[e] = "Connecting"
    /\ state' = [state EXCEPT ![e] = "Connected"]
    /\ Goes(e, "sctp", Step("assign", 0))
    /\ UNCHANGED <<chan, map, unassigned, todo, wire, used>>

AssignAll(e) ==
    /\ At(e, "sctp", "assign")
    /\ AssignDataChannels(e)
    /\ Goes(e, "sctp", None)
    /\ todo' = [todo EXCEPT ![e].asked = TRUE]
    /\ UNCHANGED <<state, wire, used>>

\* openDataChannels looks which channels are not closed, and then at each of them:
\* if it is not open, it is opened.
BeginOpen(e) ==
    /\ todo[e].asked
    /\ LET alive == {s \in DOMAIN map[e] : ~chan[map[e][s]].closed}
           order == SetToSortSeq(alive, <)
       IN  todo' = [todo EXCEPT ![e] =
                [asked |-> FALSE, left |-> [i \in DOMAIN order |-> map[e][order[i]]]]]
    /\ UNCHANGED <<state, chan, map, unassigned, step, wire, used>>

OpenNext(e) ==
    /\ todo[e].left # <<>> /\ Idle(e, "processor")
    /\ LET c == Head(todo[e].left)
       IN  IF (chan[c].open /\ ~chan[c].closed) \/ IsIncoming(c)
            THEN UNCHANGED step
            ELSE Goes(e, "processor", Step("open", c))
    /\ todo' = [todo EXCEPT ![e].left = Tail(@)]
    /\ UNCHANGED <<state, chan, map, unassigned, wire, used>>

-----------------------------------------------------------------------------
(***************************************************************************)
(* forwardMessage, on the thread of SCTP's processor.                      *)
(***************************************************************************)
\* Packet a of a stream was sent before packet b: does b wait for it?
Precedes(a, b) == a.kind = "reset" \/ b.kind = "reset" \/ (a.ordered /\ b.ordered)

Arriving(e) == {i \in DOMAIN wire[Peer(e)] : \A j \in 1 .. i - 1 :
    LET a == wire[Peer(e)][j]
        b == wire[Peer(e)][i]
    IN  a.stream = b.stream => ~Precedes(a, b)}

\* A packet of this kind is taken from the wire, and out is sent.
Take(e, i, kinds, out) ==
    /\ state[e] = "Connected" /\ Idle(e, "sctp")
    /\ wire[Peer(e)][i].kind \in kinds
    /\ wire' = [wire EXCEPT ![Peer(e)] = RemoveAt(@, i), ![e] = @ \o out]
    /\ UNCHANGED <<state, unassigned, todo, used>>

Found(e, p) == p.stream \in DOMAIN map[e]

\* A request to open a stream that is in use closes the channel that uses it.
CloseUsed(e, i, p) ==
    /\ Take(e, i, {"open"}, <<>>)
    /\ Found(e, p) /\ ~chan[map[e][p.stream]].closed
    /\ Goes(e, "sctp", Step("close", map[e][p.stream]))
    /\ UNCHANGED <<chan, map>>

\* One that is closed, or of the wrong parity, resets its stream.
RefuseOpen(e, i, p) ==
    /\ Take(e, i, {"open"}, <<Reset(p.stream)>>)
    /\ IF Found(e, p) THEN chan[map[e][p.stream]].closed ELSE p.stream % 2 # Peer(e)
    /\ UNCHANGED <<chan, map, step>>

\* IncomingDataChannel::processOpenMessage answers, and opens.
AcceptOpen(e, i, p) ==
    /\ Take(e, i, {"open"}, <<Packet("ack", p.stream, Len(chan) + 1, 0, TRUE)>>)
    /\ ~Found(e, p) /\ p.stream % 2 = Peer(e)
    /\ chan' = Append(chan, [Channel(e, p.from, p.stream, chan[p.from].unordered)
                              EXCEPT !.open = TRUE])
    /\ map' = [map EXCEPT ![e] = With(@, p.stream, Len(chan) + 1)]
    /\ UNCHANGED step

\* What nobody expects closes its stream.
Unexpected(e, i, p) ==
    /\ Take(e, i, {"ack", "data", "reset"}, IF p.kind = "reset" THEN <<>> ELSE <<Reset(p.stream)>>)
    /\ ~Found(e, p)
    /\ UNCHANGED <<chan, map, step>>

\* Faulty variant: what comes before the channel is open is dropped.
IncomingOnceOpen(e, i, p) ==
    LET c == map[e][p.stream]
        ch == IF p.kind = "ack" THEN [chan[c] EXCEPT !.open = TRUE]
              ELSE IF chan[c].open THEN [chan[c] EXCEPT !.waiting = Append(@, p.n)] ELSE chan[c]
    IN  /\ Take(e, i, {"ack", "data"}, <<>>)
        /\ Found(e, p)
        /\ chan' = IF chan[c].closed THEN chan ELSE [chan EXCEPT ![c] = Delivered(ch)]
        /\ UNCHANGED <<map, step>>

\* DataChannel::incoming.
Incoming(e, i, p) ==
    LET c == map[e][p.stream]
        ch == IF p.kind = "ack" THEN [chan[c] EXCEPT !.open = TRUE]
              ELSE [chan[c] EXCEPT !.waiting = Append(@, p.n)]
    IN  /\ Take(e, i, {"ack", "data"}, <<>>)
        /\ Found(e, p)
        /\ chan' = IF chan[c].closed THEN chan ELSE [chan EXCEPT ![c] = Delivered(ch)]
        /\ UNCHANGED <<map, step>>

\* Faulty variant: the channel only notes that it was closed.
RemoveResetQuietly(e, i, p) ==
    /\ Take(e, i, {"reset"}, <<>>)
    /\ Found(e, p)
    /\ map' = [map EXCEPT ![e] = Without(@, p.stream)]
    /\ chan' = [chan EXCEPT ![map[e][p.stream]].closed = TRUE]
    /\ UNCHANGED step

\* The other end has reset its stream: the stream leaves the map, and then the
\* channel is closed.
RemoveReset(e, i, p) ==
    /\ Take(e, i, {"reset"}, <<>>)
    /\ Found(e, p)
    /\ map' = [map EXCEPT ![e] = Without(@, p.stream)]
    /\ Goes(e, "sctp", Step("close", map[e][p.stream]))
    /\ UNCHANGED chan

Receive(e) == \E i \in Arriving(e) :
    LET p == wire[Peer(e)][i]
    IN  \/ CloseUsed(e, i, p)
        \/ RefuseOpen(e, i, p)
        \/ AcceptOpen(e, i, p)
        \/ Unexpected(e, i, p)
        \/ Incoming(e, i, p)
        \/ RemoveReset(e, i, p)

-----------------------------------------------------------------------------
\* What the threads, and usrsctp, do by themselves.
Runs(e) ==
    \/ Connect(e) \/ AssignAll(e) \/ BeginOpen(e) \/ OpenNext(e)
    \/ AssignCreated(e) \/ EndSend(e) \/ Receive(e)
    \/ \E t \in Threads : \/ SetTransport(e, t) \/ Request(e, t)
                         \/ LookUp(e, t) \/ Exchange(e, t) \/ ResetStream(e, t)

Next == \E e \in Ends :
    Create(e) \/ BeginSend(e) \/ CloseByApplication(e) \/ Runs(e)

\* The threads and usrsctp go on; what an application does is up to it.
Fairness == WF_vars(\E e \in Ends : Runs(e))

Spec == Init /\ [][Next]_vars /\ Fairness

-----------------------------------------------------------------------------
(***************************************************************************)
(* Properties.                                                             *)
(***************************************************************************)
\* The channel at the other end that c belongs with.
Partners(c) == {d \in Ids : chan[d].of = c \/ chan[c].of = d}

\* An application closed a channel; or one was opened twice: createDataChannel, and
\* the connection's processor that opens what was made before, may both open a
\* channel made while SCTP comes up, and the other end closes a stream that it is
\* asked to open again; or a message was sent between the two steps of open, once
\* there was a transport and before the request, and the other end closes a stream
\* it has not heard of (datachannel.cpp:308-310, peerconnection.cpp:508-515).
Disturbed == used.closed > 0 \/ \E c \in Ids : chan[c].asks > 1 \/ chan[c].ahead

Got(c, d) ==
    IF chan[c].unordered THEN /\ Len(chan[d].got) = Len(chan[c].sent)
                              /\ ToSet(chan[d].got) = ToSet(chan[c].sent)
    ELSE chan[d].got = chan[c].sent

Works(c) ==
    /\ chan[c].open /\ ~chan[c].closed
    /\ \E d \in Ids : Partners(c) = {d} /\ Got(c, d)

\* Each channel opens at both ends and each message arrives on the channel it was
\* sent on, once, and in order on an ordered channel, as long as nobody closes
\* one (datachannel.cpp:212, 230-250; peerconnection.cpp:467).
UndisturbedChannelsWork == []<>(Disturbed \/ \A c \in Ids : Works(c))

InMap(c) == chan[c].stream \in DOMAIN map[chan[c].end] /\ map[chan[c].end][chan[c].stream] = c

Over(c) == \A d \in {c} \cup Partners(c) : chan[d].closed /\ ~InMap(d)

Opener(c) == IF IsIncoming(c) THEN chan[chan[c].of] ELSE chan[c]

\* A channel that is closed at one end is closed at the other, and its stream is
\* free at both, whatever else the threads do while it is closed: both ends close,
\* the stream is used again, messages come late.  Not so a channel that is closed
\* while it is being opened, which the other end may keep open for ever: a call of
\* close that found no transport resets nothing although open goes on, and neither
\* does anyone when the reset goes out before the request, or the channel was closed
\* before openDataChannels, which had seen it unclosed, came to it (datachannel.cpp:97-110,
\* 252-310; peerconnection.cpp:753, 758-771).
ClosingReachesBothEnds ==
    []<>(\A c \in Ids : chan[c].closed /\ Opener(c).asks > 0 /\ ~Opener(c).late => Over(c))
=============================================================================
