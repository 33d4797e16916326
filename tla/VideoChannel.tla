---------------------------- MODULE VideoChannel ----------------------------
(***************************************************************************)
(* The way of a frame from the gateway to the screen over the two data     *)
(* channels of one connection: the sending loop of                         *)
(* webrtc-gateway/src/main.cpp, libdatachannel's SctpTransport with its    *)
(* one queue for both channels, the network, and the viewer page with its  *)
(* Assembler (signaling-server/public/video-frames.js).                    *)
(*                                                                         *)
(* A publication is its number in pubs; that number is its time stamp too, *)
(* because the capture's clock goes on over restarts.  The buffered amount *)
(* counts fragments.  That the gateway copies whole frames out of shared   *)
(* memory is SharedFrame's subject; here it reads the newest in one step.  *)
(***************************************************************************)
EXTENDS Integers, Sequences, FiniteSets, SequencesExt

CONSTANTS MaxFrames,   \* bound: publications, the one already shown included
          MaxBoots,    \* bound: starts of the capture process
          MaxTotal,    \* bound: fragments of a frame
          FirstIds,    \* where the numbering stands when the observation begins
          IdSpace,     \* 2^32 in the code
          Watermark,   \* VIDEO_BUFFER_HIGH_WATERMARK, in fragments
          Room         \* messages that usrsctp takes before it would block

ASSUME ChannelAssumption ==
    /\ MaxFrames \in Nat /\ MaxBoots \in Nat /\ Watermark \in Nat
    /\ MaxTotal \in Nat \ {0} /\ Room \in Nat \ {0} /\ IdSpace \in Nat \ {0}
    /\ FirstIds \subseteq 0 .. IdSpace - 1

VARIABLES capture,   \* the writer of shared memory
          pubs,      \* history: id and number of fragments of each publication
          gateway,   \* the loop: last_frame_id, and what it has still to send
          sctp,      \* SctpTransport: mSendQueue, buffered amount, flush task
          wire,      \* what usrsctp has taken and the page has not received
          page,      \* the Assembler
          shown      \* the image: its publication and fragments

vars == <<capture, pubs, gateway, sctp, wire, page, shown>>

NoId == IdSpace
Published == 1 .. Len(pubs)
IdOf(n) == pubs[n].id
Total(n) == pubs[n].total

Start(n) == [kind |-> "start", n |-> n, index |-> 0]
Fragment(n, i) == [kind |-> "fragment", n |-> n, index |-> i]
End(n) == [kind |-> "end", n |-> n, index |-> 0]
Messages == [kind : {"start", "fragment", "end"}, n : Published, index : 0 .. MaxTotal]

IsVideo(m) == m.kind = "fragment"
IsControl(m) == ~IsVideo(m)
Fragments(q) == Cardinality({i \in DOMAIN q : IsVideo(q[i])})

Nth(at, k) == CHOOSE i \in at : Cardinality({j \in at : j <= i}) = k
Controls(q) ==
    LET at == {i \in DOMAIN q : IsControl(q[i])}
    IN  [k \in 1 .. Cardinality(at) |-> q[Nth(at, k)]]

(***************************************************************************)
(* The capture process.                                                    *)
(***************************************************************************)
Publish ==
    /\ Len(pubs) < MaxFrames
    /\ \E total \in 1 .. MaxTotal :
          pubs' = Append(pubs, [id |-> capture.nextId, total |-> total, boot |-> capture.boot])
    /\ capture' = [capture EXCEPT !.nextId = (@ + 1) % IdSpace, !.slot = Len(pubs) + 1]
    /\ UNCHANGED <<gateway, sctp, wire, page, shown>>

\* A new process clears the header and numbers its frames from 0.
RestartCapture ==
    /\ capture.boot < MaxBoots
    /\ capture' = [capture EXCEPT !.nextId = 0, !.slot = 0, !.boot = @ + 1]
    /\ UNCHANGED <<pubs, gateway, sctp, wire, page, shown>>

(***************************************************************************)
(* SctpTransport.  usrsctp takes a message while it has room, or reports   *)
(* EWOULDBLOCK; both channels wait in one queue.  The video channel is     *)
(* unordered and never retransmits, the control channel is ordered and     *)
(* reliable.                                                               *)
(***************************************************************************)
Free(w) == Room - Len(w.control) - Cardinality(w.video)

\* trySendMessage: usrsctp takes m, and the other messages of ms.
Taken(ms) ==
    [control |-> wire.control \o Controls(ms),
     video |-> wire.video \cup {m \in ToSet(ms) : IsVideo(m)}]

\* trySendQueue: as much of the queue as usrsctp takes.
Flushed(q) == SubSeq(q, 1, IF Len(q) < Free(wire) THEN Len(q) ELSE Free(wire))
Remains(q) == SubSeq(q, Len(Flushed(q)) + 1, Len(q))

\* updateBufferedAmount: never below zero.
Updated(amount, delta) == IF amount + delta > 0 THEN amount + delta ELSE 0

\* send: first the queue, then m; what does not go is queued.
Send(m) ==
    LET direct == Len(sctp.queue) < Free(wire)
    IN  /\ ~sctp.flushing
        /\ wire' = Taken(Flushed(sctp.queue) \o IF direct THEN <<m>> ELSE <<>>)
        /\ sctp' = [sctp EXCEPT !.queue = Remains(@) \o IF direct THEN <<>> ELSE <<m>>,
                                !.buffered = Updated(Updated(@, -Fragments(Flushed(sctp.queue))),
                                                  IF IsVideo(m) /\ ~direct THEN 1 ELSE 0)]

\* doFlush, run by the processor, holds the mutex from here to EndFlush.
Flush ==
    /\ sctp.pending > 0 /\ ~sctp.flushing
    /\ wire' = Taken(Flushed(sctp.queue))
    /\ sctp' = [sctp EXCEPT !.queue = Remains(@), !.flushing = TRUE, !.pending = @ - 1,
                            !.buffered = Updated(@, -Fragments(Flushed(sctp.queue)))]
    /\ UNCHANGED <<capture, pubs, gateway, page, shown>>

EndFlush ==
    /\ sctp.flushing
    /\ sctp' = [sctp EXCEPT !.flushing = FALSE]
    /\ UNCHANGED <<capture, pubs, gateway, wire, page, shown>>

\* Faulty variant: a flush that is running counts as one that is to come.
EnqueueFlushUnlessBusy ==
    [sctp EXCEPT !.pending = IF @ > 0 \/ sctp.flushing THEN @ ELSE 1]

EnqueueFlush == [sctp EXCEPT !.pending = IF @ > 0 THEN @ ELSE 1]

\* The upcall of usrsctp, when it has room again; reading is not asked for here.
HandleUpcall == EnqueueFlush

(***************************************************************************)
(* The gateway's loop.  A frame that is old, or finds more than Watermark  *)
(* buffered, is left to a later pass.                                      *)
(***************************************************************************)
FrameMessages(n) ==
    <<Start(n)>> \o [i \in 1 .. Total(n) |-> Fragment(n, i)] \o <<End(n)>>

\* Faulty variant: the buffered amount is not looked at.
TakeFrameAlways ==
    /\ gateway.todo = <<>> /\ capture.slot # 0
    /\ IdOf(capture.slot) # gateway.lastId
    /\ gateway' = [lastId |-> IdOf(capture.slot), todo |-> FrameMessages(capture.slot)]
    /\ UNCHANGED <<capture, pubs, sctp, wire, page, shown>>

TakeFrame ==
    /\ gateway.todo = <<>> /\ capture.slot # 0
    /\ IdOf(capture.slot) # gateway.lastId
    /\ sctp.buffered <= Watermark
    /\ gateway' = [lastId |-> IdOf(capture.slot), todo |-> FrameMessages(capture.slot)]
    /\ UNCHANGED <<capture, pubs, sctp, wire, page, shown>>

SendNext ==
    /\ gateway.todo # <<>>
    /\ Send(Head(gateway.todo))
    /\ gateway' = [gateway EXCEPT !.todo = Tail(@)]
    /\ UNCHANGED <<capture, pubs, page, shown>>

(***************************************************************************)
(* The Assembler.  A frame carries the publication its first fragment      *)
(* named (0 for none yet), the fragments it got, and its place in the map  *)
(* frames, which is in order of insertion, so also of age.                 *)
(***************************************************************************)
Newer(a, b) == a # b /\ (a + IdSpace - b) % IdSpace < IdSpace \div 2

FreshPage == [frames |-> {}, retired |-> {}, lastRendered |-> NoId,
              latestPublished |-> 0, latestId |-> NoId, floor |-> 0]

Ids(fs) == {f.id : f \in fs}
Has(p, id) == id \in Ids(p.frames)
FrameOf(p, id) == CHOOSE f \in p.frames : f.id = id

\* The places of what stays in the map.
Placed(fs) == {[f EXCEPT !.place = Cardinality({g \in fs : g.place <= f.place})] : f \in fs}
Without(fs, ids) == Placed({f \in fs : f.id \notin ids})

Discard(p, ids) == [p EXCEPT !.frames = Without(@, ids), !.retired = @ \cup ids]

\* prune: the k oldest frames are past 120 ms, and at most two stay; the retired
\* ids of gone are past 2 s.  (128 retired ids are never reached here.)
Prune(p, k, gone) ==
    LET old == {f \in p.frames : f.place <= k \/ f.place + 2 <= Cardinality(p.frames)}
    IN  [Discard(p, Ids(old)) EXCEPT !.retired = @ \ gone]

Trim(p) == Prune(p, 0, {})

\* The image is this frame or a later one.
Passed(p, id) == p.lastRendered # NoId /\ ~Newer(id, p.lastRendered)
Refuses(p, id) == id \in p.retired \/ Passed(p, id)

NewFrame(p, id, total) ==
    [id |-> id, total |-> total, published |-> 0, got |-> {}, place |-> Cardinality(p.frames) + 1]

EnsureFrame(p, id, total) ==
    IF Refuses(p, id) \/ Has(p, id) THEN p
    ELSE [p EXCEPT !.frames = @ \cup {NewFrame(p, id, total)}]

\* The numbering began anew: a later publication with a lower id.
Restarts(p, n) ==
    /\ n > p.latestPublished /\ p.latestId # NoId
    /\ IdOf(n) # p.latestId /\ ~Newer(IdOf(n), p.latestId)

\* Faulty variants: the new sequence has no floor; it is not noticed.
RestartedNoFloor(p, n) == IF Restarts(p, n) THEN FreshPage ELSE p
RestartedNever(p, n) == p

Restarted(p, n) == IF Restarts(p, n) THEN [FreshPage EXCEPT !.floor = n] ELSE p

\* Faulty variant: fragments are told apart by the id of their frame alone.
BelongsById(f, n) == f.total = Total(n)

Belongs(f, n) == f.total = Total(n) /\ f.published \in {0, n}

WithFragment(p, m) ==
    [p EXCEPT !.frames = {
        IF f.id # IdOf(m.n) THEN f
        ELSE [f EXCEPT !.published = m.n,
                       !.got = IF \E g \in @ : g.index = m.index THEN @ ELSE @ \cup {m}] : f \in @}]

Latest(p, n) ==
    IF n > p.latestPublished THEN [p EXCEPT !.latestPublished = n, !.latestId = IdOf(n)] ELSE p

Accept(before, m, k, gone) ==
    LET id == IdOf(m.n)
        p == Restarted(before, m.n)
        q == EnsureFrame(Prune(Latest(p, m.n), k, gone), id, Total(m.n))
    IN  IF m.n < p.floor THEN p
        ELSE IF Refuses(q, id) THEN q
        ELSE IF ~Belongs(FrameOf(q, id), m.n) THEN Discard(q, {id})
        ELSE Trim(WithFragment(q, m))

(***************************************************************************)
(* The network and the page's handlers.  What arrives, or is given up,     *)
(* makes room in usrsctp.                                                  *)
(***************************************************************************)
\* renderFrame, and finish: a complete frame that is newer becomes the image.
CanRender(p, id) ==
    Has(p, id) /\ Cardinality(FrameOf(p, id).got) = FrameOf(p, id).total

Finished(p, id) ==
    LET rest == Without(p.frames, {id})
    IN  Discard([p EXCEPT !.frames = rest, !.lastRendered = id],
                {o \in Ids(rest) : ~Newer(o, id)})

Render(p, id) ==
    \/ /\ CanRender(p, id) /\ ~Passed(p, id)
       /\ page' = Trim(Finished(p, id))
       /\ shown' = [n |-> FrameOf(p, id).published, parts |-> FrameOf(p, id).got]
    \/ /\ CanRender(p, id) /\ Passed(p, id)
       /\ page' = Trim(Discard(p, {id}))
       /\ UNCHANGED shown
    \/ /\ ~CanRender(p, id)
       /\ page' = Trim(p)
       /\ UNCHANGED shown

VideoArrives ==
    \E m \in wire.video :
        /\ wire' = [wire EXCEPT !.video = @ \ {m}]
        /\ \E k \in 0 .. Cardinality(page.frames), gone \in SUBSET page.retired :
              Render(Accept(page, m, k, gone), IdOf(m.n))
        /\ sctp' = HandleUpcall
        /\ UNCHANGED <<capture, pubs, gateway>>

VideoIsLost ==
    \E m \in wire.video :
        /\ wire' = [wire EXCEPT !.video = @ \ {m}]
        /\ sctp' = HandleUpcall
        /\ UNCHANGED <<capture, pubs, gateway, page, shown>>

StartArrives ==
    /\ wire.control # <<>> /\ Head(wire.control).kind = "start"
    /\ wire' = [wire EXCEPT !.control = Tail(@)]
    /\ LET n == Head(wire.control).n
       IN  \E k \in 0 .. Cardinality(page.frames), gone \in SUBSET page.retired :
              page' = Prune(EnsureFrame(page, IdOf(n), Total(n)), k, gone)
    /\ sctp' = HandleUpcall
    /\ UNCHANGED <<capture, pubs, gateway, shown>>

EndArrives ==
    /\ wire.control # <<>> /\ Head(wire.control).kind = "end"
    /\ wire' = [wire EXCEPT !.control = Tail(@)]
    /\ Render(page, IdOf(Head(wire.control).n))
    /\ sctp' = HandleUpcall
    /\ UNCHANGED <<capture, pubs, gateway>>

\* Everything has just started, or the page shows frame `first' of a capture that
\* has been running.
Begins(first) ==
    /\ capture = [nextId |-> (first + 1) % IdSpace, slot |-> 1, boot |-> 1]
    /\ pubs = <<[id |-> first, total |-> 1, boot |-> 1]>>
    /\ gateway = [lastId |-> first, todo |-> <<>>]
    /\ page = [FreshPage EXCEPT !.lastRendered = first, !.latestPublished = 1, !.latestId = first]
    /\ shown = [n |-> 1, parts |-> {Fragment(1, 1)}]

Init ==
    /\ \/ \E first \in FirstIds : Begins(first)
       \/ /\ capture = [nextId |-> 0, slot |-> 0, boot |-> 1]
          /\ pubs = <<>>
          /\ gateway = [lastId |-> NoId, todo |-> <<>>]
          /\ page = FreshPage
          /\ shown = [n |-> 0, parts |-> {}]
    /\ sctp = [queue |-> <<>>, buffered |-> 0, pending |-> 0, flushing |-> FALSE]
    /\ wire = [control |-> <<>>, video |-> {}]

Next ==
    \/ Publish \/ RestartCapture
    \/ TakeFrame \/ SendNext \/ Flush \/ EndFlush
    \/ VideoArrives \/ VideoIsLost \/ StartArrives \/ EndArrives

\* The gateway's thread and the processor go on; usrsctp delivers what it took
\* or gives it up.  Every step that takes a message off the wire is an arrival
\* or a loss, and one is possible while the wire is not empty.
VideoLeaves == \E m \in wire.video : wire' = [wire EXCEPT !.video = @ \ {m}]
ControlLeaves == wire.control # <<>> /\ wire' = [wire EXCEPT !.control = Tail(@)]

Fairness ==
    /\ WF_vars(SendNext) /\ WF_vars(Flush) /\ WF_vars(EndFlush)
    /\ WF_wire(VideoLeaves) /\ WF_wire(ControlLeaves)

Spec == Init /\ [][Next]_vars /\ Fairness

-----------------------------------------------------------------------------
(***************************************************************************)
(* Properties.                                                             *)
(***************************************************************************)

\* The image is always one whole publication, whatever was lost, late or
\* reordered, and although a restarted capture uses ids again (video-frames.js:72).
ShownFrameIsWhole ==
    shown.n # 0 => shown.parts = {Fragment(shown.n, i) : i \in 1 .. Total(shown.n)}

\* What the sender holds back stays bounded, whatever the network does: the
\* amount the gateway asks for (main.cpp:476) is exactly what waits in the queue
\* that both channels and three threads use, and never more than the watermark
\* and one frame.
BufferedAmountBoundsTheQueue ==
    /\ sctp.buffered = Fragments(sctp.queue)
    /\ sctp.buffered <= Watermark + MaxTotal

\* A capture that has run for longer than its successor does here, and whose
\* numbering is not about to wrap.
RanLong == \A n \in Published : pubs[n].boot = 1 => IdOf(n) \in MaxFrames .. (IdSpace \div 2) - 1

\* The image never goes back in time, not even when late fragments of the
\* capture before a restart meet the frames of the new one (video-frames.js:54).
NoOlderFrameShown == [][RanLong => shown'.n >= shown.n]_vars

\* After a restart the picture does not freeze: the first fragment of the new
\* capture that arrives, if it is a frame by itself, becomes the image.
NewCaptureIsShown ==
    [][\A m \in wire.video \ wire'.video :
          (/\ RanLong /\ page.latestPublished > 0 /\ page # page' /\ Total(m.n) = 1
           /\ pubs[m.n].boot > pubs[page.latestPublished].boot)
          => shown'.n = m.n]_vars

\* Nothing that was queued stays there: each message is sent at last, though
\* both channels, the upcall of usrsctp and the flush task meet in one queue.
QueueDrains == sctp.queue # <<>> ~> sctp.queue = <<>>
=============================================================================
