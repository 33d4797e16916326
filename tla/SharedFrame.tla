---------------------------- MODULE SharedFrame ----------------------------
(***************************************************************************)
(* The shared-memory frame slot /video_shm: the capture process            *)
(* (video-processor/src/main.cpp) that takes pictures from the buffers of  *)
(* a camera and overwrites the slot in place, and its two lock-free        *)
(* readers, the WebRTC gateway (webrtc-gateway/src/main.cpp) and *)
(* the Node server's LatestFrameSource (signaling-server/latest-source.js).*)
(*                                                                         *)
(* One action is one memory access.  Between its two release fences the    *)
(* stores of a publication reach memory in any order, and so do the loads  *)
(* of one header copy; the header is loaded in 16-byte chunks, and cleared *)
(* by memset in chunks from the lowest address up.  A frame is the number  *)
(* of its publication, which stands for its time stamp as well: `meta' is  *)
(* its sizes, timing its sidecar; half1 and half2 are its payload, the     *)
(* number of a picture.  Readers write nothing, so one at a time sees all  *)
(* that two would.                                                         *)
(***************************************************************************)
EXTENDS Naturals, Sequences, Functions

CONSTANTS Buffers,     \* CAMERA_BUFFERS
          MaxPictures, \* bound: pictures taken
          MaxFrames,   \* bound: publications begun
          MaxBoots     \* bound: starts of the capture process

ASSUME BoundsAssumption == {Buffers, MaxPictures, MaxFrames, MaxBoots} \subseteq Nat

VARIABLES mem,       \* the shared mapping
          camera,    \* the buffers the driver is to fill, those it has filled, what they
                     \* hold, and the number of pictures so far
          capture,   \* the writer
          pubs,      \* history: the frame_id and the picture of each publication
          reader,    \* the reader under observation
          sent       \* the latest frame the reader released, and how many it did

vars == <<mem, camera, capture, pubs, reader, sent>>

Chunks == {"ident", "state", "stamp"}
Halves == {"half1", "half2"}
Program == <<"half1", "half2", "meta", "timing", "pub", "id">>
Stores == Range(Program)
NoId == MaxFrames            \* last_frame_id = -1 before the first frame
ZeroHeader == [id |-> 0, meta |-> 0, seq |-> 0, flags |-> 0, pub |-> 0]
NoCopy == [half1 |-> 0, half2 |-> 0, timing |-> 0]
NoFrame == [h |-> ZeroHeader, copy |-> NoCopy, n |-> 0]

\* The header h with one 16-byte chunk taken from m.
WithChunk(h, m, chunk) ==
    CASE chunk = "ident" -> [h EXCEPT !.id = m.id, !.meta = m.meta]
      [] chunk = "state" -> [h EXCEPT !.seq = m.seq, !.flags = m.flags]
      [] chunk = "stamp" -> [h EXCEPT !.pub = m.pub]

\* Of the chunks in todo, the one at the lowest address.
Lowest(todo) == IF "ident" \in todo THEN "ident"
                ELSE IF "state" \in todo THEN "state" ELSE "stamp"

(***************************************************************************)
(* The camera: a buffer goes back to the driver when its picture has been  *)
(* published.  The driver fills the buffers it has in turn.                *)
(***************************************************************************)
\* initMmapBuffers: the driver gets them all.
InitMmapBuffers == [empty |-> [b \in 1 .. Buffers |-> b], full |-> <<>>,
                    holds |-> [b \in 1 .. Buffers |-> 0], pictures |-> 0]

TakePicture ==
    /\ camera.empty # <<>> /\ camera.pictures < MaxPictures
    /\ camera' = [empty |-> Tail(camera.empty), full |-> Append(camera.full, Head(camera.empty)),
                  holds |-> [camera.holds EXCEPT ![Head(camera.empty)] = camera.pictures + 1],
                  pictures |-> camera.pictures + 1]
    /\ UNCHANGED <<mem, capture, pubs, reader, sent>>

WaitForFrame == camera.full # <<>>

\* The first VIDIOC_DQBUF.
Dequeue ==
    /\ capture.pc = "idle" /\ WaitForFrame
    /\ capture' = [capture EXCEPT !.pc = "drain", !.buffer = Head(camera.full), !.left = Buffers - 1]
    /\ camera' = [camera EXCEPT !.full = Tail(@)]
    /\ UNCHANGED <<mem, pubs, reader, sent>>

\* A newer picture is there: the old buffer is returned, and lost if it cannot be.
Drain ==
    /\ capture.pc = "drain" /\ capture.left > 0 /\ camera.full # <<>>
    /\ capture' = [capture EXCEPT !.buffer = Head(camera.full), !.left = @ - 1]
    /\ \E returned \in {<<>>, <<capture.buffer>>} :
          camera' = [camera EXCEPT !.full = Tail(@), !.empty = @ \o returned]
    /\ UNCHANGED <<mem, pubs, reader, sent>>

Drained == capture.pc = "drain" /\ (capture.left = 0 \/ camera.full = <<>>)

\* Not a JPEG, an error of the driver, or a size out of range.
SkipPicture ==
    /\ Drained
    /\ capture' = [capture EXCEPT !.pc = "return"]
    /\ UNCHANGED <<mem, camera, pubs, reader, sent>>

ReturnBuffer ==
    /\ capture.pc = "return"
    /\ capture' = [capture EXCEPT !.pc = "idle", !.buffer = 0]
    /\ camera' = [camera EXCEPT !.empty = Append(@, capture.buffer)]
    /\ UNCHANGED <<mem, pubs, reader, sent>>

(***************************************************************************)
(* The capture process.                                                    *)
(***************************************************************************)
\* A pass of the gateway takes milliseconds.  The restart of the capture takes
\* longer, and so does the camera from its start to its first frame.
BetweenPasses == reader.kind # "gateway" \/ reader.pc = "top"

BeginPublish ==
    /\ Drained /\ Len(pubs) < MaxFrames
    /\ Len(pubs) = capture.since => BetweenPasses
    /\ mem' = [mem EXCEPT !.seq = 2 * capture.writeSeq + 1]
    /\ capture' = [capture EXCEPT !.pc = "write", !.todo = Stores]
    /\ pubs' = Append(pubs, [id |-> capture.frameId, picture |-> camera.holds[capture.buffer]])
    /\ UNCHANGED <<camera, reader, sent>>

Store(f) ==
    /\ capture.pc = "write" /\ f \in capture.todo
    /\ mem' = CASE f = "id" -> [mem EXCEPT !.id = capture.frameId]
                [] f = "meta" -> [mem EXCEPT !.meta = Len(pubs), !.flags = 2]
                [] f \in Halves -> [mem EXCEPT ![f] = camera.holds[capture.buffer]]
                [] OTHER -> [mem EXCEPT ![f] = Len(pubs)]
    /\ capture' = [capture EXCEPT !.todo = @ \ {f}]
    /\ UNCHANGED <<camera, pubs, reader, sent>>

EndPublish ==
    /\ capture.pc = "write" /\ capture.todo = {}
    /\ mem' = [mem EXCEPT !.seq = 2 * (capture.writeSeq + 1)]
    /\ capture' = [capture EXCEPT !.pc = "return", !.frameId = @ + 1, !.writeSeq = @ + 1]
    /\ UNCHANGED <<camera, pubs, reader, sent>>

\* The process stops anywhere: five timeouts (the driver may have no buffer left),
\* a failed DQBUF or QBUF, a kill.  The stores it had issued, a prefix of the
\* program, still reach memory.  A start that fails is not seen by anyone.
Stop ==
    /\ capture.pc # "down" /\ capture.boot < MaxBoots
    /\ capture.pc = "write" =>
          \E n \in 0 .. Len(Program) :
              capture.todo = Range(SubSeq(Program, n + 1, Len(Program)))
    /\ capture' = [capture EXCEPT !.pc = "down", !.todo = {}, !.buffer = 0, !.left = 0]
    /\ camera' = [camera EXCEPT !.empty = <<>>, !.full = <<>>]
    /\ UNCHANGED <<mem, pubs, reader, sent>>

\* The supervisor starts it again, seconds later; numbering starts afresh, and the
\* camera streams before the slot is cleared.
Start ==
    /\ capture.pc = "down"
    /\ BetweenPasses
    /\ capture' = [pc |-> "clear", todo |-> Chunks, buffer |-> 0, left |-> 0, frameId |-> 0,
                   writeSeq |-> 0, boot |-> capture.boot + 1, since |-> Len(pubs)]
    /\ camera' = [InitMmapBuffers EXCEPT !.pictures = camera.pictures]
    /\ UNCHANGED <<mem, pubs, reader, sent>>

\* memset(header, 0, HEADER_SIZE), which is not under the sequence lock.
Clear(chunk) ==
    /\ capture.pc = "clear" /\ chunk = Lowest(capture.todo)
    /\ mem' = WithChunk(mem, ZeroHeader, chunk)
    /\ capture' = [capture EXCEPT !.todo = @ \ {chunk},
                                  !.pc = IF capture.todo = {chunk} THEN "idle" ELSE @]
    /\ UNCHANGED <<camera, pubs, reader, sent>>

(***************************************************************************)
(* The gateway: readStableHeader, the decision, the payload copy, the      *)
(* second check of write_idx.  A frame that is stale or finds the channel  *)
(* full is looked at again.                                                *)
(***************************************************************************)
Top(r) == [r EXCEPT !.pc = "top", !.todo = {}, !.h = ZeroHeader, !.again = ZeroHeader,
                    !.copy = NoCopy, !.seq1 = 0]
ReaderOnly == UNCHANGED <<mem, camera, capture, pubs>>

GwSeq1 ==
    /\ reader.kind = "gateway" /\ reader.pc = "top" /\ mem.seq % 2 = 0
    /\ reader' = [reader EXCEPT !.pc = "snap", !.todo = Chunks, !.seq1 = mem.seq]
    /\ ReaderOnly /\ UNCHANGED sent

GwSnap(chunk) ==
    /\ reader.kind = "gateway" /\ reader.pc = "snap" /\ chunk \in reader.todo
    /\ reader' = [reader EXCEPT !.h = WithChunk(@, mem, chunk), !.todo = @ \ {chunk}]
    /\ ReaderOnly /\ UNCHANGED sent

GwSeq2 ==
    /\ reader.kind = "gateway" /\ reader.pc = "snap" /\ reader.todo = {}
    /\ reader' = IF mem.seq = reader.seq1 THEN [reader EXCEPT !.pc = "decide"] ELSE Top(reader)
    /\ ReaderOnly /\ UNCHANGED sent

\* Faulty variant: a frame already sent is looked at as a new one.
IsNewToAll(r) == ~(r.h.meta = 0 /\ r.h.flags = 0)

IsNew(r) == ~(r.h.meta = 0 /\ r.h.flags = 0) /\ r.h.id # r.lastId

GwSkip ==      \* nothing yet, nothing new, stale, or the channel is full
    /\ reader.kind = "gateway" /\ reader.pc = "decide"
    /\ ~IsNew(reader) \/ reader.h.meta # 0
    /\ reader' = Top(reader)
    /\ ReaderOnly /\ UNCHANGED sent

GwInvalid ==   \* sizes of zero: the frame is dropped for good
    /\ reader.kind = "gateway" /\ reader.pc = "decide"
    /\ IsNew(reader) /\ reader.h.meta = 0
    /\ reader' = [Top(reader) EXCEPT !.lastId = reader.h.id]
    /\ ReaderOnly /\ UNCHANGED sent

GwTake ==      \* published within 100 ms: not before a restart, which takes longer
    /\ reader.kind = "gateway" /\ reader.pc = "decide"
    /\ IsNew(reader) /\ reader.h.meta # 0 /\ reader.h.pub > capture.since
    /\ reader' = [reader EXCEPT !.pc = "copy", !.todo = Halves]
    /\ ReaderOnly /\ UNCHANGED sent

GwCopy(half) ==
    /\ reader.kind = "gateway" /\ reader.pc = "copy" /\ half \in reader.todo
    /\ reader' = [reader EXCEPT !.copy[half] = mem[half], !.todo = @ \ {half}]
    /\ ReaderOnly /\ UNCHANGED sent

GwRelease ==
    /\ reader.kind = "gateway" /\ reader.pc = "copy" /\ reader.todo = {}
    /\ IF mem.seq = reader.h.seq
       THEN /\ sent' = [h |-> reader.h, copy |-> reader.copy, n |-> sent.n + 1]
            /\ reader' = [Top(reader) EXCEPT !.lastId = reader.h.id]
       ELSE reader' = Top(reader) /\ UNCHANGED sent
    /\ ReaderOnly

(***************************************************************************)
(* LatestFrameSource.readLatest(after): header, payload, timing sidecar,   *)
(* header again; each is a file read, each between two awaits.             *)
(***************************************************************************)
NodeBegin ==
    /\ reader.kind = "node" /\ reader.pc = "top"
    /\ reader' = [reader EXCEPT !.pc = "header", !.todo = Chunks]
    /\ ReaderOnly /\ UNCHANGED sent

NodeHeader(chunk) ==
    /\ reader.kind = "node" /\ reader.pc = "header" /\ reader.todo # {}
    /\ chunk = Lowest(reader.todo)
    /\ reader' = [reader EXCEPT !.h = WithChunk(@, mem, chunk), !.todo = @ \ {chunk}]
    /\ ReaderOnly /\ UNCHANGED sent

NodeAdmit ==
    /\ reader.kind = "node" /\ reader.pc = "header" /\ reader.todo = {}
    /\ reader' = IF reader.h.seq % 2 = 1 \/ reader.h.meta = 0 \/ reader.h.pub <= reader.after
                 THEN Top(reader)
                 ELSE [reader EXCEPT !.pc = "copy", !.todo = Halves]
    /\ ReaderOnly /\ UNCHANGED sent

NodeCopy(half) ==
    /\ reader.kind = "node" /\ reader.pc = "copy" /\ half \in reader.todo
    /\ reader' = [reader EXCEPT !.copy[half] = mem[half], !.todo = @ \ {half}]
    /\ ReaderOnly /\ UNCHANGED sent

NodeTiming ==  \* read only when the flag announces it, and it must match the header
    /\ reader.kind = "node" /\ reader.pc = "copy" /\ reader.todo = {}
    /\ reader' = IF reader.h.flags = 2 /\ mem.timing # reader.h.pub
                 THEN Top(reader)
                 ELSE [reader EXCEPT !.pc = "verify", !.todo = Chunks,
                                     !.copy.timing = IF reader.h.flags = 2 THEN mem.timing ELSE 0]
    /\ ReaderOnly /\ UNCHANGED sent

NodeVerify(chunk) ==
    /\ reader.kind = "node" /\ reader.pc = "verify" /\ reader.todo # {}
    /\ chunk = Lowest(reader.todo)
    /\ reader' = [reader EXCEPT !.again = WithChunk(@, mem, chunk), !.todo = @ \ {chunk}]
    /\ ReaderOnly /\ UNCHANGED sent

\* Faulty variant: only the sequence of the two headers is compared.
SameSequence(r) == r.again.seq = r.h.seq

SameHeader(r) == r.again = r.h

NodeReturn ==
    /\ reader.kind = "node" /\ reader.pc = "verify" /\ reader.todo = {}
    /\ IF SameHeader(reader)
       THEN /\ sent' = [h |-> reader.h, copy |-> reader.copy, n |-> sent.n + 1]
            /\ reader' = [Top(reader) EXCEPT !.after = reader.h.pub]
       ELSE reader' = Top(reader) /\ UNCHANGED sent
    /\ ReaderOnly

Init ==
    /\ mem = [id |-> 0, meta |-> 0, seq |-> 0, flags |-> 0, pub |-> 0,
              half1 |-> 0, half2 |-> 0, timing |-> 0]
    /\ camera = InitMmapBuffers
    /\ capture = [pc |-> "idle", todo |-> {}, buffer |-> 0, left |-> 0, frameId |-> 0,
                  writeSeq |-> 0, boot |-> 1, since |-> 0]
    /\ pubs = <<>> /\ sent = NoFrame
    /\ reader \in [kind : {"gateway", "node"}, pc : {"top"}, todo : {{}}, h : {ZeroHeader},
                   again : {ZeroHeader}, copy : {NoCopy}, seq1 : {0},
                   lastId : {NoId}, after : {0}]

Capture == \/ TakePicture \/ Dequeue \/ Drain \/ SkipPicture \/ ReturnBuffer
           \/ BeginPublish \/ \E f \in Stores : Store(f) \/ EndPublish
           \/ Stop \/ Start \/ \E chunk \in Chunks : Clear(chunk)
Gateway == \/ GwSeq1 \/ \E chunk \in Chunks : GwSnap(chunk) \/ GwSeq2
           \/ GwSkip \/ GwInvalid \/ GwTake
           \/ \E half \in Halves : GwCopy(half) \/ GwRelease
Node == \/ NodeBegin \/ \E chunk \in Chunks : NodeHeader(chunk) \/ NodeAdmit
        \/ \E half \in Halves : NodeCopy(half) \/ NodeTiming
        \/ \E chunk \in Chunks : NodeVerify(chunk) \/ NodeReturn

Next == Capture \/ Gateway \/ Node

Spec == Init /\ [][Next]_vars

(***************************************************************************)
(* Properties.                                                             *)
(***************************************************************************)
\* One publication, all of it, of one picture and under its own frame_id.
Whole(frame) ==
    /\ frame.h.pub \in 1 .. Len(pubs)
    /\ frame.h.meta = frame.h.pub
    /\ LET published == pubs[frame.h.pub]
       IN  /\ frame.h.id = published.id
           /\ frame.copy.half1 = published.picture /\ frame.copy.half2 = published.picture
    /\ frame.copy.timing \in {0, frame.h.pub}

\* No reader ever releases a frame made of two publications or of an unfinished
\* one: not the gateway, which checks only the sequence counter again
\* (webrtc-gateway/src/main.cpp:491), and not the Node server, although the
\* capture may restart and repeat its counters inside one read
\* (latest-source.js:65-67).
FramesAreWhole == sent # NoFrame => Whole(sent)

\* A released frame is newer than the one before: no publication is repeated
\* or overtaken, through restarts of the capture and its numbering, and so is no
\* picture of the camera, of whose buffers several may be filled.
FramesMoveForward ==
    [][sent' # sent => sent'.h.pub > sent.h.pub /\ sent'.copy.half1 > sent.copy.half1]_vars
=============================================================================
