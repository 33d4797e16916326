--------------------------- MODULE LatestSession ---------------------------
(***************************************************************************)
(* The WebSocket transport `latest': the credit protocol between           *)
(* attachLatestSession (signaling-server/latest-session.js) and the page   *)
(* (public/index.html with public/latest-renderer.js), over a connection   *)
(* that may break and be made again.                                       *)
(*                                                                         *)
(* A frame is its publication number.  The shared memory behind readLatest *)
(* is SharedFrame: here a read returns the newest publication, nothing, or *)
(* fails.  `flow' is the page's choice: one credit returned when a frame   *)
(* is decoded, one returned when it is received, two returned when decoded.*)
(***************************************************************************)
EXTENDS Naturals, Sequences, FiniteSets

CONSTANTS MaxFrames,  \* bound: publications of the camera
          MaxErrors,  \* bound: failed reads of the shared memory
          MaxLosses   \* bound: connections lost

ASSUME BoundsAssumption ==
    MaxFrames \in Nat \ {0} /\ MaxErrors \in Nat /\ MaxLosses \in Nat

VARIABLES flow,     \* flowMode of the page
          camera,   \* the slot in shared memory: [newest, writing]
          session,  \* the variables of attachLatestSession
          viewer,   \* the variables of the page and its renderer
          toServer, \* the two directions
          toPage,   \* of the WebSocket
          open,     \* is there a connection?
          budget    \* failures left: [errors, losses]

sessionVars == <<flow, camera, session, viewer, toServer, toPage, open, budget>>

None == 0                            \* no publication has this number
Wait == [type |-> "frame_wait"]
Fail == [type |-> "frame_error"]
Frame(p) == [type |-> "frame", p |-> p]
FramesIn(queue) == {queue[i].p : i \in {j \in 1 .. Len(queue) : queue[j].type = "frame"}}

Window == IF flow = "window2" THEN 2 ELSE 1

NewSession == [started |-> FALSE, pump |-> "idle", last |-> 0, inflight |-> {}]
NewViewer == [latest |-> 0, pending |-> None, rendering |-> None, shown |-> 0, retry |-> FALSE,
              stray |-> 0]

(***************************************************************************)
(* The server.  pump() is one loop at a time: reading, or awaiting the     *)
(* callback of ws.send; it is idle when every credit is out.               *)
(***************************************************************************)
Pump(s) == IF s.pump = "idle" /\ Cardinality(s.inflight) < Window
           THEN [s EXCEPT !.pump = "read"] ELSE s

\* Faulty variant: the retry after a wait is taken for a duplicate.
CreditedOnce(s, after) == (~s.started /\ after = 0) \/ after \in s.inflight

\* The request is the first one, for frames after 0, or returns a credit, or
\* repeats the last frame's when no credit is out.
Credited(s, after) == \/ ~s.started /\ after = 0
                      \/ after \in s.inflight
                      \/ s.inflight = {} /\ after = s.last

\* Faulty variant: a request returns every credit there is.
OnRequestAll ==
    /\ open /\ toServer # <<>>
    /\ toServer' = Tail(toServer)
    /\ session' = IF Credited(session, Head(toServer))
                  THEN Pump([session EXCEPT !.started = TRUE, !.inflight = {}])
                  ELSE session
    /\ UNCHANGED <<flow, camera, viewer, toPage, open, budget>>

OnRequest ==
    /\ open /\ toServer # <<>>
    /\ toServer' = Tail(toServer)
    /\ LET after == Head(toServer) IN
       session' = IF Credited(session, after)
                  THEN Pump([session EXCEPT !.started = TRUE, !.inflight = @ \ {after}])
                  ELSE session
    /\ UNCHANGED <<flow, camera, viewer, toPage, open, budget>>

\* readLatest finds nothing while the slot is written, or without a new frame.
Readable == camera.newest > session.last /\ ~camera.writing

\* Faulty variant: the publication sent is not noted.
ReadFrameAgain ==
    /\ open /\ session.pump = "read" /\ Readable
    /\ session' = [session EXCEPT !.pump = "send", !.inflight = @ \union {camera.newest}]
    /\ toPage' = Append(toPage, Frame(camera.newest))
    /\ UNCHANGED <<flow, camera, viewer, toServer, open, budget>>

ReadFrame ==
    /\ open /\ session.pump = "read" /\ Readable
    /\ session' = [session EXCEPT !.pump = "send", !.last = camera.newest,
                                  !.inflight = @ \union {camera.newest}]
    /\ toPage' = Append(toPage, Frame(camera.newest))
    /\ UNCHANGED <<flow, camera, viewer, toServer, open, budget>>

\* sendJson drops the message while the socket still buffers a frame.
SendJson(message) == \/ toPage' = Append(toPage, message)
                     \/ FramesIn(toPage) # {} /\ toPage' = toPage

\* Nothing to read for waitMs.
ReadTimesOut ==
    /\ open /\ session.pump = "read"
    /\ ~Readable
    /\ session' = [session EXCEPT !.pump = "idle"]
    /\ SendJson(Wait)
    /\ UNCHANGED <<flow, camera, viewer, toServer, open, budget>>

ReadFails ==
    /\ open /\ session.pump = "read" /\ budget.errors > 0
    /\ budget' = [budget EXCEPT !.errors = @ - 1]
    /\ session' = [session EXCEPT !.pump = "idle"]
    /\ SendJson(Fail)
    /\ UNCHANGED <<flow, camera, viewer, toServer, open>>

\* The callback of ws.send, before or after the page has the frame.
SendDone ==
    /\ open /\ session.pump = "send"
    /\ session' = Pump([session EXCEPT !.pump = "idle"])
    /\ UNCHANGED <<flow, camera, viewer, toServer, toPage, open, budget>>

(***************************************************************************)
(* The page.  requestLatestFrame(p) clears the retry timer and asks for    *)
(* what follows p.                                                         *)
(***************************************************************************)
Released(p) == IF flow = "receive" THEN <<>> ELSE <<p>>

\* LatestRenderer.enqueue with drain: a pending frame is discarded and its
\* credit returned; the new one is rendered when the renderer is free.
OnFrame(p) ==
    LET asked == (IF flow = "receive" THEN <<p>> ELSE <<>>)
                 \o (IF viewer.pending = None THEN <<>> ELSE Released(viewer.pending))
        free == viewer.rendering = None
    IN /\ viewer' = [viewer EXCEPT !.latest = p,
                                   !.retry = IF asked = <<>> THEN @ ELSE FALSE,
                                   !.rendering = IF free THEN p ELSE @,
                                   !.pending = IF free THEN None ELSE p]
       /\ toServer' = toServer \o asked

\* A notice sets latestRetry; a timer already set is then out of clearTimeout's
\* reach and fires for itself, on whatever connection there is.
Receive ==
    /\ open /\ toPage # <<>>
    /\ toPage' = Tail(toPage)
    /\ LET message == Head(toPage) IN
       IF message.type = "frame"
       THEN OnFrame(message.p)
       ELSE /\ viewer' = [viewer EXCEPT !.retry = TRUE,
                                        !.stray = IF viewer.retry THEN @ + 1 ELSE @]
            /\ UNCHANGED toServer
    /\ UNCHANGED <<flow, camera, session, open, budget>>

RenderDone ==
    /\ open /\ viewer.rendering # None
    /\ viewer' = [viewer EXCEPT !.shown = viewer.rendering, !.rendering = viewer.pending,
                                !.pending = None,
                                !.retry = IF flow = "receive" THEN @ ELSE FALSE]
    /\ toServer' = toServer \o Released(viewer.rendering)
    /\ UNCHANGED <<flow, camera, session, toPage, open, budget>>

RetryFires ==
    /\ open /\ viewer.retry
    /\ viewer' = [viewer EXCEPT !.retry = FALSE]
    /\ toServer' = Append(toServer, viewer.latest)
    /\ UNCHANGED <<flow, camera, session, toPage, open, budget>>

StrayFires ==
    /\ viewer.stray > 0
    /\ viewer' = [viewer EXCEPT !.stray = @ - 1, !.retry = FALSE]
    /\ toServer' = IF open THEN Append(toServer, viewer.latest) ELSE toServer
    /\ UNCHANGED <<flow, camera, session, toPage, open, budget>>

(***************************************************************************)
(* The connection and the camera.                                          *)
(***************************************************************************)
Disconnect ==
    /\ open /\ budget.losses > 0
    /\ budget' = [budget EXCEPT !.losses = @ - 1]
    /\ open' = FALSE /\ toServer' = <<>> /\ toPage' = <<>>
    /\ session' = NewSession /\ viewer' = [NewViewer EXCEPT !.stray = viewer.stray]
    /\ UNCHANGED <<flow, camera>>

Connect ==
    /\ ~open
    /\ open' = TRUE /\ toServer' = <<viewer.latest>>
    /\ UNCHANGED <<flow, camera, session, viewer, toPage, budget>>

BeginPublish ==
    /\ camera.newest < MaxFrames /\ ~camera.writing
    /\ camera' = [camera EXCEPT !.writing = TRUE]
    /\ UNCHANGED <<flow, session, viewer, toServer, toPage, open, budget>>

EndPublish ==
    /\ camera.writing
    /\ camera' = [newest |-> camera.newest + 1, writing |-> FALSE]
    /\ UNCHANGED <<flow, session, viewer, toServer, toPage, open, budget>>

SessionInit ==
    /\ flow \in {"decode", "receive", "window2"}
    /\ camera = [newest |-> 0, writing |-> FALSE]
    /\ session = NewSession /\ viewer = NewViewer
    /\ toServer = <<>> /\ toPage = <<>> /\ open = FALSE
    /\ budget = [errors |-> MaxErrors, losses |-> MaxLosses]

Server == OnRequest \/ ReadFrame \/ ReadTimesOut \/ ReadFails \/ SendDone
Page == Receive \/ RenderDone \/ RetryFires \/ StrayFires
SessionNext == Server \/ Page \/ Disconnect \/ Connect \/ BeginPublish \/ EndPublish

\* The event loops of both ends run and TCP delivers; nothing obliges the
\* camera to publish, a read to time out or anything to fail.
SessionFairness ==
    /\ WF_sessionVars(OnRequest) /\ WF_sessionVars(ReadFrame) /\ WF_sessionVars(SendDone)
    /\ WF_sessionVars(Receive) /\ WF_sessionVars(RenderDone) /\ WF_sessionVars(RetryFires) /\ WF_sessionVars(StrayFires)
    /\ WF_sessionVars(Connect)

SessionSpec == SessionInit /\ [][SessionNext]_sessionVars /\ SessionFairness

(***************************************************************************)
(* Properties.                                                             *)
(***************************************************************************)
Frames == 1 .. MaxFrames
\* Every frame still on its way to the page holds a credit, so the window of
\* the first request bounds what the network and the socket buffer hold, in
\* every flow and whatever is repeated (latest-session.js:57-60).
TransitHoldsCredit ==
    /\ FramesIn(toPage) \subseteq session.inflight
    /\ Cardinality(session.inflight) <= Window

\* Through one connection every publication reaches the page at most once and
\* in the order of publication, and the screen never goes back.
EachFrameOnce ==
    /\ viewer.rendering # None => viewer.shown < viewer.rendering
    /\ viewer.pending # None => viewer.shown < viewer.pending /\ viewer.rendering < viewer.pending
    /\ \A p \in FramesIn(toPage) : viewer.shown < p /\ viewer.rendering < p /\ viewer.pending < p
    /\ \A i, j \in DOMAIN toPage :
          i < j /\ toPage[i].type = "frame" /\ toPage[j].type = "frame" => toPage[i].p < toPage[j].p

\* No credit is ever lost: while a connection stays, the newest publication
\* is shown, unless the camera writes over it, whatever waits, read errors,
\* retries, dropped notices and callbacks came before.
NewestIsShown ==
    \A p \in Frames :
        (open /\ camera.newest = p) ~> \/ ~open \/ camera.writing
                                       \/ camera.newest > p \/ viewer.shown >= p
=============================================================================
