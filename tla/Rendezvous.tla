----------------------------- MODULE Rendezvous -----------------------------
(***************************************************************************)
(* How a viewer page and the WebRTC gateway find each other: the relay of  *)
(* signaling-server/server.js, the signaling client and the supervised     *)
(* lives of the gateway process (webrtc-gateway/src/main.cpp), and the     *)
(* page (public/index.html, WebRTC mode).                                  *)
(*                                                                         *)
(* A gateway is one life of the process, a page is one load of the page.   *)
(* An offer and the candidates after it are named by their gateway, an     *)
(* answer by its page and the offer it answers.  Every socket carries its  *)
(* messages in order; nothing orders two sockets.                          *)
(***************************************************************************)
EXTENDS Naturals, FiniteSets, SequencesExt

CONSTANTS MaxPages,     \* loads of the page
          MaxGateways,  \* bound on the lives of the gateway
          MaxFaults     \* killed gateways, killed servers, broken media paths

ASSUME RendezvousAssumption ==
    MaxPages \in Nat \ {0} /\ MaxGateways \in Nat \ {0} /\ MaxFaults \in Nat

VARIABLES server,    \* the module variables of server.js
          gateway,   \* the running life of the gateway
          pages,     \* the loads of the page
          up,        \* per socket, what the client sent and the server has not handled
          down,      \* per socket, what the server sent and the client has not handled
          faults,    \* faults so far
          answered   \* history: the offers the server has seen an answer to

vars == <<server, gateway, pages, up, down, faults, answered>>

Pages == 1 .. MaxPages
Gateways == 1 .. MaxGateways
G(g) == <<"gateway", g>>
P(p) == <<"page", p>>
Sockets == {G(g) : g \in Gateways} \union {P(p) : p \in Pages}

Message(kind, g, p) == [kind |-> kind, gateway |-> g, page |-> p]
Offer(g) == Message("offer", g, 0)
Answer(p, g) == Message("answer", g, p)
GatewayCandidate(g) == Message("candidate", g, 0)
Reset == Message("viewer_reset", 0, 0)
Close == Message("close", 0, 0)
NoAnswer == Message("none", 0, 0)

(***************************************************************************)
(* Sockets.  A close ends a queue for good: what is sent after it goes     *)
(* nowhere, whether the other end closed, died or was replaced.            *)
(***************************************************************************)
Ended(queue) == queue # <<>> /\ Last(queue) = Close

Send(channels, socket, messages) ==
    IF socket \notin Sockets \/ Ended(channels[socket]) THEN channels
    ELSE [channels EXCEPT ![socket] = @ \o messages]

Drop(queue) == IF queue = <<Close>> THEN queue ELSE Tail(queue)

(***************************************************************************)
(* server.js.  0 is null.                                                  *)
(***************************************************************************)
BroadcastToViewers(s, message) ==
    IF s.viewer # 0 /\ pages[s.viewer].role = "viewer"
    THEN Send(down, P(s.viewer), <<message>>) ELSE down

NoSession(s) == [s EXCEPT !.offer = 0, !.candidates = <<>>, !.used = FALSE]

RemoveSocket(s, socket) ==
    IF socket = G(s.gateway) THEN [NoSession(s) EXCEPT !.gateway = 0]
    ELSE IF socket = P(s.viewer) THEN [s EXCEPT !.viewer = 0]
    ELSE s

\* rememberGatewayMessage, whichever gateway's socket the message came from.
Remember(s, m) ==
    IF m.kind = "offer" THEN [s EXCEPT !.offer = m.gateway, !.candidates = <<>>]
    ELSE [s EXCEPT !.candidates = Append(@, m.gateway)]

ServerHandlesGateway(g) ==
    /\ server.alive /\ up[G(g)] \notin {<<>>, <<Close>>}
    /\ up' = [up EXCEPT ![G(g)] = Tail(@)]
    /\ server' = Remember(server, Head(up[G(g)]))
    /\ down' = BroadcastToViewers(server, Head(up[G(g)]))
    /\ UNCHANGED <<gateway, pages, faults, answered>>

\* Faulty variant: a page that was replaced still talks to the gateway.
AnyPageSpeaks(p) == p \in Pages
Speaks(p) == p = server.viewer

ServerHandlesPage(p) ==
    /\ server.alive /\ up[P(p)] \notin {<<>>, <<Close>>}
    /\ up' = [up EXCEPT ![P(p)] = Tail(@)]
    /\ LET m == Head(up[P(p)])
           answers == Speaks(p) /\ m.kind = "answer"
       IN /\ server' = [server EXCEPT !.used = @ \/ answers]
          /\ down' = IF Speaks(p) THEN Send(down, G(server.gateway), <<m>>) ELSE down
          /\ answered' = answered \union (IF answers THEN {m.gateway} ELSE {})
    /\ UNCHANGED <<gateway, pages, faults>>

ServerSeesClose(socket) ==
    /\ server.alive /\ up[socket] = <<Close>>
    /\ server' = RemoveSocket(server, socket) /\ server' # server
    /\ UNCHANGED <<gateway, pages, up, down, faults, answered>>

(***************************************************************************)
(* A connection replaces the one before it, of whichever role.  When the   *)
(* session was used, a new viewer makes the gateway start over; otherwise  *)
(* it is given the offer and the candidates remembered so far.             *)
(***************************************************************************)
\* Faulty variant: the session is never found used.
NeverResets(s) == FALSE
MustReset(s) == s.used

Remembered(s) == IF s.offer = 0 THEN <<>>
                 ELSE <<Offer(s.offer)>> \o [i \in DOMAIN s.candidates |->
                                               GatewayCandidate(s.candidates[i])]

OpenPage(p, role) ==
    /\ server.alive
    /\ pages[p].state = "unopened" /\ \A q \in 1 .. p - 1 : pages[q].state # "unopened"
    /\ pages' = [pages EXCEPT ![p].state = "open", ![p].role = role]
    /\ LET replaced == Send(down, P(server.viewer), <<Close>>)
           resets == role = "viewer" /\ MustReset(server)
       IN /\ server' = IF resets
                       THEN [server EXCEPT !.viewer = p, !.offer = 0, !.candidates = <<>>]
                       ELSE [server EXCEPT !.viewer = p]
          /\ down' = IF resets THEN Send(replaced, G(server.gateway), <<Reset>>)
                     ELSE IF role = "viewer" THEN Send(replaced, P(p), Remembered(server))
                     ELSE replaced
    /\ UNCHANGED <<gateway, up, faults, answered>>

\* A killed server is started again with no state; its sockets are closed.
Born(socket) == \/ \E g \in 1 .. gateway.life : socket = G(g)
                \/ \E p \in Pages : socket = P(p) /\ pages[p].state # "unopened"

ServerKilled ==
    /\ server.alive /\ faults < MaxFaults
    /\ faults' = faults + 1
    /\ server' = [NoSession(server) EXCEPT !.alive = FALSE, !.gateway = 0, !.viewer = 0]
    /\ up' = [x \in Sockets |-> IF Born(x) THEN <<Close>> ELSE <<>>]
    /\ down' = [x \in Sockets |->
                  IF Born(x) /\ ~Ended(down[x]) THEN Append(down[x], Close) ELSE down[x]]
    /\ UNCHANGED <<gateway, pages, answered>>

ServerStarts ==
    /\ ~server.alive
    /\ server' = [server EXCEPT !.alive = TRUE]
    /\ UNCHANGED <<gateway, pages, up, down, faults, answered>>

(***************************************************************************)
(* The gateway process.  It starts over and over until it is connected;    *)
(* main() then builds its peer connection, which offers and gathers.       *)
(***************************************************************************)
Mine == G(gateway.life)

GatewayConnects ==
    /\ gateway.phase = "down" /\ server.alive /\ gateway.life < MaxGateways
    /\ gateway' = [life |-> gateway.life + 1, phase |-> "connected", signaling |-> TRUE,
                   restart |-> FALSE, gathered |-> FALSE, answer |-> NoAnswer,
                   streaming |-> FALSE, heard |-> {}]
    /\ server' = [NoSession(server) EXCEPT !.gateway = gateway.life + 1]
    /\ down' = Send(down, G(server.gateway), <<Close>>)
    /\ UNCHANGED <<pages, up, faults, answered>>

\* The queue is sent one message per writable callback: what the dead process
\* had queued has gone out up to some point.
SentBefore(queue) == {Append(SubSeq(queue, 1, n), Close) : n \in 0 .. Len(queue)}

Dies == /\ gateway' = [gateway EXCEPT !.phase = "down", !.streaming = FALSE]
        /\ \E queue \in (IF Ended(up[Mine]) THEN {up[Mine]} ELSE SentBefore(up[Mine])) :
              up' = [up EXCEPT ![Mine] = queue]
        /\ down' = [down EXCEPT ![Mine] = <<Close>>]

\* sendSignalingMessage: once the server is gone nothing is queued.
SendSignalingMessage(m) == IF gateway.signaling THEN Send(up, Mine, <<m>>) ELSE up

SetupWebRTC ==
    /\ gateway.phase = "connected" /\ gateway.signaling
    /\ gateway' = [gateway EXCEPT !.phase = "offered"]
    /\ up' = SendSignalingMessage(Offer(gateway.life))
    /\ UNCHANGED <<server, pages, down, faults, answered>>

GathersCandidates ==
    /\ gateway.phase = "offered" /\ ~gateway.gathered
    /\ gateway' = [gateway EXCEPT !.gathered = TRUE]
    /\ up' = SendSignalingMessage(GatewayCandidate(gateway.life))
    /\ UNCHANGED <<server, pages, down, faults, answered>>

\* handleSignalingMessage: a description that cannot be set is only logged.
HandleSignalingMessage(m) ==
    CASE m = Reset -> [gateway EXCEPT !.restart = TRUE]
      [] m.kind = "answer" -> [gateway EXCEPT !.answer = IF @ = NoAnswer THEN m ELSE @,
                                  !.heard = IF gateway.restart THEN @ ELSE @ \union {m.page}]
      [] OTHER -> gateway

\* callback_ws.  Until main() has made the peer connection the pointer is null
\* and a description or candidate is fatal.
GatewayReceives ==
    /\ gateway.phase # "down" /\ gateway.signaling /\ down[Mine] # <<>>
    /\ LET m == Head(down[Mine]) IN
       IF m.kind = "answer" /\ gateway.phase = "connected" THEN Dies
       ELSE /\ gateway' = IF m = Close
                          THEN [gateway EXCEPT !.signaling = FALSE, !.restart = TRUE]
                          ELSE HandleSignalingMessage(m)
            /\ down' = [down EXCEPT ![Mine] = Drop(@)]
            /\ UNCHANGED up
    /\ UNCHANGED <<server, pages, faults, answered>>

\* checkSessionRestart, polled by every loop of main().
Recycles == /\ gateway.phase # "down" /\ gateway.restart
            /\ Dies
            /\ UNCHANGED <<server, pages, faults, answered>>

GatewayKilled == /\ gateway.phase # "down" /\ faults < MaxFaults
                 /\ faults' = faults + 1
                 /\ Dies
                 /\ UNCHANGED <<server, pages, answered>>

(***************************************************************************)
(* ICE and what is above it: two descriptions that belong together         *)
(* connect; others fail, and the peer connection then reports Failed or    *)
(* Closed (onStateChange).                                                 *)
(***************************************************************************)
Belong(p) == /\ gateway.answer = Answer(p, gateway.life)
             /\ pages[p].state = "open" /\ pages[p].remote = gateway.life

MediaConnects ==
    /\ gateway.phase = "offered" /\ ~gateway.streaming
    /\ \E p \in Pages : Belong(p) /\ gateway.life \in pages[p].candidates
    /\ gateway' = [gateway EXCEPT !.streaming = TRUE]
    /\ UNCHANGED <<server, pages, up, down, faults, answered>>

\* ICE gives up after many seconds (retransmissions, the 30 s trickle timeout,
\* consent), when what was under way on the sockets has long been delivered.
Quiet == \A x \in Sockets : up[x] \in {<<>>, <<Close>>} /\ down[x] \in {<<>>, <<Close>>}

MediaFails ==
    /\ Quiet
    /\ gateway.phase = "offered" /\ gateway.answer # NoAnswer /\ ~gateway.restart
    /\ ~\E p \in Pages : Belong(p)
    /\ gateway' = [gateway EXCEPT !.restart = TRUE, !.streaming = FALSE]
    /\ UNCHANGED <<server, pages, up, down, faults, answered>>

MediaBreaks ==
    /\ gateway.streaming /\ ~gateway.restart /\ faults < MaxFaults
    /\ faults' = faults + 1
    /\ gateway' = [gateway EXCEPT !.restart = TRUE, !.streaming = FALSE]
    /\ UNCHANGED <<server, pages, up, down, answered>>

(***************************************************************************)
(* The page.  handleSignal runs one message at a time (signalQueue); an    *)
(* offer on top of another one starts a new peer connection.               *)
(***************************************************************************)
\* Faulty variant: the second offer goes to the connection that has one.
KeepsConnection(page, g) == IF page.remote # 0 THEN page ELSE
    [page EXCEPT !.remote = g, !.candidates = page.pending, !.pending = {}]

TakeOffer(page, g) ==
    [page EXCEPT !.remote = g, !.pending = {},
                 !.candidates = IF page.remote # 0 THEN {} ELSE page.pending]

TakeCandidate(page, g) ==
    IF page.remote = 0 THEN [page EXCEPT !.pending = @ \union {g}]
    ELSE [page EXCEPT !.candidates = @ \union {g}]

PageReceives(p) ==
    /\ pages[p].state = "open" /\ down[P(p)] # <<>>
    /\ LET m == Head(down[P(p)]) IN
       /\ pages' = [pages EXCEPT ![p] =
                       IF m = Close THEN [@ EXCEPT !.state = "closed"]
                       ELSE IF m.kind = "offer" THEN TakeOffer(@, m.gateway)
                       ELSE TakeCandidate(@, m.gateway)]
       /\ up' = IF m = Close THEN Send(up, P(p), <<Close>>)
                ELSE IF m.kind = "offer"
                THEN Send(up, P(p), <<Answer(p, m.gateway)>>) ELSE up
    /\ down' = [down EXCEPT ![P(p)] = Drop(@)]
    /\ UNCHANGED <<server, gateway, faults, answered>>

\* The user closes the tab, or loads the page again (and opens another).
UserCloses(p) ==
    /\ pages[p].state = "open"
    /\ pages' = [pages EXCEPT ![p].state = "closed"]
    /\ up' = Send(up, P(p), <<Close>>)
    /\ down' = [down EXCEPT ![P(p)] = <<Close>>]
    /\ UNCHANGED <<server, gateway, faults, answered>>

Init ==
    /\ server = [alive |-> TRUE, gateway |-> 0, viewer |-> 0, used |-> FALSE,
                 offer |-> 0, candidates |-> <<>>]
    /\ gateway = [life |-> 0, phase |-> "down", signaling |-> FALSE, restart |-> FALSE,
                  gathered |-> FALSE, answer |-> NoAnswer, streaming |-> FALSE, heard |-> {}]
    /\ pages = [p \in Pages |-> [state |-> "unopened", role |-> "viewer", remote |-> 0,
                                 pending |-> {}, candidates |-> {}]]
    /\ up = [x \in Sockets |-> <<>>] /\ down = [x \in Sockets |-> <<>>]
    /\ faults = 0 /\ answered = {}

ServerSteps == \/ \E g \in Gateways : ServerHandlesGateway(g)
               \/ \E p \in Pages : ServerHandlesPage(p)
               \/ \E x \in Sockets : ServerSeesClose(x)
               \/ ServerStarts
GatewaySteps == GatewayConnects \/ SetupWebRTC \/ GathersCandidates \/ GatewayReceives
                \/ MediaConnects \/ MediaFails
PageSteps == \E p \in Pages : PageReceives(p)
Faults == ServerKilled \/ GatewayKilled \/ MediaBreaks

Next == \/ ServerSteps \/ GatewaySteps \/ Recycles \/ PageSteps \/ Faults
        \/ \E p \in Pages, role \in {"viewer", "latest"} : OpenPage(p, role)
        \/ \E p \in Pages : UserCloses(p)

\* Every process runs and every socket delivers; nothing fails of necessity
\* and nobody is obliged to open or close a page.
Fairness == /\ \A g \in Gateways : WF_vars(ServerHandlesGateway(g))
            /\ \A p \in Pages : WF_vars(ServerHandlesPage(p)) /\ WF_vars(PageReceives(p))
            /\ \A x \in Sockets : WF_vars(ServerSeesClose(x))
            /\ WF_vars(ServerStarts) /\ WF_vars(GatewaySteps) /\ WF_vars(Recycles)

Spec == Init /\ [][Next]_vars /\ Fairness

(***************************************************************************)
(* Properties.                                                             *)
(***************************************************************************)
\* The offer of a session that was answered is given to no other page: a new
\* page gets it only while nobody answered it (server.js:204-219).
OpensNow(p) == pages[p].state = "unopened" /\ pages[p].state' = "open"
ConsumedOfferIsNotReplayed ==
    [][\A p \in Pages : OpensNow(p) =>
          \A i \in DOMAIN down'[P(p)] :
              down'[P(p)][i].kind = "offer" => down'[P(p)][i].gateway \notin answered]_vars

\* Until it is told to start over, a gateway hears the answers of one page
\* only, however the pages replace each other (server.js:239-246).
OnePagePerSession == Cardinality(gateway.heard) <= 1

\* When the faults and the changes of pages are over, the viewer page that is
\* open and was not replaced is connected to the running gateway, for good.
Served(p) == gateway.streaming /\ Belong(p) /\ ~gateway.restart
PageIsServed ==
    <>[](\A p \in Pages : pages[p].state = "open" /\ pages[p].role = "viewer" => Served(p))
=============================================================================
