-------------------------- MODULE SignalingProofs ---------------------------
(***************************************************************************)
(* Proof that a gateway hears one page until it is told to start over, and *)
(* that an offer somebody answered is replayed to nobody, for any number   *)
(* of pages, lives of the gateway and faults.                              *)
(*                                                                         *)
(* A life offers once, before anything else it sends; what the server      *)
(* remembers as the offer is thereby new when it comes.  A gateway that    *)
(* has heard a page, or has its answer under way, and has no order to      *)
(* start over under way, belongs to a session the server knows is used:    *)
(* the next viewer makes the server send that order first.                 *)
(***************************************************************************)
EXTENDS Rendezvous, LatestSession, FiniteSetTheorems, TLAPS

Kinds == {"offer", "answer", "candidate", "viewer_reset", "close", "none"}
Messages == [kind : Kinds, gateway : Nat, page : Nat]
Flags == BOOLEAN
Numbers == Seq(Nat)
Names == SUBSET Nat
ServerType == [alive : Flags, gateway : Nat, viewer : 0 .. MaxPages, used : Flags,
               offer : Nat, candidates : Numbers]
GatewayType == [life : Nat, phase : {"down", "connected", "offered"}, signaling : Flags,
                restart : Flags, gathered : Flags, answer : Messages, streaming : Flags,
                heard : Names]
PageType == [state : {"unopened", "open", "closed"}, role : {"viewer", "latest"},
             remote : Nat, pending : Names, candidates : Names]
ChannelType == [Sockets -> Seq(Messages)]

Typed == /\ server \in ServerType /\ gateway \in GatewayType /\ pages \in [Pages -> PageType]
         /\ up \in ChannelType /\ down \in ChannelType
         /\ answered \in Names /\ faults \in Nat

\* What has not begun has no messages, and the server knows nothing of it.
FreshGateways(life, u, d) ==
    \A g \in Gateways : g > life => u[G(g)] = <<>> /\ d[G(g)] = <<>>
FreshPages(ps, v, u, d) ==
    /\ \A p \in Pages : ps[p].state = "unopened" => u[P(p)] = <<>> /\ d[P(p)] = <<>>
    /\ v # 0 => ps[v].state # "unopened"

\* A page answers for itself, and only a page that is a viewer is offered anything.
PageSocket(queue, p) ==
    \A i \in DOMAIN queue : queue[i] = Close \/ (queue[i].kind = "answer" /\ queue[i].page = p)
Offered(queue, g) == \E i \in DOMAIN queue : queue[i].kind = "offer" /\ queue[i].gateway = g
Answers(queue, g) == \E i \in DOMAIN queue : queue[i].kind = "answer" /\ queue[i].gateway = g
PageSockets(ps, u, d) ==
    \A p \in Pages : /\ PageSocket(u[P(p)], p)
                     /\ ps[p].role # "viewer" => /\ u[P(p)] \in {<<>>, <<Close>>}
                                                 /\ \A g \in Nat : ~Offered(d[P(p)], g)

\* A life sends its offer first, and a life that has not made its connection nothing.
OfferIsFirst(queue, g) ==
    \A i \in DOMAIN queue : /\ queue[i] # Close => queue[i].gateway = g
                            /\ queue[i].kind = "offer" => i = 1
GatewaySockets(gw, u) ==
    /\ \A g \in Gateways : OfferIsFirst(u[G(g)], g)
    /\ gw.phase = "connected" => u[G(gw.life)] \in {<<>>, <<Close>>}

\* Who was given the offer of g: the server, a page, an answer, an answered offer.
Given(s, a, u, d, g) ==
    \/ s.offer = g \/ g \in a
    \/ \E p \in Pages : Answers(u[P(p)], g) \/ Offered(d[P(p)], g)
Made(gw, g) == g < gw.life \/ (g = gw.life /\ gw.phase # "connected")
OffersOnce(s, gw, a, u, d) ==
    \A g \in Gateways : Given(s, a, u, d, g) => Made(gw, g) /\ ~Offered(u[G(g)], g)
AnsweredIsUsed(s, a) == ~s.used /\ s.offer # 0 => s.offer \notin a

\* Nobody has closed the socket.
Open(queue) == \A i \in DOMAIN queue : queue[i] # Close

\* The pages a gateway hears before it is told to start over.
Ends == {Reset, Close}
Told(queue) == \E i \in DOMAIN queue : queue[i] \in Ends
Hears(queue, p) == \E i \in DOMAIN queue :
    /\ queue[i].kind = "answer" /\ queue[i].page = p
    /\ \A j \in DOMAIN queue : j <= i => queue[j] \notin Ends
Hearable(gw, d, p) == p \in gw.heard \/ Hears(d[G(gw.life)], p)
OnePage(gw, d) ==
    /\ \A p, q \in gw.heard : p = q
    /\ gw.phase # "down" /\ ~gw.restart =>
          \A p, q \in Nat : Hearable(gw, d, p) /\ Hearable(gw, d, q) => p = q
\* While it is not told, it is the server's gateway and the session is known to
\* be used by the page it hears.
Untold(gw, d) == gw.phase # "down" /\ ~gw.restart /\ ~Told(d[G(gw.life)])
Session(s, gw, ps, u, d) ==
    Untold(gw, d) =>
        /\ s.alive /\ s.gateway = gw.life
        /\ Open(u[G(gw.life)])
        /\ \A p \in Nat : Hearable(gw, d, p) =>
              /\ s.used
              /\ s.viewer # 0 /\ ps[s.viewer].role = "viewer" => s.viewer = p

Fresh == /\ server.gateway <= gateway.life /\ gateway.life <= MaxGateways
         /\ gateway.life = 0 => gateway.phase = "down"
         /\ FreshGateways(gateway.life, up, down)
         /\ FreshPages(pages, server.viewer, up, down)

Inv == /\ Typed /\ Fresh
       /\ PageSockets(pages, up, down) /\ GatewaySockets(gateway, up)
       /\ OffersOnce(server, gateway, answered, up, down)
       /\ AnsweredIsUsed(server, answered)
       /\ OnePage(gateway, down) /\ Session(server, gateway, pages, up, down)

-----------------------------------------------------------------------------
(***************************************************************************)
(* Messages, queues and sockets.                                           *)
(***************************************************************************)
LEMMA MessageFacts ==
  /\ Reset \in Messages /\ Close \in Messages /\ NoAnswer \in Messages
  /\ Reset.kind = "viewer_reset" /\ Close.kind = "close"
  /\ \A g \in Nat : /\ Offer(g) \in Messages /\ Offer(g).kind = "offer" /\ Offer(g).gateway = g
                    /\ GatewayCandidate(g) \in Messages
                    /\ GatewayCandidate(g).kind = "candidate" /\ GatewayCandidate(g).gateway = g
                    /\ \A p \in Nat : /\ Answer(p, g) \in Messages
                                      /\ Answer(p, g).kind = "answer"
                                      /\ Answer(p, g).gateway = g /\ Answer(p, g).page = p
BY DEF Reset, Close, NoAnswer, Offer, GatewayCandidate, Answer, Message, Messages, Kinds

LEMMA Apart ==
  /\ Close \in Ends /\ Reset \in Ends
  /\ \A m \in Messages : m.kind \in {"offer", "answer", "candidate"} => m \notin Ends /\ m # Close
BY MessageFacts DEF Ends

LEMMA SocketFacts ==
  /\ \A g \in Gateways : G(g) \in Sockets
  /\ \A p \in Pages : P(p) \in Sockets
  /\ \A g, p \in Nat : G(g) # P(p)
  /\ \A g, h \in Nat : (G(g) = G(h)) <=> g = h
  /\ \A p, q \in Nat : (P(p) = P(q)) <=> p = q
  /\ \A x \in Sockets : (\E g \in Gateways : x = G(g)) \/ (\E p \in Pages : x = P(p))
BY DEF Sockets, G, P

\* Pages and gateways are numbers from 1, and number 0 has no socket.
LEMMA Numbered ==
  /\ MaxPages \in Nat /\ MaxGateways \in Nat
  /\ \A p : p \in Pages <=> p \in Nat /\ p # 0 /\ p <= MaxPages
  /\ \A g : g \in Gateways <=> g \in Nat /\ g # 0 /\ g <= MaxGateways
  /\ \A p \in Pages : p \in 0 .. MaxPages
BY RendezvousAssumption DEF Pages, Gateways

LEMMA NoSocket == G(0) \notin Sockets /\ P(0) \notin Sockets
BY SocketFacts, Numbered, 0 \in Nat

LEMMA HeadTail ==
  ASSUME NEW S, NEW s \in Seq(S), s # <<>>
  PROVE  /\ Head(s) = s[1] /\ Head(s) \in S /\ 1 \in DOMAIN s
         /\ Tail(s) \in Seq(S)
         /\ \A i : i \in DOMAIN Tail(s) <=> i \in Nat \ {0} /\ i + 1 \in DOMAIN s
         /\ \A i \in DOMAIN Tail(s) : i + 1 \in DOMAIN s /\ Tail(s)[i] = s[i + 1]
         /\ \A i \in DOMAIN s : i # 1 => i - 1 \in DOMAIN Tail(s)
OBVIOUS

LEMMA Concat ==
  ASSUME NEW S, NEW s \in Seq(S), NEW t \in Seq(S)
  PROVE  /\ s \o t \in Seq(S)
         /\ \A i \in DOMAIN s : i \in DOMAIN (s \o t) /\ (s \o t)[i] = s[i]
         /\ \A i \in DOMAIN (s \o t) : i \in DOMAIN s \/ (\E j \in DOMAIN t : (s \o t)[i] = t[j])
<1>1. /\ s \o t \in Seq(S) /\ Len(s \o t) = Len(s) + Len(t)
      /\ Len(s) \in Nat /\ Len(t) \in Nat
      /\ DOMAIN s = 1 .. Len(s) /\ DOMAIN t = 1 .. Len(t)
      /\ DOMAIN (s \o t) = 1 .. Len(s) + Len(t)
      /\ \A i \in 1 .. Len(s) + Len(t) :
            (s \o t)[i] = IF i <= Len(s) THEN s[i] ELSE t[i - Len(s)]
  OBVIOUS
<1>2. ASSUME NEW i \in 1 .. Len(s) + Len(t), i \notin 1 .. Len(s)
      PROVE  i - Len(s) \in DOMAIN t /\ (s \o t)[i] = t[i - Len(s)]
  BY <1>1, <1>2
<1> QED BY <1>1, <1>2

LEMMA AtTheEnd ==
  ASSUME NEW S, NEW s \in Seq(S), NEW m \in S
  PROVE  /\ s \o <<m>> \in Seq(S) /\ Len(s) \in Nat /\ DOMAIN s = 1 .. Len(s)
         /\ DOMAIN (s \o <<m>>) = 1 .. Len(s) + 1
         /\ (s \o <<m>>)[Len(s) + 1] = m
         /\ \A i \in 1 .. Len(s) : (s \o <<m>>)[i] = s[i]
OBVIOUS

LEMMA DropFacts ==
  ASSUME NEW q \in Seq(Messages), q # <<>>
  PROVE  /\ Drop(q) \in Seq(Messages)
         /\ Drop(q) = Tail(q) \/ Drop(q) = q
         /\ Head(q) # Close => Drop(q) = Tail(q)
<1>1. q = <<Close>> => Head(q) = Close
  OBVIOUS
<1> QED BY <1>1, HeadTail DEF Drop

\* A queue with nothing that ends it in it has not ended.
LEMMA NotEnded ==
  ASSUME NEW q \in Seq(Messages), Open(q)
  PROVE  ~Ended(q)
BY DEF Ended, Last, Open

LEMMA OneMessage ==
  ASSUME NEW m \in Messages
  PROVE  <<m>> \in Seq(Messages) /\ DOMAIN <<m>> = {1} /\ <<m>>[1] = m /\ <<m>> # <<>>
         /\ Len(<<m>>) = 1
OBVIOUS

\* What is sent joins the end of one queue, unless that queue has ended.
LEMMA SendFacts ==
  ASSUME NEW ch \in ChannelType, NEW x, NEW ms \in Seq(Messages)
  PROVE  /\ Send(ch, x, ms) \in ChannelType
         /\ \A y \in Sockets : y # x => Send(ch, x, ms)[y] = ch[y]
         /\ x \in Sockets => /\ Send(ch, x, ms)[x] = ch[x] \/ Send(ch, x, ms)[x] = ch[x] \o ms
                             /\ ~Ended(ch[x]) => Send(ch, x, ms)[x] = ch[x] \o ms
                             /\ Ended(ch[x]) => Send(ch, x, ms)[x] = ch[x]
<1>1. CASE x \notin Sockets \/ Ended(ch[x])
  BY <1>1 DEF Send
<1>2. CASE x \in Sockets /\ ~Ended(ch[x])
  <2>1. Send(ch, x, ms) = [ch EXCEPT ![x] = ch[x] \o ms]
    BY <1>2 DEF Send
  <2>2. ch[x] \in Seq(Messages) /\ ch[x] \o ms \in Seq(Messages)
    BY <1>2, Concat DEF ChannelType
  <2> QED BY <1>2, <2>1, <2>2 DEF ChannelType
<1> QED BY <1>1, <1>2

With(q, m) == q \o <<m>>

LEMMA SendOne ==
  ASSUME NEW ch \in ChannelType, NEW x, NEW m \in Messages
  PROVE  /\ Send(ch, x, <<m>>) \in ChannelType
         /\ \A y \in Sockets : y # x => Send(ch, x, <<m>>)[y] = ch[y]
         /\ x \in Sockets => /\ Send(ch, x, <<m>>)[x] \in {ch[x], With(ch[x], m)}
                             /\ ~Ended(ch[x]) => Send(ch, x, <<m>>)[x] = With(ch[x], m)
                             /\ Ended(ch[x]) => Send(ch, x, <<m>>)[x] = ch[x]
         /\ \A y \in Sockets : Send(ch, x, <<m>>)[y] # ch[y] =>
               y = x /\ Send(ch, x, <<m>>)[y] = With(ch[y], m)
<1>1. PICK ms \in Seq(Messages) : ms = <<m>>
  BY OneMessage
<1> HIDE DEF ChannelType
<1>2. /\ Send(ch, x, ms) \in ChannelType
      /\ \A y \in Sockets : y # x => Send(ch, x, ms)[y] = ch[y]
      /\ x \in Sockets => /\ Send(ch, x, ms)[x] = ch[x] \/ Send(ch, x, ms)[x] = ch[x] \o ms
                          /\ ~Ended(ch[x]) => Send(ch, x, ms)[x] = ch[x] \o ms
                          /\ Ended(ch[x]) => Send(ch, x, ms)[x] = ch[x]
  BY SendFacts
<1> QED BY <1>1, <1>2 DEF With

(***************************************************************************)
(* What a queue says when its first message is taken or more is sent.      *)
(***************************************************************************)
LEMMA Taken ==
  ASSUME NEW q \in Seq(Messages), q # <<>>
  PROVE  /\ \A g : Offered(Tail(q), g) => Offered(q, g)
         /\ \A g : Answers(Tail(q), g) => Answers(q, g)
         /\ \A p : PageSocket(q, p) => PageSocket(Tail(q), p)
         /\ \A g : OfferIsFirst(q, g) => OfferIsFirst(Tail(q), g) /\ \A h : ~Offered(Tail(q), h)
         /\ Head(q).kind = "offer" => Offered(q, Head(q).gateway)
         /\ Head(q).kind = "answer" => Answers(q, Head(q).gateway)
         /\ Open(q) => Open(Tail(q))
<1> DEFINE t == Tail(q)
<1>1. /\ Head(q) = q[1] /\ 1 \in DOMAIN q /\ t \in Seq(Messages)
      /\ \A i \in DOMAIN t : i \in Nat \ {0} /\ i + 1 \in DOMAIN q /\ t[i] = q[i + 1]
  BY HeadTail
<1> HIDE DEF t
<1>2. \A i \in DOMAIN t : \E j \in DOMAIN q : j # 1 /\ t[i] = q[j]
  BY <1>1
<1>3. ASSUME NEW g, OfferIsFirst(q, g)
      PROVE  OfferIsFirst(t, g) /\ \A h : ~Offered(t, h)
  BY <1>2, <1>3 DEF OfferIsFirst, Offered
<1>4. \A g : Offered(t, g) => Offered(q, g)
  BY <1>2 DEF Offered
<1>5. \A g : Answers(t, g) => Answers(q, g)
  BY <1>2 DEF Answers
<1>6. \A p : PageSocket(q, p) => PageSocket(t, p)
  BY <1>2 DEF PageSocket
<1>7. /\ Head(q).kind = "offer" => Offered(q, Head(q).gateway)
      /\ Head(q).kind = "answer" => Answers(q, Head(q).gateway)
  BY <1>1 DEF Offered, Answers
<1>8. Open(q) => Open(t)
  BY <1>2 DEF Open
<1> QED BY <1>3, <1>4, <1>5, <1>6, <1>7, <1>8 DEF t

LEMMA Joined ==
  ASSUME NEW q \in Seq(Messages), NEW r \in Seq(Messages)
  PROVE  /\ \A g : Offered(q \o r, g) => Offered(q, g) \/ Offered(r, g)
         /\ \A g : Answers(q \o r, g) => Answers(q, g) \/ Answers(r, g)
         /\ \A p : PageSocket(q, p) /\ PageSocket(r, p) => PageSocket(q \o r, p)
<1> DEFINE t == q \o r
<1>1. \A i \in DOMAIN t : (\E j \in DOMAIN q : t[i] = q[j]) \/ (\E j \in DOMAIN r : t[i] = r[j])
  BY Concat
<1> HIDE DEF t
<1>2. \A g : Offered(t, g) => Offered(q, g) \/ Offered(r, g)
  BY <1>1 DEF Offered
<1>3. \A g : Answers(t, g) => Answers(q, g) \/ Answers(r, g)
  BY <1>1 DEF Answers
<1>4. \A p : PageSocket(q, p) /\ PageSocket(r, p) => PageSocket(t, p)
  BY <1>1 DEF PageSocket
<1> QED BY <1>2, <1>3, <1>4 DEF t

LEMMA Singles ==
  ASSUME NEW m \in Messages
  PROVE  /\ \A g : Offered(<<m>>, g) <=> m.kind = "offer" /\ m.gateway = g
         /\ \A g : Answers(<<m>>, g) <=> m.kind = "answer" /\ m.gateway = g
         /\ \A p : PageSocket(<<m>>, p) <=> m = Close \/ (m.kind = "answer" /\ m.page = p)
         /\ \A g : OfferIsFirst(<<m>>, g) <=> (m # Close => m.gateway = g)
         /\ Told(<<m>>) <=> m \in Ends
BY OneMessage DEF Offered, Answers, PageSocket, OfferIsFirst, Told

LEMMA JoinedOne ==
  ASSUME NEW q \in Seq(Messages), NEW m \in Messages
  PROVE  /\ With(q, m) \in Seq(Messages) /\ With(q, m) # <<>>
         /\ \A g : Offered(With(q, m), g) => Offered(q, g) \/ (m.kind = "offer" /\ m.gateway = g)
         /\ \A g : Answers(With(q, m), g) => Answers(q, g) \/ (m.kind = "answer" /\ m.gateway = g)
         /\ \A p : PageSocket(q, p) /\ (m = Close \/ (m.kind = "answer" /\ m.page = p)) =>
                      PageSocket(With(q, m), p)
         /\ Open(q) /\ m # Close => Open(With(q, m))
         /\ q = <<>> => With(q, m) = <<m>>
<1> DEFINE t == With(q, m)
<1>1. \A i \in DOMAIN t : t[i] = m \/ (i \in DOMAIN q /\ t[i] = q[i])
  BY AtTheEnd DEF With
<1>2. t \in Seq(Messages) /\ t # <<>> /\ (q = <<>> => t = <<m>>)
  <2>1. t \in Seq(Messages) /\ Len(t) = Len(q) + 1 /\ Len(q) \in Nat
    BY DEF With
  <2>2. q = <<>> => t = <<m>>
    BY <<>> \o <<m>> = <<m>> DEF With
  <2> HIDE DEF t
  <2>3. t # <<>>
    BY <2>1, Len(<<>>) = 0
  <2> QED BY <2>1, <2>2, <2>3
<1> HIDE DEF t
<1>3. /\ \A g : Offered(t, g) => Offered(q, g) \/ (m.kind = "offer" /\ m.gateway = g)
      /\ \A g : Answers(t, g) => Answers(q, g) \/ (m.kind = "answer" /\ m.gateway = g)
  BY <1>1 DEF Offered, Answers
<1>4. /\ \A p : PageSocket(q, p) /\ (m = Close \/ (m.kind = "answer" /\ m.page = p)) =>
                   PageSocket(t, p)
      /\ Open(q) /\ m # Close => Open(t)
  BY <1>1 DEF PageSocket, Open
<1> QED BY <1>2, <1>3, <1>4 DEF t

LEMMA Empty ==
  /\ \A g : ~Offered(<<>>, g) /\ ~Answers(<<>>, g) /\ OfferIsFirst(<<>>, g) /\ ~Hears(<<>>, g)
  /\ \A p : PageSocket(<<>>, p)
  /\ ~Told(<<>>)
BY DEF Offered, Answers, PageSocket, OfferIsFirst, Told, Hears

\* A life sends nothing that is an offer but the first message.
LEMMA OfferStaysFirst ==
  ASSUME NEW q \in Seq(Messages), NEW m \in Messages, NEW g, OfferIsFirst(q, g),
         m.kind # "offer", m # Close => m.gateway = g
  PROVE  OfferIsFirst(With(q, m), g) /\ \A h : Offered(With(q, m), h) => Offered(q, h)
<1> DEFINE t == With(q, m)
<1>1. \A i \in DOMAIN t : t[i] = m \/ (i \in DOMAIN q /\ t[i] = q[i])
  BY AtTheEnd DEF With
<1> HIDE DEF t
<1>2. OfferIsFirst(t, g) /\ \A h : Offered(t, h) => Offered(q, h)
  BY <1>1 DEF OfferIsFirst, Offered
<1> QED BY <1>2 DEF t

(***************************************************************************)
(* What a gateway hears.                                                   *)
(***************************************************************************)
LEMMA HearsTaken ==
  ASSUME NEW q \in Seq(Messages), q # <<>>, Head(q) \notin Ends
  PROVE  /\ \A p : Hears(Tail(q), p) => Hears(q, p)
         /\ Head(q).kind = "answer" => Hears(q, Head(q).page)
         /\ Told(q) => Told(Tail(q))
         /\ Told(Tail(q)) => Told(q)
<1> DEFINE t == Tail(q)
<1>1. /\ Head(q) = q[1] /\ 1 \in DOMAIN q /\ t \in Seq(Messages)
      /\ \A i \in DOMAIN t : i \in Nat \ {0} /\ i + 1 \in DOMAIN q /\ t[i] = q[i + 1]
      /\ \A i \in DOMAIN q : i # 1 => i - 1 \in DOMAIN t
      /\ DOMAIN q \subseteq Nat \ {0}
  BY HeadTail
<1> HIDE DEF t
<1>2. ASSUME NEW p, Hears(t, p) PROVE Hears(q, p)
  <2>1. PICK i \in DOMAIN t : /\ t[i].kind = "answer" /\ t[i].page = p
                              /\ \A j \in DOMAIN t : j <= i => t[j] \notin Ends
    BY <1>2 DEF Hears
  <2>2. i + 1 \in DOMAIN q /\ q[i + 1].kind = "answer" /\ q[i + 1].page = p
    BY <1>1, <2>1
  <2>3. ASSUME NEW j \in DOMAIN q, j <= i + 1 PROVE q[j] \notin Ends
    <3>1. CASE j = 1 BY <1>1, <3>1
    <3>2. CASE j # 1
      <4>1. j \in Nat /\ i \in Nat /\ j - 1 \in DOMAIN t /\ t[j - 1] = q[(j - 1) + 1]
        BY <1>1, <3>2
      <4>2. j - 1 <= i /\ (j - 1) + 1 = j
        BY <4>1, <2>3
      <4> QED BY <4>1, <4>2, <2>1
    <3> QED BY <3>1, <3>2
  <2> QED BY <2>2, <2>3 DEF Hears
<1>3. ASSUME Head(q).kind = "answer" PROVE Hears(q, Head(q).page)
  <2>1. \A j \in DOMAIN q : j <= 1 => j = 1 BY <1>1
  <2> QED BY <1>1, <1>3, <2>1 DEF Hears
<1>4. ASSUME Told(q) PROVE Told(t)
  <2>1. PICK i \in DOMAIN q : q[i] \in Ends BY <1>4 DEF Told
  <2>2. i - 1 \in DOMAIN t /\ t[i - 1] = q[(i - 1) + 1] /\ (i - 1) + 1 = i BY <1>1, <2>1
  <2> QED BY <2>1, <2>2 DEF Told
<1>5. Told(t) => Told(q)
  BY <1>1 DEF Told
<1> QED BY <1>2, <1>3, <1>4, <1>5 DEF t

LEMMA HearsSent ==
  ASSUME NEW q \in Seq(Messages), NEW m \in Messages
  PROVE  /\ Told(q) \/ m \in Ends => Told(With(q, m))
         /\ Told(With(q, m)) => Told(q) \/ m \in Ends
         /\ \A p : Hears(With(q, m), p) =>
                      Hears(q, p) \/ (~Told(q) /\ m.kind = "answer" /\ m.page = p)
<1> DEFINE t == With(q, m)
           n == Len(q) + 1
<1>1. /\ n \in Nat /\ DOMAIN t = 1 .. n /\ DOMAIN q = 1 .. n - 1 /\ t[n] = m /\ n \in DOMAIN t
      /\ \A i \in DOMAIN q : i \in DOMAIN t /\ t[i] = q[i]
      /\ \A i \in DOMAIN t : i # n => i \in DOMAIN q
  BY AtTheEnd DEF With
<1> HIDE DEF t, n
<1>2. Told(t) <=> Told(q) \/ m \in Ends
  BY <1>1 DEF Told
<1>3. ASSUME NEW p, Hears(t, p) PROVE Hears(q, p) \/ (~Told(q) /\ m.kind = "answer" /\ m.page = p)
  <2>1. PICK i \in DOMAIN t : /\ t[i].kind = "answer" /\ t[i].page = p
                              /\ \A j \in DOMAIN t : j <= i => t[j] \notin Ends
    BY <1>3 DEF Hears
  <2>2. CASE i # n BY <1>1, <2>1, <2>2 DEF Hears
  <2>3. CASE i = n
    <3>1. \A j \in DOMAIN q : q[j] \notin Ends
      BY <1>1, <2>1, <2>3
    <3> QED BY <1>1, <2>1, <2>3, <3>1 DEF Told
  <2> QED BY <2>2, <2>3
<1> QED BY <1>2, <1>3 DEF t

-----------------------------------------------------------------------------
(***************************************************************************)
(* The server.                                                             *)
(***************************************************************************)
LEMMA InvTypes ==
  ASSUME Inv
  PROVE  /\ server \in ServerType /\ gateway \in GatewayType /\ pages \in [Pages -> PageType]
         /\ up \in ChannelType /\ down \in ChannelType /\ answered \in Names /\ faults \in Nat
         /\ \A x \in Sockets : up[x] \in Seq(Messages) /\ down[x] \in Seq(Messages)
         /\ server.viewer \in 0 .. MaxPages /\ server.gateway \in Nat /\ gateway.life \in Nat
         /\ server.viewer # 0 => server.viewer \in Pages /\ P(server.viewer) \in Sockets
BY Numbered, SocketFacts DEF Inv, Typed, ServerType, GatewayType, ChannelType

LEMMA BroadcastFacts ==
  ASSUME Inv, NEW m \in Messages
  PROVE  /\ BroadcastToViewers(server, m) \in ChannelType
         /\ \A x \in Sockets : BroadcastToViewers(server, m)[x] # down[x] =>
               /\ server.viewer # 0 /\ pages[server.viewer].role = "viewer"
               /\ x = P(server.viewer) /\ BroadcastToViewers(server, m)[x] = With(down[x], m)
<1>1. CASE server.viewer # 0 /\ pages[server.viewer].role = "viewer"
  <2>1. BroadcastToViewers(server, m) = Send(down, P(server.viewer), <<m>>)
    BY <1>1 DEF BroadcastToViewers
  <2>2. down \in ChannelType
    BY InvTypes
  <2>3. /\ Send(down, P(server.viewer), <<m>>) \in ChannelType
        /\ \A y \in Sockets : Send(down, P(server.viewer), <<m>>)[y] # down[y] =>
              /\ y = P(server.viewer)
              /\ Send(down, P(server.viewer), <<m>>)[y] = With(down[y], m)
    BY <2>2, SendOne
  <2> QED BY <1>1, <2>1, <2>3
<1>2. CASE ~(server.viewer # 0 /\ pages[server.viewer].role = "viewer")
  BY <1>2, InvTypes DEF BroadcastToViewers
<1> QED BY <1>1, <1>2

LEMMA RememberFacts ==
  ASSUME NEW s \in ServerType, NEW m \in Messages
  PROVE  /\ Remember(s, m) \in ServerType
         /\ Remember(s, m).alive = s.alive /\ Remember(s, m).gateway = s.gateway
         /\ Remember(s, m).viewer = s.viewer /\ Remember(s, m).used = s.used
         /\ Remember(s, m).offer = IF m.kind = "offer" THEN m.gateway ELSE s.offer
<1>1. m.gateway \in Nat /\ <<>> \in Numbers /\ Append(s.candidates, m.gateway) \in Numbers
  BY DEF Messages, ServerType, Numbers
<1> QED BY <1>1 DEF Remember, ServerType

LEMMA HandlesGatewayKeeps ==
  ASSUME Inv, NEW g \in Gateways, ServerHandlesGateway(g)
  PROVE  Inv'
<1> DEFINE m == Head(up[G(g)])
           q == up[G(g)]
<1>1. /\ q \in Seq(Messages) /\ q # <<>> /\ m \in Messages /\ G(g) \in Sockets /\ g \in Nat
      /\ Tail(q) \in Seq(Messages)
  BY InvTypes, SocketFacts, Numbered, HeadTail DEF ServerHandlesGateway
<1>2. /\ up' = [up EXCEPT ![G(g)] = Tail(q)]
      /\ server' = Remember(server, m) /\ down' = BroadcastToViewers(server, m)
      /\ UNCHANGED <<gateway, pages, faults, answered>>
  BY DEF ServerHandlesGateway
<1>3. /\ up' \in ChannelType /\ up'[G(g)] = Tail(q)
      /\ \A x \in Sockets : x # G(g) => up'[x] = up[x]
  BY <1>1, <1>2, InvTypes DEF ChannelType
<1>4. /\ down' \in ChannelType
      /\ \A x \in Sockets : down'[x] # down[x] =>
            /\ server.viewer # 0 /\ pages[server.viewer].role = "viewer"
            /\ x = P(server.viewer) /\ down'[x] = With(down[x], m)
  BY <1>1, <1>2, BroadcastFacts
<1>5. /\ server' \in ServerType /\ server'.alive = server.alive /\ server'.gateway = server.gateway
      /\ server'.viewer = server.viewer /\ server'.used = server.used
      /\ server'.offer = IF m.kind = "offer" THEN m.gateway ELSE server.offer
  BY <1>1, <1>2, RememberFacts, InvTypes
<1>6. \A p \in Pages : up'[P(p)] = up[P(p)] /\ P(p) \in Sockets
  BY <1>1, <1>3, SocketFacts, Numbered
<1>7. \A h \in Gateways : down'[G(h)] = down[G(h)] /\ G(h) \in Sockets
  BY <1>4, SocketFacts, Numbered, InvTypes
<1> HIDE DEF m
<1>b. q # <<Close>> /\ g <= gateway.life
  <2>1. q # <<Close>> BY DEF ServerHandlesGateway
  <2> QED BY <1>1, <2>1, InvTypes DEF Inv, Fresh, FreshGateways
<1>t. Typed'
  BY <1>2, <1>3, <1>4, <1>5 DEF Inv, Typed
<1>f. Fresh'
  <2>1. g <= gateway.life
    BY <1>b
  <2>2. FreshGateways(gateway.life, up', down')
    BY <1>3, <1>7, <2>1, InvTypes, SocketFacts, Numbered DEF Inv, Fresh, FreshGateways
  <2>3. FreshPages(pages, server.viewer, up', down')
    <3>1. \A p \in Pages : pages[p].state = "unopened" => down'[P(p)] = down[P(p)]
      BY <1>4, <1>6, SocketFacts, Numbered, InvTypes DEF Inv, Fresh, FreshPages
    <3> QED BY <1>6, <3>1 DEF Inv, Fresh, FreshPages
  <2> QED BY <1>2, <1>5, <2>2, <2>3 DEF Inv, Fresh
<1>8. m.kind = "offer" => m.gateway = g /\ Offered(q, g) /\ m # Close
  <2>1. m = q[1] /\ 1 \in DOMAIN q /\ OfferIsFirst(q, g)
    BY <1>1, HeadTail DEF Inv, GatewaySockets, m
  <2>2. m.kind = "offer" => m # Close
    BY MessageFacts
  <2>3. m.kind = "offer" => m.gateway = g
    BY <2>1, <2>2 DEF OfferIsFirst
  <2> QED BY <2>1, <2>2, <2>3 DEF Offered
<1>9. \A p \in Pages, h \in Nat : Offered(down'[P(p)], h) =>
         Offered(down[P(p)], h) \/ (m.kind = "offer" /\ h = g /\ pages[p].role = "viewer")
  <2> SUFFICES ASSUME NEW p \in Pages, NEW h \in Nat, Offered(down'[P(p)], h), ~Offered(down[P(p)], h)
               PROVE  m.kind = "offer" /\ h = g /\ pages[p].role = "viewer"
    OBVIOUS
  <2>1. /\ server.viewer # 0 /\ pages[server.viewer].role = "viewer" /\ P(p) = P(server.viewer)
        /\ down'[P(p)] = With(down[P(p)], m)
    BY <1>4, <1>6
  <2>2. down[P(p)] \in Seq(Messages)
    BY <1>6, InvTypes
  <2>3. m \in Messages /\ Offered(With(down[P(p)], m), h)
    BY <1>1, <2>1
  <2>4. m.kind = "offer" /\ m.gateway = h
    BY <2>2, <2>3, JoinedOne
  <2> QED BY <1>1, <1>8, <2>1, <2>4, SocketFacts, Numbered, InvTypes
<1>p. PageSockets(pages, up', down')
  BY <1>6, <1>9 DEF Inv, PageSockets
<1>g. GatewaySockets(gateway, up')
  <2>1. \A h \in Gateways : OfferIsFirst(up'[G(h)], h)
    <3>1. OfferIsFirst(up'[G(g)], g)
      BY <1>1, <1>3, Taken DEF Inv, GatewaySockets
    <3> QED BY <3>1, <1>3, SocketFacts, Numbered DEF Inv, GatewaySockets
  <2>2. gateway.phase = "connected" => up'[G(gateway.life)] \in {<<>>, <<Close>>}
    <3>1. CASE gateway.life = g BY <1>1, <1>2, <3>1 DEF Inv, GatewaySockets, ServerHandlesGateway
    <3>2. CASE gateway.life # g
      <4>1. gateway.phase = "connected" => G(gateway.life) \in Sockets
        BY Numbered, SocketFacts, InvTypes DEF Inv, Fresh
      <4> QED BY <1>1, <1>3, <3>2, <4>1, SocketFacts, InvTypes DEF Inv, GatewaySockets
    <3> QED BY <3>1, <3>2
  <2> QED BY <2>1, <2>2 DEF GatewaySockets
<1>10. m.kind = "offer" => Made(gateway, g) /\ ~Given(server, answered, up, down, g)
  <2> HAVE m.kind = "offer"
  <2>1. q # <<Close>> /\ g <= gateway.life
    BY <1>1, <1>b
  <2>2. Made(gateway, g)
    BY <1>1, <2>1, InvTypes DEF Inv, GatewaySockets, Made
  <2> QED BY <1>8, <2>2 DEF Inv, OffersOnce
<1>o. OffersOnce(server', gateway, answered, up', down')
  <2> SUFFICES ASSUME NEW h \in Gateways, Given(server', answered, up', down', h)
               PROVE  Made(gateway, h) /\ ~Offered(up'[G(h)], h)
    BY DEF OffersOnce
  <2>1. Given(server, answered, up, down, h) \/ (m.kind = "offer" /\ h = g)
    BY <1>5, <1>6, <1>8, <1>9, Numbered DEF Given
  <2>2. CASE m.kind = "offer" /\ h = g
    <3>1. ~Offered(up'[G(g)], g)
      BY <1>1, <1>3, Taken DEF Inv, GatewaySockets
    <3> QED BY <2>2, <3>1, <1>10
  <2>3. CASE Given(server, answered, up, down, h)
    <3>1. Made(gateway, h) /\ ~Offered(up[G(h)], h)
      BY <2>3 DEF Inv, OffersOnce
    <3>2. Offered(up'[G(h)], h) => Offered(up[G(h)], h)
      BY <1>1, <1>3, Taken, SocketFacts, Numbered
    <3> QED BY <3>1, <3>2
  <2> QED BY <2>1, <2>2, <2>3
<1>a. AnsweredIsUsed(server', answered)
  <2>1. m.kind = "offer" => g \notin answered
    BY <1>10 DEF Given
  <2> QED BY <1>5, <1>8, <2>1 DEF Inv, AnsweredIsUsed
<1>s. OnePage(gateway, down') /\ Session(server', gateway, pages, up', down')
  <2>1. gateway.phase # "down" => gateway.life \in Gateways
    BY Numbered, InvTypes DEF Inv, Fresh
  <2>2. \A p : gateway.phase # "down" => (Hearable(gateway, down', p) <=> Hearable(gateway, down, p))
    BY <1>7, <2>1 DEF Hearable
  <2>3. OnePage(gateway, down')
    BY <2>2 DEF Inv, OnePage
  <2>4. ASSUME Untold(gateway, down')
        PROVE  /\ Untold(gateway, down) /\ server'.alive /\ server'.gateway = gateway.life
               /\ Open(up'[G(gateway.life)])
    <3>1. Untold(gateway, down)
      BY <1>7, <2>1, <2>4 DEF Untold
    <3>2. Open(up[G(gateway.life)]) /\ gateway.life \in Gateways
      BY <2>1, <3>1 DEF Inv, Session, Untold
    <3>3. Open(up'[G(gateway.life)])
      BY <1>1, <1>3, <3>2, Taken, SocketFacts, Numbered
    <3> QED BY <1>5, <3>1, <3>3 DEF Inv, Session
  <2>5. \A p \in Nat : Untold(gateway, down') /\ Hearable(gateway, down', p) =>
           server'.used /\ (server'.viewer # 0 /\ pages[server'.viewer].role = "viewer" => server'.viewer = p)
    BY <1>5, <2>2, <2>4 DEF Inv, Session, Untold
  <2> QED BY <2>3, <2>4, <2>5 DEF Session
<1> QED BY <1>2, <1>t, <1>f, <1>p, <1>g, <1>o, <1>a, <1>s DEF Inv

\* A life that is not over has a number and a socket.
LEMMA Running ==
  ASSUME Inv, gateway.phase # "down"
  PROVE  /\ gateway.life \in Gateways /\ gateway.life \in Nat /\ Mine = G(gateway.life)
         /\ G(gateway.life) \in Sockets
         /\ up[G(gateway.life)] \in Seq(Messages) /\ down[G(gateway.life)] \in Seq(Messages)
<1>1. gateway.life \in Gateways /\ gateway.life \in Nat
  BY Numbered, InvTypes DEF Inv, Fresh
<1> QED BY <1>1, SocketFacts, InvTypes DEF Mine

LEMMA HandlesPageKeeps ==
  ASSUME Inv, NEW p \in Pages, ServerHandlesPage(p)
  PROVE  Inv'
<1> DEFINE m == Head(up[P(p)])
           q == up[P(p)]
           L == gateway.life
<1>1. /\ q \in Seq(Messages) /\ q # <<>> /\ q # <<Close>> /\ m \in Messages
      /\ P(p) \in Sockets /\ p \in Nat /\ Tail(q) \in Seq(Messages) /\ m = q[1] /\ 1 \in DOMAIN q
  BY InvTypes, SocketFacts, Numbered, HeadTail DEF ServerHandlesPage
<1>2. /\ up' = [up EXCEPT ![P(p)] = Tail(q)]
      /\ server' = [server EXCEPT !.used = @ \/ (Speaks(p) /\ m.kind = "answer")]
      /\ down' = IF Speaks(p) THEN Send(down, G(server.gateway), <<m>>) ELSE down
      /\ answered' = answered \union (IF Speaks(p) /\ m.kind = "answer" THEN {m.gateway} ELSE {})
      /\ UNCHANGED <<gateway, pages, faults>>
  BY DEF ServerHandlesPage
<1>3. /\ up' \in ChannelType /\ up'[P(p)] = Tail(q)
      /\ \A x \in Sockets : x # P(p) => up'[x] = up[x]
  BY <1>1, <1>2, InvTypes DEF ChannelType
<1> HIDE DEF m
<1>4. /\ down' \in ChannelType
      /\ \A x \in Sockets : down'[x] # down[x] =>
            p = server.viewer /\ x = G(server.gateway) /\ down'[x] = With(down[x], m)
  <2>1. down \in ChannelType BY InvTypes
  <2>2. /\ Send(down, G(server.gateway), <<m>>) \in ChannelType
        /\ \A y \in Sockets : Send(down, G(server.gateway), <<m>>)[y] # down[y] =>
              /\ y = G(server.gateway)
              /\ Send(down, G(server.gateway), <<m>>)[y] = With(down[y], m)
    BY <1>1, <2>1, SendOne
  <2> QED BY <1>2, <2>1, <2>2 DEF Speaks
<1>5. /\ server' \in ServerType /\ server'.alive = server.alive /\ server'.gateway = server.gateway
      /\ server'.viewer = server.viewer /\ server'.offer = server.offer
      /\ server'.used = (server.used \/ (p = server.viewer /\ m.kind = "answer"))
  BY <1>2, InvTypes DEF ServerType, Speaks, Flags
<1>6. \A r \in Pages : down'[P(r)] = down[P(r)] /\ P(r) \in Sockets /\ r \in Nat
  BY <1>4, SocketFacts, Numbered, InvTypes
<1>7. \A h \in Gateways : up'[G(h)] = up[G(h)] /\ G(h) \in Sockets /\ h \in Nat
  BY <1>1, <1>3, SocketFacts, Numbered
<1>8. /\ PageSocket(q, p) /\ (m = Close \/ (m.kind = "answer" /\ m.page = p))
      /\ pages[p].role = "viewer" /\ pages[p].state # "unopened"
  <2>1. PageSocket(q, p) /\ pages[p].role = "viewer" /\ pages[p].state # "unopened"
    BY <1>1 DEF Inv, Fresh, FreshPages, PageSockets
  <2> QED BY <1>1, <2>1 DEF PageSocket
<1>t. Typed'
  <2>1. m.gateway \in Nat BY <1>1 DEF Messages
  <2>2. answered' \in Names BY <1>2, <2>1, InvTypes DEF Names
  <2> QED BY <1>2, <1>3, <1>4, <1>5, <2>2 DEF Inv, Typed
<1>f. Fresh'
  <2>1. \A h \in Gateways : h > gateway.life => down'[G(h)] = down[G(h)]
    BY <1>4, <1>7, SocketFacts, InvTypes DEF Inv, Fresh
  <2>2. FreshGateways(gateway.life, up', down')
    BY <1>7, <2>1 DEF Inv, Fresh, FreshGateways
  <2>3. FreshPages(pages, server.viewer, up', down')
    BY <1>1, <1>3, <1>6, <1>8, SocketFacts DEF Inv, Fresh, FreshPages
  <2> QED BY <1>2, <1>5, <2>2, <2>3 DEF Inv, Fresh
<1>p. PageSockets(pages, up', down')
  <2>1. PageSocket(up'[P(p)], p)
    BY <1>1, <1>3, <1>8, Taken
  <2> QED BY <1>1, <1>3, <1>6, <1>8, <2>1, SocketFacts DEF Inv, PageSockets
<1>g. GatewaySockets(gateway, up')
  BY <1>2, <1>7, Running DEF Inv, GatewaySockets
<1>o. OffersOnce(server', gateway, answered', up', down')
  <2> SUFFICES ASSUME NEW h \in Gateways, Given(server', answered', up', down', h)
               PROVE  Made(gateway, h) /\ ~Offered(up'[G(h)], h)
    BY DEF OffersOnce
  <2>1. \A r \in Pages : Answers(up'[P(r)], h) => Answers(up[P(r)], h)
    BY <1>1, <1>3, <1>6, Taken, SocketFacts
  <2>2. m.kind = "answer" => Answers(q, m.gateway)
    BY <1>1 DEF Answers
  <2>3. Given(server, answered, up, down, h)
    BY <1>2, <1>5, <1>6, <2>1, <2>2 DEF Given
  <2> QED BY <1>7, <2>3 DEF Inv, OffersOnce
<1>a. AnsweredIsUsed(server', answered')
  <2>1. CASE p = server.viewer /\ m.kind = "answer"
    BY <1>5, <2>1 DEF AnsweredIsUsed
  <2>2. CASE ~(p = server.viewer /\ m.kind = "answer")
    <3>1. answered' = answered BY <1>2, <2>2 DEF Speaks
    <3>2. server'.used = server.used BY <1>2, <2>2, InvTypes DEF ServerType, Flags, Speaks
    <3> QED BY <1>5, <3>1, <3>2 DEF Inv, AnsweredIsUsed
  <2> QED BY <2>1, <2>2
<1>9. ASSUME gateway.phase # "down", NEW r, Hearable(gateway, down', r)
      PROVE  \/ Hearable(gateway, down, r)
             \/ /\ ~Told(down[G(L)]) /\ m.kind = "answer" /\ r = p /\ p = server.viewer
  <2>1. CASE down'[G(L)] = down[G(L)]
    BY <1>9, <2>1 DEF Hearable
  <2>2. CASE down'[G(L)] # down[G(L)]
    <3>1. p = server.viewer /\ down'[G(L)] = With(down[G(L)], m) /\ down[G(L)] \in Seq(Messages)
      BY <1>4, <1>9, <2>2, Running
    <3>2. Hears(With(down[G(L)], m), r) =>
            Hears(down[G(L)], r) \/ (~Told(down[G(L)]) /\ m.kind = "answer" /\ m.page = r)
      BY <1>1, <3>1, HearsSent
    <3> QED BY <1>8, <1>9, <3>1, <3>2, MessageFacts DEF Hearable
  <2> QED BY <2>1, <2>2
<1>10. ASSUME Untold(gateway, down') PROVE Untold(gateway, down)
  <2>1. gateway.phase # "down" BY <1>10 DEF Untold
  <2>2. CASE down'[G(L)] = down[G(L)]
    BY <1>10, <2>2 DEF Untold
  <2>3. CASE down'[G(L)] # down[G(L)]
    <3>1. down'[G(L)] = With(down[G(L)], m) /\ down[G(L)] \in Seq(Messages)
      BY <1>4, <2>1, <2>3, Running
    <3>2. Told(down[G(L)]) => Told(With(down[G(L)], m))
      BY <1>1, <3>1, HearsSent
    <3> QED BY <1>10, <3>1, <3>2 DEF Untold
  <2> QED BY <2>2, <2>3
<1>s. OnePage(gateway, down')
  <2> SUFFICES ASSUME gateway.phase # "down", ~gateway.restart, NEW r \in Nat, NEW s \in Nat,
                      Hearable(gateway, down', r), Hearable(gateway, down', s)
               PROVE  r = s
    BY DEF Inv, OnePage
  <2>1. ASSUME NEW a \in Nat, Hearable(gateway, down, a), ~Told(down[G(L)]), p = server.viewer
        PROVE  a = p
    BY <1>1, <1>8, <2>1, Numbered DEF Inv, Session, Untold
  <2> QED BY <1>9, <2>1 DEF Inv, OnePage
<1>e. Session(server', gateway, pages, up', down')
  <2> SUFFICES ASSUME Untold(gateway, down')
               PROVE  /\ server'.alive /\ server'.gateway = gateway.life
                      /\ Open(up'[G(gateway.life)])
                      /\ \A r \in Nat : Hearable(gateway, down', r) =>
                            /\ server'.used
                            /\ server'.viewer # 0 /\ pages[server'.viewer].role = "viewer" =>
                                  server'.viewer = r
    BY DEF Session
  <2>1. Untold(gateway, down) /\ gateway.phase # "down" BY <1>10 DEF Untold
  <2>2. up'[G(gateway.life)] = up[G(gateway.life)] BY <1>7, <2>1, Running
  <2> QED BY <1>5, <1>9, <2>1, <2>2 DEF Inv, Session
<1> QED BY <1>2, <1>t, <1>f, <1>p, <1>g, <1>o, <1>a, <1>s, <1>e DEF Inv

LEMMA NoSessionFacts ==
  ASSUME NEW s \in ServerType
  PROVE  /\ NoSession(s) \in ServerType
         /\ NoSession(s).alive = s.alive /\ NoSession(s).gateway = s.gateway
         /\ NoSession(s).viewer = s.viewer /\ NoSession(s).offer = 0 /\ ~NoSession(s).used
         /\ \A g \in Nat : [NoSession(s) EXCEPT !.gateway = g] \in ServerType
<1>1. <<>> \in Numbers
  BY DEF Numbers
<1> QED BY <1>1 DEF NoSession, ServerType, Flags

LEMMA SeesCloseKeeps ==
  ASSUME Inv, NEW x \in Sockets, ServerSeesClose(x)
  PROVE  Inv'
<1>1. /\ up[x] = <<Close>> /\ server' = RemoveSocket(server, x)
      /\ UNCHANGED <<gateway, pages, up, down, faults, answered>>
  BY DEF ServerSeesClose
<1>2. /\ server' \in ServerType /\ server'.alive = server.alive
      /\ server'.viewer \in {server.viewer, 0}
      /\ \/ /\ x = G(server.gateway) /\ server'.gateway = 0 /\ server'.offer = 0 /\ ~server'.used
         \/ /\ server'.gateway = server.gateway /\ server'.offer = server.offer
            /\ server'.used = server.used
  <2>1. server \in ServerType BY InvTypes
  <2>2. CASE x = G(server.gateway)
    <3>1. server' = [NoSession(server) EXCEPT !.gateway = 0]
      BY <1>1, <2>2 DEF RemoveSocket
    <3>2. server' \in ServerType BY <2>1, <3>1, NoSessionFacts
    <3>3. /\ server'.alive = NoSession(server).alive /\ server'.viewer = NoSession(server).viewer
          /\ server'.gateway = 0 /\ server'.offer = NoSession(server).offer
          /\ server'.used = NoSession(server).used
      BY <2>1, <3>1, NoSessionFacts DEF ServerType
    <3> QED BY <2>1, <2>2, <3>2, <3>3, NoSessionFacts
  <2>3. CASE x # G(server.gateway)
    BY <1>1, <2>1, <2>3, Numbered DEF RemoveSocket, ServerType
  <2> QED BY <2>2, <2>3
<1>3. Typed' BY <1>1, <1>2 DEF Inv, Typed
<1>4. Fresh'
  BY <1>1, <1>2, InvTypes DEF Inv, Fresh, FreshPages, FreshGateways
<1>5. OffersOnce(server', gateway, answered, up, down)
  BY <1>2, Numbered DEF Inv, OffersOnce, Given
<1>6. AnsweredIsUsed(server', answered)
  BY <1>2 DEF Inv, AnsweredIsUsed
<1>7. Session(server', gateway, pages, up, down)
  <2>1. Untold(gateway, down) => x # G(server.gateway)
    <3>1. ~Open(<<Close>>) BY DEF Open
    <3> QED BY <1>1, <3>1 DEF Inv, Session
  <2> QED BY <1>2, <2>1, SocketFacts DEF Inv, Session
<1> QED BY <1>1, <1>3, <1>4, <1>5, <1>6, <1>7 DEF Inv

LEMMA StartsKeeps ==
  ASSUME Inv, ServerStarts
  PROVE  Inv'
<1>1. /\ ~server.alive /\ server' = [server EXCEPT !.alive = TRUE]
      /\ UNCHANGED <<gateway, pages, up, down, faults, answered>>
  BY DEF ServerStarts
<1>2. /\ server' \in ServerType /\ server'.gateway = server.gateway
      /\ server'.viewer = server.viewer /\ server'.offer = server.offer
      /\ server'.used = server.used
  BY <1>1, InvTypes DEF ServerType, Flags
<1>3. Typed' BY <1>1, <1>2 DEF Inv, Typed
<1>4. Fresh' BY <1>1, <1>2 DEF Inv, Fresh
<1>5. OffersOnce(server', gateway, answered, up, down)
  BY <1>2 DEF Inv, OffersOnce, Given
<1>6. AnsweredIsUsed(server', answered)
  BY <1>2 DEF Inv, AnsweredIsUsed
<1>7. Session(server', gateway, pages, up, down)
  BY <1>1 DEF Inv, Session
<1> QED BY <1>1, <1>3, <1>4, <1>5, <1>6, <1>7 DEF Inv

LEMMA KilledKeeps ==
  ASSUME Inv, ServerKilled
  PROVE  Inv'
<1> DEFINE L == gateway.life
<1>1. /\ faults' = faults + 1
      /\ server' = [NoSession(server) EXCEPT !.alive = FALSE, !.gateway = 0, !.viewer = 0]
      /\ up' = [x \in Sockets |-> IF Born(x) THEN <<Close>> ELSE <<>>]
      /\ down' = [x \in Sockets |->
                    IF Born(x) /\ ~Ended(down[x]) THEN Append(down[x], Close) ELSE down[x]]
      /\ UNCHANGED <<gateway, pages, answered>>
  BY DEF ServerKilled
<1>2. server' \in ServerType /\ server'.gateway = 0 /\ server'.viewer = 0 /\ server'.offer = 0
  <2>1. PICK s \in ServerType : s = NoSession(server) /\ s.offer = 0
    BY InvTypes, NoSessionFacts
  <2>2. 0 \in 0 .. MaxPages /\ FALSE \in Flags BY Numbered DEF Flags
  <2>3. server' = [s EXCEPT !.alive = FALSE, !.gateway = 0, !.viewer = 0]
    BY <1>1, <2>1
  <2> QED BY <2>1, <2>2, <2>3 DEF ServerType
<1>3. up' \in ChannelType /\ \A x \in Sockets : up'[x] \in {<<>>, <<Close>>}
  <2>1. <<Close>> \in Seq(Messages) /\ <<>> \in Seq(Messages)
    BY MessageFacts
  <2> QED BY <1>1, <2>1 DEF ChannelType
<1>4. \A x \in Sockets : /\ down[x] \in Seq(Messages) /\ down'[x] \in Seq(Messages)
                         /\ down'[x] = down[x] \/ down'[x] = With(down[x], Close)
                         /\ Born(x) => down'[x] # <<>> /\ Told(down'[x])
                         /\ ~Born(x) => down'[x] = down[x] /\ up'[x] = <<>>
  <2> SUFFICES ASSUME NEW x \in Sockets
               PROVE  /\ down[x] \in Seq(Messages) /\ down'[x] \in Seq(Messages)
                      /\ down'[x] = down[x] \/ down'[x] = With(down[x], Close)
                      /\ Born(x) => down'[x] # <<>> /\ Told(down'[x])
                      /\ ~Born(x) => down'[x] = down[x] /\ up'[x] = <<>>
    OBVIOUS
  <2>1. down[x] \in Seq(Messages) /\ Close \in Messages
    BY InvTypes, MessageFacts
  <2>2. Append(down[x], Close) = With(down[x], Close)
    BY <2>1 DEF With
  <2>3. With(down[x], Close) \in Seq(Messages) /\ With(down[x], Close) # <<>>
    BY <2>1, JoinedOne
  <2>4. Told(With(down[x], Close))
    BY <2>1, HearsSent, Apart
  <2>5. Ended(down[x]) => Told(down[x]) /\ down[x] # <<>>
    <3>1. down[x] # <<>> => Len(down[x]) \in DOMAIN down[x] BY <2>1
    <3> QED BY <3>1, Apart DEF Ended, Last, Told
  <2>6. down'[x] = IF Born(x) /\ ~Ended(down[x]) THEN Append(down[x], Close) ELSE down[x]
    BY <1>1
  <2>7. ~Born(x) => up'[x] = <<>>
    BY <1>1
  <2> HIDE DEF Born
  <2>8. CASE Born(x) /\ ~Ended(down[x])
    BY <2>1, <2>2, <2>3, <2>4, <2>6, <2>8
  <2>9. CASE ~(Born(x) /\ ~Ended(down[x]))
    <3>1. down'[x] = down[x] BY <2>6, <2>9
    <3> QED BY <2>1, <2>5, <2>7, <2>9, <3>1
  <2> QED BY <2>8, <2>9
<1>5. down' \in ChannelType
  BY <1>1, <1>4 DEF ChannelType
<1>6. /\ \A g \in Gateways : Born(G(g)) <=> g <= L
      /\ \A p \in Pages : Born(P(p)) <=> pages[p].state # "unopened"
  <2>1. ASSUME NEW g \in Gateways PROVE Born(G(g)) <=> g <= L
    <3>1. g \in Nat /\ g >= 1 /\ L \in Nat BY Numbered, InvTypes
    <3>2. Born(G(g)) <=> \E h \in 1 .. L : g = h
      BY <3>1, SocketFacts, Numbered DEF Born
    <3> QED BY <3>1, <3>2
  <2>2. \A p \in Pages : Born(P(p)) <=> pages[p].state # "unopened"
    BY SocketFacts, Numbered, InvTypes DEF Born
  <2> QED BY <2>1, <2>2
<1>t. Typed'
  <2>1. faults' \in Nat BY <1>1, InvTypes
  <2> QED BY <1>1, <1>2, <1>3, <1>5, <2>1 DEF Inv, Typed
<1>f. Fresh'
  <2>1. FreshGateways(L, up', down')
    <3> SUFFICES ASSUME NEW g \in Gateways, g > L PROVE up'[G(g)] = <<>> /\ down'[G(g)] = <<>>
      BY DEF FreshGateways
    <3>1. ~Born(G(g)) /\ G(g) \in Sockets BY <1>6, InvTypes, Numbered, SocketFacts
    <3> QED BY <1>4, <3>1 DEF Inv, Fresh, FreshGateways
  <2>2. FreshPages(pages, 0, up', down')
    <3> SUFFICES ASSUME NEW p \in Pages, pages[p].state = "unopened"
                 PROVE  up'[P(p)] = <<>> /\ down'[P(p)] = <<>>
      BY DEF FreshPages
    <3>1. ~Born(P(p)) /\ P(p) \in Sockets BY <1>6, SocketFacts
    <3> QED BY <1>4, <3>1 DEF Inv, Fresh, FreshPages
  <2> QED BY <1>1, <1>2, <2>1, <2>2, InvTypes DEF Inv, Fresh
<1>7. \A x \in Sockets, g \in Nat : ~Offered(up'[x], g) /\ ~Answers(up'[x], g)
  BY <1>3, Empty, Singles, MessageFacts
<1>8. \A x \in Sockets, g \in Nat : Offered(down'[x], g) => Offered(down[x], g)
  <2> SUFFICES ASSUME NEW x \in Sockets, NEW g \in Nat, Offered(down'[x], g)
               PROVE  Offered(down[x], g)
    OBVIOUS
  <2>1. down[x] \in Seq(Messages) /\ Close \in Messages /\ Close.kind # "offer"
    BY <1>4, MessageFacts
  <2>2. Offered(With(down[x], Close), g) => Offered(down[x], g)
    BY <2>1, JoinedOne
  <2> QED BY <1>4, <2>2
<1>p. PageSockets(pages, up', down')
  <2>1. \A p \in Pages : PageSocket(up'[P(p)], p) /\ P(p) \in Sockets /\ up'[P(p)] \in {<<>>, <<Close>>}
    BY <1>3, Empty, Singles, MessageFacts, SocketFacts
  <2> QED BY <1>8, <2>1 DEF Inv, PageSockets
<1>g. GatewaySockets(gateway, up')
  <2>1. \A g \in Gateways : OfferIsFirst(up'[G(g)], g)
    BY <1>3, Empty, Singles, MessageFacts, SocketFacts
  <2> QED BY <1>3, <2>1, Running DEF GatewaySockets
<1>o. OffersOnce(server', gateway, answered, up', down')
  <2>1. \A g \in Gateways : Given(server', answered, up', down', g) =>
                               Given(server, answered, up, down, g)
    BY <1>2, <1>7, <1>8, Numbered, SocketFacts DEF Given
  <2> QED BY <1>7, <2>1, SocketFacts, Numbered DEF Inv, OffersOnce
<1>a. AnsweredIsUsed(server', answered)
  BY <1>2 DEF AnsweredIsUsed
<1>9. gateway.phase # "down" => ~Untold(gateway, down')
  BY <1>4, <1>6, Running, InvTypes DEF Untold, Inv, Fresh
<1>s. OnePage(gateway, down')
  <2>1. ASSUME gateway.phase # "down", NEW r, Hearable(gateway, down', r)
        PROVE  Hearable(gateway, down, r)
    <3>1. down[G(L)] \in Seq(Messages) /\ G(L) \in Sockets BY <2>1, Running
    <3>2. Hears(With(down[G(L)], Close), r) => Hears(down[G(L)], r)
      BY <3>1, HearsSent, MessageFacts
    <3> QED BY <1>4, <2>1, <3>1, <3>2 DEF Hearable
  <2> QED BY <2>1 DEF Inv, OnePage
<1>e. Session(server', gateway, pages, up', down')
  BY <1>9 DEF Session, Untold
<1> QED BY <1>1, <1>t, <1>f, <1>p, <1>g, <1>o, <1>a, <1>s, <1>e DEF Inv

\* The only offer remembered is that of the session.
LEMMA RememberedFacts ==
  ASSUME NEW s \in ServerType
  PROVE  /\ Remembered(s) \in Seq(Messages)
         /\ \A g \in Nat : Offered(Remembered(s), g) => s.offer # 0 /\ g = s.offer
<1> DEFINE c == [i \in DOMAIN s.candidates |-> GatewayCandidate(s.candidates[i])]
<1>1. s.offer \in Nat /\ s.candidates \in Seq(Nat)
  BY DEF ServerType, Numbers
<1>2. CASE s.offer = 0
  BY <1>2, Empty DEF Remembered
<1>3. CASE s.offer # 0
  <2>1. /\ \A i \in DOMAIN s.candidates : /\ GatewayCandidate(s.candidates[i]) \in Messages
                                          /\ GatewayCandidate(s.candidates[i]).kind = "candidate"
        /\ Len(s.candidates) \in Nat /\ DOMAIN s.candidates = 1 .. Len(s.candidates)
    BY <1>1, MessageFacts
  <2>2. c \in Seq(Messages) /\ DOMAIN c = DOMAIN s.candidates
        /\ \A i \in DOMAIN c : c[i].kind = "candidate"
    BY <2>1
  <2> HIDE DEF c
  <2>3. PICK f \in Seq(Messages) : f = <<Offer(s.offer)>>
    <3>1. Offer(s.offer) \in Messages BY <1>1, MessageFacts
    <3> QED BY <3>1, OneMessage
  <2>4. \A g \in Nat : ~Offered(c, g)
    BY <2>2 DEF Offered
  <2>5. \A g \in Nat : Offered(f, g) => g = s.offer
    BY <1>1, <2>3, Singles, MessageFacts
  <2>6. f \o c \in Seq(Messages) /\ \A g \in Nat : Offered(f \o c, g) => Offered(f, g) \/ Offered(c, g)
    BY <2>2, Joined, Concat
  <2>7. Remembered(s) = f \o c
    BY <1>3, <2>3 DEF Remembered, c
  <2> QED BY <1>3, <2>4, <2>5, <2>6, <2>7
<1> QED BY <1>2, <1>3

LEMMA OpenFacts ==
  ASSUME Inv, NEW p \in Pages, NEW role \in {"viewer", "latest"}, OpenPage(p, role)
  PROVE  /\ down' \in ChannelType /\ p # server.viewer
         /\ \A x \in Sockets : x \notin {P(p), P(server.viewer), G(server.gateway)} =>
                                  down'[x] = down[x]
         /\ \A g \in Gateways : /\ G(g) \in Sockets
                                /\ down'[G(g)] \in {down[G(g)], With(down[G(g)], Reset)}
                                /\ role = "viewer" /\ server.used /\ server.gateway = g
                                      /\ ~Ended(down[G(g)]) => down'[G(g)] = With(down[G(g)], Reset)
         /\ \A q \in Pages, g \in Nat : Offered(down'[P(q)], g) =>
               \/ Offered(down[P(q)], g)
               \/ /\ q = p /\ role = "viewer" /\ ~server.used
                  /\ server.offer # 0 /\ g = server.offer
<1> DEFINE V == P(server.viewer)
           W == G(server.gateway)
<1>1. /\ pages[p].state = "unopened" /\ P(p) \in Sockets /\ down \in ChannelType /\ p # server.viewer
      /\ \A x \in Sockets : down[x] \in Seq(Messages)
  <2>1. pages[p].state = "unopened" BY DEF OpenPage
  <2>2. p # server.viewer BY <2>1, Numbered DEF Inv, Fresh, FreshPages
  <2> QED BY <2>1, <2>2, SocketFacts, InvTypes
<1>2. PICK replaced : replaced = Send(down, V, <<Close>>)
  OBVIOUS
<1>3. /\ replaced \in ChannelType
      /\ \A x \in Sockets : replaced[x] # down[x] => x = V /\ replaced[x] = With(down[x], Close)
  <2>1. Close \in Messages BY MessageFacts
  <2>2. /\ Send(down, V, <<Close>>) \in ChannelType
        /\ \A x \in Sockets : Send(down, V, <<Close>>)[x] # down[x] =>
              x = V /\ Send(down, V, <<Close>>)[x] = With(down[x], Close)
    BY <1>1, <2>1, SendOne
  <2> QED BY <1>2, <2>2
<1>4. \A q \in Pages, g \in Nat : Offered(replaced[P(q)], g) => Offered(down[P(q)], g)
  <2> SUFFICES ASSUME NEW q \in Pages, NEW g \in Nat, Offered(replaced[P(q)], g)
               PROVE  Offered(down[P(q)], g)
    OBVIOUS
  <2>1. P(q) \in Sockets /\ down[P(q)] \in Seq(Messages) BY <1>1, SocketFacts
  <2>2. Offered(With(down[P(q)], Close), g) => Offered(down[P(q)], g)
    BY <2>1, JoinedOne, MessageFacts
  <2> QED BY <1>3, <2>1, <2>2
<1>5. /\ \A g \in Gateways : /\ G(g) \in Sockets /\ replaced[G(g)] = down[G(g)]
                             /\ \A q \in Nat : G(g) # P(q)
      /\ \A q \in Pages : P(q) \in Sockets /\ P(q) # W
  BY <1>3, SocketFacts, Numbered, InvTypes
<1>6. down' = IF role = "viewer" /\ server.used THEN Send(replaced, W, <<Reset>>)
              ELSE IF role = "viewer" THEN Send(replaced, P(p), Remembered(server)) ELSE replaced
  BY <1>2 DEF OpenPage, MustReset
<1> HIDE DEF V, W
<1>7. CASE role = "viewer" /\ server.used
  <2>1. Reset \in Messages BY MessageFacts
  <2>2. /\ Send(replaced, W, <<Reset>>) \in ChannelType
        /\ \A x \in Sockets : Send(replaced, W, <<Reset>>)[x] # replaced[x] =>
              x = W /\ Send(replaced, W, <<Reset>>)[x] = With(replaced[x], Reset)
        /\ W \in Sockets /\ ~Ended(replaced[W]) =>
              Send(replaced, W, <<Reset>>)[W] = With(replaced[W], Reset)
    BY <1>3, <2>1, SendOne
  <2>3. down' = Send(replaced, W, <<Reset>>) BY <1>6, <1>7
  <2>4. /\ down' \in ChannelType
        /\ \A x \in Sockets : down'[x] # replaced[x] => x = W /\ down'[x] = With(replaced[x], Reset)
        /\ W \in Sockets /\ ~Ended(replaced[W]) => down'[W] = With(replaced[W], Reset)
    BY <2>2, <2>3
  <2>5. \A g \in Gateways : /\ down'[G(g)] \in {down[G(g)], With(down[G(g)], Reset)}
                            /\ server.gateway = g /\ ~Ended(down[G(g)]) =>
                                  down'[G(g)] = With(down[G(g)], Reset)
    BY <1>5, <2>4 DEF W
  <2>6. \A q \in Pages, g \in Nat : Offered(down'[P(q)], g) => Offered(down[P(q)], g)
    BY <1>4, <1>5, <2>4
  <2>7. \A x \in Sockets : x \notin {P(p), V, W} => down'[x] = down[x]
    BY <1>3, <2>4
  <2> QED BY <1>1, <1>5, <2>4, <2>5, <2>6, <2>7 DEF V, W
<1>8. CASE role = "viewer" /\ ~server.used
  <2>1. PICK ms \in Seq(Messages) : /\ ms = Remembered(server)
                                    /\ \A g \in Nat : Offered(ms, g) => server.offer # 0 /\ g = server.offer
    BY RememberedFacts, InvTypes
  <2>2. down' = Send(replaced, P(p), ms) BY <1>6, <1>8, <2>1
  <2>3. /\ down' \in ChannelType /\ \A x \in Sockets : x # P(p) => down'[x] = replaced[x]
        /\ down'[P(p)] = replaced[P(p)] \/ down'[P(p)] = replaced[P(p)] \o ms
    BY <1>1, <1>3, <2>2, SendFacts
  <2>4. \A g \in Gateways : down'[G(g)] = down[G(g)]
    BY <1>5, <2>3, Numbered
  <2>5. replaced[P(p)] \in Seq(Messages)
    BY <1>1, <1>3 DEF ChannelType
  <2>6. \A g \in Nat : Offered(down'[P(p)], g) => Offered(down[P(p)], g) \/ (server.offer # 0 /\ g = server.offer)
    <3>1. \A g : Offered(replaced[P(p)] \o ms, g) => Offered(replaced[P(p)], g) \/ Offered(ms, g)
      BY <2>5, Joined
    <3> QED BY <1>4, <2>1, <2>3, <3>1
  <2>7. \A q \in Pages, g \in Nat : q # p /\ Offered(down'[P(q)], g) => Offered(down[P(q)], g)
    BY <1>4, <1>5, <2>3, SocketFacts, Numbered
  <2>8. \A x \in Sockets : x \notin {P(p), V, W} => down'[x] = down[x]
    BY <1>3, <2>3
  <2> QED BY <1>1, <1>5, <1>8, <2>3, <2>4, <2>6, <2>7, <2>8 DEF V, W
<1>9. CASE role # "viewer"
  <2>1. down' = replaced BY <1>6, <1>9
  <2> QED BY <1>1, <1>3, <1>4, <1>5, <1>9, <2>1 DEF V, W
<1> QED BY <1>7, <1>8, <1>9

LEMMA OpenKeeps ==
  ASSUME Inv, NEW p \in Pages, NEW role \in {"viewer", "latest"}, OpenPage(p, role)
  PROVE  Inv'
<1> DEFINE L == gateway.life
<1>1. /\ pages[p].state = "unopened"
      /\ pages' = [pages EXCEPT ![p].state = "open", ![p].role = role]
      /\ server' = IF role = "viewer" /\ server.used
                   THEN [server EXCEPT !.viewer = p, !.offer = 0, !.candidates = <<>>]
                   ELSE [server EXCEPT !.viewer = p]
      /\ UNCHANGED <<gateway, up, faults, answered>>
  BY DEF OpenPage, MustReset
<1>2. /\ server' \in ServerType /\ server'.alive = server.alive /\ server'.gateway = server.gateway
      /\ server'.viewer = p /\ server'.used = server.used /\ server'.offer \in {server.offer, 0}
  <2>1. server \in ServerType /\ p \in 0 .. MaxPages /\ <<>> \in Numbers
    BY InvTypes, Numbered DEF Numbers
  <2> QED BY <1>1, <2>1 DEF ServerType
<1>3. /\ pages' \in [Pages -> PageType] /\ pages'[p].role = role /\ pages'[p].state # "unopened"
      /\ \A q \in Pages : q # p => pages'[q] = pages[q]
  BY <1>1, InvTypes DEF PageType
<1>4. /\ down' \in ChannelType /\ p # server.viewer
      /\ \A x \in Sockets : x \notin {P(p), P(server.viewer), G(server.gateway)} =>
                               down'[x] = down[x]
      /\ \A g \in Gateways : /\ G(g) \in Sockets
                             /\ down'[G(g)] \in {down[G(g)], With(down[G(g)], Reset)}
                             /\ role = "viewer" /\ server.used /\ server.gateway = g
                                   /\ ~Ended(down[G(g)]) => down'[G(g)] = With(down[G(g)], Reset)
      /\ \A q \in Pages, g \in Nat : Offered(down'[P(q)], g) =>
            \/ Offered(down[P(q)], g)
            \/ /\ q = p /\ role = "viewer" /\ ~server.used
               /\ server.offer # 0 /\ g = server.offer
  BY OpenFacts
<1>t. Typed'
  BY <1>1, <1>2, <1>3, <1>4 DEF Inv, Typed
<1>f. Fresh'
  <2>1. FreshGateways(L, up, down')
    <3> SUFFICES ASSUME NEW g \in Gateways, g > L PROVE up[G(g)] = <<>> /\ down'[G(g)] = <<>>
      BY DEF FreshGateways
    <3>1. g # server.gateway /\ g \in Nat /\ G(g) \in Sockets
      BY <1>4, InvTypes, Numbered DEF Inv, Fresh
    <3>2. G(g) \notin {P(p), P(server.viewer), G(server.gateway)}
      BY <3>1, SocketFacts, InvTypes, Numbered
    <3> QED BY <1>4, <3>1, <3>2 DEF Inv, Fresh, FreshGateways
  <2>2. FreshPages(pages', p, up, down')
    <3> SUFFICES ASSUME NEW q \in Pages, pages'[q].state = "unopened"
                 PROVE  up[P(q)] = <<>> /\ down'[P(q)] = <<>>
      BY <1>3 DEF FreshPages
    <3>1. q # p /\ pages[q].state = "unopened" BY <1>3
    <3>2. q # server.viewer /\ q \in Nat BY <3>1, Numbered DEF Inv, Fresh, FreshPages
    <3>3. P(q) \in Sockets /\ P(q) \notin {P(p), P(server.viewer), G(server.gateway)}
      BY <3>1, <3>2, SocketFacts, InvTypes, Numbered
    <3> QED BY <1>4, <3>1, <3>3 DEF Inv, Fresh, FreshPages
  <2> QED BY <1>1, <1>2, <2>1, <2>2 DEF Inv, Fresh
<1>5. /\ up[P(p)] = <<>> /\ down[P(p)] = <<>>
  BY <1>1 DEF Inv, Fresh, FreshPages
<1>p. PageSockets(pages', up, down')
  <2> SUFFICES ASSUME NEW q \in Pages
               PROVE  /\ PageSocket(up[P(q)], q)
                      /\ pages'[q].role # "viewer" => /\ up[P(q)] \in {<<>>, <<Close>>}
                                                      /\ \A g \in Nat : ~Offered(down'[P(q)], g)
    BY DEF PageSockets
  <2>1. CASE q = p
    BY <1>3, <1>4, <1>5, <2>1, Empty
  <2>2. CASE q # p
    BY <1>3, <1>4, <2>2 DEF Inv, PageSockets
  <2> QED BY <2>1, <2>2
<1>o. OffersOnce(server', gateway, answered, up, down')
  <2>1. \A g \in Gateways : Given(server', answered, up, down', g) => Given(server, answered, up, down, g)
    BY <1>2, <1>4, Numbered DEF Given
  <2> QED BY <2>1 DEF Inv, OffersOnce
<1>a. AnsweredIsUsed(server', answered)
  BY <1>2 DEF Inv, AnsweredIsUsed
<1>6. ASSUME gateway.phase # "down", NEW r, Hearable(gateway, down', r)
      PROVE  Hearable(gateway, down, r)
  <2>1. L \in Gateways /\ down[G(L)] \in Seq(Messages) BY <1>6, Running
  <2>2. Hears(With(down[G(L)], Reset), r) => Hears(down[G(L)], r)
    BY <2>1, HearsSent, MessageFacts
  <2> QED BY <1>4, <1>6, <2>1, <2>2 DEF Hearable
<1>s. OnePage(gateway, down')
  BY <1>6 DEF Inv, OnePage
<1>e. Session(server', gateway, pages', up, down')
  <2> SUFFICES ASSUME Untold(gateway, down')
               PROVE  /\ server'.alive /\ server'.gateway = gateway.life
                      /\ Open(up[G(gateway.life)])
                      /\ \A r \in Nat : Hearable(gateway, down', r) =>
                            server'.used /\ role # "viewer"
    BY <1>2, <1>3 DEF Session
  <2>1. /\ gateway.phase # "down" /\ ~Told(down'[G(L)]) /\ ~gateway.restart
        /\ L \in Gateways /\ down[G(L)] \in Seq(Messages)
    BY Running DEF Untold
  <2>2. Told(With(down[G(L)], Reset)) /\ (Told(down[G(L)]) => Told(With(down[G(L)], Reset)))
    BY <2>1, HearsSent, MessageFacts, Apart
  <2>3. down'[G(L)] = down[G(L)] /\ Untold(gateway, down)
    BY <1>4, <2>1, <2>2 DEF Untold
  <2>4. ~Ended(down[G(L)])
    <3>1. Open(down[G(L)]) BY <2>3, Apart DEF Untold, Told, Open
    <3> QED BY <2>1, <3>1, NotEnded
  <2>5. ASSUME NEW r \in Nat, Hearable(gateway, down', r)
        PROVE  server'.used /\ role # "viewer"
    <3>1. server.used /\ server.gateway = L
      BY <1>6, <2>1, <2>3, <2>5 DEF Inv, Session
    <3>2. With(down[G(L)], Reset) # down[G(L)] BY <2>1, <2>2, <2>3
    <3> QED BY <1>2, <1>4, <2>1, <2>3, <2>4, <3>1, <3>2
  <2> QED BY <1>2, <2>3, <2>5 DEF Inv, Session
<1> QED BY <1>1, <1>t, <1>f, <1>p, <1>o, <1>a, <1>s, <1>e DEF Inv

-----------------------------------------------------------------------------
(***************************************************************************)
(* The gateway.                                                            *)
(***************************************************************************)
LEMMA ConnectsKeeps ==
  ASSUME Inv, GatewayConnects
  PROVE  Inv'
<1> DEFINE n == gateway.life + 1
           W == G(server.gateway)
<1>1. /\ gateway.phase = "down" /\ gateway.life < MaxGateways /\ server.alive
      /\ gateway' = [life |-> n, phase |-> "connected", signaling |-> TRUE,
                     restart |-> FALSE, gathered |-> FALSE, answer |-> NoAnswer,
                     streaming |-> FALSE, heard |-> {}]
      /\ server' = [NoSession(server) EXCEPT !.gateway = n]
      /\ down' = Send(down, W, <<Close>>)
      /\ UNCHANGED <<pages, up, faults, answered>>
  BY DEF GatewayConnects
<1>2. n \in Nat /\ n \in Gateways /\ server.gateway < n /\ gateway.life < n
  <2>1. gateway.life \in Nat /\ MaxGateways \in Nat /\ server.gateway \in Nat
        /\ server.gateway <= gateway.life
    BY InvTypes, Numbered DEF Inv, Fresh
  <2> QED BY <1>1, <2>1, Numbered
<1> HIDE DEF n
<1>3. /\ gateway' \in GatewayType /\ gateway'.life = n /\ gateway'.phase = "connected"
      /\ ~gateway'.restart /\ gateway'.heard = {}
  BY <1>1, <1>2, MessageFacts DEF GatewayType, Flags, Names
<1>4. /\ server' \in ServerType /\ server'.alive /\ server'.gateway = n
      /\ server'.viewer = server.viewer /\ server'.offer = 0
  <2>1. PICK s \in ServerType : /\ s = NoSession(server) /\ s.alive = server.alive
                                /\ s.viewer = server.viewer /\ s.offer = 0
    BY InvTypes, NoSessionFacts
  <2>2. server' = [s EXCEPT !.gateway = n] BY <1>1, <2>1
  <2> QED BY <1>1, <1>2, <2>1, <2>2 DEF ServerType
<1>5. /\ down' \in ChannelType
      /\ \A x \in Sockets : down'[x] # down[x] => x = W
  <2>1. Close \in Messages /\ down \in ChannelType BY MessageFacts, InvTypes
  <2>2. /\ Send(down, W, <<Close>>) \in ChannelType
        /\ \A x \in Sockets : Send(down, W, <<Close>>)[x] # down[x] => x = W
    BY <2>1, SendOne
  <2> QED BY <1>1, <2>2
<1>6. /\ \A p \in Pages : P(p) \in Sockets /\ down'[P(p)] = down[P(p)]
      /\ \A g \in Gateways : G(g) \in Sockets /\ (g >= n => down'[G(g)] = down[G(g)])
  BY <1>2, <1>5, SocketFacts, Numbered, InvTypes
<1>7. up[G(n)] = <<>> /\ down[G(n)] = <<>> /\ down'[G(n)] = <<>>
  BY <1>2, <1>6, InvTypes DEF Inv, Fresh, FreshGateways
<1>t. Typed' BY <1>1, <1>3, <1>4, <1>5 DEF Inv, Typed
<1>f. Fresh'
  <2>1. \A g \in Gateways : g > n => g > gateway.life /\ g >= n
    BY <1>2, InvTypes, Numbered
  <2>2. FreshGateways(n, up, down')
    BY <1>6, <2>1 DEF Inv, Fresh, FreshGateways
  <2>3. FreshPages(pages, server.viewer, up, down')
    BY <1>6 DEF Inv, Fresh, FreshPages
  <2>4. n <= MaxGateways /\ n # 0 /\ n <= n BY <1>2, Numbered
  <2> QED BY <1>1, <1>3, <1>4, <2>2, <2>3, <2>4 DEF Fresh
<1>p. PageSockets(pages, up, down') BY <1>6 DEF Inv, PageSockets
<1>g. GatewaySockets(gateway', up) BY <1>3, <1>7 DEF Inv, GatewaySockets
<1>o. OffersOnce(server', gateway', answered, up, down')
  <2>1. \A g \in Gateways : Given(server', answered, up, down', g) => Given(server, answered, up, down, g)
    BY <1>4, <1>6, Numbered DEF Given
  <2>2. \A g \in Gateways : Made(gateway, g) => Made(gateway', g)
    BY <1>2, <1>3, Numbered, InvTypes DEF Made
  <2> QED BY <2>1, <2>2 DEF Inv, OffersOnce
<1>a. AnsweredIsUsed(server', answered) BY <1>4 DEF AnsweredIsUsed
<1>8. \A r : ~Hearable(gateway', down', r) BY <1>3, <1>7, Empty DEF Hearable
<1>s. OnePage(gateway', down') BY <1>3, <1>8 DEF OnePage
<1>e. Session(server', gateway', pages, up, down')
  <2>1. Open(up[G(n)]) BY <1>7 DEF Open
  <2> QED BY <1>3, <1>4, <1>8, <2>1 DEF Session
<1> QED BY <1>1, <1>t, <1>f, <1>p, <1>g, <1>o, <1>a, <1>s, <1>e DEF Inv

\* A life sends its offer when it has made its connection, a candidate after it.
LEMMA LifeSendsKeeps ==
  ASSUME Inv, NEW m \in Messages, m.gateway = gateway.life, gateway.phase # "down",
         gateway' \in GatewayType, gateway'.life = gateway.life, gateway'.phase = "offered",
         gateway'.restart = gateway.restart, gateway'.heard = gateway.heard,
         up' = SendSignalingMessage(m),
         \/ m.kind = "offer" /\ gateway.phase = "connected"
         \/ m.kind = "candidate" /\ gateway.phase = "offered",
         UNCHANGED <<server, pages, down, faults, answered>>
  PROVE  Inv'
<1> DEFINE L == gateway.life
           q == up[G(L)]
<1>1. L \in Gateways /\ L \in Nat /\ G(L) \in Sockets /\ q \in Seq(Messages) /\ Mine = G(L)
  BY Running
<1>2. /\ up' \in ChannelType
      /\ \A x \in Sockets : up'[x] # up[x] => x = G(L) /\ ~Ended(up[x]) /\ up'[x] = With(up[x], m)
  <2>1. up \in ChannelType BY InvTypes
  <2>2. /\ Send(up, G(L), <<m>>) \in ChannelType
        /\ \A x \in Sockets : Send(up, G(L), <<m>>)[x] # up[x] =>
              x = G(L) /\ Send(up, G(L), <<m>>)[x] = With(up[x], m)
        /\ Ended(up[G(L)]) => Send(up, G(L), <<m>>)[G(L)] = up[G(L)]
    BY <1>1, <2>1, SendOne
  <2>3. up' = IF gateway.signaling THEN Send(up, G(L), <<m>>) ELSE up
    BY <1>1 DEF SendSignalingMessage
  <2> QED BY <2>1, <2>2, <2>3
<1>3. /\ \A p \in Pages : P(p) \in Sockets /\ up'[P(p)] = up[P(p)]
      /\ \A g \in Gateways : G(g) \in Sockets /\ g \in Nat /\ (g # L => up'[G(g)] = up[G(g)])
  BY <1>1, <1>2, SocketFacts, Numbered
<1>4. m # Close /\ m \notin Ends BY Apart
<1>5. CASE m.kind = "offer" /\ gateway.phase = "connected"
  <2>1. up'[G(L)] = q \/ (q = <<>> /\ up'[G(L)] = <<m>>)
    <3>1. q = <<>> \/ q = <<Close>> BY <1>5 DEF Inv, GatewaySockets
    <3>2. Ended(<<Close>>) BY DEF Ended, Last
    <3>3. With(<<>>, m) = <<m>>
      <4>1. <<>> \in Seq(Messages) OBVIOUS
      <4> QED BY <4>1, JoinedOne
    <3> QED BY <1>1, <1>2, <3>1, <3>2, <3>3
  <2>2. OfferIsFirst(up'[G(L)], L)
    BY <1>1, <1>3, <2>1, Singles DEF Inv, GatewaySockets
  <2>3. \A g \in Gateways : OfferIsFirst(up'[G(g)], g)
    BY <1>3, <2>2 DEF Inv, GatewaySockets
  <2>4. \A g \in Gateways : Made(gateway, g) => Made(gateway', g) /\ g # L
    BY <1>1, <1>3, <1>5 DEF Made
  <2>5. \A g \in Gateways : Given(server, answered, up', down, g) =>
                               Given(server, answered, up, down, g)
    BY <1>3 DEF Given
  <2>6. OffersOnce(server, gateway', answered, up', down)
    BY <1>3, <2>4, <2>5 DEF Inv, OffersOnce
  <2>7. Open(q) => Open(up'[G(L)])
    BY <1>4, <2>1 DEF Open
  <2> QED
    <3>t. Typed' BY <1>2 DEF Inv, Typed
    <3>f. Fresh'
      <4>1. \A g \in Gateways : g > L => up'[G(g)] = up[G(g)] BY <1>1, <1>3
      <4> QED BY <1>3, <1>5, <4>1 DEF Inv, Fresh, FreshGateways, FreshPages
    <3>p. PageSockets(pages, up', down) BY <1>3 DEF Inv, PageSockets
    <3>g. GatewaySockets(gateway', up') BY <2>3 DEF GatewaySockets
    <3>s. OnePage(gateway', down) BY <1>5 DEF Inv, OnePage, Hearable
    <3>e. Session(server, gateway', pages, up', down)
      BY <1>5, <2>7 DEF Inv, Session, Untold, Hearable
    <3> QED BY <2>6, <3>t, <3>f, <3>p, <3>g, <3>s, <3>e DEF Inv
<1>6. CASE m.kind = "candidate" /\ gateway.phase = "offered"
  <2>1. /\ OfferIsFirst(With(q, m), L) /\ \A h : Offered(With(q, m), h) => Offered(q, h)
        /\ Open(q) => Open(With(q, m))
    <3>1. OfferIsFirst(q, L) BY <1>1 DEF Inv, GatewaySockets
    <3>2. OfferIsFirst(With(q, m), L) /\ \A h : Offered(With(q, m), h) => Offered(q, h)
      BY <1>1, <1>4, <1>6, <3>1, OfferStaysFirst
    <3> QED BY <1>1, <1>4, <3>2, JoinedOne
  <2>2. /\ OfferIsFirst(up'[G(L)], L) /\ \A h : Offered(up'[G(L)], h) => Offered(q, h)
        /\ Open(q) => Open(up'[G(L)])
    BY <1>1, <1>2, <2>1 DEF Inv, GatewaySockets
  <2>3. \A g \in Gateways : OfferIsFirst(up'[G(g)], g)
    BY <1>3, <2>2 DEF Inv, GatewaySockets
  <2>4. \A g \in Gateways : /\ Made(gateway, g) => Made(gateway', g)
                            /\ Offered(up'[G(g)], g) => Offered(up[G(g)], g)
    BY <1>1, <1>3, <1>6, <2>2 DEF Made
  <2>5. \A g \in Gateways : Given(server, answered, up', down, g) =>
                               Given(server, answered, up, down, g)
    BY <1>3 DEF Given
  <2>6. OffersOnce(server, gateway', answered, up', down)
    BY <2>4, <2>5 DEF Inv, OffersOnce
  <2> QED
    <3>t. Typed' BY <1>2 DEF Inv, Typed
    <3>f. Fresh'
      <4>1. \A g \in Gateways : g > L => up'[G(g)] = up[G(g)] BY <1>1, <1>3
      <4> QED BY <1>3, <1>6, <4>1 DEF Inv, Fresh, FreshGateways, FreshPages
    <3>p. PageSockets(pages, up', down) BY <1>3 DEF Inv, PageSockets
    <3>g. GatewaySockets(gateway', up') BY <2>3 DEF GatewaySockets
    <3>s. OnePage(gateway', down) BY <1>6 DEF Inv, OnePage, Hearable
    <3>e. Session(server, gateway', pages, up', down)
      BY <1>6, <2>2 DEF Inv, Session, Untold, Hearable
    <3> QED BY <2>6, <3>t, <3>f, <3>p, <3>g, <3>s, <3>e DEF Inv
<1> QED BY <1>5, <1>6

LEMMA SetupKeeps ==
  ASSUME Inv, SetupWebRTC
  PROVE  Inv'
<1> DEFINE m == Offer(gateway.life)
<1>1. /\ gateway.phase = "connected" /\ gateway' = [gateway EXCEPT !.phase = "offered"]
      /\ up' = SendSignalingMessage(m) /\ UNCHANGED <<server, pages, down, faults, answered>>
  BY DEF SetupWebRTC
<1>2. m \in Messages /\ m.gateway = gateway.life /\ m.kind = "offer"
  BY InvTypes, MessageFacts
<1>3. /\ gateway' \in GatewayType /\ gateway'.life = gateway.life /\ gateway'.phase = "offered"
      /\ gateway'.restart = gateway.restart /\ gateway'.heard = gateway.heard
  BY <1>1, InvTypes DEF GatewayType
<1> HIDE DEF m
<1> QED BY <1>1, <1>2, <1>3, LifeSendsKeeps

LEMMA GathersKeeps ==
  ASSUME Inv, GathersCandidates
  PROVE  Inv'
<1> DEFINE m == GatewayCandidate(gateway.life)
<1>1. /\ gateway.phase = "offered" /\ gateway' = [gateway EXCEPT !.gathered = TRUE]
      /\ up' = SendSignalingMessage(m) /\ UNCHANGED <<server, pages, down, faults, answered>>
  BY DEF GathersCandidates
<1>2. m \in Messages /\ m.gateway = gateway.life /\ m.kind = "candidate"
  BY InvTypes, MessageFacts
<1>3. /\ gateway' \in GatewayType /\ gateway'.life = gateway.life /\ gateway'.phase = "offered"
      /\ gateway'.restart = gateway.restart /\ gateway'.heard = gateway.heard
  BY <1>1, InvTypes DEF GatewayType, Flags
<1> HIDE DEF m
<1> QED BY <1>1, <1>2, <1>3, LifeSendsKeeps

\* What happens to the media concerns the messages no more than to start over.
LEMMA MediaKeeps ==
  ASSUME Inv, gateway' \in GatewayType, gateway'.life = gateway.life,
         gateway'.phase = gateway.phase, gateway'.heard = gateway.heard,
         gateway'.restart = gateway.restart \/ gateway'.restart,
         faults' \in Nat, UNCHANGED <<server, pages, up, down, answered>>
  PROVE  Inv'
<1>1. Typed' BY DEF Inv, Typed
<1>2. Fresh' BY DEF Inv, Fresh
<1>3. GatewaySockets(gateway', up) BY DEF Inv, GatewaySockets
<1>4. OffersOnce(server, gateway', answered, up, down) BY DEF Inv, OffersOnce, Made
<1>5. OnePage(gateway', down) BY DEF Inv, OnePage, Hearable
<1>6. Session(server, gateway', pages, up, down) BY DEF Inv, Session, Untold, Hearable
<1> QED BY <1>1, <1>2, <1>3, <1>4, <1>5, <1>6 DEF Inv

LEMMA MediaStepsKeep ==
  ASSUME Inv, MediaConnects \/ MediaFails \/ MediaBreaks
  PROVE  Inv'
<1>1. gateway \in GatewayType /\ faults \in Nat BY InvTypes
<1>2. /\ gateway' \in GatewayType /\ gateway'.life = gateway.life
      /\ gateway'.phase = gateway.phase /\ gateway'.heard = gateway.heard
      /\ gateway'.restart = gateway.restart \/ gateway'.restart
  <2>1. CASE MediaConnects BY <1>1, <2>1 DEF MediaConnects, GatewayType, Flags
  <2>2. CASE MediaFails BY <1>1, <2>2 DEF MediaFails, GatewayType, Flags
  <2>3. CASE MediaBreaks BY <1>1, <2>3 DEF MediaBreaks, GatewayType, Flags
  <2> QED BY <2>1, <2>2, <2>3
<1>3. faults' \in Nat /\ UNCHANGED <<server, pages, up, down, answered>>
  BY <1>1 DEF MediaConnects, MediaFails, MediaBreaks
<1> QED BY <1>2, <1>3, MediaKeeps

\* What a dead life had queued has gone out up to some point.
LEMMA DyingQueue ==
  ASSUME NEW q \in Seq(Messages), NEW n \in 0 .. Len(q), NEW g, OfferIsFirst(q, g)
  PROVE  LET t == Append(SubSeq(q, 1, n), Close)
         IN  /\ t \in Seq(Messages) /\ OfferIsFirst(t, g)
             /\ \A h : Offered(t, h) => Offered(q, h)
<1> DEFINE s == SubSeq(q, 1, n)
<1>1. /\ s \in Seq(Messages) /\ DOMAIN s = 1 .. n
      /\ \A i \in 1 .. n : i \in DOMAIN q /\ s[i] = q[i]
  OBVIOUS
<1> HIDE DEF s
<1>2. Append(s, Close) = With(s, Close) /\ Close \in Messages /\ Close.kind # "offer"
  BY <1>1, MessageFacts DEF With
<1>3. OfferIsFirst(s, g) /\ \A h : Offered(s, h) => Offered(q, h)
  BY <1>1 DEF OfferIsFirst, Offered
<1>4. /\ With(s, Close) \in Seq(Messages) /\ OfferIsFirst(With(s, Close), g)
      /\ \A h : Offered(With(s, Close), h) => Offered(s, h)
  BY <1>1, <1>2, <1>3, OfferStaysFirst, JoinedOne
<1> QED BY <1>2, <1>3, <1>4 DEF s

LEMMA DiesKeeps ==
  ASSUME Inv, Dies, gateway.phase # "down", faults' \in Nat, UNCHANGED <<server, pages, answered>>
  PROVE  Inv'
<1> DEFINE L == gateway.life
<1>1. L \in Gateways /\ L \in Nat /\ G(L) \in Sockets /\ up[G(L)] \in Seq(Messages) /\ Mine = G(L)
  BY Running
<1>2. PICK queue : /\ queue = up[G(L)] \/ queue \in SentBefore(up[G(L)])
                   /\ up' = [up EXCEPT ![G(L)] = queue]
  BY <1>1 DEF Dies
<1>3. queue \in Seq(Messages) /\ OfferIsFirst(queue, L)
      /\ \A h : Offered(queue, h) => Offered(up[G(L)], h)
  <2>1. OfferIsFirst(up[G(L)], L) BY <1>1 DEF Inv, GatewaySockets
  <2>2. CASE queue = up[G(L)] BY <1>1, <2>1, <2>2
  <2>3. CASE queue \in SentBefore(up[G(L)])
    <3>1. PICK n \in 0 .. Len(up[G(L)]) : queue = Append(SubSeq(up[G(L)], 1, n), Close)
      BY <2>3 DEF SentBefore
    <3> QED BY <1>1, <2>1, <3>1, DyingQueue
  <2> QED BY <1>2, <2>2, <2>3
<1>4. /\ gateway' \in GatewayType /\ gateway'.life = L /\ gateway'.phase = "down"
      /\ gateway'.heard = gateway.heard
  BY InvTypes DEF Dies, GatewayType, Flags
<1>5. /\ up' \in ChannelType /\ up'[G(L)] = queue /\ \A x \in Sockets : x # G(L) => up'[x] = up[x]
  BY <1>1, <1>2, <1>3, InvTypes DEF ChannelType
<1>6. /\ down' \in ChannelType /\ \A x \in Sockets : x # G(L) => down'[x] = down[x]
  <2>1. down' = [down EXCEPT ![G(L)] = <<Close>>] BY <1>1 DEF Dies
  <2>2. <<Close>> \in Seq(Messages) BY MessageFacts
  <2> QED BY <1>1, <2>1, <2>2, InvTypes DEF ChannelType
<1>7. /\ \A p \in Pages : P(p) \in Sockets /\ up'[P(p)] = up[P(p)] /\ down'[P(p)] = down[P(p)]
      /\ \A g \in Gateways : /\ G(g) \in Sockets /\ g \in Nat
                             /\ g # L => up'[G(g)] = up[G(g)] /\ down'[G(g)] = down[G(g)]
  BY <1>1, <1>5, <1>6, SocketFacts, Numbered
<1>t. Typed' BY <1>4, <1>5, <1>6 DEF Inv, Typed
<1>f. Fresh'
  <2>1. \A g \in Gateways : g > L => up'[G(g)] = up[G(g)] /\ down'[G(g)] = down[G(g)]
    BY <1>1, <1>7
  <2> QED BY <1>4, <1>7, <2>1 DEF Inv, Fresh, FreshGateways, FreshPages
<1>p. PageSockets(pages, up', down') BY <1>7 DEF Inv, PageSockets
<1>g. GatewaySockets(gateway', up')
  <2>1. \A g \in Gateways : OfferIsFirst(up'[G(g)], g)
    BY <1>3, <1>5, <1>7 DEF Inv, GatewaySockets
  <2> QED BY <1>4, <2>1 DEF GatewaySockets
<1>o. OffersOnce(server, gateway', answered, up', down')
  <2>1. \A g \in Gateways : Given(server, answered, up', down', g) => Given(server, answered, up, down, g)
    BY <1>7 DEF Given
  <2>2. \A g \in Gateways : /\ Made(gateway, g) => Made(gateway', g)
                            /\ Offered(up'[G(g)], g) => Offered(up[G(g)], g)
    BY <1>3, <1>4, <1>5, <1>7 DEF Made
  <2> QED BY <2>1, <2>2 DEF Inv, OffersOnce
<1>s. OnePage(gateway', down') BY <1>4 DEF Inv, OnePage
<1>e. Session(server, gateway', pages, up', down') BY <1>4 DEF Session, Untold
<1> QED BY <1>t, <1>f, <1>p, <1>g, <1>o, <1>s, <1>e DEF Inv

LEMMA ReceivesKeeps ==
  ASSUME Inv, GatewayReceives
  PROVE  Inv'
<1> DEFINE L == gateway.life
           q == down[G(L)]
           m == Head(q)
<1>1. gateway.phase # "down" /\ down[Mine] # <<>> /\ UNCHANGED <<server, pages, faults, answered>>
  BY DEF GatewayReceives
<1>2. /\ L \in Gateways /\ L \in Nat /\ G(L) \in Sockets /\ Mine = G(L)
      /\ q \in Seq(Messages) /\ q # <<>> /\ m \in Messages
  BY <1>1, Running, HeadTail
<1>3. CASE m.kind = "answer" /\ gateway.phase = "connected"
  <2>1. Dies BY <1>2, <1>3 DEF GatewayReceives
  <2> QED BY <1>1, <2>1, DiesKeeps, InvTypes
<1>4. CASE ~(m.kind = "answer" /\ gateway.phase = "connected")
  <2>1. /\ gateway' = IF m = Close THEN [gateway EXCEPT !.signaling = FALSE, !.restart = TRUE]
                      ELSE HandleSignalingMessage(m)
        /\ down' = [down EXCEPT ![G(L)] = Drop(q)] /\ up' = up
    BY <1>2, <1>4 DEF GatewayReceives
  <2> HIDE DEF m
  <2>2. Drop(q) \in Seq(Messages) /\ (m # Close => Drop(q) = Tail(q))
    BY <1>2, DropFacts DEF m
  <2>3. /\ down' \in ChannelType /\ down'[G(L)] = Drop(q)
        /\ \A x \in Sockets : x # G(L) => down'[x] = down[x]
    BY <1>2, <2>1, <2>2, InvTypes DEF ChannelType
  <2>4. /\ gateway' \in GatewayType /\ gateway'.life = L /\ gateway'.phase = gateway.phase
        /\ m \in Ends => gateway'.restart /\ gateway'.heard = gateway.heard
        /\ m \notin Ends => /\ gateway'.restart = gateway.restart
                            /\ \A r \in gateway'.heard : r \in gateway.heard \/
                                  (m.kind = "answer" /\ r = m.page /\ ~gateway.restart)
    <3>1. gateway \in GatewayType /\ m.page \in Nat BY <1>2, InvTypes DEF Messages
    <3>2. CASE m = Close
      BY <2>1, <3>1, <3>2, Apart DEF GatewayType, Flags
    <3>3. CASE m = Reset
      <4>1. m # Close /\ m.kind # "answer" BY <3>3, MessageFacts
      <4>2. gateway' = [gateway EXCEPT !.restart = TRUE]
        BY <2>1, <3>3, <4>1 DEF HandleSignalingMessage
      <4> QED BY <3>1, <3>3, <4>2, Apart DEF GatewayType, Flags
    <3>4. CASE m # Close /\ m # Reset /\ m.kind = "answer"
      <4> DEFINE a == IF gateway.answer = NoAnswer THEN m ELSE gateway.answer
                 h == IF gateway.restart THEN gateway.heard ELSE gateway.heard \union {m.page}
      <4>1. gateway' = [gateway EXCEPT !.answer = a, !.heard = h]
        BY <2>1, <3>4 DEF HandleSignalingMessage
      <4>2. a \in Messages /\ h \in Names
        BY <1>2, <3>1 DEF GatewayType, Names
      <4>3. \A r \in h : r \in gateway.heard \/ (r = m.page /\ ~gateway.restart)
        OBVIOUS
      <4> HIDE DEF a, h
      <4>4. gateway' \in GatewayType /\ gateway'.life = L /\ gateway'.phase = gateway.phase
            /\ gateway'.restart = gateway.restart /\ gateway'.heard = h
        BY <3>1, <4>1, <4>2 DEF GatewayType
      <4> QED BY <3>4, <4>3, <4>4 DEF Ends
    <3>5. CASE m # Close /\ m # Reset /\ m.kind # "answer"
      <4>1. gateway' = gateway BY <2>1, <3>5 DEF HandleSignalingMessage
      <4> QED BY <3>1, <3>5, <4>1 DEF Ends
    <3> QED BY <3>2, <3>3, <3>4, <3>5
  <2>5. /\ \A p \in Pages : P(p) \in Sockets /\ down'[P(p)] = down[P(p)]
        /\ \A g \in Gateways : g # L => down'[G(g)] = down[G(g)]
    BY <1>2, <2>3, SocketFacts, Numbered
  <2>6. m \notin Ends => /\ \A r : Hears(Tail(q), r) => Hears(q, r)
                         /\ m.kind = "answer" => Hears(q, m.page)
                         /\ Told(q) => Told(Tail(q))
    BY <1>2, HearsTaken DEF m
  <2>t. Typed' BY <1>1, <2>1, <2>3, <2>4 DEF Inv, Typed
  <2>f. Fresh'
    <3>1. \A g \in Gateways : g > L => down'[G(g)] = down[G(g)] BY <1>2, <2>5
    <3> QED BY <1>1, <2>1, <2>4, <2>5, <3>1 DEF Inv, Fresh, FreshGateways, FreshPages
  <2>p. PageSockets(pages, up, down') BY <2>5 DEF Inv, PageSockets
  <2>g. GatewaySockets(gateway', up) BY <2>4 DEF Inv, GatewaySockets
  <2>o. OffersOnce(server, gateway', answered, up, down')
    BY <2>4, <2>5 DEF Inv, OffersOnce, Given, Made
  <2>7. ASSUME m \notin Ends, ~gateway.restart, NEW r, Hearable(gateway', down', r)
        PROVE  Hearable(gateway, down, r)
    <3>1. Drop(q) = Tail(q) BY <2>2, <2>7, Apart
    <3> QED BY <2>3, <2>4, <2>6, <2>7, <3>1 DEF Hearable
  <2>s. OnePage(gateway', down')
    <3>1. ASSUME NEW r \in gateway'.heard PROVE r \in Nat /\ (r \in gateway.heard \/
                    (~gateway.restart /\ m \notin Ends /\ Hearable(gateway, down, r)))
      <4>1. r \in Nat BY <2>4 DEF GatewayType, Names
      <4> QED BY <2>4, <2>6, <4>1 DEF Hearable
    <3>2. \A r, s \in gateway'.heard : r = s
      BY <1>1, <3>1 DEF Inv, OnePage, Hearable
    <3>3. ASSUME ~gateway'.restart, NEW r \in Nat, NEW s \in Nat,
                 Hearable(gateway', down', r), Hearable(gateway', down', s)
          PROVE  r = s
      <4>1. m \notin Ends /\ ~gateway.restart BY <2>4, <3>3
      <4> QED BY <1>1, <2>7, <3>3, <4>1 DEF Inv, OnePage
    <3> QED BY <3>2, <3>3 DEF OnePage
  <2>e. Session(server, gateway', pages, up, down')
    <3> SUFFICES ASSUME Untold(gateway', down')
                 PROVE  m \notin Ends /\ ~gateway.restart /\ Untold(gateway, down)
      BY <2>4, <2>7 DEF Inv, Session
    <3>1. ~gateway'.restart /\ ~Told(Drop(q)) BY <2>3, <2>4 DEF Untold
    <3>2. m \notin Ends /\ ~gateway.restart BY <2>4, <3>1
    <3>3. Drop(q) = Tail(q) BY <2>2, <3>2, Apart
    <3>4. ~Told(q) BY <2>6, <3>1, <3>2, <3>3
    <3> QED BY <1>1, <3>2, <3>4 DEF Untold
  <2> QED BY <1>1, <2>1, <2>t, <2>f, <2>p, <2>g, <2>o, <2>s, <2>e DEF Inv
<1> QED BY <1>3, <1>4

-----------------------------------------------------------------------------
(***************************************************************************)
(* The page.                                                               *)
(***************************************************************************)
LEMMA PageKeeps ==
  ASSUME Inv, NEW p \in Pages,
         pages' \in [Pages -> PageType], up' \in ChannelType, down' \in ChannelType,
         pages[p].state # "unopened", pages'[p].state # "unopened", pages'[p].role = pages[p].role,
         \A r \in Pages : r # p => pages'[r] = pages[r],
         \A x \in Sockets : x # P(p) => up'[x] = up[x] /\ down'[x] = down[x],
         PageSocket(up'[P(p)], p),
         pages[p].role # "viewer" => up'[P(p)] \in {<<>>, <<Close>>},
         \A g \in Nat : Offered(down'[P(p)], g) => Offered(down[P(p)], g),
         \A g \in Nat : Answers(up'[P(p)], g) => Answers(up[P(p)], g) \/ Offered(down[P(p)], g),
         UNCHANGED <<server, gateway, faults, answered>>
  PROVE  Inv'
<1>1. /\ \A r \in Pages : /\ P(r) \in Sockets
                          /\ pages'[r].role = pages[r].role
                          /\ r # p => up'[P(r)] = up[P(r)] /\ down'[P(r)] = down[P(r)]
      /\ \A g \in Gateways : G(g) \in Sockets /\ up'[G(g)] = up[G(g)] /\ down'[G(g)] = down[G(g)]
  BY SocketFacts, Numbered
<1>t. Typed' BY DEF Inv, Typed
<1>f. Fresh'
  <2>1. server.viewer # 0 => server.viewer \in Pages BY InvTypes
  <2>2. FreshPages(pages', server.viewer, up', down')
    BY <1>1, <2>1 DEF Inv, Fresh, FreshPages
  <2> QED BY <1>1, <2>2 DEF Inv, Fresh, FreshGateways
<1>p. PageSockets(pages', up', down')
  <2> SUFFICES ASSUME NEW r \in Pages
               PROVE  /\ PageSocket(up'[P(r)], r)
                      /\ pages[r].role # "viewer" => /\ up'[P(r)] \in {<<>>, <<Close>>}
                                                     /\ \A g \in Nat : ~Offered(down'[P(r)], g)
    BY <1>1 DEF PageSockets
  <2>1. CASE r = p BY <2>1 DEF Inv, PageSockets
  <2>2. CASE r # p BY <1>1, <2>2 DEF Inv, PageSockets
  <2> QED BY <2>1, <2>2
<1>g. GatewaySockets(gateway, up') BY <1>1, Running DEF Inv, GatewaySockets
<1>o. OffersOnce(server, gateway, answered, up', down')
  <2>1. \A g \in Gateways : Given(server, answered, up', down', g) => Given(server, answered, up, down, g)
    <3> SUFFICES ASSUME NEW g \in Gateways, NEW r \in Pages,
                        Answers(up'[P(r)], g) \/ Offered(down'[P(r)], g)
                 PROVE  Answers(up[P(r)], g) \/ Offered(down[P(r)], g)
      BY DEF Given
    <3>1. g \in Nat BY Numbered
    <3> QED BY <1>1, <3>1
  <2> QED BY <1>1, <2>1 DEF Inv, OffersOnce
<1>2. gateway.phase # "down" =>
        up'[G(gateway.life)] = up[G(gateway.life)] /\ down'[G(gateway.life)] = down[G(gateway.life)]
  BY <1>1, Running
<1>s. OnePage(gateway, down') BY <1>2 DEF Inv, OnePage, Hearable
<1>e. Session(server, gateway, pages', up', down')
  <2>1. server.viewer # 0 => pages'[server.viewer].role = pages[server.viewer].role
    BY <1>1, InvTypes
  <2> QED BY <1>2, <2>1 DEF Inv, Session, Untold, Hearable
<1> QED BY <1>t, <1>f, <1>p, <1>g, <1>o, <1>s, <1>e DEF Inv

LEMMA PageSends ==
  ASSUME Inv, NEW p \in Pages, NEW m \in Messages,
         m = Close \/ (m.kind = "answer" /\ m.page = p /\ pages[p].role = "viewer")
  PROVE  /\ Send(up, P(p), <<m>>) \in ChannelType
         /\ \A x \in Sockets : x # P(p) => Send(up, P(p), <<m>>)[x] = up[x]
         /\ PageSocket(Send(up, P(p), <<m>>)[P(p)], p)
         /\ pages[p].role # "viewer" => Send(up, P(p), <<m>>)[P(p)] \in {<<>>, <<Close>>}
         /\ \A g \in Nat : Answers(Send(up, P(p), <<m>>)[P(p)], g) =>
               Answers(up[P(p)], g) \/ (m.kind = "answer" /\ m.gateway = g)
<1>1. up \in ChannelType /\ P(p) \in Sockets /\ up[P(p)] \in Seq(Messages)
  BY InvTypes, SocketFacts
<1>2. PICK t : t = Send(up, P(p), <<m>>)
  OBVIOUS
<1>3. /\ t \in ChannelType /\ \A x \in Sockets : x # P(p) => t[x] = up[x]
      /\ t[P(p)] = up[P(p)] \/ (~Ended(up[P(p)]) /\ t[P(p)] = With(up[P(p)], m))
  <2>1. /\ Send(up, P(p), <<m>>) \in ChannelType
        /\ \A x \in Sockets : x # P(p) => Send(up, P(p), <<m>>)[x] = up[x]
        /\ ~Ended(up[P(p)]) => Send(up, P(p), <<m>>)[P(p)] = With(up[P(p)], m)
        /\ Ended(up[P(p)]) => Send(up, P(p), <<m>>)[P(p)] = up[P(p)]
    BY <1>1, SendOne
  <2> QED BY <1>2, <2>1
<1>4. PageSocket(up[P(p)], p) BY DEF Inv, PageSockets
<1>5. /\ PageSocket(With(up[P(p)], m), p)
      /\ \A g : Answers(With(up[P(p)], m), g) => Answers(up[P(p)], g) \/ (m.kind = "answer" /\ m.gateway = g)
      /\ up[P(p)] = <<>> => With(up[P(p)], m) = <<m>>
  BY <1>1, <1>4, JoinedOne
<1>6. pages[p].role # "viewer" => t[P(p)] \in {<<>>, <<Close>>}
  <2> HAVE pages[p].role # "viewer"
  <2>1. up[P(p)] \in {<<>>, <<Close>>} /\ m = Close BY DEF Inv, PageSockets
  <2>2. Ended(<<Close>>) BY DEF Ended, Last
  <2> QED BY <1>3, <1>5, <2>1, <2>2
<1> QED BY <1>2, <1>3, <1>4, <1>5, <1>6

LEMMA PageReceivesKeeps ==
  ASSUME Inv, NEW p \in Pages, PageReceives(p)
  PROVE  Inv'
<1> DEFINE q == down[P(p)]
           m == Head(q)
<1>1. /\ pages[p].state = "open" /\ q # <<>> /\ UNCHANGED <<server, gateway, faults, answered>>
      /\ P(p) \in Sockets /\ q \in Seq(Messages) /\ m \in Messages /\ p \in Nat
      /\ pages[p] \in PageType /\ pages \in [Pages -> PageType]
  BY SocketFacts, InvTypes, HeadTail, Numbered DEF PageReceives
<1>2. /\ pages' = [pages EXCEPT ![p] =
                     IF m = Close THEN [pages[p] EXCEPT !.state = "closed"]
                     ELSE IF m.kind = "offer" THEN TakeOffer(pages[p], m.gateway)
                     ELSE TakeCandidate(pages[p], m.gateway)]
      /\ up' = IF m = Close THEN Send(up, P(p), <<Close>>)
               ELSE IF m.kind = "offer" THEN Send(up, P(p), <<Answer(p, m.gateway)>>) ELSE up
      /\ down' = [down EXCEPT ![P(p)] = Drop(q)]
  BY DEF PageReceives
<1>3. m.kind = "offer" => Offered(q, m.gateway) BY <1>1, Taken
<1>4. Drop(q) \in Seq(Messages) /\ \A g : Offered(Drop(q), g) => Offered(q, g)
  <2>1. Drop(q) \in Seq(Messages) /\ (Drop(q) = Tail(q) \/ Drop(q) = q) BY <1>1, DropFacts
  <2>2. \A g : Offered(Tail(q), g) => Offered(q, g) BY <1>1, Taken
  <2> QED BY <2>1, <2>2
<1> HIDE DEF m
<1>5. m.gateway \in Nat BY <1>1 DEF Messages
<1>6. /\ down' \in ChannelType /\ down'[P(p)] = Drop(q)
      /\ \A x \in Sockets : x # P(p) => down'[x] = down[x]
  BY <1>1, <1>2, <1>4, InvTypes DEF ChannelType
<1>7. /\ [pages[p] EXCEPT !.state = "closed"] \in PageType
      /\ TakeOffer(pages[p], m.gateway) \in PageType
      /\ TakeOffer(pages[p], m.gateway).role = pages[p].role
      /\ TakeOffer(pages[p], m.gateway).state = pages[p].state
      /\ TakeCandidate(pages[p], m.gateway) \in PageType
      /\ TakeCandidate(pages[p], m.gateway).role = pages[p].role
      /\ TakeCandidate(pages[p], m.gateway).state = pages[p].state
  BY <1>1, <1>5 DEF TakeOffer, TakeCandidate, PageType, Names
<1>8. /\ pages' \in [Pages -> PageType] /\ pages'[p].role = pages[p].role
      /\ pages'[p].state # "unopened" /\ \A r \in Pages : r # p => pages'[r] = pages[r]
  BY <1>1, <1>2, <1>7 DEF PageType
<1>9. m.kind = "offer" => pages[p].role = "viewer"
  BY <1>3, <1>5 DEF Inv, PageSockets
<1>10. /\ up' \in ChannelType /\ \A x \in Sockets : x # P(p) => up'[x] = up[x]
       /\ PageSocket(up'[P(p)], p)
       /\ pages[p].role # "viewer" => up'[P(p)] \in {<<>>, <<Close>>}
       /\ \A g \in Nat : Answers(up'[P(p)], g) => Answers(up[P(p)], g) \/ Offered(q, g)
  <2>1. CASE m = Close
    <3>1. Close \in Messages /\ Close.kind # "answer" BY MessageFacts
    <3>2. up' = Send(up, P(p), <<Close>>) BY <1>2, <2>1
    <3> QED BY <3>1, <3>2, PageSends
  <2>2. CASE m # Close /\ m.kind = "offer"
    <3>1. PICK a \in Messages : /\ a = Answer(p, m.gateway)
                                /\ a.kind = "answer" /\ a.page = p /\ a.gateway = m.gateway
      BY <1>1, <1>5, MessageFacts
    <3>2. up' = Send(up, P(p), <<a>>) BY <1>2, <2>2, <3>1
    <3> QED BY <1>3, <1>9, <2>2, <3>1, <3>2, PageSends
  <2>3. CASE m # Close /\ m.kind # "offer"
    <3>1. up' = up BY <1>2, <2>3
    <3> QED BY <3>1, InvTypes DEF Inv, PageSockets
  <2> QED BY <2>1, <2>2, <2>3
<1> QED BY <1>1, <1>4, <1>6, <1>8, <1>10, PageKeeps

LEMMA UserClosesKeeps ==
  ASSUME Inv, NEW p \in Pages, UserCloses(p)
  PROVE  Inv'
<1>1. /\ pages[p].state = "open" /\ pages' = [pages EXCEPT ![p].state = "closed"]
      /\ up' = Send(up, P(p), <<Close>>) /\ down' = [down EXCEPT ![P(p)] = <<Close>>]
      /\ UNCHANGED <<server, gateway, faults, answered>>
  BY DEF UserCloses
<1>2. /\ P(p) \in Sockets /\ Close \in Messages /\ Close.kind # "answer" /\ Close.kind # "offer"
      /\ pages \in [Pages -> PageType] /\ down \in ChannelType
  BY SocketFacts, MessageFacts, InvTypes
<1>3. /\ pages' \in [Pages -> PageType] /\ pages'[p].role = pages[p].role
      /\ pages'[p].state # "unopened" /\ \A r \in Pages : r # p => pages'[r] = pages[r]
  BY <1>1, <1>2 DEF PageType
<1>4. /\ down' \in ChannelType /\ down'[P(p)] = <<Close>>
      /\ \A x \in Sockets : x # P(p) => down'[x] = down[x]
  BY <1>1, <1>2 DEF ChannelType
<1>5. \A g : ~Offered(<<Close>>, g) BY <1>2, Singles
<1>6. /\ up' \in ChannelType /\ \A x \in Sockets : x # P(p) => up'[x] = up[x]
      /\ PageSocket(up'[P(p)], p)
      /\ pages[p].role # "viewer" => up'[P(p)] \in {<<>>, <<Close>>}
      /\ \A g \in Nat : Answers(up'[P(p)], g) => Answers(up[P(p)], g)
  BY <1>1, <1>2, PageSends
<1> QED BY <1>1, <1>3, <1>4, <1>5, <1>6, PageKeeps

-----------------------------------------------------------------------------
LEMMA InitInv ==
  Init => Inv
<1> SUFFICES ASSUME Init PROVE Inv
  OBVIOUS
<1>1. /\ server = [alive |-> TRUE, gateway |-> 0, viewer |-> 0, used |-> FALSE,
                   offer |-> 0, candidates |-> <<>>]
      /\ gateway = [life |-> 0, phase |-> "down", signaling |-> FALSE, restart |-> FALSE,
                    gathered |-> FALSE, answer |-> NoAnswer, streaming |-> FALSE, heard |-> {}]
      /\ pages = [p \in Pages |-> [state |-> "unopened", role |-> "viewer", remote |-> 0,
                                   pending |-> {}, candidates |-> {}]]
      /\ up = [x \in Sockets |-> <<>>] /\ down = [x \in Sockets |-> <<>>]
      /\ faults = 0 /\ answered = {}
  BY DEF Init
<1>2. Typed
  <2>1. server \in ServerType
    BY <1>1, Numbered DEF ServerType, Flags, Numbers
  <2>2. gateway \in GatewayType
    BY <1>1, MessageFacts DEF GatewayType, Flags, Names
  <2>3. pages \in [Pages -> PageType]
    BY <1>1 DEF PageType, Names
  <2>4. up \in ChannelType /\ down \in ChannelType
    BY <1>1 DEF ChannelType
  <2>5. answered \in Names /\ faults \in Nat
    BY <1>1 DEF Names
  <2> QED BY <2>1, <2>2, <2>3, <2>4, <2>5 DEF Typed
<1>3. /\ \A g \in Gateways : up[G(g)] = <<>> /\ down[G(g)] = <<>>
      /\ \A p \in Pages : up[P(p)] = <<>> /\ down[P(p)] = <<>>
  BY <1>1, SocketFacts
<1>4. Fresh BY <1>1, <1>3, Numbered DEF Fresh, FreshGateways, FreshPages
<1>5. PageSockets(pages, up, down) BY <1>3, Empty DEF PageSockets
<1>6. GatewaySockets(gateway, up) BY <1>1, <1>3, Empty DEF GatewaySockets
<1>7. OffersOnce(server, gateway, answered, up, down)
  BY <1>1, <1>3, Empty, Numbered DEF OffersOnce, Given
<1>8. AnsweredIsUsed(server, answered) BY <1>1 DEF AnsweredIsUsed
<1>9. OnePage(gateway, down) /\ Session(server, gateway, pages, up, down)
  BY <1>1 DEF OnePage, Session, Untold
<1> QED BY <1>2, <1>4, <1>5, <1>6, <1>7, <1>8, <1>9 DEF Inv

LEMMA NextInv ==
  Inv /\ [Next]_vars => Inv'
<1> SUFFICES ASSUME Inv, [Next]_vars PROVE Inv'
  OBVIOUS
<1>1. ASSUME NEW g \in Gateways, ServerHandlesGateway(g) PROVE Inv'
  BY <1>1, HandlesGatewayKeeps
<1>2. ASSUME NEW p \in Pages, ServerHandlesPage(p) PROVE Inv'
  BY <1>2, HandlesPageKeeps
<1>3. ASSUME NEW x \in Sockets, ServerSeesClose(x) PROVE Inv'
  BY <1>3, SeesCloseKeeps
<1>4. CASE ServerStarts BY <1>4, StartsKeeps
<1>5. CASE GatewayConnects BY <1>5, ConnectsKeeps
<1>6. CASE SetupWebRTC BY <1>6, SetupKeeps
<1>7. CASE GathersCandidates BY <1>7, GathersKeeps
<1>8. CASE GatewayReceives BY <1>8, ReceivesKeeps
<1>9. CASE MediaConnects \/ MediaFails \/ MediaBreaks BY <1>9, MediaStepsKeep
<1>10. CASE Recycles
  <2>1. /\ gateway.phase # "down" /\ Dies /\ UNCHANGED <<server, pages, answered>>
        /\ faults' \in Nat
    BY <1>10, InvTypes DEF Recycles
  <2> QED BY <2>1, DiesKeeps
<1>11. CASE GatewayKilled
  <2>1. /\ gateway.phase # "down" /\ Dies /\ UNCHANGED <<server, pages, answered>>
        /\ faults' \in Nat
    BY <1>11, InvTypes DEF GatewayKilled
  <2> QED BY <2>1, DiesKeeps
<1>12. CASE ServerKilled BY <1>12, KilledKeeps
<1>13. ASSUME NEW p \in Pages, PageReceives(p) PROVE Inv'
  BY <1>13, PageReceivesKeeps
<1>14. ASSUME NEW p \in Pages, NEW role \in {"viewer", "latest"}, OpenPage(p, role) PROVE Inv'
  BY <1>14, OpenKeeps
<1>15. ASSUME NEW p \in Pages, UserCloses(p) PROVE Inv'
  BY <1>15, UserClosesKeeps
<1>16. CASE UNCHANGED vars
  <2>1. UNCHANGED <<server, gateway, pages, up, down, faults, answered>> BY <1>16 DEF vars
  <2> QED BY <2>1 DEF Inv, Typed, Fresh
<1> QED BY <1>1, <1>2, <1>3, <1>4, <1>5, <1>6, <1>7, <1>8, <1>9, <1>10, <1>11, <1>12, <1>13,
           <1>14, <1>15, <1>16 DEF Next, ServerSteps, GatewaySteps, PageSteps, Faults

\* The sockets, the offers and the session agree, for any number of pages,
\* lives and faults (server.js, main.cpp, index.html).
THEOREM MeetingInvariance ==
  Spec => []Inv
<1> QED BY InitInv, NextInv, PTL DEF Spec

\* However the pages replace each other, a gateway hears the answers of one of
\* them until it is told to start over (server.js:239-246).
THEOREM OnePageHeard ==
  Spec => []OnePagePerSession
<1>1. ASSUME Inv PROVE OnePagePerSession
  <2>1. \A p, q \in gateway.heard : p = q BY <1>1 DEF Inv, OnePage
  <2>2. CASE gateway.heard = {}
    BY <2>2, FS_EmptySet DEF OnePagePerSession
  <2>3. CASE gateway.heard # {}
    <3>1. PICK p \in gateway.heard : TRUE BY <2>3
    <3>2. gateway.heard = {p} BY <2>1, <3>1
    <3> QED BY <3>2, FS_Singleton DEF OnePagePerSession
  <2> QED BY <2>2, <2>3
<1> QED BY <1>1, MeetingInvariance, PTL

\* A page that opens is offered only what nobody has answered (server.js:204-219).
THEOREM NoReplay ==
  Spec => ConsumedOfferIsNotReplayed
<1> DEFINE Fresh1(p) == \A i \in DOMAIN down'[P(p)] :
              down'[P(p)][i].kind = "offer" => down'[P(p)][i].gateway \notin answered
<1>1. ASSUME Inv, Inv', [Next]_vars, NEW p \in Pages, OpensNow(p) PROVE Fresh1(p)
  <2>1. pages[p].state = "unopened" /\ pages'[p].state = "open"
    BY <1>1 DEF OpensNow
  <2>2. PICK role \in {"viewer", "latest"} : OpenPage(p, role)
    <3>1. ASSUME NEW q \in Pages, PageReceives(q) \/ UserCloses(q) PROVE FALSE
      <4>1. /\ pages[q].state = "open" /\ pages \in [Pages -> PageType]
            /\ \A r \in Pages : r # q => pages'[r] = pages[r]
        BY <3>1, InvTypes, <1>1 DEF PageReceives, UserCloses
      <4> QED BY <2>1, <4>1
    <3>2. ASSUME NEW q \in Pages, NEW role \in {"viewer", "latest"}, OpenPage(q, role) PROVE q = p
      <4>1. pages \in [Pages -> PageType] /\ \A r \in Pages : r # q => pages'[r] = pages[r]
        BY <3>2, InvTypes, <1>1 DEF OpenPage
      <4> QED BY <2>1, <4>1
    <3>3. \/ pages' = pages \/ \E q \in Pages : PageReceives(q) \/ UserCloses(q)
          \/ \E q \in Pages, role \in {"viewer", "latest"} : OpenPage(q, role)
      BY <1>1 DEF Next, ServerSteps, GatewaySteps, PageSteps, Faults, vars, ServerHandlesGateway,
            ServerHandlesPage, ServerSeesClose, ServerStarts, GatewayConnects, SetupWebRTC,
            GathersCandidates, GatewayReceives, MediaConnects, MediaFails, Recycles, ServerKilled,
            GatewayKilled, MediaBreaks
    <3> QED BY <2>1, <3>1, <3>2, <3>3
  <2>3. /\ down' \in ChannelType /\ down[P(p)] = <<>> /\ P(p) \in Sockets
        /\ \A g \in Nat : Offered(down'[P(p)], g) =>
              Offered(down[P(p)], g) \/ (~server.used /\ server.offer # 0 /\ g = server.offer)
    BY <1>1, <2>1, <2>2, OpenFacts, SocketFacts DEF Inv, Fresh, FreshPages
  <2>4. down'[P(p)] \in Seq(Messages) BY <2>3 DEF ChannelType
  <2>5. ASSUME NEW i \in DOMAIN down'[P(p)], down'[P(p)][i].kind = "offer"
        PROVE  down'[P(p)][i].gateway \notin answered
    <3>1. down'[P(p)][i].gateway \in Nat
      <4>1. down'[P(p)][i] \in Messages BY <2>4, <2>5
      <4> QED BY <4>1 DEF Messages
    <3>2. Offered(down'[P(p)], down'[P(p)][i].gateway) BY <2>5 DEF Offered
    <3>3. ~server.used /\ server.offer # 0 /\ down'[P(p)][i].gateway = server.offer
      BY <2>3, <3>1, <3>2, Empty
    <3> QED BY <1>1, <3>3 DEF Inv, AnsweredIsUsed
  <2> QED BY <2>5
<1>2. Inv /\ Inv' /\ [Next]_vars => [\A p \in Pages : OpensNow(p) => Fresh1(p)]_vars
  BY <1>1
<1> QED BY <1>2, MeetingInvariance, PTL DEF Spec, ConsumedOfferIsNotReplayed

-----------------------------------------------------------------------------
(***************************************************************************)
(* The session of the transport `latest': its credits bound what is under  *)
(* way and no frame comes twice or late, for any number of frames,         *)
(* failures and connections, in every flow.                                *)
(*                                                                         *)
(* A request returns the credit of a frame the page has had, and the       *)
(* frames still under way come after all of those: no request, repeated or *)
(* stray, frees a credit whose frame has not arrived.                      *)
(***************************************************************************)
Pumps == {"idle", "read", "send"}
CreditSets == SUBSET Nat
SessionType == [started : Flags, pump : Pumps, last : Nat, inflight : CreditSets]
ViewerType == [latest : Nat, pending : Nat, rendering : Nat, shown : Nat, retry : Flags, stray : Nat]
CameraType == [newest : Nat, writing : Flags]
FrameMessages == [type : {"frame"}, p : Nat]
MessageType == FrameMessages \union {Wait, Fail}

SessionTyped == /\ session \in SessionType /\ viewer \in ViewerType /\ camera \in CameraType
         /\ toServer \in Seq(Nat) /\ toPage \in Seq(MessageType)

\* The page: the image, the frame being decoded, the one that waits, the latest.
PageInv ==
    /\ viewer.shown <= viewer.latest
    /\ viewer.rendering # None =>
          viewer.shown < viewer.rendering /\ viewer.rendering <= viewer.latest
    /\ viewer.pending # None =>
          /\ viewer.rendering # None /\ viewer.rendering < viewer.pending
          /\ viewer.pending <= viewer.latest

\* The way down: frames the page has not had, in order, each with its credit.
IsFrame(m) == m.type = "frame"
Arriving(queue, latest, s) ==
    /\ \A i \in 1 .. Len(queue) : IsFrame(queue[i]) =>
          latest < queue[i].p /\ queue[i].p <= s.last /\ queue[i].p \in s.inflight
    /\ \A i, j \in 1 .. Len(queue) :
          i < j /\ IsFrame(queue[i]) /\ IsFrame(queue[j]) => queue[i].p < queue[j].p
DownInv == viewer.latest <= session.last /\ Arriving(toPage, viewer.latest, session)

\* The way up: frames the page has had.
Had(queue, latest) == \A i \in 1 .. Len(queue) : queue[i] <= latest
UpInv == Had(toServer, viewer.latest)

\* The credits.
Credits(s) == /\ IsFiniteSet(s.inflight) /\ Cardinality(s.inflight) <= Window
              /\ s.pump = "read" => Cardinality(s.inflight) < Window

SessionInv == SessionTyped /\ PageInv /\ DownInv /\ UpInv /\ Credits(session)

-----------------------------------------------------------------------------
(***************************************************************************)
(* Queues.                                                                 *)
(***************************************************************************)
LEMMA HeadAndTail ==
  ASSUME NEW S, NEW s \in Seq(S), s # <<>>
  PROVE  /\ Len(s) \in Nat \ {0} /\ Head(s) = s[1] /\ Head(s) \in S /\ 1 \in 1 .. Len(s)
         /\ Tail(s) \in Seq(S) /\ Len(Tail(s)) = Len(s) - 1
         /\ \A i \in 1 .. Len(Tail(s)) :
               i + 1 \in 1 .. Len(s) /\ 1 < i + 1 /\ Tail(s)[i] = s[i + 1]
OBVIOUS

LEMMA JoinedTo ==
  ASSUME NEW S, NEW s \in Seq(S), NEW t \in Seq(S)
  PROVE  /\ s \o t \in Seq(S)
         /\ \A i \in 1 .. Len(s \o t) :
               \/ i \in 1 .. Len(s) /\ (s \o t)[i] = s[i]
               \/ i - Len(s) \in 1 .. Len(t) /\ (s \o t)[i] = t[i - Len(s)]
OBVIOUS

LEMMA Appended ==
  ASSUME NEW S, NEW s \in Seq(S), NEW e \in S
  PROVE  /\ Append(s, e) \in Seq(S) /\ Len(s) \in Nat
         /\ \A i \in 1 .. Len(Append(s, e)) :
               \/ i \in 1 .. Len(s) /\ Append(s, e)[i] = s[i]
               \/ i = Len(s) + 1 /\ Append(s, e)[i] = e
OBVIOUS

LEMMA MessagesAre ==
  /\ \A p \in Nat : Frame(p) \in MessageType /\ IsFrame(Frame(p)) /\ Frame(p).p = p
  /\ Wait \in MessageType /\ ~IsFrame(Wait) /\ Fail \in MessageType /\ ~IsFrame(Fail)
  /\ \A m \in MessageType : IsFrame(m) => m.p \in Nat
BY DEF Frame, Wait, Fail, IsFrame, MessageType, FrameMessages

LEMMA PumpsAre ==
  /\ "idle" \in Pumps /\ "read" \in Pumps /\ "send" \in Pumps
  /\ TRUE \in Flags /\ FALSE \in Flags
  /\ {} \in CreditSets /\ \A s \in CreditSets : \A n : s \ {n} \in CreditSets
  /\ \A s \in CreditSets : \A n \in Nat : s \union {n} \in CreditSets
BY DEF Pumps, Flags, CreditSets

\* A read begins only while a credit is left.
LEMMA PumpFacts ==
  ASSUME NEW s \in SessionType, Credits(s), NEW t, t = Pump(s)
  PROVE  /\ t \in SessionType /\ Credits(t) /\ t.last = s.last /\ t.inflight = s.inflight
<1>1. CASE s.pump = "idle" /\ Cardinality(s.inflight) < Window
  <2>1. t = [s EXCEPT !.pump = "read"]
    BY <1>1 DEF Pump
  <2>2. /\ t \in SessionType /\ t.pump = "read" /\ t.last = s.last /\ t.inflight = s.inflight
    BY <2>1, PumpsAre DEF SessionType
  <2> QED BY <1>1, <2>2 DEF Credits
<1>2. CASE ~(s.pump = "idle" /\ Cardinality(s.inflight) < Window)
  BY <1>2 DEF Pump
<1> QED BY <1>1, <1>2

LEMMA WindowIs == Window \in {1, 2}
BY DEF Window

\* A message more at the end of the way down.
LEMMA OneMore ==
  ASSUME NEW q \in Seq(MessageType), NEW latest \in Nat, NEW s \in SessionType,
         Arriving(q, latest, s), NEW m \in MessageType, NEW t \in SessionType,
         s.last <= t.last, s.inflight \subseteq t.inflight,
         IsFrame(m) => latest < m.p /\ s.last < m.p /\ m.p <= t.last /\ m.p \in t.inflight
  PROVE  Append(q, m) \in Seq(MessageType) /\ Arriving(Append(q, m), latest, t)
<1> DEFINE a == Append(q, m)
<1>1. /\ a \in Seq(MessageType) /\ Len(q) \in Nat
      /\ \A i \in 1 .. Len(a) :
            (i \in 1 .. Len(q) /\ a[i] = q[i]) \/ (i = Len(q) + 1 /\ a[i] = m)
  BY Appended
<1>2. s.last \in Nat /\ t.last \in Nat
  BY DEF SessionType
<1>3. \A i \in 1 .. Len(q) : IsFrame(q[i]) => q[i].p \in Nat
  <2>1. \A i \in 1 .. Len(q) : q[i] \in MessageType
    OBVIOUS
  <2> QED BY <2>1, MessagesAre
<1>4. IsFrame(m) => m.p \in Nat
  BY MessagesAre
<1> HIDE DEF a
<1>5. \A i \in 1 .. Len(a) : IsFrame(a[i]) =>
         latest < a[i].p /\ a[i].p <= t.last /\ a[i].p \in t.inflight
  <2> TAKE i \in 1 .. Len(a)
  <2>1. CASE i \in 1 .. Len(q) /\ a[i] = q[i]
    BY <1>2, <1>3, <2>1 DEF Arriving
  <2>2. CASE a[i] = m
    BY <2>2
  <2> QED BY <1>1, <2>1, <2>2
<1>6. ASSUME NEW i \in 1 .. Len(a), NEW j \in 1 .. Len(a), i < j, IsFrame(a[i]), IsFrame(a[j])
      PROVE  a[i].p < a[j].p
  <2>1. i \in 1 .. Len(q) /\ a[i] = q[i]
    BY <1>1, <1>6
  <2>2. CASE j \in 1 .. Len(q) /\ a[j] = q[j]
    BY <1>6, <2>1, <2>2 DEF Arriving
  <2>3. CASE a[j] = m
    BY <1>2, <1>3, <1>4, <1>6, <2>1, <2>3 DEF Arriving
  <2> QED BY <1>1, <2>2, <2>3
<1>7. Arriving(a, latest, t)
  BY <1>5, <1>6 DEF Arriving
<1> QED BY <1>1, <1>7 DEF a

\* A message less at its beginning.
LEMMA OneLess ==
  ASSUME NEW q \in Seq(MessageType), q # <<>>, NEW latest \in Nat, NEW s \in SessionType,
         Arriving(q, latest, s)
  PROVE  /\ Arriving(Tail(q), latest, s) /\ Tail(q) \in Seq(MessageType)
         /\ Head(q) \in MessageType
         /\ IsFrame(Head(q)) =>
               /\ latest < Head(q).p /\ Head(q).p <= s.last
               /\ Arriving(Tail(q), Head(q).p, s)
<1>1. /\ Head(q) = q[1] /\ Head(q) \in MessageType /\ 1 \in 1 .. Len(q)
      /\ Tail(q) \in Seq(MessageType)
      /\ \A i \in 1 .. Len(Tail(q)) :
            i + 1 \in 1 .. Len(q) /\ 1 < i + 1 /\ Tail(q)[i] = q[i + 1]
  BY HeadAndTail
<1>2. \A i, j \in 1 .. Len(Tail(q)) : i < j => i + 1 < j + 1
  BY HeadAndTail
<1> DEFINE t == Tail(q)
           h == Head(q)
<1> HIDE DEF t, h
<1>3. Arriving(t, latest, s)
  BY <1>1, <1>2 DEF Arriving, t
<1>4. IsFrame(h) => latest < h.p /\ h.p <= s.last /\ Arriving(t, h.p, s)
  BY <1>1, <1>2 DEF Arriving, t, h
<1> QED BY <1>1, <1>3, <1>4 DEF t, h

-----------------------------------------------------------------------------
(***************************************************************************)
(* The server.                                                             *)
(***************************************************************************)
LEMMA InvFacts ==
  ASSUME SessionInv
  PROVE  /\ session \in SessionType /\ viewer \in ViewerType /\ camera \in CameraType
         /\ toServer \in Seq(Nat) /\ toPage \in Seq(MessageType)
         /\ session.last \in Nat /\ session.inflight \in CreditSets /\ viewer.latest \in Nat
         /\ viewer.rendering \in Nat /\ viewer.pending \in Nat /\ viewer.shown \in Nat
         /\ viewer.stray \in Nat /\ camera.newest \in Nat
         /\ PageInv /\ viewer.latest <= session.last /\ Arriving(toPage, viewer.latest, session)
         /\ Had(toServer, viewer.latest) /\ Credits(session)
BY DEF SessionInv, SessionTyped, DownInv, UpInv, SessionType, ViewerType, CameraType

\* Only the server's variables and the way down change.
LEMMA ServerStep ==
  ASSUME SessionInv, flow' = flow, camera' = camera, viewer' = viewer, toServer' = toServer,
         session' \in SessionType, Credits(session)', session.last <= session'.last,
         toPage' \in Seq(MessageType), Arriving(toPage, viewer.latest, session)'
  PROVE  SessionInv'
<1>1. viewer.latest <= session'.last
  <2>1. session'.last \in Nat
    BY DEF SessionType
  <2> QED BY <2>1, InvFacts
<1> QED BY <1>1, InvFacts DEF SessionInv, SessionTyped, PageInv, DownInv, UpInv

\* The credit that is freed is not one of a frame under way.
LEMMA OnRequestKeeps ==
  ASSUME SessionInv, OnRequest
  PROVE  SessionInv'
<1> DEFINE after == Head(toServer)
           left == session.inflight \ {after}
           s == [session EXCEPT !.started = TRUE, !.inflight = left]
<1>1. /\ toServer # <<>> /\ toServer' = Tail(toServer) /\ UNCHANGED <<flow, camera, viewer, toPage>>
      /\ session' = IF Credited(session, after) THEN Pump(s) ELSE session
  BY InvFacts DEF OnRequest, SessionType
<1>2. /\ after \in Nat /\ after <= viewer.latest /\ Had(Tail(toServer), viewer.latest)
      /\ Tail(toServer) \in Seq(Nat)
  BY <1>1, InvFacts, HeadAndTail DEF Had
<1>3. Arriving(toPage, viewer.latest, session)
  BY InvFacts
<1>4. /\ left \in CreditSets /\ IsFiniteSet(left) /\ Cardinality(left) <= Window
      /\ session.pump = "read" => Cardinality(left) < Window
  <2>1. /\ IsFiniteSet(session.inflight) /\ Cardinality(session.inflight) <= Window
        /\ session.pump = "read" => Cardinality(session.inflight) < Window
    BY InvFacts DEF Credits
  <2>2. IsFiniteSet(left) /\ Cardinality(left) <= Cardinality(session.inflight)
    BY <2>1, FS_Subset
  <2>3. Cardinality(left) \in Nat /\ Cardinality(session.inflight) \in Nat /\ Window \in Nat
    BY <2>1, <2>2, FS_CardinalityType, WindowIs
  <2>4. left \in CreditSets
    BY InvFacts, PumpsAre
  <2> HIDE DEF left
  <2> QED BY <2>1, <2>2, <2>3, <2>4
<1>5. \A i \in 1 .. Len(toPage) : IsFrame(toPage[i]) => toPage[i].p # after
  <2>1. \A i \in 1 .. Len(toPage) : IsFrame(toPage[i]) => viewer.latest < toPage[i].p /\ toPage[i].p \in Nat
    BY <1>3, InvFacts, MessagesAre DEF Arriving
  <2> QED BY <1>2, <2>1, InvFacts
<1>6. \A i \in 1 .. Len(toPage) : IsFrame(toPage[i]) => toPage[i].p \in left
  BY <1>3, <1>5 DEF Arriving
<1> HIDE DEF left
<1>7. /\ s \in SessionType /\ s.last = session.last /\ s.inflight = left /\ Credits(s)
  <2>1. /\ s \in SessionType /\ s.last = session.last /\ s.inflight = left
        /\ s.pump = session.pump
    BY <1>4, InvFacts, PumpsAre DEF SessionType
  <2> QED BY <1>4, <2>1 DEF Credits
<1> HIDE DEF s
<1>8. /\ session' \in SessionType /\ session'.last = session.last /\ Credits(session')
      /\ \/ session'.inflight = left
         \/ session'.inflight = session.inflight
  BY <1>1, <1>7, InvFacts, PumpFacts
<1>9. Arriving(toPage, viewer.latest, session)'
  BY <1>1, <1>3, <1>6, <1>8 DEF Arriving
<1> HIDE DEF after
<1> QED BY <1>1, <1>2, <1>8, <1>9, InvFacts DEF SessionInv, SessionTyped, PageInv, DownInv, UpInv, Credits, Window

LEMMA ReadFrameKeeps ==
  ASSUME SessionInv, ReadFrame
  PROVE  SessionInv'
<1> DEFINE n == camera.newest
           more == session.inflight \union {n}
<1>1. /\ session' = [session EXCEPT !.pump = "send", !.last = n, !.inflight = more]
      /\ toPage' = Append(toPage, Frame(n)) /\ UNCHANGED <<flow, camera, viewer, toServer>>
      /\ n > session.last /\ n \in Nat /\ session.pump = "read"
  BY InvFacts DEF ReadFrame, SessionType, Readable
<1>2. more \in CreditSets /\ IsFiniteSet(more) /\ Cardinality(more) <= Window
  <2>1. IsFiniteSet(session.inflight) /\ Cardinality(session.inflight) < Window
    BY <1>1, InvFacts DEF Credits
  <2>2. /\ IsFiniteSet(more) /\ Cardinality(session.inflight) \in Nat /\ Window \in Nat
        /\ Cardinality(more) = IF n \in session.inflight THEN Cardinality(session.inflight)
                               ELSE Cardinality(session.inflight) + 1
    BY <2>1, FS_AddElement, FS_CardinalityType, WindowIs
  <2>3. more \in CreditSets
    BY <1>1, InvFacts, PumpsAre
  <2> HIDE DEF n, more
  <2> QED BY <2>1, <2>2, <2>3
<1>3. session.inflight \subseteq more /\ n \in more /\ n <= n
  BY <1>1
<1> HIDE DEF n, more
<1>4. /\ session' \in SessionType /\ session'.pump = "send" /\ session'.last = n
      /\ session'.inflight = more
  BY <1>1, <1>2, InvFacts, PumpsAre DEF SessionType
<1>5. Credits(session)'
  BY <1>1, <1>2, <1>4 DEF Credits, Window
<1>6. session.last <= n /\ viewer.latest < n
  BY <1>1, InvFacts
<1>7. toPage' \in Seq(MessageType) /\ Arriving(toPage, viewer.latest, session)'
  BY ZenonT(60), <1>1, <1>3, <1>4, <1>6, InvFacts, MessagesAre, OneMore
<1> QED BY <1>1, <1>4, <1>5, <1>6, <1>7, ServerStep

\* A notice takes nothing.
LEMMA NoticeKeeps ==
  ASSUME SessionInv, NEW m \in {Wait, Fail}, SendJson(m), session' = [session EXCEPT !.pump = "idle"],
         UNCHANGED <<flow, camera, viewer, toServer>>
  PROVE  SessionInv'
<1>1. /\ session' \in SessionType /\ session'.pump = "idle" /\ session'.last = session.last
      /\ session'.inflight = session.inflight
  BY InvFacts, PumpsAre DEF SessionType
<1>2. Credits(session)'
  BY <1>1, InvFacts DEF Credits, Window
<1>3. /\ session.last <= session'.last /\ session.inflight \subseteq session'.inflight
      /\ m \in MessageType /\ ~IsFrame(m)
  BY <1>1, InvFacts, MessagesAre
<1>4. Arriving(toPage, viewer.latest, session')
  BY <1>1, InvFacts DEF Arriving
<1>5. toPage' \in Seq(MessageType) /\ Arriving(toPage', viewer.latest, session')
  <2>1. CASE toPage' = Append(toPage, m)
    BY <1>1, <1>3, <2>1, InvFacts, OneMore
  <2>2. CASE toPage' = toPage
    BY <1>4, <2>2, InvFacts
  <2> QED BY <2>1, <2>2 DEF SendJson
<1>6. Arriving(toPage, viewer.latest, session)'
  BY <1>5
<1> QED BY <1>1, <1>2, <1>3, <1>5, <1>6, ServerStep

LEMMA SendDoneKeeps ==
  ASSUME SessionInv, SendDone
  PROVE  SessionInv'
<1> DEFINE s == [session EXCEPT !.pump = "idle"]
<1>1. session' = Pump(s) /\ UNCHANGED <<flow, camera, viewer, toServer, toPage>>
  BY DEF SendDone
<1>2. /\ s \in SessionType /\ s.pump = "idle" /\ s.last = session.last
      /\ s.inflight = session.inflight
  BY InvFacts, PumpsAre DEF SessionType
<1>3. Credits(s)
  BY <1>2, InvFacts DEF Credits
<1> HIDE DEF s
<1>4. /\ session' \in SessionType /\ Credits(session') /\ session'.last = session.last
      /\ session'.inflight = session.inflight
  BY <1>1, <1>2, <1>3, PumpFacts
<1>5. /\ Credits(session)' /\ session.last <= session'.last
      /\ Arriving(toPage, viewer.latest, session)'
  BY <1>1, <1>4, InvFacts DEF Credits, Window, Arriving
<1> QED BY <1>1, <1>4, <1>5, InvFacts, ServerStep

(***************************************************************************)
(* The page.                                                               *)
(***************************************************************************)
\* Only the page's variables and the way up change, the latest frame does not.
LEMMA PageStep ==
  ASSUME SessionInv, flow' = flow, camera' = camera, session' = session, toPage' = toPage,
         viewer' \in ViewerType, PageInv', viewer'.latest = viewer.latest,
         toServer' \in Seq(Nat), Had(toServer', viewer.latest)
  PROVE  SessionInv'
BY InvFacts DEF SessionInv, SessionTyped, DownInv, UpInv, Arriving, Credits, Window

LEMMA HadMore ==
  ASSUME NEW q \in Seq(Nat), NEW n \in Nat, Had(q, n), NEW m \in Nat, n <= m, NEW r \in Seq(Nat), Had(r, m)
  PROVE  q \o r \in Seq(Nat) /\ Had(q \o r, m)
<1>1. \A i \in 1 .. Len(q) : q[i] \in Nat /\ q[i] <= m
  BY DEF Had
<1>2. \A i \in 1 .. Len(q \o r) : (q \o r)[i] <= m
  BY <1>1, JoinedTo DEF Had
<1> QED BY <1>2, JoinedTo DEF Had

LEMMA ReleasedFacts ==
  ASSUME NEW p \in Nat, NEW n \in Nat, p <= n
  PROVE  Released(p) \in Seq(Nat) /\ Had(Released(p), n) /\ <<p>> \in Seq(Nat) /\ Had(<<p>>, n)
         /\ <<>> \in Seq(Nat) /\ Had(<<>>, n)
BY DEF Released, Had

\* A frame arrives: it is decoded at once, or takes the place of the one that waits.
LEMMA OnFrameKeeps ==
  ASSUME SessionInv, NEW p \in Nat, viewer.latest < p, OnFrame(p)
  PROVE  /\ viewer' \in ViewerType /\ PageInv' /\ viewer'.latest = p
         /\ toServer' \in Seq(Nat) /\ Had(toServer', p)
<1> DEFINE asked == (IF flow = "receive" THEN <<p>> ELSE <<>>)
                    \o (IF viewer.pending = None THEN <<>> ELSE Released(viewer.pending))
           free == viewer.rendering = None
           retry == IF asked = <<>> THEN viewer.retry ELSE FALSE
           rendering == IF free THEN p ELSE viewer.rendering
           pending == IF free THEN None ELSE p
<1>1. /\ viewer' = [viewer EXCEPT !.latest = p, !.retry = retry, !.rendering = rendering,
                                  !.pending = pending]
      /\ toServer' = toServer \o asked
  BY InvFacts DEF OnFrame, ViewerType
<1>2. asked \in Seq(Nat) /\ Had(asked, p)
  <2>1. viewer.pending <= p /\ p <= p
    BY InvFacts DEF PageInv, None
  <2>2. /\ IF flow = "receive" THEN <<p>> \in Seq(Nat) /\ Had(<<p>>, p)
           ELSE <<>> \in Seq(Nat) /\ Had(<<>>, p)
        /\ Released(viewer.pending) \in Seq(Nat) /\ Had(Released(viewer.pending), p)
    BY <2>1, InvFacts, ReleasedFacts
  <2> DEFINE a == IF flow = "receive" THEN <<p>> ELSE <<>>
             b == IF viewer.pending = None THEN <<>> ELSE Released(viewer.pending)
  <2>3. a \in Seq(Nat) /\ Had(a, p) /\ b \in Seq(Nat) /\ Had(b, p)
    BY <2>1, <2>2, ReleasedFacts
  <2>4. asked = a \o b
    OBVIOUS
  <2> HIDE DEF a, b, asked
  <2> QED BY <2>1, <2>3, <2>4, HadMore
<1>3. toServer' \in Seq(Nat) /\ Had(toServer', p)
  <2>1. viewer.latest <= p
    BY InvFacts
  <2> HIDE DEF asked
  <2> QED BY <1>1, <1>2, <2>1, InvFacts, HadMore
<1>4. retry \in Flags /\ rendering \in Nat /\ pending \in Nat
  BY InvFacts DEF ViewerType, Flags, None
<1>5. /\ rendering # None /\ viewer.shown < rendering /\ rendering <= p /\ viewer.shown <= p
      /\ pending # None => rendering < pending /\ pending <= p
  BY InvFacts DEF PageInv, None
<1> HIDE DEF asked, free, retry, rendering, pending
<1>6. /\ viewer' \in ViewerType /\ viewer'.latest = p /\ viewer'.rendering = rendering
      /\ viewer'.pending = pending /\ viewer'.shown = viewer.shown
  BY <1>1, <1>4, InvFacts DEF ViewerType
<1>7. PageInv'
  BY <1>5, <1>6 DEF PageInv
<1> QED BY <1>3, <1>6, <1>7

LEMMA ReceiveKeeps ==
  ASSUME SessionInv, Receive
  PROVE  SessionInv'
<1> DEFINE m == Head(toPage)
<1>1. /\ toPage # <<>> /\ toPage' = Tail(toPage) /\ UNCHANGED <<flow, camera, session>>
  BY DEF Receive
<1>2. /\ Arriving(Tail(toPage), viewer.latest, session) /\ Tail(toPage) \in Seq(MessageType)
      /\ m \in MessageType
      /\ IsFrame(m) => /\ viewer.latest < m.p /\ m.p <= session.last
                       /\ Arriving(Tail(toPage), m.p, session) /\ m.p \in Nat
  BY <1>1, InvFacts, OneLess, MessagesAre
<1>3. CASE IsFrame(m)
  <2>1. OnFrame(m.p)
    BY <1>3 DEF Receive, IsFrame
  <2> HIDE DEF m
  <2>2. /\ viewer' \in ViewerType /\ PageInv' /\ viewer'.latest = m.p
        /\ toServer' \in Seq(Nat) /\ Had(toServer', m.p)
    BY <1>2, <1>3, <2>1, OnFrameKeeps
  <2>3. DownInv' /\ UpInv'
    BY <1>1, <1>2, <1>3, <2>2 DEF DownInv, UpInv, Arriving
  <2> QED BY <1>1, <1>2, <2>2, <2>3, InvFacts DEF SessionInv, SessionTyped, Credits, Window
<1>4. CASE ~IsFrame(m)
  <2> DEFINE stray == IF viewer.retry THEN viewer.stray + 1 ELSE viewer.stray
  <2>1. viewer' = [viewer EXCEPT !.retry = TRUE, !.stray = stray] /\ toServer' = toServer
    BY <1>4, InvFacts DEF Receive, IsFrame, ViewerType
  <2>2. stray \in Nat
    BY InvFacts
  <2> HIDE DEF stray, m
  <2>3. /\ viewer' \in ViewerType /\ viewer'.latest = viewer.latest
        /\ viewer'.rendering = viewer.rendering /\ viewer'.pending = viewer.pending
        /\ viewer'.shown = viewer.shown
    BY <2>1, <2>2, InvFacts, PumpsAre DEF ViewerType
  <2>4. DownInv' /\ UpInv' /\ PageInv'
    BY <1>1, <1>2, <2>1, <2>3, InvFacts DEF DownInv, UpInv, PageInv, Arriving
  <2> QED BY <1>1, <1>2, <2>1, <2>3, <2>4, InvFacts DEF SessionInv, SessionTyped, Credits, Window
<1> QED BY <1>3, <1>4

LEMMA RenderDoneKeeps ==
  ASSUME SessionInv, RenderDone
  PROVE  SessionInv'
<1> DEFINE retry == IF flow = "receive" THEN viewer.retry ELSE FALSE
           r == viewer.rendering
           n == viewer.pending
<1>1. /\ viewer' = [viewer EXCEPT !.shown = r, !.rendering = n, !.pending = None, !.retry = retry]
      /\ toServer' = toServer \o Released(r) /\ UNCHANGED <<flow, camera, session, toPage>> /\ r # None
  BY InvFacts DEF RenderDone, ViewerType
<1>2. /\ retry \in Flags /\ r \in Nat /\ n \in Nat /\ None \in Nat
      /\ r <= viewer.latest /\ (n # None => r < n /\ n <= viewer.latest)
  BY <1>1, InvFacts DEF ViewerType, Flags, PageInv, None
<1>3. toServer' \in Seq(Nat) /\ Had(toServer', viewer.latest)
  <2>1. viewer.latest <= viewer.latest /\ Released(r) \in Seq(Nat) /\ Had(Released(r), viewer.latest)
    <3> HIDE DEF r, n, retry
    <3>1. viewer.latest \in Nat /\ viewer.latest <= viewer.latest
      BY InvFacts
    <3>2. Released(r) \in Seq(Nat) /\ Had(Released(r), viewer.latest)
      BY <1>2, <3>1, ReleasedFacts
    <3> QED BY <3>1, <3>2
  <2> QED BY <1>1, <2>1, InvFacts, HadMore
<1> HIDE DEF retry, r, n
<1>4. /\ viewer' \in ViewerType /\ viewer'.latest = viewer.latest /\ viewer'.rendering = n
      /\ viewer'.pending = None /\ viewer'.shown = r
  BY <1>1, <1>2, InvFacts DEF ViewerType
<1>5. PageInv'
  BY <1>2, <1>4 DEF PageInv
<1> QED BY <1>1, <1>3, <1>4, <1>5, PageStep

\* Timers ask for what follows the latest frame, whoever set them.
LEMMA TimersKeep ==
  ASSUME SessionInv, RetryFires \/ StrayFires
  PROVE  SessionInv'
<1>1. Append(toServer, viewer.latest) \in Seq(Nat) /\ Had(Append(toServer, viewer.latest), viewer.latest)
  <2>1. viewer.latest <= viewer.latest
    BY InvFacts
  <2> QED BY <2>1, InvFacts, Appended DEF Had
<1>2. PICK stray \in Nat : viewer' = [viewer EXCEPT !.retry = FALSE, !.stray = stray]
  <2>1. CASE RetryFires
    BY <2>1, InvFacts DEF RetryFires, ViewerType
  <2>2. CASE StrayFires
    <3> DEFINE n == viewer.stray - 1
    <3>1. n \in Nat
      BY <2>2, InvFacts DEF StrayFires
    <3>2. viewer' = [viewer EXCEPT !.retry = FALSE, !.stray = n]
      <4>1. viewer' = [viewer EXCEPT !.stray = n, !.retry = FALSE]
        BY <2>2, InvFacts DEF StrayFires, ViewerType
      <4> HIDE DEF n
      <4> QED BY <4>1, InvFacts DEF ViewerType
    <3> QED BY <3>1, <3>2
  <2> QED BY <2>1, <2>2
<1>3. /\ UNCHANGED <<flow, camera, session, toPage>>
      /\ toServer' = toServer \/ toServer' = Append(toServer, viewer.latest)
  BY DEF RetryFires, StrayFires
<1>4. /\ viewer' \in ViewerType /\ viewer'.latest = viewer.latest
      /\ viewer'.rendering = viewer.rendering /\ viewer'.pending = viewer.pending
      /\ viewer'.shown = viewer.shown
  BY <1>2, InvFacts, PumpsAre DEF ViewerType
<1>5. PageInv'
  BY <1>4, InvFacts DEF PageInv
<1> QED BY <1>1, <1>3, <1>4, <1>5, InvFacts, PageStep

(***************************************************************************)
(* The connection, the camera, and the theorems.                           *)
(***************************************************************************)
LEMMA Nothing ==
  /\ NewSession \in SessionType /\ NewViewer \in ViewerType
  /\ NewSession.last = 0 /\ NewSession.pump = "idle" /\ NewSession.inflight = {}
  /\ NewViewer.latest = 0 /\ NewViewer.shown = 0 /\ NewViewer.rendering = None
  /\ NewViewer.pending = None
BY PumpsAre DEF NewSession, NewViewer, SessionType, ViewerType, None

LEMMA Cleared ==
  ASSUME session' = NewSession, viewer' \in ViewerType, viewer'.latest = 0, viewer'.shown = 0,
         viewer'.rendering = None, viewer'.pending = None, toServer' = <<>>, toPage' = <<>>,
         camera' \in CameraType
  PROVE  SessionInv'
<1>1. Credits(session)'
  BY Nothing, FS_EmptySet, WindowIs DEF Credits, Window
<1>2. toServer' \in Seq(Nat) /\ toPage' \in Seq(MessageType) /\ Len(toServer') = 0 /\ Len(toPage') = 0
  OBVIOUS
<1>3. PageInv' /\ DownInv' /\ UpInv'
  BY <1>2, Nothing DEF PageInv, DownInv, UpInv, Arriving, Had
<1> QED BY <1>1, <1>2, <1>3, Nothing DEF SessionInv, SessionTyped

LEMMA ConnectionKeeps ==
  ASSUME SessionInv, Disconnect \/ Connect \/ BeginPublish \/ EndPublish
  PROVE  SessionInv'
<1>1. CASE Disconnect
  <2> DEFINE n == viewer.stray
  <2>1. /\ viewer' = [NewViewer EXCEPT !.stray = n] /\ session' = NewSession
        /\ toServer' = <<>> /\ toPage' = <<>> /\ camera' = camera /\ n \in Nat
    BY <1>1, InvFacts DEF Disconnect
  <2> HIDE DEF n
  <2>2. /\ viewer' \in ViewerType /\ viewer'.latest = 0 /\ viewer'.shown = 0
        /\ viewer'.rendering = None /\ viewer'.pending = None
    BY <2>1, Nothing DEF ViewerType
  <2> QED BY <2>1, <2>2, InvFacts, Cleared
<1>2. CASE Connect
  <2>1. /\ toServer' = <<viewer.latest>> /\ UNCHANGED <<flow, camera, session, viewer, toPage>>
    BY <1>2 DEF Connect
  <2>2. toServer' \in Seq(Nat) /\ Had(toServer', viewer.latest)
    <3>1. viewer.latest <= viewer.latest
      BY InvFacts
    <3> QED BY <2>1, <3>1, InvFacts DEF Had
  <2> QED BY <2>1, <2>2, InvFacts, PageStep DEF PageInv
<1>3. CASE BeginPublish \/ EndPublish
  <2>1. UNCHANGED <<flow, session, viewer, toServer, toPage>> /\ camera' \in CameraType
    <3>1. CASE BeginPublish
      BY <3>1, InvFacts, PumpsAre DEF BeginPublish, CameraType
    <3>2. CASE EndPublish
      <4>1. camera.newest + 1 \in Nat
        BY InvFacts
      <4> QED BY <3>2, <4>1, PumpsAre DEF EndPublish, CameraType
    <3> QED BY <1>3, <3>1, <3>2
  <2> QED BY <2>1, InvFacts DEF SessionInv, SessionTyped, PageInv, DownInv, UpInv, Arriving, Had, Credits, Window
<1> QED BY <1>1, <1>2, <1>3

\* Credits, the frames under way and the page are always as described above.
THEOREM SessionInvariance == SessionSpec => []SessionInv
<1>1. SessionInit => SessionInv
  <2> SUFFICES ASSUME SessionInit PROVE SessionInv
    OBVIOUS
  <2>1. /\ session = NewSession /\ viewer = NewViewer /\ toServer = <<>> /\ toPage = <<>>
        /\ camera \in CameraType
    BY PumpsAre DEF SessionInit, CameraType
  <2>2. Credits(session)
    BY <2>1, Nothing, FS_EmptySet, WindowIs DEF Credits
  <2>3. toServer \in Seq(Nat) /\ toPage \in Seq(MessageType) /\ Len(toServer) = 0 /\ Len(toPage) = 0
    BY <2>1
  <2>4. PageInv /\ DownInv /\ UpInv
    BY <2>1, <2>3, Nothing DEF PageInv, DownInv, UpInv, Arriving, Had
  <2> QED BY <2>1, <2>2, <2>3, <2>4, Nothing DEF SessionInv, SessionTyped
<1>2. SessionInv /\ [SessionNext]_sessionVars => SessionInv'
  <2> SUFFICES ASSUME SessionInv, [SessionNext]_sessionVars PROVE SessionInv'
    OBVIOUS
  <2>1. CASE UNCHANGED sessionVars
    BY <2>1 DEF sessionVars, SessionInv, SessionTyped, PageInv, DownInv, UpInv, Arriving, Had, Credits, Window
  <2>2. CASE ReadTimesOut \/ ReadFails
    BY <2>2, NoticeKeeps DEF ReadTimesOut, ReadFails
  <2> QED BY <2>1, <2>2, OnRequestKeeps, ReadFrameKeeps, SendDoneKeeps, ReceiveKeeps,
             RenderDoneKeeps, TimersKeep, ConnectionKeeps DEF SessionNext, Server, Page
<1> QED BY <1>1, <1>2, PTL DEF SessionSpec

\* Every frame on its way to the page holds one of the credits of the window.
THEOREM FramesHoldCredits == SessionSpec => []TransitHoldsCredit
<1>1. SessionInv => TransitHoldsCredit
  BY InvFacts DEF TransitHoldsCredit, FramesIn, Arriving, IsFrame, Credits
<1> QED BY <1>1, SessionInvariance, PTL

\* Frames reach the screen once each and in the order of publication.
THEOREM FramesOnce == SessionSpec => []EachFrameOnce
<1>1. SessionInv => EachFrameOnce
  <2> SUFFICES ASSUME SessionInv PROVE EachFrameOnce
    OBVIOUS
  <2>1. /\ viewer.shown <= viewer.latest /\ viewer.rendering <= viewer.latest
        /\ viewer.pending <= viewer.latest
        /\ viewer.rendering # None => viewer.shown < viewer.rendering
        /\ viewer.pending # None => viewer.shown < viewer.pending /\ viewer.rendering < viewer.pending
    BY InvFacts DEF PageInv, None
  <2>2. \A i \in DOMAIN toPage : toPage[i].type = "frame" => viewer.latest < toPage[i].p /\ toPage[i].p \in Nat
    <3>1. \A i \in DOMAIN toPage : toPage[i] \in MessageType /\ i \in 1 .. Len(toPage)
      BY InvFacts
    <3>2. \A i \in DOMAIN toPage : IsFrame(toPage[i]) => viewer.latest < toPage[i].p /\ toPage[i].p \in Nat
      BY <3>1, InvFacts, MessagesAre DEF Arriving
    <3> QED BY <3>2 DEF IsFrame
  <2>3. \A p \in FramesIn(toPage) : viewer.latest < p /\ p \in Nat
    BY <2>2, InvFacts DEF FramesIn
  <2>4. \A p \in FramesIn(toPage) : viewer.shown < p /\ viewer.rendering < p /\ viewer.pending < p
    BY <2>1, <2>3, InvFacts
  <2>5. \A i, j \in DOMAIN toPage :
           i < j /\ toPage[i].type = "frame" /\ toPage[j].type = "frame" => toPage[i].p < toPage[j].p
    BY SMTT(40), InvFacts DEF Arriving, IsFrame
  <2> QED BY <2>1, <2>4, <2>5 DEF EachFrameOnce
<1> QED BY <1>1, SessionInvariance, PTL
=============================================================================
