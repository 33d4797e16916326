---------------------------- MODULE Negotiation ----------------------------
(***************************************************************************)
(* How the two ends of a connection agree on what it carries: rtc::        *)
(* PeerConnection (libdatachannel/src/peerconnection.cpp) and the          *)
(* descriptions its implementation keeps (impl/peerconnection.cpp,         *)
(* impl/icetransport.cpp), at both ends of the signaling server, which     *)
(* relays in order.  The viewer's browser is stood for by the same         *)
(* library.                                                                *)
(*                                                                         *)
(* Each end has the application's thread, the one that applies what the    *)
(* signaling server brings, and that of the ICE agent.  A thread is the    *)
(* list of steps it has still to take; signalingMutex is held from lock    *)
(* to unlock, and what other threads read without it is a step of its own. *)
(* What an exception leaves undone is dropped.  Descriptions are those of  *)
(* the module Description, which says what becomes of one on the way.      *)
(***************************************************************************)
EXTENDS Description, Naturals

CONSTANTS Media,   \* the tracks of the applications: by mid, what is said of each
          Plans    \* what may be done: by the gateway's application, in order, and by the
                   \* viewer's when that is done; and the candidates that are found, by end

ASSUME MediaAssumption == \A mid \in DOMAIN Media : IsMedia(Media[mid]) /\ Media[mid].mid = mid

VARIABLES pc,        \* per end, what the PeerConnection and its agent know
          mutex,     \* per end, who holds signalingMutex
          run,       \* per end and thread, the steps still to take
          tasks,     \* per end, mProcessor's queue of reports
          wire,      \* per end, what the signaling server has for it
          plan,      \* per end, what its application has still to add
          refused    \* history: the ends at which a call has thrown

vars == <<pc, mutex, run, tasks, wire, plan, refused>>

Ends == {"gateway", "viewer"}
Other(p) == IF p = "gateway" THEN "viewer" ELSE "gateway"
Threads == {"application", "signaling"}
Nobody == "nobody"

Blank == Nothing(None)
Exists(description) == description.type # None
Candidates(found) == [Blank EXCEPT !.type = "candidate", !.candidates = found]

Step(do, with) == [do |-> do, with |-> with]
Do(do) == Step(do, Blank)
Local(type) == Step("setLocal", [Blank EXCEPT !.type = type])

At(p, t, do) == run[p][t] # <<>> /\ Head(run[p][t]).do = do
With(p, t) == Head(run[p][t]).with
Continue(p, t, first) == run' = [run EXCEPT ![p][t] = first \o Tail(@)]
Free(p) == mutex[p] = Nobody
Take(p, t) == mutex' = [mutex EXCEPT ![p] = t]
Release(p) == mutex' = [mutex EXCEPT ![p] = Nobody]

\* An exception leaves the whole call, whose caller logs it.
Throws(p, t) == run' = [run EXCEPT ![p][t] = <<>>] /\ refused' = refused \cup {p}

Init ==
    /\ pc = [p \in Ends |-> [signaling |-> "stable", channels |-> FALSE, tracks |-> <<>>,
                             sources |-> <<>>,
                             role |-> "actpass", local |-> Blank, current |-> Blank, remote |-> Blank,
                             gathering |-> "new", found |-> {}, given |-> {},
                             transport |-> None, connected |-> FALSE]]
    /\ mutex = [p \in Ends |-> Nobody]
    /\ run = [p \in Ends |-> [t \in Threads |-> <<>>]]
    /\ tasks = [p \in Ends |-> <<>>]
    /\ wire = [p \in Ends |-> <<>>]
    /\ plan \in Plans
    /\ refused = {}

-----------------------------------------------------------------------------
(***************************************************************************)
(* The tracks of an end, in the order they were made.  A track whose       *)
(* application has let go of it is still known by its mid.                 *)
(***************************************************************************)
Track(media) == [media |-> media, held |-> TRUE, open |-> FALSE]
Held(p) == SelectSeq(pc[p].tracks, LAMBDA track : track.held)
Known(p, mid) == \E i \in DOMAIN pc[p].tracks : pc[p].tracks[i].media.mid = mid
TrackOf(p, mid) == pc[p].tracks[SelectInSeq(pc[p].tracks, LAMBDA track : track.media.mid = mid)]

\* updateTrackSsrcCache: the sources said on a line are those of its track.
CacheSources(sources, tracks, entries) ==
    LET mids == { tracks[i].media.mid : i \in { j \in DOMAIN tracks : tracks[j].held } }
        Cache(cached, entry) ==
            IF entry.mid \in mids
            THEN [source \in ToSet(entry.ssrcs) |-> entry.mid] @@ cached ELSE cached
    IN  FoldLeft(Cache, sources, entries)

\* openTracks, a task of the processor.  Without a media transport a track gets
\* an error instead.
OpenTracks == [Blank EXCEPT !.type = "openTracks"]
\* Faulty variant: tracks are opened once.
NothingMore(p) == <<>>
IfConnected(p) == IF pc[p].connected THEN <<OpenTracks>> ELSE <<>>
RemoteTracks(connection) ==
    LET said == MidsOf(SelectSeq(Present(connection.remote), IsMedia))
    IN  { i \in DOMAIN connection.tracks :
            connection.tracks[i].held /\ Contains(said, connection.tracks[i].media.mid) }
Opened(connection) ==
    IF connection.transport # "srtp" THEN connection
    ELSE [connection EXCEPT !.tracks = [i \in DOMAIN @ |->
             [@[i] EXCEPT !.open = @ \/ i \in RemoteTracks(connection)]]]

(***************************************************************************)
(* The application: createDataChannel, addTrack, and what it does with a   *)
(* track no more.  After the last two it asks for a description itself.    *)
(* The two ends take turns: both offering at once is left to applications, *)
(* and the page's script only answers.                                     *)
(***************************************************************************)
Resting(p) == wire[p] = <<>> /\ tasks[p] = <<>> /\ \A t \in Threads : run[p][t] = <<>>
Settled == \A p \in Ends : Resting(p)

\* What it does next, at its leisure.
Does(p, what, then) ==
    /\ plan[p] # <<>> /\ Head(plan[p])[1] = what
    /\ run[p].application = <<>>
    /\ p = "viewer" => plan.gateway = <<>> /\ Settled
    /\ plan' = [plan EXCEPT ![p] = Tail(@)]
    /\ run' = [run EXCEPT ![p].application = <<then>>]
    /\ UNCHANGED <<mutex, tasks, wire, refused>>

CreateChannel(p) ==
    /\ Does(p, "createDataChannel", Do("ifStable"))
    /\ pc' = [pc EXCEPT ![p].channels = TRUE]

AddTrack(p) ==
    /\ Does(p, "addTrack", Local("any"))
    /\ pc' = [pc EXCEPT ![p].tracks = Append(@, Track(Media[Head(plan[p])[2]]))]

LetGo(p) ==
    /\ Does(p, "letGo", Local("any"))
    /\ pc' = [pc EXCEPT ![p].tracks = [i \in DOMAIN @ |->
                 IF @[i].media.mid = Head(plan[p])[2] THEN [@[i] EXCEPT !.held = FALSE] ELSE @[i]]]

\* A new channel needs an offer only in a stable state: in the others an end of
\* the negotiation will look again.
IfStable(p, t) ==
    /\ At(p, t, "ifStable")
    /\ Continue(p, t, IF pc[p].signaling = "stable" THEN <<Do("ifNeeded")>> ELSE <<>>)
    /\ UNCHANGED <<pc, mutex, tasks, wire, plan, refused>>

\* A faulty NegotiationNeeded: a line that is removed already counts as well.
NegotiationNeededForEver(p) ==
    \/ pc[p].channels /\ ~HasApplication(pc[p].local)
    \/ \E i \in DOMAIN pc[p].tracks : ~pc[p].tracks[i].held \/ pc[p].tracks[i].media.mid \notin Mids(pc[p].local)

\* Something of ours is not said yet, or something is said that is gone.
NegotiationNeeded(p) ==
    \/ pc[p].channels /\ ~HasApplication(pc[p].local)
    \/ \E i \in DOMAIN Held(p) : Held(p)[i].media.mid \notin Mids(pc[p].local)
    \/ \E i \in DOMAIN pc[p].local.entries :
          LET entry == pc[p].local.entries[i]
          IN  /\ IsMedia(entry) /\ ~entry.removed
              /\ Known(p, entry.mid) /\ ~TrackOf(p, entry.mid).held

IfNeeded(p, t) ==
    /\ At(p, t, "ifNeeded")
    /\ Continue(p, t, IF NegotiationNeeded(p) THEN <<Local("offer")>> ELSE <<>>)
    /\ UNCHANGED <<pc, mutex, tasks, wire, plan, refused>>

-----------------------------------------------------------------------------
(***************************************************************************)
(* setLocalDescription.                                                    *)
(***************************************************************************)
TypeFor(p, asked) ==
    IF asked # "any" THEN asked
    ELSE IF pc[p].signaling = "have-remote-offer" THEN "answer" ELSE "offer"

\* The lock, and what the signaling state says of the type.
SetLocal(p, t) ==
    /\ At(p, t, "setLocal") /\ Free(p)
    /\ LET type == TypeFor(p, With(p, t).type)
       IN  CASE pc[p].signaling = "have-local-offer" -> Continue(p, t, <<>>) /\ UNCHANGED <<pc, mutex, refused>>
             [] \/ pc[p].signaling = "stable" /\ type = "offer"
                \/ pc[p].signaling = "have-remote-offer" /\ type = "answer" ->
                   /\ Take(p, t)
                   /\ Continue(p, t, <<Step("describe", [Blank EXCEPT !.type = type])>>)
                   /\ UNCHANGED <<pc, refused>>
             [] OTHER -> Throws(p, t) /\ UNCHANGED <<pc, mutex>>
    /\ UNCHANGED <<tasks, wire, plan>>

OwnApplication(mid) ==
    [Application(mid) EXCEPT !.sctpPort = "5000", !.maxMessageSize = "262144"]

\* What this end says to an entry of the other one: what it has said of the same
\* itself if it has it, or the reciprocal.  A track is made for a line of media.
Reply(p, entry) ==
    CASE ~IsMedia(entry) /\ pc[p].channels -> OwnApplication(entry.mid)
      [] ~IsMedia(entry) /\ ~pc[p].channels ->
             [Reciprocate(entry) EXCEPT !.sctpPort = IF @ = None THEN "5000" ELSE @,
                                        !.maxMessageSize = "262144"]
      [] IsMedia(entry) /\ Known(p, entry.mid) ->
             IF TrackOf(p, entry.mid).held THEN TrackOf(p, entry.mid).media
             ELSE [Reciprocate(entry) EXCEPT !.removed = TRUE]
      [] OTHER -> Reciprocate(entry)

\* The mid of the data channels: the first number that no entry has.
FreeMid(description) ==
    ToString(CHOOSE n \in 0 .. Len(description.entries) :
                 /\ ToString(n) \notin Mids(description)
                 /\ \A m \in 0 .. n - 1 : ToString(m) \in Mids(description))

\* What the agent says, to which the rest is added.
AgentSays(p, type) ==
    [Nothing(type) EXCEPT !.role = IF type = "offer" THEN "actpass" ELSE pc[p].role,
                          !.ice = p, !.fingerprint = p, !.options = <<"trickle">>,
                          !.candidates = pc[p].found]

\* A faulty Described: an offer says its own before what the other end has said.
DescribedOwnFirst(p, type) ==
    LET remote == pc[p].remote.entries
        own == IF type = "offer" THEN Held(p) ELSE <<>>
        ours == AddAll(AgentSays(p, type), [i \in DOMAIN own |-> own[i].media])
        theirs == SelectSeq(remote, LAMBDA entry : entry.mid \notin Mids(ours))
        offer == AddAll(ours, [i \in DOMAIN theirs |-> Reply(p, theirs[i])])
    IN  IF type = "offer" /\ pc[p].channels /\ ~HasApplication(offer)
        THEN AddMedia(offer, OwnApplication(FreeMid(offer)))
        ELSE offer

\* First every entry of the other end, in its order, then in an offer all of our own.
Described(p, type) ==
    LET remote == pc[p].remote.entries
        answer == AddAll(AgentSays(p, type), [i \in DOMAIN remote |-> Reply(p, remote[i])])
        own == SelectSeq(Held(p), LAMBDA track : track.media.mid \notin Mids(answer))
        offer == AddAll(answer, [i \in DOMAIN own |-> own[i].media])
    IN  CASE type = "answer" -> answer
          [] type = "offer" /\ pc[p].channels /\ ~HasApplication(offer) ->
                 AddMedia(offer, OwnApplication(FreeMid(offer)))
          [] OTHER -> offer

Describe(p, t) ==
    /\ At(p, t, "describe")
    /\ LET described == Described(p, With(p, t).type)
           made == SelectSeq(described.entries, LAMBDA entry : IsMedia(entry) /\ ~Known(p, entry.mid))
           tracks == pc[p].tracks \o [i \in DOMAIN made |-> Track(made[i])]
       IN  IF described.entries = <<>>
           THEN Throws(p, t) /\ Release(p) /\ UNCHANGED pc
           ELSE /\ pc' = [pc EXCEPT ![p].tracks = tracks,
                         ![p].sources = CacheSources(CacheSources(@, tracks, pc[p].remote.entries),
                                                     tracks, described.entries)]
                /\ Continue(p, t, <<Step("store", described)>>)
                /\ UNCHANGED <<mutex, refused>>
    /\ UNCHANGED <<tasks, wire, plan>>

\* It becomes the local one, with the candidates found meanwhile, and is reported.
StoreLocal(p, t) ==
    /\ At(p, t, "store")
    /\ pc' = [pc EXCEPT ![p].local = [With(p, t) EXCEPT !.candidates = @ \cup pc[p].local.candidates],
                        ![p].current = ExtractCandidates(pc[p].local)]
    /\ tasks' = [tasks EXCEPT ![p] = Append(@, With(p, t)) \o IfConnected(p)]
    /\ Continue(p, t, <<Step("change", [Blank EXCEPT !.type = IF With(p, t).type = "offer"
                                                  THEN "have-local-offer" ELSE "stable"])>>)
    /\ UNCHANGED <<mutex, wire, plan, refused>>

\* The new state, the unlock, and what is done after it: a new offer when the
\* negotiation has ended without all media, then the search for candidates.
ChangeByLocal(p, t) ==
    /\ At(p, t, "change")
    /\ LET new == With(p, t).type
       IN  /\ pc' = [pc EXCEPT ![p].signaling = new]
           /\ Continue(p, t, IF new = "stable" THEN <<Do("ifNeeded"), Do("gather")>> ELSE <<Do("gather")>>)
    /\ Release(p)
    /\ UNCHANGED <<tasks, wire, plan, refused>>

Gather(p, t) ==
    /\ At(p, t, "gather")
    /\ pc' = [pc EXCEPT ![p].gathering = IF @ = "new" THEN "inProgress" ELSE @]
    /\ Continue(p, t, <<>>)
    /\ UNCHANGED <<mutex, tasks, wire, plan, refused>>

-----------------------------------------------------------------------------
(***************************************************************************)
(* The agent: it finds candidates until it is done, or searches without    *)
(* any.  Each is put into the local description, and reported.             *)
(***************************************************************************)
ProcessLocalCandidate(p, c) ==
    /\ pc' = [pc EXCEPT ![p].found = @ \cup {c}, ![p].local.candidates = @ \cup {c}]
    /\ tasks' = [tasks EXCEPT ![p] = Append(@, Candidates({c}))]

CandidateFound(p) ==
    /\ pc[p].gathering = "inProgress" /\ Exists(pc[p].local)
    /\ \E c \in plan.candidates[p] \ pc[p].found : ProcessLocalCandidate(p, c)
    /\ UNCHANGED <<mutex, run, wire, plan, refused>>

EndLocalCandidates(connection) ==
    [connection EXCEPT !.gathering = "complete", !.local.ended = Exists(connection.local)]

GatheringDone(p) ==
    /\ pc[p].gathering = "inProgress" /\ pc[p].found # {} /\ pc[p].found = plan.candidates[p]
    /\ pc' = [pc EXCEPT ![p] = EndLocalCandidates(@)]
    /\ UNCHANGED <<mutex, run, tasks, wire, plan, refused>>

\* What the application sends of a report.
Message(reported) ==
    IF reported.type = "candidate"
    THEN [type |-> "candidate", text |-> <<>>, candidates |-> reported.candidates]
    ELSE [type |-> reported.type, text |-> GenerateSdp(reported), candidates |-> {}]

\* The processor runs the next task; the application sends what is reported.
Report(p) ==
    /\ tasks[p] # <<>>
    /\ tasks' = [tasks EXCEPT ![p] = Tail(@)]
    /\ IF Head(tasks[p]) = OpenTracks
       THEN pc' = [pc EXCEPT ![p] = Opened(@)] /\ UNCHANGED wire
       ELSE /\ wire' = [wire EXCEPT ![Other(p)] = Append(@, Message(Head(tasks[p])))]
            /\ UNCHANGED pc
    /\ UNCHANGED <<mutex, run, plan, refused>>

(***************************************************************************)
(* The transports: once ICE has connected DTLS is made, with SRTP if media *)
(* are said by then, and when both ends have it the handshake follows.     *)
(***************************************************************************)
InitDtls(p) ==
    /\ pc[p].transport = None /\ Exists(pc[p].local) /\ Exists(pc[p].remote)
    /\ \E q \in Ends : pc[q].given # {}
    /\ pc' = [pc EXCEPT ![p].transport = IF SelectSeq(Present(pc[p].local), IsMedia) # <<>>
                                         THEN "srtp" ELSE "dtls"]
    /\ UNCHANGED <<mutex, run, tasks, wire, plan, refused>>

DtlsConnects ==
    /\ \A p \in Ends : pc[p].transport # None /\ ~pc[p].connected
    /\ pc' = [p \in Ends |-> [pc[p] EXCEPT !.connected = TRUE]]
    /\ tasks' = [p \in Ends |-> Append(tasks[p], OpenTracks)]
    /\ UNCHANGED <<mutex, run, wire, plan, refused>>

-----------------------------------------------------------------------------
(***************************************************************************)
(* setRemoteDescription and addRemoteCandidate.                            *)
(***************************************************************************)
Deliver(p) ==
    /\ wire[p] # <<>> /\ run[p].signaling = <<>>
    /\ wire' = [wire EXCEPT ![p] = Tail(@)]
    /\ LET message == Head(wire[p])
           step == IF message.type = "candidate" THEN Step("addCandidate", Candidates(message.candidates))
                   ELSE Step("setRemote", Parse(message.text, message.type))
       IN  run' = [run EXCEPT ![p].signaling = <<step>>]
    /\ UNCHANGED <<pc, mutex, tasks, plan, refused>>

\* An offer that meets our own rolls ours back.
RolledBack(connection) ==
    IF Exists(connection.current)
    THEN [connection EXCEPT !.local = [connection.current EXCEPT !.candidates =
                                          @ \cup connection.local.candidates],
                            !.current = Blank, !.signaling = "stable"]
    ELSE [connection EXCEPT !.signaling = "stable"]

\* validateRemoteDescription; a removed line counts unless it is inactive too.
Valid(description) ==
    /\ None \notin {description.ice, description.fingerprint}
    /\ \E i \in DOMAIN description.entries :
          LET entry == description.entries[i]
          IN  ~entry.removed \/ (IsMedia(entry) /\ entry.direction # "inactive")

SetRemote(p, t) ==
    /\ At(p, t, "setRemote") /\ Free(p)
    /\ LET description == With(p, t)
           state == pc[p].signaling
       IN  CASE /\ Valid(description)
                /\ \/ state = "have-local-offer"
                   \/ state = "stable" /\ description.type = "offer" ->
                   /\ Take(p, t)
                   /\ pc' = IF state = "have-local-offer" /\ description.type = "offer"
                             THEN [pc EXCEPT ![p] = RolledBack(@)] ELSE pc
                   /\ Continue(p, t, <<Step("adopt", description)>>)
                   /\ UNCHANGED refused
             [] OTHER -> Throws(p, t) /\ UNCHANGED <<pc, mutex>>
    /\ UNCHANGED <<tasks, wire, plan>>

\* IceTransport::setRemoteDescription settles the DTLS roles, and may refuse.
RoleAfter(p, description) ==
    IF pc[p].role # "actpass" THEN pc[p].role
    ELSE IF description.role = "active" THEN "passive" ELSE "active"

Acceptable(p, description) ==
    /\ description.type = "answer" => description.role # "actpass"
    /\ RoleAfter(p, description) # description.role

\* processRemoteDescription; the candidates the description brought come last.
Adopt(p, t) ==
    /\ At(p, t, "adopt")
    /\ LET description == With(p, t)
       IN  IF Acceptable(p, description)
           THEN /\ pc' = [pc EXCEPT ![p].role = RoleAfter(p, description),
                         ![p].sources = CacheSources(@, pc[p].tracks, description.entries),
                         ![p].remote = [ExtractCandidates(description)
                                             EXCEPT !.candidates = pc[p].remote.candidates]]
                /\ tasks' = [tasks EXCEPT ![p] = @ \o IfConnected(p)]
                /\ Continue(p, t, <<Step("changeByRemote", description)>>)
                /\ UNCHANGED <<mutex, refused>>
           ELSE Throws(p, t) /\ Release(p) /\ UNCHANGED <<pc, tasks>>
    /\ UNCHANGED <<wire, plan>>

\* A faulty ChangeByRemote: an answer ends the negotiation without a second look.
ChangeByRemoteForGood(p, t) ==
    /\ At(p, t, "changeByRemote")
    /\ LET description == With(p, t)
           offered == description.type = "offer"
       IN  /\ pc' = [pc EXCEPT ![p].signaling = IF offered THEN "have-remote-offer" ELSE "stable"]
           /\ Continue(p, t, <<Step("addCandidate", description)>> \o (IF offered THEN <<Local("answer")>> ELSE <<>>))
    /\ Release(p)
    /\ UNCHANGED <<tasks, wire, plan, refused>>

ChangeByRemote(p, t) ==
    /\ At(p, t, "changeByRemote")
    /\ LET description == With(p, t)
           added == Step("addCandidate", description)
       IN  IF description.type = "offer"
           THEN /\ pc' = [pc EXCEPT ![p].signaling = "have-remote-offer"]
                /\ Continue(p, t, <<added, Local("answer")>>)
           ELSE /\ pc' = [pc EXCEPT ![p].signaling = "stable"]
                /\ Continue(p, t, <<added, Do("ifNeeded")>>)
    /\ Release(p)
    /\ UNCHANGED <<tasks, wire, plan, refused>>

\* IceTransport::addRemoteCandidate: what the agent of libnice is told.
Give(connection, candidates) == [connection EXCEPT !.given = @ \cup candidates]

AddCandidates(p, t) ==
    /\ At(p, t, "addCandidate") /\ Free(p)
    /\ IF Exists(pc[p].remote)
       THEN /\ pc' = [pc EXCEPT ![p] = [Give(@, With(p, t).candidates)
                                       EXCEPT !.remote.candidates = @ \cup With(p, t).candidates]]
            /\ Continue(p, t, <<>>)
            /\ UNCHANGED refused
       ELSE Throws(p, t) /\ UNCHANGED pc
    /\ UNCHANGED <<mutex, tasks, wire, plan>>

-----------------------------------------------------------------------------
(***************************************************************************)
(* Media: packets of one source, and reports that name several.  What a    *)
(* track lets out, and the tracks that are given what arrives.             *)
(***************************************************************************)
Packet(source) == [control |-> FALSE, source |-> source, named |-> {}]
ReportOn(sources) == [control |-> TRUE, source |-> None, named |-> sources]

\* DtlsSrtpTransport::sendMedia: not before the keys are derived.
SendMedia(p) == pc[p].transport = "srtp" /\ pc[p].connected

Outgoing(p, track, packet) ==
    track.open /\ SendMedia(p) /\ (packet.control \/ track.media.direction \notin {"recvonly", "inactive"})

Dispatched(p, packet) ==
    LET sources == IF packet.named # {} THEN packet.named ELSE {packet.source}
        mids == IF Len(pc[p].tracks) = 1 THEN {pc[p].tracks[1].media.mid}
                ELSE { pc[p].sources[source] : source \in sources \cap DOMAIN pc[p].sources }
    IN  { mid \in mids : TrackOf(p, mid).held }

Incoming(p, packet) ==
    { mid \in Dispatched(p, packet) :
        packet.control \/ TrackOf(p, mid).media.direction \notin {"sendonly", "inactive"} }

-----------------------------------------------------------------------------
Goes(p, t) ==
    \/ IfStable(p, t) \/ IfNeeded(p, t)
    \/ SetLocal(p, t) \/ Describe(p, t) \/ StoreLocal(p, t) \/ ChangeByLocal(p, t) \/ Gather(p, t)
    \/ SetRemote(p, t) \/ Adopt(p, t) \/ ChangeByRemote(p, t) \/ AddCandidates(p, t)

Progress == \E p \in Ends : Report(p) \/ Deliver(p) \/ \E t \in Threads : Goes(p, t)

Next == \/ Progress
        \/ \E p \in Ends : CreateChannel(p) \/ AddTrack(p) \/ LetGo(p) \/ CandidateFound(p) \/ GatheringDone(p)
                        \/ InitDtls(p)
        \/ DtlsConnects

\* Threads, processors and the signaling connection go on; nobody has to add
\* anything, and the agents need not find any candidate.
Spec == Init /\ [][Next]_vars /\ WF_vars(Progress)

-----------------------------------------------------------------------------
(***************************************************************************)
(* Properties.                                                             *)
(***************************************************************************)
\* When nothing is under way any more both ends are stable, each has read what
\* the other one says and has its candidates, what one sends on a line the other
\* receives, and one of them is to start DTLS.  With one end offering at a time
\* nothing was refused on the way, whatever the application added meanwhile: no
\* description came in the wrong state or with the same role, and no candidate
\* before the description it belongs to.
Matching(one, other) ==
    \/ one.removed \/ other.removed
    \/ /\ one.direction = Inverted(other.direction)
       /\ one.formats = other.formats /\ one.codecs = other.codecs

\* What an application has is said, and what it has let go of is not.
SaysWhatItHas(p) ==
    /\ pc[p].channels => HasApplication(pc[p].local)
    /\ \A i \in DOMAIN pc[p].tracks :
          LET track == pc[p].tracks[i]
          IN  /\ track.held => track.media.mid \in Mids(pc[p].local)
              /\ ~track.held => \A j \in DOMAIN Present(pc[p].local) :
                                   Present(pc[p].local)[j].mid # track.media.mid

EndsAgree ==
    Settled /\ Exists(pc["gateway"].local) =>
        refused = {} /\ \A p \in Ends :
            LET here == pc[p].local
                there == pc[Other(p)].local
            IN  /\ pc[p].signaling = "stable" /\ SaysWhatItHas(p)
                /\ pc[Other(p)].remote.entries = here.entries
                /\ pc[Other(p)].remote.candidates = here.candidates /\ pc[p].found \subseteq here.candidates
                /\ pc[p].found \subseteq pc[Other(p)].given
                /\ MidsOf(here.entries) = MidsOf(there.entries)
                /\ \A i \in DOMAIN here.entries : Matching(here.entries[i], there.entries[i])
                /\ pc[p].role # pc[Other(p)].role

\* However the end of the handshake met the negotiation of the tracks, every track
\* that both ends have is open at an end with a media transport; when both have
\* one, what it sends comes out of the same track of the other end and of no
\* other, and a report on what it sends comes back to it.
TracksCarryMedia ==
    Settled => \A p \in Ends : pc[p].connected /\ pc[p].transport = "srtp" =>
        \A i \in RemoteTracks(pc[p]) :
            LET track == pc[p].tracks[i]
                mid == track.media.mid
                there == pc[Other(p)]
            IN  /\ track.open
                /\ \A source \in ToSet(track.media.ssrcs) :
                      /\ Incoming(p, ReportOn({source})) = {mid}
                      /\ there.transport = "srtp" /\ Outgoing(p, track, Packet(source)) =>
                            Incoming(Other(p), Packet(source)) = {mid}

\* Through all the offers and answers a line keeps its place, and its mid: what is
\* new comes after it, and what is removed stays (RFC 3264).
LinesKeepTheirPlace ==
    [][\A p \in Ends : IsPrefix(MidsOf(pc[p].local.entries), MidsOf(pc'[p].local.entries))]_vars

\* Negotiating comes to an end, whatever was added or let go of while an answer was
\* on its way: neither end finds for ever that it has something to offer.  What the
\* ends then know is that EndsAgree.
NegotiationEnds == []<>Settled
=============================================================================
