---------------------------- MODULE Description ----------------------------
(***************************************************************************)
(* rtc::Description (libdatachannel/src/description.cpp): what an end says *)
(* of a connection, the text that is made of it, and what is read of that  *)
(* text.  A line is a key and its value, and a text a sequence of          *)
(* sections: the lines of the session, then from each media line those up  *)
(* to the next one.  The headers, which say the same in every text, and    *)
(* addresses are left out: the port of a line is 9, or 0 when it is        *)
(* removed.                                                                *)
(***************************************************************************)
EXTENDS SequencesExt

None == "none"
Line(key, value) == <<key, value>>
Optionally(key, value) == IF value = None THEN <<>> ELSE <<Line(key, value)>>
LinesFor(key, values) == [i \in DOMAIN values |-> Line(key, values[i])]
AppendNew(s, e) == IF Contains(s, e) THEN s ELSE Append(s, e)

-----------------------------------------------------------------------------
(***************************************************************************)
(* An entry is a media line with all that is said of it: of the data       *)
(* channels the port and the largest message, of a track the payload types *)
(* with their codecs, its extensions, and the sources that are sent.       *)
(***************************************************************************)
Entry(kind, mid, direction) ==
    [kind |-> kind, mid |-> mid, direction |-> direction, removed |-> FALSE,
     attributes |-> <<>>, extmaps |-> <<>>, formats |-> <<>>, codecs |-> <<>>, ssrcs |-> <<>>,
     sctpPort |-> None, maxMessageSize |-> None]

Application(mid) == Entry("application", mid, "sendrecv")
IsMedia(entry) == entry.kind # "application"

\* Maps keep the first entry that was put under a key.
AddRtpMap(entry, payloadType, codec) ==
    [entry EXCEPT !.formats = AppendNew(@, payloadType), !.codecs = @ @@ (payloadType :> codec)]

Codec(format, feedback, parameters) == [format |-> format, feedback |-> feedback, parameters |-> parameters]
AddVideoCodec(entry, payloadType, format) ==
    AddRtpMap(entry, payloadType, Codec(format, <<"nack", "nack pli", "goog-remb">>, <<>>))
AddAudioCodec(entry, payloadType, format, profile) ==
    AddRtpMap(entry, payloadType, Codec(format, <<>>, <<profile>>))
AddExtMap(entry, id, uri, direction) ==
    [entry EXCEPT !.extmaps = @ @@ (id :> [uri |-> uri, direction |-> direction])]
AddSSRC(entry, ssrc) == [entry EXCEPT !.ssrcs = Append(@, ssrc)]

Inverted(direction) == CASE direction = "recvonly" -> "sendonly"
                         [] direction = "sendonly" -> "recvonly"
                         [] OTHER -> direction

\* What this end says to what the other one has said.
Reciprocate(entry) ==
    [entry EXCEPT !.direction = Inverted(@),
                  !.extmaps = [id \in DOMAIN @ |-> [@[id] EXCEPT !.direction = Inverted(@)]],
                  !.ssrcs = <<>>,
                  !.attributes = SelectSeq(@, LAMBDA a : a[1] # "rtcp-rsize"),
                  !.maxMessageSize = None]

-----------------------------------------------------------------------------
(***************************************************************************)
(* A description, and the operations on it.                                *)
(***************************************************************************)
Nothing(type) ==
    [type |-> type, role |-> "actpass", ice |-> None, fingerprint |-> None, options |-> <<>>,
     attributes |-> <<>>, entries |-> <<>>, candidates |-> {}, ended |-> FALSE]

Mids(description) == { description.entries[i].mid : i \in DOMAIN description.entries }
Present(description) == SelectSeq(description.entries, LAMBDA e : ~e.removed)
MidsOf(entries) == [i \in DOMAIN entries |-> entries[i].mid]
HasApplication(description) ==
    \E i \in DOMAIN description.entries : ~IsMedia(description.entries[i]) /\ ~description.entries[i].removed

\* There is one entry for data channels: a new one replaces it, and comes last.
AddMedia(description, entry) ==
    [description EXCEPT !.entries =
        Append(IF IsMedia(entry) THEN @ ELSE SelectSeq(@, IsMedia), entry)]

AddAll(description, entries) == FoldLeft(AddMedia, description, entries)

ExtractCandidates(description) == [description EXCEPT !.candidates = {}, !.ended = FALSE]

-----------------------------------------------------------------------------
(***************************************************************************)
(* The text of a description.                                              *)
(***************************************************************************)
InOrder(map) == SetToSortSeq(DOMAIN map, LAMBDA a, b : a < b)

CodecText(payloadType, codec) ==
    <<Line("rtpmap", <<payloadType, codec.format>>)>>
    \o LinesFor("rtcp-fb", [i \in DOMAIN codec.feedback |-> <<payloadType, codec.feedback[i]>>])
    \o LinesFor("fmtp", [i \in DOMAIN codec.parameters |-> <<payloadType, codec.parameters[i]>>])

MediaText(entry) ==
    LET types == InOrder(entry.codecs)
    IN  LinesFor("ssrc", entry.ssrcs) \o <<Line("rtcp-mux", None)>>
        \o FlattenSeq([i \in DOMAIN types |-> CodecText(types[i], entry.codecs[types[i]])])

ApplicationText(entry) == Optionally("sctp-port", entry.sctpPort)
                          \o Optionally("max-message-size", entry.maxMessageSize)

EntryText(entry) ==
    LET ids == InOrder(entry.extmaps)
    IN  <<Line("m", [kind |-> entry.kind, port |-> IF entry.removed THEN 0 ELSE 9,
                     formats |-> entry.formats]),
          Line("mid", entry.mid)>>
        \o LinesFor("extmap", [i \in DOMAIN ids |-> <<ids[i], entry.extmaps[ids[i]]>>])
        \o (IF entry.direction = "unknown" THEN <<>> ELSE <<Line("direction", entry.direction)>>)
        \o entry.attributes
        \o (IF IsMedia(entry) THEN MediaText(entry) ELSE ApplicationText(entry))

\* The candidates belong to the first line that is not removed.
CandidatesText(description, i) ==
    IF \A j \in 1 .. i : description.entries[j].removed <=> j < i
    THEN LinesFor("candidate", SetToSeq(description.candidates))
         \o (IF description.ended THEN <<Line("end-of-candidates", None)>> ELSE <<>>)
    ELSE <<>>

\* A faulty GenerateSdp: only the data channels say how to connect.
GenerateSdpForChannels(description) ==
    <<Optionally("fingerprint", description.fingerprint)>>
    \o [i \in DOMAIN description.entries |->
           EntryText(description.entries[i])
           \o IF IsMedia(description.entries[i]) THEN <<>>
              ELSE <<Line("setup", description.role)>> \o Optionally("ice", description.ice)]

GenerateSdp(description) ==
    LET present == Present(description)
        media == SelectSeq(present, IsMedia)
        session == (IF present = <<>> THEN <<>> ELSE <<Line("group:BUNDLE", MidsOf(present))>>)
                   \o (IF media = <<>> THEN <<>> ELSE <<Line("group:LS", MidsOf(media))>>)
                   \o <<Line("msid-semantic", None)>>
                   \o (IF description.options = <<>> THEN <<>> ELSE <<Line("ice-options", description.options)>>)
                   \o Optionally("fingerprint", description.fingerprint)
                   \o description.attributes
    IN  <<session>> \o [i \in DOMAIN description.entries |->
            EntryText(description.entries[i]) \o <<Line("setup", description.role)>>
            \o Optionally("ice", description.ice) \o CandidatesText(description, i)]

-----------------------------------------------------------------------------
(***************************************************************************)
(* What is read of a text.  A media line begins an entry, to which the     *)
(* lines that follow belong, unless they are of the connection.            *)
(***************************************************************************)
Said(lines, key) == SelectSeq(lines, LAMBDA line : line[1] = key)
Values(lines, key) == [i \in DOMAIN Said(lines, key) |-> Said(lines, key)[i][2]]
LastOf(values, default) == IF values = <<>> THEN default ELSE Last(values)
FirstOf(values, default) == IF values = <<>> THEN default ELSE Head(values)

\* The line for a payload type may come before or after its parameters.
About(values, payloadType) == SelectSeq(values, LAMBDA value : value[1] = payloadType)
Seconds(values) == [i \in DOMAIN values |-> values[i][2]]
PayloadTypes(lines) == { line[2][1] : line \in ToSet(Said(lines, "rtpmap") \o Said(lines, "rtcp-fb") \o Said(lines, "fmtp")) }
CodecsOf(lines) ==
    [payloadType \in PayloadTypes(lines) |->
        Codec(LastOf(Seconds(About(Values(lines, "rtpmap"), payloadType)), None),
              Seconds(About(Values(lines, "rtcp-fb"), payloadType)),
              Seconds(About(Values(lines, "fmtp"), payloadType)))]

\* An extension that is said again is as it was said last.
ExtMapsOf(lines) ==
    LET extensions == Values(lines, "extmap")
    IN  [id \in { extension[1] : extension \in ToSet(extensions) } |-> Last(About(extensions, id))[2]]

OfConnection == {"setup", "fingerprint", "ice", "ice-options", "candidate", "end-of-candidates"}
OfEntry(kind) == {"m", "mid", "extmap", "direction", "bundle-only"}
                 \cup (IF kind = "application" THEN {"sctp-port", "max-message-size"}
                       ELSE {"rtpmap", "rtcp-fb", "fmtp", "rtcp-mux", "ssrc"})

EntryRead(lines, index) ==
    LET line == Head(lines)[2]
        common == [Entry(line.kind, LastOf(Values(lines, "mid"), index),
                         LastOf(Values(lines, "direction"),
                                IF line.kind = "application" THEN "sendrecv" ELSE "unknown"))
                      EXCEPT !.removed = line.port = 0 /\ Said(lines, "bundle-only") = <<>>,
                             !.formats = line.formats,
                             !.extmaps = ExtMapsOf(lines),
                             !.attributes = SelectSeq(lines, LAMBDA l : l[1] \notin OfConnection \cup OfEntry(line.kind))]
    IN  IF IsMedia(common)
        THEN [common EXCEPT !.codecs = CodecsOf(lines), !.ssrcs = FoldLeft(AppendNew, <<>>, Values(lines, "ssrc"))]
        ELSE [common EXCEPT !.sctpPort = LastOf(Values(lines, "sctp-port"), None),
                            !.maxMessageSize = LastOf(Values(lines, "max-message-size"), None)]

\* What the connection's fingerprint and credentials are: those of the first media
\* line, or else the first that are given.
Preferred(text, key) ==
    LastOf(IF Len(text) = 1 THEN <<>> ELSE Values(text[2], key),
           FirstOf(Values(FlattenSeq(text), key), None))

Parse(text, type) ==
    AddAll([Nothing(type) EXCEPT
               !.role = LastOf(Values(FlattenSeq(text), "setup"), "actpass"),
               !.ice = Preferred(text, "ice"), !.fingerprint = Preferred(text, "fingerprint"),
               !.options = FirstOf(Values(FlattenSeq(text), "ice-options"), <<>>),
               !.attributes = SelectSeq(Head(text), LAMBDA line : line[1] \notin OfConnection),
               !.candidates = ToSet(Values(FlattenSeq(text), "candidate")),
               !.ended = Said(FlattenSeq(text), "end-of-candidates") # <<>>],
           [i \in DOMAIN Tail(text) |-> EntryRead(text[i + 1], ToString(i - 1))])
=============================================================================
