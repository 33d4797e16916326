--------------------------- MODULE MCNegotiation ---------------------------
(***************************************************************************)
(* Instance of Negotiation for TLC: the gateway's channels, with a track   *)
(* added between or after them and given up again, and one of the viewer.  *)
(***************************************************************************)
EXTENDS Negotiation

Video == AddExtMap(AddSSRC(AddVideoCodec(Entry("video", "video", "sendonly"), 96, "H264"), 42),
                   1, "mid", "unknown")
Audio == AddSSRC(AddAudioCodec(Entry("audio", "audio", "sendrecv"), 111, "opus", "minptime=10"), 43)
TracksMedia == [mid \in {"video", "audio"} |-> IF mid = "video" THEN Video ELSE Audio]

CreateOne == <<"createDataChannel", None>>
Planned(gateway, finds) ==
    [gateway |-> gateway, viewer |-> <<<<"addTrack", "audio">>>>,
     candidates |-> [p \in Ends |-> IF p = finds THEN {1} ELSE {}]]
AllPlans == { Planned(<<CreateOne, <<"addTrack", "video">>>>, "gateway"),
              Planned(<<<<"addTrack", "video">>, <<"letGo", "video">>>>, "viewer") }
=============================================================================
