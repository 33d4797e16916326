--------------------------- MODULE MCStationLink ---------------------------
(***************************************************************************)
(* Instances of StationLink for TLC.                                       *)
(***************************************************************************)
EXTENDS StationLink

Blocks == [kind : Kinds, seq : 1 .. MaxSequence, boot : 0 .. MaxBoot, session : 1 .. MaxSession]
=============================================================================
