--------------------------- MODULE MCTrackStream ----------------------------
(* TrackStream instantiated for TLC.                                       *)
EXTENDS TrackStream

=============================================================================
