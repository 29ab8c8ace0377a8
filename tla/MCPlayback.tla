----------------------------- MODULE MCPlayback -----------------------------
(* Playback instantiated for TLC.                                          *)
EXTENDS Playback

MCTrack == [req : 1 .. MaxRequests, pos : RequestSizes]

HandlerSymmetry == Permutations(Handlers)

=============================================================================
