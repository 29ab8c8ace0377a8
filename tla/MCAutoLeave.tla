---------------------------- MODULE MCAutoLeave -----------------------------
(* AutoLeave instantiated for TLC.                                         *)
EXTENDS AutoLeave, TLC

ChannelSymmetry == Permutations(Channels)

=============================================================================
