--------------------------- MODULE MCVoiceConnect ---------------------------
(* VoiceConnect instantiated for TLC.                                      *)
EXTENDS VoiceConnect, TLC

UserSymmetry == Permutations(Users) \cup Permutations(Channels)

=============================================================================
