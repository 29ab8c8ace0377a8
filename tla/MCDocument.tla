---------------------------- MODULE MCDocument ------------------------------
(* Document instantiated for TLC.                                          *)
EXTENDS Document, TLC

GuildSymmetry == Permutations(Guilds)

=============================================================================
