\* Everything settles before a user begins, a nap ends or Connect times out.
SPECIFICATION Spec
CONSTANTS
  Users = {u1, u2}
  Reader = Reader
  Channels = {c1, c2}
  None = None
  Calm = TRUE
  MaxCommands = 6
  MaxUpsets = 2
  MaxFaults = 0
INVARIANTS
  VoiceAgrees
  ConnectsAreAnswered
SYMMETRY UserSymmetry
