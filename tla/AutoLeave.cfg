\* One listener and the bot move between two channels.
SPECIFICATION FairSpec
CONSTANTS
  Humans = {h1}
  Channels = {c1, c2}
  None = None
  MaxMoves = 3
  MaxFaults = 1
INVARIANTS
  TypeOK
  ArmedIsEntry
  AloneIsTimed
PROPERTIES
  LeavesNobodyBehind
  AloneLeaves
