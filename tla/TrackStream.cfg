\* Two metadata clients, three stream variants, tracks longer than the pipes.
SPECIFICATION FairSpec
CONSTANTS
  Clients = 2
  Variants = 3
  Chunks = 2
  Capacity = 1
  MaxFaults = 1
INVARIANTS
  TypeOK
  WholeTrack
  NothingLeftBehind
PROPERTIES
  LookupEnds
  StreamEnds
