\* Two lives of the process, and two changes of a player, one when tasks overlap.
SPECIFICATION FairSpec
CONSTANTS
  Guilds = {g1}
  MaxTasks = 2
  MaxTogether = 1
  MaxWaiting = 0
  MaxFaults = 0
  Overlaps = {TRUE, FALSE}
  Requests = {r1}
  MaxLives = 2
  MaxGreetings = 3
INVARIANTS
  TypeOK
  ApiBeforeStore
  ReaderListens
  LeavesVoice
PROPERTIES
  SignalEnds
