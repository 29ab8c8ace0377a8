\* A document after its guild's player went idle.
SPECIFICATION DocumentSpec
CONSTANTS
  Guilds = {g1}
  MaxTasks = 2
  MaxTogether = 2
  MaxWaiting = 1
  MaxFaults = 0
  Overlaps = {FALSE}
INVARIANT DocumentIsLatest
