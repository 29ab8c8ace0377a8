\* Four changes of the players of two guilds, or two that overlap, and two
\* failed calls.
SPECIFICATION DocumentSpec
CONSTANTS
  Guilds = {g1, g2}
  MaxTasks = 4
  MaxTogether = 2
  MaxWaiting = 2
  MaxFaults = 2
  Overlaps = {TRUE, FALSE}
SYMMETRY GuildSymmetry
INVARIANTS
  PairWasTrue
  DocumentKeepsUp
  PresenceIsTrue
