\* Commands and track ends wait until everything before them has settled.
SPECIFICATION FairSpec
CONSTANTS
  Track <- MCTrack
  None = None
  Reader = Reader
  Handlers = {h1, h2}
  Commands = {"play", "skip", "vote", "pause", "resume", "clear", "remove", "boost", "shuffle", "loop"}
  RequestSizes = {1, 2}
  Audience = {1, 3}
  EndReasons = {"finished", "error"}
  OneAtATime = TRUE
  MaxRequests = 2
  MaxCommands = 5
  MaxFaults = 0
INVARIANTS
  HeardIsShown
  ClockAgrees
  NothingStranded
PROPERTIES
  QueueDrains
