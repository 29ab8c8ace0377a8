\* Two users at once, failing calls included.
SPECIFICATION Spec
CONSTANTS
  Track <- MCTrack
  None = None
  Reader = Reader
  Handlers = {h1, h2}
  Commands = {"play", "skip", "vote", "pause", "resume", "clear", "remove"}
  RequestSizes = {1, 2}
  Audience = {3}
  EndReasons = {"finished"}
  OneAtATime = FALSE
  MaxRequests = 2
  MaxCommands = 3
  MaxFaults = 1
INVARIANTS
  TypeOK
  ActiveHasTrack
  RequestOrder
  MirrorCaughtUp
  VotesAreActedOn
PROPERTIES
  QueueIsJukebox
SYMMETRY HandlerSymmetry
