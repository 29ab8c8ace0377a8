\* A /skip that meets the end of the track.
SPECIFICATION Spec
CONSTANTS
  Track <- MCTrack
  None = None
  Reader = Reader
  Handlers = {h1, h2}
  Commands = {"play", "skip"}
  RequestSizes = {1}
  Audience = {3}
  EndReasons = {"finished"}
  OneAtATime = FALSE
  MaxRequests = 2
  MaxCommands = 3
  MaxFaults = 0
PROPERTIES
  AdvanceRemovesFinished
