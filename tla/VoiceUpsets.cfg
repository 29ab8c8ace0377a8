\* One join, while moderators, losses and failing calls get in its way.
SPECIFICATION Spec
CONSTANTS
  Users = {u1}
  Reader = Reader
  Channels = {c1, c2}
  None = None
  Calm = FALSE
  MaxCommands = 1
  MaxUpsets = 2
  MaxFaults = 1
INVARIANTS
  CredentialsAreSent
  ConnectedHasSession
SYMMETRY UserSymmetry
