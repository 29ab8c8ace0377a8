\* Two users at once; Connect may time out at any moment.
SPECIFICATION Spec
CONSTANTS
  Users = {u1, u2}
  Reader = Reader
  Channels = {c1, c2}
  None = None
  Calm = FALSE
  MaxCommands = 2
  MaxUpsets = 0
  MaxFaults = 0
INVARIANTS
  TypeOK
  AnsweredOnce
  ConnectingIsUnderWay
SYMMETRY UserSymmetry
