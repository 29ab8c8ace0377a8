\* Four commands, presses and track ends, and one fault.
SPECIFICATION Spec
CONSTANTS
  None = None
  MaxTasks = 4
  MaxAtWork = 2
  MaxFaults = 1
  Regimes <- MCRegimes
INVARIANTS
  TypeOK
  OnePanel
  PanelShows
  NoPanelOfNothing
  PressIsHonest
