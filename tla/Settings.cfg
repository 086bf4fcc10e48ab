SPECIFICATION Spec
CONSTANTS
  Values = {1, 2}
  Cutoff = 1
  Blank = 3
  MaxWrites = 2
  MaxCuts = 2
  Networks = {n1, n2}
  None = None
  MaxSaves = 2
  MaxRestarts = 2
  MaxPresses = 1
PROPERTIES
  RestartKeepsSettings
  JoinsNetwork
  ModuleKeepsSettings
CHECK_DEADLOCK FALSE
