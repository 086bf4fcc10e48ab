SPECIFICATION RulesSpec
CONSTANTS
  Banks = 1
  Series = 2
  Voltages <- Levels
  Temperatures <- Some
  Monitors <- Overload
  Minutes = {0}
  TimeOuts = {FALSE}
  Value <- Triggers
  Hysteresis <- Resets
  MaxVoltage = 65535
  MaxPack = 1000000
PROPERTY RulesFollowCells
