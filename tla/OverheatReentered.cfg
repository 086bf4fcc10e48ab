SPECIFICATION Spec
CONSTANTS
  Voltages <- AllVoltages
  Temperatures <- HotTemperatures
  ProgrammerVoltage = 5000
  Cutoff = 940
  BypassCycles = 3
  SettleCycles = 2
  CounterSize = 8
  BypassTemperatures <- DefaultSetpoint
  BypassThresholds <- DefaultThreshold
  BalanceLevels <- RaisedLevels
  Gains = {g1, g2}
  BadGains = {}
  Outputs = {0, 128}
INVARIANT ShutDownWhenTooHot
