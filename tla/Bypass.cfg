SPECIFICATION FairSpec
CONSTANTS
  Voltages <- AllVoltages
  Temperatures <- HotTemperatures
  ProgrammerVoltage = 5000
  Cutoff = 940
  BypassCycles = 3
  SettleCycles = 2
  CounterSize = 8
  BypassTemperatures <- DefaultSetpoint
  BypassThresholds <- DefaultThreshold
  BalanceLevels <- RaisedLevels
  Gains = {g1, g2}
  BadGains = {bad}
  Outputs = {0, 128}
INVARIANTS LoadOnlyInBypass VoltageReadUnloaded CutoffRespected
PROPERTIES BypassEnds DrainStops OverVoltageIsDrained
