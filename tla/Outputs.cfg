SPECIFICATION OutputsSpec
CONSTANTS
  Relays = 2
  Rules = 2
  Configs <- AllTypes
  MaxFaults = 1
  MaxMoves = 2
  MaxFailures = 1
  BankCounts = {1, 2}
  PageDelay = 1
  CounterSize = 3
  MaxEvents = 1
INVARIANTS
  RelaysFollowRules
  NoFalseStop
  AwakeIsLit
  ValuesHaveTitles
PROPERTIES
  OnePulsePerTrigger
  PulseEnds
  OutputsKept
  StopIsLatched
  SleepsAgain
