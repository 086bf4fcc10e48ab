SPECIFICATION Spec
CONSTANTS
  QueueSize = 2
  OwnAddress = 90
  MaxSaves = 2
  MaxFaults = 2
INVARIANTS
  OneRequestAtATime
  SavesReachDevice
PROPERTIES
  AnswerToTheRequest
  SilenceIsNoticed
CHECK_DEADLOCK FALSE
