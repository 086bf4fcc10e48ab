SPECIFICATION Spec
CONSTANTS
  N = 3
  Configured = 5
  PerPacket = 4
  AllCells = 128
  CellsSize = 32
  SequenceSize = 2
  RequestQueue = 2
  ReplyQueue = 2
  UserCommands <- UserTraffic
  MaxRequests = 3
  MaxFaults = 2
  MaxResets = 1
INVARIANTS ErrorsAccounted RepliesComplete RightCell
PROPERTY LinkSpec
CHECK_DEADLOCK FALSE
