SPECIFICATION FairSpec
CONSTANTS
  Count = 2
  Thresholds <- OneThreshold
  RequestQueue = 1
  ReplyQueue = 1
  Pages <- BothPages
  MaxSaves = 1
  MaxLosses = 1
INVARIANTS AnsweredBeforeRunning
PROPERTIES SettingsRefreshed StartsUp
