SPECIFICATION Spec
CONSTANTS
  Cells = 2
  MaxSaves = 1
  MaxFailures = 1
  Channels = {"victron", "mqtt", "influx"}
  Batch = 1
  MaxDrops = 1
PROPERTIES
  StopReachesInverter
  ErrorIsReported
  EveryCellPublished
  InfluxGoesOn
