SPECIFICATION FairSpec
CONSTANTS
  f1 = f1
  f2 = f2
  Files = {f1, f2}
  Source <- Alerts
  BatchLines = 2
  QueueMax = 1
  Missing = Missing
  Corrupt = Corrupt
  MaxFaults = 1
  MaxFails = 0
  MaxFatal = 1
  MaxCorrupt = 0

PROPERTIES EveryLineDelivered FatalReplaced StopEnds
