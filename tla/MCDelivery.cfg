SPECIFICATION Spec
CONSTANTS
  f1 = f1
  f2 = f2
  Files = {f1, f2}
  Source <- TwoFiles
  BatchLines = 2
  QueueMax = 2
  Missing = Missing
  Corrupt = Corrupt
  MaxFaults = 2
  MaxFails = 1
  MaxFatal = 0
  MaxCorrupt = 1
INVARIANTS TypeOK NothingSkipped
PROPERTIES CheckpointNeverRegresses BackupStaysUsable OneStepBack
