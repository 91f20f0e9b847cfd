SPECIFICATION Spec
CONSTANTS
  f1 = f1
  f2 = f2
  Files = {f1, f2}
  Source <- TwoFiles
  BatchLines = 2
  QueueMax = 2
  Missing = Missing
  Corrupt = Corrupt
  MaxFaults = 0
  MaxFails = 0
  MaxFatal = 1
  MaxCorrupt = 0
INVARIANT NothingSkipped

