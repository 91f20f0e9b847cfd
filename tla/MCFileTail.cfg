SPECIFICATION Spec
CONSTANTS
  StartFrom = "beginning"
  BatchLines = 2
  QuickRotate = FALSE
  QuickRegrow = FALSE
  MaxSlip = 1
  MaxLines = 3
  MaxInodes = 3
  MaxTruncate = 1
  MaxExpire = 1
  MaxCrash = 1
INVARIANTS TypeOK NoSilentGap NoDuplicates CheckpointCovers
