SPECIFICATION Spec
CONSTANTS
  StartFrom = "beginning"
  BatchLines = 2
  QuickRotate = FALSE
  QuickRegrow = FALSE
  MaxSlip = 2
  MaxLines = 3
  MaxInodes = 2
  MaxTruncate = 0
  MaxExpire = 0
  MaxCrash = 0
INVARIANTS NoSilentGap
