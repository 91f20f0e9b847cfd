SPECIFICATION Spec
CONSTANTS
  Sizes <- TwoEvents
  Long = {}
  MaxEvents = 2
  MaxBytes = 0
  BatchSize = 2
  MaxFaults = 1
INVARIANTS CursorBehindQueue
