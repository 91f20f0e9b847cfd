SPECIFICATION FairSpec
CONSTANTS
  Sizes <- AllKinds
  Long <- Last
  MaxEvents = 3
  MaxBytes = 4
  BatchSize = 2
  MaxFaults = 2
INVARIANTS TypeOK CountExact BytesExact FilesBounded BytesBounded NothingVanishes InOrder
PROPERTIES EveryEventLeaves ShutdownEnds BadEntrySkipped
