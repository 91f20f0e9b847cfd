SPECIFICATION FairSpec
CONSTANTS
  p1 = p1
  p2 = p2
  a1 = a1
  a2 = a2
  bad = bad
  junk = junk
  poison = poison
  Partitions = {p1}
  Alerts = {a1, a2}
  Unstorable = {bad}
  Junk = {junk}
  Poison = {}
  BATCH = 2
  StartFrom = "beginning"
  MaxLog = 3
  MaxFaults = 2
PROPERTIES EveryAlertStored StopEnds
