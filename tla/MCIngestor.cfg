SPECIFICATION Spec
CONSTANTS
  p1 = p1
  p2 = p2
  a1 = a1
  a2 = a2
  bad = bad
  junk = junk
  poison = poison
  Partitions = {p1, p2}
  Alerts = {a1, a2}
  Unstorable = {bad}
  Junk = {junk}
  Poison = {poison}
  BATCH = 2
  StartFrom = "beginning"
  MaxLog = 2
  MaxFaults = 2
SYMMETRY Symmetry
INVARIANTS TypeOK NoGap
PROPERTIES StoresOncePerAlert
