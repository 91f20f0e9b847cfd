SPECIFICATION FairSpec
CONSTANTS
  k1 = k1
  k2 = k2
  Keys = {k1, k2}
  NoKey = NoKey
  NoCert = NoCert
  Ttl = 4
  RenewBefore = 2
  MaxCa = 2
  MaxFaults = 5
INVARIANTS TypeOK Unattended
PROPERTIES PairKept StartsServe RevokedHalts
