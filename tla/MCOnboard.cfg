SPECIFICATION HostFairSpec
CONSTANTS
  k1 = k1
  k2 = k2
  Keys = {k1, k2}
  NoKey = NoKey
  NoCert = NoCert
  Ttl = 2
  RenewBefore = 1
  MaxCa = 2
  MaxFaults = 2
  DefaultUser = TRUE
INVARIANTS HostTypeOK PurgeIsClean
PROPERTIES VerifiedEnrolled  InstallRetried
