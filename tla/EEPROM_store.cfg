SPECIFICATION FairSpec
CONSTANTS
  Addrs = {1, 2}
  ValuesOf <- FewValues
  VirtAddVarTab <- BothTabled
  NSlots = 3
  Blank = 65535
  Garbage = 43981
  NotFound = NotFound
  Unknown = Unknown
  MaxFaults = 1
  MaxInitCrashes = 0
INVARIANTS ReadsOwnData
PROPERTIES ImplementsStore InServiceAfterPowerUp
