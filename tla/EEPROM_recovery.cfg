SPECIFICATION Spec
CONSTANTS
  Addrs = {1, 2}
  ValuesOf <- FewValues
  VirtAddVarTab <- BothTabled
  NSlots = 5
  Blank = 65535
  Garbage = 43981
  NotFound = NotFound
  Unknown = Unknown
  MaxFaults = 0
  MaxInitCrashes = 1
INVARIANTS TypeOK OnePageInService AckedIsReadBack
PROPERTIES InitReturnsItsCodes WritesAreAccepted
