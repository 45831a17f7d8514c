SPECIFICATION Spec
CONSTANTS
  Addrs = {1, 2, 3}
  ValuesOf <- ForeignValues
  VirtAddVarTab <- ForeignTab
  NSlots = 3
  Blank = 65535
  Garbage = 43981
  NotFound = NotFound
  Unknown = Unknown
  MaxFaults = 0
  MaxInitCrashes = 0
INVARIANTS AckedIsReadBack
