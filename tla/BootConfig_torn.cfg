SPECIFICATION ConfigSpec
CONSTANTS
  Addresses <- TwoAddresses
  NotFound = NotFound
  Junk = Junk
  StackMayMatch = FALSE
  PageRoom = 20
  MaxCrashes = 1
INVARIANTS NoTornAddress
