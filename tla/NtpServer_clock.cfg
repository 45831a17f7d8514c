SPECIFICATION NtpSpec
CONSTANTS
  Sizes = {48}
  MaxArrivals = 1
  SendMayFail = FALSE
  SecPeriod = 3
  CntPeriod = 4
  MaxTime = 5
INVARIANTS StampsRise
CHECK_DEADLOCK FALSE
