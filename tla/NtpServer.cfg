SPECIFICATION NtpFairSpec
CONSTANTS
  Sizes = {48, 68}
  MaxArrivals = 4
  SendMayFail = TRUE
  SecPeriod = 3
  CntPeriod = 4
  MaxTime = 2
INVARIANTS FreshIsStamped OriginEchoed
PROPERTIES AloneIsTaken
