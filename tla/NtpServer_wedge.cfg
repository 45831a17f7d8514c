SPECIFICATION NtpFairSpec
CONSTANTS
  Sizes = {48}
  MaxArrivals = 2
  SendMayFail = FALSE
  SecPeriod = 3
  CntPeriod = 4
  MaxTime = 2
PROPERTIES RequestsAreTaken
