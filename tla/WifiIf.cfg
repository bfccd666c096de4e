CONSTANTS
  MAX_NETIFS = 2
  MAX_REPORTS = 4
  MX_WIFI_MAX_TX_BUFFER_COUNT = 2
  MAX_THREADS = 3
  Bounces = FALSE
  Drivers <- AllDrivers
  Restarts <- Restarted
  Impatient <- TakenBack
  Unaddressed <- NoAddress
SPECIFICATION FairSpec
INVARIANTS TypeOK ConnectedHasAddress  InputReachesNetif
PROPERTIES LossNoticed Recovers
CHECK_DEADLOCK FALSE
