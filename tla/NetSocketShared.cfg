CONSTANTS
  Tasks = {t1, t2}
  NET_MAX_SOCKETS_NBR = 2
  UL_SOCKETS = 1
  Ops <- DataOps
  Shared = TRUE
  BareShutdown = FALSE
  LinkLoss = TRUE
SPECIFICATION FairSpec
INVARIANTS FreshSlotIsFree FdAlive
PROPERTY CallReturns
