CONSTANTS
  Tasks = {t1}
  NET_MAX_SOCKETS_NBR = 2
  UL_SOCKETS = 2
  Ops <- ClientOps
  Shared = FALSE
  BareShutdown = FALSE
  LinkLoss = TRUE
SPECIFICATION Spec
INVARIANT ConnectMeansConnected
