CONSTANTS
  Tasks = {t1, t2}
  NET_MAX_SOCKETS_NBR = 2
  UL_SOCKETS = 2
  Ops <- SerialOps
  Shared = FALSE
  BareShutdown = FALSE
  LinkLoss = FALSE
SPECIFICATION Spec
SYMMETRY Symmetry
INVARIANTS TypeOK LockInv NoCircularWait FdAlive DriverArgOpen SuccessMeansConnection
PROPERTIES NoLowLevelLeak ImplementsTable
