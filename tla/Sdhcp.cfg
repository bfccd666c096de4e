CONSTANTS
  Clients <- ThreeClients
  MIN_IP = 15
  MAX_IP = 17
  MAX_XID <- Transactions
  NoClient = "none"
SPECIFICATION FairSpec
INVARIANTS TypeOK LeasesDistinct GrantedWhileRoom
PROPERTY Served
CHECK_DEADLOCK FALSE
