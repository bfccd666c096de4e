CONSTANTS
  Clients <- ThreeClients
  MIN_IP = 15
  MAX_IP = 17
  MAX_XID <- Transactions
  NoClient = "none"
SPECIFICATION Spec
INVARIANTS OfferIsGranted
CHECK_DEADLOCK FALSE
