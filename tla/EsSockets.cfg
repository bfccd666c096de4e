CONSTANTS
  ESWIFI_MAX_CHANNEL_NBR = 2
  NET_MAX_SOCKETS_NBR = 3
  MAX_CONTEXTS = 2
  StopMayFail = FALSE
  Waiters = {t1, t2}
  Liberties <- NoLiberty
SPECIFICATION Spec
SYMMETRY Alike
INVARIANTS TypeOK ChannelOwned ChannelHeld AcceptedTalks PeerHasSocket ContextLive NoContextLeak
