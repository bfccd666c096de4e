CONSTANTS
  Tasks = {t1, t2}
  Netifs = {n1, n2}
  NULL = NULL
  Timeouts = {1, 2}
  WORD = 256
  Liberties <- NoLiberty
SPECIFICATION FairSpec
INVARIANTS TypeOK LocksLive ListSound
PROPERTY WaitReturns
CHECK_DEADLOCK FALSE
