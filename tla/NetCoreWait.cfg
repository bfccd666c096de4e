CONSTANTS
  Tasks = {t1}
  Netifs = {n1}
  NULL = NULL
  Timeouts = {1, 2}
  WORD = 256
  Liberties <- NoLiberty
SPECIFICATION Spec
INVARIANT SleepsInTime
CHECK_DEADLOCK FALSE
