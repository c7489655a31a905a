SPECIFICATION FairSpec
CONSTANTS
  THREAD = {t1, t2}
  REQ = {r1, r2}
  HEAD = head
  NULL = null
  queue_size = 8
  IDX = 16
  MaxSectors = 2
  Confs <- MCConfs
  Errors = TRUE
INVARIANTS ChainsOwned SleepersAwaited
 
CHECK_DEADLOCK FALSE
