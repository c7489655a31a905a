SPECIFICATION Spec
CONSTANTS
  MAX_ORDER <- MCOrders
  BLOCK_NPAGES <- MCBlockNpages
  PageBase = 3
  PageEnds <- MCEnds
  THREADS = {t1}
  Requests = {1, 2, 3, 5}
  MaxHeld = 3
  Preempt = FALSE
INVARIANTS Partition HeaderTrusted InitAsserts
CHECK_DEADLOCK FALSE
