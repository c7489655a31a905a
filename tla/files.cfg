SPECIFICATION Spec
CONSTANTS
  PROC = {ip, p1}
  init_proc = ip
  MaxTables = 2
  MaxFiles = 3
  MaxPipes = 1
  MaxAvail = 4
  NR_OPEN = 3
  NStd = 1
  Calls = {"open", "open_fail", "dup", "pipe2", "fork", "clone_files"}
INVARIANTS CachesExact 
CHECK_DEADLOCK FALSE
