SPECIFICATION Spec
CONSTANTS
  Blocks = {1, 2}
  LogLen = 6
  TagsPerDesc = 1
  Magic = {2}
  MaxVer = 4
  MaxCrash = 2
  MaxStart = 2
  MaxWb = 1
  Defects = {}
INVARIANTS  CacheCoherent BuffersTracked 
CHECK_DEADLOCK FALSE
