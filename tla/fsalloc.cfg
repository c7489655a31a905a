SPECIFICATION Spec
CONSTANTS
  FirstDataBlock = 1
  BlocksPerGroup = 12
  BlocksCount = 22
  InodesPerGroup = 2
  InodesCount = 3
  BYTE = 2
  NEAR = 4
  MetaBits <- MCMetaBits
  RootMax = 2
  BlockMax = 3
  NDirect = 1
  PerBlock = 2
  UNITS = 2
  MaxBlocks = 8
  MaxDirBlocks = 1
  WriteLens = {3}
  TruncateSizes = {1, 5, 10}
  MaxTruncate = 6
  MaxCuts = 1
  PreBlocks = 1
INVARIANTS SpaceExact TreesSearchable
  
CHECK_DEADLOCK FALSE
