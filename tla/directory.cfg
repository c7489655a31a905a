SPECIFICATION Spec
CONSTANTS
  BS = 8
  RecLen <- MCRecLen
  Hash <- MCHash
  RootLimit = 2
  NodeLimit = 3
  MaxBlocks = 8
  Names = {"a", "b", "c", "d", "e"}
  Inodes = {5}
  Parent = 2
  Self = 4
  MaxAdds = 5
  Defects = {}
INVARIANTS  DirBlocksSound 
CHECK_DEADLOCK FALSE
