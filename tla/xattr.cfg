SPECIFICATION Spec
CONSTANTS
  BLOCK_SIZE = 112
  IBODY_SIZE = 56
  Blocks = {1, 2}
  Tails <- MCTails
  Values <- MCValues
  Writes <- MCWrites
  Images <- MCImages
  Defects = {}
INVARIANTS AttrsAnswered AttrBlocksSound RoomKept
