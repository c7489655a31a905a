SPECIFICATION Spec
CONSTANTS
  Root = 1
  Inos = {1, 2, 3, 4}
  Names = {"a", "b"}
  Blocks = {1, 2, 3}
  BS = 2
  INLINE = 2
  LINK_MAX = 4
  Devs = {sda, sdb}
  MPS = 2
  BDEVS = 2
  Hs = {h1, h2}
  CwdPaths <- MCCwdPaths
  MountDirs <- MCMountDirs
  Workloads <- MCWorkloads
  MaxWrites = 2
  Sizes = {1, 5}
  Lengths = {1}
  Offsets = {3}
  OpenFlags <- MCOpenFlags
  MODE = 0
  Sbs <- MCSbs
  BlkNames <- MCBlkNames
  TTY_BUF = 2
  SECT = 2
  NSECT = 2
  DevPaths <- MCDevPaths
  DevFlags <- MCDevFlags
  Texts <- MCTexts
  MaxChars = 3
  Defects = {}
INVARIANTS TreeSound    TablesAgree ConsoleExact 
PROPERTIES FailKeeps ReadOnlyKeeps
SYMMETRY Handles
CHECK_DEADLOCK FALSE
