CONSTANTS
  Loads = {"images", "heaps", "maps", "trees", "boards", "headers", "pci"}
  SmallestRam = 11
  LargestRam = 23
  PG = 4
  Fan = 4
  BitmapSpan = 64
  MaxBanks = 2
  MaxReserved = 2
  MaxRuns = 2
  Frames = 48
  ArenaPages = 4
  ExecFrames <- MCExecFrames
  AsidMod = 8
  VecMax = 4
  ProcSize = 2
  KstackSize = 3
  HandlesSize = 1
  StackPages = 1
  CmdMax = 2
  Images <- MCImages
  Memories <- MCMemories
  Sizes = {1, 2, 4}
  MaxBlocks = 2
  MaxProcs = 2
  MaxSpawns = 3
  Machines <- MCMachines
  HALF = 32
  GIB = 4
  MAX_RANGES = 2
  MAX_FUNCTIONS = 4
  MAX_BARS = 3
  MaxDev = 1
  MaxFn = 1
  CELL = 16
  MAX_DEPTH = 3
  Word = 256
SPECIFICATION MemorySpec
INVARIANTS OneOwner ImageFaithful MapExact
CHECK_DEADLOCK FALSE
