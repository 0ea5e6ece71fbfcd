CONSTANTS
  p1 = p1
  p2 = p2
  sh = sh
  Procs = {p1, p2, sh}
  Names = {1, 2, 3, 4}
  MaxCnode = 5
  MaxBlocks = 2
  PosMod = 8
  MaxLen = 3
  ELF = 9
  RawCap = 4
  UartCap = 2
  LineCap = 4
  NL = 10
  BS = 11
  Data <- MCData
  Seeks <- MCSeeks
  Shells = {sh}
  Scripts <- MCScripts
  Quit = 4
  CDir = 2
  NSignals = 1
  Volumes <- MCVolumes
  MaxFaults = 1
  Loads <- MCLoads
SPECIFICATION Spec
CONSTRAINT Sound
INVARIANTS ListingComplete ConsoleInOrder
PROPERTIES FilesSurvive ShellComesBack
CHECK_DEADLOCK FALSE
