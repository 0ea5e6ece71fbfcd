CONSTANTS
  boot = boot
  t1 = t1
  t2 = t2
  x1 = x1
  x2 = x2
  m1 = m1
  m2 = m2
  m3 = m3
  ta = ta
  tb = tb
  o1 = o1
  o2 = o2
  Task <- MCTask
  Boot = boot
  PriArg <- MCTwoPris
  SIGB_SINGLE = 0
  FirstUserSig = 1
  NSig = 2
  MaxNest = 0
  Sem <- MCTwoSems
  NoTask = NoTask
  NoSem = NoSem
  SentSigs <- MCUserSigs
  MaxHold = 2
  Slot <- MCSlot
  NoSlot = NoSlot
  Capacity = 4
  Modulus = 8
  Table <- MCTable
  Obj <- MCObj
  Cap = 3
  GenModulus = 2
  NoObj = NoObj
  Invalid = Invalid
  MaxOwn = 2
  MaxIssued = 4
SPECIFICATION ObjectsSpec
SYMMETRY Symmetry
INVARIANTS HoldersOwn WaitersAccounted NoSlotRace RefsCounted FreeListExact OpenHandlesResolve StaleHandlesRefused
PROPERTY ImplementsFifo
CHECK_DEADLOCK FALSE
