CONSTANTS
  boot = boot
  t1 = t1
  t2 = t2
  Task <- MCTask
  Boot = boot
  PriArg <- MCThreePris
  SIGB_SINGLE = 0
  FirstUserSig = 1
  NSig = 1
  MaxNest = 1
SPECIFICATION Spec
SYMMETRY Symmetry
INVARIANTS QueuesMatchStates NoLostWakeup
PROPERTIES DispatchesHighest KeepsQueueOrder
CHECK_DEADLOCK FALSE
