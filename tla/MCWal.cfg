SPECIFICATION WalSpec
CONSTANTS
  LogBlocks = 10
  FirstHead = 8
  Meta = {12, 13}
  Data = {14}
  Reusable = {13}
  InPlace = {12}
  FaultAt = {"dirty", "data", "log", "ckpt", "jsb", "clean", "replay"}
  MaxOps = 3
  MaxCrashes = 2
  MaxFaults = 1
INVARIANT ReadsCommitted
PROPERTIES RecoversAtomically DataOrdered
CHECK_DEADLOCK FALSE
CONSTRAINT PlainOnly
