\* Two groups of 8 blocks, 6 of the last exist; trees of fan-out 2; two cells a block.
SPECIFICATION MCSpec
CONSTANTS
  AgCount = 2
  AgSize = 8
  LastCovered = 6
  BtCap = 2
  LeafCap = 2
  Bs = 2
  ItemCap = 2
  InlineExtents = 2
  MaxDeletes = 2
  Names = {"a", "b", "c", "d"}
  Types = {"file", "dir"}
  Loads = {"entries", "links", "files", "attrs"}
  NameHash <- MCHash
  Writes <- MCWrites
  AttrValues <- MCAttrValues
  Targets <- MCTargets
CONSTRAINT WholeWrites
INVARIANTS VolumeSound IterationComplete
PROPERTY ImplementsFileTree
CHECK_DEADLOCK FALSE
