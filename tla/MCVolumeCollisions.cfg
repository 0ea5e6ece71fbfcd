\* Names that collide on a hash which is not the least.
\* Two groups of 8 blocks, 6 of the last exist; trees of fan-out 2; two cells a block.
SPECIFICATION MCSpec
CONSTANTS
  AgCount = 2
  AgSize = 8
  LastCovered = 6
  BtCap = 2
  LeafCap = 2
  Bs = 2
  ItemCap = 2
  InlineExtents = 2
  MaxDeletes = 2
  Names = {"a", "b", "c", "d"}
  Types = {"file", "dir"}
  Loads = {"entries"}
  NameHash <- MCHashHigh
  Writes <- MCWrites
  AttrValues <- MCAttrValues
  Targets <- MCTargets
CONSTRAINT WholeWrites
PROPERTY ImplementsFileTree
CHECK_DEADLOCK FALSE
