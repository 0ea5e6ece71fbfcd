CONSTANTS
  None = None
  MaxPot = 63
  Ulong = 4096
  StrBuf = 4
  DirMax = 6
  root = root
  c1 = c1
  c2 = c2
  o1 = o1
  o2 = o2
  Classes = {root, c1, c2}
  Objects = {o1, o2}
  Names = {root, c1}
  Root = root
  Nil = Nil
  ListHead = ListHead
  ListTail = ListTail
  MaxClasses = 2
  x1 = x1
  x2 = x2
  x3 = x3
  CxObjs = {x1, x2, x3}
  NullObj = NullObj
  MinPri = 0
  MaxPri = 127
  boot = boot
  s1 = s1
  s2 = s2
  Screens = {boot, s1, s2}
  Boot = boot
  NewGadgets <- MCNewGadgets
  Args <- MCArgs
  Texts <- MCTexts
  NewMenus <- MCNewMenus
  Descriptions <- MCDescriptions
  Pris <- MCPris
  n1 = n1
  n2 = n2
  n3 = n3
  Lists = {"l1", "l2"}
  Nodes = {n1, n2, n3}
  NoNode = NoNode
  NodePris = {0, 1}
  NodeName <- MCNodeName
  LibNames = {"dos", "gfx"}
  NoName = NoName
  MaxLibs = 3
  OpenMod = 4
  TagLists <- MCTagLists
  TagMaps <- MCTagMaps
  ID_FORM = 9
  FormType = 8
  LeafIds = {3, 4}
  MAXDEPTH = 3
  MAXSTOPS = 1
  MaxFile = 30
  MaxBody = 3
  file = file
  IconObjs = {file}
  RootDir = RootDir
  Icons <- MCIcons
  NullStr = NullStr
  NoIcon = NoIcon
  NoDrawer = NoDrawer
  BLOB_MAX = 24
  MAX_TOOLTYPES = 2
  DrawerTypes = {1, 2, 5}
  WBPROJECT = 4
  NO_POSITION = 99
  ToolKeys <- MCToolKeys
  EQ = 61
  BAR = 124
  BUMP_MAX = 30
SPECIFICATION Spec
INVARIANTS ReadsBack ToolkitBooks
PROPERTY WalkSeesAll
CHECK_DEADLOCK FALSE
