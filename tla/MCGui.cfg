CONSTANTS
  w1 = w1
  w2 = w2
  rq = rq
  str = str
  btn = btn
  prp = prp
  vrt = vrt
  ok = ok
  Windows = {w1, w2, rq}
  Gadgets = {str, btn, prp, vrt, ok}
  None = None
  Requesters = {rq}
  ScreenW = 3
  ScreenH = 2
  BarH = 1
  PortCap = 1
  MaxPot = 3
  HeaderW = 1
  MenuBarH = 1
  MaxChars = 2
  InputCap = 64
  NewOf <- MCNewOf
  GadgetOf <- MCGadgetOf
  Menus <- MCMenus
  Loads <- MCLoads
  PtrBox <- MCPtrBox
  PtrInk <- MCPtrInk
SPECIFICATION Spec
CONSTRAINT Bounded
INVARIANT WindowsConsistent
PROPERTIES MessagesEarned PointerDamage
CHECK_DEADLOCK FALSE
