CONSTANTS
  boot = boot
  server = server
  c1 = c1
  c2 = c2
  m1 = m1
  m2 = m2
  Task <- MCTask
  Boot = boot
  PriArg <- MCPris
  SIGB_SINGLE = 0
  FirstUserSig = 1
  NSig = 2
  MaxNest = 0
  Message <- MCMessage
  ReplyPort <- MCReplyPort
  RingCap = 2
  Server = server
  ServerPri = 120
  NoMessage = NoMessage
  MaxRounds = 2
  MaxOwed = 1
  MaxClock = 2
  Delay = 1
  Status = {0, 5}
  NoWaiter = NoWaiter
  NoStatus = NoStatus
SPECIFICATION IpcSpec
PROPERTY BlocksOnExit
CHECK_DEADLOCK FALSE
