CONSTANTS
  Loads = {"nvme", "boot", "xhci"}
  Entries = 3
  CidMod = 8
  NBlocks = 3
  Chunk = 2
  Controllers <- MCControllers
  Transfers <- MCTransfers
  MaxTimeouts = 1
  MaxErrors = 1
  MaxReboots = 1
  MaxCalls = 2
  Caches = {TRUE, FALSE}
  Disks <- MCDisks
  MaxCuts = 2
  MaxIoErrors = 1
  NPorts = 2
  MaxSlots = 2
  MaxIfs = 2
  RingSize = 4
  EvSize = 4
  Plugs <- MCPlugs
  MaxFaults = 1
  MaxReports = 4
SPECIFICATION DriversSpec
INVARIANT UsbStateTrue
PROPERTIES ResultsTrue VolumeSurvives UsbInputFlows
CHECK_DEADLOCK FALSE
