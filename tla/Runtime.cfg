SPECIFICATION Spec
CONSTANTS
  Commands <- MCCommands
  Edits <- MCEdits
  MaxVolume = 2
  MaxModeCommands = 1
  MaxHotkeys = 1
  MaxLaunches = 2
  Big = {"main"}
  Small = {"dialog"}
  Modules = {"pal4", "mss"}
  MaxCreates = 2
  Trees <- MCTrees
  Paths <- MCPaths
  LogicalSize <- MCLogicalSize
  ClientSize <- MCClientSize
  MaxUiCommands = 3
  Clients = {"a", "b"}
  Texts <- MCTexts
  MaxCalls = 1
  MaxPipeCommands = 2
  MaxRepeats = 1
  Regions <- MCRegions
  Requests <- MCRequests
  ModuleBase = 3
  ImageBase = 1
  AddressLimit = 6
  MaxRequests = 2
  MaxGameSteps = 2
  Threads = {"t1", "t2"}
  Resources <- MCResources
  Packaged <- MCPackaged
  SlotCount = 2
  OpenLimit = 1
  CountSize = 3
  MaxLoads = 2
  MaxChanges = 1
  Bodies <- MCBodies
  UrlLimit = 12
  Prefix = 3
  Suffix = 4
  TrimStep = 2
  MaxRuns = 2
  MaxFaults = 2
INVARIANTS
  SettingsHold
  WindowHolds
  RefsHold
  PipeHolds
  MemoryHolds
  PatchHolds
  CrashHolds
  CaptureNeverWaits
PROPERTIES
  KeptOffscreen
  KeyComesUp
  CodeNeedsConsent
CHECK_DEADLOCK FALSE
