SPECIFICATION HookingSpec
CONSTANTS
  a = a
  b = b
  c = c
  Order <- MCOrder
  Required = {b}
  Descriptors <- MCDescriptors
  Registered <- MCRegistered
  Target <- MCTarget
  Prologue <- MCPrologue
  Span <- MCSpan
  Replacement <- MCReplacement
  Images <- MCImages
  Places <- MCPlaces
  Reach = 1073741823
INVARIANTS
  HookConsistent
  StatusIsTrue
  LaunchReport
  HookedCodeRuns
  RegisteredHooksFit
PROPERTIES
  HooksServe
  LaunchEnds
CHECK_DEADLOCK FALSE
