SPECIFICATION Spec
CONSTANTS
  Trees <- MCTrees
  Paths <- MCPaths
  LogicalSize <- MCLogicalSize
  ClientSize <- MCClientSize
  Clients = {"a"}
  MaxCommands = 2
INVARIANT DirectClickLands
CHECK_DEADLOCK FALSE
