SPECIFICATION FairSpec
CONSTANTS
  Commands = {"click", "type", "post"}
  Script <- MCScript
  MaxCommands = 2
  Alone = {"click"}
INVARIANTS
  InOrder
  TicketsEndOnce
PROPERTIES
  OrderlyCommands
  Answered
  WokenIsDrained
CHECK_DEADLOCK FALSE
