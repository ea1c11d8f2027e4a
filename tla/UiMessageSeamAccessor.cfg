SPECIFICATION Spec
CONSTANTS
  Commands = {"type"}
  Script <- MCScript
  MaxCommands = 1
  Alone = {}
PROPERTY AccessorsOnGameThread
