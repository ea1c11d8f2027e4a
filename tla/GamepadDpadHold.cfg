SPECIFICATION Spec
CONSTANTS
  Buttons <- MCButtons
  Dpad <- MCDpad
  Pads <- MCPads
  GameUis <- MCUis
  OpenDelay = 1
  HiddenFrames = 2
  SendInputResults <- MCSendInput
PROPERTIES
  DpadModeLocked
