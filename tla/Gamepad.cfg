SPECIFICATION FairSpec
CONSTANTS
  Buttons <- MCButtons
  Dpad <- MCDpad
  Pads <- MCPads
  GameUis <- MCUis
  OpenDelay = 1
  HiddenFrames = 2
  SendInputResults <- MCSendInput
INVARIANTS
  SpaceMirrors
PROPERTIES
  JustPressedOnce
  NoShortcutInMenu
  NoStaleMenu
  CombatStopsPlayer
