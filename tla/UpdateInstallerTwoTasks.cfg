SPECIFICATION Spec
CONSTANTS
  exe = exe
  lib = lib
  cli = cli
  legacy = legacy
  old = old
  LauncherFile = exe
  Absent = Absent
  NoStage = NoStage
  NoLauncher = NoLauncher
  Files <- SmallFiles
  GameFiles <- MCGameFiles
  Payload <- SmallPayload
  Removed <- SmallRemoved
  Original <- SmallOriginal
  Stages = {s1, s2}
  Launchers = {l1, l2}
INVARIANT OneInstaller
