SPECIFICATION Spec
CONSTANTS
  exe = exe
  lib = lib
  cli = cli
  legacy = legacy
  old = old
  LauncherFile = exe
  Absent = Absent
  NoStage = NoStage
  NoLauncher = NoLauncher
  Files <- MCFiles
  GameFiles <- MCGameFiles
  Payload <- MCPayload
  Removed <- MCRemoved
  Original <- MCOriginal
  Stages = {s1}
  Launchers = {l1, l2}
INVARIANT PendingHasJournal
