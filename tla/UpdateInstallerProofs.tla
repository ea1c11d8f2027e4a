----------------------- MODULE UpdateInstallerProofs -----------------------
(***************************************************************************)
(* Theorems about UpdateInstaller, for any set of files, tasks and         *)
(* launchers.                                                              *)
(***************************************************************************)
EXTENDS UpdateInstaller, TLAPS

\* A helper that exits (Handle closes what it held) leaves well-typed variables.
LEMMA ExitType ==
  ASSUME TypeOK, NEW s \in Stages, Exit(s)
  PROVE  /\ helper' \in [Stages -> HelperPCs]
         /\ lock' \in {Free} \union {ByHelper(t) : t \in Stages}
                              \union {ByLauncher(l) : l \in Launchers}
         /\ todo' \in [Stages -> SUBSET Files]
         /\ parent' \in [Stages -> Launchers \union {NoLauncher}]
         /\ child' \in [Stages -> Launchers \union {NoLauncher}]
         /\ ready' \in [Stages -> BOOLEAN]
         /\ failed' \in [Stages -> BOOLEAN]
  BY DEF Exit, TypeOK, HelperPCs

\* So does one that shows its error message, with or without install.lock.
LEMMA ReportType ==
  ASSUME TypeOK, NEW s \in Stages, Report(s)
  PROVE  /\ helper' \in [Stages -> HelperPCs]
         /\ lock' = lock
         /\ todo' \in [Stages -> SUBSET Files]
         /\ parent' \in [Stages -> Launchers \union {NoLauncher}]
         /\ child' \in [Stages -> Launchers \union {NoLauncher}]
         /\ ready' \in [Stages -> BOOLEAN]
         /\ failed' \in [Stages -> BOOLEAN]
  BY DEF Report, TypeOK, HelperPCs

\* And one whose handler chooses between the old launcher and the message.
LEMMA RestartOrReportType ==
  ASSUME TypeOK, NEW s \in Stages, RestartOrReport(s)
  PROVE  /\ helper' \in [Stages -> HelperPCs]
         /\ lock' = lock
         /\ todo' \in [Stages -> SUBSET Files]
         /\ parent' \in [Stages -> Launchers \union {NoLauncher}]
         /\ child' \in [Stages -> Launchers \union {NoLauncher}]
         /\ ready' \in [Stages -> BOOLEAN]
         /\ failed' \in [Stages -> BOOLEAN]
  <1>1. CASE pending = NoStage
    BY <1>1 DEF RestartOrReport, TypeOK, HelperPCs
  <1>2. CASE pending # NoStage
    BY <1>2, ReportType DEF RestartOrReport
  <1> QED
    BY <1>1, <1>2

\* So does a launcher that exits.
LEMMA LauncherEndsType ==
  ASSUME TypeOK, NEW l \in Launchers, LauncherEnds(l)
  PROVE  /\ launcher' \in [Launchers -> LauncherPCs]
         /\ parent' \in [Stages -> Launchers \union {NoLauncher}]
         /\ child' \in [Stages -> Launchers \union {NoLauncher}]
  BY DEF LauncherEnds, TypeOK, LauncherPCs

\* A deleted backup directory is one without files.
LEMMA NoBackupType ==
  ASSUME TypeOK, NEW s \in Stages
  PROVE  [backup EXCEPT ![s] = [f \in Files |-> Absent]] \in [Stages -> [Files -> Contents]]
  <1>1. [f \in Files |-> Absent] \in [Files -> Contents]
    BY DEF Contents
  <1> QED
    BY <1>1 DEF TypeOK

\* Every action of Next keeps the types.
LEMMA TypeStep == TypeOK /\ [Next]_vars => TypeOK'
  <1> SUFFICES ASSUME TypeOK, [Next]_vars PROVE TypeOK'
    OBVIOUS
  <1> USE ManifestAssumption DEF TypeOK, fileVars, helperVars, Go, Loop, Managed, HelperPCs
  <1>1. ASSUME NEW s \in Stages, ParentExited(s) PROVE TypeOK'
    BY <1>1 DEF ParentExited
  <1>2. ASSUME NEW s \in Stages, ParentTimeout(s) PROVE TypeOK'
    BY <1>2, ReportType DEF ParentTimeout
  <1>3. ASSUME NEW s \in Stages, LockInstallation(s) PROVE TypeOK'
    BY <1>3 DEF LockInstallation
  <1>4. ASSUME NEW s \in Stages, LockRefused(s) PROVE TypeOK'
    BY <1>4, ReportType DEF LockRefused
  <1>5. ASSUME NEW s \in Stages, InspectRecovery(s) PROVE TypeOK'
    <2>1. CASE phase[s] = "committed"
      BY <1>5, <2>1 DEF InspectRecovery
    <2>2. CASE phase[s] # "committed"
      <3>1. Managed(s) \in SUBSET Files
        OBVIOUS
      <3>2. todo' = [todo EXCEPT ![s] = Managed(s)] /\ helper' = [helper EXCEPT ![s] = "rollback"]
        BY <1>5, <2>2 DEF InspectRecovery
      <3>3. todo' \in [Stages -> SUBSET Files] /\ helper' \in [Stages -> HelperPCs]
        BY <3>1, <3>2
      <3> QED
        BY <1>5, <3>3 DEF InspectRecovery
    <2> QED
      BY <2>1, <2>2
  <1>7. ASSUME NEW s \in Stages, InspectNew(s) PROVE TypeOK'
    BY <1>7 DEF InspectNew
  <1>8. ASSUME NEW s \in Stages, CheckInstall(s) PROVE TypeOK'
    BY <1>8 DEF CheckInstall
  <1>9. ASSUME NEW s \in Stages, InstallRefused(s) PROVE TypeOK'
    BY <1>9, RestartOrReportType DEF InstallRefused
  <1>10. ASSUME NEW s \in Stages, NEW f \in Files, BackupFile(s, f) PROVE TypeOK'
    BY <1>10 DEF BackupFile, Contents
  <1>11. ASSUME NEW s \in Stages, NEW f \in Files, ReplaceFile(s, f) PROVE TypeOK'
    BY <1>11 DEF ReplaceFile, Contents
  <1>12. ASSUME NEW s \in Stages, NEW f \in Files, RemoveFile(s, f) PROVE TypeOK'
    BY <1>12 DEF RemoveFile, Contents
  <1>13. ASSUME NEW s \in Stages, NEW f \in Files, RollbackFile(s, f) PROVE TypeOK'
    <2>1. disk' \in [Files -> Contents]
      <3>1. backup[s][f] \in Contents
        OBVIOUS
      <3>2. Absent \in Contents
        BY DEF Contents
      <3> QED
        BY ZenonT(60), <1>13, <3>1, <3>2 DEF RollbackFile
    <2> QED
      BY <1>13, <2>1 DEF RollbackFile
  <1>14. ASSUME NEW s \in Stages, BackupDone(s) PROVE TypeOK'
    BY <1>14 DEF BackupDone
  <1>15. ASSUME NEW s \in Stages, WriteJournal(s) PROVE TypeOK'
    BY <1>15 DEF WriteJournal, Phases
  <1>16. ASSUME NEW s \in Stages, WritePending(s) PROVE TypeOK'
    BY <1>16 DEF WritePending
  <1>17. ASSUME NEW s \in Stages, ReplaceDone(s) PROVE TypeOK'
    BY <1>17 DEF ReplaceDone
  <1>18. ASSUME NEW s \in Stages, RemoveDone(s) PROVE TypeOK'
    BY <1>18 DEF RemoveDone
  <1>19. ASSUME NEW s \in Stages, MarkInstalled(s) PROVE TypeOK'
    BY <1>19 DEF MarkInstalled, Phases
  <1>20. ASSUME NEW s \in Stages, InstallThrows(s) PROVE TypeOK'
    BY <1>20 DEF InstallThrows
  <1>21. ASSUME NEW s \in Stages, NEW l \in Launchers, StartChild(s, l) PROVE TypeOK'
    BY <1>21 DEF StartChild, LauncherPCs
  <1>22. ASSUME NEW s \in Stages, ChildReady(s) PROVE TypeOK'
    BY <1>22 DEF ChildReady
  <1>23. ASSUME NEW s \in Stages, ChildNotReady(s) PROVE TypeOK'
    BY <1>23 DEF ChildNotReady
  <1>24. ASSUME NEW s \in Stages, KillChild(s) PROVE TypeOK'
    BY <1>24, LauncherEndsType DEF KillChild
  <1>25. ASSUME NEW s \in Stages, Commit(s) PROVE TypeOK'
    BY <1>25 DEF Commit, Phases
  <1>26. ASSUME NEW s \in Stages, CommitThrows(s) PROVE TypeOK'
    BY <1>26, ReportType DEF CommitThrows
  <1>27. ASSUME NEW s \in Stages, UnpendCommitted(s) PROVE TypeOK'
    BY <1>27 DEF UnpendCommitted
  <1>28. ASSUME NEW s \in Stages, Sweep(s) PROVE TypeOK'
    <2>1. backup' \in [Stages -> [Files -> Contents]]
      <3>1. \/ backup' = backup
            \/ backup' = [backup EXCEPT ![s] = [f \in Files |-> Absent]]
        BY <1>28, Zenon DEF Sweep
      <3>2. CASE backup' = backup
        BY <3>2
      <3>3. CASE backup' = [backup EXCEPT ![s] = [f \in Files |-> Absent]]
        BY <3>3, NoBackupType
      <3> QED
        BY <3>1, <3>2, <3>3
    <2>2. payload' \in [Stages -> PayloadStates]
      <3>1. payload' = payload \/ payload' = [payload EXCEPT ![s] = "gone"]
        BY <1>28, Zenon DEF Sweep
      <3> QED
        BY <3>1 DEF PayloadStates
    <2> QED
      <3>1. Exit(s) /\ UNCHANGED <<disk, pending, phase, existed, launcher, game>>
        BY <1>28 DEF Sweep
      <3> QED
        BY <2>1, <2>2, <3>1, ExitType
  <1>29. ASSUME NEW s \in Stages, MarkRolledBack(s) PROVE TypeOK'
    BY <1>29 DEF MarkRolledBack, Phases
  <1>30. ASSUME NEW s \in Stages, UnpendRolledBack(s) PROVE TypeOK'
    BY <1>30 DEF UnpendRolledBack
  <1>31. ASSUME NEW s \in Stages, RollbackThrows(s) PROVE TypeOK'
    BY <1>31, ReportType DEF RollbackThrows
  <1>32. ASSUME NEW s \in Stages, RestartOld(s) PROVE TypeOK'
    BY <1>32, ExitType, ReportType DEF RestartOld, LauncherPCs
  <1>33. ASSUME NEW s \in Stages, HelperCrash(s) PROVE TypeOK'
    BY <1>33, ExitType DEF HelperCrash
  <1>49. ASSUME NEW s \in Stages, RestartThrows(s) PROVE TypeOK'
    BY <1>49, ReportType, RestartOrReportType DEF RestartThrows
  <1>50. ASSUME NEW s \in Stages, Dismiss(s) PROVE TypeOK'
    BY <1>50, ExitType DEF Dismiss
  <1>34. ASSUME NEW l \in Launchers, UserStartsLauncher(l) PROVE TypeOK'
    BY <1>34 DEF UserStartsLauncher, LauncherPCs
  <1>35. ASSUME NEW l \in Launchers, LookForPending(l) PROVE TypeOK'
    BY <1>35 DEF LookForPending, LauncherPCs
  <1>36. ASSUME NEW l \in Launchers, RecoveryLock(l) PROVE TypeOK'
    <2>1. CASE lock = Free
      BY <1>36, <2>1 DEF RecoveryLock, LauncherPCs
    <2>2. CASE lock # Free
      BY <1>36, <2>2 DEF RecoveryLock, LauncherPCs
    <2> QED
      BY <2>1, <2>2
  <1>37. ASSUME NEW l \in Launchers, RecoveryFinished(l) PROVE TypeOK'
    BY <1>37 DEF RecoveryFinished, LauncherPCs, Final
  <1>38. ASSUME NEW l \in Launchers, RecoveryLaunchesHelper(l) PROVE TypeOK'
    BY <1>38 DEF RecoveryLaunchesHelper, LauncherPCs, Final
  <1>39. ASSUME NEW l \in Launchers, RecoveryThrows(l) PROVE TypeOK'
    BY <1>39 DEF RecoveryThrows, LauncherPCs
  <1>40. ASSUME NEW l \in Launchers, NEW s \in Stages, CleanupStage(l, s) PROVE TypeOK'
    <2>1. backup' \in [Stages -> [Files -> Contents]]
      <3>1. \/ backup' = backup
            \/ backup' = [backup EXCEPT ![s] = [f \in Files |-> Absent]]
        BY <1>40, Zenon DEF CleanupStage
      <3>2. CASE backup' = backup
        BY <3>2
      <3>3. CASE backup' = [backup EXCEPT ![s] = [f \in Files |-> Absent]]
        BY <3>3, NoBackupType
      <3> QED
        BY <3>1, <3>2, <3>3
    <2>2. payload' \in [Stages -> PayloadStates] /\ phase' \in [Stages -> Phases]
      <3>1. payload' = payload \/ payload' = [payload EXCEPT ![s] = "gone"]
        BY <1>40, Zenon DEF CleanupStage
      <3>2. phase' = phase \/ phase' = [phase EXCEPT ![s] = "none"]
        BY <1>40, Zenon DEF CleanupStage
      <3> QED
        BY <3>1, <3>2 DEF PayloadStates, Phases
    <2> QED
      <3>1. UNCHANGED <<disk, pending, existed, lock, helper, todo, parent, child, ready,
                        failed, launcher, game>>
        BY <1>40 DEF CleanupStage
      <3> QED
        BY <2>1, <2>2, <3>1
  <1>41. ASSUME NEW l \in Launchers, NEW s \in Stages, LaunchUpdate(l, s) PROVE TypeOK'
    BY <1>41 DEF LaunchUpdate, PayloadStates, LauncherPCs
  <1>42. ASSUME NEW l \in Launchers, CleanupDone(l) PROVE TypeOK'
    BY <1>42 DEF CleanupDone, LauncherPCs
  <1>43. ASSUME NEW l \in Launchers, FirstFrame(l) PROVE TypeOK'
    BY <1>43 DEF FirstFrame, LauncherPCs
  <1>44. ASSUME NEW l \in Launchers, LaunchGame(l) PROVE TypeOK'
    BY <1>44, LauncherEndsType DEF LaunchGame
  <1>45. ASSUME NEW l \in Launchers, LauncherExits(l) PROVE TypeOK'
    BY <1>45, LauncherEndsType DEF LauncherExits
  <1>46. ASSUME GameToggles PROVE TypeOK'
    BY <1>46 DEF GameToggles
  <1>47. ASSUME PowerLoss PROVE TypeOK'
    BY <1>47 DEF PowerLoss, LauncherPCs
  <1>48. CASE UNCHANGED vars
    BY <1>48 DEF vars
  <1> QED
    BY <1>1, <1>2, <1>3, <1>4, <1>5, <1>7, <1>8, <1>9, <1>10, <1>11, <1>12, <1>13, <1>14, <1>15, <1>16, <1>17, <1>18, <1>19, <1>20, <1>21, <1>22, <1>23, <1>24, <1>25, <1>26, <1>27, <1>28, <1>29, <1>30, <1>31, <1>32, <1>33, <1>34, <1>35, <1>36, <1>37, <1>38, <1>39, <1>40, <1>41, <1>42, <1>43, <1>44, <1>45, <1>46, <1>47, <1>48, <1>49, <1>50 DEF Next, HelperStep, LauncherStep

\* The installation before any update is well-typed.
LEMMA TypeInit == ASSUME Init PROVE TypeOK
  <1>1. Original \in [Files -> Contents]
    BY ManifestAssumption DEF Contents
  <1>2. [s \in Stages |-> [f \in Files |-> Absent]] \in [Stages -> [Files -> Contents]]
    BY DEF Contents
  <1>3. disk \in [Files -> Contents] /\ backup \in [Stages -> [Files -> Contents]]
    BY <1>1, <1>2, Zenon DEF Init
  <1>4. todo \in [Stages -> SUBSET Files] /\ existed \in [Stages -> SUBSET Files]
    BY DEF Init
  <1> QED
    BY <1>3, <1>4 DEF Init, TypeOK, Phases, PayloadStates, HelperPCs, LauncherPCs

\* Every variable keeps its type, whatever the processes do.
THEOREM TypeCorrect == Spec => []TypeOK
  BY TypeInit, TypeStep, PTL DEF Spec

\* The values of lock are pairwise distinct.
LEMMA LockHolders ==
  /\ \A s, t \in Stages : ByHelper(s) = ByHelper(t) => s = t
  /\ \A l, k \in Launchers : ByLauncher(l) = ByLauncher(k) => l = k
  /\ \A s \in Stages, l \in Launchers : ByHelper(s) # ByLauncher(l)
  /\ \A s \in Stages : ByHelper(s) # Free
  /\ \A l \in Launchers : ByLauncher(l) # Free
  BY DEF ByHelper, ByLauncher, Free

\* Who is in a critical section holds install.lock: only a free lock is taken,
\* and only its holder releases it.
LEMMA LockStep == IInv /\ [Next]_vars => LockInv'
  <1> SUFFICES ASSUME IInv, [Next]_vars PROVE LockInv'
    OBVIOUS
  <1> USE LockHolders DEF IInv, TypeOK, LockInv, Critical, HelperPCs, fileVars, helperVars, Go
  <1>1. ASSUME NEW s \in Stages, ParentExited(s) PROVE LockInv'
    BY <1>1 DEF ParentExited
  <1>2. ASSUME NEW s \in Stages, ParentTimeout(s) PROVE LockInv'
    BY <1>2 DEF ParentTimeout, Report
  <1>3. ASSUME NEW s \in Stages, LockInstallation(s) PROVE LockInv'
    BY <1>3 DEF LockInstallation
  <1>4. ASSUME NEW s \in Stages, LockRefused(s) PROVE LockInv'
    BY <1>4 DEF LockRefused, Report
  <1>5. ASSUME NEW s \in Stages, InspectRecovery(s) PROVE LockInv'
    BY <1>5 DEF InspectRecovery, Loop
  <1>7. ASSUME NEW s \in Stages, InspectNew(s) PROVE LockInv'
    BY <1>7 DEF InspectNew
  <1>8. ASSUME NEW s \in Stages, CheckInstall(s) PROVE LockInv'
    BY <1>8 DEF CheckInstall
  <1>9. ASSUME NEW s \in Stages, InstallRefused(s) PROVE LockInv'
    <2>1. CASE pending = NoStage
      BY ZenonT(60), <1>9, <2>1 DEF InstallRefused, RestartOrReport
    <2>2. CASE pending # NoStage
      BY SMTT(40), <1>9, <2>2 DEF InstallRefused, RestartOrReport, Report
    <2> QED
      BY <2>1, <2>2
  <1>10. ASSUME NEW s \in Stages, NEW f \in Files, BackupFile(s, f) PROVE LockInv'
    BY <1>10 DEF BackupFile
  <1>11. ASSUME NEW s \in Stages, NEW f \in Files, ReplaceFile(s, f) PROVE LockInv'
    BY <1>11 DEF ReplaceFile
  <1>12. ASSUME NEW s \in Stages, NEW f \in Files, RemoveFile(s, f) PROVE LockInv'
    BY <1>12 DEF RemoveFile
  <1>13. ASSUME NEW s \in Stages, NEW f \in Files, RollbackFile(s, f) PROVE LockInv'
    BY <1>13 DEF RollbackFile
  <1>14. ASSUME NEW s \in Stages, BackupDone(s) PROVE LockInv'
    BY <1>14 DEF BackupDone
  <1>15. ASSUME NEW s \in Stages, WriteJournal(s) PROVE LockInv'
    BY <1>15 DEF WriteJournal
  <1>16. ASSUME NEW s \in Stages, WritePending(s) PROVE LockInv'
    BY <1>16 DEF WritePending
  <1>17. ASSUME NEW s \in Stages, ReplaceDone(s) PROVE LockInv'
    BY <1>17 DEF ReplaceDone
  <1>18. ASSUME NEW s \in Stages, RemoveDone(s) PROVE LockInv'
    BY <1>18 DEF RemoveDone
  <1>19. ASSUME NEW s \in Stages, MarkInstalled(s) PROVE LockInv'
    BY <1>19 DEF MarkInstalled
  <1>20. ASSUME NEW s \in Stages, InstallThrows(s) PROVE LockInv'
    BY <1>20 DEF InstallThrows
  <1>21. ASSUME NEW s \in Stages, NEW l \in Launchers, StartChild(s, l) PROVE LockInv'
    BY <1>21 DEF StartChild
  <1>22. ASSUME NEW s \in Stages, ChildReady(s) PROVE LockInv'
    BY <1>22 DEF ChildReady
  <1>23. ASSUME NEW s \in Stages, ChildNotReady(s) PROVE LockInv'
    BY <1>23 DEF ChildNotReady
  <1>24. ASSUME NEW s \in Stages, KillChild(s) PROVE LockInv'
    BY <1>24 DEF KillChild, LauncherEnds
  <1>25. ASSUME NEW s \in Stages, Commit(s) PROVE LockInv'
    BY <1>25 DEF Commit
  <1>26. ASSUME NEW s \in Stages, CommitThrows(s) PROVE LockInv'
    BY <1>26 DEF CommitThrows, Report
  <1>27. ASSUME NEW s \in Stages, UnpendCommitted(s) PROVE LockInv'
    BY <1>27 DEF UnpendCommitted
  <1>28. ASSUME NEW s \in Stages, Sweep(s) PROVE LockInv'
    BY <1>28 DEF Sweep, Exit
  <1>29. ASSUME NEW s \in Stages, MarkRolledBack(s) PROVE LockInv'
    BY <1>29 DEF MarkRolledBack
  <1>30. ASSUME NEW s \in Stages, UnpendRolledBack(s) PROVE LockInv'
    BY <1>30 DEF UnpendRolledBack
  <1>31. ASSUME NEW s \in Stages, RollbackThrows(s) PROVE LockInv'
    BY <1>31 DEF RollbackThrows, Report
  <1>32. ASSUME NEW s \in Stages, RestartOld(s) PROVE LockInv'
    <2>1. Exit(s) \/ Report(s)
      BY <1>32 DEF RestartOld
    <2>2. /\ \A t \in Stages \ {s} : helper'[t] = helper[t]
          /\ helper'[s] \in {"idle", "report"}
          /\ lock' = lock \/ lock = ByHelper(s)
      BY <2>1 DEF Exit, Report
    <2>3. \A l \in Launchers : launcher'[l] = "recover" => launcher[l] = "recover"
      BY <1>32 DEF RestartOld
    <2>4. CASE lock' = lock
      BY <2>2, <2>3, <2>4
    <2>5. CASE lock = ByHelper(s)
      BY <2>2, <2>3, <2>5
    <2> QED
      BY <2>2, <2>4, <2>5
  <1>33. ASSUME NEW s \in Stages, HelperCrash(s) PROVE LockInv'
    BY <1>33 DEF HelperCrash, Exit
  <1>49. ASSUME NEW s \in Stages, RestartThrows(s) PROVE LockInv'
    BY <1>49 DEF RestartThrows, RestartOrReport, Report
  <1>50. ASSUME NEW s \in Stages, Dismiss(s) PROVE LockInv'
    BY <1>50 DEF Dismiss, Exit
  <1>34. ASSUME NEW l \in Launchers, UserStartsLauncher(l) PROVE LockInv'
    BY <1>34 DEF UserStartsLauncher
  <1>35. ASSUME NEW l \in Launchers, LookForPending(l) PROVE LockInv'
    BY <1>35 DEF LookForPending
  <1>36. ASSUME NEW l \in Launchers, RecoveryLock(l) PROVE LockInv'
    BY <1>36 DEF RecoveryLock
  <1>37. ASSUME NEW l \in Launchers, RecoveryFinished(l) PROVE LockInv'
    BY <1>37 DEF RecoveryFinished
  <1>38. ASSUME NEW l \in Launchers, RecoveryLaunchesHelper(l) PROVE LockInv'
    BY <1>38 DEF RecoveryLaunchesHelper
  <1>39. ASSUME NEW l \in Launchers, RecoveryThrows(l) PROVE LockInv'
    BY <1>39 DEF RecoveryThrows
  <1>40. ASSUME NEW l \in Launchers, NEW s \in Stages, CleanupStage(l, s) PROVE LockInv'
    BY <1>40 DEF CleanupStage
  <1>41. ASSUME NEW l \in Launchers, NEW s \in Stages, LaunchUpdate(l, s) PROVE LockInv'
    BY <1>41 DEF LaunchUpdate
  <1>42. ASSUME NEW l \in Launchers, CleanupDone(l) PROVE LockInv'
    BY <1>42 DEF CleanupDone
  <1>43. ASSUME NEW l \in Launchers, FirstFrame(l) PROVE LockInv'
    BY <1>43 DEF FirstFrame
  <1>44. ASSUME NEW l \in Launchers, LaunchGame(l) PROVE LockInv'
    BY <1>44 DEF LaunchGame, LauncherEnds
  <1>45. ASSUME NEW l \in Launchers, LauncherExits(l) PROVE LockInv'
    BY <1>45 DEF LauncherExits, LauncherEnds
  <1>46. ASSUME GameToggles PROVE LockInv'
    BY <1>46 DEF GameToggles
  <1>47. ASSUME PowerLoss PROVE LockInv'
    BY <1>47 DEF PowerLoss
  <1>48. CASE UNCHANGED vars
    BY <1>48 DEF vars
  <1> QED
    BY <1>1, <1>2, <1>3, <1>4, <1>5, <1>7, <1>8, <1>9, <1>10, <1>11, <1>12, <1>13, <1>14, <1>15, <1>16, <1>17, <1>18, <1>19, <1>20, <1>21, <1>22, <1>23, <1>24, <1>25, <1>26, <1>27, <1>28, <1>29, <1>30, <1>31, <1>32, <1>33, <1>34, <1>35, <1>36, <1>37, <1>38, <1>39, <1>40, <1>41, <1>42, <1>43, <1>44, <1>45, <1>46, <1>47, <1>48, <1>49, <1>50 DEF Next, HelperStep, LauncherStep

\* pending.json names the task in transaction, and nothing else removes it.
LEMMA PendingStep == IInv /\ [Next]_vars => PendingInv'
  <1> SUFFICES ASSUME IInv, [Next]_vars PROVE PendingInv'
    OBVIOUS
  <1> USE LockHolders, DistinctAssumption DEF IInv, TypeOK, LockInv, PendingInv, PhaseInv, Critical, InTransaction, HelperPCs, fileVars, helperVars, Go, Uncommitted, Final
  <1>1. ASSUME NEW s \in Stages, ParentExited(s) PROVE PendingInv'
    BY <1>1 DEF ParentExited
  <1>2. ASSUME NEW s \in Stages, ParentTimeout(s) PROVE PendingInv'
    BY <1>2 DEF ParentTimeout, Report
  <1>3. ASSUME NEW s \in Stages, LockInstallation(s) PROVE PendingInv'
    BY <1>3 DEF LockInstallation
  <1>4. ASSUME NEW s \in Stages, LockRefused(s) PROVE PendingInv'
    BY <1>4 DEF LockRefused, Report
  <1>5. ASSUME NEW s \in Stages, InspectRecovery(s) PROVE PendingInv'
    BY <1>5 DEF InspectRecovery, Loop
  <1>7. ASSUME NEW s \in Stages, InspectNew(s) PROVE PendingInv'
    BY <1>7 DEF InspectNew
  <1>8. ASSUME NEW s \in Stages, CheckInstall(s) PROVE PendingInv'
    BY <1>8 DEF CheckInstall
  <1>9. ASSUME NEW s \in Stages, InstallRefused(s) PROVE PendingInv'
    BY <1>9 DEF InstallRefused, RestartOrReport, Report
  <1>10. ASSUME NEW s \in Stages, NEW f \in Files, BackupFile(s, f) PROVE PendingInv'
    BY <1>10 DEF BackupFile
  <1>11. ASSUME NEW s \in Stages, NEW f \in Files, ReplaceFile(s, f) PROVE PendingInv'
    BY <1>11 DEF ReplaceFile
  <1>12. ASSUME NEW s \in Stages, NEW f \in Files, RemoveFile(s, f) PROVE PendingInv'
    BY <1>12 DEF RemoveFile
  <1>13. ASSUME NEW s \in Stages, NEW f \in Files, RollbackFile(s, f) PROVE PendingInv'
    BY <1>13 DEF RollbackFile
  <1>14. ASSUME NEW s \in Stages, BackupDone(s) PROVE PendingInv'
    BY <1>14 DEF BackupDone
  <1>15. ASSUME NEW s \in Stages, WriteJournal(s) PROVE PendingInv'
    BY <1>15 DEF WriteJournal
  <1>16. ASSUME NEW s \in Stages, WritePending(s) PROVE PendingInv'
    BY <1>16 DEF WritePending
  <1>17. ASSUME NEW s \in Stages, ReplaceDone(s) PROVE PendingInv'
    BY <1>17 DEF ReplaceDone
  <1>18. ASSUME NEW s \in Stages, RemoveDone(s) PROVE PendingInv'
    BY <1>18 DEF RemoveDone
  <1>19. ASSUME NEW s \in Stages, MarkInstalled(s) PROVE PendingInv'
    BY <1>19 DEF MarkInstalled
  <1>20. ASSUME NEW s \in Stages, InstallThrows(s) PROVE PendingInv'
    BY <1>20 DEF InstallThrows
  <1>21. ASSUME NEW s \in Stages, NEW l \in Launchers, StartChild(s, l) PROVE PendingInv'
    BY <1>21 DEF StartChild
  <1>22. ASSUME NEW s \in Stages, ChildReady(s) PROVE PendingInv'
    BY <1>22 DEF ChildReady
  <1>23. ASSUME NEW s \in Stages, ChildNotReady(s) PROVE PendingInv'
    BY <1>23 DEF ChildNotReady
  <1>24. ASSUME NEW s \in Stages, KillChild(s) PROVE PendingInv'
    BY <1>24 DEF KillChild, LauncherEnds
  <1>25. ASSUME NEW s \in Stages, Commit(s) PROVE PendingInv'
    BY <1>25 DEF Commit
  <1>26. ASSUME NEW s \in Stages, CommitThrows(s) PROVE PendingInv'
    BY <1>26 DEF CommitThrows, Report
  <1>27. ASSUME NEW s \in Stages, UnpendCommitted(s) PROVE PendingInv'
    BY <1>27 DEF UnpendCommitted
  <1>28. ASSUME NEW s \in Stages, Sweep(s) PROVE PendingInv'
    BY <1>28 DEF Sweep, Exit
  <1>29. ASSUME NEW s \in Stages, MarkRolledBack(s) PROVE PendingInv'
    BY <1>29 DEF MarkRolledBack
  <1>30. ASSUME NEW s \in Stages, UnpendRolledBack(s) PROVE PendingInv'
    BY <1>30 DEF UnpendRolledBack
  <1>31. ASSUME NEW s \in Stages, RollbackThrows(s) PROVE PendingInv'
    BY <1>31 DEF RollbackThrows, Report
  <1>32. ASSUME NEW s \in Stages, RestartOld(s) PROVE PendingInv'
    BY <1>32 DEF RestartOld, Exit, Report
  <1>33. ASSUME NEW s \in Stages, HelperCrash(s) PROVE PendingInv'
    BY <1>33 DEF HelperCrash, Exit
  <1>49. ASSUME NEW s \in Stages, RestartThrows(s) PROVE PendingInv'
    BY <1>49 DEF RestartThrows, RestartOrReport, Report
  <1>50. ASSUME NEW s \in Stages, Dismiss(s) PROVE PendingInv'
    BY <1>50 DEF Dismiss, Exit
  <1>34. ASSUME NEW l \in Launchers, UserStartsLauncher(l) PROVE PendingInv'
    BY <1>34 DEF UserStartsLauncher
  <1>35. ASSUME NEW l \in Launchers, LookForPending(l) PROVE PendingInv'
    BY <1>35 DEF LookForPending
  <1>36. ASSUME NEW l \in Launchers, RecoveryLock(l) PROVE PendingInv'
    BY <1>36 DEF RecoveryLock
  <1>37. ASSUME NEW l \in Launchers, RecoveryFinished(l) PROVE PendingInv'
    BY <1>37 DEF RecoveryFinished
  <1>38. ASSUME NEW l \in Launchers, RecoveryLaunchesHelper(l) PROVE PendingInv'
    <2>1. pending \in Stages /\ Uncommitted(pending)
      BY <1>38 DEF RecoveryLaunchesHelper, Phases
    <2>2. PICK t \in Stages : t = pending
      BY <2>1
    <2> QED
      BY <1>38, <2>1, <2>2 DEF RecoveryLaunchesHelper
  <1>39. ASSUME NEW l \in Launchers, RecoveryThrows(l) PROVE PendingInv'
    BY <1>39 DEF RecoveryThrows
  <1>40. ASSUME NEW l \in Launchers, NEW s \in Stages, CleanupStage(l, s) PROVE PendingInv'
    BY <1>40 DEF CleanupStage
  <1>41. ASSUME NEW l \in Launchers, NEW s \in Stages, LaunchUpdate(l, s) PROVE PendingInv'
    BY <1>41 DEF LaunchUpdate
  <1>42. ASSUME NEW l \in Launchers, CleanupDone(l) PROVE PendingInv'
    BY <1>42 DEF CleanupDone
  <1>43. ASSUME NEW l \in Launchers, FirstFrame(l) PROVE PendingInv'
    BY <1>43 DEF FirstFrame
  <1>44. ASSUME NEW l \in Launchers, LaunchGame(l) PROVE PendingInv'
    BY <1>44 DEF LaunchGame, LauncherEnds
  <1>45. ASSUME NEW l \in Launchers, LauncherExits(l) PROVE PendingInv'
    BY <1>45 DEF LauncherExits, LauncherEnds
  <1>46. ASSUME GameToggles PROVE PendingInv'
    BY <1>46 DEF GameToggles
  <1>47. ASSUME PowerLoss PROVE PendingInv'
    BY <1>47 DEF PowerLoss
  <1>48. CASE UNCHANGED vars
    BY <1>48 DEF vars
  <1> QED
    BY <1>1, <1>2, <1>3, <1>4, <1>5, <1>7, <1>8, <1>9, <1>10, <1>11, <1>12, <1>13, <1>14, <1>15, <1>16, <1>17, <1>18, <1>19, <1>20, <1>21, <1>22, <1>23, <1>24, <1>25, <1>26, <1>27, <1>28, <1>29, <1>30, <1>31, <1>32, <1>33, <1>34, <1>35, <1>36, <1>37, <1>38, <1>39, <1>40, <1>41, <1>42, <1>43, <1>44, <1>45, <1>46, <1>47, <1>48, <1>49, <1>50 DEF Next, HelperStep, LauncherStep

\* A journal's phase tells where its helper is, or where it stopped.
LEMMA PhaseStep == IInv /\ [Next]_vars => PhaseInv'
  <1> SUFFICES ASSUME IInv, [Next]_vars PROVE PhaseInv'
    OBVIOUS
  <1> USE LockHolders DEF IInv, TypeOK, LockInv, PendingInv, PhaseInv, HelperPCs, fileVars, helperVars, Go, Uncommitted, Final
  <1>1. ASSUME NEW s \in Stages, ParentExited(s) PROVE PhaseInv'
    BY <1>1 DEF ParentExited
  <1>2. ASSUME NEW s \in Stages, ParentTimeout(s) PROVE PhaseInv'
    BY <1>2 DEF ParentTimeout, Report
  <1>3. ASSUME NEW s \in Stages, LockInstallation(s) PROVE PhaseInv'
    BY <1>3 DEF LockInstallation
  <1>4. ASSUME NEW s \in Stages, LockRefused(s) PROVE PhaseInv'
    BY <1>4 DEF LockRefused, Report
  <1>5. ASSUME NEW s \in Stages, InspectRecovery(s) PROVE PhaseInv'
    BY <1>5 DEF InspectRecovery, Loop
  <1>7. ASSUME NEW s \in Stages, InspectNew(s) PROVE PhaseInv'
    BY <1>7 DEF InspectNew
  <1>8. ASSUME NEW s \in Stages, CheckInstall(s) PROVE PhaseInv'
    BY <1>8 DEF CheckInstall
  <1>9. ASSUME NEW s \in Stages, InstallRefused(s) PROVE PhaseInv'
    BY <1>9 DEF InstallRefused, RestartOrReport, Report
  <1>10. ASSUME NEW s \in Stages, NEW f \in Files, BackupFile(s, f) PROVE PhaseInv'
    BY <1>10 DEF BackupFile
  <1>11. ASSUME NEW s \in Stages, NEW f \in Files, ReplaceFile(s, f) PROVE PhaseInv'
    BY <1>11 DEF ReplaceFile
  <1>12. ASSUME NEW s \in Stages, NEW f \in Files, RemoveFile(s, f) PROVE PhaseInv'
    BY <1>12 DEF RemoveFile
  <1>13. ASSUME NEW s \in Stages, NEW f \in Files, RollbackFile(s, f) PROVE PhaseInv'
    BY <1>13 DEF RollbackFile
  <1>14. ASSUME NEW s \in Stages, BackupDone(s) PROVE PhaseInv'
    BY <1>14 DEF BackupDone
  <1>15. ASSUME NEW s \in Stages, WriteJournal(s) PROVE PhaseInv'
    BY <1>15 DEF WriteJournal
  <1>16. ASSUME NEW s \in Stages, WritePending(s) PROVE PhaseInv'
    BY <1>16 DEF WritePending
  <1>17. ASSUME NEW s \in Stages, ReplaceDone(s) PROVE PhaseInv'
    BY <1>17 DEF ReplaceDone
  <1>18. ASSUME NEW s \in Stages, RemoveDone(s) PROVE PhaseInv'
    BY <1>18 DEF RemoveDone
  <1>19. ASSUME NEW s \in Stages, MarkInstalled(s) PROVE PhaseInv'
    BY <1>19 DEF MarkInstalled
  <1>20. ASSUME NEW s \in Stages, InstallThrows(s) PROVE PhaseInv'
    BY <1>20 DEF InstallThrows
  <1>21. ASSUME NEW s \in Stages, NEW l \in Launchers, StartChild(s, l) PROVE PhaseInv'
    BY <1>21 DEF StartChild
  <1>22. ASSUME NEW s \in Stages, ChildReady(s) PROVE PhaseInv'
    BY <1>22 DEF ChildReady
  <1>23. ASSUME NEW s \in Stages, ChildNotReady(s) PROVE PhaseInv'
    BY <1>23 DEF ChildNotReady
  <1>24. ASSUME NEW s \in Stages, KillChild(s) PROVE PhaseInv'
    BY <1>24 DEF KillChild, LauncherEnds
  <1>25. ASSUME NEW s \in Stages, Commit(s) PROVE PhaseInv'
    BY <1>25 DEF Commit
  <1>26. ASSUME NEW s \in Stages, CommitThrows(s) PROVE PhaseInv'
    BY <1>26 DEF CommitThrows, Report
  <1>27. ASSUME NEW s \in Stages, UnpendCommitted(s) PROVE PhaseInv'
    BY <1>27 DEF UnpendCommitted
  <1>28. ASSUME NEW s \in Stages, Sweep(s) PROVE PhaseInv'
    BY <1>28 DEF Sweep, Exit
  <1>29. ASSUME NEW s \in Stages, MarkRolledBack(s) PROVE PhaseInv'
    BY <1>29 DEF MarkRolledBack
  <1>30. ASSUME NEW s \in Stages, UnpendRolledBack(s) PROVE PhaseInv'
    BY <1>30 DEF UnpendRolledBack
  <1>31. ASSUME NEW s \in Stages, RollbackThrows(s) PROVE PhaseInv'
    BY <1>31 DEF RollbackThrows, Report
  <1>32. ASSUME NEW s \in Stages, RestartOld(s) PROVE PhaseInv'
    BY <1>32 DEF RestartOld, Exit, Report
  <1>33. ASSUME NEW s \in Stages, HelperCrash(s) PROVE PhaseInv'
    BY <1>33 DEF HelperCrash, Exit
  <1>49. ASSUME NEW s \in Stages, RestartThrows(s) PROVE PhaseInv'
    BY <1>49 DEF RestartThrows, RestartOrReport, Report
  <1>50. ASSUME NEW s \in Stages, Dismiss(s) PROVE PhaseInv'
    BY <1>50 DEF Dismiss, Exit
  <1>34. ASSUME NEW l \in Launchers, UserStartsLauncher(l) PROVE PhaseInv'
    BY <1>34 DEF UserStartsLauncher
  <1>35. ASSUME NEW l \in Launchers, LookForPending(l) PROVE PhaseInv'
    BY <1>35 DEF LookForPending
  <1>36. ASSUME NEW l \in Launchers, RecoveryLock(l) PROVE PhaseInv'
    BY <1>36 DEF RecoveryLock
  <1>37. ASSUME NEW l \in Launchers, RecoveryFinished(l) PROVE PhaseInv'
    BY <1>37 DEF RecoveryFinished
  <1>38. ASSUME NEW l \in Launchers, RecoveryLaunchesHelper(l) PROVE PhaseInv'
    BY <1>38 DEF RecoveryLaunchesHelper
  <1>39. ASSUME NEW l \in Launchers, RecoveryThrows(l) PROVE PhaseInv'
    BY <1>39 DEF RecoveryThrows
  <1>40. ASSUME NEW l \in Launchers, NEW s \in Stages, CleanupStage(l, s) PROVE PhaseInv'
    BY <1>40 DEF CleanupStage
  <1>41. ASSUME NEW l \in Launchers, NEW s \in Stages, LaunchUpdate(l, s) PROVE PhaseInv'
    BY <1>41 DEF LaunchUpdate
  <1>42. ASSUME NEW l \in Launchers, CleanupDone(l) PROVE PhaseInv'
    BY <1>42 DEF CleanupDone
  <1>43. ASSUME NEW l \in Launchers, FirstFrame(l) PROVE PhaseInv'
    BY <1>43 DEF FirstFrame
  <1>44. ASSUME NEW l \in Launchers, LaunchGame(l) PROVE PhaseInv'
    BY <1>44 DEF LaunchGame, LauncherEnds
  <1>45. ASSUME NEW l \in Launchers, LauncherExits(l) PROVE PhaseInv'
    BY <1>45 DEF LauncherExits, LauncherEnds
  <1>46. ASSUME GameToggles PROVE PhaseInv'
    BY <1>46 DEF GameToggles
  <1>47. ASSUME PowerLoss PROVE PhaseInv'
    BY <1>47 DEF PowerLoss
  <1>48. CASE UNCHANGED vars
    BY <1>48 DEF vars
  <1> QED
    BY <1>1, <1>2, <1>3, <1>4, <1>5, <1>7, <1>8, <1>9, <1>10, <1>11, <1>12, <1>13, <1>14, <1>15, <1>16, <1>17, <1>18, <1>19, <1>20, <1>21, <1>22, <1>23, <1>24, <1>25, <1>26, <1>27, <1>28, <1>29, <1>30, <1>31, <1>32, <1>33, <1>34, <1>35, <1>36, <1>37, <1>38, <1>39, <1>40, <1>41, <1>42, <1>43, <1>44, <1>45, <1>46, <1>47, <1>48, <1>49, <1>50 DEF Next, HelperStep, LauncherStep

\* While one helper changes files, every other one is outside its transaction.
LEMMA LoneHelper ==
  ASSUME TypeOK, LockInv, NEW s \in Stages, helper[s] \in Critical
  PROVE  \A t \in Stages \ {s} : helper[t] \in {"idle", "waitParent", "acquire", "report"}
  <1>1. \A t \in Stages : helper[t] \in Critical => t = s
    BY LockHolders DEF LockInv
  <1> QED
    BY <1>1 DEF TypeOK, Critical

\* The backups of a task equal the old files until its journal is final.
LEMMA BackupStep == IInv /\ [Next]_vars => BackupInv'
  <1> SUFFICES ASSUME IInv, [Next]_vars PROVE BackupInv'
    OBVIOUS
  <1> USE ManifestAssumption, LockHolders DEF IInv, TypeOK, LockInv, PhaseInv, BackupInv, Critical, HelperPCs, fileVars, helperVars, Go, Uncommitted, Final, Managed
  <1>1. ASSUME NEW s \in Stages, ParentExited(s) PROVE BackupInv'
    BY <1>1 DEF ParentExited
  <1>2. ASSUME NEW s \in Stages, ParentTimeout(s) PROVE BackupInv'
    BY <1>2 DEF ParentTimeout, Report
  <1>3. ASSUME NEW s \in Stages, LockInstallation(s) PROVE BackupInv'
    BY <1>3 DEF LockInstallation
  <1>4. ASSUME NEW s \in Stages, LockRefused(s) PROVE BackupInv'
    BY <1>4 DEF LockRefused, Report
  <1>5. ASSUME NEW s \in Stages, InspectRecovery(s) PROVE BackupInv'
    BY <1>5 DEF InspectRecovery, Loop
  <1>7. ASSUME NEW s \in Stages, InspectNew(s) PROVE BackupInv'
    BY <1>7 DEF InspectNew
  <1>8. ASSUME NEW s \in Stages, CheckInstall(s) PROVE BackupInv'
    BY <1>8 DEF CheckInstall, Loop
  <1>9. ASSUME NEW s \in Stages, InstallRefused(s) PROVE BackupInv'
    <2>1. UNCHANGED fileVars
      BY <1>9 DEF InstallRefused
    <2>2. /\ helper' = [helper EXCEPT ![s] = "restart"] \/ helper' = [helper EXCEPT ![s] = "report"]
          /\ todo' = todo \/ todo' = [todo EXCEPT ![s] = {}]
      BY <1>9 DEF InstallRefused, RestartOrReport, Report
    <2>3. helper'[s] \in {"restart", "report"}
      BY <2>2
    <2>4. \A t \in Stages \ {s} : helper'[t] = helper[t] /\ todo'[t] = todo[t]
      BY <2>2
    <2> QED
      BY <2>1, <2>3, <2>4
  <1>10. ASSUME NEW s \in Stages, NEW f \in Files, BackupFile(s, f) PROVE BackupInv'
    BY <1>10 DEF BackupFile, Loop
  <1>11. ASSUME NEW s \in Stages, NEW f \in Files, ReplaceFile(s, f) PROVE BackupInv'
    <2>1. helper[s] = "replace" /\ UNCHANGED <<helper, backup, existed, phase>>
      BY <1>11 DEF ReplaceFile
    <2>2. \A t \in Stages \ {s} : helper[t] \in {"idle", "waitParent", "acquire", "report"}
      BY <2>1, LoneHelper
    <2>3. \A t \in Stages : helper'[t] \notin {"backup", "journal"}
      BY <2>1, <2>2
    <2>4. \A t \in Stages : Uncommitted(t)' => \A g \in existed'[t] : backup'[t][g] # Absent
      BY <2>1
    <2> QED
      BY <2>3, <2>4
  <1>12. ASSUME NEW s \in Stages, NEW f \in Files, RemoveFile(s, f) PROVE BackupInv'
    <2>1. helper[s] = "remove" /\ UNCHANGED <<helper, backup, existed, phase>>
      BY <1>12 DEF RemoveFile
    <2>2. \A t \in Stages \ {s} : helper[t] \in {"idle", "waitParent", "acquire", "report"}
      BY <2>1, LoneHelper
    <2>3. \A t \in Stages : helper'[t] \notin {"backup", "journal"}
      BY <2>1, <2>2
    <2>4. \A t \in Stages : Uncommitted(t)' => \A g \in existed'[t] : backup'[t][g] # Absent
      BY <2>1
    <2> QED
      BY <2>3, <2>4
  <1>13. ASSUME NEW s \in Stages, NEW f \in Files, RollbackFile(s, f) PROVE BackupInv'
    <2>1. helper[s] = "rollback" /\ UNCHANGED <<helper, backup, existed, phase>>
      BY <1>13 DEF RollbackFile
    <2>2. \A t \in Stages \ {s} : helper[t] \in {"idle", "waitParent", "acquire", "report"}
      BY <2>1, LoneHelper
    <2>3. \A t \in Stages : helper'[t] \notin {"backup", "journal"}
      BY <2>1, <2>2
    <2>4. \A t \in Stages : Uncommitted(t)' => \A g \in existed'[t] : backup'[t][g] # Absent
      BY <2>1
    <2> QED
      BY <2>3, <2>4
  <1>14. ASSUME NEW s \in Stages, BackupDone(s) PROVE BackupInv'
    BY <1>14 DEF BackupDone
  <1>15. ASSUME NEW s \in Stages, WriteJournal(s) PROVE BackupInv'
    BY <1>15 DEF WriteJournal
  <1>16. ASSUME NEW s \in Stages, WritePending(s) PROVE BackupInv'
    BY <1>16 DEF WritePending, Loop
  <1>17. ASSUME NEW s \in Stages, ReplaceDone(s) PROVE BackupInv'
    BY <1>17 DEF ReplaceDone, Loop
  <1>18. ASSUME NEW s \in Stages, RemoveDone(s) PROVE BackupInv'
    BY <1>18 DEF RemoveDone
  <1>19. ASSUME NEW s \in Stages, MarkInstalled(s) PROVE BackupInv'
    BY <1>19 DEF MarkInstalled
  <1>20. ASSUME NEW s \in Stages, InstallThrows(s) PROVE BackupInv'
    BY <1>20 DEF InstallThrows, Loop
  <1>21. ASSUME NEW s \in Stages, NEW l \in Launchers, StartChild(s, l) PROVE BackupInv'
    BY <1>21 DEF StartChild
  <1>22. ASSUME NEW s \in Stages, ChildReady(s) PROVE BackupInv'
    BY <1>22 DEF ChildReady
  <1>23. ASSUME NEW s \in Stages, ChildNotReady(s) PROVE BackupInv'
    BY <1>23 DEF ChildNotReady
  <1>24. ASSUME NEW s \in Stages, KillChild(s) PROVE BackupInv'
    BY <1>24 DEF KillChild, LauncherEnds, Loop
  <1>25. ASSUME NEW s \in Stages, Commit(s) PROVE BackupInv'
    BY <1>25 DEF Commit
  <1>26. ASSUME NEW s \in Stages, CommitThrows(s) PROVE BackupInv'
    BY <1>26 DEF CommitThrows, Report
  <1>27. ASSUME NEW s \in Stages, UnpendCommitted(s) PROVE BackupInv'
    BY <1>27 DEF UnpendCommitted
  <1>28. ASSUME NEW s \in Stages, Sweep(s) PROVE BackupInv'
    BY <1>28 DEF Sweep, Exit
  <1>29. ASSUME NEW s \in Stages, MarkRolledBack(s) PROVE BackupInv'
    BY <1>29 DEF MarkRolledBack
  <1>30. ASSUME NEW s \in Stages, UnpendRolledBack(s) PROVE BackupInv'
    BY <1>30 DEF UnpendRolledBack
  <1>31. ASSUME NEW s \in Stages, RollbackThrows(s) PROVE BackupInv'
    BY <1>31 DEF RollbackThrows, Report
  <1>32. ASSUME NEW s \in Stages, RestartOld(s) PROVE BackupInv'
    <2>1. Exit(s) \/ Report(s)
      BY <1>32 DEF RestartOld
    <2>2. UNCHANGED fileVars
      BY <1>32 DEF RestartOld
    <2>3. /\ \A t \in Stages \ {s} : helper'[t] = helper[t] /\ todo'[t] = todo[t]
          /\ helper'[s] \in {"idle", "report"}
      BY <2>1 DEF Exit, Report
    <2> QED
      BY <2>2, <2>3
  <1>33. ASSUME NEW s \in Stages, HelperCrash(s) PROVE BackupInv'
    BY <1>33 DEF HelperCrash, Exit
  <1>49. ASSUME NEW s \in Stages, RestartThrows(s) PROVE BackupInv'
    BY <1>49 DEF RestartThrows, RestartOrReport, Report
  <1>50. ASSUME NEW s \in Stages, Dismiss(s) PROVE BackupInv'
    BY <1>50 DEF Dismiss, Exit
  <1>34. ASSUME NEW l \in Launchers, UserStartsLauncher(l) PROVE BackupInv'
    BY <1>34 DEF UserStartsLauncher
  <1>35. ASSUME NEW l \in Launchers, LookForPending(l) PROVE BackupInv'
    BY <1>35 DEF LookForPending
  <1>36. ASSUME NEW l \in Launchers, RecoveryLock(l) PROVE BackupInv'
    BY <1>36 DEF RecoveryLock
  <1>37. ASSUME NEW l \in Launchers, RecoveryFinished(l) PROVE BackupInv'
    BY <1>37 DEF RecoveryFinished
  <1>38. ASSUME NEW l \in Launchers, RecoveryLaunchesHelper(l) PROVE BackupInv'
    BY <1>38 DEF RecoveryLaunchesHelper
  <1>39. ASSUME NEW l \in Launchers, RecoveryThrows(l) PROVE BackupInv'
    BY <1>39 DEF RecoveryThrows
  <1>40. ASSUME NEW l \in Launchers, NEW s \in Stages, CleanupStage(l, s) PROVE BackupInv'
    BY <1>40 DEF CleanupStage
  <1>41. ASSUME NEW l \in Launchers, NEW s \in Stages, LaunchUpdate(l, s) PROVE BackupInv'
    BY <1>41 DEF LaunchUpdate
  <1>42. ASSUME NEW l \in Launchers, CleanupDone(l) PROVE BackupInv'
    BY <1>42 DEF CleanupDone
  <1>43. ASSUME NEW l \in Launchers, FirstFrame(l) PROVE BackupInv'
    BY <1>43 DEF FirstFrame
  <1>44. ASSUME NEW l \in Launchers, LaunchGame(l) PROVE BackupInv'
    BY <1>44 DEF LaunchGame, LauncherEnds
  <1>45. ASSUME NEW l \in Launchers, LauncherExits(l) PROVE BackupInv'
    BY <1>45 DEF LauncherExits, LauncherEnds
  <1>46. ASSUME GameToggles PROVE BackupInv'
    BY <1>46 DEF GameToggles
  <1>47. ASSUME PowerLoss PROVE BackupInv'
    BY <1>47 DEF PowerLoss
  <1>48. CASE UNCHANGED vars
    BY <1>48 DEF vars
  <1> QED
    BY <1>1, <1>2, <1>3, <1>4, <1>5, <1>7, <1>8, <1>9, <1>10, <1>11, <1>12, <1>13, <1>14, <1>15, <1>16, <1>17, <1>18, <1>19, <1>20, <1>21, <1>22, <1>23, <1>24, <1>25, <1>26, <1>27, <1>28, <1>29, <1>30, <1>31, <1>32, <1>33, <1>34, <1>35, <1>36, <1>37, <1>38, <1>39, <1>40, <1>41, <1>42, <1>43, <1>44, <1>45, <1>46, <1>47, <1>48, <1>49, <1>50 DEF Next, HelperStep, LauncherStep

\* The disk's relation to the journal reads nothing else than these variables.
LEMMA DiskFrame ==
  ASSUME DiskInv, UNCHANGED <<disk, pending, phase, existed, backup, helper, todo>>
  PROVE  DiskInv'
  BY DEF DiskInv, DiskAt, Uncommitted, Managed, Restored, Target

\* The files on disk are as far as the loop of the one active helper has come.
LEMMA DiskStep == IInv /\ [Next]_vars => DiskInv'
  <1> SUFFICES ASSUME IInv, [Next]_vars PROVE DiskInv'
    OBVIOUS
  <1> USE ManifestAssumption, LockHolders DEF IInv, TypeOK, LockInv, PendingInv, PhaseInv, BackupInv, DiskInv, DiskAt, Critical, InTransaction, HelperPCs, fileVars, helperVars, Go, Uncommitted, Final, Managed, Restored, Target
  <1>1. ASSUME NEW s \in Stages, ParentExited(s) PROVE DiskInv'
    BY <1>1 DEF ParentExited
  <1>2. ASSUME NEW s \in Stages, ParentTimeout(s) PROVE DiskInv'
    BY <1>2 DEF ParentTimeout, Report
  <1>3. ASSUME NEW s \in Stages, LockInstallation(s) PROVE DiskInv'
    BY <1>3 DEF LockInstallation
  <1>4. ASSUME NEW s \in Stages, LockRefused(s) PROVE DiskInv'
    BY <1>4 DEF LockRefused, Report
  <1>5. ASSUME NEW s \in Stages, InspectRecovery(s) PROVE DiskInv'
    BY <1>5 DEF InspectRecovery, Loop
  <1>7. ASSUME NEW s \in Stages, InspectNew(s) PROVE DiskInv'
    BY <1>7 DEF InspectNew
  <1>8. ASSUME NEW s \in Stages, CheckInstall(s) PROVE DiskInv'
    BY <1>8 DEF CheckInstall, Loop
  <1>9. ASSUME NEW s \in Stages, InstallRefused(s) PROVE DiskInv'
    BY <1>9 DEF InstallRefused, RestartOrReport, Report
  <1>10. ASSUME NEW s \in Stages, NEW f \in Files, BackupFile(s, f) PROVE DiskInv'
    BY <1>10 DEF BackupFile, Loop
  <1>11. ASSUME NEW s \in Stages, NEW f \in Files, ReplaceFile(s, f) PROVE DiskInv'
    <2>1. /\ helper[s] = "replace" /\ pending = s /\ Uncommitted(s)
          /\ f \in Payload[s]
          /\ UNCHANGED <<pending, phase, existed, backup, helper>>
          /\ todo' = [todo EXCEPT ![s] = todo[s] \ {f}]
      BY <1>11 DEF ReplaceFile, Loop
    <2>2. \A t \in Stages \ {s} : helper[t] \in {"idle", "waitParent", "acquire", "report"}
      BY <2>1, LoneHelper
    <2>3. disk' = [disk EXCEPT ![f] = s]
      BY <1>11 DEF ReplaceFile
    <2>4. /\ todo'[s] \subseteq Payload[s]
          /\ \A g \in Payload[s] \ todo'[s] : disk'[g] = s
      BY <2>1, <2>3
    <2>5. \A g \in Managed(s) : disk'[g] \in {Restored(s, g)', Target(s, g)}
      BY <2>1, <2>3
    <2>6. DiskAt(s)'
      BY <2>1, <2>4, <2>5
    <2>7. ASSUME NEW t \in Stages \ {s} PROVE DiskAt(t)'
      BY <2>1, <2>2
    <2> QED
      BY <2>6, <2>7
  <1>12. ASSUME NEW s \in Stages, NEW f \in Files, RemoveFile(s, f) PROVE DiskInv'
    <2>1. /\ helper[s] = "remove" /\ pending = s /\ Uncommitted(s)
          /\ f \in Removed[s] /\ f \notin Payload[s]
          /\ UNCHANGED <<pending, phase, existed, backup, helper>>
          /\ todo' = [todo EXCEPT ![s] = todo[s] \ {f}]
      BY <1>12 DEF RemoveFile, Loop
    <2>2. \A t \in Stages \ {s} : helper[t] \in {"idle", "waitParent", "acquire", "report"}
      BY <2>1, LoneHelper
    <2>3. disk' = [disk EXCEPT ![f] = Absent]
      BY <1>12 DEF RemoveFile
    <2>4. /\ todo'[s] \subseteq Removed[s]
          /\ \A g \in Payload[s] : disk'[g] = s
          /\ \A g \in Removed[s] \ todo'[s] : disk'[g] = Absent
      BY <2>1, <2>3
    <2>5. \A g \in Managed(s) : disk'[g] \in {Restored(s, g)', Target(s, g)}
      BY <2>1, <2>3
    <2>6. DiskAt(s)'
      BY <2>1, <2>4, <2>5
    <2>7. ASSUME NEW t \in Stages \ {s} PROVE DiskAt(t)'
      BY <2>1, <2>2
    <2> QED
      BY <2>6, <2>7
  <1>13. ASSUME NEW s \in Stages, NEW f \in Files, RollbackFile(s, f) PROVE DiskInv'
    <2>1. /\ helper[s] = "rollback" /\ pending = s /\ Uncommitted(s)
          /\ f \in Managed(s)
          /\ UNCHANGED <<pending, phase, existed, backup, helper>>
          /\ todo' = [todo EXCEPT ![s] = todo[s] \ {f}]
      BY <1>13 DEF RollbackFile, Loop
    <2>2. \A t \in Stages \ {s} : helper[t] \in {"idle", "waitParent", "acquire", "report"}
      BY <2>1, LoneHelper
    <2>3. disk' = [disk EXCEPT ![f] = Restored(s, f)]
      BY <1>13 DEF RollbackFile
    <2>4. /\ todo'[s] \subseteq Managed(s)
          /\ \A g \in Managed(s) \ todo'[s] : disk'[g] = Restored(s, g)'
      BY <2>1, <2>3
    <2>5. \A g \in Managed(s) : disk'[g] \in {Restored(s, g)', Target(s, g)}
      BY <2>1, <2>3
    <2>6. DiskAt(s)'
      BY <2>1, <2>4, <2>5
    <2>7. ASSUME NEW t \in Stages \ {s} PROVE DiskAt(t)'
      BY <2>1, <2>2
    <2> QED
      BY <2>6, <2>7
  <1>14. ASSUME NEW s \in Stages, BackupDone(s) PROVE DiskInv'
    BY <1>14 DEF BackupDone
  <1>15. ASSUME NEW s \in Stages, WriteJournal(s) PROVE DiskInv'
    BY <1>15 DEF WriteJournal
  <1>16. ASSUME NEW s \in Stages, WritePending(s) PROVE DiskInv'
    BY <1>16 DEF WritePending, Loop
  <1>17. ASSUME NEW s \in Stages, ReplaceDone(s) PROVE DiskInv'
    BY <1>17 DEF ReplaceDone, Loop
  <1>18. ASSUME NEW s \in Stages, RemoveDone(s) PROVE DiskInv'
    BY <1>18 DEF RemoveDone
  <1>19. ASSUME NEW s \in Stages, MarkInstalled(s) PROVE DiskInv'
    BY <1>19 DEF MarkInstalled
  <1>20. ASSUME NEW s \in Stages, InstallThrows(s) PROVE DiskInv'
    BY <1>20 DEF InstallThrows, Loop
  <1>21. ASSUME NEW s \in Stages, NEW l \in Launchers, StartChild(s, l) PROVE DiskInv'
    BY <1>21 DEF StartChild
  <1>22. ASSUME NEW s \in Stages, ChildReady(s) PROVE DiskInv'
    BY <1>22 DEF ChildReady
  <1>23. ASSUME NEW s \in Stages, ChildNotReady(s) PROVE DiskInv'
    BY <1>23 DEF ChildNotReady
  <1>24. ASSUME NEW s \in Stages, KillChild(s) PROVE DiskInv'
    BY <1>24 DEF KillChild, LauncherEnds, Loop
  <1>25. ASSUME NEW s \in Stages, Commit(s) PROVE DiskInv'
    BY <1>25 DEF Commit
  <1>26. ASSUME NEW s \in Stages, CommitThrows(s) PROVE DiskInv'
    BY <1>26 DEF CommitThrows, Report
  <1>27. ASSUME NEW s \in Stages, UnpendCommitted(s) PROVE DiskInv'
    <2>1. NoStage \notin Stages
      BY DistinctAssumption
    <2> QED
      BY <1>27, <2>1 DEF UnpendCommitted
  <1>28. ASSUME NEW s \in Stages, Sweep(s) PROVE DiskInv'
    <2>1. /\ phase[s] \in {"committed", "none"} /\ phase' = phase
          /\ UNCHANGED <<disk, pending, existed>>
          /\ helper' = [helper EXCEPT ![s] = "idle"] /\ todo' = [todo EXCEPT ![s] = {}]
      BY <1>28 DEF Sweep, Exit
    <2>2. \A t \in Stages \ {s} : backup'[t] = backup[t] /\ helper'[t] \notin Critical
      <3>1. \A t \in Stages \ {s} : helper[t] \notin Critical
        BY <1>28, LoneHelper DEF Sweep
      <3>2. \/ backup' = backup
            \/ backup' = [backup EXCEPT ![s] = [f \in Files |-> Absent]]
        BY <1>28, Zenon DEF Sweep
      <3> QED
        BY <2>1, <3>1, <3>2
    <2> QED
      BY <2>1, <2>2
  <1>29. ASSUME NEW s \in Stages, MarkRolledBack(s) PROVE DiskInv'
    BY <1>29 DEF MarkRolledBack
  <1>30. ASSUME NEW s \in Stages, UnpendRolledBack(s) PROVE DiskInv'
    <2>1. NoStage \notin Stages
      BY DistinctAssumption
    <2> QED
      BY <1>30, <2>1 DEF UnpendRolledBack
  <1>31. ASSUME NEW s \in Stages, RollbackThrows(s) PROVE DiskInv'
    BY <1>31 DEF RollbackThrows, Report
  <1>32. ASSUME NEW s \in Stages, RestartOld(s) PROVE DiskInv'
    BY <1>32 DEF RestartOld, Exit, Report
  <1>33. ASSUME NEW s \in Stages, HelperCrash(s) PROVE DiskInv'
    BY <1>33 DEF HelperCrash, Exit
  <1>49. ASSUME NEW s \in Stages, RestartThrows(s) PROVE DiskInv'
    BY <1>49 DEF RestartThrows, RestartOrReport, Report
  <1>50. ASSUME NEW s \in Stages, Dismiss(s) PROVE DiskInv'
    BY <1>50 DEF Dismiss, Exit
  <1>34. ASSUME NEW l \in Launchers, UserStartsLauncher(l) PROVE DiskInv'
    BY <1>34, DiskFrame DEF UserStartsLauncher
  <1>35. ASSUME NEW l \in Launchers, LookForPending(l) PROVE DiskInv'
    BY <1>35, DiskFrame DEF LookForPending
  <1>36. ASSUME NEW l \in Launchers, RecoveryLock(l) PROVE DiskInv'
    BY <1>36, DiskFrame DEF RecoveryLock
  <1>37. ASSUME NEW l \in Launchers, RecoveryFinished(l) PROVE DiskInv'
    <2>1. NoStage \notin Stages
      BY DistinctAssumption
    <2> QED
      BY <1>37, <2>1 DEF RecoveryFinished
  <1>38. ASSUME NEW l \in Launchers, RecoveryLaunchesHelper(l) PROVE DiskInv'
    BY <1>38 DEF RecoveryLaunchesHelper
  <1>39. ASSUME NEW l \in Launchers, RecoveryThrows(l) PROVE DiskInv'
    BY <1>39, DiskFrame DEF RecoveryThrows
  <1>40. ASSUME NEW l \in Launchers, NEW s \in Stages, CleanupStage(l, s) PROVE DiskInv'
    <2> SUFFICES ASSUME NEW q \in Stages PROVE DiskAt(q)'
      BY DEF DiskInv
    <2>1. UNCHANGED <<disk, pending, existed, helper, todo>>
      BY <1>40 DEF CleanupStage
    <2>2. CASE q = s
      <3>1. ~Uncommitted(s) /\ ~Uncommitted(s)'
        BY <1>40 DEF CleanupStage
      <3>2. helper[s] \notin {"pend", "rollback"}
        BY <1>40 DEF CleanupStage
      <3> QED
        BY <2>1, <2>2, <3>1, <3>2
    <2>3. CASE q # s
      <3>1. phase'[q] = phase[q] /\ backup'[q] = backup[q]
        BY <1>40, <2>3 DEF CleanupStage
      <3> QED
        BY <2>1, <3>1
    <2> QED
      BY <2>2, <2>3
  <1>41. ASSUME NEW l \in Launchers, NEW s \in Stages, LaunchUpdate(l, s) PROVE DiskInv'
    BY <1>41 DEF LaunchUpdate
  <1>42. ASSUME NEW l \in Launchers, CleanupDone(l) PROVE DiskInv'
    BY <1>42, DiskFrame DEF CleanupDone
  <1>43. ASSUME NEW l \in Launchers, FirstFrame(l) PROVE DiskInv'
    BY <1>43, DiskFrame DEF FirstFrame
  <1>44. ASSUME NEW l \in Launchers, LaunchGame(l) PROVE DiskInv'
    BY <1>44, DiskFrame DEF LaunchGame, LauncherEnds
  <1>45. ASSUME NEW l \in Launchers, LauncherExits(l) PROVE DiskInv'
    BY <1>45 DEF LauncherExits, LauncherEnds
  <1>46. ASSUME GameToggles PROVE DiskInv'
    BY <1>46 DEF GameToggles
  <1>47. ASSUME PowerLoss PROVE DiskInv'
    BY <1>47 DEF PowerLoss
  <1>48. CASE UNCHANGED vars
    BY <1>48 DEF vars
  <1> QED
    BY ZenonT(60), <1>1, <1>2, <1>3, <1>4, <1>5, <1>7, <1>8, <1>9, <1>10, <1>11, <1>12, <1>13, <1>14, <1>15, <1>16, <1>17, <1>18, <1>19, <1>20, <1>21, <1>22, <1>23, <1>24, <1>25, <1>26, <1>27, <1>28, <1>29, <1>30, <1>31, <1>32, <1>33, <1>34, <1>35, <1>36, <1>37, <1>38, <1>39, <1>40, <1>41, <1>42, <1>43, <1>44, <1>45, <1>46, <1>47, <1>48, <1>49, <1>50 DEF Next, HelperStep, LauncherStep

\* A helper about to commit has seen its child's ready event, and only a new
\* child, an exit or a power loss resets the event.
LEMMA ReadyStep == IInv /\ [Next]_vars => ReadyInv'
  <1> SUFFICES ASSUME IInv, [Next]_vars PROVE ReadyInv'
    OBVIOUS
  <1> USE DEF IInv, TypeOK, ReadyInv, HelperPCs, fileVars, helperVars, Go
  <1>1. ASSUME NEW s \in Stages, ParentExited(s) PROVE ReadyInv'
    BY <1>1 DEF ParentExited
  <1>2. ASSUME NEW s \in Stages, ParentTimeout(s) PROVE ReadyInv'
    BY <1>2 DEF ParentTimeout, Report
  <1>3. ASSUME NEW s \in Stages, LockInstallation(s) PROVE ReadyInv'
    BY <1>3 DEF LockInstallation
  <1>4. ASSUME NEW s \in Stages, LockRefused(s) PROVE ReadyInv'
    BY <1>4 DEF LockRefused, Report
  <1>5. ASSUME NEW s \in Stages, InspectRecovery(s) PROVE ReadyInv'
    BY <1>5 DEF InspectRecovery
  <1>7. ASSUME NEW s \in Stages, InspectNew(s) PROVE ReadyInv'
    BY <1>7 DEF InspectNew
  <1>8. ASSUME NEW s \in Stages, CheckInstall(s) PROVE ReadyInv'
    BY <1>8 DEF CheckInstall
  <1>9. ASSUME NEW s \in Stages, InstallRefused(s) PROVE ReadyInv'
    BY <1>9 DEF InstallRefused, RestartOrReport, Report
  <1>10. ASSUME NEW s \in Stages, NEW f \in Files, BackupFile(s, f) PROVE ReadyInv'
    BY <1>10 DEF BackupFile
  <1>11. ASSUME NEW s \in Stages, NEW f \in Files, ReplaceFile(s, f) PROVE ReadyInv'
    BY <1>11 DEF ReplaceFile
  <1>12. ASSUME NEW s \in Stages, NEW f \in Files, RemoveFile(s, f) PROVE ReadyInv'
    BY <1>12 DEF RemoveFile
  <1>13. ASSUME NEW s \in Stages, NEW f \in Files, RollbackFile(s, f) PROVE ReadyInv'
    BY <1>13 DEF RollbackFile
  <1>14. ASSUME NEW s \in Stages, BackupDone(s) PROVE ReadyInv'
    BY <1>14 DEF BackupDone
  <1>15. ASSUME NEW s \in Stages, WriteJournal(s) PROVE ReadyInv'
    BY <1>15 DEF WriteJournal
  <1>16. ASSUME NEW s \in Stages, WritePending(s) PROVE ReadyInv'
    BY <1>16 DEF WritePending
  <1>17. ASSUME NEW s \in Stages, ReplaceDone(s) PROVE ReadyInv'
    BY <1>17 DEF ReplaceDone
  <1>18. ASSUME NEW s \in Stages, RemoveDone(s) PROVE ReadyInv'
    BY <1>18 DEF RemoveDone
  <1>19. ASSUME NEW s \in Stages, MarkInstalled(s) PROVE ReadyInv'
    BY <1>19 DEF MarkInstalled
  <1>20. ASSUME NEW s \in Stages, InstallThrows(s) PROVE ReadyInv'
    BY <1>20 DEF InstallThrows
  <1>21. ASSUME NEW s \in Stages, NEW l \in Launchers, StartChild(s, l) PROVE ReadyInv'
    BY <1>21 DEF StartChild
  <1>22. ASSUME NEW s \in Stages, ChildReady(s) PROVE ReadyInv'
    BY <1>22 DEF ChildReady
  <1>23. ASSUME NEW s \in Stages, ChildNotReady(s) PROVE ReadyInv'
    BY <1>23 DEF ChildNotReady
  <1>24. ASSUME NEW s \in Stages, KillChild(s) PROVE ReadyInv'
    BY <1>24 DEF KillChild
  <1>25. ASSUME NEW s \in Stages, Commit(s) PROVE ReadyInv'
    BY <1>25 DEF Commit
  <1>26. ASSUME NEW s \in Stages, CommitThrows(s) PROVE ReadyInv'
    BY <1>26 DEF CommitThrows, Report
  <1>27. ASSUME NEW s \in Stages, UnpendCommitted(s) PROVE ReadyInv'
    BY <1>27 DEF UnpendCommitted
  <1>28. ASSUME NEW s \in Stages, Sweep(s) PROVE ReadyInv'
    BY <1>28 DEF Sweep, Exit
  <1>29. ASSUME NEW s \in Stages, MarkRolledBack(s) PROVE ReadyInv'
    BY <1>29 DEF MarkRolledBack
  <1>30. ASSUME NEW s \in Stages, UnpendRolledBack(s) PROVE ReadyInv'
    BY <1>30 DEF UnpendRolledBack
  <1>31. ASSUME NEW s \in Stages, RollbackThrows(s) PROVE ReadyInv'
    BY <1>31 DEF RollbackThrows, Report
  <1>32. ASSUME NEW s \in Stages, RestartOld(s) PROVE ReadyInv'
    BY <1>32 DEF RestartOld, Exit, Report
  <1>33. ASSUME NEW s \in Stages, HelperCrash(s) PROVE ReadyInv'
    BY <1>33 DEF HelperCrash, Exit
  <1>49. ASSUME NEW s \in Stages, RestartThrows(s) PROVE ReadyInv'
    BY <1>49 DEF RestartThrows, RestartOrReport, Report
  <1>50. ASSUME NEW s \in Stages, Dismiss(s) PROVE ReadyInv'
    BY <1>50 DEF Dismiss, Exit
  <1>34. ASSUME NEW l \in Launchers, UserStartsLauncher(l) PROVE ReadyInv'
    BY <1>34 DEF UserStartsLauncher
  <1>35. ASSUME NEW l \in Launchers, LookForPending(l) PROVE ReadyInv'
    BY <1>35 DEF LookForPending
  <1>36. ASSUME NEW l \in Launchers, RecoveryLock(l) PROVE ReadyInv'
    BY <1>36 DEF RecoveryLock
  <1>37. ASSUME NEW l \in Launchers, RecoveryFinished(l) PROVE ReadyInv'
    BY <1>37 DEF RecoveryFinished
  <1>38. ASSUME NEW l \in Launchers, RecoveryLaunchesHelper(l) PROVE ReadyInv'
    BY <1>38 DEF RecoveryLaunchesHelper
  <1>39. ASSUME NEW l \in Launchers, RecoveryThrows(l) PROVE ReadyInv'
    BY <1>39 DEF RecoveryThrows
  <1>40. ASSUME NEW l \in Launchers, NEW s \in Stages, CleanupStage(l, s) PROVE ReadyInv'
    BY <1>40 DEF CleanupStage
  <1>41. ASSUME NEW l \in Launchers, NEW s \in Stages, LaunchUpdate(l, s) PROVE ReadyInv'
    BY <1>41 DEF LaunchUpdate
  <1>42. ASSUME NEW l \in Launchers, CleanupDone(l) PROVE ReadyInv'
    BY <1>42 DEF CleanupDone
  <1>43. ASSUME NEW l \in Launchers, FirstFrame(l) PROVE ReadyInv'
    BY <1>43 DEF FirstFrame
  <1>44. ASSUME NEW l \in Launchers, LaunchGame(l) PROVE ReadyInv'
    BY <1>44 DEF LaunchGame
  <1>45. ASSUME NEW l \in Launchers, LauncherExits(l) PROVE ReadyInv'
    BY <1>45 DEF LauncherExits
  <1>46. ASSUME GameToggles PROVE ReadyInv'
    BY <1>46 DEF GameToggles
  <1>47. ASSUME PowerLoss PROVE ReadyInv'
    BY <1>47 DEF PowerLoss
  <1>48. CASE UNCHANGED vars
    BY <1>48 DEF vars
  <1> QED
    BY <1>1, <1>2, <1>3, <1>4, <1>5, <1>7, <1>8, <1>9, <1>10, <1>11, <1>12, <1>13, <1>14, <1>15, <1>16, <1>17, <1>18, <1>19, <1>20, <1>21, <1>22, <1>23, <1>24, <1>25, <1>26, <1>27, <1>28, <1>29, <1>30, <1>31, <1>32, <1>33, <1>34, <1>35, <1>36, <1>37, <1>38, <1>39, <1>40, <1>41, <1>42, <1>43, <1>44, <1>45, <1>46, <1>47, <1>48, <1>49, <1>50 DEF Next, HelperStep, LauncherStep

\* IInv is inductive, so it holds in every reachable state of any instance.
THEOREM Invariant == Spec => []IInv
  <1>1. ASSUME Init PROVE IInv
    <2>1. TypeOK
      BY <1>1, TypeInit
    <2>2. LockInv /\ PendingInv /\ PhaseInv /\ BackupInv /\ DiskInv /\ ReadyInv
      BY <1>1, DistinctAssumption DEF Init, LockInv, PendingInv, PhaseInv, BackupInv, DiskInv,
         ReadyInv, DiskAt, Critical, InTransaction, Uncommitted
    <2> QED
      BY <2>1, <2>2 DEF IInv
  <1>2. ASSUME IInv, [Next]_vars PROVE IInv'
    <2>1. TypeOK'
      BY <1>2, TypeStep DEF IInv
    <2>2. LockInv' /\ PendingInv' /\ PhaseInv' /\ BackupInv' /\ DiskInv' /\ ReadyInv'
      BY <1>2, LockStep, PendingStep, PhaseStep, BackupStep, DiskStep, ReadyStep
    <2> QED
      BY <2>1, <2>2 DEF IInv
  <1> QED
    BY <1>1, <1>2, PTL DEF Spec

\* Only the holder of install.lock is in a transaction, and pending.json names it.
THEOREM OnlyOneInstaller == Spec => []OneInstaller
  <1>1. ASSUME IInv PROVE OneInstaller
    BY <1>1 DEF IInv, TypeOK, LockInv, PendingInv, Critical, InTransaction, OneInstaller
  <1> QED
    BY <1>1, Invariant, PTL

\* A recovery started at any instant finds every backup it needs.
THEOREM AlwaysRecoverable == Spec => []Recoverable
  <1>1. ASSUME IInv PROVE Recoverable
    BY <1>1, DistinctAssumption
       DEF IInv, TypeOK, BackupInv, DiskInv, DiskAt, Recoverable, Target
  <1> QED
    BY <1>1, Invariant, PTL

-----------------------------------------------------------------------------
(* The installation implements AtomicUpdate under the mapping tree <- Tree. *)

TreeVars == <<disk, pending, phase, existed, backup>>

\* The tree depends on the files, the pointer, the journals and the backups.
LEMMA TreeFrame == ASSUME UNCHANGED TreeVars PROVE Tree' = Tree
  BY DEF TreeVars, Tree, Uncommitted, Managed, Restored

\* While nothing uncommitted is pending, the tree is what is on disk.
LEMMA TreeIsDisk ==
  ASSUME TypeOK, pending = NoStage \/ ~Uncommitted(pending)
  PROVE  Tree = disk
  BY DEF TypeOK, Tree

\* While s is pending and uncommitted, its managed files do not count.
LEMMA TreeMasksDisk ==
  ASSUME NEW s \in Stages, pending = s, pending' = s, Uncommitted(s), Uncommitted(s)',
         UNCHANGED <<existed, backup>>,
         \A f \in Files \ Managed(s) : disk'[f] = disk[f]
  PROVE  Tree' = Tree
  BY DistinctAssumption DEF Tree, Restored, Managed

\* remove_all of one task's directory leaves the others' backups alone.
LEMMA BackupOfOthers ==
  ASSUME TypeOK, NEW s \in Stages,
         backup' \in {backup, [backup EXCEPT ![s] = [f \in Files |-> Absent]]}
  PROVE  \A t \in Stages \ {s} : backup'[t] = backup[t]
  <1>1. backup' = backup \/ backup' = [backup EXCEPT ![s] = [f \in Files |-> Absent]]
    BY Zenon
  <1> QED
    BY <1>1 DEF TypeOK

\* Every step leaves the tree alone, except the write of "committed", which
\* applies the pending update.
LEMMA TreeStep ==
  ASSUME IInv, IInv', [Next]_vars
  PROVE  Tree' = Tree \/ \E s \in Stages : Tree' = Atomic!Apply(s, Tree)
  <1> USE DEF IInv, fileVars, helperVars
  <1> DEFINE Goal == Tree' = Tree \/ \E s \in Stages : Tree' = Atomic!Apply(s, Tree)
  <1>1. ASSUME NEW s \in Stages, ParentExited(s) PROVE Goal
    BY <1>1, TreeFrame DEF TreeVars, ParentExited
  <1>2. ASSUME NEW s \in Stages, ParentTimeout(s) PROVE Goal
    BY <1>2, TreeFrame DEF TreeVars, ParentTimeout
  <1>3. ASSUME NEW s \in Stages, LockInstallation(s) PROVE Goal
    BY <1>3, TreeFrame DEF TreeVars, LockInstallation
  <1>4. ASSUME NEW s \in Stages, LockRefused(s) PROVE Goal
    BY <1>4, TreeFrame DEF TreeVars, LockRefused
  <1>5. ASSUME NEW s \in Stages, InspectRecovery(s) PROVE Goal
    BY <1>5, TreeFrame DEF TreeVars, InspectRecovery, Loop
  <1>7. ASSUME NEW s \in Stages, InspectNew(s) PROVE Goal
    BY <1>7, TreeFrame DEF TreeVars, InspectNew
  <1>8. ASSUME NEW s \in Stages, CheckInstall(s) PROVE Goal
    BY <1>8, TreeFrame DEF TreeVars, CheckInstall
  <1>9. ASSUME NEW s \in Stages, InstallRefused(s) PROVE Goal
    BY <1>9, TreeFrame DEF TreeVars, InstallRefused
  <1>10. ASSUME NEW s \in Stages, NEW f \in Files, BackupFile(s, f) PROVE Goal
    <2>1. pending = NoStage /\ pending' = NoStage /\ disk' = disk
      BY <1>10 DEF BackupFile, PendingInv
    <2> QED
      BY <2>1, TreeIsDisk DEF Tree
  <1>11. ASSUME NEW s \in Stages, NEW f \in Files, ReplaceFile(s, f) PROVE Goal
    <2>1. /\ pending = s /\ pending' = s /\ Uncommitted(s) /\ Uncommitted(s)'
          /\ UNCHANGED <<existed, backup>>
          /\ f \in Managed(s)
      BY <1>11, ManifestAssumption
         DEF ReplaceFile, PendingInv, InTransaction, PhaseInv, DiskInv, DiskAt, Uncommitted, Managed
    <2>2. \A g \in Files \ Managed(s) : disk'[g] = disk[g]
      BY <1>11, <2>1 DEF ReplaceFile, TypeOK
    <2> QED
      BY <2>1, <2>2, TreeMasksDisk
  <1>12. ASSUME NEW s \in Stages, NEW f \in Files, RemoveFile(s, f) PROVE Goal
    <2>1. /\ pending = s /\ pending' = s /\ Uncommitted(s) /\ Uncommitted(s)'
          /\ UNCHANGED <<existed, backup>>
          /\ f \in Managed(s)
      BY <1>12, ManifestAssumption
         DEF RemoveFile, PendingInv, InTransaction, PhaseInv, DiskInv, DiskAt, Uncommitted, Managed
    <2>2. \A g \in Files \ Managed(s) : disk'[g] = disk[g]
      BY <1>12, <2>1 DEF RemoveFile, TypeOK
    <2> QED
      BY <2>1, <2>2, TreeMasksDisk
  <1>13. ASSUME NEW s \in Stages, NEW f \in Files, RollbackFile(s, f) PROVE Goal
    <2>1. /\ pending = s /\ pending' = s /\ Uncommitted(s) /\ Uncommitted(s)'
          /\ UNCHANGED <<existed, backup>>
          /\ f \in Managed(s)
      BY <1>13, ManifestAssumption
         DEF RollbackFile, PendingInv, InTransaction, PhaseInv, DiskInv, DiskAt, Uncommitted, Managed
    <2>2. \A g \in Files \ Managed(s) : disk'[g] = disk[g]
      BY <1>13, <2>1 DEF RollbackFile, TypeOK
    <2> QED
      BY <2>1, <2>2, TreeMasksDisk
  <1>14. ASSUME NEW s \in Stages, BackupDone(s) PROVE Goal
    BY <1>14, TreeFrame DEF TreeVars, BackupDone
  <1>15. ASSUME NEW s \in Stages, WriteJournal(s) PROVE Goal
    <2>1. pending = NoStage /\ pending' = NoStage /\ disk' = disk
      BY <1>15 DEF WriteJournal, PendingInv, Go
    <2> QED
      BY <2>1, TreeIsDisk DEF Tree
  <1>16. ASSUME NEW s \in Stages, WritePending(s) PROVE Goal
    <2>1. /\ pending = NoStage /\ pending' = s /\ phase[s] = "installing"
          /\ UNCHANGED <<disk, phase, existed, backup>>
          /\ \A f \in Managed(s) : disk[f] = Restored(s, f)
      BY <1>16 DEF WritePending, PendingInv, PhaseInv, DiskInv, DiskAt, Go
    <2>2. Tree = disk
      BY <2>1, TreeIsDisk
    <2>3. Tree' = disk
      BY <2>1, DistinctAssumption DEF Tree, Uncommitted, Managed, Restored, TypeOK
    <2> QED
      BY <2>2, <2>3
  <1>17. ASSUME NEW s \in Stages, ReplaceDone(s) PROVE Goal
    BY <1>17, TreeFrame DEF TreeVars, ReplaceDone
  <1>18. ASSUME NEW s \in Stages, RemoveDone(s) PROVE Goal
    BY <1>18, TreeFrame DEF TreeVars, RemoveDone
  <1>19. ASSUME NEW s \in Stages, MarkInstalled(s) PROVE Goal
    <2>1. /\ pending = s /\ pending' = s /\ Uncommitted(s) /\ Uncommitted(s)'
          /\ UNCHANGED <<disk, existed, backup>>
      BY <1>19 DEF MarkInstalled, PendingInv, InTransaction, PhaseInv, Uncommitted, Go, TypeOK
    <2> QED
      BY <2>1, TreeMasksDisk
  <1>20. ASSUME NEW s \in Stages, InstallThrows(s) PROVE Goal
    BY <1>20, TreeFrame DEF TreeVars, InstallThrows
  <1>21. ASSUME NEW s \in Stages, NEW l \in Launchers, StartChild(s, l) PROVE Goal
    BY <1>21, TreeFrame DEF TreeVars, StartChild
  <1>22. ASSUME NEW s \in Stages, ChildReady(s) PROVE Goal
    BY <1>22, TreeFrame DEF TreeVars, ChildReady
  <1>23. ASSUME NEW s \in Stages, ChildNotReady(s) PROVE Goal
    BY <1>23, TreeFrame DEF TreeVars, ChildNotReady
  <1>24. ASSUME NEW s \in Stages, KillChild(s) PROVE Goal
    BY <1>24, TreeFrame DEF TreeVars, KillChild
  <1>25. ASSUME NEW s \in Stages, Commit(s) PROVE Goal
    <2>1. /\ pending = s /\ pending' = s /\ Uncommitted(s) /\ phase'[s] = "committed"
          /\ disk' = disk
          /\ \A f \in Managed(s) : disk[f] = Target(s, f)
      BY <1>25 DEF Commit, PendingInv, InTransaction, PhaseInv, DiskInv, DiskAt, Uncommitted,
         Go, TypeOK
    <2>2. Tree' = disk
      BY <2>1 DEF Tree, Uncommitted, TypeOK
    <2>3. \A f \in Files \ Managed(s) : Tree[f] = disk[f]
      BY <2>1 DEF Tree
    <2>4. Tree' = Atomic!Apply(s, Tree)
      BY <2>1, <2>2, <2>3, ManifestAssumption DEF Atomic!Apply, Target, Managed, TypeOK
    <2> QED
      BY <2>4
  <1>26. ASSUME NEW s \in Stages, CommitThrows(s) PROVE Goal
    BY <1>26, TreeFrame DEF TreeVars, CommitThrows
  <1>27. ASSUME NEW s \in Stages, UnpendCommitted(s) PROVE Goal
    <2>1. /\ ~Uncommitted(s) /\ pending = s /\ pending' \in {s, NoStage}
          /\ UNCHANGED <<disk, phase>>
      BY <1>27 DEF UnpendCommitted, PendingInv, InTransaction, PhaseInv, Uncommitted, Go
    <2> QED
      BY <2>1, TreeIsDisk DEF Tree, Uncommitted, TypeOK
  <1>28. ASSUME NEW s \in Stages, Sweep(s) PROVE Goal
    <2>1. ~Uncommitted(s) /\ UNCHANGED <<disk, pending, phase, existed>>
      BY <1>28 DEF Sweep, PhaseInv, Uncommitted
    <2>2. \A t \in Stages \ {s} : backup'[t] = backup[t]
      BY <1>28, BackupOfOthers DEF Sweep
    <2> QED
      BY <2>1, <2>2 DEF Tree, Uncommitted, Managed, Restored, TypeOK
  <1>29. ASSUME NEW s \in Stages, MarkRolledBack(s) PROVE Goal
    <2>1. /\ pending = s /\ pending' = s /\ Uncommitted(s) /\ phase'[s] = "rolled_back"
          /\ disk' = disk
          /\ \A f \in Managed(s) : disk[f] = Restored(s, f)
      BY <1>29 DEF MarkRolledBack, PendingInv, InTransaction, PhaseInv, DiskInv, DiskAt,
         Uncommitted, Go, TypeOK
    <2>2. Tree' = disk
      BY <2>1 DEF Tree, Uncommitted, TypeOK
    <2>3. Tree = disk
      BY <2>1 DEF Tree, TypeOK
    <2> QED
      BY <2>2, <2>3
  <1>30. ASSUME NEW s \in Stages, UnpendRolledBack(s) PROVE Goal
    <2>1. ~Uncommitted(s) /\ pending = s /\ pending' = NoStage /\ disk' = disk
      BY <1>30 DEF UnpendRolledBack, PendingInv, InTransaction, PhaseInv, Uncommitted, Go
    <2> QED
      BY <2>1, TreeIsDisk DEF Tree, TypeOK
  <1>31. ASSUME NEW s \in Stages, RollbackThrows(s) PROVE Goal
    BY <1>31, TreeFrame DEF TreeVars, RollbackThrows
  <1>32. ASSUME NEW s \in Stages, RestartOld(s) PROVE Goal
    BY <1>32, TreeFrame DEF TreeVars, RestartOld
  <1>33. ASSUME NEW s \in Stages, HelperCrash(s) PROVE Goal
    BY <1>33, TreeFrame DEF TreeVars, HelperCrash
  <1>49. ASSUME NEW s \in Stages, RestartThrows(s) PROVE Goal
    BY <1>49, TreeFrame DEF TreeVars, RestartThrows
  <1>50. ASSUME NEW s \in Stages, Dismiss(s) PROVE Goal
    BY <1>50, TreeFrame DEF TreeVars, Dismiss
  <1>34. ASSUME NEW l \in Launchers, UserStartsLauncher(l) PROVE Goal
    BY <1>34, TreeFrame DEF TreeVars, UserStartsLauncher
  <1>35. ASSUME NEW l \in Launchers, LookForPending(l) PROVE Goal
    BY <1>35, TreeFrame DEF TreeVars, LookForPending
  <1>36. ASSUME NEW l \in Launchers, RecoveryLock(l) PROVE Goal
    BY <1>36, TreeFrame DEF TreeVars, RecoveryLock
  <1>37. ASSUME NEW l \in Launchers, RecoveryFinished(l) PROVE Goal
    <2>1. ~Uncommitted(pending) /\ pending' = NoStage /\ disk' = disk
      BY <1>37 DEF RecoveryFinished, Final, Uncommitted
    <2> QED
      BY <2>1, TreeIsDisk DEF Tree, TypeOK
  <1>38. ASSUME NEW l \in Launchers, RecoveryLaunchesHelper(l) PROVE Goal
    BY <1>38, TreeFrame DEF TreeVars, RecoveryLaunchesHelper
  <1>39. ASSUME NEW l \in Launchers, RecoveryThrows(l) PROVE Goal
    BY <1>39, TreeFrame DEF TreeVars, RecoveryThrows
  <1>40. ASSUME NEW l \in Launchers, NEW s \in Stages, CleanupStage(l, s) PROVE Goal
    <2>1. ~Uncommitted(s) /\ UNCHANGED <<disk, pending, existed>>
      BY <1>40 DEF CleanupStage, Final, Uncommitted
    <2>2. phase' = phase \/ phase' = [phase EXCEPT ![s] = "none"]
      BY <1>40, Zenon DEF CleanupStage
    <2>3. ~Uncommitted(s)' /\ \A t \in Stages \ {s} : phase'[t] = phase[t]
      BY <2>1, <2>2 DEF Uncommitted, TypeOK
    <2>4. \A t \in Stages \ {s} : backup'[t] = backup[t]
      BY <1>40, BackupOfOthers DEF CleanupStage
    <2> QED
      BY <2>1, <2>3, <2>4 DEF Tree, Uncommitted, Managed, Restored, TypeOK
  <1>41. ASSUME NEW l \in Launchers, NEW s \in Stages, LaunchUpdate(l, s) PROVE Goal
    BY <1>41, TreeFrame DEF TreeVars, LaunchUpdate
  <1>42. ASSUME NEW l \in Launchers, CleanupDone(l) PROVE Goal
    BY <1>42, TreeFrame DEF TreeVars, CleanupDone
  <1>43. ASSUME NEW l \in Launchers, FirstFrame(l) PROVE Goal
    BY <1>43, TreeFrame DEF TreeVars, FirstFrame
  <1>44. ASSUME NEW l \in Launchers, LaunchGame(l) PROVE Goal
    BY <1>44, TreeFrame DEF TreeVars, LaunchGame
  <1>45. ASSUME NEW l \in Launchers, LauncherExits(l) PROVE Goal
    BY <1>45, TreeFrame DEF TreeVars, LauncherExits
  <1>46. ASSUME GameToggles PROVE Goal
    BY <1>46, TreeFrame DEF TreeVars, GameToggles
  <1>47. ASSUME PowerLoss PROVE Goal
    BY <1>47, TreeFrame DEF TreeVars, PowerLoss
  <1>48. CASE UNCHANGED vars
    BY <1>48, TreeFrame DEF TreeVars, vars
  <1> QED
    BY <1>1, <1>2, <1>3, <1>4, <1>5, <1>7, <1>8, <1>9, <1>10, <1>11, <1>12, <1>13, <1>14, <1>15, <1>16, <1>17, <1>18, <1>19, <1>20, <1>21, <1>22, <1>23, <1>24, <1>25, <1>26, <1>27, <1>28, <1>29, <1>30, <1>31, <1>32, <1>33, <1>34, <1>35, <1>36, <1>37, <1>38, <1>39, <1>40, <1>41, <1>42, <1>43, <1>44, <1>45, <1>46, <1>47, <1>48, <1>49, <1>50 DEF Next, HelperStep, LauncherStep

\* The installation changes only by whole updates, whatever crashes, races and
\* failures interrupt the processes: the detailed specification implements
\* AtomicUpdate.
THEOREM Refinement == Spec => WholeUpdates
  <1>1. ASSUME Init PROVE Atomic!Init
    BY <1>1, TypeInit, TreeIsDisk DEF Init, Atomic!Init
  <1>2. ASSUME IInv, IInv', [Next]_vars PROVE [Atomic!Next]_Tree
    BY <1>2, TreeStep DEF Atomic!Next
  <1> QED
    BY <1>1, <1>2, Invariant, PTL DEF Spec, WholeUpdates, Atomic!Spec

-----------------------------------------------------------------------------
(* Once committed, an update is never rolled back.                         *)

\* One step never takes a committed task back.
LEMMA CommittedStep ==
  ASSUME IInv, [Next]_vars
  PROVE  \A t \in Stages : phase[t] = "committed" => phase'[t] \in {"committed", "none"}
  <1> USE DEF IInv, TypeOK, fileVars, helperVars, Go
  <1> DEFINE Goal == \A t \in Stages : phase[t] = "committed" => phase'[t] \in {"committed", "none"}
  <1>1. ASSUME NEW s \in Stages, ParentExited(s) PROVE Goal
    BY <1>1 DEF ParentExited
  <1>2. ASSUME NEW s \in Stages, ParentTimeout(s) PROVE Goal
    BY <1>2 DEF ParentTimeout
  <1>3. ASSUME NEW s \in Stages, LockInstallation(s) PROVE Goal
    BY <1>3 DEF LockInstallation
  <1>4. ASSUME NEW s \in Stages, LockRefused(s) PROVE Goal
    BY <1>4 DEF LockRefused
  <1>5. ASSUME NEW s \in Stages, InspectRecovery(s) PROVE Goal
    BY <1>5 DEF InspectRecovery, Loop
  <1>7. ASSUME NEW s \in Stages, InspectNew(s) PROVE Goal
    BY <1>7 DEF InspectNew
  <1>8. ASSUME NEW s \in Stages, CheckInstall(s) PROVE Goal
    BY <1>8 DEF CheckInstall
  <1>9. ASSUME NEW s \in Stages, InstallRefused(s) PROVE Goal
    BY <1>9 DEF InstallRefused
  <1>10. ASSUME NEW s \in Stages, NEW f \in Files, BackupFile(s, f) PROVE Goal
    BY <1>10 DEF BackupFile
  <1>11. ASSUME NEW s \in Stages, NEW f \in Files, ReplaceFile(s, f) PROVE Goal
    BY <1>11 DEF ReplaceFile
  <1>12. ASSUME NEW s \in Stages, NEW f \in Files, RemoveFile(s, f) PROVE Goal
    BY <1>12 DEF RemoveFile
  <1>13. ASSUME NEW s \in Stages, NEW f \in Files, RollbackFile(s, f) PROVE Goal
    BY <1>13 DEF RollbackFile
  <1>14. ASSUME NEW s \in Stages, BackupDone(s) PROVE Goal
    BY <1>14 DEF BackupDone
  <1>15. ASSUME NEW s \in Stages, WriteJournal(s) PROVE Goal
    BY <1>15 DEF WriteJournal, PhaseInv, Uncommitted
  <1>16. ASSUME NEW s \in Stages, WritePending(s) PROVE Goal
    BY <1>16 DEF WritePending
  <1>17. ASSUME NEW s \in Stages, ReplaceDone(s) PROVE Goal
    BY <1>17 DEF ReplaceDone
  <1>18. ASSUME NEW s \in Stages, RemoveDone(s) PROVE Goal
    BY <1>18 DEF RemoveDone
  <1>19. ASSUME NEW s \in Stages, MarkInstalled(s) PROVE Goal
    BY <1>19 DEF MarkInstalled, PhaseInv, Uncommitted
  <1>20. ASSUME NEW s \in Stages, InstallThrows(s) PROVE Goal
    BY <1>20 DEF InstallThrows
  <1>21. ASSUME NEW s \in Stages, NEW l \in Launchers, StartChild(s, l) PROVE Goal
    BY <1>21 DEF StartChild
  <1>22. ASSUME NEW s \in Stages, ChildReady(s) PROVE Goal
    BY <1>22 DEF ChildReady
  <1>23. ASSUME NEW s \in Stages, ChildNotReady(s) PROVE Goal
    BY <1>23 DEF ChildNotReady
  <1>24. ASSUME NEW s \in Stages, KillChild(s) PROVE Goal
    BY <1>24 DEF KillChild
  <1>25. ASSUME NEW s \in Stages, Commit(s) PROVE Goal
    BY <1>25 DEF Commit, PhaseInv, Uncommitted
  <1>26. ASSUME NEW s \in Stages, CommitThrows(s) PROVE Goal
    BY <1>26 DEF CommitThrows
  <1>27. ASSUME NEW s \in Stages, UnpendCommitted(s) PROVE Goal
    BY <1>27 DEF UnpendCommitted
  <1>28. ASSUME NEW s \in Stages, Sweep(s) PROVE Goal
    BY <1>28 DEF Sweep
  <1>29. ASSUME NEW s \in Stages, MarkRolledBack(s) PROVE Goal
    BY <1>29 DEF MarkRolledBack, PhaseInv, Uncommitted
  <1>30. ASSUME NEW s \in Stages, UnpendRolledBack(s) PROVE Goal
    BY <1>30 DEF UnpendRolledBack
  <1>31. ASSUME NEW s \in Stages, RollbackThrows(s) PROVE Goal
    BY <1>31 DEF RollbackThrows
  <1>32. ASSUME NEW s \in Stages, RestartOld(s) PROVE Goal
    BY <1>32 DEF RestartOld
  <1>33. ASSUME NEW s \in Stages, HelperCrash(s) PROVE Goal
    BY <1>33 DEF HelperCrash
  <1>49. ASSUME NEW s \in Stages, RestartThrows(s) PROVE Goal
    BY <1>49 DEF RestartThrows
  <1>50. ASSUME NEW s \in Stages, Dismiss(s) PROVE Goal
    BY <1>50 DEF Dismiss
  <1>34. ASSUME NEW l \in Launchers, UserStartsLauncher(l) PROVE Goal
    BY <1>34 DEF UserStartsLauncher
  <1>35. ASSUME NEW l \in Launchers, LookForPending(l) PROVE Goal
    BY <1>35 DEF LookForPending
  <1>36. ASSUME NEW l \in Launchers, RecoveryLock(l) PROVE Goal
    BY <1>36 DEF RecoveryLock
  <1>37. ASSUME NEW l \in Launchers, RecoveryFinished(l) PROVE Goal
    BY <1>37 DEF RecoveryFinished
  <1>38. ASSUME NEW l \in Launchers, RecoveryLaunchesHelper(l) PROVE Goal
    BY <1>38 DEF RecoveryLaunchesHelper
  <1>39. ASSUME NEW l \in Launchers, RecoveryThrows(l) PROVE Goal
    BY <1>39 DEF RecoveryThrows
  <1>40. ASSUME NEW l \in Launchers, NEW s \in Stages, CleanupStage(l, s) PROVE Goal
    <2>1. phase' = phase \/ phase' = [phase EXCEPT ![s] = "none"]
      BY <1>40, Zenon DEF CleanupStage
    <2> QED
      BY <2>1
  <1>41. ASSUME NEW l \in Launchers, NEW s \in Stages, LaunchUpdate(l, s) PROVE Goal
    BY <1>41 DEF LaunchUpdate
  <1>42. ASSUME NEW l \in Launchers, CleanupDone(l) PROVE Goal
    BY <1>42 DEF CleanupDone
  <1>43. ASSUME NEW l \in Launchers, FirstFrame(l) PROVE Goal
    BY <1>43 DEF FirstFrame
  <1>44. ASSUME NEW l \in Launchers, LaunchGame(l) PROVE Goal
    BY <1>44 DEF LaunchGame
  <1>45. ASSUME NEW l \in Launchers, LauncherExits(l) PROVE Goal
    BY <1>45 DEF LauncherExits
  <1>46. ASSUME GameToggles PROVE Goal
    BY <1>46 DEF GameToggles
  <1>47. ASSUME PowerLoss PROVE Goal
    BY <1>47 DEF PowerLoss
  <1>48. CASE UNCHANGED vars
    BY <1>48 DEF vars
  <1> QED
    BY <1>1, <1>2, <1>3, <1>4, <1>5, <1>7, <1>8, <1>9, <1>10, <1>11, <1>12, <1>13, <1>14, <1>15, <1>16, <1>17, <1>18, <1>19, <1>20, <1>21, <1>22, <1>23, <1>24, <1>25, <1>26, <1>27, <1>28, <1>29, <1>30, <1>31, <1>32, <1>33, <1>34, <1>35, <1>36, <1>37, <1>38, <1>39, <1>40, <1>41, <1>42, <1>43, <1>44, <1>45, <1>46, <1>47, <1>48, <1>49, <1>50 DEF Next, HelperStep, LauncherStep

\* Neither the helper that committed an update nor a later recovery, by any
\* process, ever rolls it back.
THEOREM NoRollbackAfterCommit == Spec => CommittedIsFinal
  <1> DEFINE Stays == \A s \in Stages : phase[s] = "committed" =>
                phase'[s] \in {"committed", "none"} /\ helper'[s] # "rollback"
  <1>1. ASSUME IInv, IInv', [Next]_vars PROVE Stays
    BY <1>1, CommittedStep DEF IInv, PhaseInv, Uncommitted
  <1> QED
    BY <1>1, Invariant, PTL DEF Spec, CommittedIsFinal

\* Only the three loops of a helper write program files.
LEMMA DiskWriters ==
  ASSUME [Next]_vars, disk' # disk
  PROVE  \E s \in Stages, f \in Files : ReplaceFile(s, f) \/ RemoveFile(s, f) \/ RollbackFile(s, f)
  BY ZenonT(60) DEF Next, HelperStep, LauncherStep, vars, fileVars,
         ParentExited, ParentTimeout, LockInstallation, LockRefused, InspectRecovery,
         InspectNew, CheckInstall, InstallRefused, BackupFile, BackupDone, WriteJournal,
         WritePending, ReplaceDone, RemoveDone, MarkInstalled, InstallThrows,
         StartChild, ChildReady, ChildNotReady, KillChild, Commit, CommitThrows,
         UnpendCommitted, Sweep, MarkRolledBack, UnpendRolledBack, RollbackThrows,
         RestartOld, RestartThrows, Dismiss, HelperCrash, UserStartsLauncher, LookForPending, RecoveryLock,
         RecoveryFinished, RecoveryLaunchesHelper, RecoveryThrows, CleanupStage,
         LaunchUpdate, CleanupDone, FirstFrame, LaunchGame, LauncherExits, GameToggles,
         PowerLoss

\* The launcher is published last: its own replacement waits for the rest of
\* the payload, and the lock keeps every other helper's hands off.
THEOREM LauncherPublishedLast == Spec => LauncherLast
  <1> DEFINE Published == \A s \in Stages :
                disk[LauncherFile] # s /\ disk'[LauncherFile] = s /\ phase[s] = "installing"
                /\ helper[s] = "replace"
                => \A f \in Payload[s] : disk'[f] = s
  <1>1. ASSUME IInv, [Next]_vars PROVE Published
    <2> SUFFICES ASSUME NEW s \in Stages, helper[s] = "replace",
                        disk[LauncherFile] # s, disk'[LauncherFile] = s
                 PROVE  \A f \in Payload[s] : disk'[f] = s
      OBVIOUS
    <2>1. PICK t \in Stages, g \in Files :
            ReplaceFile(t, g) \/ RemoveFile(t, g) \/ RollbackFile(t, g)
      BY <1>1, DiskWriters
    <2>2. helper[t] \in {"replace", "remove", "rollback"}
      BY <2>1 DEF ReplaceFile, RemoveFile, RollbackFile
    <2>3. t = s
      BY <1>1, <2>2, LoneHelper DEF IInv, Critical, HelperPCs
    <2>4. ReplaceFile(s, g)
      BY <2>1, <2>3 DEF RemoveFile, RollbackFile
    <2>5. g = LauncherFile /\ todo[s] = {g}
      BY <1>1, <2>4 DEF ReplaceFile, IInv, TypeOK
    <2>6. \A f \in Payload[s] \ {LauncherFile} : disk[f] = s
      BY <1>1, <2>5 DEF IInv, DiskInv, DiskAt
    <2> QED
      BY <1>1, <2>4, <2>5, <2>6, ManifestAssumption DEF ReplaceFile, IInv, TypeOK
  <1> QED
    BY <1>1, Invariant, PTL DEF Spec, LauncherLast

\* The journal's writers.
LEMMA PhaseWriters ==
  ASSUME [Next]_vars, phase' # phase
  PROVE  \/ \E s \in Stages : WriteJournal(s) \/ MarkInstalled(s) \/ Commit(s) \/ MarkRolledBack(s)
         \/ \E l \in Launchers, s \in Stages : CleanupStage(l, s)
  <1>1. ASSUME NEW s \in Stages, HelperStep(s)
        PROVE  WriteJournal(s) \/ MarkInstalled(s) \/ Commit(s) \/ MarkRolledBack(s)
    BY <1>1
       DEF HelperStep, fileVars,
           ParentExited, ParentTimeout, LockInstallation, LockRefused, InspectRecovery,
           InspectNew, CheckInstall, InstallRefused, BackupFile, ReplaceFile,
           RemoveFile, RollbackFile, BackupDone, WritePending, ReplaceDone, RemoveDone,
           InstallThrows, StartChild, ChildReady, ChildNotReady, KillChild,
           CommitThrows, UnpendCommitted, Sweep, UnpendRolledBack, RollbackThrows,
           RestartOld, RestartThrows
  <1>2. ASSUME NEW l \in Launchers, LauncherStep(l)
        PROVE  \E s \in Stages : CleanupStage(l, s)
    BY <1>2
       DEF LauncherStep, fileVars,
           UserStartsLauncher, LookForPending, RecoveryLock, RecoveryFinished,
           RecoveryLaunchesHelper, RecoveryThrows, LaunchUpdate, CleanupDone,
           FirstFrame, LaunchGame, LauncherExits
  <1>3. ~(UNCHANGED vars \/ GameToggles \/ PowerLoss \/ \E s \in Stages : HelperCrash(s) \/ Dismiss(s))
    BY DEF vars, fileVars, GameToggles, PowerLoss, HelperCrash, Dismiss
  <1> QED
    BY <1>1, <1>2, <1>3 DEF Next

\* Only Commit writes "committed".
LEMMA CommitWriter ==
  ASSUME TypeOK, [Next]_vars, NEW s \in Stages, phase[s] # "committed", phase'[s] = "committed"
  PROVE  Commit(s)
  <1> USE DEF TypeOK
  <1>1. ASSUME NEW t \in Stages, WriteJournal(t) \/ MarkInstalled(t) \/ MarkRolledBack(t) PROVE FALSE
    BY <1>1 DEF WriteJournal, MarkInstalled, MarkRolledBack
  <1>2. ASSUME NEW t \in Stages, Commit(t) PROVE t = s
    BY <1>2 DEF Commit
  <1>3. ASSUME NEW l \in Launchers, NEW t \in Stages, CleanupStage(l, t) PROVE FALSE
    <2>1. phase' = phase \/ phase' = [phase EXCEPT ![t] = "none"]
      BY <1>3, Zenon DEF CleanupStage
    <2> QED
      BY <2>1
  <1> QED
    BY <1>1, <1>2, <1>3, PhaseWriters

\* An update that commits has had its launcher's first frame.
THEOREM CommitIsConfirmed == Spec => ConfirmedCommit
  <1> DEFINE Confirmed == \A s \in Stages :
                phase[s] # "committed" /\ phase'[s] = "committed" => ready[s]
  <1>1. ASSUME IInv, [Next]_vars PROVE Confirmed
    <2> SUFFICES ASSUME NEW s \in Stages, phase[s] # "committed", phase'[s] = "committed"
                 PROVE  ready[s]
      OBVIOUS
    <2>1. helper[s] = "commit"
      BY <1>1, CommitWriter DEF IInv, Commit, Go
    <2> QED
      BY <1>1, <2>1 DEF IInv, ReadyInv
  <1> QED
    BY <1>1, Invariant, PTL DEF Spec, ConfirmedCommit

=============================================================================
