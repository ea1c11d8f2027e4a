--------------------------- MODULE UpdateInstaller ---------------------------
(***************************************************************************)
(* src/src/launcher/update_installer.cpp: the transaction that replaces    *)
(* the program files, its journal, rollback, commit and crash recovery,    *)
(* run by helper processes (one per update task, each a copy of the        *)
(* launcher inside the task's directory) beside launcher processes and     *)
(* the game.  All of them share the files on disk, the pending pointer     *)
(* and the exclusive handle on install.lock.                               *)
(*                                                                         *)
(* One action is one durable file operation or one look at shared state:   *)
(* between any two of them a process may be killed, the power may fail, or *)
(* another process may step.  Single-file replacement is atomic            *)
(* (MoveFileExW), and so is Write of a task file (temporary + rename).     *)
(***************************************************************************)
EXTENDS Naturals, FiniteSets

CONSTANTS
  Files,         \* the managed paths
  LauncherFile,  \* PAL4Plus.exe
  GameFiles,     \* PAL4.exe and runtime.dll: mapped while the game runs
  Stages,        \* update tasks (.pal4plus-update/{GUID})
  Payload,       \* [Stages -> SUBSET Files], manifest.files
  Removed,       \* [Stages -> SUBSET Files], manifest.remove
  Original,      \* [Files -> contents], the installation before any update
  Launchers,     \* launcher processes
  Absent,        \* no file at a path
  NoStage,       \* pending.json does not exist
  NoLauncher     \* a process handle of an exited launcher

Contents == Stages \union {Original[f] : f \in Files} \union {Absent}

\* ParseManifest: the launcher is always in the payload, and no path is both
\* published and removed.
ASSUME ManifestAssumption ==
  /\ LauncherFile \in Files /\ GameFiles \subseteq Files
  /\ Payload \in [Stages -> SUBSET Files]
  /\ Removed \in [Stages -> SUBSET Files]
  /\ \A s \in Stages : LauncherFile \in Payload[s] /\ Payload[s] \cap Removed[s] = {}
  /\ Original = [f \in Files |-> Original[f]]
ASSUME DistinctAssumption ==
  /\ Absent \notin Stages /\ NoStage \notin Stages /\ NoLauncher \notin Launchers

VARIABLES
  disk,      \* [Files -> Contents]: the program files
  pending,   \* pending.json: the task being installed, or NoStage
  lock,      \* who holds the exclusive handle on install.lock
  phase,     \* [Stages -> Phases]: journal.json's phase; "none": no journal
  existed,   \* [Stages -> SUBSET Files]: the journal's existed flags
  backup,    \* [Stages -> [Files -> Contents]]: the task's backup directory
  payload,   \* [Stages -> PayloadStates]: the task's payload and manifest
  helper,    \* [Stages -> HelperPCs]: where the task's helper process is
  todo,      \* [Stages -> SUBSET Files]: files left in its current loop
  parent,    \* [Stages -> Launchers or NoLauncher]: job.json's parent_pid
  child,     \* [Stages -> Launchers or NoLauncher]: the new launcher it started
  ready,     \* [Stages -> BOOLEAN]: the named ready event
  failed,    \* [Stages -> BOOLEAN]: an exception has reached RunInstaller's handler
  launcher,  \* [Launchers -> LauncherPCs]
  game       \* BOOLEAN: a game process of this installation runs

fileVars    == <<disk, pending, phase, existed, backup, payload>>
helperVars  == <<helper, todo, parent, child, ready, failed>>
vars == <<disk, pending, lock, phase, existed, backup, payload,
          helper, todo, parent, child, ready, failed, launcher, game>>

Phases == {"none", "installing", "installed", "rolled_back", "committed"}
Final  == {"rolled_back", "committed"}

\* "fresh": not downloaded yet, "present": verified, "gone": deleted.
PayloadStates == {"fresh", "present", "gone"}

HelperPCs ==
  {"idle", "waitParent", "acquire", "inspect", "check", "backup", "journal",
   "pend", "replace", "remove", "markInstalled", "startChild", "await", "kill",
   "commit", "unpendCommitted", "sweep", "rollback", "unpend", "restart", "report"}

LauncherPCs == {"off", "start", "tryLock", "recover", "cleanup", "ui", "boot", "exiting"}

Free == <<"free">>
ByHelper(s) == <<"helper", s>>
ByLauncher(l) == <<"launcher", l>>

Managed(s) == Payload[s] \union Removed[s]

\* What a rollback of s puts back at path f.
Restored(s, f) == IF f \in existed[s] THEN backup[s][f] ELSE Absent

\* A running process maps its executable and libraries, and Windows refuses to
\* replace or delete a mapped file.
InUse(f) ==
  \/ f = LauncherFile /\ \E l \in Launchers : launcher[l] # "off"
  \/ f \in GameFiles /\ game

TypeOK ==
  /\ disk \in [Files -> Contents]
  /\ pending \in Stages \union {NoStage}
  /\ lock \in {Free} \union {ByHelper(s) : s \in Stages} \union {ByLauncher(l) : l \in Launchers}
  /\ phase \in [Stages -> Phases]
  /\ existed \in [Stages -> SUBSET Files]
  /\ backup \in [Stages -> [Files -> Contents]]
  /\ payload \in [Stages -> PayloadStates]
  /\ helper \in [Stages -> HelperPCs]
  /\ todo \in [Stages -> SUBSET Files]
  /\ parent \in [Stages -> Launchers \union {NoLauncher}]
  /\ child \in [Stages -> Launchers \union {NoLauncher}]
  /\ ready \in [Stages -> BOOLEAN]
  /\ failed \in [Stages -> BOOLEAN]
  /\ launcher \in [Launchers -> LauncherPCs]
  /\ game \in BOOLEAN

Init ==
  /\ disk = Original
  /\ pending = NoStage
  /\ lock = Free
  /\ phase = [s \in Stages |-> "none"]
  /\ existed = [s \in Stages |-> {}]
  /\ backup = [s \in Stages |-> [f \in Files |-> Absent]]
  /\ payload = [s \in Stages |-> "fresh"]
  /\ helper = [s \in Stages |-> "idle"]
  /\ todo = [s \in Stages |-> {}]
  /\ parent = [s \in Stages |-> NoLauncher]
  /\ child = [s \in Stages |-> NoLauncher]
  /\ ready = [s \in Stages |-> FALSE]
  /\ failed = [s \in Stages |-> FALSE]
  /\ launcher = [l \in Launchers |-> "off"]
  /\ game = FALSE

-----------------------------------------------------------------------------
(* The helper process of stage s: RunInstaller.                            *)

Go(s, from, to) == helper[s] = from /\ helper' = [helper EXCEPT ![s] = to]

Loop(s, files) == todo' = [todo EXCEPT ![s] = files]

\* Process exit: the handles on install.lock, on the event and on other
\* processes close, and the loop position is forgotten.
Exit(s) ==
  /\ helper' = [helper EXCEPT ![s] = "idle"]
  /\ lock' = IF lock = ByHelper(s) THEN Free ELSE lock
  /\ todo' = [todo EXCEPT ![s] = {}]
  /\ parent' = [parent EXCEPT ![s] = NoLauncher]
  /\ child' = [child EXCEPT ![s] = NoLauncher]
  /\ ready' = [ready EXCEPT ![s] = FALSE]
  /\ failed' = [failed EXCEPT ![s] = FALSE]

\* The end of RunInstaller's handler: report_error shows a message box and
\* returns when the user closes it.  What the try block opened is closed by
\* then; install.lock, opened outside it, is not.
Report(s) ==
  /\ helper' = [helper EXCEPT ![s] = "report"]
  /\ todo' = [todo EXCEPT ![s] = {}]
  /\ parent' = [parent EXCEPT ![s] = NoLauncher]
  /\ child' = [child EXCEPT ![s] = NoLauncher]
  /\ ready' = [ready EXCEPT ![s] = FALSE]
  /\ failed' = [failed EXCEPT ![s] = TRUE]
  /\ UNCHANGED lock

\* The handler starts the old launcher unless a pending task remains.
RestartOrReport(s) ==
  IF pending = NoStage
  THEN /\ helper' = [helper EXCEPT ![s] = "restart"]
       /\ failed' = [failed EXCEPT ![s] = TRUE]
       /\ UNCHANGED <<lock, todo, parent, child, ready>>
  ELSE Report(s)

ParentExited(s) ==
  /\ parent[s] = NoLauncher
  /\ Go(s, "waitParent", "acquire")
  /\ UNCHANGED <<fileVars, lock, todo, parent, child, ready, failed, launcher, game>>

\* Mutant: the wait for the launcher has no timeout.
ParentNeverTimesOut(s) == FALSE /\ Report(s) /\ UNCHANGED <<fileVars, launcher, game>>

\* 30 s passed: throws with no lock held, and the handler only reports.
ParentTimeout(s) ==
  /\ helper[s] = "waitParent" /\ parent[s] # NoLauncher
  /\ Report(s)
  /\ UNCHANGED <<fileVars, launcher, game>>

\* Mutant: install.lock is opened shared, so a second holder gets it too.
LockInstallationShared(s) ==
  /\ Go(s, "acquire", "inspect")
  /\ lock' = ByHelper(s)
  /\ UNCHANGED <<fileVars, todo, parent, child, ready, failed, launcher, game>>

LockInstallation(s) ==
  /\ lock = Free
  /\ Go(s, "acquire", "inspect")
  /\ lock' = ByHelper(s)
  /\ UNCHANGED <<fileVars, todo, parent, child, ready, failed, launcher, game>>

LockRefused(s) ==
  /\ helper[s] = "acquire" /\ lock # Free
  /\ Report(s)
  /\ UNCHANGED <<fileVars, launcher, game>>

\* An existing journal makes this a recovery run: roll back unless committed.
InspectRecovery(s) ==
  /\ helper[s] = "inspect" /\ phase[s] # "none"
  /\ IF phase[s] = "committed"
     THEN helper' = [helper EXCEPT ![s] = "restart"] /\ UNCHANGED todo
     ELSE helper' = [helper EXCEPT ![s] = "rollback"] /\ Loop(s, Managed(s))
  /\ UNCHANGED <<fileVars, lock, parent, child, ready, failed, launcher, game>>

InspectNew(s) ==
  /\ phase[s] = "none"
  /\ Go(s, "inspect", "check")
  /\ UNCHANGED <<fileVars, lock, todo, parent, child, ready, failed, launcher, game>>

\* InstallTransaction up to its first copy: VerifyPayload, IsGameRunning,
\* no other pending task.
CheckInstall(s) ==
  /\ payload[s] = "present" /\ ~game /\ pending = NoStage
  /\ Go(s, "check", "backup")
  /\ Loop(s, Managed(s))
  /\ UNCHANGED <<fileVars, lock, parent, child, ready, failed, launcher, game>>

\* Any exception before the transaction's try block reaches RunInstaller's
\* handler with installed = false.
InstallRefused(s) ==
  /\ helper[s] \in {"inspect", "check", "backup", "journal", "pend"}
  /\ RestartOrReport(s)
  /\ UNCHANGED <<fileVars, launcher, game>>

BackupFile(s, f) ==
  /\ helper[s] = "backup" /\ f \in todo[s]
  /\ backup' = [backup EXCEPT ![s][f] = disk[f]]
  /\ Loop(s, todo[s] \ {f})
  /\ UNCHANGED <<disk, pending, lock, phase, existed, payload, helper, parent, child,
                 ready, failed, launcher, game>>

BackupDone(s) ==
  /\ todo[s] = {}
  /\ Go(s, "backup", "journal")
  /\ UNCHANGED <<fileVars, lock, todo, parent, child, ready, failed, launcher, game>>

WriteJournal(s) ==
  /\ Go(s, "journal", "pend")
  /\ phase' = [phase EXCEPT ![s] = "installing"]
  /\ existed' = [existed EXCEPT ![s] = {f \in Managed(s) : backup[s][f] # Absent}]
  /\ UNCHANGED <<disk, pending, lock, backup, payload, todo, parent, child, ready, failed,
                 launcher, game>>

WritePending(s) ==
  /\ Go(s, "pend", "replace")
  /\ pending' = s
  /\ Loop(s, Payload[s])
  /\ UNCHANGED <<disk, lock, phase, existed, backup, payload, parent, child, ready, failed,
                 launcher, game>>

\* Mutant: the payload is not sorted.
ReplaceUnsorted(s, f) ==
  /\ helper[s] = "replace" /\ f \in todo[s]
  /\ payload[s] = "present" /\ ~InUse(f)
  /\ disk' = [disk EXCEPT ![f] = s]
  /\ Loop(s, todo[s] \ {f})
  /\ UNCHANGED <<pending, lock, phase, existed, backup, payload, helper, parent, child,
                 ready, failed, launcher, game>>

\* The stable sort puts the launcher last; the manifest orders the others.
ReplaceFile(s, f) ==
  /\ helper[s] = "replace" /\ f \in todo[s]
  /\ f = LauncherFile => todo[s] = {f}
  /\ payload[s] = "present" /\ ~InUse(f)
  /\ disk' = [disk EXCEPT ![f] = s]
  /\ Loop(s, todo[s] \ {f})
  /\ UNCHANGED <<pending, lock, phase, existed, backup, payload, helper, parent, child,
                 ready, failed, launcher, game>>

ReplaceDone(s) ==
  /\ todo[s] = {}
  /\ Go(s, "replace", "remove")
  /\ Loop(s, Removed[s])
  /\ UNCHANGED <<fileVars, lock, parent, child, ready, failed, launcher, game>>

\* fs::remove of a path that does not exist does nothing.
RemoveFile(s, f) ==
  /\ helper[s] = "remove" /\ f \in todo[s]
  /\ disk[f] # Absent => ~InUse(f)
  /\ disk' = [disk EXCEPT ![f] = Absent]
  /\ Loop(s, todo[s] \ {f})
  /\ UNCHANGED <<pending, lock, phase, existed, backup, payload, helper, parent, child,
                 ready, failed, launcher, game>>

RemoveDone(s) ==
  /\ todo[s] = {}
  /\ Go(s, "remove", "markInstalled")
  /\ UNCHANGED <<fileVars, lock, todo, parent, child, ready, failed, launcher, game>>

MarkInstalled(s) ==
  /\ Go(s, "markInstalled", "startChild")
  /\ phase' = [phase EXCEPT ![s] = "installed"]
  /\ UNCHANGED <<disk, pending, lock, existed, backup, payload, todo, parent, child,
                 ready, failed, launcher, game>>

\* A locked file, a full disk, a failed event or process creation: the catch
\* clauses of InstallTransaction and of RunInstaller both roll back.
InstallThrows(s) ==
  /\ helper[s] \in {"replace", "remove", "markInstalled", "startChild"}
  /\ helper' = [helper EXCEPT ![s] = "rollback"]
  /\ Loop(s, Managed(s))
  /\ failed' = [failed EXCEPT ![s] = TRUE]
  /\ UNCHANGED <<fileVars, lock, parent, child, ready, launcher, game>>

\* Creates the ready event, then starts PAL4Plus.exe --update-ready.
StartChild(s, l) ==
  /\ launcher[l] = "off"
  /\ Go(s, "startChild", "await")
  /\ launcher' = [launcher EXCEPT ![l] = "boot"]
  /\ child' = [child EXCEPT ![s] = l]
  /\ ready' = [ready EXCEPT ![s] = FALSE]
  /\ UNCHANGED <<fileVars, lock, todo, parent, failed, game>>

\* Mutant: any result of the wait counts as ready.
ChildEnds(s) ==
  /\ Go(s, "await", "commit")
  /\ UNCHANGED <<fileVars, lock, todo, parent, child, ready, failed, launcher, game>>

\* WaitForMultipleObjects reports the ready event first when both are signalled.
ChildReady(s) ==
  /\ ready[s]
  /\ Go(s, "await", "commit")
  /\ UNCHANGED <<fileVars, lock, todo, parent, child, ready, failed, launcher, game>>

\* The child exited, or 90 s passed.
ChildNotReady(s) ==
  /\ ~ready[s]
  /\ Go(s, "await", "kill")
  /\ UNCHANGED <<fileVars, lock, todo, parent, child, ready, failed, launcher, game>>

\* Process l ends: every handle on it is signalled.
LauncherEnds(l) ==
  /\ launcher' = [launcher EXCEPT ![l] = "off"]
  /\ child' = [s \in Stages |-> IF child[s] = l THEN NoLauncher ELSE child[s]]
  /\ parent' = [s \in Stages |-> IF parent[s] = l THEN NoLauncher ELSE parent[s]]

KillChild(s) ==
  /\ Go(s, "kill", "rollback")
  /\ IF child[s] \in Launchers THEN LauncherEnds(child[s])
     ELSE UNCHANGED <<launcher, child, parent>>
  /\ Loop(s, Managed(s))
  /\ failed' = [failed EXCEPT ![s] = TRUE]
  /\ UNCHANGED <<fileVars, lock, ready, game>>

Commit(s) ==
  /\ Go(s, "commit", "unpendCommitted")
  /\ phase' = [phase EXCEPT ![s] = "committed"]
  /\ UNCHANGED <<disk, pending, lock, existed, backup, payload, todo, parent, child,
                 ready, failed, launcher, game>>

\* new_ready is set, so the handler neither rolls back nor restarts anything.
CommitThrows(s) ==
  /\ helper[s] = "commit"
  /\ Report(s)
  /\ UNCHANGED <<fileVars, launcher, game>>

\* Mutant: a failing removal throws into the rollback.
UnpendOrRollBack(s) ==
  /\ helper[s] = "unpendCommitted"
  /\ \/ helper' = [helper EXCEPT ![s] = "sweep"] /\ pending' = NoStage
     \/ helper' = [helper EXCEPT ![s] = "rollback"] /\ UNCHANGED pending
  /\ UNCHANGED <<disk, lock, phase, existed, backup, payload, todo, parent, child,
                 ready, failed, launcher, game>>

\* fs::remove(pending, ignored)
UnpendCommitted(s) ==
  /\ Go(s, "unpendCommitted", "sweep")
  /\ pending' \in {pending, NoStage}
  /\ UNCHANGED <<disk, lock, phase, existed, backup, payload, todo, parent, child,
                 ready, failed, launcher, game>>

\* remove_all of backup and payload, each of which may fail unnoticed.
Sweep(s) ==
  /\ helper[s] = "sweep"
  /\ backup' \in {backup, [backup EXCEPT ![s] = [f \in Files |-> Absent]]}
  /\ payload' \in {payload, [payload EXCEPT ![s] = "gone"]}
  /\ Exit(s)
  /\ UNCHANGED <<disk, pending, phase, existed, launcher, game>>

\* RollbackTransaction, one file: an untouched file needs no replacement.
RollbackFile(s, f) ==
  /\ helper[s] = "rollback" /\ f \in todo[s]
  /\ \/ f \in existed[s] /\ disk[f] = backup[s][f] /\ UNCHANGED disk
     \/ /\ f \in existed[s] /\ disk[f] # backup[s][f]
        /\ backup[s][f] # Absent /\ ~InUse(f)
        /\ disk' = [disk EXCEPT ![f] = backup[s][f]]
     \/ /\ f \notin existed[s]
        /\ disk[f] # Absent => ~InUse(f)
        /\ disk' = [disk EXCEPT ![f] = Absent]
  /\ Loop(s, todo[s] \ {f})
  /\ UNCHANGED <<pending, lock, phase, existed, backup, payload, helper, parent, child,
                 ready, failed, launcher, game>>

\* Mutant: the rollback ends before its last file.
MarkRolledBackEarly(s) ==
  /\ Go(s, "rollback", "unpend")
  /\ phase' = [phase EXCEPT ![s] = "rolled_back"]
  /\ UNCHANGED <<disk, pending, lock, existed, backup, payload, todo, parent, child,
                 ready, failed, launcher, game>>

MarkRolledBack(s) ==
  /\ todo[s] = {} /\ phase[s] \notin {"none", "committed"}
  /\ Go(s, "rollback", "unpend")
  /\ phase' = [phase EXCEPT ![s] = "rolled_back"]
  /\ UNCHANGED <<disk, pending, lock, existed, backup, payload, todo, parent, child,
                 ready, failed, launcher, game>>

\* Removes pending.json whichever task it names.
UnpendRolledBack(s) ==
  /\ Go(s, "unpend", "restart")
  /\ pending' = NoStage
  /\ UNCHANGED <<disk, lock, phase, existed, backup, payload, todo, parent, child, ready, failed,
                 launcher, game>>

\* The rollback stops with the journal and the pending pointer in place, and
\* the handler finds pending.json and only reports.
RollbackThrows(s) ==
  /\ helper[s] \in {"rollback", "unpend"}
  /\ Report(s)
  /\ UNCHANGED <<fileVars, launcher, game>>

\* Starts PAL4Plus.exe with no arguments.  A recovery run then ends; the
\* handler of a failed one still reports.
RestartOld(s) ==
  /\ helper[s] = "restart"
  /\ \E l \in Launchers : /\ launcher[l] = "off"
                          /\ launcher' = [launcher EXCEPT ![l] = "start"]
  /\ IF failed[s] THEN Report(s) ELSE Exit(s)
  /\ UNCHANGED <<fileVars, game>>

\* The process cannot be created: in a recovery run that throws into the
\* handler, which tries again; in the handler it becomes part of the report.
RestartThrows(s) ==
  /\ helper[s] = "restart"
  /\ IF failed[s] THEN Report(s) ELSE RestartOrReport(s)
  /\ UNCHANGED <<fileVars, launcher, game>>

\* The user closes the message box, whenever that is.
Dismiss(s) ==
  /\ helper[s] = "report"
  /\ Exit(s)
  /\ UNCHANGED <<fileVars, launcher, game>>

\* Killed from outside, anywhere.
HelperCrash(s) ==
  /\ helper[s] # "idle"
  /\ Exit(s)
  /\ UNCHANGED <<fileVars, launcher, game>>

HelperStep(s) ==
  \/ ParentExited(s) \/ ParentTimeout(s) \/ LockInstallation(s) \/ LockRefused(s)
  \/ InspectRecovery(s) \/ InspectNew(s)
  \/ CheckInstall(s) \/ InstallRefused(s)
  \/ \E f \in Files : BackupFile(s, f) \/ ReplaceFile(s, f) \/ RemoveFile(s, f)
                      \/ RollbackFile(s, f)
  \/ BackupDone(s) \/ WriteJournal(s) \/ WritePending(s)
  \/ ReplaceDone(s) \/ RemoveDone(s) \/ MarkInstalled(s) \/ InstallThrows(s)
  \/ \E l \in Launchers : StartChild(s, l)
  \/ ChildReady(s) \/ ChildNotReady(s) \/ KillChild(s)
  \/ Commit(s) \/ CommitThrows(s) \/ UnpendCommitted(s) \/ Sweep(s)
  \/ MarkRolledBack(s) \/ UnpendRolledBack(s) \/ RollbackThrows(s) \/ RestartOld(s)
  \/ RestartThrows(s)

-----------------------------------------------------------------------------
(* The launcher process l: main, RecoverInterruptedUpdate, LaunchInstaller. *)

UserStartsLauncher(l) ==
  /\ launcher[l] = "off"
  /\ launcher' = [launcher EXCEPT ![l] = "start"]
  /\ UNCHANGED <<fileVars, lock, helperVars, game>>

\* fs::exists(pending) before the lock is taken.
LookForPending(l) ==
  /\ launcher[l] = "start"
  /\ launcher' = [launcher EXCEPT ![l] = IF pending = NoStage THEN "cleanup" ELSE "tryLock"]
  /\ UNCHANGED <<fileVars, lock, helperVars, game>>

\* Refused, it shows the error, and like any other launcher about to end it
\* keeps PAL4Plus.exe mapped until it has.
RecoveryLock(l) ==
  /\ launcher[l] = "tryLock"
  /\ IF lock = Free
     THEN /\ lock' = ByLauncher(l)
          /\ launcher' = [launcher EXCEPT ![l] = "recover"]
     ELSE launcher' = [launcher EXCEPT ![l] = "exiting"] /\ UNCHANGED lock
  /\ UNCHANGED <<fileVars, helperVars, game>>

\* The pointer of a finished task is deleted, and start-up continues.
RecoveryFinished(l) ==
  /\ launcher[l] = "recover" /\ pending # NoStage /\ phase[pending] \in Final
  /\ pending' = NoStage
  /\ lock' = Free
  /\ launcher' = [launcher EXCEPT ![l] = "cleanup"]
  /\ UNCHANGED <<disk, phase, existed, backup, payload, helperVars, game>>

\* Copies itself to the task's updater.exe, which fails while that runs, and
\* starts it; returning releases the lock and the launcher exits.
RecoveryLaunchesHelper(l) ==
  /\ launcher[l] = "recover" /\ pending # NoStage
  /\ phase[pending] \in Phases \ ({"none"} \union Final)
  /\ helper[pending] = "idle"
  /\ helper' = [helper EXCEPT ![pending] = "waitParent"]
  /\ parent' = [parent EXCEPT ![pending] = l]
  /\ lock' = Free
  /\ launcher' = [launcher EXCEPT ![l] = "exiting"]
  /\ UNCHANGED <<fileVars, todo, child, ready, failed, game>>

\* The pointer or the journal cannot be read, updater.exe is in use, or the
\* deletion fails: the lock is released, the error is shown, and the launcher
\* exits with code 1 once the user has closed it.
RecoveryThrows(l) ==
  /\ launcher[l] = "recover"
  /\ lock' = Free
  /\ launcher' = [launcher EXCEPT ![l] = "exiting"]
  /\ UNCHANGED <<fileVars, helperVars, game>>

\* Mutant: the phase of the task is not looked at.
CleanupAnyStage(l, s) ==
  /\ launcher[l] = "cleanup"
  /\ phase' \in {phase, [phase EXCEPT ![s] = "none"]}
  /\ backup' \in {backup, [backup EXCEPT ![s] = [f \in Files |-> Absent]]}
  /\ payload' \in {payload, [payload EXCEPT ![s] = "gone"]}
  /\ UNCHANGED <<disk, pending, existed, lock, helperVars, launcher, game>>

\* The loop over task directories, which holds no lock: remove_all of a
\* finished task, whose errors are ignored, may leave any part behind.
CleanupStage(l, s) ==
  /\ launcher[l] = "cleanup" /\ phase[s] \in Final
  /\ phase' \in {phase, [phase EXCEPT ![s] = "none"]}
  /\ backup' \in {backup, [backup EXCEPT ![s] = [f \in Files |-> Absent]]}
  /\ payload' \in {payload, [payload EXCEPT ![s] = "gone"]}
  /\ UNCHANGED <<disk, pending, existed, lock, helperVars, launcher, game>>

CleanupDone(l) ==
  /\ launcher[l] = "cleanup"
  /\ launcher' = [launcher EXCEPT ![l] = "ui"]
  /\ UNCHANGED <<fileVars, lock, helperVars, game>>

\* The UI took a verified stage from the update client: LaunchInstaller.
LaunchUpdate(l, s) ==
  /\ launcher[l] = "ui" /\ payload[s] = "fresh"
  /\ payload' = [payload EXCEPT ![s] = "present"]
  /\ helper' = [helper EXCEPT ![s] = "waitParent"]
  /\ parent' = [parent EXCEPT ![s] = l]
  /\ launcher' = [launcher EXCEPT ![l] = "exiting"]
  /\ UNCHANGED <<disk, pending, phase, existed, backup, lock, todo, child, ready, failed, game>>

\* First frame of a launcher started by a helper: SignalReady sets the event
\* if the helper still holds it open.
FirstFrame(l) ==
  /\ launcher[l] = "boot"
  /\ launcher' = [launcher EXCEPT ![l] = "ui"]
  /\ ready' = [s \in Stages |-> ready[s] \/ child[s] = l]
  /\ UNCHANGED <<fileVars, lock, helper, todo, parent, child, failed, game>>

LaunchGame(l) ==
  /\ launcher[l] = "ui"
  /\ game' = TRUE
  /\ LauncherEnds(l)
  /\ UNCHANGED <<fileVars, lock, helper, todo, ready, failed>>

LauncherExits(l) ==
  /\ launcher[l] \in {"ui", "boot", "exiting"}
  /\ LauncherEnds(l)
  /\ UNCHANGED <<fileVars, lock, helper, todo, ready, failed, game>>

LauncherStep(l) ==
  \/ UserStartsLauncher(l) \/ LookForPending(l) \/ RecoveryLock(l)
  \/ RecoveryFinished(l) \/ RecoveryLaunchesHelper(l) \/ RecoveryThrows(l)
  \/ \E s \in Stages : CleanupStage(l, s) \/ LaunchUpdate(l, s)
  \/ CleanupDone(l) \/ FirstFrame(l) \/ LaunchGame(l) \/ LauncherExits(l)

\* PAL4.exe is started from the shell, or exits.
GameToggles ==
  /\ game' = ~game
  /\ UNCHANGED <<fileVars, lock, helperVars, launcher>>

\* Every process dies; what was written stays written.
PowerLoss ==
  /\ lock' = Free
  /\ helper' = [s \in Stages |-> "idle"]
  /\ todo' = [s \in Stages |-> {}]
  /\ ready' = [s \in Stages |-> FALSE]
  /\ failed' = [s \in Stages |-> FALSE]
  /\ parent' = [s \in Stages |-> NoLauncher]
  /\ child' = [s \in Stages |-> NoLauncher]
  /\ launcher' = [l \in Launchers |-> "off"]
  /\ game' = FALSE
  /\ UNCHANGED fileVars

Next ==
  \/ \E s \in Stages : HelperStep(s) \/ Dismiss(s) \/ HelperCrash(s)
  \/ \E l \in Launchers : LauncherStep(l)
  \/ GameToggles
  \/ PowerLoss

Spec == Init /\ [][Next]_vars

\* The operating system keeps scheduling a helper, whose waits for the parent, for
\* the lock and for the child all time out or fail at once.  Users, who close its
\* message box, crashes and the game owe nothing.
FairSpec == Spec /\ \A s \in Stages : WF_vars(HelperStep(s))

-----------------------------------------------------------------------------
(* Properties.                                                             *)

Uncommitted(s) == phase[s] \in {"installing", "installed"}

\* The tree the installation stands for: what is on disk, or, while a pending
\* task is uncommitted, what its recovery will put back.
Tree ==
  [f \in Files |->
     IF pending # NoStage /\ Uncommitted(pending) /\ f \in Managed(pending)
     THEN Restored(pending, f) ELSE disk[f]]

Atomic == INSTANCE AtomicUpdate WITH tree <- Tree

\* The installation changes only by whole updates: at every instant the tree
\* that a recovery would leave is a complete release, and only the write of
\* "committed" moves it to the next one, whichever processes crash, race or
\* fail (InstallTransaction, RollbackTransaction, CommitTransaction,
\* RecoverInterruptedUpdate together).
WholeUpdates == Atomic!Spec

\* While a pending task is uncommitted its backups are complete and every
\* managed file is either the old or the new one, so a recovery started now
\* can still succeed.
Recoverable ==
  pending # NoStage /\ Uncommitted(pending) =>
    \A f \in Managed(pending) :
      /\ f \in existed[pending] => backup[pending][f] # Absent
      /\ disk[f] \in {Restored(pending, f), IF f \in Payload[pending] THEN pending ELSE Absent}

\* Only the holder of install.lock is inside a transaction, and it is the one
\* pending.json names from the moment it has been written.
OneInstaller ==
  \A s \in Stages :
    /\ helper[s] \notin {"idle", "waitParent", "acquire", "report"} => lock = ByHelper(s)
    /\ helper[s] \in {"replace", "remove", "markInstalled", "startChild", "await",
                       "kill", "commit", "rollback"} => pending = s

\* "Update the launcher last" (InstallTransaction): at the moment an
\* installation publishes PAL4Plus.exe, all the other payload files are
\* already the new ones and the removals are all that is left.
LauncherLast ==
  [][\A s \in Stages :
       disk[LauncherFile] # s /\ disk'[LauncherFile] = s /\ phase[s] = "installing"
       /\ helper[s] = "replace"
       => \A f \in Payload[s] : disk'[f] = s]_vars

\* A committed update is never rolled back, by the helper that installed it or
\* by a later recovery ("Once committed, cleanup failure must never trigger
\* rollback"): its journal only disappears, and no rollback of it runs.
CommittedIsFinal ==
  [][\A s \in Stages :
       phase[s] = "committed" =>
         phase'[s] \in {"committed", "none"} /\ helper'[s] # "rollback"]_vars

\* An update commits only if the launcher it installed reached its first frame.
ConfirmedCommit ==
  [][\A s \in Stages :
       phase[s] # "committed" /\ phase'[s] = "committed" => ready[s]]_vars

\* No helper hangs (RunInstaller): whatever its parent, its child, other holders of
\* install.lock and the files do, it ends or comes to stand in its error message,
\* which it keeps install.lock through until the user closes it.
HelperTerminates == \A s \in Stages : helper[s] # "idle" ~> helper[s] \in {"idle", "report"}

\* docs/auto_update.md, on an installation that was interrupted: "repeating the
\* recovery still works".  It can only while pending.json, once nobody is
\* installing, names a task whose journal can be read.
PendingHasJournal == pending # NoStage /\ lock = Free => phase[pending] # "none"

\* docs/auto_update.md: "files are replaced only when the launcher has exited and
\* the game is not running".
NoReplaceWhileGameRuns == [][disk' # disk => ~game]_vars
-----------------------------------------------------------------------------
(* The inductive invariant.  OneInstaller and Recoverable are not inductive *)
(* as they stand: what holds in mid-transaction depends on how far each     *)
(* loop has come, and what a recovery may assume on who launched it.        *)

\* What installing s leaves at one of its managed paths.
Target(s, f) == IF f \in Payload[s] THEN s ELSE Absent

InTransaction == {"replace", "remove", "markInstalled", "startChild", "await", "kill",
                  "commit", "unpendCommitted", "rollback", "unpend"}
Critical == HelperPCs \ {"idle", "waitParent", "acquire", "report"}

LockInv ==
  /\ \A s \in Stages : helper[s] \in Critical => lock = ByHelper(s)
  /\ \A l \in Launchers : launcher[l] = "recover" => lock = ByLauncher(l)

\* Which task pending.json names, by where the task's helper is.
PendingInv ==
  \A s \in Stages :
    /\ helper[s] \in InTransaction => pending = s
    /\ helper[s] \in {"backup", "journal", "pend"} => pending = NoStage
    /\ helper[s] \in {"waitParent", "acquire", "inspect"} /\ phase[s] # "none"
         => Uncommitted(s) /\ pending = s
    /\ payload[s] = "fresh" => phase[s] = "none" /\ helper[s] = "idle"

PhaseInv ==
  \A s \in Stages :
    /\ helper[s] \in {"check", "backup", "journal"} => phase[s] = "none"
    /\ helper[s] \in {"pend", "replace", "remove", "markInstalled"} => phase[s] = "installing"
    /\ helper[s] \in {"startChild", "await", "kill", "commit"} => phase[s] = "installed"
    /\ helper[s] = "rollback" => Uncommitted(s)
    /\ helper[s] = "unpend" => phase[s] \in {"rolled_back", "none"}
    /\ helper[s] \in {"unpendCommitted", "sweep"} => phase[s] \in {"committed", "none"}

BackupInv ==
  \A s \in Stages :
    /\ helper[s] = "backup" => \A f \in Managed(s) \ todo[s] : backup[s][f] = disk[f]
    /\ helper[s] = "journal" => \A f \in Managed(s) : backup[s][f] = disk[f]
    /\ Uncommitted(s) => \A f \in existed[s] : backup[s][f] # Absent

\* How far each loop of the helper of s has come with the files on disk.
DiskAt(s) ==
  /\ helper[s] = "pend" => \A f \in Managed(s) : disk[f] = Restored(s, f)
  /\ pending = s /\ Uncommitted(s) =>
       \A f \in Managed(s) : disk[f] \in {Restored(s, f), Target(s, f)}
  /\ helper[s] = "replace" =>
       /\ todo[s] \subseteq Payload[s]
       /\ \A f \in Payload[s] \ todo[s] : disk[f] = s
  /\ helper[s] = "remove" =>
       /\ todo[s] \subseteq Removed[s]
       /\ \A f \in Payload[s] : disk[f] = s
       /\ \A f \in Removed[s] \ todo[s] : disk[f] = Absent
  /\ helper[s] \in {"markInstalled", "startChild", "await", "kill", "commit"} =>
       \A f \in Managed(s) : disk[f] = Target(s, f)
  /\ helper[s] = "rollback" =>
       /\ todo[s] \subseteq Managed(s)
       /\ \A f \in Managed(s) \ todo[s] : disk[f] = Restored(s, f)

DiskInv == \A s \in Stages : DiskAt(s)

\* The ready event a commit relies on is not reset before it.
ReadyInv == \A s \in Stages : helper[s] = "commit" => ready[s]

IInv ==
  /\ TypeOK /\ LockInv /\ PendingInv /\ PhaseInv /\ BackupInv /\ DiskInv
  /\ ReadyInv

=============================================================================
