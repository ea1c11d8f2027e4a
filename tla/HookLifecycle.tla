--------------------------- MODULE HookLifecycle ---------------------------
(***************************************************************************)
(* How the runtime gets into the game and out again: the launcher creates  *)
(* the game suspended, injects the DLL and waits for the ready event       *)
(* (common/launcher.cpp); DllMain starts the bootstrap thread, which       *)
(* starts the IPC server and then installs the inline hooks                *)
(* (runtime/dll_main.cpp, bootstrap.cpp, hook_manager.cpp); a client's     *)
(* shutdown command makes the IPC thread uninstall them                    *)
(* (ipc_server.cpp), with no lock between it and either the bootstrap      *)
(* thread or the game thread that runs through the hooks.                  *)
(*                                                                         *)
(* An inline hook is a jump over the target's first bytes, a trampoline    *)
(* with a copy of them, and the g_original_* pointer through which the     *)
(* replacement calls the trampoline.                                       *)
(***************************************************************************)
EXTENDS Naturals, Sequences, SequencesExt

CONSTANTS
  Order,      \* the bootstrap hooks in the order they are installed
  Required    \* those with bootstrap_required

Hooks == Range(Order)

ASSUME HookAssumption ==
  Order \in Seq(Hooks) /\ IsInjective(Order) /\ Required \subseteq Hooks

VARIABLES
  launcher,       \* where LaunchInjectedProcess is
  main,           \* the game's main thread
  dll,            \* LoadLibraryW in the remote thread
  holders,        \* who has a handle of the ready event; it exists while someone has
  isSet,          \* the event is set
  boot,           \* where the bootstrap thread is
  bootAt,         \* the hook it installs, an index of Order
  bootOk,         \* the outcomes it has collected
  ipc,            \* where the IPC thread is
  ipcAt,          \* the hook it uninstalls
  pipeReady, hooksReady, bootstrapReady, shutdown,   \* RuntimeState
  target,         \* [Hooks -> Bytes]: the first bytes of the hooked function
  trampoline,     \* [Hooks -> {"none", "live", "freed"}]
  original,       \* [Hooks -> BOOLEAN]: g_original_* is not null
  installed,      \* [Hooks -> BOOLEAN]: HookRegistration::installed
  status,         \* [Hooks -> BOOLEAN]: HookStatus::installed, what clients see
  game,           \* where the game's main thread is with respect to a hook
  callee,         \* that hook, an index of Order
  broken,         \* history: a call was lost to a null pointer or went wild
  signalled,      \* history: the bootstrap has set the ready event
  early,          \* history: the shutdown command came before the bootstrap's end
  unrestored      \* history: hooks whose bytes VirtualProtect did not let restore

launchVars == <<launcher, main, dll>>
eventVars == <<holders, isSet, signalled>>
bootVars == <<boot, bootAt, bootOk>>
ipcVars == <<ipc, ipcAt, early, unrestored>>
stateVars == <<pipeReady, hooksReady, bootstrapReady, shutdown>>
hookVars == <<target, trampoline, original, installed, status>>
gameVars == <<game, callee, broken>>
vars == <<launchVars, eventVars, bootVars, ipcVars, stateVars, hookVars, gameVars>>

LauncherPCs == {"idle", "create", "script", "inject", "load", "poll", "wait", "resume", "ok", "failed"}
BootPCs == {"none", "prepare", "startIpc", "pipeFlag", "install", "patch", "link", "publish",
            "camera", "flags", "signal", "close", "done"}
IpcPCs == {"none", "serving", "uninstall", "restore", "tear", "free", "unlink", "clear", "stopped"}
GamePCs == {"out", "replacement", "calling", "trampoline"}
Checks == {"prepared", "init", "pipe", "hooks", "camera"}

ThreadTypes ==
  /\ launcher \in LauncherPCs /\ main \in {"none", "suspended", "running"}
  /\ dll \in {"none", "loading", "loaded", "failed"}
  /\ holders \subseteq {"dll", "bootstrap", "launcher"}
  /\ boot \in BootPCs /\ bootOk \subseteq Checks
  /\ ipc \in IpcPCs /\ game \in GamePCs

FlagTypes ==
  /\ isSet \in BOOLEAN /\ signalled \in BOOLEAN /\ early \in BOOLEAN /\ broken \in BOOLEAN
  /\ pipeReady \in BOOLEAN /\ hooksReady \in BOOLEAN /\ bootstrapReady \in BOOLEAN
  /\ shutdown \in BOOLEAN

HookTypes ==
  /\ target \in [Hooks -> {"original", "mismatch", "jump", "torn"}]
  /\ trampoline \in [Hooks -> {"none", "live", "freed"}]
  /\ original \in [Hooks -> BOOLEAN] /\ installed \in [Hooks -> BOOLEAN]
  /\ status \in [Hooks -> BOOLEAN]
  /\ unrestored \subseteq Hooks

IndexTypes ==
  /\ bootAt \in 1 .. Len(Order) + 1
  /\ boot \in {"patch", "link", "publish"} => bootAt \in DOMAIN Order
  /\ ipcAt \in 1 .. Len(Order) + 1
  /\ ipc \in {"restore", "tear", "free", "unlink", "clear"} => ipcAt \in DOMAIN Order
  /\ callee \in 1 .. Len(Order) + 1
  /\ game # "out" => callee \in DOMAIN Order

TypeOK == ThreadTypes /\ FlagTypes /\ HookTypes /\ IndexTypes

\* Another build of the game has other bytes where a hook expects its prologue.
Init ==
  /\ launcher = "idle" /\ main = "none" /\ dll = "none"
  /\ holders = {} /\ isSet = FALSE /\ signalled = FALSE
  /\ boot = "none" /\ bootAt = 1 /\ bootOk = {}
  /\ ipc = "none" /\ ipcAt = 1 /\ early = FALSE /\ unrestored = {}
  /\ pipeReady = FALSE /\ hooksReady = FALSE /\ bootstrapReady = FALSE /\ shutdown = FALSE
  /\ target \in [Hooks -> {"original", "mismatch"}]
  /\ trampoline = [h \in Hooks |-> "none"]
  /\ original = [h \in Hooks |-> FALSE] /\ installed = [h \in Hooks |-> FALSE]
  /\ status = [h \in Hooks |-> FALSE]
  /\ game = "out" /\ callee = 1 /\ broken = FALSE

-----------------------------------------------------------------------------
\* LaunchInjectedProcess.  A failure closes the handles and leaves the game
\* as it is.

LauncherGoes(from, to) == launcher = from /\ launcher' = to

CreateGame ==
  /\ launcher = "idle"
  /\ \/ launcher' = "script" /\ main' = "suspended"
     \/ launcher' = "failed" /\ UNCHANGED main
  /\ UNCHANGED <<dll, eventVars, bootVars, ipcVars, stateVars, hookVars, gameVars>>

ApplyScriptModeOverride ==
  /\ launcher = "script" /\ launcher' \in {"inject", "failed"}
  /\ UNCHANGED <<main, dll, eventVars, bootVars, ipcVars, stateVars, hookVars, gameVars>>

\* Up to CreateRemoteThread.
InjectRuntimeDll ==
  /\ \/ LauncherGoes("inject", "load") /\ dll' = "loading"
     \/ LauncherGoes("inject", "failed") /\ UNCHANGED dll
  /\ UNCHANGED <<main, eventVars, bootVars, ipcVars, stateVars, hookVars, gameVars>>

\* The remote thread's LoadLibraryW returned.
LoadReturns ==
  /\ \/ LauncherGoes("load", "poll") /\ dll = "loaded"
     \/ LauncherGoes("load", "failed") /\ dll = "failed"
  /\ UNCHANGED <<main, dll, eventVars, bootVars, ipcVars, stateVars, hookVars, gameVars>>

LoadTimesOut ==
  /\ LauncherGoes("load", "failed")
  /\ UNCHANGED <<main, dll, eventVars, bootVars, ipcVars, stateVars, hookVars, gameVars>>

\* WaitForRuntimeReady polls until the event can be opened.
OpenReadyEvent ==
  /\ LauncherGoes("poll", "wait") /\ holders # {}
  /\ holders' = holders \union {"launcher"}
  /\ UNCHANGED <<main, dll, isSet, signalled, bootVars, ipcVars, stateVars, hookVars, gameVars>>

\* The last handle takes the event with it.
Release(holder) ==
  /\ holders' = holders \ {holder}
  /\ isSet' = (isSet /\ holders' # {})
  /\ UNCHANGED signalled

\* Mutant: that the event exists is enough.
ReadyEventExists ==
  /\ LauncherGoes("wait", "resume")
  /\ Release("launcher")
  /\ UNCHANGED <<main, dll, bootVars, ipcVars, stateVars, hookVars, gameVars>>

ReadyEventSeen ==
  /\ LauncherGoes("wait", "resume") /\ isSet
  /\ Release("launcher")
  /\ UNCHANGED <<main, dll, bootVars, ipcVars, stateVars, hookVars, gameVars>>

\* Mutant: a timeout resumes the game.
ReadyTimeoutResumes ==
  /\ launcher \in {"poll", "wait"} /\ launcher' = "resume"
  /\ Release("launcher")
  /\ UNCHANGED <<main, dll, bootVars, ipcVars, stateVars, hookVars, gameVars>>

\* Mutant: the wait for the event has no timeout.
ReadyNeverTimesOut ==
  /\ launcher = "poll" /\ launcher' = "failed"
  /\ Release("launcher")
  /\ UNCHANGED <<main, dll, bootVars, ipcVars, stateVars, hookVars, gameVars>>

ReadyTimesOut ==
  /\ launcher \in {"poll", "wait"} /\ launcher' = "failed"
  /\ Release("launcher")
  /\ UNCHANGED <<main, dll, bootVars, ipcVars, stateVars, hookVars, gameVars>>

\* With --no-resume the game stays suspended.
ResumeInjectedProcess ==
  /\ \/ LauncherGoes("resume", "ok") /\ main' \in {"running", "suspended"}
     \/ LauncherGoes("resume", "failed") /\ UNCHANGED main
  /\ UNCHANGED <<dll, eventVars, bootVars, ipcVars, stateVars, hookVars, gameVars>>

-----------------------------------------------------------------------------
\* DllMain and the bootstrap thread.

\* DLL_PROCESS_ATTACH; CreateThread may fail.  The event is assumed creatable.
DllAttach ==
  /\ dll = "loading" /\ dll' = "loaded"
  /\ holders' = holders \union {"dll"}
  /\ boot' \in {"prepare", "none"}
  /\ UNCHANGED <<launcher, main, isSet, signalled, bootAt, bootOk, ipcVars, stateVars, hookVars, gameVars>>

LoadFails ==
  /\ dll = "loading" /\ dll' = "failed"
  /\ UNCHANGED <<launcher, main, eventVars, bootVars, ipcVars, stateVars, hookVars, gameVars>>

\* Branding, crash capture and background window ("prepared"), Initialize.
Prepare ==
  /\ boot = "prepare" /\ boot' = "startIpc"
  /\ bootOk' \in SUBSET {"prepared", "init"}
  /\ UNCHANGED <<launchVars, eventVars, bootAt, ipcVars, stateVars, hookVars, gameVars>>

\* After CreateThread the server thread runs on its own.
StartIpcServer ==
  /\ boot = "startIpc"
  /\ \/ boot' = "pipeFlag" /\ ipc' = "serving" /\ UNCHANGED bootOk
     \/ boot' = (IF "init" \in bootOk THEN "install" ELSE "flags") /\ UNCHANGED <<ipc, bootOk>>
  /\ UNCHANGED <<launchVars, eventVars, bootAt, ipcAt, early, unrestored, stateVars, hookVars, gameVars>>

SetPipeReady ==
  /\ boot = "pipeFlag" /\ boot' = (IF "init" \in bootOk THEN "install" ELSE "flags")
  /\ bootOk' = bootOk \union {"pipe"} /\ pipeReady' = TRUE
  /\ UNCHANGED <<launchVars, eventVars, bootAt, ipcVars, hooksReady, bootstrapReady, shutdown,
                 hookVars, gameVars>>

\* Mutant: every failure is skipped.
SkipAnyFailure == boot' = "install" /\ bootAt' = bootAt + 1 /\ UNCHANGED bootOk

\* A required hook's failure ends the installation; an optional one is skipped.
InstallFails ==
  IF Order[bootAt] \in Required
    THEN boot' = "flags" /\ UNCHANGED <<bootAt, bootOk>>
    ELSE boot' = "install" /\ bootAt' = bootAt + 1 /\ UNCHANGED bootOk

\* The prologue check, VirtualAlloc and the relocating copy of InstallHook.
PrepareHook ==
  /\ boot = "install" /\ bootAt <= Len(Order)
  /\ \/ target[Order[bootAt]] = "original" /\ boot' = "patch"
        /\ trampoline' = [trampoline EXCEPT ![Order[bootAt]] = "live"]
        /\ UNCHANGED <<bootAt, bootOk>>
     \/ InstallFails /\ UNCHANGED trampoline
  /\ UNCHANGED <<launchVars, eventVars, ipcVars, stateVars, target, original, installed, status, gameVars>>

\* Mutant: the trampoline of a failed patch is kept.
WriteJumpPatchLeaking ==
  /\ boot = "patch"
  /\ \/ /\ boot' = "link" /\ target' = [target EXCEPT ![Order[bootAt]] = "jump"]
        /\ UNCHANGED <<bootAt, bootOk>>
     \/ InstallFails /\ UNCHANGED target
  /\ UNCHANGED <<launchVars, eventVars, ipcVars, stateVars, trampoline, original, installed, status, gameVars>>

\* WriteJumpPatch over the target; on failure the trampoline is freed.
WriteJumpPatch ==
  /\ boot = "patch"
  /\ \/ /\ boot' = "link" /\ target' = [target EXCEPT ![Order[bootAt]] = "jump"]
        /\ UNCHANGED <<trampoline, bootAt, bootOk>>
     \/ /\ InstallFails /\ trampoline' = [trampoline EXCEPT ![Order[bootAt]] = "freed"]
        /\ UNCHANGED target
  /\ UNCHANGED <<launchVars, eventVars, ipcVars, stateVars, original, installed, status, gameVars>>

SetOriginalTrampoline ==
  /\ boot = "link" /\ boot' = "publish"
  /\ original' = [original EXCEPT ![Order[bootAt]] = TRUE]
  /\ installed' = [installed EXCEPT ![Order[bootAt]] = TRUE]
  /\ UNCHANGED <<launchVars, eventVars, bootAt, bootOk, ipcVars, stateVars, target, trampoline,
                 status, gameVars>>

SetHookInstalled ==
  /\ boot = "publish" /\ boot' = "install" /\ bootAt' = bootAt + 1
  /\ status' = [status EXCEPT ![Order[bootAt]] = TRUE]
  /\ UNCHANGED <<launchVars, eventVars, bootOk, ipcVars, stateVars, target, trampoline, original,
                 installed, gameVars>>

InstallDone ==
  /\ boot = "install" /\ bootAt > Len(Order)
  /\ boot' = "camera" /\ bootOk' = bootOk \union {"hooks"}
  /\ UNCHANGED <<launchVars, eventVars, bootAt, ipcVars, stateVars, hookVars, gameVars>>

ApplyCameraPatch ==
  /\ boot = "camera" /\ boot' = "flags"
  /\ bootOk' \in {bootOk, bootOk \union {"camera"}}
  /\ UNCHANGED <<launchVars, eventVars, bootAt, ipcVars, stateVars, hookVars, gameVars>>

SetReadyFlags ==
  /\ boot = "flags" /\ boot' = "signal"
  /\ hooksReady' = ("hooks" \in bootOk)
  /\ bootstrapReady' = (bootOk = Checks)
  /\ UNCHANGED <<launchVars, eventVars, bootAt, bootOk, ipcVars, pipeReady, shutdown, hookVars, gameVars>>

\* SignalReadyEvent opens the event by name and sets it, or fails to.
SignalReadyEvent ==
  /\ boot = "signal"
  /\ \/ boot' = "close" /\ holders' = holders \union {"bootstrap"} /\ isSet' = TRUE /\ signalled' = TRUE
     \/ boot' = "done" /\ UNCHANGED eventVars
  /\ UNCHANGED <<launchVars, bootAt, bootOk, ipcVars, stateVars, hookVars, gameVars>>

CloseReadyEvent ==
  /\ boot = "close" /\ boot' = "done"
  /\ Release("bootstrap")
  /\ UNCHANGED <<launchVars, bootAt, bootOk, ipcVars, stateVars, hookVars, gameVars>>

-----------------------------------------------------------------------------
\* The IPC thread, as far as the hooks go.

\* CreateNamedPipe failed.
ServerFails ==
  /\ ipc = "serving" /\ ipc' = "stopped" /\ pipeReady' = FALSE
  /\ UNCHANGED <<launchVars, eventVars, bootVars, ipcAt, early, unrestored, hooksReady,
                 bootstrapReady, shutdown, hookVars, gameVars>>

\* RequestShutdown, then UninstallAll.
ShutdownCommand ==
  /\ ipc = "serving" /\ ipc' = "uninstall" /\ ipcAt' = 1
  /\ shutdown' = TRUE /\ early' = (boot # "done")
  /\ UNCHANGED <<launchVars, eventVars, bootVars, unrestored, pipeReady, hooksReady,
                 bootstrapReady, hookVars, gameVars>>

UninstallNext ==
  /\ ipc = "uninstall" /\ ipcAt <= Len(Order)
  /\ IF installed[Order[ipcAt]]
       THEN ipc' = "restore" /\ UNCHANGED ipcAt
       ELSE ipcAt' = ipcAt + 1 /\ UNCHANGED ipc
  /\ UNCHANGED <<launchVars, eventVars, bootVars, early, unrestored, stateVars, hookVars, gameVars>>

\* memcpy of the original bytes under a running game thread; skipped when
\* VirtualProtect fails.
RestoreBytes ==
  /\ ipc = "restore"
  /\ \/ /\ ipc' = "tear" /\ target' = [target EXCEPT ![Order[ipcAt]] = "torn"]
        /\ UNCHANGED unrestored
     \/ /\ ipc' = "free" /\ unrestored' = unrestored \union {Order[ipcAt]}
        /\ UNCHANGED target
  /\ UNCHANGED <<launchVars, eventVars, bootVars, ipcAt, early, stateVars, trampoline, original,
                 installed, status, gameVars>>

BytesRestored ==
  /\ ipc = "tear" /\ ipc' = "free"
  /\ target' = [target EXCEPT ![Order[ipcAt]] = "original"]
  /\ UNCHANGED <<launchVars, eventVars, bootVars, ipcAt, early, unrestored, stateVars, trampoline,
                 original, installed, status, gameVars>>

FreeTrampoline ==
  /\ ipc = "free" /\ ipc' = "unlink"
  /\ trampoline' = [trampoline EXCEPT ![Order[ipcAt]] = "freed"]
  /\ UNCHANGED <<launchVars, eventVars, bootVars, ipcAt, early, unrestored, stateVars, target,
                 original, installed, status, gameVars>>

ClearOriginal ==
  /\ ipc = "unlink" /\ ipc' = "clear"
  /\ original' = [original EXCEPT ![Order[ipcAt]] = FALSE]
  /\ UNCHANGED <<launchVars, eventVars, bootVars, ipcAt, early, unrestored, stateVars, target,
                 trampoline, installed, status, gameVars>>

ClearInstalled ==
  /\ ipc = "clear" /\ ipc' = "uninstall" /\ ipcAt' = ipcAt + 1
  /\ installed' = [installed EXCEPT ![Order[ipcAt]] = FALSE]
  /\ status' = [status EXCEPT ![Order[ipcAt]] = FALSE]
  /\ UNCHANGED <<launchVars, eventVars, bootVars, early, unrestored, stateVars, target,
                 trampoline, original, gameVars>>

\* Mutant: the last hook is not uninstalled.
ServerEndsEarly ==
  /\ ipc = "uninstall" /\ ipcAt >= Len(Order)
  /\ ipc' = "stopped" /\ pipeReady' = FALSE
  /\ UNCHANGED <<launchVars, eventVars, bootVars, ipcAt, early, unrestored, hooksReady,
                 bootstrapReady, shutdown, hookVars, gameVars>>

\* The response is sent and the server loop sees ShutdownRequested.
ServerEnds ==
  /\ ipc = "uninstall" /\ ipcAt > Len(Order)
  /\ ipc' = "stopped" /\ pipeReady' = FALSE
  /\ UNCHANGED <<launchVars, eventVars, bootVars, ipcAt, early, unrestored, hooksReady,
                 bootstrapReady, shutdown, hookVars, gameVars>>

-----------------------------------------------------------------------------
\* The game's main thread calls hooked functions.

CallHooked ==
  /\ main = "running" /\ game = "out"
  /\ \E i \in DOMAIN Order :
       \/ /\ target[Order[i]] = "jump" /\ game' = "replacement" /\ callee' = i
          /\ UNCHANGED broken
       \/ /\ target[Order[i]] = "torn" /\ broken' = TRUE
          /\ UNCHANGED <<game, callee>>
  /\ UNCHANGED <<launchVars, eventVars, bootVars, ipcVars, stateVars, hookVars>>

\* A replacement that finds its original null answers 0 instead.
ReadOriginal ==
  /\ game = "replacement"
  /\ IF original[Order[callee]]
       THEN game' = "calling" /\ UNCHANGED broken
       ELSE game' = "out" /\ broken' = TRUE
  /\ UNCHANGED <<launchVars, eventVars, bootVars, ipcVars, stateVars, hookVars, callee>>

EnterTrampoline ==
  /\ game = "calling" /\ game' = "trampoline"
  /\ broken' = (broken \/ trampoline[Order[callee]] # "live")
  /\ UNCHANGED <<launchVars, eventVars, bootVars, ipcVars, stateVars, hookVars, callee>>

LeaveTrampoline ==
  /\ game = "trampoline" /\ game' = "out"
  /\ broken' = (broken \/ trampoline[Order[callee]] # "live")
  /\ UNCHANGED <<launchVars, eventVars, bootVars, ipcVars, stateVars, hookVars, callee>>

LauncherStep ==
  \/ CreateGame \/ ApplyScriptModeOverride \/ InjectRuntimeDll \/ LoadReturns \/ LoadTimesOut
  \/ OpenReadyEvent \/ ReadyEventSeen \/ ReadyTimesOut \/ ResumeInjectedProcess

BootStep ==
  \/ DllAttach \/ LoadFails \/ Prepare \/ StartIpcServer \/ SetPipeReady \/ PrepareHook
  \/ WriteJumpPatch \/ SetOriginalTrampoline \/ SetHookInstalled \/ InstallDone
  \/ ApplyCameraPatch \/ SetReadyFlags \/ SignalReadyEvent \/ CloseReadyEvent

IpcStep ==
  \/ ServerFails \/ ShutdownCommand \/ UninstallNext \/ RestoreBytes \/ BytesRestored
  \/ FreeTrampoline \/ ClearOriginal \/ ClearInstalled \/ ServerEnds

GameStep == CallHooked \/ ReadOriginal \/ EnterTrampoline \/ LeaveTrampoline

Next == LauncherStep \/ BootStep \/ IpcStep \/ GameStep

Spec == Init /\ [][Next]_vars

\* The launcher runs; the injected DLL may hang anywhere.
FairLauncher == Spec /\ WF_vars(LauncherStep)

-----------------------------------------------------------------------------
BusyWith(h) ==
  \/ boot \in {"patch", "link"} /\ Order[bootAt] = h
  \/ ipc \in {"restore", "tear", "free", "unlink", "clear"} /\ Order[ipcAt] = h

\* The jump, the trampoline, the pointer to it and the installed flag of a
\* hook that no thread is at work on agree, whatever bootstrap and shutdown
\* did at the same time: no jump without a trampoline behind it (except where
\* the bytes could not be restored), no pointer to a freed trampoline, no
\* trampoline leaked.
HookConsistent ==
  \A h \in Hooks : ~BusyWith(h) =>
    /\ original[h] <=> installed[h]
    /\ (trampoline[h] = "live") <=> installed[h]
    /\ installed[h] => target[h] = "jump"
    /\ ~installed[h] => target[h] \in {"original", "mismatch"} \/ h \in unrestored

\* Hooks are installed behind the game's back: as long as no client has asked
\* for a shutdown, no call of the game meets a half-installed hook. (In the
\* run HooksServe covers it: HookService loses a call only while stopping.)
GameNeverSeesInstall == broken => shutdown

\* bootstrap_ready says that every required hook is in place, until a shutdown.
ReadyMeansHooked ==
  bootstrapReady /\ ~shutdown => \A h \in Required : installed[h] /\ status[h]

\* A shutdown command that comes after the bootstrap takes every hook out and
\* says so, except for bytes that could not be restored.
ShutdownRestores ==
  shutdown /\ ~early /\ ipc = "stopped" =>
    \A h \in Hooks : ~status[h] /\ (target[h] \in {"original", "mismatch"} \/ h \in unrestored)

\* What a client reads of the hooks is so, when they are installed as when they are gone.
StatusIsTrue == ReadyMeansHooked /\ ShutdownRestores

\* A launch that is reported as failed has not let the game run; one reported
\* ok has a runtime whose bootstrap is over.
LaunchReport ==
  /\ launcher # "ok" => main # "running"
  /\ launcher = "ok" => boot \in {"close", "done"}

\* What the promise of HookService is about: a jump or its remains at a function,
\* and the end of the bootstrap's work on hooks and flags.
Hooked == {h \in Hooks : target[h] \in {"jump", "torn"}}
Settled == boot \in {"signal", "close", "done"}

Service ==
  INSTANCE HookService
    WITH hooked <- Hooked, stuck <- unrestored, over <- Settled, ready <- bootstrapReady,
         running <- main = "running", stopping <- shutdown, clean <- shutdown /\ ~early,
         stopped <- shutdown /\ ipc = "stopped", lost <- broken

\* Bootstrap, shutdown, launcher and game share the hooks without a lock, and
\* still the set of hooked functions grows only before the game runs and shrinks
\* only behind a shutdown (InstallHook and UninstallHook, hook_manager.cpp).
HooksServe == Service!Spec

\* Every launch ends, even when the injected DLL hangs.
LaunchEnds == launcher = "script" ~> launcher \in {"ok", "failed"}
-----------------------------------------------------------------------------
(* The inductive invariant.  Bootstrap, shutdown and the game's calls share *)
(* the hooks without a lock; what keeps them apart is how far each of them  *)
(* has come, and that the game runs only after the ready event.             *)

\* What the launcher knows when it resumes the game.
LaunchInv ==
  /\ launcher \in {"idle", "script", "inject"} => dll = "none"
  /\ dll # "loaded" => boot = "none"
  /\ isSet => boot \in {"close", "done"}
  /\ launcher \in {"resume", "ok"} => boot \in {"close", "done"}
  /\ main = "running" => launcher = "ok"
  /\ game # "out" => main = "running"

\* The shutdown command and the thread that serves it.
ShutdownInv ==
  /\ boot \in {"none", "prepare", "startIpc"} => ipc = "none"
  /\ shutdown => ipc \notin {"none", "serving"}
  /\ ~shutdown => ipc \in {"none", "serving", "stopped"} /\ unrestored = {} /\ ~early
  /\ shutdown /\ ~early => boot = "done"
  /\ shutdown /\ ipc = "stopped" => ipcAt > Len(Order)

\* A hook is installed only once the bootstrap has come to it.
ReachedInv ==
  \A i \in DOMAIN Order :
    installed[Order[i]] => i < bootAt \/ (i = bootAt /\ boot = "publish")

\* The hook the bootstrap is at.
BootWorkInv ==
  boot \in {"patch", "link"} =>
    /\ trampoline[Order[bootAt]] = "live" /\ ~original[Order[bootAt]]
    /\ target[Order[bootAt]] = (IF boot = "patch" THEN "original" ELSE "jump")

\* The hook the shutdown is at.
IpcWorkInv ==
  /\ ipc \in {"restore", "tear", "free", "unlink", "clear"} =>
       /\ installed[Order[ipcAt]]
       /\ trampoline[Order[ipcAt]] = (IF ipc \in {"unlink", "clear"} THEN "freed" ELSE "live")
       /\ original[Order[ipcAt]] <=> ipc # "clear"
  /\ ipc = "restore" => target[Order[ipcAt]] = "jump"
  /\ ipc \in {"free", "unlink", "clear"} =>
       target[Order[ipcAt]] = "original" \/ Order[ipcAt] \in unrestored

\* What the bootstrap has collected when it publishes the flags.
OutcomeInv ==
  /\ "hooks" \in bootOk =>
       boot \in {"camera", "flags", "signal", "close", "done"} /\ bootAt > Len(Order)
  /\ bootstrapReady => "hooks" \in bootOk
  /\ ~shutdown =>
       /\ boot = "publish" => installed[Order[bootAt]]
       /\ \A i \in DOMAIN Order :
            i < bootAt /\ Order[i] \in Required => installed[Order[i]] /\ status[Order[i]]

\* Behind a shutdown that came after the bootstrap.
GoneInv ==
  ~early =>
    /\ \A h \in Hooks : status[h] => installed[h]
    /\ shutdown => \A i \in DOMAIN Order : i < ipcAt => ~installed[Order[i]]

\* A call of the game is in a hook that stays until a shutdown.
CallInv == ~shutdown => ~broken /\ (game # "out" => installed[Order[callee]])

IInv ==
  /\ TypeOK /\ LaunchInv /\ ShutdownInv /\ ReachedInv /\ BootWorkInv /\ IpcWorkInv
  /\ HookConsistent /\ OutcomeInv /\ GoneInv /\ CallInv

=============================================================================
