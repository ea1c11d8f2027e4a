# PAL4Plus: TLA+ models

PAL4Plus (`src/`) is a launcher, an injected runtime DLL and a command-line
client for a 32-bit Windows game. The launcher updates the program files and
starts the game suspended with the DLL injected; the DLL hooks functions of the
game and serves a named pipe; the client drives the game through that pipe.
This directory models the parts where several processes or threads share state,
checks them with TLC and proves their safety properties with TLAPS.

Paths below are relative to `src/src/` of the repository.

## Inventory

| Component | State | Operations | Interacts with | What makes it correct |
|---|---|---|---|---|
| Update installer (`launcher/update_installer.cpp`) | program files, `pending.json`, one journal, backup and payload directory per task, `install.lock` | install, roll back, commit, recover, clean | other launchers and helpers through files; the game through its mapped files; the new launcher through an event | an update happens as a whole or not at all, whatever crashes |
| Update client (`launcher/update_client.cpp`, `update_manifest.cpp`) | phase, stage, URLs, cancel flag, one worker thread | check, download, cancel, take | launcher frame loop; task directories; the game | a stage is handed over complete or removed; joins return |
| Launcher program (`launcher/main.cpp`, `launcher_ui.cpp`) | accepted, taken stage, settings | start-up, frames, launch | all of the above | never installs and launches at once |
| Injection (`common/launcher.cpp`, `runtime/dll_main.cpp`, `bootstrap.cpp`) | the game process, the ready event | create, inject, wait, resume; bootstrap | hook manager, IPC server | the game runs only with its hooks in place |
| Hook manager (`runtime/hook_manager.cpp`, `x86_trampoline.cpp`) | code bytes, trampolines, original pointers, flags | install, uninstall | game thread runs through it | bytes, trampoline and pointer agree; a trampoline does what the bytes it replaces did |
| UI message seam (`common/input_queue.cpp`, `runtime/input_hooks.cpp`) | ticket queue, readiness | push, wait, drain, complete | IPC thread and game thread | an answer tells what happened; nothing late or twice |
| IPC server (`runtime/ipc_server.cpp`, `common/protocol.cpp`) | one pipe instance | receive, dispatch, answer, shut down | every runtime component | clients are answered; shutdown takes the hooks out |
| UI snapshot (`runtime/ui_snapshot_runtime.cpp`, `common/ui_snapshot.cpp`, `ui_input_plan.cpp`) | cached tree, refs | capture, click, fill, type | seam, game's window tree, clients' copies | a ref names the window it was given for; a click goes down inside it |
| Runtime state (`runtime/runtime_state.cpp`) | flags, modes, counters, one mutex | set, wait | all threads | waits wake up; a crash does not wait for the mutex |
| Settings (`runtime/runtime_preferences.cpp`, `common/inject_settings.cpp`, `inject_feature_catalog.cpp`) | settings file, hook modes, volume | load, edit, save, change | launcher, bootstrap, IPC thread, game thread | the file between two saves is the state in force; the renderer's multisampling follows its hook |
| Gamepad (`runtime/gamepad_runtime.cpp`, `common/gamepad.cpp`, `gamepad_control_hooks.cpp`) | last pad state, menu and combat flags cached from queries, held keys, cursor, camera | one tick per input frame: connect, query, send keys | game thread; IPC thread changes the hook mode | keys held are released; no key meant for the scene reaches a window; cached flags do not outlive their window |
| Background window (`runtime/background_window_hooks.cpp`, `borderless_window_runtime.cpp`, `system_message_box_hook.cpp`) | import slots, one detour, the windows' places | install, window hooks, controller, dialogs | game thread, other modules, controller thread | windows end off the screen unless one hangs; no dialog waits for a user who is not there |
| Memory debug (`runtime/memory_debug_runtime.cpp`, `common/memory_debug.cpp`) | none that lasts | query, read, write | the game's threads use the same pages | protections are restored, or left open where that fails; code is changed with consent only |
| Control client (`cli/main.cpp`, `common/launcher.cpp` 645-750) | one command line: its copy of the tree, step of the command | one exchange per request; press, hold, polling waits | IPC server | what was asked arrives; a key pressed comes up |
| Loose files (`runtime/loose_file_hooks.cpp`, `common/loose_file_overlay.cpp`) | handles of the package, load log, `gamepatch` | open, validate, fall back | the game's loader threads, the user's edits | the patch hides nothing of the package; the log is true |
| Crash capture (`runtime/crash_handler.cpp`, `common/crash_capture.cpp`, `bug_report.cpp`) | a one-shot flag, report and dump | install, capture, offer | every thread; the launcher's next session | an unhandled crash leaves one whole report |
| Process failure, renderer and layout, camera and observation hooks | local | hooks | game | see `PROJECT.json` |
| ImGui host | window | frames | launcher | - |

What is hard here: processes killed between two file operations, two launchers
at once, timeouts that race the answer, a game thread whose code is patched by
other threads, clients that act on copies of a window tree the game changes, a
crash while any lock may be held. `PROJECT.json` lists each of these
hazards at its line with the property that covers it.

## Modules

| Module | Models | Actions follow |
|---|---|---|
| `AtomicUpdate` | what an installation promises: the whole tree of a release, replaced in one step | - |
| `UpdateInstaller`, `UpdateInstallerProofs` | helpers, launchers, files, lock, game, crashes | `RunInstaller`, `InstallTransaction`, `RollbackTransaction`, `CommitTransaction`, `RecoverInterruptedUpdate`, `LaunchInstaller`, `main` |
| `UpdateClient`, `UpdateClientProofs` | worker thread, UI frames, task directories | `Client::Impl`, `Client`, `DrawUpdateDialog`, `DrawLauncherFrame` |
| `UiCommands` | what the seam promises a client: messages in order, `ok` for all of them, at most one left behind | - |
| `UiMessageSeam`, `UiMessageSeamProofs` | IPC thread, ticket queue, game thread, OS queue | `DispatchUiMessageCommand`, `SynchronousUiMessageQueue`, `DrainMainThreadUiQueue`, `Hook_ProcessInputs`, `DispatchClientClick`, `DispatchTextInput` |
| `HookService` | what game and clients are promised about hooks: more only before the game runs, fewer only behind a shutdown | - |
| `HookLifecycle`, `HookLifecycleProofs` | launcher, bootstrap thread, IPC shutdown, game thread | `LaunchInjectedProcess`, `DllMain`, `RuntimeBootstrapThread`, `HookManager`, `UninstallAll` |
| `X86Trampoline`, `HookInventory` | the decoder of instructions and their branches; the registered hooks | `CopyRelocatingX86Bytes`; `BuildHookInventorySkeleton` |
| `Trampoline`, `TrampolineProofs` | one hook's bytes: what is compared, copied, moved and replaced | `InstallHook`, `CopyRelocatingX86Bytes`, `WriteJumpPatch`, `UninstallHook` |
| `Hooking` | `HookLifecycle` and `Trampoline` side by side | - |
| `Gamepad`, `GamepadProofs` | pad, polled user interface, space key, D-pad, sticks | `Hook_ProcessInputs`, `TickGamepadInputCore` and what it calls, the selections of `common/gamepad.cpp` |
| `Settings` | the settings file, launcher, bootstrap, the two saving threads | `ConfigureGuiLaunch`, `LoadPersistedRuntimePreferences`, `SavePersistedRuntimePreferences`, `ApplyHookModePreference`, `HandleGiTalkVolumeHotkeyMessage` |
| `BackgroundWindow` | root windows, import slots, dialogs, controller thread | `InstallBackgroundWindowHooks` and its hooks, `BackgroundWindowControllerThread`, `InstallAdditionalDialogHooks` |
| `UiRefs` | window tree, snapshot cache, clients with their copies | `HandleSnapshot`, `HandleClick`, `HandleClickPath`, `HandleWaitPath`, `CaptureUiSnapshotInternal`, `DispatchClientClick`; operators for `ui_snapshot.cpp`, `ui_input_plan.cpp`, `ui_coordinate_space.cpp` |
| `ControlPipe` | the pipe instance, IPC thread, clients, hook-call and PALIV waits | `IpcServerThreadProc`, `SendPipeCommand`, `HandlePress`, `HandleHold`, `HandleWaitEvent`, `WaitForHookCalls`; operators for `protocol.cpp` |
| `MemoryDebug` | pages, their protection, one command, the game's threads | `ReadMemoryRegion`, `WriteMemoryRegion`, `HandleMemReadScalar`, `HandleMemWriteScalar`; operators for `memory_debug.cpp` |
| `LooseFiles` | `gamepatch`, package handles, loader threads | `Hook_OpenPackageResourceFile`, `OpenLooseFileInPackageHandlePool`, `Hook_TextScriptInitialize` |
| `CrashCapture` | threads, state mutex, reports and dumps, the launcher's offer | `VectoredCrashHandler`, `UnhandledCrashFilter`, `CaptureCrashArtifactsImpl`, `TrySetCrashArtifacts`, `OpenBugReport` |
| `Runtime` | the seven above side by side, with the shutdown flag that pipe and background window share | - |
| `MemoryAndFileProofs`, `RuntimeProofs` | theorems about `Runtime`: of its memory and files, and of its other five parts | - |

A `...Proofs` module extends the module it is about and holds its theorems.
`MC*.tla` give the constants of each specification their values; a `.cfg` is one
run. Operators commented *Mutant* are plausible bugs of the definition that
follows them; no specification uses them. `PROJECT.json` says which property
each one breaks, so that every property is known to depend on the code.

### UpdateInstaller

One action is one durable file operation or one look at shared state. A helper
is a program counter (`helper`) with the set of files left in its current loop
(`todo`); the loops over files run in any order, except that the launcher's own
file comes last as the sort makes it. Single replacements and writes of task
files are atomic because the code writes a temporary and renames it with
write-through. `disk` maps managed paths to contents: an original, the release
of a task, or nothing. The action for an exception may be taken at any step that
can throw, since disks fill and files are locked by anyone. `PowerLoss` stops
every process and keeps the files; `HelperCrash` stops one helper. The wait for
the new launcher ends with its event, its exit or the timeout. A helper that
fails shows a message box and still has `install.lock` open: it goes to `report`,
from which only the user's `Dismiss`, a crash or a power loss ends it, and a
recovery that meets it is refused.
Abstracted: path checks, hashes (a file is its release), JSON, the user
interface. The game and the rights of other programs are external.

### UpdateClient

`Stop` blocks the UI thread until the worker has ended, so its callers are two
actions each: one that sets the flag and one that runs when the worker is gone.
A frame looks at the phase three times (`BeginFrame`, `DrawUpdateDialog` and
the action of a click), and the worker may step in between. A release carries
its version, a manifest its package hash; downloads fail or succeed.

### UiMessageSeam

A ticket is open, completed or canceled; the wait may time out whenever it is
open. The game thread's loop is external up to `ProcessInputs`; it may block in
`WaitMessage` with nothing in its window queue. The window appears once, the UI
manager comes and goes. `Push`, `TryPop`, `IsCanceled`, `Complete` and the wait
take their locks separately and are separate actions. `Script` gives the
messages a command sends; a command in `Alone` has a behaviour to itself.

`OrderlyCommands` says that the seam implements `UiCommands`, whose state is the
command, the answers, the number of messages the game `Taken` of each command,
and the `Straggler`: the command that was given up when the game thread had already
found one of its messages not canceled. The game takes that message before any of a
later command or, without its UI manager, drops it; nothing else outlives an answer. A
command that leaves for the OS queue (`viaOs`) is out of the promise, as it is
out of the code's hands.

### HookLifecycle

A hook is its code bytes, its trampoline, the pointer to it and two flags, each
written by an action of its own. Between bytes being half restored and restored
(`torn`) the game thread may execute them. Initialisation steps that only
contribute an outcome to `bootstrap_ready` are one action (`Prepare`). Failures
of system calls are alternatives of the actions.

`HooksServe` says that all of it implements `HookService`: a function is `Hooked`
if its first bytes lead to the runtime, wholly or torn, and the installation is
over (`Settled`) once the flags are set. Trampolines, pointers and the four
threads are gone from that view. Its `Lose` is the price of a shutdown under a
running game; its `Finish` leaves no function hooked but those whose bytes
`VirtualProtect` kept from being restored, if the installation was over when the
shutdown came.

### Trampoline

One behaviour is one hook, from the comparison of its prologue to its removal, in the
order of `InstallHook`; `HookLifecycle` takes these steps for a few and adds the
threads. Bytes are numbers and the copying loop takes one instruction at a time.
`OpcodeLength`, `ModRMLength` and `InstructionLength` of `X86Trampoline` are the decoder:
the opcodes it knows, the prefix, ModRM and SIB bytes. `Displacement` and `WithDisplacement` read and
write four bytes in two's complement. Failures of `VirtualAlloc` and
`VirtualProtect` are alternatives; a failure leaves the function alone. The histories
`image` (what the function was) and `starts` (where the loop found an
instruction) say what `HookedCodeRuns` compares: each instruction of the trampoline
has the length it had and the same bytes, or is a branch to the same place, and the
next one starts behind it. `RegisteredHooksFit` is about the data of
`common/hook_inventory.cpp`, which `HookInventory` repeats.

Addresses are integers. In the 32-bit build the difference of two addresses always
fits its 32 bits, so that the tests of the range in the code never fail and the
processor wraps around as the subtraction did; `Reach` keeps those branches of the code
in the model.

### Gamepad

A tick is the sequence of actions from `ProcessInputs` to `EndFrame`, in the
order of `TickGamepadInputCore`; `current` and `prev` are the two
`XINPUT_STATE`s as sets of inputs held down. One thread runs all of it, so the
game changes its windows (`ui`) between ticks or, on Esc, within one. The code
knows `ui` only through queries that may fail or are not due: `systemMenu`,
`standalone`, `combatActive`, `wheel` are what it remembers, and the properties
compare them with `ui`. `raw` is the native state of the space key that the
game's poll and the mirror both advance; `holdSpace` also is what Windows sees,
since it changes exactly when `SendInput` succeeds. `sent` is a history
variable: what the last step sent. Intervals are flags (`menuFresh`,
`combatFresh`) that `TimePasses` clears; the repeat of a held input may be due
or not. `SendInput` may refuse any change; `refused` remembers that it did, until
the next change it takes. The mapping of buttons is the default one, to which saved settings are
migrated; page numbers and the five sectors are abstracted to "another page", "a
sector". Not in this module: the mouse pointer, the camera, the speed of a
movement.

### Settings

`SaveInjectPersistedSettings` truncates the file and fills it again, so a save
is four actions: it reads the file for the script mode it carries over
(`SaveLoad`), collects the state in force (`SaveCollect`), truncates
(`SaveOpen`) and writes (`SaveWrite`). A reader in between meets an empty or a
cut file (`CutOf`); a reader of an unreadable file or none gets the defaults, or
those of the file of older versions. The launcher keeps what it read at its
start and writes all of it at the end. Names and numbers in the file are values
of a record; four hooks stand for the inventory: one the launcher does not list,
one that follows the resolution, one the multisampling depends on, and the
inputs. `QuietSaveIsWhole` speaks of saves that do not overlap: overlapping ones
may lose a setting, which nothing in the repository forbids.

The level of multisampling asked of the renderer (`gpu`) has two writers:
`set_hook_mode` on the IPC thread, which sets the mode and then applies the level
(`ApplyHookModePreference`, `ApplyHookModeLevel`), and the present hook on the game
thread, which reads mode and level and then applies the level (`PresentReads`,
`PresentWrites`). No lock joins the two steps of either. `MsaaFollowsHook` says what
this leaves: between two commands the level is the one the mode asks for, except
behind a call of the hook that a whole command overtook (`stale`), which leaves the
old level until the next command or the next call that replaces. TLC finds that
exception when `stale` is left out of the property.

### BackgroundWindow

A root window is four facts: made, shown, off the screen, still of the style its
creator gave it. The game calls USER32 through its import table; other modules,
the runtime's own borderless mode and addresses resolved earlier go around it
(`throughImport`). Installation patches the imports in the order of the code and
stops at the first failure.

A scan of the controller takes the list of the windows (`ControllerScans`), looks at
each one once (`ControllerExamines`) and then makes the calls it found `Needed`, one
at a time: the style, the place, the showing (`ControllerCalls`). Each call waits
for the thread of the window, so that a window which `Hangs` stops the controller for
all windows until it `Responds`. Between the look and the calls the game goes on. The
modules' dialog slots are patched between two scans, every ten milliseconds.

### UiRefs

A tree is the preorder sequence of its windows, each with its parent's place;
the ref of a window is that place, as the capture counts from `e1`.
`Serialize` and `Parse` are the line format with depths. `ViewportPlan` is the
scaling with a centred viewport, in one coordinate: the smaller of the two ratios,
below or above 1, as an exact fraction `num / den` where the code has a `float`, and
an origin that may be half a pixel. `ToPhysical` rounds as `lround` does and keeps the
sixteen bits of a mouse message, the client refuses a point outside them
(`Projects`), and the game's own way back (`Inside`) does not round. A click through
rounding lands if half of the window is wider than half a pixel (`Wide`). What the
fraction leaves out is the error of 24 bits, which is far below a pixel.
`IsTree` is what a capture yields: an element's parent comes before
it and is still open. The click planned refuses a window without area. A click is planned by the client in a copy of the tree (queue
dispatch) or carried out by the runtime from its cache (direct dispatch). The
game replaces its tree at any time; `moved` remembers whose copy it outdated,
and the properties speak of the others. `RefNamesTheSame` asks nothing of a ref that
the runtime refuses (`Accepted`), and says which window an accepted one names.

### ControlPipe

One instance of the pipe is created, listened on, read, answered and closed per
request. A client waits for the instance and opens it in two actions, so two
clients may race for it; every exchange may fail on either side. The text a
request types is a sequence of characters over a small alphabet in which
percent, space, equals and the digits of an escape differ; parsing, escaping and
cutting into tokens are the code's. `press` and `hold` are several exchanges with
a release at the end. The game counts hook calls and publishes PALIV entries
only while a request waits for them: at other times nobody looks at the counter
until a request has taken its target from it. `WaitForPalivEntry` waits for an
entry equal to the one asked for, so that a wait may miss an entry which another
one replaces before the thread runs again; the code promises no more.

### MemoryDebug

Three regions of two bytes with base-4 digits: addresses, widths, signs and
regions' ends behave as with 32 bits and bytes of 256. The command keeps what
`VirtualQuery` said; the game writes and changes protections between all later
steps. Nobody looks at the result of the `VirtualProtect` that restores a protection, so
that `RestoreProtection` may fail and the command still report success: the region is
then in `failed`, and `Left` says how it stays, as open as the write needed it until
the game sets it anew. A region is in `lost` when the game changed it while a command
held its protection: the restore may put the older one back, or fail, and
`ProtectionRestored` says nothing of it. `overtaken` marks a command whose region the
game changed after the check, which `CodeNeedsConsent` excepts.

### LooseFiles

A path is absolute or not, a sequence of directories, a name and an extension; a
file is absent, empty, good or bad (a compiled script that does not have the
length it declares). The hook validates the file, then opens it for the game, and the user
may edit it in between. The package has `SlotCount` handles of which `OpenLimit`
may be open. Whoever opens a file looks at the limit (`ClaimHandle` for the hook,
`CallOriginalPackage` for the game's reader), finds a slot, fills it and counts it, in
steps of their own; a close frees its slot and counts after that. The hook holds the
runtime's mutex from the first of these to the last, the game's reader and close take
no mutex. `crossed` remembers that code of the game was in the pool while another
thread was: from then on a slot may be given twice and the count may lose a change
(`Counted`), and `HandlesCounted` promises nothing. Until then the limit is kept and
the count is right, which rests on the mutex: the mutant `ClaimHandleUnlocked` has
none. A text script may be refused although it is there, because its path has no form
the C library takes. `answer` is the record in the load log of the step just taken.
Rotation of the log is left out.

### CrashCapture

A thread runs, holds the state's mutex, is in the capture (snapshot, report,
flush, dump, artifacts) or in the unhandled filter. An exception goes to the
vectored handler first; then somebody handles it or nobody does. Disk and
capture may fail at any step and the process may end. `first` remembers what
became of the exception that took the one-shot flag, because a handled one that
takes it leaves a later crash without a report of its own: the code accepts that,
and `CrashIsReported` excepts it. It takes for granted that the game never replaces
the unhandled filter after the runtime has set it: a game that did would take from the
runtime the exceptions which the vectored handler leaves alone. The feedback page keeps a text's length in
bytes; a character of two bytes can be cut in two, and percent-encoding triples
each of its bytes.

### Runtime

The parts share no state but `shutdown`, and none waits for another. A behaviour
therefore follows one part, chosen at its start, with every process that takes
part in it; the others stay in one initial state. The background window is two parts,
its windows and its dialogs, which share only the installation. The states of the composition
are the sum of the parts' and not their product, and no interleaving is lost that
a property of one part could tell apart.

## Runs

| Run | Shows | Bounds |
|---|---|---|
| UpdateInstaller | refinement of AtomicUpdate, recoverability, launcher last, commits final and confirmed, helpers end or report | 1 task with published, added and removed files, 2 launchers; 32,872 states |
| UpdateInstallerTwoTasks | mutual exclusion with competing tasks | 2 tasks, 2 launchers, 2 files; 694,300 states |
| UpdateInstallerDangling | *violated*: the pointer may outlive its journal (finding 1) | 1 task |
| UpdateInstallerGame | *violated*: the game may run during a replacement (finding 2) | 1 task |
| UpdateClient | hand-over, no leaks, no install-and-launch, one package and the newest, joins return | 2 mirrors, 3 versions, 2 packages, 2 tasks; 142,640 states |
| UiMessageSeamTwo | order within a command with its fallbacks, truthful tickets, abandoned tickets stay out, refinement of UiCommands, clients are answered, a woken game drains | a click of 2 messages alone, or 2 commands of typed text or a posted message; 594,067 states |
| UiMessageSeamAccessor | *violated*: accessor on the IPC thread (finding 3) | 1 command |
| Hooking | hooks consistent, flags truthful, shutdown restores, refinement of HookService (so the game never sees the installation), launches end; trampolines do what the bytes they replace did, failures leave the function alone, every registered span can be copied and is not branched into | 3 hooks, the middle one required; the 39 hooks of the inventory and 6 others, the expected bytes and others, 3 places of the trampoline; 354,647 states |
| Gamepad | the space key is released and shown as pressed once, no scene key reaches a window, a combat stops the player, no menu flag is left over, whatever `SendInput` returns | 5 buttons, one direction, one stick, one input at a time and two pairs, 7 windows; 913,030 states |
| GamepadDpadHold | *violated*: the D-pad changes its meaning in one hold (finding 4) | as Gamepad |
| Runtime | settings saved whole and multisampling after its hook; windows off the screen, no dialog waits; refs and planned clicks; requests arrive, keys come up; protections and consent; the patch hides nothing, the log is true; one whole report per crash, the newest offered, no capture waits | 2 savers, 2 launches, 1 mode command, 1 hotkey; 2 windows, 2 modules; 2 trees of 4 windows, 2 clients, 3 commands; 1 text, 2 pipe commands; 3 regions, 2 commands, 2 steps of the game; 2 resources, 2 handles, 2 threads; 2 runs of 2 exceptions; 431,575 states |
| UiRefsDirect | *violated*: the runtime's own click leaves out the parents' positions (finding 5) | `--direct-seam`; 1 client, 2 commands, 1 tree of 3 windows, a window of 4/5 of the UI |

Why these bounds: a second task is what makes pointers and locks collide, a
second launcher what makes recovery and cleaning collide, and a third of either
only waits like the second. Files need one of each kind: the launcher, one the
game maps, one that is new, one that is removed. Two commands let a late drain
meet the tickets of an earlier command; three hooks put a required one between
optional ones. Two mirrors are the two of `kSources`. The trampolines lie
below the game, near the DLL, and farther than `Reach`, which is half of 32 bits
because TLC's integers end there; the six hooks the inventory does not have begin
with a short jump, a cut instruction, a prefixed call or a jump to themselves, or have
a span of four bytes or a replacement out of reach. In `Gamepad` the buttons
left out are bound like one that is there, the pairs are a key held while a
direction opens a page and a button pressed while the stick is pushed; the shell
is validated after 1 frame instead of 4 (a longer wait adds frames in which
nothing is asked).

In `Runtime`, two savers of the settings are all there are, two launches let a
launcher write what an older game has changed, and one mode command (to or from
observing) with one hotkey makes the savers overlap and lets a call of the present
hook be overtaken; the launcher's pages switch the gamepad off and the screen to wide, and
are left without it as well; the volume starts between its ends. A big and a small window are the two kinds the
controller tells apart, and two are enough for one that hangs and one that is out of
place; the two modules are the game, whose import is patched,
and one that is not. The two trees hold a child of a displaced parent, a window
without a name and the same windows in another order, so that every ref changes
its meaning; three commands are a snapshot of one client between the snapshot and
the use of another. The window is 9/5 of the user interface, with half a pixel at its
edges, and 4/5 of it in UiRefsDirect. The text contains an escape that is none, a space, an equals
sign and a percent sign at its end. The requests to the memory cross the end of a
region, name code with and without consent, negative numbers and bit patterns; the
steps of the game fall between any two of a command; it takes two for it to turn
a page into code and back behind a command that checked it in between. The limit of one open
handle out of two is met by two threads, each of which may be the game's, in two
requests and as many closes as there are handles; the count has three values, so that a
lost change is seen at both ends. One edit or mode switch falls between any
two steps, and every content of `gamepatch` is tried at the start, the same for all
its files (edits mix them). The bodies of the feedback page are below, at and above
the limit of 12 bytes, with a character across it. Two exceptions are a handled one
and a crash, or two crashes at once; two runs leave an older report.

Bounded in guards are the commands, calls, launches, hotkeys, repeats, edits,
exceptions, runs and game steps named `Max...`, `Alone` of the message seam, and the
moments at which the game steps in `ControlPipe`.

Runs without deadlock check (`CHECK_DEADLOCK FALSE`): the message seam stops when
no client is left and the server was shut down while the game waits for a message;
Hooking stops when the launch has failed or every thread has ended, or the one hook
is removed or has failed; the parts
of Runtime, and UiRefsDirect, stop when the bounded commands are used up, the
pipe's server has ended or the game's thread waits in a dialog.

### Fairness

- `UpdateInstaller!FairSpec`: weak fairness of each helper's own steps. Windows
  schedules it, and each of its waits, for the parent, for the lock and for the new
  launcher, times out or fails at once. The message box of an error has no timeout:
  `Dismiss` is the user's and not fair, and `HelperTerminates` says that a helper ends
  or stands in that box. Nothing is assumed of users, launchers or the game.
- `UpdateClient!FairSpec`: the worker runs and its network calls have timeouts;
  the UI thread goes on when its join can.
- `UiMessageSeam!FairSpec`: the IPC thread; nothing of the game thread, because
  the wait has a timeout. `WokenIsDrained` says what follows if the game's loop
  runs, so that fairness is its hypothesis.
- `Gamepad!FairSpec`: frames go on, as the game polls its input in every loop,
  and strongly that 100 ms end between two frames, however many fit in. What the
  player and the game do is not fair; the two liveness properties name a state
  that lasts as their hypothesis.
- `HookLifecycle!FairLauncher`, and `Hooking!HookingSpec` which has it as a part: the
  launcher, nothing of the injected DLL.
- `Runtime!Spec`: the controller thread of the background window, and one thread only:
  weakly its own steps (`Scans`), since it sleeps a millisecond between two scans;
  strongly its `Calls`, which wait for the thread of the window they are made on. A
  thread that handles messages handles those sent to its windows first, so that a call
  returns if the window responds again and again. That it does is not assumed but a
  hypothesis of `KeptOffscreen`, of every window of the process, since one that hangs
  for good stops the controller for all; and so is that in the end the others leave the
  window alone, because the controller looks at a window once and calls on it later.
  TLC finds a window left on the screen if either hypothesis is dropped. The scans end
  with the shutdown.

## Proofs

The theorems hold for every value of the constants that satisfies the named
assumptions, and TLC evaluates those assumptions in every run. Each has the
same argument: an inductive invariant (`IInv`, or `TrampolineInv`) that TLC agreed with first, one
lemma per part of it with one step per action, a lemma for the initial states,
and a theorem `Spec => []IInv` from which the properties follow. What is stated
by a theorem is every invariant and every action property of the passing runs
but two, `CaptureNeverWaits` and `RegisteredHooksFit`.

### UpdateInstallerProofs

Any files, tasks, launchers and manifests; `ManifestAssumption` is what
`ParseManifest` accepts, `DistinctAssumption` keeps special values apart.
`TypeCorrect`, `Invariant`, `OnlyOneInstaller`, `AlwaysRecoverable`,
`NoRollbackAfterCommit`, `LauncherPublishedLast`, `CommitIsConfirmed`, and
`Refinement`: `Spec => WholeUpdates`, so that `UpdateInstaller` implements
`AtomicUpdate` under `Tree`, the tree a recovery would leave.

`LockInv`: whoever is past `acquire` holds the lock. `PendingInv`: from the write
of the pointer on it names the task in transaction, and a helper launched by a
recovery finds its task still pending, although the recovering launcher
released the lock in between; a helper with a journal always finds its task
uncommitted. `PhaseInv`: journal and program counter agree. `BackupInv`: the
backups copied so far are the files. `DiskInv`: what each loop has left behind.
`OneInstaller` and `Recoverable` follow but are not inductive: without `DiskInv`
a step at the end of a loop could claim anything about the disk, and without
`PendingInv` a second task could overwrite the pointer. `DiskInv` is also why
the launcher's file is published last, since what the loop has left behind is
then everything else. The refinement has one case that is a step of
`AtomicUpdate`, `Commit`; all others leave `Tree` alone, because either nothing
uncommitted is pending and the disk is not touched, or the pending task masks
the files it changes.

### UpdateClientProofs

Any mirrors, versions, packages and tasks (`ClientAssumption`: at least one
mirror, versions are numbers). `StageHandedOverWhole`, `NoStageOrphaned`,
`InstallOrLaunch`, `MirrorsAgree`. `OwnerInv` gives each directory one owner, the
worker, the status or the installer; `WorkerInv` says in which state each step of
the worker finds its own; `FrameInv` says what the UI thread may still do with
the phase it saw, because a phase is seen in one step and used in another.
`CountInv` and `MirrorInv` are about the worker's loops over mirrors.

### HookLifecycleProofs

Any hooks in any order, any of them required (`HookAssumption`: no hook twice).
`HooksConsistent`, `InstallUnseen`, `StatusTellsTruth`,
`LaunchIsReported` and `Refinement`: `Spec => HooksServe`. Bootstrap and shutdown take no common lock; `ReachedInv`,
`ShutdownInv` and `GoneInv` say how far each has come in the order of hooks, so
that the two never work at one hook (lemma `Separate`), and `BootWorkInv`,
`IpcWorkInv` describe the one hook in the middle of its change. `LaunchInv` ties
the game's first step to the ready event and with it to the end of the
bootstrap, which is why the game meets no half-made hook. In the refinement the
jump and the two ends of a restore are the steps that move `hooked`; that the game
does not run yet at the one is `LaunchInv`, and that the last leaves nothing hooked is
`GoneInv` with `ShutdownInv`.

### UiMessageSeamProofs

Any commands, scripts and number of commands (`SeamAssumption`: a command sends
at least one message, and "none" is no command). `TicketsEnd`,
`CommandsInOrder` and `Refinement`: `Spec => OrderlyCommands`.
`QueueInv`: the queue holds tickets in the order of their making, unseen, newer
than the one in the game thread's hand. `OpenInv`: at most the last ticket is
open, so that a late completion can only meet a canceled one.
`RestInv` counts: what the game saw of the command and what is left of it are
its script. `NextInv` is the part without which the order is not inductive: a
ticket that may still be seen carries the message that comes next, also while
it is in the game thread's hand and the IPC thread is about to give up.
In the refinement a dispatch is one step of the game's taking: `NextInv` makes it the
next message of its command, and `OpenInv` makes that command the one being served or
else the straggler. A timeout makes a straggler of the ticket that is past the check of
its cancellation, and only of it (`NoStraggler`).

### TrampolineProofs

Any functions, prologues, spans, replacements and places, any bytes a function may
begin with (`TrampolineAssumption`: the displacement has 32 bits at most).
`Invariant` and `HookedCode`. `CopyInv` is the invariant of the copying loop:
before the offset the trampoline has the function's instructions, behind it still the
bytes of the memcpy, which is what the decoder's answer about the original bytes says
about the copy. `DisplacementReads`: a displacement written to four bytes
reads back, for every 32-bit number. `SameLength`: the decoder's answer depends on no
byte behind the instruction, so that adjusting a later branch, or the jump back,
changes no instruction before it (`StaysSame`). `RegisteredHooksFit` is about the
registered bytes and is left to TLC.

### GamepadProofs

Any buttons, pads and windows, delays and outcomes of `SendInput`
(`GamepadAssumption`). `SpaceFollowsButton`, `PressSeenOnce` and `ShopKeepsKeys`
have no other hypothesis. `HoldInv`: what `holdSpace` says is what the last tick asked
for unless that was `refused`, and with no pad nothing is asked for. `RawInv`: the
game's own poll has advanced the state of the key by the time the mirror advances it
again. `ShopInv`: the poll of the windows is skipped only for inputs that have not
changed, and then no press is handled.

### MemoryAndFileProofs

Memory: any address space cut into regions, any requests and any steps of the game
(`MemoryAssumption`). `MemoryIsHeld` and `CodeIsGuarded`. `CommandInv`: past its
check a command stays in the region that was checked. `SeenInv`: what it saw of the
region is there, and what it took away is what it holds, unless the game overtook it.
`ProtectInv`: apart from regions that are lost, what is left of the game's wish (`Left`)
and what is in force differ in one region at most, the one of the command, which holds
the difference. `ValueInv`: what is reported as stored still decodes to it. The lemma
`ReadBack` shows for every type and value that decoding inverts encoding.
`CodeNeedsConsent` excepts commands during which the game changed a protection:
with two steps of the game it can make a page code between the check and the
write, and nothing in the runtime can prevent it.

Files: any resources, threads and handles (`RuntimeAssumption`: some handle may be
open, there are at least as many handles, and the count has room for them).
`GamepatchIsSafe`. `RouteInv` says which hook a thread is in and with
which file, `ViewInv` that what was validated is still valid unless it was
edited. `PoolInv`: two claims of the hook are never in the pool together; and as long
as nobody `crossed`, one thread is there at most, and the count differs from the
handles by what that thread has still to do. It rests on cardinalities of finite sets.

### RuntimeProofs

- `NoDialogBlocks` (`WindowAssumption`, any windows and modules): the mode is
  ready only with the detour in place, which every way to a dialog ends at.
- `CrashIsCaptured` (`BodyAssumption`, any threads, runs and texts): `FlagInv`
  gives the capture to one thread per run; `DiskInv` and `OpenInv` tie the files
  to the run. `TrimmedFits`: whatever the text, what is offered fits the limit
  and ends with a whole character.
- `SettingsAreKept` (`SettingsAssumption`, any mode commands and edits):
  `QuietInv` says, as long as no save overlapped or failed, what each step of the
  one save knows. `PresentInv`: a call of the present hook that no command overtook
  carries the level in force. Its lemmas follow the types of settings through loading,
  merging and normalising.
- `RequestsArrive` and `HeldKeyIsReleased` (`PipeAssumption`, any texts and
  clients): `ServeInv` says that the thread serves the one client that reads.
  `UnescapeEscape` and `ParseFormat`: every text survives being escaped, cut into
  tokens and unescaped.
- `RefsAreKept` (`RefsAssumption`, any trees that are trees, any clients):
  `SeenInv`, `CopyInv` and `SendInv` follow a tree from the capture into a
  client's copy and back as a ref. `ParseSerialize`: a written tree reads back.
  `RoundedFacts`: rounding is off by half a unit at most, for every fraction, so that
  a point half a window inside its window stays inside through any scale. The sizes of
  window and user interface need only be positive (`RefsAssumption`).

Texts, trees and the trimming of a report are recursive functions over numbers.
That such a function exists and has its equation is proved by the least number:
`SmallestElement` and `LargestElement` follow from the well-foundedness of the
numbers, `SetInduction` from `SmallestElement`, and `DescentExists`,
`EscapeExists`, `AlongExists` and `ParseExists` build the function up to each
number with it.

### What the proofs corrected

Two type invariants bound a quantifier too far (`HookLifecycle`,
`UpdateClient`) and were true for the wrong reason; `CodeNeedsConsent` did not
except the race above, which one step of the game could not show, so the bound
is now two. `InOrder` says the same as before by counting the messages of a
command instead of selecting them into a sequence, and the client's stable sort
is stated by what it does: an order of the releases in which the newer comes
first and equals keep their places. `UiRefs` planned
a click in a window without area, which the client refuses.

### Only model-checked

Liveness under fairness (`HelperTerminates`, `JoinReturns`, `Answered`,
`WokenIsDrained`, `LaunchEnds`, `NoStaleMenu`, `CombatStopsPlayer`,
`KeptOffscreen`) and `CaptureNeverWaits`, which speaks of `ENABLED`, are outside
the prover's reach; `RegisteredHooksFit` is about the constants of its run. The runs that expect a violation refute a property and have
nothing to prove.

## Findings

1. The cleaning loop of `RecoverInterruptedUpdate` holds no lock. A launcher that
   starts between a helper's journal and its `pending.json` finds no pointer and
   cleans. If that installation fails, the launcher can delete the task once the
   helper has written `rolled_back` and before it has removed `pending.json`; if the
   helper dies there or the removal fails, every later start of the launcher fails in
   `ReadJournal`. The run shows it with a helper that is killed.
2. `InstallTransaction` looks for the game once and rollback never does, while
   `docs/auto_update.md` promises replacement only without a running game.
3. `RefreshUiDispatchReady` calls the game's UI accessor on the IPC thread,
   against the rule stated in `ipc_server.cpp`.
4. `UpdateDpadNavigation` chooses the meaning of the D-pad again when the
   context changes in the middle of a hold, while `docs/architecture.md:182` and
   `docs/launcher_guide.md:39` say that a hold keeps it.
5. `DispatchClientClick` takes a rectangle relative to its parent for an absolute
   one: a click by ref that the runtime carries out itself (`--direct-seam`, and
   `fill`) misses a window below a displaced parent, and may hit another one. The
   click the command line plans, which is the default, adds the parents' positions,
   as `tests/inject_tests_main.cpp` expects, and lands.

Not checked as a finding: an old ref is not refused after another snapshot, against
`README.md:207` and `docs/architecture.md:236`. `LookupCachedUiSnapshotNodeInternal`
compares no more than the number, so that `e3` of an older tree is taken for `e3` of
the newer one. `RefsHold` does not ask for either: it says what an accepted ref names
while the game changes nothing, where the two are the same window.

Not checked as a finding: a click falls back to the OS queue, of the foreground
window if the game has none, while `docs/architecture.md:239` says that clicks
do not depend on the foreground window's queue.

## Plan

Modelled first is what can lose a user's installation (the updater), then what
crashes or freezes the game (message seam, hooks), then what loses input
(gamepad), then the smaller parts that `Runtime` puts side by side. The safety
properties are proved, and updater, message seam and hooks are shown to implement
an abstract specification each. Left, in this order:

- an abstract settings store, which `Settings` implements as long as saves do not
  overlap;
- the gamepad's mouse pointer (requested and applied hiding) and who owns the
  camera; the order of versions in `update_manifest.cpp`, with the lemma that it is a total order.

## Not modelled

Drawing and layout (renderer, HUD, widescreen, fonts, video, minimap): floating
point without protocol. The ImGui pages. Network and archive code below the
level of "fails or succeeds". The game itself, except where the hooks meet it.
The walk over the game's window tree, which reads foreign memory without any
protocol. Effects of a shutdown on a running game: the code accepts them.
