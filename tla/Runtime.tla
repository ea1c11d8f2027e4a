------------------------------- MODULE Runtime -------------------------------
(* The parts of the runtime that the control client and the user reach while  *)
(* the game runs: the settings, the background window, the UI refs, the       *)
(* control pipe, the memory commands, the loose files and the crash capture.  *)
(* They share no state but the shutdown flag, and none waits for another one, *)
(* so that a step of one part leaves what the properties of the others speak  *)
(* of as it was.  A behaviour therefore follows one part, chosen at its       *)
(* start, among all the processes that take part in it; the other parts stay  *)
(* in one initial state.                                                      *)
EXTENDS Integers, Sequences, FiniteSets

CONSTANTS Commands, Edits, MaxVolume, MaxModeCommands, MaxHotkeys, MaxLaunches,
          Big, Small, Modules, MaxCreates,
          Trees, Paths, LogicalSize, ClientSize, MaxUiCommands,
          Clients, Texts, MaxCalls, MaxPipeCommands, MaxRepeats,
          Regions, Requests, ModuleBase, ImageBase, AddressLimit, MaxRequests, MaxGameSteps,
          Threads, Resources, Packaged, SlotCount, OpenLimit, CountSize, MaxLoads, MaxChanges,
          Bodies, UrlLimit, Prefix, Suffix, TrimStep, MaxRuns, MaxFaults

(* The package's handles outnumber what it opens and its count has room for   *)
(* them, it has only what can be asked for, and an empty report fits into an  *)
(* issue's address; the rest are bounds of a behaviour.                       *)
ASSUME RuntimeAssumption ==
  /\ SlotCount \in Nat /\ OpenLimit \in 1..SlotCount /\ CountSize \in Nat /\ CountSize > SlotCount
  /\ Packaged \subseteq Resources
  /\ Prefix + Suffix <= UrlLimit /\ TrimStep > 0
  /\ MaxLoads \in Nat /\ MaxChanges \in Nat /\ MaxRuns \in Nat \ {0} /\ MaxFaults \in Nat

VARIABLES part,   \* the part this behaviour follows
          file, legacy, launcher, game, rt, gpu, presenting, saver, count, overlap, stale, saves, chosen,
          install, patched, slots, detour, events, stage, win, hung, todo, pending,
          blocked, created,
          tree, focus, cache, viewer, viewed, moved,
          server, pipe, client, calls, paliv, keys, sent,
          mem, protect, ipc, stored, shown, asked, overtaken, failed, lost, requests, gameSteps,
          mode, patch, mapped, handles, openCount, crossed, call, answer, loads, changes,
          process, installed, started, owner, thread, disk, named, offer, runs, faults, first,
          shutdown   \* ShutdownRequested

settingsVars ==
  <<file, legacy, launcher, game, rt, gpu, presenting, saver, count, overlap, stale, saves, chosen>>
windowVars ==
  <<install, patched, slots, detour, events, stage, win, hung, todo, pending, blocked, created>>
refVars == <<tree, focus, cache, viewer, viewed, moved>>
pipeVars == <<server, pipe, client, calls, paliv, keys, sent>>
memoryVars ==
  <<mem, protect, ipc, stored, shown, asked, overtaken, failed, lost, requests, gameSteps>>
fileVars == <<mode, patch, mapped, handles, openCount, crossed, call, answer, loads, changes>>
crashVars == <<process, installed, started, owner, thread, disk, named, offer, runs, faults, first>>
vars == <<part, settingsVars, windowVars, refVars, pipeVars, memoryVars, fileVars, crashVars, shutdown>>

Settings == INSTANCE Settings WITH MaxCommands <- MaxModeCommands
Window == INSTANCE BackgroundWindow
Ui == INSTANCE UiRefs WITH client <- viewer, commands <- viewed, MaxCommands <- MaxUiCommands
Pipe == INSTANCE ControlPipe WITH commands <- sent, MaxCommands <- MaxPipeCommands
Memory == INSTANCE MemoryDebug
Loose == INSTANCE LooseFiles
Crash == INSTANCE CrashCapture

(* The parts of an issue's address are so many bytes, and a report is whole   *)
(* UTF-8: no lead byte ends it or is followed by another one.                 *)
ASSUME BodyAssumption ==
  /\ UrlLimit \in Nat /\ Prefix \in Nat /\ Suffix \in Nat /\ TrimStep \in Nat
  /\ Bodies \subseteq Seq({"a", "lead", "tail"})
  /\ \A body \in Bodies : \A i \in 1..Len(body) :
       body[i] = "lead" => (i < Len(body) /\ body[i + 1] # "lead")

(* Commands name a hook and a mode, and the built-in volume is a volume.      *)
ASSUME SettingsAssumption ==
  /\ MaxVolume \in Nat /\ MaxVolume >= Settings!Defaults.volume
  /\ Commands \subseteq Settings!Hooks \X Settings!Modes
  /\ Edits \subseteq BOOLEAN \X BOOLEAN

(* What is typed is text.                                                     *)
ASSUME PipeAssumption == MaxCalls \in Nat /\ Texts \subseteq Seq(0..Pipe!Letter)

(* The game's windows form trees, the game's window and the UI have an area,  *)
(* and the bound of the commands given.                                       *)
ASSUME RefsAssumption ==
  /\ \A t \in Trees : Ui!IsTree(t)
  /\ \A d \in {1, 2} : LogicalSize[d] \in Nat \ {0} /\ ClientSize[d] \in Nat \ {0}
  /\ MaxUiCommands \in Nat

(* The bound of the windows made.                                             *)
ASSUME WindowAssumption == MaxCreates \in Nat

(* Every address lies in one region, and a command names an address and a     *)
(* type.                                                                      *)
ASSUME MemoryAssumption ==
  /\ AddressLimit \in Nat \ {0} /\ ModuleBase \in Int /\ ImageBase \in Int
  /\ MaxRequests \in Nat /\ MaxGameSteps \in Nat
  /\ \A r \in DOMAIN Regions :
       /\ Regions[r].base \in Nat /\ Regions[r].size \in Nat
       /\ Memory!End(r) <= AddressLimit /\ Regions[r].protect \in Memory!Protections
  /\ \A a \in Memory!Addresses :
       \E r \in DOMAIN Regions : Regions[r].base <= a /\ a < Memory!End(r)
  /\ \A a \in Memory!Addresses, r, q \in DOMAIN Regions :
       (Regions[r].base <= a /\ a < Memory!End(r) /\ Regions[q].base <= a /\ a < Memory!End(q))
         => r = q
  /\ Requests \subseteq [op : {"read", "write"}, space : {"runtime_va", "ida_ea"},
                         addr : Memory!Addresses, type : {"u8", "u16", "i32"},
                         text : [hex : BOOLEAN, v : Int], unsafe : BOOLEAN]
-----------------------------------------------------------------------------
Init ==
  /\ part \in {"settings", "window", "dialogs", "refs", "pipe", "memory", "files", "crash"}
  /\ Settings!Init /\ Window!Init /\ Ui!Init /\ Pipe!Init /\ Memory!Init
  /\ Loose!Init /\ Crash!Init
  /\ part # "settings" => file = Settings!Absent /\ legacy = Settings!Absent
  /\ part # "refs" => tree = CHOOSE t \in Trees : TRUE
  /\ part # "files" => mapped /\ patch = [f \in Loose!Files |-> "absent"]

SettingsStep ==
  /\ part = "settings" /\ Settings!Next
  /\ UNCHANGED <<part, windowVars, refVars, pipeVars, memoryVars, fileVars, crashVars, shutdown>>

\* The windows do not look at the slots of the dialogs.
WindowStep ==
  /\ \/ part = "window" /\ Window!WindowsNext /\ slots' = {}
     \/ part = "dialogs" /\ Window!DialogsNext
  /\ UNCHANGED <<part, settingsVars, refVars, pipeVars, memoryVars, fileVars, crashVars>>

RefsStep ==
  /\ part = "refs" /\ Ui!Next
  /\ UNCHANGED <<part, settingsVars, windowVars, pipeVars, memoryVars, fileVars, crashVars, shutdown>>

PipeStep ==
  /\ part = "pipe" /\ Pipe!Next
  /\ UNCHANGED <<part, settingsVars, windowVars, refVars, memoryVars, fileVars, crashVars>>

MemoryStep ==
  /\ part = "memory" /\ Memory!Next
  /\ UNCHANGED <<part, settingsVars, windowVars, refVars, pipeVars, fileVars, crashVars, shutdown>>

FilesStep ==
  /\ part = "files" /\ Loose!Next
  /\ UNCHANGED <<part, settingsVars, windowVars, refVars, pipeVars, memoryVars, crashVars, shutdown>>

CrashStep ==
  /\ part = "crash" /\ Crash!Next
  /\ UNCHANGED <<part, settingsVars, windowVars, refVars, pipeVars, memoryVars, fileVars, shutdown>>

Next == SettingsStep \/ WindowStep \/ RefsStep \/ PipeStep \/ MemoryStep \/ FilesStep \/ CrashStep

(* The controller of the background window is the only fair process needed:   *)
(* its own steps, and its calls on windows whose threads respond.             *)
OfWindow(action) ==
  /\ part = "window" /\ action
  /\ UNCHANGED <<part, settingsVars, refVars, pipeVars, memoryVars, fileVars, crashVars>>

Spec == /\ Init /\ [][Next]_vars
        /\ WF_vars(OfWindow(Window!Scans)) /\ SF_vars(OfWindow(Window!Calls))
-----------------------------------------------------------------------------
(* Settings: saves that neither overlap nor fail leave the state in force in  *)
(* the file, and the renderer's multisampling follows the present hook but    *)
(* for a call that a command overtook (runtime_preferences.cpp:34-130,        *)
(* d3d9_quality_hooks.cpp:175-210).                                           *)
SettingsHold == Settings!TypeOK /\ Settings!QuietSaveIsWhole /\ Settings!MsaaFollowsHook

(* Background window: whoever moves or shows a window, it ends off the screen *)
(* when they leave it alone and no window of the process hangs for good       *)
(* (background_window_hooks.cpp:84-189).                                      *)
KeptOffscreen == Window!KeptOffscreen

(* Background window: no module's dialog blocks the game once the mode is     *)
(* ready (background_window_hooks.cpp:585-602).                               *)
WindowHolds == Window!TypeOK /\ Window!NoModalWait

(* UI refs: a ref that the runtime accepts names what its client saw as long  *)
(* as the game changes nothing, and a click through the OS queue goes down    *)
(* inside the window its client chose, if that is wider than a pixel          *)
(* (ui_snapshot_runtime.cpp:252-322, cli/main.cpp:559-691).                   *)
RefsHold == Ui!TypeOK /\ Ui!RefNamesTheSame /\ Ui!QueuedClickLands

(* Control pipe: the runtime executes what the client was told to send        *)
(* (protocol.cpp:76-108).                                                     *)
PipeHolds == Pipe!TypeOK /\ Pipe!RequestArrives

(* Control pipe: press and hold end with the key up unless the first or the   *)
(* last exchange went wrong (cli/main.cpp:848-968).                           *)
KeyComesUp == Pipe!KeyComesUp

(* Memory: every region has its protection back after a command, or stays     *)
(* open where restoring it failed, and a value reported as written reads back *)
(* (memory_debug_runtime.cpp:358-392, memory_debug.cpp:376-572).              *)
MemoryHolds == Memory!TypeOK /\ Memory!ProtectionRestored /\ Memory!ReadBackValue

(* Memory: code is changed with consent only (memory_debug_runtime.cpp:333).  *)
CodeNeedsConsent == Memory!CodeNeedsConsent

(* Loose files: the load log tells where a resource came from, the gamepatch  *)
(* directory hides nothing of the package, a compiled script in its place is  *)
(* whole, and a text script comes from that directory or not at all.  The     *)
(* package's handles are counted and given once as long as the game touched   *)
(* none while the runtime claimed one (loose_file_hooks.cpp:243-411, 456-533).*)
PatchHolds == /\ Loose!TypeOK /\ Loose!LogTellsTruth /\ Loose!PatchCannotHide
              /\ Loose!HandlesHold /\ Loose!TextOnlyFromPatch

(* Crash capture: an exception nobody handled leaves one whole report if the  *)
(* game leaves the unhandled filter in place, the dump the state names is     *)
(* there, and the user is offered the crash that just happened as a text that *)
(* fits into the address (crash_handler.cpp:282-356, bug_report.cpp:86-222).  *)
CrashHolds == /\ Crash!TypeOK /\ Crash!CrashIsReported
              /\ Crash!OneCapture /\ Crash!NamedDumpExists
              /\ Crash!OfferIsOfLastCrash /\ Crash!FeedbackFits

(* Crash capture: a capture can go on whoever holds the state's mutex         *)
(* (crash_handler.cpp:282-331).                                               *)
CaptureNeverWaits == Crash!CaptureNeverWaits
=============================================================================
