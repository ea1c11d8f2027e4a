------------------------------ MODULE Settings ------------------------------
(* The settings file inject_settings.ini and everybody who reads and writes   *)
(* it: the launcher (load, edit, save, start the game), the runtime's         *)
(* bootstrap (load), its IPC thread (set_hook_mode) and the game thread       *)
(* (volume hotkey, present hook).  A save truncates the file and fills it     *)
(* again, without a lock, a temporary file or a rename.                       *)
EXTENDS Naturals, FiniteSets, Functions

CONSTANTS Commands,     \* the <<hook, mode>> pairs the control client sends
          Edits,        \* what is chosen in the launcher: <<gamepad on, wide resolution>>
          MaxVolume,    \* the largest giTalk volume, in steps of the hotkey
          MaxCommands, MaxHotkeys, MaxLaunches   \* bounds of one behaviour

VARIABLES file,     \* the settings file: its kind and the settings it holds
          legacy,   \* inject_panel_settings.ini of older versions
          launcher, \* the launcher process: pc and the settings in memory
          game,     \* "off", "boot" or "on"
          rt,       \* RuntimeState: the preferences in force
          gpu,      \* the multisample level requested of the game's renderer
          presenting, \* the game thread's call of the present hook
          saver,    \* per saving thread: pc, carried script mode, collected text
          count,    \* commands, hotkeys and launches so far
          overlap,  \* history: two saves overlapped, or one failed or was cut
          stale,    \* history: that call asked for a level of a mode no longer in force
          saves,    \* history: a save of this game process ended
          chosen    \* history: the script mode of the launcher's last save

vars == <<file, legacy, launcher, game, rt, gpu, presenting, saver, count, overlap, stale, saves, chosen>>
gpuVars == <<gpu, presenting, stale>>
-----------------------------------------------------------------------------
Hooks == {"inputs", "present", "renderer", "player"}
Catalog == Hooks \ {"player"}       \* BuildInjectFeatureCatalog
FollowsWidescreen(h) == h = "renderer"
Modes == {"observe", "mirror", "fallback", "strict"}
Savers == {"ipc", "hotkey"}

DefaultMode == [h \in Hooks |-> IF h = "inputs" THEN "observe" ELSE "fallback"]
Preferred(mode) == IF mode = "observe" THEN "fallback" ELSE mode
DefaultHook(h) == [mode |-> DefaultMode[h], active |-> Preferred(DefaultMode[h])]

Defaults == [script |-> "csb", msaa |-> "off", volume |-> 1, pad |-> TRUE,
             borderless |-> FALSE, hooks |-> [h \in {} |-> DefaultHook(h)]]

Whole(s) == [kind |-> "whole", v |-> s]
Absent == [kind |-> "none", v |-> Defaults]
Empty == [kind |-> "empty", v |-> Defaults]
Unreadable == [kind |-> "unreadable", v |-> Defaults]

(* A file cut after its first lines still parses: what is missing is default. *)
CutOf(s) == {Unreadable, Whole([Defaults EXCEPT !.script = s.script, !.msaa = s.msaa])}

(* One bad line, an unknown hook or an unsupported version rejects the whole  *)
(* file; no file and an empty file are the defaults.                          *)
Loads(f) == f.kind # "unreadable"
Load(f) == IF f.kind = "whole" THEN f.v ELSE Defaults

(* SetHookMode and SetPreferredActiveHookMode of RuntimeState.                *)
SetHookMode(st, h, m) ==
  [st EXCEPT !.hooks[h] = [mode |-> m, active |-> IF m # "observe" THEN m ELSE @.active]]
SetPreferred(st, h, m) == [st EXCEPT !.hooks[h].active = Preferred(m)]

Inventory == [Defaults EXCEPT !.hooks = [h \in Hooks |-> DefaultHook(h)]]

Replaces(st) == st.hooks["present"].mode \notin {"observe", "mirror"}
RequestedLevel(st) == IF Replaces(st) THEN st.msaa ELSE "off"

(* NormalizeInjectSettings: the catalog's hooks only; a borderless window     *)
(* needs the present hook, the gamepad switches process_inputs.               *)
Normalize(s) ==
  LET base == [h \in Catalog |-> IF h \in DOMAIN s.hooks THEN s.hooks[h] ELSE DefaultHook(h)]
      both(m) == [mode |-> m, active |-> m]
      present == IF s.borderless /\ base["present"].mode \in {"observe", "mirror"}
                 THEN both("fallback") ELSE base["present"]
      inputs == IF s.pad THEN both("fallback")
                ELSE IF base["inputs"].mode # "observe"
                THEN [mode |-> "observe", active |-> base["inputs"].mode]
                ELSE base["inputs"]
  IN [s EXCEPT !.hooks = [base EXCEPT !["present"] = present, !["inputs"] = inputs]]

(* ApplyWidescreenFeaturePreset, called with the shape of the resolution.     *)
Widescreen(s, wide) ==
  LET turn(k) == IF wide
                 THEN LET m == IF k.active = "strict" THEN "strict" ELSE "fallback"
                      IN [mode |-> m, active |-> m]
                 ELSE [mode |-> "observe",
                       active |-> IF k.mode # "observe" THEN k.mode ELSE k.active]
  IN [s EXCEPT !.hooks = [h \in DOMAIN s.hooks |->
        IF FollowsWidescreen(h) THEN turn(s.hooks[h]) ELSE s.hooks[h]]]

(* LoadPersistedRuntimePreferences on a parsed file.                          *)
LoadPreferences(st, s) ==
  LET hook(h) == IF h \notin DOMAIN s.hooks THEN st
                 ELSE SetHookMode(SetPreferred(st, h, s.hooks[h].active), h, s.hooks[h].mode)
      hooked == [st EXCEPT !.hooks = [h \in Hooks |-> hook(h).hooks[h]]]
      padded == SetHookMode(hooked, "inputs", IF s.pad THEN "fallback" ELSE "observe")
  IN [padded EXCEPT !.msaa = s.msaa, !.volume = s.volume, !.pad = s.pad,
                    !.borderless = s.borderless]

\* Mutant: the volume, which the state gained later, is not collected.
CollectedWithoutVolume(st, script) == [st EXCEPT !.script = script, !.volume = Defaults.volume]

(* What SavePersistedRuntimePreferences writes: every field of the state but  *)
(* the script mode, which it carries over from the file.                      *)
Collected(st, script) == [st EXCEPT !.script = script]
-----------------------------------------------------------------------------
IdleSaver == [pc |-> "idle", script |-> "csb", out |-> Defaults]
IdleLauncher == [pc |-> "off", s |-> Defaults]
NoPresent == [pc |-> "idle", level |-> "off", raced |-> FALSE]

(* A file of an earlier version, as its user left it.                         *)
Earlier == [Defaults EXCEPT !.script = "cs", !.msaa = "x4",
              !.hooks = [h \in {"player", "present"} |->
                           [mode |-> IF h = "present" THEN "mirror" ELSE "observe",
                            active |-> "strict"]]]

\* The file of the older versions is read only where there is no other.
Init == /\ file \in {Absent, Unreadable, Whole(Earlier)}
        /\ legacy \in IF file = Absent THEN {Absent, Whole(Earlier)} ELSE {Absent}
        /\ launcher = IdleLauncher
        /\ game = "off"
        /\ rt = Inventory
        /\ gpu = "off" /\ presenting = NoPresent /\ stale = FALSE
        /\ saver = [t \in Savers |-> IdleSaver]
        /\ count = [commands |-> 0, hotkeys |-> 0, launches |-> 0]
        /\ overlap = FALSE
        /\ saves = FALSE
        /\ chosen = "csb"

OthersSaving(t) == launcher.pc = "write" \/ \E u \in Savers \ {t} : saver[u].pc # "idle"

(* The launcher loads at its start, from the legacy file when there is only   *)
(* that one; a file it cannot read ends it with a message.                    *)
LauncherLoad ==
  LET source == IF file.kind = "none" /\ legacy.kind # "none" THEN legacy ELSE file
  IN /\ launcher.pc = "off" /\ count.launches < MaxLaunches
     /\ count' = [count EXCEPT !.launches = @ + 1]
     /\ launcher' = IF Loads(source)
                    THEN [pc |-> "ui", s |-> Widescreen(Normalize(Load(source)), FALSE)]
                    ELSE launcher
     /\ UNCHANGED <<file, legacy, game, rt, gpuVars, saver, overlap, saves, chosen>>

LauncherCloses ==
  /\ launcher.pc = "ui"
  /\ launcher' = IdleLauncher
  /\ UNCHANGED <<file, legacy, game, rt, gpuVars, saver, count, overlap, saves, chosen>>

(* The pages of the launcher; SynchronizeAutomaticWidescreen runs once more   *)
(* before the save, and the save truncates the file.                          *)
LauncherSave ==
  /\ launcher.pc = "ui"
  /\ \E e \in Edits :
       launcher' = [pc |-> "write",
                    s |-> Widescreen(Normalize([launcher.s EXCEPT !.pad = e[1]]), e[2])]
  /\ file' = Empty
  /\ overlap' = (overlap \/ OthersSaving("launcher"))
  /\ UNCHANGED <<legacy, game, rt, gpuVars, saver, count, saves, chosen>>

(* The text is flushed, or its flush fails and leaves what had been written.  *)
(* It then starts the game or an update (one game at a time is a bound).      *)
LauncherWrite ==
  /\ launcher.pc = "write"
  /\ \/ /\ file' = Whole(launcher.s)
        /\ overlap' = (overlap /\ game # "off")
        /\ game' \in IF game = "off" THEN {"boot", "off"} ELSE {game}
        /\ saves' = FALSE
        /\ chosen' = launcher.s.script
     \/ /\ file' \in CutOf(launcher.s)
        /\ overlap' = TRUE
        /\ UNCHANGED <<game, saves, chosen>>
  /\ launcher' = IdleLauncher
  /\ rt' = IF game = "off" /\ game' = "boot" THEN Inventory ELSE rt
  /\ UNCHANGED <<legacy, gpuVars, saver, count>>

(* The bootstrap thread: a file it cannot read leaves the built-in defaults.  *)
Bootstrap ==
  LET source == IF file.kind = "none" /\ legacy.kind # "none" THEN legacy ELSE file
  IN /\ game = "boot"
     /\ game' = "on"
     /\ IF Loads(source)
        THEN rt' = LoadPreferences(rt, Load(source)) /\ gpu' = RequestedLevel(rt')
        ELSE UNCHANGED <<rt, gpu>>
     /\ UNCHANGED <<file, legacy, launcher, presenting, saver, count, overlap, stale, saves, chosen>>

(* set_hook_mode of the control client, on the IPC thread: the mode is set,   *)
(* under the state's mutex, before what it asks of the renderer.              *)
ApplyHookModePreference(h, m) ==
  /\ game = "on" /\ saver["ipc"].pc = "idle" /\ count.commands < MaxCommands
  /\ count' = [count EXCEPT !.commands = @ + 1]
  /\ rt' = SetHookMode(rt, h, m)
  /\ saver' = [saver EXCEPT !["ipc"].pc = IF h = "present" THEN "apply" ELSE "load"]
  /\ presenting' = [presenting EXCEPT !.raced = @ \/ (h = "present" /\ presenting.pc = "write")]
  /\ overlap' = (overlap \/ OthersSaving("ipc"))
  /\ UNCHANGED <<file, legacy, launcher, game, gpu, stale, saves, chosen>>

\* Mutant: the command changes the mode only.
HookModeOnly(st) == gpu

(* ApplyRequestedMsaaLevel: the present hook also carries the multisampling.  *)
AfterHookMode(st) == RequestedLevel(st)

ApplyHookModeLevel ==
  /\ saver["ipc"].pc = "apply"
  /\ gpu' = AfterHookMode(rt) /\ stale' = FALSE
  /\ saver' = [saver EXCEPT !["ipc"].pc = "load"]
  /\ UNCHANGED <<file, legacy, launcher, game, rt, presenting, count, overlap, saves, chosen>>

(* Hook_D3d9SetPresentParameters on the game thread: it reads the mode and    *)
(* the level, and asks the renderer for that level unless it only observes.   *)
(* No lock is held between the two, nor by either of the writers.             *)
PresentReads ==
  /\ game = "on" /\ presenting.pc = "idle" /\ saver["hotkey"].pc = "idle"
  /\ Replaces(rt)
  /\ presenting' = [pc |-> "write", level |-> rt.msaa, raced |-> FALSE]
  /\ UNCHANGED <<file, legacy, launcher, game, rt, gpu, saver, count, overlap, stale, saves, chosen>>

PresentWrites ==
  /\ presenting.pc = "write"
  /\ gpu' = presenting.level /\ stale' = presenting.raced
  /\ presenting' = NoPresent
  /\ UNCHANGED <<file, legacy, launcher, game, rt, saver, count, overlap, saves, chosen>>

(* The keys [ and ] on the game thread; a volume at its limit is not saved.   *)
StepVolume(v, d) == IF d > 0 THEN IF v < MaxVolume THEN v + 1 ELSE v
                    ELSE IF v > 0 THEN v - 1 ELSE v

VolumeHotkey(d) ==
  /\ game = "on" /\ saver["hotkey"].pc = "idle" /\ presenting.pc = "idle"
  /\ count.hotkeys < MaxHotkeys
  /\ StepVolume(rt.volume, d) # rt.volume
  /\ count' = [count EXCEPT !.hotkeys = @ + 1]
  /\ rt' = [rt EXCEPT !.volume = StepVolume(@, d)]
  /\ saver' = [saver EXCEPT !["hotkey"].pc = "load"]
  /\ overlap' = (overlap \/ OthersSaving("hotkey"))
  /\ UNCHANGED <<file, legacy, launcher, game, gpuVars, saves, chosen>>

(* SavePersistedRuntimePreferences: the file is read for what the state does  *)
(* not hold; a file that cannot be read is not written either.                *)
SaveLoad(t) ==
  /\ saver[t].pc = "load"
  /\ saver' = [saver EXCEPT ![t] = IF Loads(file)
                 THEN [pc |-> "collect", script |-> Load(file).script, out |-> Defaults]
                 ELSE IdleSaver]
  /\ overlap' = (overlap \/ ~Loads(file))
  /\ UNCHANGED <<file, legacy, launcher, game, rt, gpuVars, count, saves, chosen>>

SaveCollect(t) ==
  /\ saver[t].pc = "collect"
  /\ saver' = [saver EXCEPT ![t].pc = "open", ![t].out = Collected(rt, saver[t].script)]
  /\ UNCHANGED <<file, legacy, launcher, game, rt, gpuVars, count, overlap, saves, chosen>>

SaveOpen(t) ==
  /\ saver[t].pc = "open"
  /\ \/ /\ file' = Empty
        /\ saver' = [saver EXCEPT ![t].pc = "write"]
        /\ UNCHANGED overlap
     \/ /\ saver' = [saver EXCEPT ![t] = IdleSaver]     \* create or open failed
        /\ overlap' = TRUE
        /\ UNCHANGED file
  /\ UNCHANGED <<legacy, launcher, game, rt, gpuVars, count, saves, chosen>>

(* The flush.  A longer text another thread wrote since this one truncated    *)
(* the file sticks out behind it, and its tail may be a line without '='.     *)
SaveWrite(t) ==
  /\ saver[t].pc = "write"
  /\ \/ file' = Whole(saver[t].out) /\ saves' = TRUE /\ UNCHANGED overlap
     \/ file.kind = "whole" /\ file' = Unreadable /\ overlap' = TRUE /\ UNCHANGED saves
     \/ file' \in CutOf(saver[t].out) /\ overlap' = TRUE /\ UNCHANGED saves
  /\ saver' = [saver EXCEPT ![t] = IdleSaver]
  /\ UNCHANGED <<legacy, launcher, game, rt, gpuVars, count, chosen>>

(* The game ends or crashes, in the middle of a save if need be.              *)
GameEnds ==
  /\ game = "on"
  /\ game' = "off"
  /\ gpu' = "off" /\ presenting' = NoPresent /\ stale' = FALSE
  /\ file' \in {file} \union UNION {CutOf(saver[t].out) : t \in {u \in Savers : saver[u].pc = "write"}}
  /\ saver' = [t \in Savers |-> IdleSaver]
  /\ overlap' = FALSE
  /\ rt' = Inventory
  /\ saves' = FALSE
  /\ UNCHANGED <<legacy, launcher, count, chosen>>

Next == \/ LauncherLoad \/ LauncherCloses \/ LauncherSave \/ LauncherWrite \/ Bootstrap \/ GameEnds
        \/ ApplyHookModeLevel \/ PresentReads \/ PresentWrites
        \/ \E c \in Commands : ApplyHookModePreference(c[1], c[2])
        \/ \E d \in {-1, 1} : VolumeHotkey(d)
        \/ \E t \in Savers : SaveLoad(t) \/ SaveCollect(t) \/ SaveOpen(t) \/ SaveWrite(t)

Spec == Init /\ [][Next]_vars
-----------------------------------------------------------------------------
HookSettings == [mode : Modes, active : Modes \ {"observe"}]

\* The hooks of no file, of an old file, of the launcher's and of the runtime's.
HookMaps == [{} -> HookSettings] \union [{"player", "present"} -> HookSettings]
              \union [Catalog -> HookSettings] \union [Hooks -> HookSettings]

Preferences == [script : {"csb", "cs"}, msaa : {"off", "x4"}, volume : 0..MaxVolume,
                pad : BOOLEAN, borderless : BOOLEAN,
                hooks : HookMaps]
InForce == {s \in Preferences : DOMAIN s.hooks = Hooks}
Files == [kind : {"none", "empty", "unreadable", "whole"}, v : Preferences]

FileTypes == file \in Files /\ legacy \in Files /\ chosen \in {"csb", "cs"}
GameTypes ==
  /\ game \in {"off", "boot", "on"} /\ rt \in InForce /\ stale \in BOOLEAN
  /\ presenting \in [pc : {"idle", "write"}, level : {"off", "x4"}, raced : BOOLEAN]
LauncherTypes == launcher \in [pc : {"off", "ui", "write"}, s : Preferences]
SaverTypes ==
  saver \in [Savers -> [pc : {"idle", "apply", "load", "collect", "open", "write"},
                        script : {"csb", "cs"}, out : Preferences]]

TypeOK == FileTypes /\ GameTypes /\ LauncherTypes /\ SaverTypes

(* As long as no save of the game overlapped another one and none failed, the *)
(* file between two saves is the state in force, with the script mode the     *)
(* launcher chose (runtime_preferences.cpp:35-72).                            *)
QuietSaveIsWhole ==
  (game = "on" /\ saves /\ ~overlap /\ launcher.pc # "write"
     /\ \A t \in Savers : saver[t].pc = "idle")
  => /\ file.kind = "whole"
     /\ file.v = [rt EXCEPT !.script = chosen]

(* Between two commands the multisampling asked of the renderer is the        *)
(* preference in force, or off while the hook that applies it only observes,  *)
(* whatever the order of the file's lines, of the commands and of the game's  *)
(* calls (runtime_preferences.cpp:74-125, 189-207, d3d9_quality_hooks.cpp:    *)
(* 197-210): but for a call that read the mode, was overtaken by a whole      *)
(* command and wrote its level after it.  Nothing undoes that before the next *)
(* command for the hook, or the next call that replaces.                      *)
MsaaFollowsHook ==
  (game = "on" /\ saver["ipc"].pc # "apply" /\ ~stale) => gpu = RequestedLevel(rt)

(* A call that no command overtook writes the level in force.                 *)
PresentInv ==
  (presenting.pc = "write" /\ ~presenting.raced) => presenting.level = RequestedLevel(rt)

(* A game that does not run, or not yet with its preferences, has asked the   *)
(* renderer for nothing and saved nothing.                                    *)
BootInv == /\ game # "on" => /\ gpu = "off" /\ ~saves
                             /\ presenting = NoPresent /\ ~stale
                             /\ \A t \in Savers : saver[t].pc = "idle"
           /\ game = "boot" => rt = Inventory

(* As long as no save overlapped or failed: one save at a time, which carries *)
(* the script mode of the launcher's last save and, once collected, the state *)
(* in force; the file is whole but while somebody writes it.                  *)
QuietInv ==
  (game # "off" /\ ~overlap) =>
    /\ \A t \in Savers : saver[t].pc # "idle" =>
         /\ launcher.pc # "write"
         /\ \A u \in Savers \ {t} : saver[u].pc = "idle"
         /\ saver[t].pc \in {"collect", "open", "write"} => saver[t].script = chosen
         /\ saver[t].pc \in {"open", "write"} => saver[t].out = [rt EXCEPT !.script = chosen]
    /\ (launcher.pc # "write" /\ \A t \in Savers : saver[t].pc # "write")
         => file.kind = "whole" /\ file.v.script = chosen

(* These with the types and the two properties are inductive.                 *)
IInv ==
  /\ TypeOK /\ BootInv /\ QuietInv /\ QuietSaveIsWhole
  /\ PresentInv /\ MsaaFollowsHook
=============================================================================
