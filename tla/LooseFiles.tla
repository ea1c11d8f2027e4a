------------------------------ MODULE LooseFiles ------------------------------
(* Files of the gamepatch directory put in place of the game's resources: the *)
(* game's loader threads go through two hooks, one of the package reader and  *)
(* one of the text script reader, while the user edits the directory and the  *)
(* control client switches the mode.  A file of the directory is put into the *)
(* package reader's own pool of handles.  The hook's accesses to the pool are *)
(* made under a mutex of the runtime; the game's reader, and its close, know  *)
(* nothing of that mutex, and each of their accesses is a step as well.       *)
EXTENDS Naturals, Sequences, FiniteSets

CONSTANTS Threads,      \* threads of the game that load resources
          Resources,    \* [absolute, dirs, name, ext]: the paths the game asks for
          Packaged,     \* those of them the package has
          SlotCount, OpenLimit,   \* handles of the package, and how many may be open
          CountSize,    \* values its count of the open ones has room for: 2^32
          MaxLoads, MaxChanges    \* requests, edits and mode switches of one behaviour

VARIABLES mode,     \* HookMode of loose_file_overlay, which rules both hooks
          patch,    \* what the gamepatch directory holds for every path
          mapped,   \* the package is in memory-mapped mode
          handles, openCount,   \* its handles, and its own count of the open ones
          crossed,  \* history: the game's own code was in the pool together with another one
          call,     \* the request of every thread
          answer,   \* what the step just taken got, and its record in the load log
          loads, changes

vars == <<mode, patch, mapped, handles, openCount, crossed, call, answer, loads, changes>>
world == <<mode, patch, mapped, changes>>
rest == <<world, loads>>
pool == <<handles, openCount, crossed>>
-----------------------------------------------------------------------------
Modes == {"observe_only", "mirror_compare", "replace_with_fallback", "replace_strict"}
Active(m) == m \in {"replace_with_fallback", "replace_strict"}

NoFile == [name |-> "none"]

(* A path below gamedata, without "." and without a way up; anything else has *)
(* no place in the gamepatch directory.                                       *)
NormalizeLooseResourcePath(r) ==
  LET dirs == SelectSeq(r.dirs, LAMBDA d : d \notin {"", "."})
      below == ~r.absolute /\ Len(dirs) > 0 /\ \A i \in DOMAIN dirs : dirs[i] # ".."
  IN IF below /\ dirs[1] = "gamedata"
     THEN [dirs |-> dirs, name |-> r.name, ext |-> r.ext] ELSE NoFile

(* The game asks for two text scripts by the extension of compiled ones.      *)
TextScriptCandidate(r) ==
  LET f == NormalizeLooseResourcePath(r) IN
  IF f # NoFile /\ f.ext = "csb" THEN [f EXCEPT !.ext = "cs"] ELSE f

Candidate(loader, r) ==
  IF loader = "package" THEN NormalizeLooseResourcePath(r) ELSE TextScriptCandidate(r)

Files == {Candidate(l, r) : l \in {"package", "text"}, r \in Resources} \ {NoFile}
Exists(f) == f # NoFile /\ patch[f] # "absent"

Contents == {"absent", "good", "bad", "empty"}

(* A compiled script declares its length; "bad" does not have that length,    *)
(* and "empty" stands for every file too short for it or not to be read.      *)
Valid(f) == f.ext = "csb" => patch[f] = "good"

Free == [source |-> "free"]
OpenSlots == {i \in 1..SlotCount : handles[i] # Free}
Full == openCount >= OpenLimit \/ Cardinality(OpenSlots) = SlotCount
Idle == [pc |-> "idle"]
Closing == [pc |-> "closed"]
Unknown == [source |-> "unknown"]

TypeOK == /\ mode \in Modes /\ patch \in [Files -> Contents]
          /\ DOMAIN handles = 1..SlotCount /\ openCount \in 0..(CountSize - 1)
          /\ \A t \in Threads : call[t].pc \in {"idle", "validate", "map", "claim", "cpk", "find",
                                                "fill", "count", "closed", "script", "direct"}
          /\ crossed \in BOOLEAN
          /\ answer.source \in {"unknown", "none", "original", "gamepatch"}
          /\ loads \in 0..MaxLoads /\ changes \in 0..MaxChanges

Init == /\ mode = "replace_with_fallback"
        /\ \E content \in Contents : patch = [f \in Files |-> content]   \* edits mix them
        /\ mapped \in BOOLEAN
        /\ handles = [i \in 1..SlotCount |-> Free] /\ openCount = 0 /\ crossed = FALSE
        /\ call = [t \in Threads |-> Idle] /\ answer = Unknown
        /\ loads = 0 /\ changes = 0

(* What the thread has got, and the record appended to the load log: its      *)
(* event, and its fallback fields.                                            *)
Answer(t, event, source, used, opened, asked) ==
  /\ call' = [call EXCEPT ![t] = Idle]
  /\ answer' =
       [loader |-> call[t].loader, resource |-> call[t].resource, mode |-> call[t].mode,
        event |-> event, fallbackUsed |-> used, fallbackOpened |-> opened,
        source |-> source, asked |-> asked, full |-> Full]

Continue(t, pc) == call' = [call EXCEPT ![t].pc = pc] /\ answer' = Unknown
-----------------------------------------------------------------------------
(* Entry of both hooks: the mode is read once, and the file is looked for.    *)
Request(t, loader, r) ==
  LET found == Exists(Candidate(loader, r))
      start == CASE loader = "package" /\ Active(mode) /\ found -> "validate"
                 [] loader = "package" /\ ~(Active(mode) /\ found) -> "cpk"
                 [] loader = "text" /\ Active(mode) -> "script"
                 [] OTHER -> "direct"
      event == CASE mode = "observe_only" -> "overlay_disabled"
                 [] mode = "mirror_compare" -> "mirror_compare"
                 [] OTHER -> "cpk_fallback"
  IN /\ call[t].pc = "idle" /\ loads < MaxLoads /\ loads' = loads + 1
     /\ call' = [call EXCEPT ![t] = [pc |-> start, loader |-> loader, resource |-> r, mode |-> mode,
                   file |-> Candidate(loader, r), found |-> found, event |-> event,
                   view |-> "none", edited |-> FALSE, by |-> "hook", slot |-> 0]]
     /\ answer' = Unknown
     /\ UNCHANGED <<world, pool>>

\* Mutant: the strict mode takes every file.
ValidateUnlessStrict(t) ==
  /\ call[t].pc = "validate"
  /\ Continue(t, IF Valid(call[t].file) \/ call[t].mode = "replace_strict" THEN "map" ELSE "cpk")
  /\ UNCHANGED <<rest, pool>>

(* A file that is no valid compiled script is taken for none at all.          *)
ValidateLoosePackageFile(t) ==
  /\ call[t].pc = "validate"
  /\ Continue(t, IF Valid(call[t].file) THEN "map" ELSE "cpk")
  /\ UNCHANGED <<rest, pool>>

\* Mutant: the record of an error always names the package as its fallback.
OverrideErrorAlwaysFallback(t) ==
  IF call[t].mode # "replace_strict"
  THEN /\ call' = [call EXCEPT ![t].pc = "cpk", ![t].event = "override_error"]
       /\ answer' = Unknown
  ELSE Answer(t, "override_error", "none", TRUE, FALSE, FALSE)

\* Mutant: the two replacing modes are exchanged.
OverrideErrorSwapped(t) ==
  IF call[t].mode = "replace_strict"
  THEN /\ call' = [call EXCEPT ![t].pc = "cpk", ![t].event = "override_error"]
       /\ answer' = Unknown
  ELSE Answer(t, "override_error", "none", FALSE, FALSE, FALSE)

(* The override failed: the package is asked unless the mode is strict.       *)
OverrideError(t) ==
  IF call[t].mode # "replace_strict"
  THEN /\ call' = [call EXCEPT ![t].pc = "cpk", ![t].event = "override_error"]
       /\ answer' = Unknown
  ELSE Answer(t, "override_error", "none", FALSE, FALSE, FALSE)

(* OpenLooseFileInPackageHandlePool up to the mutex: the file is mapped.      *)
MapLooseFile(t) ==
  LET content == patch[call[t].file] IN
  /\ call[t].pc = "map"
  /\ IF content \in {"absent", "empty"}
     THEN OverrideError(t)
     ELSE /\ call' = [call EXCEPT ![t].pc = "claim", ![t].view = content]
          /\ answer' = Unknown
  /\ UNCHANGED <<rest, pool>>

(* Threads between their first access to the pool and their last one, and     *)
(* whether another one is there that the mutex does not keep out.             *)
Within == {t \in Threads : call[t].pc \in {"find", "fill", "count", "closed"}}
MutexHeld == \E t \in Within : call[t].pc # "closed" /\ call[t].by = "hook"
GamesOwn(t) == call[t].pc = "closed" \/ call[t].by = "game"

\* Mutant: the hook takes no mutex.
ClaimHandleUnlocked(t) ==
  /\ call[t].pc = "claim"
  /\ IF ~mapped \/ openCount >= OpenLimit
     THEN OverrideError(t) /\ UNCHANGED crossed
     ELSE Continue(t, "find") /\ crossed' = (crossed \/ \E u \in Within : GamesOwn(u))
  /\ UNCHANGED <<rest, handles, openCount>>

(* The hook, under its mutex: the package's mode and its limit.               *)
ClaimHandle(t) ==
  /\ call[t].pc = "claim" /\ ~MutexHeld
  /\ IF ~mapped \/ openCount >= OpenLimit
     THEN OverrideError(t) /\ UNCHANGED crossed
     ELSE Continue(t, "find") /\ crossed' = (crossed \/ \E u \in Within : GamesOwn(u))
  /\ UNCHANGED <<rest, handles, openCount>>

(* The game's own reader, which takes no mutex: its resource and its limit.   *)
CallOriginalPackage(t) ==
  /\ call[t].pc = "cpk"
  /\ IF call[t].resource \notin Packaged \/ openCount >= OpenLimit
     THEN Answer(t, call[t].event, "none", TRUE, FALSE, TRUE) /\ UNCHANGED crossed
     ELSE /\ call' = [call EXCEPT ![t].pc = "find", ![t].by = "game"]
          /\ answer' = Unknown /\ crossed' = (crossed \/ Within # {})
  /\ UNCHANGED <<rest, handles, openCount>>

(* The first free slot, or none: the view, or the resource, is given up.      *)
FindFreePackageHandleSlot(t) ==
  /\ call[t].pc = "find"
  /\ \/ \E i \in 1..SlotCount :
          /\ handles[i] = Free /\ \A k \in 1..(i - 1) : handles[k] # Free
          /\ call' = [call EXCEPT ![t].pc = "fill", ![t].slot = i] /\ answer' = Unknown
     \/ /\ \A i \in 1..SlotCount : handles[i] # Free
        /\ IF call[t].by = "hook" THEN OverrideError(t)
           ELSE Answer(t, call[t].event, "none", TRUE, FALSE, TRUE)
  /\ UNCHANGED <<rest, pool>>

(* The slot becomes a handle, whatever another one has made of it meanwhile.  *)
Handle(t) ==
  IF call[t].by = "game" THEN [source |-> "original"]
  ELSE [source |-> "gamepatch", ext |-> call[t].file.ext, content |-> call[t].view,
        edited |-> call[t].edited]
FillHandle(t) ==
  /\ call[t].pc = "fill" /\ Continue(t, "count")
  /\ handles' = [handles EXCEPT ![call[t].slot] = Handle(t)]
  /\ UNCHANGED <<rest, openCount, crossed>>

(* ++*open_count; the mutex is released after it.  Two of these, or one and a *)
(* close, that nothing orders may lose one of both.                           *)
Counted(change) ==
  {(openCount + change + d) % CountSize : d \in IF crossed THEN {CountSize - 1, 0, 1} ELSE {0}}
CountHandle(t) ==
  /\ call[t].pc = "count" /\ openCount' \in Counted(1)
  /\ IF call[t].by = "hook" THEN Answer(t, "override", "gamepatch", FALSE, FALSE, FALSE)
     ELSE Answer(t, call[t].event, "original", TRUE, TRUE, TRUE)
  /\ UNCHANGED <<rest, handles, crossed>>

(* A thread of the game closes a resource, and the count follows.  The game's *)
(* own code unmaps what a hook has mapped.                                    *)
Close(t, i) ==
  /\ call[t].pc = "idle" /\ handles[i] # Free
  /\ handles' = [handles EXCEPT ![i] = Free] /\ call' = [call EXCEPT ![t] = Closing]
  /\ crossed' = (crossed \/ Within # {})
  /\ answer' = Unknown /\ UNCHANGED <<rest, openCount>>
CountClosed(t) ==
  /\ call[t].pc = "closed" /\ openCount' \in Counted(CountSize - 1)
  /\ call' = [call EXCEPT ![t] = Idle]
  /\ answer' = Unknown /\ UNCHANGED <<rest, handles, crossed>>
-----------------------------------------------------------------------------
ScriptMissing(t) == Answer(t, "gamepatch_required_missing", "none", FALSE, FALSE, FALSE)
ScriptRead(t) == Answer(t, "override", "gamepatch", FALSE, FALSE, FALSE)
ScriptRefused(t) == Answer(t, "override_error", "none", FALSE, FALSE, FALSE)

\* Mutant: the script of the game directory is tried after the one refused.
LoadTextScriptAnywhere(t) ==
  /\ call[t].pc = "script"
  /\ \/ ~call[t].found /\ ScriptMissing(t)
     \/ call[t].found /\ Exists(call[t].file) /\ ScriptRead(t)
     \/ call[t].found /\ Answer(t, "override_error", "original", FALSE, FALSE, TRUE)
  /\ UNCHANGED <<rest, pool>>

(* The text script hook when it replaces: the script of the gamepatch or none.*)
(* Its path may have no form the C library takes, and whether the game's own  *)
(* reader accepts what lies there is its own affair.                          *)
LoadTextScript(t) ==
  /\ call[t].pc = "script"
  /\ \/ ~call[t].found /\ ScriptMissing(t)
     \/ call[t].found /\ Exists(call[t].file) /\ ScriptRead(t)
     \/ call[t].found /\ ScriptRefused(t)
  /\ UNCHANGED <<rest, pool>>

(* The text script hook when it only watches: the reader's answer goes on.    *)
CallOriginalTextScript(t) ==
  /\ call[t].pc = "direct"
  /\ \E opens \in BOOLEAN :
       Answer(t, call[t].event, IF opens THEN "original" ELSE "none", TRUE, opens, TRUE)
  /\ UNCHANGED <<rest, pool>>

(* The user edits the directory at any time, and the client switches the mode.*)
EditPatch(f, content) ==
  /\ changes < MaxChanges /\ patch[f] # content
  /\ patch' = [patch EXCEPT ![f] = content] /\ changes' = changes + 1
  /\ call' = [t \in Threads |-> IF call[t].pc \notin {"idle", "closed"} /\ call[t].file = f
                                THEN [call[t] EXCEPT !.edited = TRUE] ELSE call[t]]
  /\ answer' = Unknown /\ UNCHANGED <<mode, mapped, loads, pool>>

SetHookMode(m) ==
  /\ changes < MaxChanges /\ mode # m
  /\ mode' = m /\ changes' = changes + 1
  /\ answer' = Unknown /\ UNCHANGED <<patch, mapped, loads, pool, call>>

Load(t) == \/ \E loader \in {"package", "text"}, r \in Resources : Request(t, loader, r)
           \/ ValidateLoosePackageFile(t) \/ MapLooseFile(t) \/ ClaimHandle(t)
           \/ CallOriginalPackage(t) \/ FindFreePackageHandleSlot(t) \/ FillHandle(t)
           \/ CountHandle(t) \/ LoadTextScript(t) \/ CallOriginalTextScript(t)

Next == \/ \E t \in Threads : Load(t)
        \/ \E t \in Threads, i \in 1..SlotCount : Close(t, i)
        \/ \E t \in Threads : CountClosed(t)
        \/ \E f \in Files, content \in Contents : EditPatch(f, content)
        \/ \E m \in Modes : SetHookMode(m)

Spec == Init /\ [][Next]_vars
-----------------------------------------------------------------------------
(* The load log says where a resource came from, whether the game's reader    *)
(* was asked, and what it answered (loose_file_hooks.cpp:323-411, 431-533).   *)
LogTellsTruth ==
  answer.source # "unknown" =>
    /\ answer.event = "override" <=> answer.source = "gamepatch"
    /\ answer.fallbackUsed <=> answer.asked
    /\ answer.fallbackUsed => (answer.fallbackOpened <=> answer.source = "original")

(* Whatever lies in the gamepatch directory, and however it changes, a        *)
(* resource of the package is opened while handles are left, save for an      *)
(* error in the strict mode (loose_file_hooks.cpp:343-411).                   *)
PatchCannotHide ==
  (answer.source = "none" /\ answer.loader = "package") =>
    \/ answer.full \/ answer.resource \notin Packaged
    \/ answer.mode = "replace_strict" /\ answer.event = "override_error"

(* A compiled script put in place of the package's has its declared length,   *)
(* unless it was edited while it was being opened, and, until the game's own  *)
(* reader or its close has been in the pool while another one was, no more    *)
(* handles are open than the package allows and it counts them right when no  *)
(* thread is at it: the hook's claims keep each other out                     *)
(* (loose_file_overlay.cpp:146-191, loose_file_hooks.cpp:243-289).            *)
HandlesCounted ==
  ~crossed => /\ Cardinality(OpenSlots) <= OpenLimit
              /\ Within = {} => openCount = Cardinality(OpenSlots)
HandlesWhole ==
  \A i \in OpenSlots :
    (handles[i].source = "gamepatch" /\ handles[i].ext = "csb" /\ ~handles[i].edited)
      => handles[i].content = "good"
HandlesHold == HandlesCounted /\ HandlesWhole

(* While the hook replaces, no text script comes from the game directory      *)
(* (loose_file_hooks.cpp:456-533, docs/loose_file_overlay.md:53-56).          *)
TextOnlyFromPatch ==
  (answer.source # "unknown" /\ answer.loader = "text" /\ Active(answer.mode))
    => ~answer.asked /\ answer.source # "original"

(* The inductive invariant.  Every handle of the pool and every request has   *)
(* its fields.                                                                *)
Handles == {Free, [source |-> "original"]} \union
           [source : {"gamepatch"}, ext : {f.ext : f \in Files}, content : Contents, edited : BOOLEAN]
HandleTypes == handles \in [1..SlotCount -> Handles]

Calls == [pc : {"validate", "map", "claim", "cpk", "find", "fill", "count", "script", "direct"},
          loader : {"package", "text"},
          resource : Resources, mode : Modes, file : Files \union {NoFile}, found : BOOLEAN,
          event : {"overlay_disabled", "mirror_compare", "cpk_fallback", "override_error"},
          view : {"none"} \union Contents, edited : BOOLEAN, by : {"hook", "game"},
          slot : 0..SlotCount]
CallTypes == call \in [Threads -> {Idle, Closing} \union Calls]

(* A thread is in the hook its loader goes through, the mode it read is the   *)
(* one it acts by, it holds a file while it is at one, and it has found its   *)
(* slot before it fills it.                                                   *)
Claiming(t) == \/ call[t].pc = "claim"
               \/ call[t].pc \in {"find", "fill", "count"} /\ call[t].by = "hook"
RouteInv ==
  \A t \in Threads :
    /\ call[t].pc \in {"validate", "map", "claim", "cpk", "find", "fill", "count"}
         => call[t].loader = "package"
    /\ call[t].pc \in {"script", "direct"} => call[t].loader = "text"
    /\ call[t].pc = "direct" => ~Active(call[t].mode)
    /\ call[t].pc \in {"validate", "map"} \/ Claiming(t) => call[t].file # NoFile
    /\ call[t].pc \in {"fill", "count"} => call[t].slot # 0

(* What was validated, and later mapped, is still valid unless it was edited  *)
(* since the request began.                                                   *)
ViewInv ==
  \A t \in Threads :
    /\ (call[t].pc = "map" /\ ~call[t].edited) => Valid(call[t].file)
    /\ (Claiming(t) /\ ~call[t].edited /\ call[t].file.ext = "csb") => call[t].view = "good"
    /\ Claiming(t) => call[t].view \in Contents

(* Two claims are never in the pool together; and while no code of the game   *)
(* has been there with another one, one thread is there at most, and the      *)
(* count is ahead of the handles, or behind them, by what it has yet to do.   *)
PoolInv ==
  /\ \A t, u \in Within : (~GamesOwn(t) /\ ~GamesOwn(u)) => t = u
  /\ ~crossed =>
       /\ \A t, u \in Within : t = u
       /\ Cardinality(OpenSlots) <= OpenLimit
       /\ Within = {} => openCount = Cardinality(OpenSlots)
       /\ \A t \in Within :
            /\ call[t].pc \in {"find", "fill"}
                 => openCount = Cardinality(OpenSlots) /\ openCount < OpenLimit
            /\ call[t].pc = "fill" => handles[call[t].slot] = Free
            /\ call[t].pc = "count" => openCount + 1 = Cardinality(OpenSlots)
            /\ call[t].pc = "closed"
                 => openCount = Cardinality(OpenSlots) + 1 /\ openCount <= OpenLimit

IInv == /\ TypeOK /\ HandleTypes /\ CallTypes /\ RouteInv /\ ViewInv /\ PoolInv
        /\ LogTellsTruth /\ PatchCannotHide /\ HandlesHold /\ TextOnlyFromPatch
=============================================================================
