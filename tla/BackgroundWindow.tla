--------------------------- MODULE BackgroundWindow ---------------------------
(* The background mode of the runtime: the game's calls into USER32 go through *)
(* import hooks that keep its windows off the screen and never activate them, *)
(* a controller thread goes through all windows once a millisecond and        *)
(* repairs them, and dialogs are answered before anybody sees them.  A call   *)
(* of the controller that restyles, moves or shows a window sends it messages *)
(* and returns when the window's thread has handled them.                     *)
EXTENDS Naturals, FiniteSets

CONSTANTS Big, Small,     \* root windows of game size, and dialogs and helpers
          Modules,        \* modules that may call MessageBoxA: the game and its DLLs
          MaxCreates      \* windows created in one behaviour

VARIABLES install,   \* "none", "off", "failed", "ready": InstallBackgroundWindowHooks
          patched,   \* USER32 imports of the game that lead to the hooks
          slots,     \* modules whose MessageBoxA slot leads to the hook
          detour,    \* user32!MessageBoxA itself is diverted
          events,    \* the in-context show event hook is installed
          stage,     \* the mssrsx observers: "absent", "loaded", "jump", "published"
          shutdown,  \* ShutdownRequested
          win,       \* every window: made, shown, off the screen, plain style
          hung,      \* windows whose thread handles no messages
          todo,      \* windows the controller has still to look at in this scan
          pending,   \* calls it has still to make on a window it looked at
          blocked,   \* the game's thread waits in a modal dialog
          created

vars == <<install, patched, slots, detour, events, stage, shutdown,
          win, hung, todo, pending, blocked, created>>
controllerVars == <<todo, pending>>
hookVars == <<install, patched, slots, detour, events, stage>>
-----------------------------------------------------------------------------
Windows == Big \union Small

(* The imports in the order they are patched; the first failure ends it.      *)
Imports == <<"CreateWindowExA", "SetForegroundWindow", "SetFocus",
             "SetWindowPos", "MoveWindow", "ShowWindow", "MessageBoxA">>
ImportsUpTo(n) == {Imports[i] : i \in 1..n}

NoWindow == [made |-> FALSE, shown |-> FALSE, off |-> FALSE, plain |-> TRUE]
Hooked(name) == name \in patched

(* A window the background mode is about: visible, or of game size.           *)
Relevant(w) == win[w].made /\ (win[w].shown \/ w \in Big)
Misplaced(w) == Relevant(w) /\ (~win[w].off \/ win[w].plain)

Steps == {"style", "move", "show"}

\* Mutant: only windows of game size are repaired.
NeededByGameWindow(w) ==
  {step \in Steps : /\ w \in Big /\ win[w].made
                    /\ step = "style" => win[w].plain
                    /\ step = "move" => ~win[w].off
                    /\ step = "show" => ~win[w].shown}

(* KeepProcessWindowOffscreen reads the window's place and style once and     *)
(* makes the calls these ask for: hidden helpers are left alone, a hidden     *)
(* game window is shown where nobody sees it.                                 *)
Needed(w) ==
  {step \in Steps : /\ Relevant(w)
                    /\ step = "style" => win[w].plain
                    /\ step = "move" => ~win[w].off
                    /\ step = "show" => ~win[w].shown}

(* A hidden window is shown: the event hook runs in the thread that shows it. *)
Shown(w) ==
  IF events /\ ~win[w].shown
  THEN [win[w] EXCEPT !.shown = TRUE, !.off = TRUE, !.plain = FALSE]
  ELSE [win[w] EXCEPT !.shown = TRUE]

Busy == \E w \in Windows : pending[w] # {}
Scanning == todo # {} \/ Busy

TypeOK == /\ install \in {"none", "off", "failed", "ready"}
          /\ patched \subseteq {Imports[i] : i \in DOMAIN Imports}
          /\ slots \subseteq Modules
          /\ stage \in {"absent", "loaded", "jump", "published"}
          /\ win \in [Windows -> [made : BOOLEAN, shown : BOOLEAN, off : BOOLEAN, plain : BOOLEAN]]
          /\ hung \subseteq Windows /\ todo \subseteq Windows
          /\ pending \in [Windows -> SUBSET Steps]
          /\ created \in 0..MaxCreates

Init == /\ install = "none" /\ patched = {} /\ slots = {} /\ detour = FALSE
        /\ events = FALSE /\ stage = "absent" /\ shutdown = FALSE
        /\ win = [w \in Windows |-> NoWindow]
        /\ hung = {} /\ todo = {} /\ pending = [w \in Windows |-> {}]
        /\ blocked = FALSE /\ created = 0

(* The bootstrap thread, while the game's first thread is suspended.  Every   *)
(* failure returns at once and leaves what was installed before it.           *)
InstallBackgroundWindowHooks ==
  /\ install = "none"
  /\ \/ /\ install' = "off"                                  \* mode not requested
        /\ UNCHANGED <<patched, slots, detour, events>>
     \/ \E n \in 0..6 :                                      \* an import is missing
          /\ install' = "failed" /\ patched' = ImportsUpTo(n)
          /\ UNCHANGED <<slots, detour, events>>
     \/ /\ patched' = ImportsUpTo(7)
        /\ slots' \in SUBSET Modules                         \* those loaded by now
        /\ \/ /\ install' = "failed"                         \* unexpected prologue
              /\ UNCHANGED <<detour, events>>
           \/ /\ detour' = TRUE
              /\ install' \in {"failed", "ready"}            \* CreateThread
              /\ events' \in IF install' = "ready" THEN BOOLEAN ELSE {FALSE}
  /\ UNCHANGED <<stage, shutdown, win, hung, controllerVars, blocked, created>>

Running == install # "none" /\ ~blocked

(* A thread of the game stops handling messages, and goes on.  Whoever calls  *)
(* on a window waits for its thread, so that nothing happens to one that      *)
(* hangs.                                                                     *)
Hangs(w) == /\ win[w].made /\ w \notin hung /\ hung' = hung \union {w}
            /\ UNCHANGED <<hookVars, shutdown, win, controllerVars, blocked, created>>
Responds(w) == /\ w \in hung /\ hung' = hung \ {w}
               /\ UNCHANGED <<hookVars, shutdown, win, controllerVars, blocked, created>>

(* CreateWindowExA: a root window made by the game starts off the screen; one *)
(* made by another module goes where that module wants it.                    *)
CreateWindow(w) ==
  /\ Running /\ ~win[w].made /\ created < MaxCreates
  /\ created' = created + 1
  /\ \E throughImport \in BOOLEAN, shown \in BOOLEAN :
       LET diverted == throughImport /\ Hooked("CreateWindowExA") IN
       win' = [win EXCEPT ![w] = [made |-> TRUE, shown |-> shown,
                 off |-> diverted \/ (shown /\ events), plain |-> ~diverted /\ ~(shown /\ events)]]
  /\ UNCHANGED <<hookVars, shutdown, hung, controllerVars, blocked>>

\* The calls made on a window that is gone fail at once.
DestroyWindow(w) ==
  /\ Running /\ win[w].made /\ w \notin hung
  /\ win' = [win EXCEPT ![w] = NoWindow]
  /\ todo' = todo \ {w} /\ pending' = [pending EXCEPT ![w] = {}]
  /\ UNCHANGED <<hookVars, shutdown, hung, blocked, created>>

(* SetWindowPos and MoveWindow of the game end off the screen; the same calls *)
(* of another module, or of the runtime's own borderless window, do not.      *)
PlaceWindow(w, name, throughImport) ==
  /\ Running /\ win[w].made /\ w \notin hung
  /\ win' = [win EXCEPT ![w].off = throughImport /\ Hooked(name)]
  /\ UNCHANGED <<hookVars, shutdown, hung, controllerVars, blocked, created>>

(* ApplyBorderlessWindowToCurrentProcess: the largest window is restyled as a *)
(* top-level application window and covers the monitor; the show event of a   *)
(* hidden one comes after that.                                               *)
ApplyBorderlessWindow(w) ==
  /\ Running /\ w \in Big /\ win[w].made /\ w \notin hung
  /\ LET caught == events /\ ~win[w].shown IN
     win' = [win EXCEPT ![w] = [made |-> TRUE, shown |-> TRUE, off |-> caught, plain |-> ~caught]]
  /\ UNCHANGED <<hookVars, shutdown, hung, controllerVars, blocked, created>>

(* ShowWindow: hiding is left alone, everything else first moves the window   *)
(* if it goes through the game's import.                                      *)
ShowWindow(w, throughImport) ==
  /\ Running /\ win[w].made /\ w \notin hung
  /\ \/ win' = [win EXCEPT ![w].shown = FALSE]
     \/ win' = [win EXCEPT ![w] =
                  [Shown(w) EXCEPT !.off = @ \/ (throughImport /\ Hooked("ShowWindow"))]]
  /\ UNCHANGED <<hookVars, shutdown, hung, controllerVars, blocked, created>>

(* The controller thread: EnumWindows takes a list of the windows, each one   *)
(* is looked at and then called.  The thread ends with the runtime, between   *)
(* two scans.                                                                 *)
ControllerScans ==
  /\ install = "ready" /\ ~shutdown /\ ~Scanning
  /\ todo' = {w \in Windows : win[w].made}
  /\ UNCHANGED <<hookVars, shutdown, win, hung, pending, blocked, created>>

ControllerExamines(w) ==
  /\ w \in todo /\ ~Busy
  /\ todo' = todo \ {w}
  /\ pending' = [pending EXCEPT ![w] = Needed(w)]
  /\ UNCHANGED <<hookVars, shutdown, win, hung, blocked, created>>

\* SetWindowLongPtrA, then SetWindowPos, then ShowWindow.
ControllerCalls(w) ==
  /\ w \notin hung
  /\ \/ /\ "style" \in pending[w]
        /\ pending' = [pending EXCEPT ![w] = @ \ {"style"}]
        /\ win' = [win EXCEPT ![w].plain = FALSE]
     \/ /\ "style" \notin pending[w] /\ "move" \in pending[w]
        /\ pending' = [pending EXCEPT ![w] = @ \ {"move"}]
        /\ win' = [win EXCEPT ![w].off = TRUE]
     \/ /\ pending[w] = {"show"}
        /\ pending' = [pending EXCEPT ![w] = {}]
        /\ win' = [win EXCEPT ![w] = Shown(w)]
  /\ UNCHANGED <<hookVars, shutdown, hung, todo, blocked, created>>

(* InstallAdditionalDialogHooks, every 10 ms and between two scans of the     *)
(* controller: the slots of the modules loaded meanwhile, then the observers  *)
(* of mssrsx, whose jump is written before the trampoline is published to the *)
(* observer.                                                                  *)
PatchDialogSlot(m) ==
  /\ install = "ready" /\ ~shutdown /\ ~Scanning /\ m \notin slots
  /\ slots' = slots \union {m}
  /\ UNCHANGED <<install, patched, detour, events, stage, shutdown,
                 win, hung, controllerVars, blocked, created>>

LoadMssrsx == /\ Running /\ stage = "absent" /\ stage' = "loaded"
              /\ UNCHANGED <<install, patched, slots, detour, events, shutdown,
                             win, hung, controllerVars, blocked, created>>

InstallMssrsxHook ==
  /\ install = "ready" /\ ~shutdown /\ ~Scanning
  /\ \/ stage = "loaded" /\ stage' = "jump"
     \/ stage = "jump" /\ stage' = "published"
  /\ UNCHANGED <<install, patched, slots, detour, events, shutdown,
                 win, hung, controllerVars, blocked, created>>

\* Mutant: a cached address and a module not patched yet are forgotten.
AnsweredBySlot(m) == m \in slots \/ (m = "pal4" /\ Hooked("MessageBoxA"))

(* MessageBoxA from module m: through its own slot, through the game's import *)
(* or straight to user32.  The hook answers IDOK; otherwise a dialog opens    *)
(* and the thread waits for a user who is not there.                          *)
Answered(m) == m \in slots \/ (m = "pal4" /\ Hooked("MessageBoxA")) \/ detour

MessageBoxA(m) ==
  /\ Running /\ install # "off"
  /\ blocked' = ~Answered(m)
  /\ UNCHANGED <<hookVars, shutdown, win, hung, controllerVars, created>>

RequestShutdown == /\ install # "none" /\ ~shutdown /\ shutdown' = TRUE
                   /\ UNCHANGED <<hookVars, win, hung, controllerVars, blocked, created>>

(* The windows and the dialogs share no more than the installation: the two   *)
(* halves of Next.                                                            *)
WindowsNext ==
  \/ InstallBackgroundWindowHooks \/ RequestShutdown \/ ControllerScans
  \/ \E w \in Windows : \/ CreateWindow(w) \/ DestroyWindow(w) \/ ApplyBorderlessWindow(w)
                        \/ Hangs(w) \/ Responds(w)
                        \/ ControllerExamines(w) \/ ControllerCalls(w)
                        \/ \E t \in BOOLEAN : \/ ShowWindow(w, t)
                                              \/ PlaceWindow(w, "SetWindowPos", t)
                                              \/ PlaceWindow(w, "MoveWindow", t)

DialogsNext ==
  \/ InstallBackgroundWindowHooks \/ RequestShutdown \/ LoadMssrsx \/ InstallMssrsxHook
  \/ \E m \in Modules : PatchDialogSlot(m) \/ MessageBoxA(m)

Next == WindowsNext \/ DialogsNext

Spec == Init /\ [][Next]_vars

(* The controller sleeps a millisecond between two scans and waits for nobody *)
(* but the thread of the window it calls on, and a thread that handles        *)
(* messages handles the ones sent to its windows first: a call on a window    *)
(* that responds again and again returns.                                     *)
Scans == ControllerScans \/ \E w \in Windows : ControllerExamines(w)
Calls == \E w \in Windows : ControllerCalls(w)
Fairness == WF_vars(Scans) /\ SF_vars(Calls)
-----------------------------------------------------------------------------
(* Whoever moves, shows or restyles a window, the game through its imports,   *)
(* another module or the runtime's borderless mode: once the background mode  *)
(* is ready and the others leave the window alone, it is off the screen, or   *)
(* gone, or the runtime shuts down, provided that no window of the process    *)
(* hangs for good, for one such window keeps the controller from all of them  *)
(* (background_window_hooks.cpp:84-189, README.md:129).                       *)
KeptOffscreen ==
  \A w \in Windows :
    ((\A v \in Windows : []<>(v \notin hung)) /\ <>[][win'[w] = win[w] \/ ControllerCalls(w)]_vars)
      => ((install = "ready" /\ Misplaced(w)) ~> (shutdown \/ ~Misplaced(w)))

(* No dialog of any module blocks the game's thread once the background mode  *)
(* is ready, not even one of a module whose slots are not patched yet or that *)
(* cached the address (background_window_hooks.cpp:578-596, 966-1001).        *)
NoModalWait == install = "ready" => ~blocked

(* The inductive invariant: the game waits for the installation, and a ready  *)
(* mode has diverted user32's own entry, which every way to a dialog ends at. *)
DialogInv == /\ install = "none" => ~blocked
             /\ install = "ready" => detour

IInv == TypeOK /\ DialogInv /\ NoModalWait
=============================================================================
