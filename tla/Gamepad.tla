------------------------------ MODULE Gamepad ------------------------------
(***************************************************************************)
(* The XInput gamepad inside the game (runtime/gamepad_runtime.cpp and the *)
(* selections of common/gamepad.cpp).  Hook_ProcessInputs polls it once an *)
(* input frame on the game thread; a frame runs through UpdateConnection-  *)
(* State, the checks of the two kinds of menus, the buttons, the space key *)
(* the A button mirrors, the D-pad and the sticks, one action each.  The   *)
(* hook mode of process_inputs is changed by the IPC thread at any time.   *)
(*                                                                         *)
(* External: the pad, the game's user interface, which the code knows only *)
(* from queries that fail while CEGUI or its sheet is missing, and the     *)
(* game's own poll of the keyboard.  Intervals of 100 ms and the repeat    *)
(* delays are abstracted to "elapsed or not".  Page numbers, key codes and *)
(* the five sectors of the combat wheel are abstracted away; the mouse     *)
(* pointer and the camera are not part of this module.                     *)
(***************************************************************************)
EXTENDS Naturals, FiniteSets, SequencesExt

CONSTANTS
  Buttons,           \* the mapped buttons of the pad in use
  Dpad,              \* its directions in use
  Pads,              \* the sets of inputs held down at once
  GameUis,           \* what the game may show
  OpenDelay,         \* kSystemMenuOpenValidationDelayFrames
  HiddenFrames,      \* kSystemMenuHiddenConfirmationFrames
  SendInputResults   \* what SendInput may return

ButtonOrder == <<"a", "b", "x", "y", "lb", "rb", "lt", "rt", "back", "start", "l3", "r3">>

Inputs == Buttons \union Dpad \union {"stick"}
Standalone == {"save", "trade"}
Combat == {"wheel", "combatList"}
UiStates == {"boot", "loading", "title", "world", "menu"} \union Standalone \union Combat

ASSUME GamepadAssumption ==
  /\ Buttons \subseteq {ButtonOrder[i] : i \in DOMAIN ButtonOrder}
  /\ Dpad \subseteq {"up", "down", "left", "right"}
  /\ Pads \subseteq SUBSET Inputs /\ GameUis \subseteq UiStates
  /\ OpenDelay \in Nat /\ HiddenFrames \in Nat \ {0}
  /\ SendInputResults \subseteq BOOLEAN /\ TRUE \in SendInputResults

VARIABLES
  ui,                \* what the game shows
  started,           \* the game has a PALIV object
  mode,              \* hook mode of process_inputs
  raw,               \* InputManager's state of the space key
  pc,                \* where the frame is
  current,           \* the inputs held down in this frame's XINPUT_STATE
  todo,              \* pressed buttons the frame has not handled yet
  inCtx, inCombat, inWheel,   \* input_context and the query of UpdateMappedButtons
  sent,              \* history: what the last step dispatched, or tried to
  connected, prev,   \* GamepadRuntime::connected, previous_state
  systemMenu, delay, hidden,  \* system_menu_active and the counters of its check
  standalone, menuFresh,      \* standalone_menu; queried less than 100 ms ago
  context,           \* GamepadRuntime::context
  holdSpace, rawHeld,         \* the space key is down in Win32, in InputManager
  refused,           \* history: SendInput refused the change holdSpace still waits for
  dpadMode,          \* dpad_navigation_mode
  moving,            \* the left stick drives the player
  combatActive, wheel, sector, combatFresh  \* combat_*; a sector is selected; queried lately

gameVars == <<ui, started>>
inVars == <<inCtx, inCombat, inWheel>>
menuVars == <<systemMenu, delay, hidden>>
combatVars == <<combatActive, wheel, sector, combatFresh>>
spaceVars == <<raw, holdSpace, rawHeld, refused>>
vars == <<ui, started, mode, raw, pc, current, todo, inCtx, inCombat, inWheel, sent,
          connected, prev, systemMenu, delay, hidden, standalone, menuFresh, context,
          holdSpace, rawHeld, refused, dpadMode, moving, combatActive, wheel, sector, combatFresh>>

Contexts == {"gameplay", "system_menu", "menu"}
DpadModes == {"gameplay_shortcuts", "plain_ui", "system_menu"}
FramePCs == {"game", "connection", "shell", "standalone", "buttons", "press", "space", "dpad", "sticks"}

GameTypes ==
  /\ ui \in UiStates /\ started \in BOOLEAN /\ mode \in {"replace", "observe"}
  /\ raw \in 0 .. 3 /\ holdSpace \in BOOLEAN /\ rawHeld \in BOOLEAN /\ refused \in BOOLEAN
FrameTypes ==
  /\ current \subseteq Inputs /\ prev \subseteq Inputs
  /\ pc \in FramePCs /\ todo \subseteq Buttons /\ connected \in BOOLEAN
  /\ inCtx \in Contexts /\ inCombat \in BOOLEAN /\ inWheel \in BOOLEAN
  /\ sent \in {"none", "page", "shortcut", "esc", "nav", "click"}
MenuTypes ==
  /\ systemMenu \in BOOLEAN /\ delay \in 0 .. OpenDelay /\ hidden \in 0 .. HiddenFrames - 1
  /\ standalone \in Standalone \union {"none"} /\ menuFresh \in BOOLEAN
  /\ context \in Contexts /\ dpadMode \in DpadModes
  /\ moving \in BOOLEAN /\ combatActive \in BOOLEAN /\ wheel \in BOOLEAN
  /\ sector \in BOOLEAN /\ combatFresh \in BOOLEAN

TypeOK == GameTypes /\ FrameTypes /\ MenuTypes

Init ==
  /\ current = {} /\ prev = {} /\ ui = "boot" /\ started = FALSE
  /\ mode = "replace" /\ raw = 0 /\ pc = "game" /\ todo = {}
  /\ inCtx = "gameplay" /\ inCombat = FALSE /\ inWheel = FALSE /\ sent = "none"
  /\ connected = FALSE /\ systemMenu = FALSE /\ delay = 0 /\ hidden = 0
  /\ standalone = "none" /\ menuFresh = FALSE /\ context = "gameplay"
  /\ holdSpace = FALSE /\ rawHeld = FALSE /\ refused = FALSE /\ dpadMode = "gameplay_shortcuts"
  /\ moving = FALSE /\ combatActive = FALSE /\ wheel = FALSE /\ sector = FALSE /\ combatFresh = FALSE

----------------------------------------------------------------------------
\* Queries of the user interface.

\* CaptureUiSnapshotInternal: needs CEGUI and a sheet.
SnapshotOk == ui \notin {"boot", "loading"}
\* ResolveWindowByName: needs CEGUI only.
NamesOk == ui # "boot"

\* Mutant: a window object left visible counts, attached to the sheet or not.
DetachedShellVisible == systemMenu

\* QuerySystemMenuShellVisible, when NamesOk.
ShellVisible == ui = "menu"

\* QueryGamepadNavigationUiState, when SnapshotOk.
MenuVisible == ui = "menu"
MenuNavigationVisible == ui \in Standalone \union {"title"}
CombatNavigationVisible == ui \in Combat
ActionWheelVisible == ui = "wheel"

\* ResolveGamepadInputContext of the flags kept, for DetermineContext.
ContextOf(menuFlag) ==
  CASE standalone # "none" -> "menu"
    [] standalone = "none" /\ menuFlag -> "system_menu"
    [] standalone = "none" /\ ~menuFlag -> IF started THEN "gameplay" ELSE "menu"
DetermineContext == ContextOf(systemMenu)

\* DefaultXbox360GamepadMapping, the one mapping settings migrate to.
Binding ==
  [a |-> "confirm", b |-> "cancel", x |-> "place_marker", y |-> "maze_skill",
   lb |-> "main_page_previous", rb |-> "main_page_next",
   lt |-> "sub_page_previous", rt |-> "sub_page_next", back |-> "cancel",
   start |-> "system_page", l3 |-> "switch_leader", r3 |-> "camera_distance_cycle"]

\* ResolveGamepadActionForContext.
ActionFor(b) ==
  IF inCtx = "gameplay"
  THEN CASE inWheel /\ b \in {"x", "y"} -> "combat_button"
         [] b = "lb" -> "map"
         [] b = "b" -> IF inCombat THEN "cancel" ELSE "none"
         [] b = "back" -> "none"
         [] OTHER -> Binding[b]
  ELSE IF b = "start" THEN "none" ELSE Binding[b]

PageActions == {"main_page_previous", "main_page_next", "sub_page_previous", "sub_page_next"}
Shortcuts == {"place_marker", "maze_skill", "switch_leader", "camera_distance_cycle"}

\* SelectGamepadDpadNavigationMode, given the query UpdateDpadNavigation makes in gameplay.
SelectDpadMode(ctx) ==
  LET queried == ctx = "gameplay" /\ SnapshotOk IN
  CASE queried /\ CombatNavigationVisible -> "plain_ui"
    [] ctx = "system_menu" \/ (queried /\ MenuVisible) -> "system_menu"
    [] ctx = "menu" \/ (queried /\ MenuNavigationVisible) -> "plain_ui"
    [] OTHER -> "gameplay_shortcuts"

\* InputManager's key states: 0 and 1 up, 2 just pressed, 3 held.
PressUpdate(r) == IF r < 2 THEN 2 ELSE 3
ReleaseUpdate(r) == IF r < 2 THEN 0 ELSE 1

\* Mutant: the first frame of a press advances twice.
EagerKeyMirrorPlan(pressed, was, r) ==
  CASE ~pressed -> IF was /\ r >= 2 THEN ReleaseUpdate(r) ELSE r
    [] pressed -> IF r < 2 THEN PressUpdate(PressUpdate(r)) ELSE r

\* BuildGamepadKeyMirrorPlan and the updates it asks for.
KeyMirrorPlan(pressed, was, r) ==
  CASE ~pressed -> IF was /\ r >= 2 THEN ReleaseUpdate(r) ELSE r
    [] pressed /\ ~was -> IF r < 2 THEN PressUpdate(r) ELSE r
    [] pressed /\ was -> IF r < 2 THEN PressUpdate(PressUpdate(r)) ELSE PressUpdate(r)

----------------------------------------------------------------------------
\* The surroundings.

\* The game goes on between frames; PALIV exists in a scene and may at the title.
GameChanges ==
  /\ pc = "game"
  /\ ui' \in GameUis \ {"boot"}
  /\ started' \in BOOLEAN
  /\ ui' \notin {"title", "loading"} => started'
  /\ UNCHANGED <<current, mode, spaceVars, pc, todo, inVars, sent, connected, prev,
                 menuVars, standalone, menuFresh, context, dpadMode, moving, combatVars>>

TimePasses ==
  /\ pc = "game"
  /\ menuFresh' = FALSE /\ combatFresh' = FALSE
  /\ UNCHANGED <<current, gameVars, mode, spaceVars, pc, todo, inVars, sent, connected, prev,
                 menuVars, standalone, context, dpadMode, moving,
                 combatActive, wheel, sector>>

\* IPC thread: set_hook_mode for process_inputs.  The hook reads the mode once, as it
\* begins: a change during a frame is one before the next.
SetHookMode(m) ==
  /\ pc = "game" /\ mode' = m /\ sent' = "none"
  /\ UNCHANGED <<current, gameVars, spaceVars, pc, todo, inVars, connected, prev,
                 menuVars, standalone, menuFresh, context, dpadMode, moving, combatVars>>

----------------------------------------------------------------------------
\* Hook_ProcessInputs.  The native poll sees no physical key and releases the
\* space key; without a tick the frame ends there.  The gamepad is enabled: the
\* setting is read once, by the bootstrap.

ProcessInputs ==
  /\ pc = "game"
  /\ raw' = ReleaseUpdate(raw) /\ sent' = "none"
  /\ pc' = IF mode = "replace" THEN "connection" ELSE "game"
  /\ UNCHANGED <<current, gameVars, mode, holdSpace, rawHeld, refused, todo, inVars, connected, prev,
                 menuVars, standalone, menuFresh, context, dpadMode, moving, combatVars>>

\* XInputGetState answers: UpdateConnectionState(true).
Connected ==
  /\ pc = "connection" /\ pc' = "shell"
  /\ connected' = TRUE /\ current' \in Pads
  /\ UNCHANGED <<gameVars, mode, spaceVars, todo, inVars, sent, prev, menuVars,
                 standalone, menuFresh, context, dpadMode, moving, combatVars>>

\* Mutant: the keys the pad holds down stay down.
KeepDirectKeyboardHolds == UNCHANGED spaceVars

\* SetInjectedKeyboardKeyHeld: SendInput may refuse, and the flag keeps what Win32 sees.
HoldSpace(pressed) ==
  \E ok \in SendInputResults :
    /\ holdSpace' = IF ok THEN pressed ELSE holdSpace
    /\ refused' = (holdSpace # pressed /\ ~ok)

\* ReleaseDirectKeyboardHolds.
ReleaseDirectKeyboardHolds ==
  /\ HoldSpace(FALSE)
  /\ raw' = KeyMirrorPlan(FALSE, rawHeld, raw)
  /\ rawHeld' = FALSE

\* It does not: UpdateConnectionState(false), which cleans up once.
Disconnected ==
  /\ pc = "connection" /\ pc' = "game" /\ connected' = FALSE
  /\ IF connected
     THEN /\ systemMenu' = FALSE /\ delay' = 0 /\ hidden' = 0
          /\ context' = "gameplay" /\ prev' = {} /\ standalone' = "none" /\ menuFresh' = FALSE
          /\ dpadMode' = "gameplay_shortcuts" /\ moving' = FALSE
          /\ combatActive' = FALSE /\ wheel' = FALSE /\ sector' = FALSE /\ combatFresh' = FALSE
          /\ ReleaseDirectKeyboardHolds
     ELSE UNCHANGED <<prev, menuVars, standalone, menuFresh, context, spaceVars, dpadMode,
                      moving, combatVars>>
  /\ UNCHANGED <<current, gameVars, mode, todo, inVars, sent>>

\* The shell has been missing for long enough.
HiddenConfirmed == hidden + 1 >= HiddenFrames

\* SynchronizeSystemMenuShellVisibility.
SynchronizeShell ==
  /\ pc = "shell" /\ pc' = "standalone"
  /\ \/ /\ ~systemMenu \/ (delay = 0 /\ ~NamesOk)
        /\ UNCHANGED <<menuVars, moving>>
     \/ /\ systemMenu /\ delay > 0
        /\ delay' = delay - 1 /\ UNCHANGED <<systemMenu, hidden, moving>>
     \/ /\ systemMenu /\ delay = 0 /\ NamesOk /\ ShellVisible
        /\ hidden' = 0 /\ UNCHANGED <<systemMenu, delay, moving>>
     \/ /\ systemMenu /\ delay = 0 /\ NamesOk /\ ~ShellVisible
        /\ IF HiddenConfirmed
           THEN systemMenu' = FALSE /\ delay' = 0 /\ hidden' = 0 /\ moving' = FALSE
           ELSE hidden' = hidden + 1 /\ UNCHANGED <<systemMenu, delay, moving>>
  /\ UNCHANGED <<current, gameVars, mode, spaceVars, todo, inVars, sent, connected, prev,
                 standalone, menuFresh, context, dpadMode, combatVars>>

\* Mutant: only the 100 ms interval counts.
LazyPollDue == ~menuFresh

\* The condition of the poll in TickGamepadInputCore, in so far as the state decides it:
\* dwPacketNumber has changed when the inputs have, and may have when they have not.
PollDue == ~menuFresh \/ current # prev

\* RefreshStandaloneMenuState.
RefreshStandalone ==
  /\ pc = "standalone"
  /\ LET menu == IF ui \in Standalone THEN ui ELSE "none"
     IN IF NamesOk /\ menu # standalone
        THEN standalone' = menu /\ moving' = FALSE
        ELSE UNCHANGED <<standalone, moving>>
  /\ menuFresh' = TRUE /\ pc' = "buttons"
  /\ UNCHANGED <<current, gameVars, mode, spaceVars, todo, inVars, sent, connected, prev,
                 menuVars, context, dpadMode, combatVars>>

\* No poll in this frame.
KeepStandalone ==
  /\ pc = "standalone" /\ ~PollDue
  /\ pc' = "buttons"
  /\ UNCHANGED <<current, gameVars, mode, spaceVars, todo, inVars, sent, connected, prev,
                 menuVars, standalone, menuFresh, context, dpadMode, moving, combatVars>>

----------------------------------------------------------------------------
\* UpdateMappedButtons.

ContextSensitive == Buttons \ {"a", "l3", "r3"}
JustPressed(b) == b \in current \ prev

\* The query at the first press of a button, and the loop's starting point.
StartButtons ==
  /\ pc = "buttons" /\ pc' = "press"
  /\ todo' = current \intersect Buttons
  /\ IF (\E b \in ContextSensitive : JustPressed(b)) /\ SnapshotOk
     THEN /\ inCombat' = CombatNavigationVisible /\ inWheel' = ActionWheelVisible
          /\ systemMenu' = (systemMenu \/ (standalone = "none" /\ MenuVisible))
          /\ inCtx' = CASE standalone # "none" -> "menu"
                        [] standalone = "none" /\ MenuVisible -> "system_menu"
                        [] standalone = "none" /\ MenuNavigationVisible -> "menu"
                        [] OTHER -> DetermineContext
     ELSE /\ inCombat' = FALSE /\ inWheel' = FALSE /\ inCtx' = DetermineContext
          /\ UNCHANGED systemMenu
  /\ UNCHANGED <<current, gameVars, mode, spaceVars, sent, connected, prev, delay, hidden,
                 standalone, menuFresh, context, dpadMode, moving, combatVars>>

\* The loop is at button b.
At(b) ==
  /\ pc = "press" /\ todo # {}
  /\ b = ButtonOrder[CHOOSE i \in DOMAIN ButtonOrder :
           ButtonOrder[i] \in todo /\ \A j \in 1 .. i - 1 : ButtonOrder[j] \notin todo]
  /\ todo' = todo \ {b}

\* A button the loop does nothing for: the space key, an action without effect, no new press.
NoAction(b) ==
  /\ At(b) /\ ActionFor(b) \notin PageActions
  /\ ~JustPressed(b) \/ ActionFor(b) \in {"confirm", "none"}
  /\ sent' = "none"
  /\ UNCHANGED <<current, gameVars, mode, spaceVars, pc, inVars, connected, prev,
                 menuVars, standalone, menuFresh, context, dpadMode, moving, combatVars>>

\* ConsumeGamepadRepeat for a page button, then TryActivateTradeCategorySwitch or
\* ExecutePageAction; there may be nothing to switch to.
PageButton(b) ==
  /\ At(b) /\ ActionFor(b) \in PageActions
  /\ LET trade == standalone = "trade" /\ b \in {"lb", "rb"}
         page == ~trade /\ inCtx = "system_menu"
     IN \/ sent' = "none"
        \/ trade /\ ui = "trade" /\ sent' = "click"
        \/ page /\ systemMenu /\ SnapshotOk /\ sent' = "nav"
  /\ UNCHANGED <<current, gameVars, mode, spaceVars, pc, inVars, connected, prev,
                 menuVars, standalone, menuFresh, context, dpadMode, moving, combatVars>>

\* What Esc may do to the user interface.
Closes ==
  CASE ui = "combatList" -> {"combatList", "wheel"}
    [] ui \in {"menu", "save", "trade"} -> {ui, "world"}
    [] OTHER -> {ui}

\* ExecuteImmediateAction(cancel): Esc reaches the game within the call.
Cancel(b) ==
  /\ At(b) /\ JustPressed(b) /\ ActionFor(b) = "cancel"
  /\ systemMenu' = IF SnapshotOk THEN MenuVisible ELSE systemMenu
  /\ IF \/ ContextOf(systemMenu') # "gameplay"
        \/ SnapshotOk /\ (MenuNavigationVisible \/ CombatNavigationVisible)
     THEN sent' = "esc" /\ ui' \in Closes \intersect (GameUis \union {ui})
     ELSE sent' = "none" /\ UNCHANGED ui
  /\ moving' = FALSE
  /\ UNCHANGED <<current, started, mode, spaceVars, pc, inVars, connected, prev,
                 delay, hidden, standalone, menuFresh, context, dpadMode, combatVars>>

\* OpenSystemMenuPage: a tap through SendInput, the game reacts later.
OpenSystemMenuPage ==
  /\ \E ok \in SendInputResults :
       IF ok
       THEN systemMenu' = TRUE /\ delay' = OpenDelay /\ hidden' = 0
       ELSE UNCHANGED menuVars
  /\ moving' = FALSE /\ sent' = "page"

StartButton(b) ==
  /\ At(b) /\ JustPressed(b) /\ ActionFor(b) = "system_page"
  /\ OpenSystemMenuPage
  /\ UNCHANGED <<current, gameVars, mode, spaceVars, pc, inVars, connected, prev,
                 standalone, menuFresh, context, dpadMode, combatVars>>

\* The keys M, V, C, Tab and the camera distance; all but M ask for the context again.
Shortcut(b) ==
  /\ At(b) /\ JustPressed(b) /\ ActionFor(b) \in Shortcuts \union {"map"}
  /\ sent' = IF ActionFor(b) = "map" \/ DetermineContext = "gameplay" THEN "shortcut" ELSE "none"
  /\ UNCHANGED <<current, gameVars, mode, spaceVars, pc, inVars, connected, prev,
                 menuVars, standalone, menuFresh, context, dpadMode, moving, combatVars>>

\* TryActivateCombatActionButton: a click on the wheel, if it is still there.
CombatButton(b) ==
  /\ At(b) /\ JustPressed(b) /\ ActionFor(b) = "combat_button"
  /\ \/ ActionWheelVisible /\ sent' = "click" /\ ui' \in Combat \intersect GameUis
     \/ sent' = "none" /\ UNCHANGED ui
  /\ UNCHANGED <<current, started, mode, spaceVars, pc, inVars, connected, prev,
                 menuVars, standalone, menuFresh, context, dpadMode, moving, combatVars>>

ButtonsDone ==
  /\ pc = "press" /\ todo = {} /\ pc' = "space" /\ sent' = "none"
  /\ UNCHANGED <<current, gameVars, mode, spaceVars, todo, inVars, connected, prev,
                 menuVars, standalone, menuFresh, context, dpadMode, moving, combatVars>>

\* SetInjectedKeyboardKeyHeld and UpdateGameplayKeyMirror with the A button.
MirrorSpace ==
  /\ pc = "space" /\ pc' = "dpad"
  /\ HoldSpace("a" \in current)
  /\ raw' = KeyMirrorPlan("a" \in current, rawHeld, raw) /\ rawHeld' = ("a" \in current)
  /\ UNCHANGED <<current, gameVars, mode, todo, inVars, sent, connected, prev,
                 menuVars, standalone, menuFresh, context, dpadMode, moving, combatVars>>

----------------------------------------------------------------------------
\* UpdateDpadNavigation.

Held == current \intersect Dpad
WasHeld == prev \intersect Dpad

\* The mode for this frame; it is chosen anew when a hold begins or the context has changed.
NextDpadMode ==
  CASE Held = {} -> "gameplay_shortcuts"
    [] Held # {} /\ (WasHeld = {} \/ DetermineContext # context) -> SelectDpadMode(DetermineContext)
    [] OTHER -> dpadMode

\* The query that comes with the choice may find the system menu.
DpadFindsMenu ==
  /\ Held # {} /\ (WasHeld = {} \/ DetermineContext # context)
  /\ DetermineContext = "gameplay" /\ MenuVisible

\* Shortcut mode: a direction just pressed opens its page.
DpadShortcuts ==
  /\ pc = "dpad" /\ pc' = "sticks" /\ NextDpadMode = "gameplay_shortcuts"
  /\ dpadMode' = "gameplay_shortcuts"
  /\ IF Held \ WasHeld # {}
     THEN OpenSystemMenuPage
     ELSE UNCHANGED <<menuVars, moving>> /\ sent' = "none"
  /\ UNCHANGED <<current, gameVars, mode, spaceVars, todo, inVars, connected, prev,
                 standalone, menuFresh, context, combatVars>>

\* The other modes: keys with repeat, or a click that switches the role.
DpadNavigates ==
  /\ pc = "dpad" /\ pc' = "sticks" /\ NextDpadMode # "gameplay_shortcuts"
  /\ dpadMode' = NextDpadMode
  /\ systemMenu' = (systemMenu \/ DpadFindsMenu)
  /\ sent' \in {"nav", "none"}
  /\ UNCHANGED <<current, gameVars, mode, spaceVars, todo, inVars, connected, prev,
                 delay, hidden, standalone, menuFresh, context, moving, combatVars>>

----------------------------------------------------------------------------
\* UpdateAnalogSticks and the end of TickGamepadInputCore.

EndFrame ==
  /\ pc = "sticks" /\ pc' = "game"
  /\ context' = DetermineContext /\ prev' = current /\ current' = {}
  /\ inCtx' = "gameplay" /\ inCombat' = FALSE /\ inWheel' = FALSE
  /\ UNCHANGED <<gameVars, mode, spaceVars, todo, connected, menuVars, standalone,
                 menuFresh, dpadMode>>

\* In a menu the stick navigates or does nothing; the combat flags stay as they are.
SticksInMenu ==
  /\ EndFrame /\ DetermineContext # "gameplay"
  /\ moving' = FALSE
  /\ sent' \in IF standalone # "none" /\ "stick" \in current THEN {"nav", "none"} ELSE {"none"}
  /\ UNCHANGED combatVars

\* Mutant: combat is looked for only while it is known.
CombatQueryDueKnown == combatActive /\ ~combatFresh

\* The condition of RefreshCombatAnalogUiState.
CombatQueryDue == ("stick" \in current \/ combatActive) /\ ~combatFresh

\* The flags after the query, if it is made.
Queried == CombatQueryDue /\ NamesOk
CombatNow == IF Queried THEN CombatNavigationVisible ELSE combatActive
WheelNow == IF Queried THEN ActionWheelVisible ELSE wheel

\* The sector after the query.
SectorNow == sector /\ ~(Queried /\ (WheelNow # wheel \/ ~CombatNow))

\* ShouldCenterGamepadCombatWheel.
Centres == WheelNow /\ SectorNow

\* In the scene, stick at rest: BuildGamepadCombatWheelNavigationPlan(none) goes up to
\* the top node and down to the centre before the sector is forgotten.
SticksAtRest ==
  /\ EndFrame /\ DetermineContext = "gameplay" /\ "stick" \notin current
  /\ sent' = IF Centres THEN "nav" ELSE "none"
  /\ moving' = FALSE /\ combatActive' = CombatNow
  /\ sector' = (SectorNow /\ CombatNow /\ ~Centres)
  /\ wheel' = (WheelNow /\ CombatNow)
  /\ combatFresh' = (CombatNow /\ (combatFresh \/ CombatQueryDue))

\* Stick pushed in a known combat: it selects a sector, none when pushed little.
SticksInCombat ==
  /\ EndFrame /\ DetermineContext = "gameplay" /\ "stick" \in current /\ CombatNow
  /\ moving' = FALSE /\ combatActive' = TRUE /\ wheel' = WheelNow
  /\ sector' \in IF WheelNow THEN BOOLEAN ELSE {FALSE}
  /\ sent' \in CASE WheelNow /\ SectorNow /\ ~sector' -> {"nav"}
                 [] WheelNow /\ ~SectorNow -> {IF sector' THEN "nav" ELSE "none"}
                 [] OTHER -> {"nav", "none"}
  /\ combatFresh' = (combatFresh \/ CombatQueryDue)

\* Stick pushed otherwise: the player moves.
SticksMove ==
  /\ EndFrame /\ DetermineContext = "gameplay" /\ "stick" \in current /\ ~CombatNow
  /\ moving' = TRUE /\ sent' = "none"
  /\ combatActive' = FALSE /\ wheel' = WheelNow /\ sector' = SectorNow
  /\ combatFresh' = (combatFresh \/ CombatQueryDue)

----------------------------------------------------------------------------
Button(b) ==
  NoAction(b) \/ PageButton(b) \/ Cancel(b) \/ StartButton(b) \/ Shortcut(b) \/ CombatButton(b)

Frame ==
  \/ ProcessInputs \/ Connected \/ Disconnected \/ SynchronizeShell
  \/ RefreshStandalone \/ KeepStandalone
  \/ StartButtons \/ (\E b \in Buttons : Button(b)) \/ ButtonsDone
  \/ MirrorSpace \/ DpadShortcuts \/ DpadNavigates
  \/ SticksInMenu \/ SticksAtRest \/ SticksInCombat \/ SticksMove

Surroundings ==
  \/ GameChanges \/ TimePasses
  \/ \E m \in {"replace", "observe"} : SetHookMode(m)

Next == Frame \/ Surroundings

Spec == Init /\ [][Next]_vars

\* The game polls its input every frame; the clock goes on, and however many frames
\* fit into 100 ms, the interval ends between two of them.
FairSpec == Spec /\ WF_vars(Frame) /\ SF_vars(TimePasses)

----------------------------------------------------------------------------
\* After a frame the Win32 space key is down exactly if the A button was down
\* in it, and a pad that is gone holds nothing (launcher_guide.md:38), whatever
\* frames the hook mode skipped and however the pad came and went, unless
\* SendInput refused the change.  With a pad every later frame tries it again,
\* so one success repairs it; a release refused as the pad went is not tried
\* again before a pad is back (UpdateConnectionState returns early).
SpaceMirrors ==
  pc = "game" /\ ~refused => holdSpace = (connected /\ "a" \in prev)

\* InputManager shows the space key as just pressed in the first frame of a
\* press and as held in every later one: one-shot interactions see each press
\* once (architecture.md:183).
JustPressedOnce ==
  [][pc = "space" /\ pc' = "dpad" /\ "a" \in current => raw' = IF "a" \in prev THEN 3 ELSE 2]_vars

\* While a shop or save window is shown no key of the scene is sent, not even
\* for the first press after it has opened (the comment in TickGamepadInputCore).
NoShortcutInMenu ==
  [][(ui \in Standalone) => ~(pc \in {"press", "dpad"} /\ sent' \in {"page", "shortcut"})]_vars

\* In the scene with the pad at rest, no menu flag survives: movement comes back
\* after a saved game was loaded from a menu (launcher_guide.md:42).
NoStaleMenu ==
  <>[](mode = "replace" /\ current = {} /\ ui = "world")
    => <>[](~systemMenu /\ standalone = "none" /\ DetermineContext = "gameplay")

\* In a combat the stick stops driving the player, although it may be pushed all the
\* time and have driven the player into the combat (launcher_guide.md:41).
CombatStopsPlayer ==
  <>[](mode = "replace" /\ ui \in Combat) => <>[](~moving)

\* What architecture.md:182 and launcher_guide.md:39 say: a hold of the D-pad
\* keeps the meaning it had when it began.
DpadModeLocked ==
  [][pc = "dpad" /\ Held # {} /\ WasHeld # {} => dpadMode' = dpadMode]_vars

----------------------------------------------------------------------------
(* The inductive invariant: what holds between the steps of a frame.         *)

\* A pad that is gone left nothing behind, and without one a frame ends early.
PadInv ==
  /\ ~connected => prev = {}
  /\ pc \notin {"game", "connection"} => connected

\* InputManager's space key is up when the A button's turn comes, and the runtime
\* knows whether the last frame pressed it.
RawInv ==
  /\ pc \notin {"dpad", "sticks"} => (rawHeld <=> "a" \in prev)
  /\ pc \in {"dpad", "sticks"} => (rawHeld <=> "a" \in current)
  /\ pc \in FramePCs \ {"game", "dpad", "sticks"} => raw < 2

\* The same of the Win32 key, unless SendInput refused it.
HoldInv ==
  ~refused =>
    /\ pc \notin {"dpad", "sticks"} => (holdSpace <=> connected /\ "a" \in prev)
    /\ pc \in {"dpad", "sticks"} => (holdSpace <=> "a" \in current)

\* A shop or save window on the screen is known when a press is handled, or
\* there is no press: the poll is skipped for unchanged inputs only.
ShopInv ==
  /\ (ui \in Standalone /\ pc \in {"buttons", "press", "space", "dpad"})
       => standalone # "none" \/ current = prev
  /\ (pc = "press" /\ standalone # "none") => inCtx = "menu"

\* A direction held in a menu was never taken for a shortcut there.
HoldsInMenu(inputs) == inputs \intersect Dpad # {} => dpadMode # "gameplay_shortcuts"
DpadInv ==
  /\ (context = "menu" /\ pc # "sticks") => HoldsInMenu(prev)
  /\ (DetermineContext = "menu" /\ pc = "sticks") => HoldsInMenu(current)

IInv == TypeOK /\ PadInv /\ RawInv /\ ShopInv /\ DpadInv
=============================================================================
