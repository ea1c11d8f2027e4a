--------------------------- MODULE GamepadProofs ---------------------------
(***************************************************************************)
(* Theorems about Gamepad, for any pads, whatever the game shows, and      *)
(* however many buttons are held down at once.                             *)
(***************************************************************************)
EXTENDS Gamepad, TLAPS

-----------------------------------------------------------------------------
(* The pure parts.                                                         *)

\* The key states stay among the four, and the plan follows the button.
LEMMA KeyStates ==
  ASSUME NEW r \in 0 .. 3, NEW pressed, NEW was
  PROVE  /\ KeyMirrorPlan(pressed, was, r) \in 0 .. 3
         /\ ReleaseUpdate(r) \in 0 .. 1
         /\ r < 2 /\ pressed => KeyMirrorPlan(pressed, was, r) = IF was THEN 3 ELSE 2
  <1>1. CASE pressed /\ was
    BY <1>1 DEF KeyMirrorPlan, PressUpdate, ReleaseUpdate
  <1>2. CASE pressed /\ ~was
    BY <1>2 DEF KeyMirrorPlan, PressUpdate, ReleaseUpdate
  <1>3. CASE ~pressed
    BY <1>3 DEF KeyMirrorPlan, PressUpdate, ReleaseUpdate
  <1> QED
    BY <1>1, <1>2, <1>3

\* The buttons, by their names.
LEMMA ButtonNames ==
  ASSUME NEW b \in Buttons
  PROVE  b \in {"a", "b", "x", "y", "lb", "rb", "lt", "rt", "back", "start", "l3", "r3"}
  <1>1. DOMAIN ButtonOrder = 1 .. 12
    BY DEF ButtonOrder
  <1>2. PICK i \in 1 .. 12 : b = ButtonOrder[i]
    BY <1>1, GamepadAssumption
  <1>3. i \in {1, 2, 3, 4, 5, 6, 7, 8, 9, 10, 11, 12}
    OBVIOUS
  <1> QED
    BY <1>2, <1>3 DEF ButtonOrder

\* The counters of the menu's check start within their bounds.
LEMMA Counters ==
  0 \in 0 .. OpenDelay /\ OpenDelay \in 0 .. OpenDelay /\ 0 \in 0 .. HiddenFrames - 1
  BY GamepadAssumption

\* A context is one of the three, whatever the flags.
LEMMA ContextTypes ==
  ASSUME NEW flag \in BOOLEAN, started \in BOOLEAN
  PROVE  ContextOf(flag) \in Contexts
  <1>1. CASE standalone # "none"
    BY <1>1 DEF ContextOf, Contexts
  <1>2. CASE standalone = "none" /\ flag
    BY <1>2 DEF ContextOf, Contexts
  <1>3. CASE standalone = "none" /\ ~flag
    BY <1>3 DEF ContextOf, Contexts
  <1> QED
    BY <1>1, <1>2, <1>3

\* The page's tap: the menu counts as open, and its check starts over.
LEMMA PageTap ==
  ASSUME MenuTypes, OpenSystemMenuPage
  PROVE  /\ systemMenu' \in BOOLEAN /\ (systemMenu => systemMenu')
         /\ delay' \in 0 .. OpenDelay /\ hidden' \in 0 .. HiddenFrames - 1
         /\ moving' = FALSE /\ sent' = "page"
  <1>1. PICK ok \in SendInputResults :
          IF ok THEN systemMenu' = TRUE /\ delay' = OpenDelay /\ hidden' = 0
          ELSE UNCHANGED menuVars
    BY DEF OpenSystemMenuPage
  <1>2. moving' = FALSE /\ sent' = "page"
    BY DEF OpenSystemMenuPage
  <1>3. CASE ok
    BY <1>1, <1>2, <1>3, Counters DEF MenuTypes
  <1>4. CASE ~ok
    BY <1>1, <1>2, <1>4 DEF MenuTypes, menuVars
  <1> QED
    BY <1>3, <1>4

\* What becomes of the Win32 key, whether SendInput refuses or not: it is as asked
\* for, or the refusal is known.
LEMMA HoldTypes ==
  ASSUME holdSpace \in BOOLEAN, NEW pressed \in BOOLEAN, HoldSpace(pressed)
  PROVE  /\ holdSpace' \in BOOLEAN /\ refused' \in BOOLEAN
         /\ ~refused' => (holdSpace' <=> pressed)
  <1>1. PICK ok \in SendInputResults :
          /\ holdSpace' = IF ok THEN pressed ELSE holdSpace
          /\ refused' = (holdSpace # pressed /\ ~ok)
    BY DEF HoldSpace
  <1>2. CASE ok
    BY <1>1, <1>2, Zenon
  <1>3. CASE ~ok
    BY <1>1, <1>3
  <1> QED
    BY <1>2, <1>3

\* What the query of the sticks leaves known of a combat.
LEMMA CombatFlags ==
  ASSUME MenuTypes
  PROVE  CombatNow \in BOOLEAN /\ WheelNow \in BOOLEAN /\ SectorNow \in BOOLEAN
  <1>1. CASE Queried
    <2>1. CombatNow = (ui \in Combat) /\ WheelNow = (ui = "wheel")
      BY <1>1 DEF CombatNow, WheelNow, CombatNavigationVisible, ActionWheelVisible
    <2> QED
      BY <2>1 DEF SectorNow
  <1>2. CASE ~Queried
    BY <1>2 DEF MenuTypes, CombatNow, WheelNow, SectorNow
  <1> QED
    BY <1>1, <1>2

-----------------------------------------------------------------------------
(* The parts of the invariant.                                             *)

\* The game's part stays well typed.
LEMMA GameTypesStep == IInv /\ [Next]_vars => GameTypes'
  <1> SUFFICES ASSUME IInv, [Next]_vars PROVE GameTypes'
    OBVIOUS
  <1> USE GamepadAssumption, KeyStates DEF IInv, TypeOK, GameTypes, FrameTypes,
         gameVars, inVars, menuVars, combatVars, spaceVars
  <1>1. ASSUME ProcessInputs PROVE GameTypes'
    BY <1>1 DEF ProcessInputs
  <1>2. ASSUME Connected PROVE GameTypes'
    BY <1>2 DEF Connected
  <1>3. ASSUME Disconnected PROVE GameTypes'
    <2>1. UNCHANGED <<ui, started, mode>>
      BY <1>3 DEF Disconnected
    <2>2. CASE connected
      <3>1. /\ HoldSpace(FALSE) /\ rawHeld' = FALSE
            /\ raw' = KeyMirrorPlan(FALSE, rawHeld, raw)
        BY <1>3, <2>2 DEF Disconnected, ReleaseDirectKeyboardHolds
      <3>2. holdSpace' \in BOOLEAN /\ refused' \in BOOLEAN
        BY <3>1, HoldTypes
      <3>3. KeyMirrorPlan(FALSE, rawHeld, raw) \in 0 .. 3
        BY KeyStates
      <3> QED
        BY <2>1, <3>1, <3>2, <3>3
    <2>3. CASE ~connected
      BY <1>3, <2>1, <2>3 DEF Disconnected
    <2> QED
      BY <2>2, <2>3
  <1>4. ASSUME SynchronizeShell PROVE GameTypes'
    BY <1>4 DEF SynchronizeShell
  <1>5. ASSUME RefreshStandalone PROVE GameTypes'
    BY <1>5 DEF RefreshStandalone
  <1>6. ASSUME KeepStandalone PROVE GameTypes'
    BY <1>6 DEF KeepStandalone
  <1>7. ASSUME StartButtons PROVE GameTypes'
    BY <1>7 DEF StartButtons
  <1>8. ASSUME NEW b \in Buttons, NoAction(b) PROVE GameTypes'
    BY <1>8 DEF NoAction, At
  <1>9. ASSUME NEW b \in Buttons, PageButton(b) PROVE GameTypes'
    BY <1>9 DEF PageButton, At
  <1>10. ASSUME NEW b \in Buttons, Cancel(b) PROVE GameTypes'
    BY <1>10 DEF Cancel, At
  <1>11. ASSUME NEW b \in Buttons, StartButton(b) PROVE GameTypes'
    BY <1>11 DEF StartButton, At, OpenSystemMenuPage
  <1>12. ASSUME NEW b \in Buttons, Shortcut(b) PROVE GameTypes'
    BY <1>12 DEF Shortcut, At
  <1>13. ASSUME NEW b \in Buttons, CombatButton(b) PROVE GameTypes'
    BY <1>13 DEF CombatButton, At
  <1>14. ASSUME ButtonsDone PROVE GameTypes'
    BY <1>14 DEF ButtonsDone
  <1>15. ASSUME MirrorSpace PROVE GameTypes'
    <2>1. KeyMirrorPlan("a" \in current, rawHeld, raw) \in 0 .. 3
      BY KeyStates
    <2>2. raw' \in 0 .. 3 /\ UNCHANGED <<ui, started, mode>>
      BY <1>15, <2>1 DEF MirrorSpace
    <2>3. rawHeld' \in BOOLEAN
      BY <1>15 DEF MirrorSpace
    <2>4. holdSpace' \in BOOLEAN /\ refused' \in BOOLEAN
      <3>1. ("a" \in current) \in BOOLEAN
        OBVIOUS
      <3>2. HoldSpace("a" \in current)
        BY <1>15 DEF MirrorSpace
      <3> QED
        BY <3>1, <3>2, HoldTypes
    <2> QED
      BY <2>2, <2>3, <2>4
  <1>16. ASSUME DpadShortcuts PROVE GameTypes'
    BY <1>16 DEF DpadShortcuts, OpenSystemMenuPage
  <1>17. ASSUME DpadNavigates PROVE GameTypes'
    BY <1>17 DEF DpadNavigates
  <1>18. ASSUME SticksInMenu PROVE GameTypes'
    BY <1>18 DEF SticksInMenu, EndFrame
  <1>19. ASSUME SticksAtRest PROVE GameTypes'
    BY <1>19 DEF SticksAtRest, EndFrame
  <1>20. ASSUME SticksInCombat PROVE GameTypes'
    BY <1>20 DEF SticksInCombat, EndFrame
  <1>21. ASSUME SticksMove PROVE GameTypes'
    BY <1>21 DEF SticksMove, EndFrame
  <1>22. ASSUME GameChanges PROVE GameTypes'
    BY <1>22 DEF GameChanges
  <1>23. ASSUME TimePasses PROVE GameTypes'
    BY <1>23 DEF TimePasses
  <1>24. ASSUME NEW m \in {"replace", "observe"}, SetHookMode(m) PROVE GameTypes'
    BY <1>24 DEF SetHookMode
  <1>25. CASE UNCHANGED vars
    BY <1>25 DEF vars
  <1> QED
    BY <1>1, <1>2, <1>3, <1>4, <1>5, <1>6, <1>7, <1>8, <1>9, <1>10, <1>11, <1>12, <1>13,
       <1>14, <1>15, <1>16, <1>17, <1>18, <1>19, <1>20, <1>21, <1>22, <1>23, <1>24,
       <1>25
       DEF Next, Frame, Button, Surroundings

\* The frame's own part stays well typed.
LEMMA FrameTypesStep == IInv /\ [Next]_vars => FrameTypes'
  <1> SUFFICES ASSUME IInv, [Next]_vars PROVE FrameTypes'
    OBVIOUS
  <1> USE GamepadAssumption, ContextTypes DEF IInv, TypeOK, GameTypes, FrameTypes,
         MenuTypes, FramePCs, Contexts, gameVars, inVars, menuVars, combatVars, spaceVars
  <1>1. ASSUME ProcessInputs PROVE FrameTypes'
    BY <1>1 DEF ProcessInputs
  <1>2. ASSUME Connected PROVE FrameTypes'
    BY <1>2 DEF Connected
  <1>3. ASSUME Disconnected PROVE FrameTypes'
    BY <1>3 DEF Disconnected, ReleaseDirectKeyboardHolds
  <1>4. ASSUME SynchronizeShell PROVE FrameTypes'
    BY <1>4 DEF SynchronizeShell
  <1>5. ASSUME RefreshStandalone PROVE FrameTypes'
    BY <1>5 DEF RefreshStandalone
  <1>6. ASSUME KeepStandalone PROVE FrameTypes'
    BY <1>6 DEF KeepStandalone
  <1>7. ASSUME StartButtons PROVE FrameTypes'
    <2>1. inCtx' \in Contexts
      BY <1>7 DEF StartButtons, DetermineContext
    <2>2. inCombat' \in BOOLEAN /\ inWheel' \in BOOLEAN
      <3>1. CASE inCombat' = CombatNavigationVisible /\ inWheel' = ActionWheelVisible
        <4>1. inCombat' = (ui \in Combat) /\ inWheel' = (ui = "wheel")
          BY <3>1 DEF CombatNavigationVisible, ActionWheelVisible
        <4> QED
          BY <4>1
      <3>2. CASE inCombat' = FALSE /\ inWheel' = FALSE
        BY <3>2
      <3> QED
        BY <1>7, <3>1, <3>2 DEF StartButtons
    <2>3. /\ todo' \subseteq Buttons /\ pc' \in FramePCs
          /\ UNCHANGED <<current, prev, connected, sent>>
      BY <1>7 DEF StartButtons
    <2> QED
      BY <2>1, <2>2, <2>3
  <1>8. ASSUME NEW b \in Buttons, NoAction(b) PROVE FrameTypes'
    BY <1>8 DEF NoAction, At
  <1>9. ASSUME NEW b \in Buttons, PageButton(b) PROVE FrameTypes'
    BY <1>9 DEF PageButton, At
  <1>10. ASSUME NEW b \in Buttons, Cancel(b) PROVE FrameTypes'
    BY <1>10 DEF Cancel, At
  <1>11. ASSUME NEW b \in Buttons, StartButton(b) PROVE FrameTypes'
    BY <1>11 DEF StartButton, At, OpenSystemMenuPage
  <1>12. ASSUME NEW b \in Buttons, Shortcut(b) PROVE FrameTypes'
    BY <1>12 DEF Shortcut, At
  <1>13. ASSUME NEW b \in Buttons, CombatButton(b) PROVE FrameTypes'
    BY <1>13 DEF CombatButton, At
  <1>14. ASSUME ButtonsDone PROVE FrameTypes'
    BY <1>14 DEF ButtonsDone
  <1>15. ASSUME MirrorSpace PROVE FrameTypes'
    BY <1>15 DEF MirrorSpace
  <1>16. ASSUME DpadShortcuts PROVE FrameTypes'
    BY <1>16 DEF DpadShortcuts, OpenSystemMenuPage
  <1>17. ASSUME DpadNavigates PROVE FrameTypes'
    BY <1>17 DEF DpadNavigates
  <1>18. ASSUME SticksInMenu PROVE FrameTypes'
    BY <1>18 DEF SticksInMenu, EndFrame
  <1>19. ASSUME SticksAtRest PROVE FrameTypes'
    BY <1>19 DEF SticksAtRest, EndFrame
  <1>20. ASSUME SticksInCombat PROVE FrameTypes'
    BY <1>20 DEF SticksInCombat, EndFrame
  <1>21. ASSUME SticksMove PROVE FrameTypes'
    BY <1>21 DEF SticksMove, EndFrame
  <1>22. ASSUME GameChanges PROVE FrameTypes'
    BY <1>22 DEF GameChanges
  <1>23. ASSUME TimePasses PROVE FrameTypes'
    BY <1>23 DEF TimePasses
  <1>24. ASSUME NEW m \in {"replace", "observe"}, SetHookMode(m) PROVE FrameTypes'
    BY <1>24 DEF SetHookMode
  <1>25. CASE UNCHANGED vars
    BY <1>25 DEF vars
  <1> QED
    BY <1>1, <1>2, <1>3, <1>4, <1>5, <1>6, <1>7, <1>8, <1>9, <1>10, <1>11, <1>12, <1>13,
       <1>14, <1>15, <1>16, <1>17, <1>18, <1>19, <1>20, <1>21, <1>22, <1>23, <1>24,
       <1>25
       DEF Next, Frame, Button, Surroundings

\* What the runtime keeps of menus and combat stays well typed.
LEMMA MenuTypesStep == IInv /\ [Next]_vars => MenuTypes'
  <1> SUFFICES ASSUME IInv, [Next]_vars PROVE MenuTypes'
    OBVIOUS
  <1> USE GamepadAssumption, ContextTypes DEF IInv, TypeOK, GameTypes, FrameTypes,
         MenuTypes, Contexts, DpadModes, gameVars, inVars, menuVars, combatVars, spaceVars
  <1>1. ASSUME ProcessInputs PROVE MenuTypes'
    BY <1>1 DEF ProcessInputs
  <1>2. ASSUME Connected PROVE MenuTypes'
    BY <1>2 DEF Connected
  <1>3. ASSUME Disconnected PROVE MenuTypes'
    <2>1. CASE connected
      BY <1>3, <2>1, Counters DEF Disconnected
    <2>2. CASE ~connected
      BY <1>3, <2>2 DEF Disconnected
    <2> QED
      BY <2>1, <2>2
  <1>4. ASSUME SynchronizeShell PROVE MenuTypes'
    <2>1. UNCHANGED <<standalone, menuFresh, context, dpadMode, combatVars>>
      BY <1>4 DEF SynchronizeShell
    <2>2. CASE UNCHANGED <<menuVars, moving>>
      BY <2>1, <2>2
    <2>3. CASE delay > 0 /\ delay' = delay - 1 /\ UNCHANGED <<systemMenu, hidden, moving>>
      <3>1. delay - 1 \in 0 .. OpenDelay
        BY <2>3
      <3> QED
        BY <2>1, <2>3, <3>1
    <2>4. CASE hidden' = 0 /\ UNCHANGED <<systemMenu, delay, moving>>
      BY <2>1, <2>4, Counters
    <2>5. CASE systemMenu' = FALSE /\ delay' = 0 /\ hidden' = 0 /\ moving' = FALSE
      BY <2>1, <2>5, Counters
    <2>6. CASE ~HiddenConfirmed /\ hidden' = hidden + 1 /\ UNCHANGED <<systemMenu, delay, moving>>
      <3>1. hidden + 1 \in 0 .. HiddenFrames - 1
        BY <2>6 DEF HiddenConfirmed
      <3> QED
        BY <2>1, <2>6, <3>1
    <2> QED
      BY <1>4, <2>2, <2>3, <2>4, <2>5, <2>6 DEF SynchronizeShell
  <1>5. ASSUME RefreshStandalone PROVE MenuTypes'
    BY <1>5 DEF RefreshStandalone
  <1>6. ASSUME KeepStandalone PROVE MenuTypes'
    BY <1>6 DEF KeepStandalone
  <1>7. ASSUME StartButtons PROVE MenuTypes'
    BY ZenonT(60), <1>7 DEF StartButtons
  <1>8. ASSUME NEW b \in Buttons, NoAction(b) PROVE MenuTypes'
    BY <1>8 DEF NoAction, At
  <1>9. ASSUME NEW b \in Buttons, PageButton(b) PROVE MenuTypes'
    BY <1>9 DEF PageButton, At
  <1>10. ASSUME NEW b \in Buttons, Cancel(b) PROVE MenuTypes'
    BY <1>10 DEF Cancel, At, MenuVisible
  <1>11. ASSUME NEW b \in Buttons, StartButton(b) PROVE MenuTypes'
    <2>1. UNCHANGED <<standalone, menuFresh, context, dpadMode, combatVars>> /\ OpenSystemMenuPage
      BY <1>11 DEF StartButton
    <2> QED
      BY <2>1, PageTap
  <1>12. ASSUME NEW b \in Buttons, Shortcut(b) PROVE MenuTypes'
    BY <1>12 DEF Shortcut, At
  <1>13. ASSUME NEW b \in Buttons, CombatButton(b) PROVE MenuTypes'
    BY <1>13 DEF CombatButton, At
  <1>14. ASSUME ButtonsDone PROVE MenuTypes'
    BY <1>14 DEF ButtonsDone
  <1>15. ASSUME MirrorSpace PROVE MenuTypes'
    BY <1>15 DEF MirrorSpace
  <1>16. ASSUME DpadShortcuts PROVE MenuTypes'
    <2>1. /\ dpadMode' = "gameplay_shortcuts"
          /\ UNCHANGED <<standalone, menuFresh, context, combatVars>>
          /\ OpenSystemMenuPage \/ UNCHANGED <<menuVars, moving>>
      BY <1>16 DEF DpadShortcuts
    <2> QED
      BY ZenonT(60), <2>1, PageTap
  <1>17. ASSUME DpadNavigates PROVE MenuTypes'
    BY <1>17 DEF DpadNavigates, DpadFindsMenu, MenuVisible, NextDpadMode, SelectDpadMode
  <1>18. ASSUME SticksInMenu PROVE MenuTypes'
    <2>1. DetermineContext \in Contexts
      BY ContextTypes DEF DetermineContext
    <2>2. /\ context' = DetermineContext
          /\ UNCHANGED <<menuVars, standalone, menuFresh, dpadMode>>
      BY <1>18 DEF SticksInMenu, EndFrame
    <2>3. moving' \in BOOLEAN /\ combatActive' \in BOOLEAN /\ wheel' \in BOOLEAN
      BY <1>18, CombatFlags DEF SticksInMenu
    <2>4. sector' \in BOOLEAN /\ combatFresh' \in BOOLEAN
      BY <1>18, CombatFlags DEF SticksInMenu
    <2> QED
      BY <2>1, <2>2, <2>3, <2>4
  <1>19. ASSUME SticksAtRest PROVE MenuTypes'
    <2>1. DetermineContext \in Contexts
      BY ContextTypes DEF DetermineContext
    <2>2. /\ context' = DetermineContext
          /\ UNCHANGED <<menuVars, standalone, menuFresh, dpadMode>>
      BY <1>19 DEF SticksAtRest, EndFrame
    <2>3. moving' \in BOOLEAN /\ combatActive' \in BOOLEAN /\ wheel' \in BOOLEAN
      BY <1>19, CombatFlags DEF SticksAtRest
    <2>4. sector' \in BOOLEAN /\ combatFresh' \in BOOLEAN
      BY <1>19, CombatFlags DEF SticksAtRest
    <2> QED
      BY <2>1, <2>2, <2>3, <2>4
  <1>20. ASSUME SticksInCombat PROVE MenuTypes'
    <2>1. DetermineContext \in Contexts
      BY ContextTypes DEF DetermineContext
    <2>2. /\ context' = DetermineContext
          /\ UNCHANGED <<menuVars, standalone, menuFresh, dpadMode>>
      BY <1>20 DEF SticksInCombat, EndFrame
    <2>3. moving' \in BOOLEAN /\ combatActive' \in BOOLEAN /\ wheel' \in BOOLEAN
      BY <1>20, CombatFlags DEF SticksInCombat
    <2>4. sector' \in BOOLEAN /\ combatFresh' \in BOOLEAN
      BY <1>20, CombatFlags DEF SticksInCombat
    <2> QED
      BY <2>1, <2>2, <2>3, <2>4
  <1>21. ASSUME SticksMove PROVE MenuTypes'
    <2>1. DetermineContext \in Contexts
      BY ContextTypes DEF DetermineContext
    <2>2. /\ context' = DetermineContext
          /\ UNCHANGED <<menuVars, standalone, menuFresh, dpadMode>>
      BY <1>21 DEF SticksMove, EndFrame
    <2>3. moving' \in BOOLEAN /\ combatActive' \in BOOLEAN /\ wheel' \in BOOLEAN
      BY <1>21, CombatFlags DEF SticksMove
    <2>4. sector' \in BOOLEAN /\ combatFresh' \in BOOLEAN
      BY <1>21, CombatFlags DEF SticksMove
    <2> QED
      BY <2>1, <2>2, <2>3, <2>4
  <1>22. ASSUME GameChanges PROVE MenuTypes'
    BY <1>22 DEF GameChanges
  <1>23. ASSUME TimePasses PROVE MenuTypes'
    BY <1>23 DEF TimePasses
  <1>24. ASSUME NEW m \in {"replace", "observe"}, SetHookMode(m) PROVE MenuTypes'
    BY <1>24 DEF SetHookMode
  <1>25. CASE UNCHANGED vars
    BY <1>25 DEF vars
  <1> QED
    BY <1>1, <1>2, <1>3, <1>4, <1>5, <1>6, <1>7, <1>8, <1>9, <1>10, <1>11, <1>12, <1>13,
       <1>14, <1>15, <1>16, <1>17, <1>18, <1>19, <1>20, <1>21, <1>22, <1>23, <1>24,
       <1>25
       DEF Next, Frame, Button, Surroundings

\* A pad comes and goes between the frames.
LEMMA PadStep == IInv /\ [Next]_vars => PadInv'
  <1> SUFFICES ASSUME IInv, [Next]_vars PROVE PadInv'
    OBVIOUS
  <1> USE DEF IInv, TypeOK, FrameTypes, FramePCs, PadInv, gameVars, inVars, menuVars,
         combatVars, spaceVars
  <1>1. ASSUME ProcessInputs PROVE PadInv'
    BY <1>1 DEF ProcessInputs
  <1>2. ASSUME Connected PROVE PadInv'
    BY <1>2 DEF Connected
  <1>3. ASSUME Disconnected PROVE PadInv'
    BY <1>3 DEF Disconnected, ReleaseDirectKeyboardHolds
  <1>4. ASSUME SynchronizeShell PROVE PadInv'
    BY <1>4 DEF SynchronizeShell
  <1>5. ASSUME RefreshStandalone PROVE PadInv'
    BY <1>5 DEF RefreshStandalone
  <1>6. ASSUME KeepStandalone PROVE PadInv'
    BY <1>6 DEF KeepStandalone
  <1>7. ASSUME StartButtons PROVE PadInv'
    BY <1>7 DEF StartButtons
  <1>8. ASSUME NEW b \in Buttons, NoAction(b) PROVE PadInv'
    BY <1>8 DEF NoAction, At
  <1>9. ASSUME NEW b \in Buttons, PageButton(b) PROVE PadInv'
    BY <1>9 DEF PageButton, At
  <1>10. ASSUME NEW b \in Buttons, Cancel(b) PROVE PadInv'
    BY <1>10 DEF Cancel, At
  <1>11. ASSUME NEW b \in Buttons, StartButton(b) PROVE PadInv'
    BY <1>11 DEF StartButton, At, OpenSystemMenuPage
  <1>12. ASSUME NEW b \in Buttons, Shortcut(b) PROVE PadInv'
    BY <1>12 DEF Shortcut, At
  <1>13. ASSUME NEW b \in Buttons, CombatButton(b) PROVE PadInv'
    BY <1>13 DEF CombatButton, At
  <1>14. ASSUME ButtonsDone PROVE PadInv'
    BY <1>14 DEF ButtonsDone
  <1>15. ASSUME MirrorSpace PROVE PadInv'
    BY <1>15 DEF MirrorSpace
  <1>16. ASSUME DpadShortcuts PROVE PadInv'
    BY <1>16 DEF DpadShortcuts, OpenSystemMenuPage
  <1>17. ASSUME DpadNavigates PROVE PadInv'
    BY <1>17 DEF DpadNavigates
  <1>18. ASSUME SticksInMenu PROVE PadInv'
    BY <1>18 DEF SticksInMenu, EndFrame
  <1>19. ASSUME SticksAtRest PROVE PadInv'
    BY <1>19 DEF SticksAtRest, EndFrame
  <1>20. ASSUME SticksInCombat PROVE PadInv'
    BY <1>20 DEF SticksInCombat, EndFrame
  <1>21. ASSUME SticksMove PROVE PadInv'
    BY <1>21 DEF SticksMove, EndFrame
  <1>22. ASSUME GameChanges PROVE PadInv'
    BY <1>22 DEF GameChanges
  <1>23. ASSUME TimePasses PROVE PadInv'
    BY <1>23 DEF TimePasses
  <1>24. ASSUME NEW m \in {"replace", "observe"}, SetHookMode(m) PROVE PadInv'
    BY <1>24 DEF SetHookMode
  <1>25. CASE UNCHANGED vars
    BY <1>25 DEF vars
  <1> QED
    BY <1>1, <1>2, <1>3, <1>4, <1>5, <1>6, <1>7, <1>8, <1>9, <1>10, <1>11, <1>12, <1>13,
       <1>14, <1>15, <1>16, <1>17, <1>18, <1>19, <1>20, <1>21, <1>22, <1>23, <1>24,
       <1>25
       DEF Next, Frame, Button, Surroundings

\* The native poll comes before the mirror.
LEMMA RawStep == IInv /\ [Next]_vars => RawInv'
  <1> SUFFICES ASSUME IInv, [Next]_vars PROVE RawInv'
    OBVIOUS
  <1> USE KeyStates DEF IInv, TypeOK, GameTypes, FrameTypes, FramePCs, PadInv, RawInv,
         gameVars, inVars, menuVars, combatVars, spaceVars
  <1>1. ASSUME ProcessInputs PROVE RawInv'
    BY <1>1 DEF ProcessInputs
  <1>2. ASSUME Connected PROVE RawInv'
    BY <1>2 DEF Connected
  <1>3. ASSUME Disconnected PROVE RawInv'
    <2>1. CASE connected
      <3>1. pc' = "game" /\ ~rawHeld' /\ prev' = {}
        BY <1>3, <2>1 DEF Disconnected, ReleaseDirectKeyboardHolds
      <3> QED
        BY ONLY <3>1 DEF RawInv, FramePCs
    <2>2. CASE ~connected
      BY <1>3, <2>2 DEF Disconnected
    <2> QED
      BY <2>1, <2>2
  <1>4. ASSUME SynchronizeShell PROVE RawInv'
    BY <1>4 DEF SynchronizeShell
  <1>5. ASSUME RefreshStandalone PROVE RawInv'
    BY <1>5 DEF RefreshStandalone
  <1>6. ASSUME KeepStandalone PROVE RawInv'
    BY <1>6 DEF KeepStandalone
  <1>7. ASSUME StartButtons PROVE RawInv'
    BY <1>7 DEF StartButtons
  <1>8. ASSUME NEW b \in Buttons, NoAction(b) PROVE RawInv'
    BY <1>8 DEF NoAction, At
  <1>9. ASSUME NEW b \in Buttons, PageButton(b) PROVE RawInv'
    BY <1>9 DEF PageButton, At
  <1>10. ASSUME NEW b \in Buttons, Cancel(b) PROVE RawInv'
    BY <1>10 DEF Cancel, At
  <1>11. ASSUME NEW b \in Buttons, StartButton(b) PROVE RawInv'
    BY <1>11 DEF StartButton, At, OpenSystemMenuPage
  <1>12. ASSUME NEW b \in Buttons, Shortcut(b) PROVE RawInv'
    BY <1>12 DEF Shortcut, At
  <1>13. ASSUME NEW b \in Buttons, CombatButton(b) PROVE RawInv'
    BY <1>13 DEF CombatButton, At
  <1>14. ASSUME ButtonsDone PROVE RawInv'
    BY <1>14 DEF ButtonsDone
  <1>15. ASSUME MirrorSpace PROVE RawInv'
    BY <1>15 DEF MirrorSpace
  <1>16. ASSUME DpadShortcuts PROVE RawInv'
    BY <1>16 DEF DpadShortcuts, OpenSystemMenuPage
  <1>17. ASSUME DpadNavigates PROVE RawInv'
    BY <1>17 DEF DpadNavigates
  <1>18. ASSUME SticksInMenu PROVE RawInv'
    BY <1>18 DEF SticksInMenu, EndFrame
  <1>19. ASSUME SticksAtRest PROVE RawInv'
    BY <1>19 DEF SticksAtRest, EndFrame
  <1>20. ASSUME SticksInCombat PROVE RawInv'
    BY <1>20 DEF SticksInCombat, EndFrame
  <1>21. ASSUME SticksMove PROVE RawInv'
    BY <1>21 DEF SticksMove, EndFrame
  <1>22. ASSUME GameChanges PROVE RawInv'
    BY <1>22 DEF GameChanges
  <1>23. ASSUME TimePasses PROVE RawInv'
    BY <1>23 DEF TimePasses
  <1>24. ASSUME NEW m \in {"replace", "observe"}, SetHookMode(m) PROVE RawInv'
    BY <1>24 DEF SetHookMode
  <1>25. CASE UNCHANGED vars
    BY <1>25 DEF vars
  <1> QED
    BY <1>1, <1>2, <1>3, <1>4, <1>5, <1>6, <1>7, <1>8, <1>9, <1>10, <1>11, <1>12, <1>13,
       <1>14, <1>15, <1>16, <1>17, <1>18, <1>19, <1>20, <1>21, <1>22, <1>23, <1>24,
       <1>25
       DEF Next, Frame, Button, Surroundings

\* A shop window is found before its first press.
LEMMA ShopStep == IInv /\ [Next]_vars => ShopInv'
  <1> SUFFICES ASSUME IInv, [Next]_vars PROVE ShopInv'
    OBVIOUS
  <1> USE DEF IInv, TypeOK, GameTypes, FrameTypes, MenuTypes, FramePCs, ShopInv,
         Standalone, Combat, gameVars, inVars, menuVars, combatVars, spaceVars
  <1>1. ASSUME ProcessInputs PROVE ShopInv'
    BY <1>1 DEF ProcessInputs
  <1>2. ASSUME Connected PROVE ShopInv'
    BY <1>2 DEF Connected
  <1>3. ASSUME Disconnected PROVE ShopInv'
    BY <1>3 DEF Disconnected, ReleaseDirectKeyboardHolds
  <1>4. ASSUME SynchronizeShell PROVE ShopInv'
    BY <1>4 DEF SynchronizeShell
  <1>5. ASSUME RefreshStandalone PROVE ShopInv'
    BY <1>5 DEF RefreshStandalone, NamesOk
  <1>6. ASSUME KeepStandalone PROVE ShopInv'
    BY <1>6 DEF KeepStandalone, PollDue
  <1>7. ASSUME StartButtons PROVE ShopInv'
    BY <1>7 DEF StartButtons, DetermineContext, ContextOf
  <1>8. ASSUME NEW b \in Buttons, NoAction(b) PROVE ShopInv'
    BY <1>8 DEF NoAction, At
  <1>9. ASSUME NEW b \in Buttons, PageButton(b) PROVE ShopInv'
    BY <1>9 DEF PageButton, At
  <1>10. ASSUME NEW b \in Buttons, Cancel(b) PROVE ShopInv'
    BY <1>10 DEF Cancel, At, Closes
  <1>11. ASSUME NEW b \in Buttons, StartButton(b) PROVE ShopInv'
    BY <1>11 DEF StartButton, At, OpenSystemMenuPage
  <1>12. ASSUME NEW b \in Buttons, Shortcut(b) PROVE ShopInv'
    BY <1>12 DEF Shortcut, At
  <1>13. ASSUME NEW b \in Buttons, CombatButton(b) PROVE ShopInv'
    BY <1>13 DEF CombatButton, At
  <1>14. ASSUME ButtonsDone PROVE ShopInv'
    BY <1>14 DEF ButtonsDone
  <1>15. ASSUME MirrorSpace PROVE ShopInv'
    BY <1>15 DEF MirrorSpace
  <1>16. ASSUME DpadShortcuts PROVE ShopInv'
    BY <1>16 DEF DpadShortcuts, OpenSystemMenuPage
  <1>17. ASSUME DpadNavigates PROVE ShopInv'
    BY <1>17 DEF DpadNavigates
  <1>18. ASSUME SticksInMenu PROVE ShopInv'
    BY <1>18 DEF SticksInMenu, EndFrame
  <1>19. ASSUME SticksAtRest PROVE ShopInv'
    BY <1>19 DEF SticksAtRest, EndFrame
  <1>20. ASSUME SticksInCombat PROVE ShopInv'
    BY <1>20 DEF SticksInCombat, EndFrame
  <1>21. ASSUME SticksMove PROVE ShopInv'
    BY <1>21 DEF SticksMove, EndFrame
  <1>22. ASSUME GameChanges PROVE ShopInv'
    BY <1>22 DEF GameChanges
  <1>23. ASSUME TimePasses PROVE ShopInv'
    BY <1>23 DEF TimePasses
  <1>24. ASSUME NEW m \in {"replace", "observe"}, SetHookMode(m) PROVE ShopInv'
    BY <1>24 DEF SetHookMode
  <1>25. CASE UNCHANGED vars
    BY <1>25 DEF vars
  <1> QED
    BY <1>1, <1>2, <1>3, <1>4, <1>5, <1>6, <1>7, <1>8, <1>9, <1>10, <1>11, <1>12, <1>13,
       <1>14, <1>15, <1>16, <1>17, <1>18, <1>19, <1>20, <1>21, <1>22, <1>23, <1>24,
       <1>25
       DEF Next, Frame, Button, Surroundings

\* The D-pad's mode is chosen with the context.
LEMMA DpadStep == IInv /\ [Next]_vars => DpadInv'
  <1> SUFFICES ASSUME IInv, [Next]_vars PROVE DpadInv'
    OBVIOUS
  <1> USE DEF IInv, TypeOK, GameTypes, FrameTypes, MenuTypes, FramePCs, DpadInv,
         HoldsInMenu, gameVars, inVars, menuVars, combatVars, spaceVars
  <1>1. ASSUME ProcessInputs PROVE DpadInv'
    BY <1>1 DEF ProcessInputs
  <1>2. ASSUME Connected PROVE DpadInv'
    BY <1>2 DEF Connected
  <1>3. ASSUME Disconnected PROVE DpadInv'
    BY <1>3 DEF Disconnected, ReleaseDirectKeyboardHolds
  <1>4. ASSUME SynchronizeShell PROVE DpadInv'
    BY <1>4 DEF SynchronizeShell
  <1>5. ASSUME RefreshStandalone PROVE DpadInv'
    BY <1>5 DEF RefreshStandalone
  <1>6. ASSUME KeepStandalone PROVE DpadInv'
    BY <1>6 DEF KeepStandalone
  <1>7. ASSUME StartButtons PROVE DpadInv'
    BY <1>7 DEF StartButtons
  <1>8. ASSUME NEW b \in Buttons, NoAction(b) PROVE DpadInv'
    BY <1>8 DEF NoAction, At
  <1>9. ASSUME NEW b \in Buttons, PageButton(b) PROVE DpadInv'
    BY <1>9 DEF PageButton, At
  <1>10. ASSUME NEW b \in Buttons, Cancel(b) PROVE DpadInv'
    BY <1>10 DEF Cancel, At
  <1>11. ASSUME NEW b \in Buttons, StartButton(b) PROVE DpadInv'
    BY <1>11 DEF StartButton, At, OpenSystemMenuPage
  <1>12. ASSUME NEW b \in Buttons, Shortcut(b) PROVE DpadInv'
    BY <1>12 DEF Shortcut, At
  <1>13. ASSUME NEW b \in Buttons, CombatButton(b) PROVE DpadInv'
    BY <1>13 DEF CombatButton, At
  <1>14. ASSUME ButtonsDone PROVE DpadInv'
    BY <1>14 DEF ButtonsDone
  <1>15. ASSUME MirrorSpace PROVE DpadInv'
    BY <1>15 DEF MirrorSpace
  <1>16. ASSUME DpadShortcuts PROVE DpadInv'
    <2>1. pc' = "sticks" /\ UNCHANGED <<current, started, standalone>>
      BY <1>16 DEF DpadShortcuts
    <2>2. SUFFICES ASSUME DetermineContext' = "menu", Held # {} PROVE FALSE
      BY <2>1 DEF Held
    <2>3. systemMenu => systemMenu'
      BY <1>16, PageTap DEF DpadShortcuts
    <2>4. DetermineContext = "menu"
      BY <2>1, <2>2, <2>3 DEF DetermineContext, ContextOf
    <2>5. NextDpadMode = "gameplay_shortcuts" /\ pc = "dpad"
      BY <1>16 DEF DpadShortcuts
    <2>6. CASE WasHeld = {} \/ context # "menu"
      <3>1. NextDpadMode = SelectDpadMode("menu")
        BY <2>2, <2>4, <2>6 DEF NextDpadMode
      <3> QED
        BY <2>5, <3>1 DEF SelectDpadMode
    <2>7. CASE WasHeld # {} /\ context = "menu"
      <3>1. NextDpadMode = dpadMode
        BY <2>2, <2>4, <2>7 DEF NextDpadMode
      <3> QED
        BY <2>5, <2>7, <3>1 DEF WasHeld
    <2> QED
      BY <2>6, <2>7
  <1>17. ASSUME DpadNavigates PROVE DpadInv'
    BY <1>17 DEF DpadNavigates
  <1>18. ASSUME SticksInMenu PROVE DpadInv'
    BY <1>18 DEF SticksInMenu, EndFrame
  <1>19. ASSUME SticksAtRest PROVE DpadInv'
    BY <1>19 DEF SticksAtRest, EndFrame
  <1>20. ASSUME SticksInCombat PROVE DpadInv'
    BY <1>20 DEF SticksInCombat, EndFrame
  <1>21. ASSUME SticksMove PROVE DpadInv'
    BY <1>21 DEF SticksMove, EndFrame
  <1>22. ASSUME GameChanges PROVE DpadInv'
    BY <1>22 DEF GameChanges
  <1>23. ASSUME TimePasses PROVE DpadInv'
    BY <1>23 DEF TimePasses
  <1>24. ASSUME NEW m \in {"replace", "observe"}, SetHookMode(m) PROVE DpadInv'
    BY <1>24 DEF SetHookMode
  <1>25. CASE UNCHANGED vars
    BY <1>25 DEF vars, DetermineContext, ContextOf
  <1> QED
    BY <1>1, <1>2, <1>3, <1>4, <1>5, <1>6, <1>7, <1>8, <1>9, <1>10, <1>11, <1>12, <1>13,
       <1>14, <1>15, <1>16, <1>17, <1>18, <1>19, <1>20, <1>21, <1>22, <1>23, <1>24,
       <1>25
       DEF Next, Frame, Button, Surroundings

\* The Win32 key follows the button, unless SendInput refused it.
LEMMA HoldStep == IInv /\ HoldInv /\ [Next]_vars => HoldInv'
  <1> SUFFICES ASSUME IInv /\ HoldInv, [Next]_vars PROVE HoldInv'
    OBVIOUS
  <1> USE DEF IInv, TypeOK, GameTypes, FrameTypes, FramePCs, PadInv, HoldInv, gameVars,
         inVars, menuVars, combatVars, spaceVars
  <1>1. ASSUME ProcessInputs PROVE HoldInv'
    BY <1>1 DEF ProcessInputs
  <1>2. ASSUME Connected PROVE HoldInv'
    BY <1>2 DEF Connected
  <1>3. ASSUME Disconnected PROVE HoldInv'
    <2>1. pc' = "game" /\ ~connected'
      BY <1>3 DEF Disconnected
    <2>2. CASE connected
      <3>1. HoldSpace(FALSE)
        BY <1>3, <2>2 DEF Disconnected, ReleaseDirectKeyboardHolds
      <3> QED
        BY <2>1, <3>1, HoldTypes
    <2>3. CASE ~connected
      BY <1>3, <2>1, <2>3 DEF Disconnected
    <2> QED
      BY <2>2, <2>3
  <1>4. ASSUME SynchronizeShell PROVE HoldInv'
    BY <1>4 DEF SynchronizeShell
  <1>5. ASSUME RefreshStandalone PROVE HoldInv'
    BY <1>5 DEF RefreshStandalone
  <1>6. ASSUME KeepStandalone PROVE HoldInv'
    BY <1>6 DEF KeepStandalone
  <1>7. ASSUME StartButtons PROVE HoldInv'
    BY <1>7 DEF StartButtons
  <1>8. ASSUME NEW b \in Buttons, NoAction(b) PROVE HoldInv'
    BY <1>8 DEF NoAction, At
  <1>9. ASSUME NEW b \in Buttons, PageButton(b) PROVE HoldInv'
    BY <1>9 DEF PageButton, At
  <1>10. ASSUME NEW b \in Buttons, Cancel(b) PROVE HoldInv'
    BY <1>10 DEF Cancel, At
  <1>11. ASSUME NEW b \in Buttons, StartButton(b) PROVE HoldInv'
    BY <1>11 DEF StartButton, At, OpenSystemMenuPage
  <1>12. ASSUME NEW b \in Buttons, Shortcut(b) PROVE HoldInv'
    BY <1>12 DEF Shortcut, At
  <1>13. ASSUME NEW b \in Buttons, CombatButton(b) PROVE HoldInv'
    BY <1>13 DEF CombatButton, At
  <1>14. ASSUME ButtonsDone PROVE HoldInv'
    BY <1>14 DEF ButtonsDone
  <1>15. ASSUME MirrorSpace PROVE HoldInv'
    <2>1. pc' = "dpad" /\ UNCHANGED current /\ HoldSpace("a" \in current)
      BY <1>15 DEF MirrorSpace
    <2>2. ~refused' => (holdSpace' <=> "a" \in current)
      <3>1. ("a" \in current) \in BOOLEAN
        OBVIOUS
      <3> QED
        BY <2>1, <3>1, HoldTypes
    <2> QED
      BY <2>1, <2>2
  <1>16. ASSUME DpadShortcuts PROVE HoldInv'
    BY <1>16 DEF DpadShortcuts, OpenSystemMenuPage
  <1>17. ASSUME DpadNavigates PROVE HoldInv'
    BY <1>17 DEF DpadNavigates
  <1>18. ASSUME SticksInMenu PROVE HoldInv'
    BY <1>18 DEF SticksInMenu, EndFrame
  <1>19. ASSUME SticksAtRest PROVE HoldInv'
    BY <1>19 DEF SticksAtRest, EndFrame
  <1>20. ASSUME SticksInCombat PROVE HoldInv'
    BY <1>20 DEF SticksInCombat, EndFrame
  <1>21. ASSUME SticksMove PROVE HoldInv'
    BY <1>21 DEF SticksMove, EndFrame
  <1>22. ASSUME GameChanges PROVE HoldInv'
    BY <1>22 DEF GameChanges
  <1>23. ASSUME TimePasses PROVE HoldInv'
    BY <1>23 DEF TimePasses
  <1>24. ASSUME NEW m \in {"replace", "observe"}, SetHookMode(m) PROVE HoldInv'
    BY <1>24 DEF SetHookMode
  <1>25. CASE UNCHANGED vars
    BY <1>25 DEF vars
  <1> QED
    BY <1>1, <1>2, <1>3, <1>4, <1>5, <1>6, <1>7, <1>8, <1>9, <1>10, <1>11, <1>12, <1>13,
       <1>14, <1>15, <1>16, <1>17, <1>18, <1>19, <1>20, <1>21, <1>22, <1>23, <1>24,
       <1>25
       DEF Next, Frame, Button, Surroundings

-----------------------------------------------------------------------------
(* The theorems.                                                           *)

LEMMA Initially == Init => IInv /\ HoldInv
  <1> SUFFICES ASSUME Init PROVE IInv /\ HoldInv
    OBVIOUS
  <1> USE DEF Init
  <1>1. GameTypes
    <2>1. ui \in UiStates /\ started \in BOOLEAN /\ mode \in {"replace", "observe"}
      BY DEF UiStates
    <2>2. raw \in 0 .. 3
      OBVIOUS
    <2>3. holdSpace \in BOOLEAN /\ rawHeld \in BOOLEAN /\ refused \in BOOLEAN
      OBVIOUS
    <2> QED
      BY <2>1, <2>2, <2>3 DEF GameTypes
  <1>2. FrameTypes
    BY DEF FrameTypes, FramePCs, Contexts
  <1>3. MenuTypes
    BY Counters DEF MenuTypes, Contexts, DpadModes
  <1>4. PadInv /\ RawInv /\ HoldInv
    BY DEF PadInv, RawInv, HoldInv
  <1>5. ShopInv /\ DpadInv
    BY DEF ShopInv, DpadInv, HoldsInMenu, UiStates
  <1> QED
    BY <1>1, <1>2, <1>3, <1>4, <1>5 DEF IInv, TypeOK

\* The strengthened invariant holds whatever SendInput returns.
THEOREM Invariant == Spec => []IInv
  <1>1. IInv /\ [Next]_vars => IInv'
    BY GameTypesStep, FrameTypesStep, MenuTypesStep, PadStep, RawStep, ShopStep, DpadStep
       DEF IInv, TypeOK
  <1> QED
    BY Initially, <1>1, PTL DEF Spec

\* Between two frames the Win32 space key is down exactly if the A button was
\* down in the last one, unless SendInput refused the last change it was asked for.
THEOREM SpaceFollowsButton == Spec => []SpaceMirrors
  <1>1. IInv /\ HoldInv /\ [Next]_vars => HoldInv'
    BY HoldStep
  <1>2. IInv /\ HoldInv => SpaceMirrors
    BY DEF IInv, TypeOK, GameTypes, FrameTypes, HoldInv, SpaceMirrors
  <1> QED
    BY Initially, Invariant, <1>1, <1>2, PTL DEF Spec

\* Each press is shown to the game's input manager as just pressed once, and
\* as held from its second frame on, also behind frames the hook mode skipped.
THEOREM PressSeenOnce == Spec => JustPressedOnce
  <1> DEFINE Once == pc = "space" /\ pc' = "dpad" /\ "a" \in current
                       => raw' = IF "a" \in prev THEN 3 ELSE 2
  <1>1. ASSUME IInv, Next, pc = "space", pc' = "dpad", "a" \in current
        PROVE  raw' = IF "a" \in prev THEN 3 ELSE 2
    <2>1. MirrorSpace
      BY <1>1 DEF Next, Frame, Surroundings, Button, ProcessInputs, Connected, Disconnected,
                  SynchronizeShell, RefreshStandalone, KeepStandalone, StartButtons, NoAction,
                  PageButton, Cancel, StartButton, Shortcut, CombatButton, At, ButtonsDone,
                  DpadShortcuts, DpadNavigates, SticksInMenu, SticksAtRest, SticksInCombat,
                  SticksMove, EndFrame, GameChanges, TimePasses, SetHookMode
    <2>2. raw' = KeyMirrorPlan("a" \in current, rawHeld, raw)
      BY <2>1 DEF MirrorSpace
    <2>3. raw \in 0 .. 3 /\ raw < 2 /\ (rawHeld <=> "a" \in prev)
      BY <1>1 DEF IInv, TypeOK, GameTypes, RawInv, FramePCs
    <2>4. raw' = IF rawHeld THEN 3 ELSE 2
      BY <1>1, <2>2, <2>3, KeyStates
    <2> QED
      BY <2>3, <2>4
  <1>2. IInv /\ [Next]_vars => [Once]_vars
    BY <1>1
  <1>3. Spec => [][Once]_vars
    BY Invariant, <1>2, PTL DEF Spec
  <1> QED
    BY <1>3 DEF JustPressedOnce

\* No press opens a page or sends a key of the scene while a shop or save
\* window is shown: the window is known by then, or there is no press.
LEMMA MenuKeepsKeys ==
  ASSUME IInv, Next, ui \in Standalone, pc \in {"press", "dpad"}
  PROVE  sent' \notin {"page", "shortcut"}
  <1>1. standalone # "none" \/ current = prev
    BY DEF IInv, ShopInv
  <1>2. standalone # "none" => DetermineContext = "menu"
    BY DEF DetermineContext, ContextOf
  <1>3. ASSUME NEW b \in Buttons, At(b), JustPressed(b) PROVE inCtx = "menu" /\ standalone # "none"
    BY <1>1, <1>3 DEF IInv, ShopInv, JustPressed, At
  <1>4. ASSUME NEW b \in Buttons, NoAction(b) \/ PageButton(b) \/ Cancel(b) \/ CombatButton(b)
        PROVE  sent' \notin {"page", "shortcut"}
    BY <1>4 DEF NoAction, PageButton, Cancel, CombatButton
  <1>5. ASSUME NEW b \in Buttons, StartButton(b) PROVE FALSE
    <2>1. At(b) /\ JustPressed(b) /\ ActionFor(b) = "system_page"
      BY <1>5 DEF StartButton
    <2>2. b \in {"a", "b", "x", "y", "lb", "rb", "lt", "rt", "back", "start", "l3", "r3"}
      BY ButtonNames
    <2> QED
      BY <1>3, <2>1, <2>2 DEF ActionFor, Binding
  <1>6. ASSUME NEW b \in Buttons, Shortcut(b) PROVE sent' \notin {"page", "shortcut"}
    <2>1. /\ At(b) /\ JustPressed(b)
          /\ sent' = IF ActionFor(b) = "map" \/ DetermineContext = "gameplay" THEN "shortcut" ELSE "none"
      BY <1>6 DEF Shortcut
    <2>2. b \in {"a", "b", "x", "y", "lb", "rb", "lt", "rt", "back", "start", "l3", "r3"}
      BY ButtonNames
    <2>3. ActionFor(b) # "map"
      BY <1>3, <2>1, <2>2 DEF ActionFor, Binding
    <2> QED
      BY <1>2, <1>3, <2>1, <2>3
  <1>7. ASSUME DpadShortcuts PROVE sent' = "none"
    <2>1. SUFFICES ASSUME Held \ WasHeld # {} PROVE FALSE
      BY <1>7 DEF DpadShortcuts
    <2>2. standalone # "none" /\ DetermineContext = "menu" /\ Held # {}
      BY <1>1, <1>2, <2>1 DEF Held, WasHeld
    <2>3. NextDpadMode = "gameplay_shortcuts" /\ pc = "dpad"
      BY <1>7 DEF DpadShortcuts
    <2>4. CASE WasHeld = {} \/ context # "menu"
      <3>1. NextDpadMode = SelectDpadMode("menu")
        BY <2>2, <2>4 DEF NextDpadMode
      <3> QED
        BY <2>3, <3>1 DEF SelectDpadMode
    <2>5. CASE WasHeld # {} /\ context = "menu"
      <3>1. NextDpadMode = dpadMode
        BY <2>2, <2>5 DEF NextDpadMode
      <3>2. dpadMode # "gameplay_shortcuts"
        BY <2>3, <2>5 DEF IInv, DpadInv, HoldsInMenu, WasHeld
      <3> QED
        BY <2>3, <3>1, <3>2
    <2> QED
      BY <2>4, <2>5
  <1>8. ASSUME ButtonsDone \/ DpadNavigates PROVE sent' \notin {"page", "shortcut"}
    BY <1>8 DEF ButtonsDone, DpadNavigates
  <1>9. \/ \E b \in Buttons : Button(b)
        \/ ButtonsDone \/ DpadShortcuts \/ DpadNavigates
    BY DEF Next, Frame, Surroundings, ProcessInputs, Connected, Disconnected, SynchronizeShell,
           RefreshStandalone, KeepStandalone, StartButtons, MirrorSpace, SticksInMenu,
           SticksAtRest, SticksInCombat, SticksMove, EndFrame, GameChanges, TimePasses, SetHookMode
  <1> QED
    BY <1>4, <1>5, <1>6, <1>7, <1>8, <1>9 DEF Button

\* While a shop or save window is shown no key of the scene is sent.
THEOREM ShopKeepsKeys == Spec => NoShortcutInMenu
  <1> DEFINE Kept == (ui \in Standalone) => ~(pc \in {"press", "dpad"} /\ sent' \in {"page", "shortcut"})
  <1>1. IInv /\ [Next]_vars => [Kept]_vars
    BY MenuKeepsKeys
  <1>2. Spec => [][Kept]_vars
    BY Invariant, <1>1, PTL DEF Spec
  <1> QED
    BY <1>2 DEF NoShortcutInMenu

=============================================================================
