---------------------------- MODULE RuntimeProofs ----------------------------
(***************************************************************************)
(* Theorems about the other parts of Runtime, for any windows, modules,    *)
(* threads, commands and bounds.                                           *)
(***************************************************************************)
EXTENDS Runtime, FiniteSetTheorems, WellFoundedInduction, TLAPS

-----------------------------------------------------------------------------
(* Background window.                                                      *)

\* What a window can be.
Sorts == [made : BOOLEAN, shown : BOOLEAN, off : BOOLEAN, plain : BOOLEAN]

\* A window that is shown is one.
LEMMA ShownType ==
  ASSUME Window!TypeOK, NEW w \in Window!Windows
  PROVE  Window!Shown(w) \in Sorts
  <1>1. win[w] \in Sorts
    BY DEF Window!TypeOK, Sorts
  <1>2. ASSUME NEW v \in Sorts
        PROVE  /\ [v EXCEPT !.shown = TRUE] \in Sorts
               /\ [v EXCEPT !.shown = TRUE, !.off = TRUE, !.plain = FALSE] \in Sorts
    BY <1>2 DEF Sorts
  <1> QED
    BY <1>1, <1>2 DEF Window!Shown

\* The windows and the hooks stay well typed.
LEMMA WindowTypesStep == Window!IInv /\ [Window!Next]_<<windowVars, shutdown>> => Window!TypeOK'
  <1> SUFFICES ASSUME Window!IInv, [Window!Next]_<<windowVars, shutdown>> PROVE Window!TypeOK'
    OBVIOUS
  <1> USE WindowAssumption DEF Window!IInv, Window!TypeOK, Window!hookVars, Window!controllerVars
  <1>1. ASSUME Window!InstallBackgroundWindowHooks PROVE Window!TypeOK'
    <2>1. \A n \in 0..7 : Window!ImportsUpTo(n) \subseteq {Window!Imports[i] : i \in DOMAIN Window!Imports}
      <3>1. DOMAIN Window!Imports = 1..7
        BY DEF Window!Imports
      <3> QED
        BY <3>1 DEF Window!ImportsUpTo
    <2>2. patched' \subseteq {Window!Imports[i] : i \in DOMAIN Window!Imports}
      <3>1. patched' = patched \/ \E n \in 0..7 : patched' = Window!ImportsUpTo(n)
        <4>1. 0..6 \subseteq 0..7 /\ 7 \in 0..7
          OBVIOUS
        <4> QED
          BY <1>1, <4>1 DEF Window!InstallBackgroundWindowHooks
      <3> QED
        BY <2>1, <3>1
    <2>3. install' \in {"none", "off", "failed", "ready"} /\ slots' \subseteq Modules
      BY <1>1 DEF Window!InstallBackgroundWindowHooks
    <2> QED
      BY <1>1, <2>2, <2>3 DEF Window!InstallBackgroundWindowHooks
  <1>2. ASSUME Window!LoadMssrsx PROVE Window!TypeOK'
    BY <1>2 DEF Window!LoadMssrsx
  <1>3. ASSUME Window!InstallMssrsxHook PROVE Window!TypeOK'
    BY <1>3 DEF Window!InstallMssrsxHook
  <1>4. ASSUME Window!RequestShutdown PROVE Window!TypeOK'
    BY <1>4 DEF Window!RequestShutdown
  <1>5. ASSUME NEW w \in Window!Windows, Window!CreateWindow(w) PROVE Window!TypeOK'
    BY <1>5 DEF Window!CreateWindow
  <1>6. ASSUME NEW w \in Window!Windows, Window!DestroyWindow(w) PROVE Window!TypeOK'
    BY <1>6 DEF Window!DestroyWindow, Window!NoWindow
  <1>7. ASSUME NEW w \in Window!Windows, Window!ApplyBorderlessWindow(w) PROVE Window!TypeOK'
    BY <1>7 DEF Window!ApplyBorderlessWindow
  <1>8. ASSUME Window!ControllerScans PROVE Window!TypeOK'
    BY <1>8 DEF Window!ControllerScans
  <1>9. ASSUME NEW w \in Window!Windows, Window!ControllerExamines(w) PROVE Window!TypeOK'
    BY <1>9 DEF Window!ControllerExamines, Window!Needed
  <1>10. ASSUME NEW w \in Window!Windows, NEW t \in BOOLEAN, Window!ShowWindow(w, t) PROVE Window!TypeOK'
    <2> DEFINE v == Window!Shown(w)
    <2>1. v \in Sorts
      BY ShownType DEF Sorts
    <2>2. [v EXCEPT !.off = @ \/ (t /\ Window!Hooked("ShowWindow"))] \in Sorts
      <3> HIDE DEF v
      <3> QED
        BY <2>1 DEF Sorts, Window!Hooked
    <2>3. [win[w] EXCEPT !.shown = FALSE] \in Sorts
      BY DEF Sorts
    <2>4. win' \in [Window!Windows -> Sorts]
      <3> HIDE DEF v
      <3>1. win \in [Window!Windows -> Sorts]
        BY DEF Sorts
      <3>2. \/ win' = [win EXCEPT ![w] = [win[w] EXCEPT !.shown = FALSE]]
            \/ win' = [win EXCEPT ![w] = [v EXCEPT !.off = @ \/ (t /\ Window!Hooked("ShowWindow"))]]
        BY <1>10 DEF Window!ShowWindow, v
      <3> QED
        BY <2>2, <2>3, <3>1, <3>2
    <2> QED
      BY <1>10, <2>4 DEF Window!ShowWindow, Sorts
  <1>11. ASSUME NEW w \in Window!Windows, NEW t \in BOOLEAN, NEW name \in {"SetWindowPos", "MoveWindow"}, Window!PlaceWindow(w, name, t) PROVE Window!TypeOK'
    BY <1>11 DEF Window!PlaceWindow
  <1>12. ASSUME NEW m \in Modules, Window!PatchDialogSlot(m) PROVE Window!TypeOK'
    BY <1>12 DEF Window!PatchDialogSlot
  <1>13. ASSUME NEW m \in Modules, Window!MessageBoxA(m) PROVE Window!TypeOK'
    BY <1>13 DEF Window!MessageBoxA
  <1>14. ASSUME NEW w \in Window!Windows, Window!Hangs(w) PROVE Window!TypeOK'
    BY <1>14 DEF Window!Hangs
  <1>15. ASSUME NEW w \in Window!Windows, Window!Responds(w) PROVE Window!TypeOK'
    BY <1>15 DEF Window!Responds
  <1>16. ASSUME NEW w \in Window!Windows, Window!ControllerCalls(w) PROVE Window!TypeOK'
    <2>1. win \in [Window!Windows -> Sorts]
      BY DEF Sorts
    <2>2. Window!Shown(w) \in Sorts
      BY ShownType
    <2>3. [win[w] EXCEPT !.plain = FALSE] \in Sorts /\ [win[w] EXCEPT !.off = TRUE] \in Sorts
      BY <2>1 DEF Sorts
    <2>4. win' \in [Window!Windows -> Sorts]
      <3>1. \/ win' = [win EXCEPT ![w] = [win[w] EXCEPT !.plain = FALSE]]
            \/ win' = [win EXCEPT ![w] = [win[w] EXCEPT !.off = TRUE]]
            \/ win' = [win EXCEPT ![w] = Window!Shown(w)]
        BY <1>16 DEF Window!ControllerCalls
      <3> QED
        BY <2>1, <2>2, <2>3, <3>1
    <2>5. pending' \in [Window!Windows -> SUBSET Window!Steps]
      <3>1. \E rest \in SUBSET pending[w] : pending' = [pending EXCEPT ![w] = rest]
        BY <1>16 DEF Window!ControllerCalls
      <3> QED
        BY <3>1
    <2> QED
      BY <1>16, <2>4, <2>5 DEF Window!ControllerCalls, Sorts
  <1>17. CASE UNCHANGED <<windowVars, shutdown>>
    BY <1>17 DEF windowVars
  <1> QED
    BY <1>1, <1>2, <1>3, <1>4, <1>5, <1>6, <1>7, <1>8, <1>9, <1>10, <1>11, <1>12, <1>13,
       <1>14, <1>15, <1>16, <1>17
       DEF Window!Next, Window!WindowsNext, Window!DialogsNext

\* A ready mode has diverted MessageBoxA itself.
LEMMA DialogStep == Window!IInv /\ [Window!Next]_<<windowVars, shutdown>> => Window!DialogInv'
  <1> SUFFICES ASSUME Window!IInv, [Window!Next]_<<windowVars, shutdown>> PROVE Window!DialogInv'
    OBVIOUS
  <1> USE DEF Window!IInv, Window!TypeOK, Window!hookVars, Window!controllerVars, Window!DialogInv,
         Window!NoModalWait, Window!Running
  <1>1. ASSUME Window!InstallBackgroundWindowHooks PROVE Window!DialogInv'
    BY <1>1 DEF Window!InstallBackgroundWindowHooks
  <1>2. ASSUME Window!LoadMssrsx PROVE Window!DialogInv'
    BY <1>2 DEF Window!LoadMssrsx
  <1>3. ASSUME Window!InstallMssrsxHook PROVE Window!DialogInv'
    BY <1>3 DEF Window!InstallMssrsxHook
  <1>4. ASSUME Window!RequestShutdown PROVE Window!DialogInv'
    BY <1>4 DEF Window!RequestShutdown
  <1>5. ASSUME NEW w \in Window!Windows, Window!CreateWindow(w) PROVE Window!DialogInv'
    BY <1>5 DEF Window!CreateWindow
  <1>6. ASSUME NEW w \in Window!Windows, Window!DestroyWindow(w) PROVE Window!DialogInv'
    BY <1>6 DEF Window!DestroyWindow
  <1>7. ASSUME NEW w \in Window!Windows, Window!ApplyBorderlessWindow(w) PROVE Window!DialogInv'
    BY <1>7 DEF Window!ApplyBorderlessWindow
  <1>8. ASSUME Window!ControllerScans PROVE Window!DialogInv'
    BY <1>8 DEF Window!ControllerScans
  <1>9. ASSUME NEW w \in Window!Windows, Window!ControllerExamines(w) PROVE Window!DialogInv'
    BY <1>9 DEF Window!ControllerExamines
  <1>10. ASSUME NEW w \in Window!Windows, NEW t \in BOOLEAN, Window!ShowWindow(w, t) PROVE Window!DialogInv'
    BY <1>10 DEF Window!ShowWindow
  <1>11. ASSUME NEW w \in Window!Windows, NEW t \in BOOLEAN, NEW name \in {"SetWindowPos", "MoveWindow"}, Window!PlaceWindow(w, name, t) PROVE Window!DialogInv'
    BY <1>11 DEF Window!PlaceWindow
  <1>12. ASSUME NEW m \in Modules, Window!PatchDialogSlot(m) PROVE Window!DialogInv'
    BY <1>12 DEF Window!PatchDialogSlot
  <1>13. ASSUME NEW m \in Modules, Window!MessageBoxA(m) PROVE Window!DialogInv'
    BY <1>13 DEF Window!MessageBoxA
  <1>14. ASSUME NEW w \in Window!Windows, Window!Hangs(w) PROVE Window!DialogInv'
    BY <1>14 DEF Window!Hangs
  <1>15. ASSUME NEW w \in Window!Windows, Window!Responds(w) PROVE Window!DialogInv'
    BY <1>15 DEF Window!Responds
  <1>16. ASSUME NEW w \in Window!Windows, Window!ControllerCalls(w) PROVE Window!DialogInv'
    BY <1>16 DEF Window!ControllerCalls
  <1>17. CASE UNCHANGED <<windowVars, shutdown>>
    BY <1>17 DEF windowVars
  <1> QED
    BY <1>1, <1>2, <1>3, <1>4, <1>5, <1>6, <1>7, <1>8, <1>9, <1>10, <1>11, <1>12, <1>13,
       <1>14, <1>15, <1>16, <1>17
       DEF Window!Next, Window!WindowsNext, Window!DialogsNext

\* So that no dialog opens.
LEMMA NoModalStep == Window!IInv /\ [Window!Next]_<<windowVars, shutdown>> => Window!NoModalWait'
  <1> SUFFICES ASSUME Window!IInv, [Window!Next]_<<windowVars, shutdown>> PROVE Window!NoModalWait'
    OBVIOUS
  <1> USE DEF Window!IInv, Window!TypeOK, Window!hookVars, Window!controllerVars, Window!DialogInv,
         Window!NoModalWait, Window!Running
  <1>1. ASSUME Window!InstallBackgroundWindowHooks PROVE Window!NoModalWait'
    BY <1>1 DEF Window!InstallBackgroundWindowHooks
  <1>2. ASSUME Window!LoadMssrsx PROVE Window!NoModalWait'
    BY <1>2 DEF Window!LoadMssrsx
  <1>3. ASSUME Window!InstallMssrsxHook PROVE Window!NoModalWait'
    BY <1>3 DEF Window!InstallMssrsxHook
  <1>4. ASSUME Window!RequestShutdown PROVE Window!NoModalWait'
    BY <1>4 DEF Window!RequestShutdown
  <1>5. ASSUME NEW w \in Window!Windows, Window!CreateWindow(w) PROVE Window!NoModalWait'
    BY <1>5 DEF Window!CreateWindow
  <1>6. ASSUME NEW w \in Window!Windows, Window!DestroyWindow(w) PROVE Window!NoModalWait'
    BY <1>6 DEF Window!DestroyWindow
  <1>7. ASSUME NEW w \in Window!Windows, Window!ApplyBorderlessWindow(w) PROVE Window!NoModalWait'
    BY <1>7 DEF Window!ApplyBorderlessWindow
  <1>8. ASSUME Window!ControllerScans PROVE Window!NoModalWait'
    BY <1>8 DEF Window!ControllerScans
  <1>9. ASSUME NEW w \in Window!Windows, Window!ControllerExamines(w) PROVE Window!NoModalWait'
    BY <1>9 DEF Window!ControllerExamines
  <1>10. ASSUME NEW w \in Window!Windows, NEW t \in BOOLEAN, Window!ShowWindow(w, t) PROVE Window!NoModalWait'
    BY <1>10 DEF Window!ShowWindow
  <1>11. ASSUME NEW w \in Window!Windows, NEW t \in BOOLEAN, NEW name \in {"SetWindowPos", "MoveWindow"}, Window!PlaceWindow(w, name, t) PROVE Window!NoModalWait'
    BY <1>11 DEF Window!PlaceWindow
  <1>12. ASSUME NEW m \in Modules, Window!PatchDialogSlot(m) PROVE Window!NoModalWait'
    BY <1>12 DEF Window!PatchDialogSlot
  <1>13. ASSUME NEW m \in Modules, Window!MessageBoxA(m) PROVE Window!NoModalWait'
    BY <1>13 DEF Window!MessageBoxA, Window!Answered
  <1>14. ASSUME NEW w \in Window!Windows, Window!Hangs(w) PROVE Window!NoModalWait'
    BY <1>14 DEF Window!Hangs
  <1>15. ASSUME NEW w \in Window!Windows, Window!Responds(w) PROVE Window!NoModalWait'
    BY <1>15 DEF Window!Responds
  <1>16. ASSUME NEW w \in Window!Windows, Window!ControllerCalls(w) PROVE Window!NoModalWait'
    BY <1>16 DEF Window!ControllerCalls
  <1>17. CASE UNCHANGED <<windowVars, shutdown>>
    BY <1>17 DEF windowVars
  <1> QED
    BY <1>1, <1>2, <1>3, <1>4, <1>5, <1>6, <1>7, <1>8, <1>9, <1>10, <1>11, <1>12, <1>13,
       <1>14, <1>15, <1>16, <1>17
       DEF Window!Next, Window!WindowsNext, Window!DialogsNext

\* Every step of the runtime is one of the windows' part, or leaves them alone.
LEMMA WindowFrame == [Next]_vars => [Window!Next]_<<windowVars, shutdown>> \/ UNCHANGED windowVars
  <1>1. Window!WindowsNext \/ Window!DialogsNext => Window!Next
    BY DEF Window!Next
  <1> QED
    BY <1>1
    DEF Next, vars, SettingsStep, WindowStep, RefsStep, PipeStep, MemoryStep, FilesStep, CrashStep

LEMMA WindowInvariant == Spec => []Window!IInv
  <1>1. Init => Window!IInv
    <2> SUFFICES ASSUME Window!Init PROVE Window!IInv
      BY DEF Init
    <2>1. Window!TypeOK
      BY WindowAssumption DEF Window!Init, Window!TypeOK, Window!NoWindow
    <2> QED
      BY <2>1 DEF Window!Init, Window!IInv, Window!DialogInv, Window!NoModalWait
  <1>2. Window!IInv /\ [Next]_vars => Window!IInv'
    <2> SUFFICES ASSUME Window!IInv, [Next]_vars PROVE Window!IInv'
      OBVIOUS
    <2>1. CASE [Window!Next]_<<windowVars, shutdown>>
      BY <2>1, WindowTypesStep, DialogStep, NoModalStep DEF Window!IInv
    <2>2. CASE UNCHANGED windowVars
      BY <2>2 DEF windowVars, Window!IInv, Window!TypeOK, Window!DialogInv, Window!NoModalWait
    <2> QED
      BY <2>1, <2>2, WindowFrame
  <1> QED
    BY <1>1, <1>2, PTL DEF Spec

\* Once the background mode is ready no dialog of any module keeps the game
\* waiting, whatever had been installed before a failure and whoever calls.
THEOREM NoDialogBlocks == Spec => []WindowHolds
  <1>1. Window!IInv => WindowHolds
    BY DEF Window!IInv, WindowHolds
  <1> QED
    BY WindowInvariant, <1>1, PTL
-----------------------------------------------------------------------------
(* Recursion on numbers.                                                   *)

\* Every set of natural numbers that is not empty has a smallest element.
LEMMA SmallestElement ==
  ASSUME NEW T \in SUBSET Nat, T # {}
  PROVE  \E x \in T : \A y \in T : x <= y
  <1>1. PICK x \in T : \A y \in T : <<y, x>> \notin OpToRel(<, Nat)
    BY NatLessThanWellFounded, WFMin, Zenon
  <1>2. \A y \in T : ~(y < x)
    BY <1>1 DEF OpToRel
  <1> QED
    BY <1>2

\* Every bounded one that is not empty has a largest element.
LEMMA LargestElement ==
  ASSUME NEW n \in Nat, NEW T \in SUBSET (0..n), T # {}
  PROVE  \E x \in T : \A y \in T : x >= y
  <1> DEFINE D == {n - x : x \in T}
  <1>1. D \in SUBSET Nat /\ D # {}
    <2>1. PICK x \in T : TRUE
      OBVIOUS
    <2>2. n - x \in D
      OBVIOUS
    <2>3. \A y \in T : n - y \in Nat
      OBVIOUS
    <2> QED
      BY <2>2, <2>3
  <1>2. PICK d \in D : \A e \in D : d <= e
    <2> HIDE DEF D
    <2> QED
      BY <1>1, SmallestElement
  <1>3. PICK x \in T : d = n - x
    BY <1>2
  <1>4. \A y \in T : n - y \in D
    OBVIOUS
  <1>5. \A y \in T : n - x <= n - y
    BY <1>2, <1>3, <1>4
  <1> QED
    BY <1>5

\* A set that has 0 and with every number the next one has them all.
LEMMA SetInduction ==
  ASSUME NEW S, 0 \in S, \A n \in Nat : n \in S => n + 1 \in S
  PROVE  \A n \in Nat : n \in S
  <1> DEFINE T == Nat \ S
  <1> SUFFICES ASSUME T # {} PROVE FALSE
    OBVIOUS
  <1>1. PICK x \in T : \A y \in T : x <= y
    <2>1. T \in SUBSET Nat
      OBVIOUS
    <2> HIDE DEF T
    <2> QED
      BY <2>1, SmallestElement
  <1>2. x # 0 /\ x - 1 \in Nat /\ x - 1 \notin T
    BY <1>1
  <1>3. x - 1 \in S
    BY <1>2
  <1> QED
    BY <1>1, <1>2, <1>3

\* A function that goes from a number to a smaller one until it may stop.
IsDescent(g, L, Stop, next) == g = [n \in 0..L |-> IF n \in Stop THEN n ELSE g[next[n]]]
Descent(L, Stop, next) == CHOOSE g : IsDescent(g, L, Stop, next)

\* There is such a function when every number that is not a stop leads to a
\* smaller one.
LEMMA DescentExists ==
  ASSUME NEW L \in Nat, NEW Stop, NEW next,
         \A n \in 0..L : n \notin Stop => next[n] \in 0..(n - 1)
  PROVE  \E g : IsDescent(g, L, Stop, next)
  <1> DEFINE S == {m \in Nat : m <= L => \E g : IsDescent(g, m, Stop, next)}
  <1>1. 0 \in S
    <2>1. 0 \in Stop
      OBVIOUS
    <2>2. IsDescent([n \in 0..0 |-> 0], 0, Stop, next)
      BY <2>1 DEF IsDescent
    <2> QED
      BY <2>2
  <1>2. ASSUME NEW m \in Nat, m \in S PROVE m + 1 \in S
    <2> SUFFICES ASSUME m + 1 <= L PROVE \E g : IsDescent(g, m + 1, Stop, next)
      OBVIOUS
    <2>1. PICK g : IsDescent(g, m, Stop, next)
      BY <1>2
    <2> DEFINE h == [n \in 0..(m + 1) |->
                       IF n \in Stop THEN n ELSE g[next[n]]]
    <2>2. \A n \in 0..m : h[n] = g[n]
      BY <2>1 DEF IsDescent
    <2>3. \A n \in 0..(m + 1) : n \notin Stop => next[n] \in 0..m
      OBVIOUS
    <2>4. \A n \in 0..(m + 1) : n \notin Stop => g[next[n]] = h[next[n]]
      <3> HIDE DEF h
      <3> QED
        BY <2>2, <2>3
    <2>5. IsDescent(h, m + 1, Stop, next)
      <3>1. \A n \in 0..(m + 1) : h[n] = IF n \in Stop THEN n ELSE h[next[n]]
        BY <2>4
      <3>2. h = [n \in 0..(m + 1) |-> h[n]]
        OBVIOUS
      <3> HIDE DEF h
      <3> QED
        BY <3>1, <3>2 DEF IsDescent
    <2> QED
      BY <2>5
  <1>3. L \in S
    <2> HIDE DEF S
    <2> QED
      BY <1>1, <1>2, SetInduction
  <1> QED
    BY <1>3

\* Where it stops: at a stop, no higher than where it started, and unless it
\* started there, at a place some number led to.
LEMMA DescentStops ==
  ASSUME NEW L \in Nat, NEW Stop, NEW next, NEW Good,
         \A n \in 0..L : n \notin Stop => next[n] \in 0..(n - 1) /\ next[n] \in Good
  PROVE  \A n \in 0..L : /\ Descent(L, Stop, next)[n] \in Stop
                         /\ Descent(L, Stop, next)[n] \in 0..n
                         /\ Descent(L, Stop, next)[n] = n \/ Descent(L, Stop, next)[n] \in Good
  <1> DEFINE g == Descent(L, Stop, next)
  <1>1. IsDescent(g, L, Stop, next)
    BY DescentExists DEF Descent
  <1> HIDE DEF g
  <1>2. \A n \in 0..L : g[n] = IF n \in Stop THEN n ELSE g[next[n]]
    BY <1>1 DEF IsDescent
  <1> DEFINE Ends(n) == g[n] \in Stop /\ g[n] \in 0..n /\ (g[n] = n \/ g[n] \in Good)
             S == {m \in Nat : \A n \in 0..L : n <= m => Ends(n)}
  <1>3. 0 \in S
    BY <1>2
  <1>4. ASSUME NEW m \in Nat, m \in S PROVE m + 1 \in S
    <2> SUFFICES ASSUME m + 1 \in 0..L PROVE Ends(m + 1)
      BY <1>4
    <2>1. CASE m + 1 \in Stop
      BY <1>2, <2>1
    <2>2. CASE m + 1 \notin Stop
      <3>1. next[m + 1] \in 0..m /\ next[m + 1] \in Good /\ g[m + 1] = g[next[m + 1]]
        BY <1>2, <2>2
      <3>2. Ends(next[m + 1])
        BY <1>4, <3>1
      <3> QED
        BY <3>1, <3>2
    <2> QED
      BY <2>1, <2>2
  <1>5. \A n \in 0..L : Ends(n)
    <2>1. \A m \in Nat : m \in S
      <3> HIDE DEF S
      <3> QED
        BY <1>3, <1>4, SetInduction
    <2> QED
      BY <2>1
  <1> QED
    BY <1>5 DEF g

-----------------------------------------------------------------------------
(* The text of a bug report.                                               *)

\* Nothing costs nothing.
LEMMA CostOfNothing == \A body : Crash!Cost(body, 0) = 0
  <1> SUFFICES ASSUME NEW body PROVE Crash!Cost(body, 0) = 0
    OBVIOUS
  <1> DEFINE cost == CHOOSE g : g = [k \in 0..0 |-> IF k = 0 THEN 0 ELSE g[k - 1] + (IF body[k] = "a" THEN 1 ELSE 3)]
  <1>1. \E g : g = [k \in 0..0 |-> IF k = 0 THEN 0 ELSE g[k - 1] + (IF body[k] = "a" THEN 1 ELSE 3)]
    <2>1. [k \in 0..0 |-> 0] = [k \in 0..0 |-> IF k = 0 THEN 0 ELSE [j \in 0..0 |-> 0][k - 1] + (IF body[k] = "a" THEN 1 ELSE 3)]
      OBVIOUS
    <2> QED
      BY <2>1
  <1>2. cost = [k \in 0..0 |-> IF k = 0 THEN 0 ELSE cost[k - 1] + (IF body[k] = "a" THEN 1 ELSE 3)]
    BY <1>1, Zenon DEF cost
  <1>3. cost[0] = 0
    <2> HIDE DEF cost
    <2> QED
      BY <1>2
  <1>4. Crash!Cost(body, 0) = cost[0]
    BY Zenon DEF Crash!Cost, cost
  <1> QED
    BY <1>3, <1>4

\* The cuts are descents: from what does not fit to what is left after a cut.
CutStops(body, notice) == {n \in 0..Len(body) : Crash!Fits(body, n, notice)}
CoarseNext(body) ==
  [n \in 0..Len(body) |-> Crash!TrimIncompleteUtf8Suffix(body, IF n > TrimStep THEN n - TrimStep ELSE 0)]
FineNext(body) ==
  [n \in 0..Len(body) |-> Crash!TrimIncompleteUtf8Suffix(body, n - 1)]
CompleteAt(body) == {n \in 0..Len(body) : n > 0 => body[n] # "lead"}

LEMMA CutsAreDescents ==
  ASSUME NEW body, NEW n
  PROVE  /\ Crash!CoarseCut(body) = Descent(Len(body), CutStops(body, 0), CoarseNext(body))[Len(body)]
         /\ Crash!FineCut(body, n) = Descent(Len(body), CutStops(body, Suffix), FineNext(body))[n]
  <1>1. \A g : [k \in 0..Len(body) |-> IF Crash!Fits(body, k, 0) THEN k
                  ELSE g[Crash!TrimIncompleteUtf8Suffix(body, IF k > TrimStep THEN k - TrimStep ELSE 0)]]
             = [k \in 0..Len(body) |-> IF k \in CutStops(body, 0) THEN k ELSE g[CoarseNext(body)[k]]]
    BY DEF CutStops, CoarseNext
  <1>2. \A g : [k \in 0..Len(body) |-> IF Crash!Fits(body, k, Suffix) THEN k
                  ELSE g[Crash!TrimIncompleteUtf8Suffix(body, k - 1)]]
             = [k \in 0..Len(body) |-> IF k \in CutStops(body, Suffix) THEN k ELSE g[FineNext(body)[k]]]
    BY DEF CutStops, FineNext
  <1>3. Crash!CoarseCut(body) = Descent(Len(body), CutStops(body, 0), CoarseNext(body))[Len(body)]
    BY <1>1, Zenon DEF Crash!CoarseCut, Descent, IsDescent
  <1>4. Crash!FineCut(body, n) = Descent(Len(body), CutStops(body, Suffix), FineNext(body))[n]
    BY <1>2, Zenon DEF Crash!FineCut, Descent, IsDescent
  <1> QED
    BY <1>3, <1>4

\* Cutting a report anywhere leaves a shorter one that ends with a complete
\* character.
LEMMA TrimLeavesComplete ==
  ASSUME NEW body \in Bodies, NEW L \in Nat, L = Len(body), NEW n \in 0..L
  PROVE  Crash!TrimIncompleteUtf8Suffix(body, n) \in 0..n \intersect CompleteAt(body)
  <1>1. CASE n > 0 /\ body[n] = "lead"
    <2>1. n - 1 > 0 => body[n - 1] # "lead"
      BY <1>1, BodyAssumption
    <2> QED
      BY <1>1, <2>1 DEF Crash!TrimIncompleteUtf8Suffix, CompleteAt
  <1>2. CASE ~(n > 0 /\ body[n] = "lead")
    BY <1>2 DEF Crash!TrimIncompleteUtf8Suffix, CompleteAt
  <1> QED
    BY <1>1, <1>2

LEMMA CoarseCutStops ==
  ASSUME NEW body \in Bodies
  PROVE  /\ Crash!CoarseCut(body) \in CutStops(body, 0)
         /\ Crash!CoarseCut(body) \in CompleteAt(body)
  <1> DEFINE L == Len(body)
             Stop == CutStops(body, 0)
             next == CoarseNext(body)
             Good == CompleteAt(body)
  <1>1. ASSUME NEW n \in 0..L, n \notin Stop PROVE next[n] \in 0..(n - 1) /\ next[n] \in Good
    <2>1. n # 0
      BY <1>1 DEF CutStops, Crash!Fits
    <2> DEFINE m == IF n > TrimStep THEN n - TrimStep ELSE 0
    <2>2. m \in 0..L /\ m < n
      BY <2>1, BodyAssumption, RuntimeAssumption
    <2>3. next[n] = Crash!TrimIncompleteUtf8Suffix(body, m)
      BY DEF CoarseNext
    <2> HIDE DEF m
    <2>4. next[n] \in 0..m /\ next[n] \in Good
      BY <2>2, <2>3, TrimLeavesComplete
    <2> QED
      BY <2>2, <2>4
  <1>2. L \in 0..L /\ L \in Good
    <2>1. L \in Nat
      BY BodyAssumption
    <2>2. ASSUME L > 0 PROVE body[L] # "lead"
      <3>1. L \in 1..Len(body)
        BY <2>1, <2>2
      <3> QED
        BY <3>1, BodyAssumption
    <2> QED
      BY <2>1, <2>2 DEF CompleteAt
  <1> HIDE DEF L, Stop, next, Good
  <1>3. \A n \in 0..L : n \notin Stop => next[n] \in 0..(n - 1) /\ next[n] \in Good
    BY <1>1
  <1>4. L \in Nat
    BY BodyAssumption DEF L
  <1>5. Descent(L, Stop, next)[L] \in Stop /\ (Descent(L, Stop, next)[L] = L \/ Descent(L, Stop, next)[L] \in Good)
    BY <1>2, <1>3, <1>4, DescentStops
  <1> QED
    BY <1>2, <1>5, CutsAreDescents DEF L, Stop, next, Good

LEMMA FineCutStops ==
  ASSUME NEW body \in Bodies, NEW from \in CompleteAt(body)
  PROVE  /\ Crash!FineCut(body, from) \in CutStops(body, Suffix)
         /\ Crash!FineCut(body, from) \in CompleteAt(body)
  <1> DEFINE L == Len(body)
             Stop == CutStops(body, Suffix)
             next == FineNext(body)
             Good == CompleteAt(body)
  <1>1. ASSUME NEW n \in 0..L, n \notin Stop PROVE next[n] \in 0..(n - 1) /\ next[n] \in Good
    <2>1. n # 0
      BY <1>1 DEF CutStops, Crash!Fits
    <2>2. n - 1 \in 0..L
      BY <2>1
    <2>3. next[n] = Crash!TrimIncompleteUtf8Suffix(body, n - 1)
      BY DEF FineNext
    <2> QED
      BY <2>2, <2>3, TrimLeavesComplete
  <1>2. from \in 0..L /\ from \in Good
    BY DEF CompleteAt
  <1> HIDE DEF L, Stop, next, Good
  <1>3. \A n \in 0..L : n \notin Stop => next[n] \in 0..(n - 1) /\ next[n] \in Good
    BY <1>1
  <1>4. L \in Nat
    BY BodyAssumption DEF L
  <1>5. /\ Descent(L, Stop, next)[from] \in Stop
        /\ Descent(L, Stop, next)[from] = from \/ Descent(L, Stop, next)[from] \in Good
    BY <1>2, <1>3, <1>4, DescentStops
  <1> QED
    BY <1>2, <1>5, CutsAreDescents DEF L, Stop, next, Good

\* A report that was cut fits into the address with its notice, one that was
\* not fits without, and neither ends in the middle of a character.
LEMMA TrimmedFits ==
  ASSUME NEW body \in Bodies
  PROVE  LET trimmed == Crash!TrimBodyToUrlLimit(body) IN
         /\ Prefix + Crash!Cost(body, trimmed.kept) + (IF trimmed.noted THEN Suffix ELSE 0) <= UrlLimit
         /\ trimmed.kept > 0 => body[trimmed.kept] # "lead"
  <1> DEFINE n == Crash!CoarseCut(body)
  <1>1. n \in CutStops(body, 0) /\ n \in CompleteAt(body)
    BY CoarseCutStops
  <1>2. ASSUME NEW notice \in {0, Suffix}, NEW k \in CutStops(body, notice)
        PROVE  Prefix + Crash!Cost(body, k) + notice <= UrlLimit
    BY <1>2, CostOfNothing, BodyAssumption, RuntimeAssumption DEF CutStops, Crash!Fits
  <1>3. CASE n < Len(body)
    <2>1. Crash!TrimBodyToUrlLimit(body) = [kept |-> Crash!FineCut(body, n), noted |-> TRUE]
      BY <1>3 DEF Crash!TrimBodyToUrlLimit
    <2> QED
      BY <1>1, <1>2, <2>1, FineCutStops DEF CompleteAt
  <1>4. CASE ~(n < Len(body))
    <2>1. Crash!TrimBodyToUrlLimit(body) = [kept |-> n, noted |-> FALSE]
      BY <1>4 DEF Crash!TrimBodyToUrlLimit
    <2> QED
      BY <1>1, <1>2, <2>1 DEF CompleteAt
  <1> QED
    BY <1>3, <1>4

-----------------------------------------------------------------------------
(* Crash capture.                                                          *)

\* The instance counts a set as everybody does.
LEMMA CrashCardinality == \A S : Crash!Cardinality(S) = Cardinality(S)
  BY DEF Crash!Cardinality, Cardinality

\* The reports on the disk are of runs, which are numbered.
LEMMA RunsAreNumbers ==
  ASSUME Crash!DiskTypes
  PROVE  \A i \in DOMAIN disk : disk[i].run \in 1..MaxRuns
  <1> DEFINE R == [run : 1..MaxRuns, report : Crash!Kinds, dump : Crash!Kinds]
  <1>1. \A i \in DOMAIN disk : disk[i] \in R
    <2>1. disk \in Seq(R)
      BY DEF Crash!DiskTypes
    <2> HIDE DEF R
    <2> QED
      BY <2>1
  <1> QED
    BY <1>1

\* The threads stay well typed.
LEMMA ThreadTypesStep == Crash!IInv /\ [Crash!Next]_crashVars => Crash!ThreadTypes'
  <1> SUFFICES ASSUME Crash!IInv, [Crash!Next]_crashVars PROVE Crash!ThreadTypes'
    OBVIOUS
  <1> USE DEF Crash!IInv, Crash!TypeOK, Crash!ThreadTypes, Crash!Captures,
         Crash!Running, Crash!Set
  <1>1. ASSUME Crash!InstallCrashCapture PROVE Crash!ThreadTypes'
    BY <1>1 DEF Crash!InstallCrashCapture
  <1>2. ASSUME NEW t \in Threads, Crash!LockState(t) PROVE Crash!ThreadTypes'
    BY <1>2 DEF Crash!LockState
  <1>3. ASSUME NEW t \in Threads, Crash!UnlockState(t) PROVE Crash!ThreadTypes'
    BY <1>3 DEF Crash!UnlockState
  <1>4. ASSUME NEW t \in Threads, Crash!VectoredCrashHandler(t) PROVE Crash!ThreadTypes'
    <2>1. PICK handled \in BOOLEAN, code \in {"access", "cpp"} :
            \/ thread' = [thread EXCEPT ![t] = [pc |-> "snapshot", handled |-> handled,
                                                code |-> code, dumped |-> FALSE]]
            \/ thread' = [thread EXCEPT ![t] = [pc |-> "run"]]
            \/ thread' = [thread EXCEPT ![t] = [pc |-> "filter", code |-> code]]
      BY <1>4 DEF Crash!VectoredCrashHandler, Crash!Capture, Crash!Search
    <2>2. CASE thread' = [thread EXCEPT ![t] = [pc |-> "snapshot", handled |-> handled,
                                                code |-> code, dumped |-> FALSE]]
      BY <2>2
    <2>3. CASE thread' = [thread EXCEPT ![t] = [pc |-> "run"]]
      BY <2>3
    <2>4. CASE thread' = [thread EXCEPT ![t] = [pc |-> "filter", code |-> code]]
      BY <2>4
    <2> QED
      BY <2>1, <2>2, <2>3, <2>4
  <1>5. ASSUME NEW t \in Threads, Crash!UnhandledCrashFilter(t) PROVE Crash!ThreadTypes'
    <2>1. thread[t].pc = "filter" /\ thread[t].code \in {"access", "cpp"}
      BY <1>5 DEF Crash!UnhandledCrashFilter
    <2>2. \/ thread' = [thread EXCEPT ![t] = [pc |-> "snapshot", handled |-> FALSE,
                                              code |-> thread[t].code, dumped |-> FALSE]]
          \/ thread' = [u \in Threads |-> [pc |-> "gone"]]
      BY <1>5 DEF Crash!UnhandledCrashFilter, Crash!Capture, Crash!Die
    <2>3. CASE thread' = [u \in Threads |-> [pc |-> "gone"]]
      BY <2>3
    <2>4. CASE thread' = [thread EXCEPT ![t] = [pc |-> "snapshot", handled |-> FALSE,
                                                code |-> thread[t].code, dumped |-> FALSE]]
      BY <2>1, <2>4
    <2> QED
      BY <2>2, <2>3, <2>4
  <1>6. ASSUME NEW t \in Threads, Crash!TryBuildSnapshot(t) PROVE Crash!ThreadTypes'
    BY <1>6 DEF Crash!TryBuildSnapshot
  <1>7. ASSUME NEW t \in Threads, Crash!OpenReport(t) PROVE Crash!ThreadTypes'
    BY <1>7 DEF Crash!OpenReport
  <1>8. ASSUME NEW t \in Threads, Crash!FlushReport(t) PROVE Crash!ThreadTypes'
    BY <1>8 DEF Crash!FlushReport
  <1>9. ASSUME NEW t \in Threads, Crash!TryWriteMiniDump(t) PROVE Crash!ThreadTypes'
    <2>1. PICK dumped \in BOOLEAN :
            thread' = [thread EXCEPT ![t] = [thread[t] EXCEPT !.pc = "artifacts", !.dumped = dumped]]
      BY <1>9 DEF Crash!TryWriteMiniDump
    <2>2. thread[t] \in Crash!Captures
      BY <1>9 DEF Crash!TryWriteMiniDump
    <2> QED
      BY <2>1, <2>2
  <1>10. ASSUME NEW t \in Threads, Crash!TrySetCrashArtifacts(t) PROVE Crash!ThreadTypes'
    BY <1>10 DEF Crash!TrySetCrashArtifacts, Crash!Leave
  <1>11. ASSUME NEW t \in Threads, Crash!CaptureFails(t) PROVE Crash!ThreadTypes'
    BY <1>11 DEF Crash!CaptureFails, Crash!Leave, Crash!Capturing
  <1>12. ASSUME Crash!Exit PROVE Crash!ThreadTypes'
    BY <1>12 DEF Crash!Exit, Crash!Die
  <1>13. ASSUME Crash!OpenBugReport PROVE Crash!ThreadTypes'
    BY <1>13 DEF Crash!OpenBugReport
  <1>14. ASSUME Crash!StartGame PROVE Crash!ThreadTypes'
    BY <1>14 DEF Crash!StartGame
  <1>15. CASE UNCHANGED crashVars
    BY <1>15 DEF crashVars
  <1> QED
    BY <1>1, <1>2, <1>3, <1>4, <1>5, <1>6, <1>7, <1>8, <1>9, <1>10, <1>11, <1>12, <1>13,
       <1>14, <1>15
       DEF Crash!Next

\* The disk holds reports.
LEMMA DiskTypesStep == Crash!IInv /\ [Crash!Next]_crashVars => Crash!DiskTypes'
  <1> SUFFICES ASSUME Crash!IInv, [Crash!Next]_crashVars PROVE Crash!DiskTypes'
    OBVIOUS
  <1> USE RuntimeAssumption DEF Crash!IInv, Crash!DiskTypes, Crash!TypeOK,
         Crash!StateTypes, Crash!Kinds
  <1>1. ASSUME Crash!InstallCrashCapture PROVE Crash!DiskTypes'
    BY <1>1 DEF Crash!InstallCrashCapture
  <1>2. ASSUME NEW t \in Threads, Crash!LockState(t) PROVE Crash!DiskTypes'
    BY <1>2 DEF Crash!LockState
  <1>3. ASSUME NEW t \in Threads, Crash!UnlockState(t) PROVE Crash!DiskTypes'
    BY <1>3 DEF Crash!UnlockState
  <1>4. ASSUME NEW t \in Threads, Crash!VectoredCrashHandler(t) PROVE Crash!DiskTypes'
    BY <1>4 DEF Crash!VectoredCrashHandler, Crash!Capture, Crash!Search
  <1>5. ASSUME NEW t \in Threads, Crash!UnhandledCrashFilter(t) PROVE Crash!DiskTypes'
    BY <1>5 DEF Crash!UnhandledCrashFilter, Crash!Capture, Crash!Die
  <1>6. ASSUME NEW t \in Threads, Crash!TryBuildSnapshot(t) PROVE Crash!DiskTypes'
    BY <1>6 DEF Crash!TryBuildSnapshot
  <1>7. ASSUME NEW t \in Threads, Crash!OpenReport(t) PROVE Crash!DiskTypes'
    BY <1>7 DEF Crash!OpenReport
  <1>8. ASSUME NEW t \in Threads, Crash!FlushReport(t) PROVE Crash!DiskTypes'
    <2> DEFINE R == [run : 1..MaxRuns, report : Crash!Kinds, dump : Crash!Kinds]
    <2>1. disk \in Seq(R) /\ disk # <<>>
      BY <1>8 DEF Crash!FlushReport, Crash!DiskInv, Crash!LastIsOfThisRun
    <2>2. PICK v \in Crash!Kinds : disk' = [disk EXCEPT ![Len(disk)] = [disk[Len(disk)] EXCEPT !.report = v]]
      BY <1>8 DEF Crash!FlushReport
    <2>3. Len(disk) \in 1..Len(disk) /\ disk[Len(disk)] \in R
      <3> HIDE DEF R
      <3> QED
        BY <2>1
    <2>4. [disk[Len(disk)] EXCEPT !.report = v] \in R
      BY <2>3
    <2> HIDE DEF R
    <2>5. disk' \in Seq(R)
      BY <2>1, <2>2, <2>3, <2>4
    <2> QED
      BY <2>5 DEF R
  <1>9. ASSUME NEW t \in Threads, Crash!TryWriteMiniDump(t) PROVE Crash!DiskTypes'
    <2> DEFINE R == [run : 1..MaxRuns, report : Crash!Kinds, dump : Crash!Kinds]
    <2>1. disk \in Seq(R) /\ disk # <<>>
      BY <1>9 DEF Crash!TryWriteMiniDump, Crash!DiskInv, Crash!LastIsOfThisRun
    <2>2. PICK v \in Crash!Kinds : disk' = [disk EXCEPT ![Len(disk)] = [disk[Len(disk)] EXCEPT !.dump = v]]
      BY <1>9 DEF Crash!TryWriteMiniDump
    <2>3. Len(disk) \in 1..Len(disk) /\ disk[Len(disk)] \in R
      <3> HIDE DEF R
      <3> QED
        BY <2>1
    <2>4. [disk[Len(disk)] EXCEPT !.dump = v] \in R
      BY <2>3
    <2> HIDE DEF R
    <2>5. disk' \in Seq(R)
      BY <2>1, <2>2, <2>3, <2>4
    <2> QED
      BY <2>5 DEF R
  <1>10. ASSUME NEW t \in Threads, Crash!TrySetCrashArtifacts(t) PROVE Crash!DiskTypes'
    BY <1>10 DEF Crash!TrySetCrashArtifacts, Crash!Leave
  <1>11. ASSUME NEW t \in Threads, Crash!CaptureFails(t) PROVE Crash!DiskTypes'
    BY <1>11 DEF Crash!CaptureFails, Crash!Leave
  <1>12. ASSUME Crash!Exit PROVE Crash!DiskTypes'
    BY <1>12 DEF Crash!Exit, Crash!Die
  <1>13. ASSUME Crash!OpenBugReport PROVE Crash!DiskTypes'
    BY <1>13 DEF Crash!OpenBugReport
  <1>14. ASSUME Crash!StartGame PROVE Crash!DiskTypes'
    BY <1>14 DEF Crash!StartGame
  <1>15. CASE UNCHANGED crashVars
    BY <1>15 DEF crashVars
  <1> QED
    BY <1>1, <1>2, <1>3, <1>4, <1>5, <1>6, <1>7, <1>8, <1>9, <1>10, <1>11, <1>12, <1>13,
       <1>14, <1>15
       DEF Crash!Next

\* One thread has the capture of a run.
LEMMA FlagStep == Crash!IInv /\ [Crash!Next]_crashVars => Crash!FlagInv'
  <1> SUFFICES ASSUME Crash!IInv, [Crash!Next]_crashVars PROVE Crash!FlagInv'
    OBVIOUS
  <1> USE DEF Crash!IInv, Crash!FlagInv, Crash!ThreadTypes, Crash!Captures,
         Crash!Capturing, Crash!Running, Crash!Set, Crash!TypeOK, Crash!StateTypes
  <1>1. ASSUME Crash!InstallCrashCapture PROVE Crash!FlagInv'
    BY <1>1 DEF Crash!InstallCrashCapture
  <1>2. ASSUME NEW t \in Threads, Crash!LockState(t) PROVE Crash!FlagInv'
    BY <1>2 DEF Crash!LockState
  <1>3. ASSUME NEW t \in Threads, Crash!UnlockState(t) PROVE Crash!FlagInv'
    BY <1>3 DEF Crash!UnlockState
  <1>4. ASSUME NEW t \in Threads, Crash!VectoredCrashHandler(t) PROVE Crash!FlagInv'
    BY <1>4 DEF Crash!VectoredCrashHandler, Crash!Capture, Crash!Search
  <1>5. ASSUME NEW t \in Threads, Crash!UnhandledCrashFilter(t) PROVE Crash!FlagInv'
    BY <1>5 DEF Crash!UnhandledCrashFilter, Crash!Capture, Crash!Die
  <1>6. ASSUME NEW t \in Threads, Crash!TryBuildSnapshot(t) PROVE Crash!FlagInv'
    BY <1>6 DEF Crash!TryBuildSnapshot
  <1>7. ASSUME NEW t \in Threads, Crash!OpenReport(t) PROVE Crash!FlagInv'
    BY <1>7 DEF Crash!OpenReport
  <1>8. ASSUME NEW t \in Threads, Crash!FlushReport(t) PROVE Crash!FlagInv'
    BY <1>8 DEF Crash!FlushReport
  <1>9. ASSUME NEW t \in Threads, Crash!TryWriteMiniDump(t) PROVE Crash!FlagInv'
    BY <1>9 DEF Crash!TryWriteMiniDump
  <1>10. ASSUME NEW t \in Threads, Crash!TrySetCrashArtifacts(t) PROVE Crash!FlagInv'
    BY <1>10 DEF Crash!TrySetCrashArtifacts, Crash!Leave
  <1>11. ASSUME NEW t \in Threads, Crash!CaptureFails(t) PROVE Crash!FlagInv'
    BY <1>11 DEF Crash!CaptureFails, Crash!Leave
  <1>12. ASSUME Crash!Exit PROVE Crash!FlagInv'
    BY <1>12 DEF Crash!Exit, Crash!Die
  <1>13. ASSUME Crash!OpenBugReport PROVE Crash!FlagInv'
    BY <1>13 DEF Crash!OpenBugReport
  <1>14. ASSUME Crash!StartGame PROVE Crash!FlagInv'
    BY <1>14 DEF Crash!StartGame
  <1>15. CASE UNCHANGED crashVars
    BY <1>15 DEF crashVars
  <1> QED
    BY <1>1, <1>2, <1>3, <1>4, <1>5, <1>6, <1>7, <1>8, <1>9, <1>10, <1>11, <1>12, <1>13,
       <1>14, <1>15
       DEF Crash!Next

\* One report for a run, in the order of the runs.
LEMMA DiskStep == Crash!IInv /\ [Crash!Next]_crashVars => Crash!DiskInv'
  <1> SUFFICES ASSUME Crash!IInv, [Crash!Next]_crashVars PROVE Crash!DiskInv'
    OBVIOUS
  <1> USE RuntimeAssumption DEF Crash!IInv, Crash!DiskInv, Crash!FlagInv,
         Crash!DiskTypes, Crash!Kinds, Crash!ThreadTypes, Crash!Captures, Crash!Capturing,
         Crash!Running, Crash!Set, Crash!TypeOK, Crash!StateTypes, Crash!NoReportYet,
         Crash!LastIsOfThisRun
  <1>1. ASSUME Crash!InstallCrashCapture PROVE Crash!DiskInv'
    BY <1>1 DEF Crash!InstallCrashCapture
  <1>2. ASSUME NEW t \in Threads, Crash!LockState(t) PROVE Crash!DiskInv'
    BY <1>2 DEF Crash!LockState
  <1>3. ASSUME NEW t \in Threads, Crash!UnlockState(t) PROVE Crash!DiskInv'
    BY <1>3 DEF Crash!UnlockState
  <1>4. ASSUME NEW t \in Threads, Crash!VectoredCrashHandler(t) PROVE Crash!DiskInv'
    <2>1. PICK handled \in BOOLEAN, code \in {"access", "cpp"} :
            \/ ~started /\ Crash!Capture(t, handled, code)
            \/ Crash!Search(t, handled, code) /\ started' = started
      BY <1>4 DEF Crash!VectoredCrashHandler
    <2>2. disk' = disk /\ runs' = runs /\ thread[t].pc = "run"
      BY <1>4 DEF Crash!VectoredCrashHandler
    <2>3. CASE ~started /\ Crash!Capture(t, handled, code)
      BY <2>2, <2>3 DEF Crash!Capture
    <2>4. CASE Crash!Search(t, handled, code) /\ started' = started
      BY <2>2, <2>4 DEF Crash!Search
    <2> QED
      BY <2>1, <2>3, <2>4
  <1>5. ASSUME NEW t \in Threads, Crash!UnhandledCrashFilter(t) PROVE Crash!DiskInv'
    <2>1. disk' = disk /\ runs' = runs
      BY <1>5 DEF Crash!UnhandledCrashFilter
    <2>2. CASE Crash!Capture(t, FALSE, thread[t].code) /\ ~started
      BY <2>1, <2>2 DEF Crash!Capture
    <2>3. CASE Crash!Die /\ started' = started
      BY <2>1, <2>3 DEF Crash!Die
    <2> QED
      BY <1>5, <2>2, <2>3 DEF Crash!UnhandledCrashFilter
  <1>6. ASSUME NEW t \in Threads, Crash!TryBuildSnapshot(t) PROVE Crash!DiskInv'
    BY SMTT(40), <1>6 DEF Crash!TryBuildSnapshot
  <1>7. ASSUME NEW t \in Threads, Crash!OpenReport(t) PROVE Crash!DiskInv'
    <2>1. PICK opened \in BOOLEAN :
            /\ disk' = Append(disk, [run |-> runs, report |-> IF opened THEN "torn" ELSE "none", dump |-> "none"])
            /\ thread' = [thread EXCEPT ![t] = [thread[t] EXCEPT !.pc = IF opened THEN "flush" ELSE "dump"]]
      BY <1>7 DEF Crash!OpenReport
    <2>2. Crash!NoReportYet /\ Crash!Capturing(t)
      BY <1>7 DEF Crash!OpenReport
    <2>3. /\ Len(disk) \in Nat /\ DOMAIN disk = 1..Len(disk) /\ DOMAIN disk' = 1..(Len(disk) + 1)
          /\ Len(disk') = Len(disk) + 1
          /\ \A i \in DOMAIN disk : disk'[i] = disk[i]
          /\ disk'[Len(disk) + 1].run = runs
      BY SMTT(40), <2>1
    <2>4. ASSUME NEW i \in DOMAIN disk', NEW j \in DOMAIN disk', i < j
          PROVE  disk'[i].run < disk'[j].run
      <3>1. i \in DOMAIN disk
        BY <2>3, <2>4
      <3>2. CASE j \in DOMAIN disk
        BY <2>3, <2>4, <3>1, <3>2
      <3>3. CASE j = Len(disk) + 1
        BY <2>2, <2>3, <3>1, <3>3
      <3> QED
        BY <2>3, <3>2, <3>3
    <2>5. \A i \in DOMAIN disk' : disk'[i].run <= runs
      BY SMTT(40), <2>2, <2>3
    <2>6. \A u \in Threads \ {t} : ~Crash!Capturing(u) /\ thread'[u] = thread[u]
      BY <2>1, <2>2
    <2>7. thread'[t].pc \in {"flush", "dump"} /\ disk' # <<>> /\ disk'[Len(disk')].run = runs
      BY SMTT(40), <2>1, <2>2, <2>3
    <2>8. started' /\ runs' = runs
      BY <1>7, <2>2 DEF Crash!OpenReport
    <2>9. \A u \in Threads : /\ thread'[u].pc \notin {"snapshot", "report", "artifacts"}
                             /\ thread'[u].pc \in {"flush", "dump"} => u = t
      BY <2>6, <2>7
    <2> QED
      BY <2>4, <2>5, <2>7, <2>8, <2>9
  <1>8. ASSUME NEW t \in Threads, Crash!FlushReport(t) PROVE Crash!DiskInv'
    BY SMTT(40), <1>8 DEF Crash!FlushReport
  <1>9. ASSUME NEW t \in Threads, Crash!TryWriteMiniDump(t) PROVE Crash!DiskInv'
    <2>1. PICK dump \in {"none", "torn", "whole"} :
            /\ disk' = [disk EXCEPT ![Len(disk)] = [disk[Len(disk)] EXCEPT !.dump = dump]]
            /\ thread' = [thread EXCEPT ![t] = [thread[t] EXCEPT !.pc = "artifacts", !.dumped = (dump = "whole")]]
      BY <1>9 DEF Crash!TryWriteMiniDump
    <2>2. Crash!LastIsOfThisRun /\ Crash!Capturing(t)
      BY <1>9 DEF Crash!TryWriteMiniDump
    <2>3. /\ Len(disk') = Len(disk) /\ Len(disk) \in DOMAIN disk /\ DOMAIN disk' = DOMAIN disk
          /\ \A i \in DOMAIN disk : disk'[i].run = disk[i].run
          /\ disk'[Len(disk)].dump = dump
      BY SMTT(40), <2>1, <2>2
    <2>4. \A u \in Threads \ {t} : ~Crash!Capturing(u) /\ thread'[u] = thread[u]
      BY <2>1, <2>2
    <2>5. thread'[t].pc = "artifacts" /\ (thread'[t].dumped <=> dump = "whole")
      <3>1. thread[t] \in Crash!Captures
        BY <2>2
      <3>2. CASE dump = "whole"
        BY <2>1, <3>1, <3>2
      <3>3. CASE dump # "whole"
        BY <2>1, <3>1, <3>3
      <3> QED
        BY <3>2, <3>3
    <2>6. disk' # <<>> /\ disk'[Len(disk')].run = runs
      BY <2>2, <2>3
    <2>7. started
      BY <2>2
    <2> QED
      BY SMTT(40), <1>9, <2>3, <2>4, <2>5, <2>6, <2>7 DEF Crash!TryWriteMiniDump
  <1>10. ASSUME NEW t \in Threads, Crash!TrySetCrashArtifacts(t) PROVE Crash!DiskInv'
    BY <1>10 DEF Crash!TrySetCrashArtifacts, Crash!Leave
  <1>11. ASSUME NEW t \in Threads, Crash!CaptureFails(t) PROVE Crash!DiskInv'
    BY <1>11 DEF Crash!CaptureFails, Crash!Leave
  <1>12. ASSUME Crash!Exit PROVE Crash!DiskInv'
    BY <1>12 DEF Crash!Exit, Crash!Die
  <1>13. ASSUME Crash!OpenBugReport PROVE Crash!DiskInv'
    BY <1>13 DEF Crash!OpenBugReport
  <1>14. ASSUME Crash!StartGame PROVE Crash!DiskInv'
    <2>1. runs' = runs + 1 /\ runs \in Nat /\ disk' = disk
      BY <1>14 DEF Crash!StartGame
    <2>2. \A i \in DOMAIN disk : disk[i].run < runs' /\ disk[i].run \in Nat
      BY <2>1, RunsAreNumbers
    <2>3. \A u \in Threads : thread'[u].pc = "run"
      BY <1>14 DEF Crash!StartGame
    <2> QED
      BY <2>1, <2>2, <2>3
  <1>15. CASE UNCHANGED crashVars
    BY <1>15 DEF crashVars
  <1> QED
    BY <1>1, <1>2, <1>3, <1>4, <1>5, <1>6, <1>7, <1>8, <1>9, <1>10, <1>11, <1>12, <1>13,
       <1>14, <1>15
       DEF Crash!Next

\* What nothing went wrong with is being written, or written.
LEMMA OpenStep == Crash!IInv /\ [Crash!Next]_crashVars => Crash!OpenInv'
  <1> SUFFICES ASSUME Crash!IInv, [Crash!Next]_crashVars PROVE Crash!OpenInv'
    OBVIOUS
  <1> USE DEF Crash!IInv, Crash!DiskInv, Crash!FlagInv, Crash!DiskTypes, Crash!Kinds,
         Crash!ThreadTypes, Crash!Captures, Crash!Capturing, Crash!Running, Crash!Set,
         Crash!TypeOK, Crash!StateTypes, Crash!NoReportYet, Crash!LastIsOfThisRun, Crash!OpenInv,
         Crash!WholeReport
  <1>1. ASSUME Crash!InstallCrashCapture PROVE Crash!OpenInv'
    BY <1>1 DEF Crash!InstallCrashCapture
  <1>2. ASSUME NEW t \in Threads, Crash!LockState(t) PROVE Crash!OpenInv'
    BY <1>2 DEF Crash!LockState
  <1>3. ASSUME NEW t \in Threads, Crash!UnlockState(t) PROVE Crash!OpenInv'
    BY <1>3 DEF Crash!UnlockState
  <1>4. ASSUME NEW t \in Threads, Crash!VectoredCrashHandler(t) PROVE Crash!OpenInv'
    BY <1>4 DEF Crash!VectoredCrashHandler, Crash!Capture, Crash!Search
  <1>5. ASSUME NEW t \in Threads, Crash!UnhandledCrashFilter(t) PROVE Crash!OpenInv'
    BY <1>5 DEF Crash!UnhandledCrashFilter, Crash!Capture, Crash!Die
  <1>6. ASSUME NEW t \in Threads, Crash!TryBuildSnapshot(t) PROVE Crash!OpenInv'
    BY <1>6 DEF Crash!TryBuildSnapshot
  <1>7. ASSUME NEW t \in Threads, Crash!OpenReport(t) PROVE Crash!OpenInv'
    BY <1>7 DEF Crash!OpenReport
  <1>8. ASSUME NEW t \in Threads, Crash!FlushReport(t) PROVE Crash!OpenInv'
    BY <1>8 DEF Crash!FlushReport
  <1>9. ASSUME NEW t \in Threads, Crash!TryWriteMiniDump(t) PROVE Crash!OpenInv'
    BY <1>9 DEF Crash!TryWriteMiniDump
  <1>10. ASSUME NEW t \in Threads, Crash!TrySetCrashArtifacts(t) PROVE Crash!OpenInv'
    BY <1>10 DEF Crash!TrySetCrashArtifacts, Crash!Leave
  <1>11. ASSUME NEW t \in Threads, Crash!CaptureFails(t) PROVE Crash!OpenInv'
    BY <1>11 DEF Crash!CaptureFails, Crash!Leave
  <1>12. ASSUME Crash!Exit PROVE Crash!OpenInv'
    BY <1>12 DEF Crash!Exit, Crash!Die
  <1>13. ASSUME Crash!OpenBugReport PROVE Crash!OpenInv'
    BY <1>13 DEF Crash!OpenBugReport
  <1>14. ASSUME Crash!StartGame PROVE Crash!OpenInv'
    BY <1>14 DEF Crash!StartGame
  <1>15. CASE UNCHANGED crashVars
    BY <1>15 DEF crashVars
  <1> QED
    BY <1>1, <1>2, <1>3, <1>4, <1>5, <1>6, <1>7, <1>8, <1>9, <1>10, <1>11, <1>12, <1>13,
       <1>14, <1>15
       DEF Crash!Next

\* A dump that is named is there.
LEMMA NamedStep == Crash!IInv /\ [Crash!Next]_crashVars => Crash!NamedDumpExists'
  <1> SUFFICES ASSUME Crash!IInv, [Crash!Next]_crashVars PROVE Crash!NamedDumpExists'
    OBVIOUS
  <1> USE DEF Crash!IInv, Crash!DiskInv, Crash!FlagInv, Crash!DiskTypes, Crash!Kinds,
         Crash!ThreadTypes, Crash!Captures, Crash!Capturing, Crash!Running, Crash!Set,
         Crash!TypeOK, Crash!StateTypes, Crash!NoReportYet, Crash!LastIsOfThisRun,
         Crash!NamedDumpExists
  <1>1. ASSUME Crash!InstallCrashCapture PROVE Crash!NamedDumpExists'
    BY <1>1 DEF Crash!InstallCrashCapture
  <1>2. ASSUME NEW t \in Threads, Crash!LockState(t) PROVE Crash!NamedDumpExists'
    BY <1>2 DEF Crash!LockState
  <1>3. ASSUME NEW t \in Threads, Crash!UnlockState(t) PROVE Crash!NamedDumpExists'
    BY <1>3 DEF Crash!UnlockState
  <1>4. ASSUME NEW t \in Threads, Crash!VectoredCrashHandler(t) PROVE Crash!NamedDumpExists'
    BY <1>4 DEF Crash!VectoredCrashHandler, Crash!Capture, Crash!Search
  <1>5. ASSUME NEW t \in Threads, Crash!UnhandledCrashFilter(t) PROVE Crash!NamedDumpExists'
    BY <1>5 DEF Crash!UnhandledCrashFilter, Crash!Capture, Crash!Die
  <1>6. ASSUME NEW t \in Threads, Crash!TryBuildSnapshot(t) PROVE Crash!NamedDumpExists'
    BY <1>6 DEF Crash!TryBuildSnapshot
  <1>7. ASSUME NEW t \in Threads, Crash!OpenReport(t) PROVE Crash!NamedDumpExists'
    BY <1>7 DEF Crash!OpenReport
  <1>8. ASSUME NEW t \in Threads, Crash!FlushReport(t) PROVE Crash!NamedDumpExists'
    BY <1>8 DEF Crash!FlushReport
  <1>9. ASSUME NEW t \in Threads, Crash!TryWriteMiniDump(t) PROVE Crash!NamedDumpExists'
    BY <1>9 DEF Crash!TryWriteMiniDump
  <1>10. ASSUME NEW t \in Threads, Crash!TrySetCrashArtifacts(t) PROVE Crash!NamedDumpExists'
    BY <1>10 DEF Crash!TrySetCrashArtifacts, Crash!Leave
  <1>11. ASSUME NEW t \in Threads, Crash!CaptureFails(t) PROVE Crash!NamedDumpExists'
    BY <1>11 DEF Crash!CaptureFails, Crash!Leave
  <1>12. ASSUME Crash!Exit PROVE Crash!NamedDumpExists'
    BY <1>12 DEF Crash!Exit, Crash!Die
  <1>13. ASSUME Crash!OpenBugReport PROVE Crash!NamedDumpExists'
    BY <1>13 DEF Crash!OpenBugReport
  <1>14. ASSUME Crash!StartGame PROVE Crash!NamedDumpExists'
    BY <1>14 DEF Crash!StartGame
  <1>15. CASE UNCHANGED crashVars
    BY <1>15 DEF crashVars
  <1> QED
    BY <1>1, <1>2, <1>3, <1>4, <1>5, <1>6, <1>7, <1>8, <1>9, <1>10, <1>11, <1>12, <1>13,
       <1>14, <1>15
       DEF Crash!Next

\* The newest report is one of the disk, and of this run when this run left
\* one.
LEMMA LatestReport ==
  ASSUME Crash!DiskTypes, Crash!DiskInv, runs \in Nat
  PROVE  /\ Crash!FindLatestCrashReport \in 0..Len(disk)
         /\ Crash!WholeReport => disk[Crash!FindLatestCrashReport].run = runs
  <1> DEFINE reports == {i \in DOMAIN disk : disk[i].report # "none"}
  <1>1. Len(disk) \in Nat /\ DOMAIN disk = 1..Len(disk)
    BY DEF Crash!DiskTypes
  <1>2. CASE reports = {}
    <2>1. Crash!FindLatestCrashReport = 0
      BY <1>2 DEF Crash!FindLatestCrashReport
    <2>2. ~Crash!WholeReport
      BY <1>2 DEF Crash!WholeReport
    <2> QED
      BY <1>1, <2>1, <2>2
  <1>3. CASE reports # {}
    <2> DEFINE last == Crash!FindLatestCrashReport
    <2>1. reports \in SUBSET (0..Len(disk))
      BY <1>1
    <2>2. \E i \in reports : \A j \in reports : i >= j
      <3> HIDE DEF reports
      <3> QED
        BY <1>1, <1>3, <2>1, LargestElement
    <2>3. last \in reports /\ \A j \in reports : last >= j
      BY <1>3, <2>2 DEF Crash!FindLatestCrashReport
    <2> HIDE DEF last
    <2>4. ASSUME NEW i \in DOMAIN disk, disk[i].run = runs, disk[i].report = "whole"
          PROVE  disk[last].run = runs
      <3>1. last >= i
        BY <2>3, <2>4
      <3>2. CASE last = i
        BY <2>4, <3>2
      <3>3. CASE last > i
        <4>1. disk[i].run < disk[last].run /\ disk[last].run <= runs
          BY <1>1, <2>3, <3>3 DEF Crash!DiskInv
        <4>2. disk[last].run \in 1..MaxRuns
          BY <2>3, RunsAreNumbers
        <4> QED
          BY <2>4, <4>1, <4>2, RuntimeAssumption
      <3> QED
        BY <1>1, <2>3, <3>1, <3>2, <3>3
    <2> QED
      BY <1>1, <2>3, <2>4 DEF Crash!WholeReport, last
  <1> QED
    BY <1>2, <1>3

\* Nothing is offered while the game runs.
LEMMA OfferInvStep == Crash!IInv /\ [Crash!Next]_crashVars => Crash!OfferInv'
  <1> SUFFICES ASSUME Crash!IInv, [Crash!Next]_crashVars PROVE Crash!OfferInv'
    OBVIOUS
  <1> USE DEF Crash!IInv, Crash!OfferInv, Crash!FlagInv, Crash!Capturing, Crash!TypeOK,
         Crash!StateTypes
  <1>1. ASSUME Crash!InstallCrashCapture PROVE Crash!OfferInv'
    BY <1>1 DEF Crash!InstallCrashCapture
  <1>2. ASSUME NEW t \in Threads, Crash!LockState(t) PROVE Crash!OfferInv'
    BY <1>2 DEF Crash!LockState
  <1>3. ASSUME NEW t \in Threads, Crash!UnlockState(t) PROVE Crash!OfferInv'
    BY <1>3 DEF Crash!UnlockState
  <1>4. ASSUME NEW t \in Threads, Crash!VectoredCrashHandler(t) PROVE Crash!OfferInv'
    BY <1>4 DEF Crash!VectoredCrashHandler, Crash!Capture, Crash!Search
  <1>5. ASSUME NEW t \in Threads, Crash!UnhandledCrashFilter(t) PROVE Crash!OfferInv'
    BY <1>5 DEF Crash!UnhandledCrashFilter, Crash!Capture, Crash!Die
  <1>6. ASSUME NEW t \in Threads, Crash!TryBuildSnapshot(t) PROVE Crash!OfferInv'
    BY <1>6 DEF Crash!TryBuildSnapshot
  <1>7. ASSUME NEW t \in Threads, Crash!OpenReport(t) PROVE Crash!OfferInv'
    BY <1>7 DEF Crash!OpenReport
  <1>8. ASSUME NEW t \in Threads, Crash!FlushReport(t) PROVE Crash!OfferInv'
    BY <1>8 DEF Crash!FlushReport
  <1>9. ASSUME NEW t \in Threads, Crash!TryWriteMiniDump(t) PROVE Crash!OfferInv'
    BY <1>9 DEF Crash!TryWriteMiniDump
  <1>10. ASSUME NEW t \in Threads, Crash!TrySetCrashArtifacts(t) PROVE Crash!OfferInv'
    BY <1>10 DEF Crash!TrySetCrashArtifacts, Crash!Leave
  <1>11. ASSUME NEW t \in Threads, Crash!CaptureFails(t) PROVE Crash!OfferInv'
    BY <1>11 DEF Crash!CaptureFails, Crash!Leave
  <1>12. ASSUME Crash!Exit PROVE Crash!OfferInv'
    BY <1>12 DEF Crash!Exit, Crash!Die
  <1>13. ASSUME Crash!OpenBugReport PROVE Crash!OfferInv'
    BY <1>13 DEF Crash!OpenBugReport
  <1>14. ASSUME Crash!StartGame PROVE Crash!OfferInv'
    BY <1>14 DEF Crash!StartGame
  <1>15. CASE UNCHANGED crashVars
    BY <1>15 DEF crashVars
  <1> QED
    BY <1>1, <1>2, <1>3, <1>4, <1>5, <1>6, <1>7, <1>8, <1>9, <1>10, <1>11, <1>12, <1>13,
       <1>14, <1>15
       DEF Crash!Next

\* The crash offered is the last one.
LEMMA OfferStep == Crash!IInv /\ [Crash!Next]_crashVars => Crash!OfferIsOfLastCrash'
  <1> SUFFICES ASSUME Crash!IInv, [Crash!Next]_crashVars PROVE Crash!OfferIsOfLastCrash'
    OBVIOUS
  <1> USE DEF Crash!IInv, Crash!OfferIsOfLastCrash, Crash!OfferInv, Crash!FlagInv,
         Crash!Capturing, Crash!ThreadTypes, Crash!Captures, Crash!TypeOK, Crash!StateTypes
  <1>1. ASSUME Crash!InstallCrashCapture PROVE Crash!OfferIsOfLastCrash'
    BY <1>1 DEF Crash!InstallCrashCapture
  <1>2. ASSUME NEW t \in Threads, Crash!LockState(t) PROVE Crash!OfferIsOfLastCrash'
    BY <1>2 DEF Crash!LockState
  <1>3. ASSUME NEW t \in Threads, Crash!UnlockState(t) PROVE Crash!OfferIsOfLastCrash'
    BY <1>3 DEF Crash!UnlockState
  <1>4. ASSUME NEW t \in Threads, Crash!VectoredCrashHandler(t) PROVE Crash!OfferIsOfLastCrash'
    BY <1>4 DEF Crash!VectoredCrashHandler, Crash!Capture, Crash!Search
  <1>5. ASSUME NEW t \in Threads, Crash!UnhandledCrashFilter(t) PROVE Crash!OfferIsOfLastCrash'
    BY <1>5 DEF Crash!UnhandledCrashFilter, Crash!Capture, Crash!Die
  <1>6. ASSUME NEW t \in Threads, Crash!TryBuildSnapshot(t) PROVE Crash!OfferIsOfLastCrash'
    BY <1>6 DEF Crash!TryBuildSnapshot
  <1>7. ASSUME NEW t \in Threads, Crash!OpenReport(t) PROVE Crash!OfferIsOfLastCrash'
    BY <1>7 DEF Crash!OpenReport
  <1>8. ASSUME NEW t \in Threads, Crash!FlushReport(t) PROVE Crash!OfferIsOfLastCrash'
    BY <1>8 DEF Crash!FlushReport
  <1>9. ASSUME NEW t \in Threads, Crash!TryWriteMiniDump(t) PROVE Crash!OfferIsOfLastCrash'
    BY <1>9 DEF Crash!TryWriteMiniDump
  <1>10. ASSUME NEW t \in Threads, Crash!TrySetCrashArtifacts(t) PROVE Crash!OfferIsOfLastCrash'
    BY <1>10 DEF Crash!TrySetCrashArtifacts, Crash!Leave
  <1>11. ASSUME NEW t \in Threads, Crash!CaptureFails(t) PROVE Crash!OfferIsOfLastCrash'
    BY <1>11 DEF Crash!CaptureFails, Crash!Leave
  <1>12. ASSUME Crash!Exit PROVE Crash!OfferIsOfLastCrash'
    BY <1>12 DEF Crash!Exit, Crash!Die
  <1>13. ASSUME Crash!OpenBugReport PROVE Crash!OfferIsOfLastCrash'
    <2>1. Crash!OpenInv /\ (first = "open" => Crash!WholeReport)
      BY <1>13 DEF Crash!OpenBugReport, Crash!OpenInv, Crash!FlagInv
    <2>2. PICK body \in Bodies :
            offer' = [report |-> Crash!FindLatestCrashReport, body |-> body,
                      kept |-> Crash!TrimBodyToUrlLimit(body).kept,
                      noted |-> Crash!TrimBodyToUrlLimit(body).noted]
      BY <1>13 DEF Crash!OpenBugReport
    <2>3. offer'.report = Crash!FindLatestCrashReport
      BY <2>2
    <2> QED
      BY <1>13, <2>1, <2>3, LatestReport, RuntimeAssumption DEF Crash!OpenBugReport
  <1>14. ASSUME Crash!StartGame PROVE Crash!OfferIsOfLastCrash'
    BY <1>14 DEF Crash!StartGame
  <1>15. CASE UNCHANGED crashVars
    BY <1>15 DEF crashVars
  <1> QED
    BY <1>1, <1>2, <1>3, <1>4, <1>5, <1>6, <1>7, <1>8, <1>9, <1>10, <1>11, <1>12, <1>13,
       <1>14, <1>15
       DEF Crash!Next

\* What the user is offered fits into the address.
LEMMA FeedbackStep == Crash!IInv /\ [Crash!Next]_crashVars => Crash!FeedbackFits'
  <1> SUFFICES ASSUME Crash!IInv, [Crash!Next]_crashVars PROVE Crash!FeedbackFits'
    OBVIOUS
  <1> USE DEF Crash!IInv, Crash!FeedbackFits
  <1>1. ASSUME Crash!InstallCrashCapture PROVE Crash!FeedbackFits'
    BY <1>1 DEF Crash!InstallCrashCapture
  <1>2. ASSUME NEW t \in Threads, Crash!LockState(t) PROVE Crash!FeedbackFits'
    BY <1>2 DEF Crash!LockState
  <1>3. ASSUME NEW t \in Threads, Crash!UnlockState(t) PROVE Crash!FeedbackFits'
    BY <1>3 DEF Crash!UnlockState
  <1>4. ASSUME NEW t \in Threads, Crash!VectoredCrashHandler(t) PROVE Crash!FeedbackFits'
    BY <1>4 DEF Crash!VectoredCrashHandler
  <1>5. ASSUME NEW t \in Threads, Crash!UnhandledCrashFilter(t) PROVE Crash!FeedbackFits'
    BY <1>5 DEF Crash!UnhandledCrashFilter
  <1>6. ASSUME NEW t \in Threads, Crash!TryBuildSnapshot(t) PROVE Crash!FeedbackFits'
    BY <1>6 DEF Crash!TryBuildSnapshot
  <1>7. ASSUME NEW t \in Threads, Crash!OpenReport(t) PROVE Crash!FeedbackFits'
    BY <1>7 DEF Crash!OpenReport
  <1>8. ASSUME NEW t \in Threads, Crash!FlushReport(t) PROVE Crash!FeedbackFits'
    BY <1>8 DEF Crash!FlushReport
  <1>9. ASSUME NEW t \in Threads, Crash!TryWriteMiniDump(t) PROVE Crash!FeedbackFits'
    BY <1>9 DEF Crash!TryWriteMiniDump
  <1>10. ASSUME NEW t \in Threads, Crash!TrySetCrashArtifacts(t) PROVE Crash!FeedbackFits'
    BY <1>10 DEF Crash!TrySetCrashArtifacts
  <1>11. ASSUME NEW t \in Threads, Crash!CaptureFails(t) PROVE Crash!FeedbackFits'
    BY <1>11 DEF Crash!CaptureFails
  <1>12. ASSUME Crash!Exit PROVE Crash!FeedbackFits'
    BY <1>12 DEF Crash!Exit
  <1>13. ASSUME Crash!OpenBugReport PROVE Crash!FeedbackFits'
    <2>1. PICK body \in Bodies :
            offer' = [report |-> Crash!FindLatestCrashReport, body |-> body,
                      kept |-> Crash!TrimBodyToUrlLimit(body).kept,
                      noted |-> Crash!TrimBodyToUrlLimit(body).noted]
      BY <1>13 DEF Crash!OpenBugReport
    <2>2. /\ offer'.body = body
          /\ offer'.kept = Crash!TrimBodyToUrlLimit(body).kept
          /\ offer'.noted = Crash!TrimBodyToUrlLimit(body).noted
      BY <2>1
    <2> QED
      BY <2>2, TrimmedFits
  <1>14. ASSUME Crash!StartGame PROVE Crash!FeedbackFits'
    <2>1. offer'.body = << >> /\ offer'.kept = 0 /\ offer'.noted = FALSE
      BY <1>14 DEF Crash!StartGame, Crash!NoOffer
    <2> QED
      BY <2>1, CostOfNothing, RuntimeAssumption, BodyAssumption
  <1>15. CASE UNCHANGED crashVars
    BY <1>15 DEF crashVars
  <1> QED
    BY <1>1, <1>2, <1>3, <1>4, <1>5, <1>6, <1>7, <1>8, <1>9, <1>10, <1>11, <1>12, <1>13,
       <1>14, <1>15
       DEF Crash!Next

\* The rest stays well typed.
LEMMA StateTypesStep == Crash!IInv /\ [Crash!Next]_crashVars => Crash!StateTypes'
  <1> SUFFICES ASSUME Crash!IInv, [Crash!Next]_crashVars PROVE Crash!StateTypes'
    OBVIOUS
  <1> USE RuntimeAssumption DEF Crash!IInv, Crash!TypeOK, Crash!StateTypes, Crash!Set
  <1>1. ASSUME Crash!InstallCrashCapture PROVE Crash!StateTypes'
    BY <1>1 DEF Crash!InstallCrashCapture
  <1>2. ASSUME NEW t \in Threads, Crash!LockState(t) PROVE Crash!StateTypes'
    BY <1>2 DEF Crash!LockState
  <1>3. ASSUME NEW t \in Threads, Crash!UnlockState(t) PROVE Crash!StateTypes'
    BY <1>3 DEF Crash!UnlockState
  <1>4. ASSUME NEW t \in Threads, Crash!VectoredCrashHandler(t) PROVE Crash!StateTypes'
    <2>1. started' \in BOOLEAN /\ first' \in {"none", "open", "missed", "handled", "broken", "killed"}
      BY <1>4 DEF Crash!VectoredCrashHandler, Crash!Capture
    <2>2. faults' \in 0..MaxFaults
      BY <1>4 DEF Crash!VectoredCrashHandler
    <2> QED
      BY <1>4, <2>1, <2>2 DEF Crash!VectoredCrashHandler
  <1>5. ASSUME NEW t \in Threads, Crash!UnhandledCrashFilter(t) PROVE Crash!StateTypes'
    BY <1>5 DEF Crash!UnhandledCrashFilter, Crash!Capture, Crash!Die
  <1>6. ASSUME NEW t \in Threads, Crash!TryBuildSnapshot(t) PROVE Crash!StateTypes'
    BY <1>6 DEF Crash!TryBuildSnapshot
  <1>7. ASSUME NEW t \in Threads, Crash!OpenReport(t) PROVE Crash!StateTypes'
    <2>1. Len(disk') = Len(disk) + 1 /\ Len(disk) \in Nat
      BY <1>7 DEF Crash!OpenReport, Crash!DiskTypes
    <2> QED
      BY <1>7, <2>1 DEF Crash!OpenReport
  <1>8. ASSUME NEW t \in Threads, Crash!FlushReport(t) PROVE Crash!StateTypes'
    <2>1. Len(disk') = Len(disk)
      BY <1>8 DEF Crash!FlushReport, Crash!DiskTypes
    <2> QED
      BY <1>8, <2>1 DEF Crash!FlushReport
  <1>9. ASSUME NEW t \in Threads, Crash!TryWriteMiniDump(t) PROVE Crash!StateTypes'
    <2>1. Len(disk') = Len(disk)
      BY <1>9 DEF Crash!TryWriteMiniDump, Crash!DiskTypes
    <2> QED
      BY <1>9, <2>1 DEF Crash!TryWriteMiniDump
  <1>10. ASSUME NEW t \in Threads, Crash!TrySetCrashArtifacts(t) PROVE Crash!StateTypes'
    <2>1. Len(disk) \in Nat
      BY DEF Crash!DiskTypes
    <2> QED
      BY <1>10, <2>1 DEF Crash!TrySetCrashArtifacts, Crash!Leave
  <1>11. ASSUME NEW t \in Threads, Crash!CaptureFails(t) PROVE Crash!StateTypes'
    BY <1>11 DEF Crash!CaptureFails, Crash!Leave
  <1>12. ASSUME Crash!Exit PROVE Crash!StateTypes'
    BY <1>12 DEF Crash!Exit, Crash!Die
  <1>13. ASSUME Crash!OpenBugReport PROVE Crash!StateTypes'
    <2>1. offer'.report = Crash!FindLatestCrashReport
      BY <1>13 DEF Crash!OpenBugReport
    <2> QED
      BY <1>13, <2>1, LatestReport DEF Crash!OpenBugReport
  <1>14. ASSUME Crash!StartGame PROVE Crash!StateTypes'
    <2>1. Len(disk) \in Nat
      BY DEF Crash!DiskTypes
    <2>2. runs' \in 1..MaxRuns
      BY <1>14 DEF Crash!StartGame
    <2>3. offer'.report = 0
      BY <1>14 DEF Crash!StartGame, Crash!NoOffer
    <2>4. named' \in 0..Len(disk') /\ faults' \in 0..MaxFaults /\ disk' = disk
      BY <1>14, <2>1 DEF Crash!StartGame
    <2>5. offer'.report \in 0..Len(disk')
      BY <2>1, <2>3, <2>4
    <2> QED
      BY <1>14, <2>2, <2>4, <2>5 DEF Crash!StartGame
  <1>15. CASE UNCHANGED crashVars
    BY <1>15 DEF crashVars
  <1> QED
    BY <1>1, <1>2, <1>3, <1>4, <1>5, <1>6, <1>7, <1>8, <1>9, <1>10, <1>11, <1>12, <1>13,
       <1>14, <1>15
       DEF Crash!Next

LEMMA CrashInvariant == Spec => []Crash!IInv
  <1>1. Init => Crash!IInv
    <2> SUFFICES ASSUME Crash!Init PROVE Crash!IInv
      BY DEF Init
    <2> USE RuntimeAssumption, BodyAssumption DEF Crash!Init
    <2>1. Crash!TypeOK
      <3>1. Crash!ThreadTypes
        BY DEF Crash!ThreadTypes, Crash!Running
      <3>2. Crash!DiskTypes
        BY DEF Crash!DiskTypes
      <3>3. Len(disk) = 0
        OBVIOUS
      <3>4. Crash!StateTypes
        <4>1. offer.report = 0
          BY DEF Crash!NoOffer
        <4>2. runs \in 1..MaxRuns /\ faults \in 0..MaxFaults
          OBVIOUS
        <4>3. named \in 0..Len(disk) /\ offer.report \in 0..Len(disk)
          BY <3>3, <4>1
        <4>4. process = "alive" /\ owner = Crash!Nobody /\ first = "none"
          OBVIOUS
        <4>5. installed \in BOOLEAN /\ started \in BOOLEAN
          OBVIOUS
        <4> HIDE DEF Crash!Init
        <4> QED
          BY <4>2, <4>3, <4>4, <4>5 DEF Crash!StateTypes
      <3> QED
        BY <3>1, <3>2, <3>4 DEF Crash!TypeOK
    <2>2. Crash!FlagInv /\ Crash!OfferInv
      BY DEF Crash!FlagInv, Crash!OfferInv, Crash!Capturing, Crash!Running
    <2>3. Crash!DiskInv
      BY DEF Crash!DiskInv, Crash!NoReportYet, Crash!Running
    <2>4. Crash!OpenInv /\ Crash!NamedDumpExists /\ Crash!OfferIsOfLastCrash
      BY DEF Crash!OpenInv, Crash!NamedDumpExists, Crash!OfferIsOfLastCrash
    <2>5. Crash!FeedbackFits
      BY CostOfNothing DEF Crash!FeedbackFits, Crash!NoOffer
    <2> QED
      BY <2>1, <2>2, <2>3, <2>4, <2>5 DEF Crash!IInv
  <1>2. Crash!IInv /\ [Next]_vars => Crash!IInv'
    <2>1. [Next]_vars => [Crash!Next]_crashVars
      BY DEF Next, vars, crashVars, SettingsStep, WindowStep, RefsStep, PipeStep, MemoryStep, FilesStep, CrashStep
    <2> QED
      BY <2>1, ThreadTypesStep, DiskTypesStep, StateTypesStep, FlagStep, DiskStep, OpenStep,
         NamedStep, OfferInvStep, OfferStep, FeedbackStep
         DEF Crash!IInv, Crash!TypeOK
  <1> QED
    BY <1>1, <1>2, PTL DEF Spec

\* The properties follow from the invariant.
LEMMA CrashConclusion == Crash!IInv => CrashHolds
  <1> SUFFICES ASSUME Crash!IInv PROVE CrashHolds
    OBVIOUS
  <1>1. Crash!CrashIsReported
    <2> SUFFICES ASSUME process = "dead", first \in {"open", "missed"} PROVE Crash!WholeReport
      BY DEF Crash!CrashIsReported, Crash!WholeReport
    <2> QED
      BY DEF Crash!IInv, Crash!FlagInv, Crash!OpenInv
  <1>2. Crash!OneCapture
    <2> DEFINE capturing == {t \in Threads : Crash!Capturing(t)}
    <2>1. capturing = {} \/ \E t \in capturing : capturing = {t}
      BY DEF Crash!IInv, Crash!FlagInv
    <2>2. Cardinality(capturing) <= 1
      <3> HIDE DEF capturing
      <3>1. CASE capturing = {}
        BY <3>1, FS_EmptySet
      <3>2. CASE \E t : capturing = {t}
        <4>1. PICK t : capturing = {t}
          BY <3>2
        <4>2. Cardinality({t}) = 1
          BY FS_Singleton
        <4> QED
          BY <4>1, <4>2
      <3> QED
        BY <2>1, <3>1, <3>2
    <2>3. ASSUME NEW i \in DOMAIN disk, NEW j \in DOMAIN disk, disk[i].run = disk[j].run
          PROVE  i = j
      <3>1. DOMAIN disk = 1..Len(disk) /\ Len(disk) \in Nat
        BY DEF Crash!IInv, Crash!TypeOK, Crash!DiskTypes
      <3>2. disk[i].run \in 1..MaxRuns
        BY RunsAreNumbers DEF Crash!IInv, Crash!TypeOK
      <3> QED
        BY <2>3, <3>1, <3>2, RuntimeAssumption DEF Crash!IInv, Crash!DiskInv
    <2> QED
      BY <2>2, <2>3, CrashCardinality DEF Crash!OneCapture
  <1> QED
    BY <1>1, <1>2 DEF CrashHolds, Crash!IInv

\* However many threads of the game crash, in whatever order and with whoever
\* holding the state's mutex: an exception nobody handled leaves one whole
\* report unless a handled one took the capture or the disk failed, the dump
\* the state names is there, and the next session of the launcher offers the
\* crash that just happened, as a text that fits into the address and ends
\* with a whole character.
THEOREM CrashIsCaptured == Spec => []CrashHolds
  BY CrashInvariant, CrashConclusion, PTL

-----------------------------------------------------------------------------
(* Settings.                                                               *)

\* A hook's settings among those of a file are a mode and an active mode.
LEMMA HookMapTypes ==
  ASSUME NEW f \in Settings!HookMaps
  PROVE  DOMAIN f \subseteq Settings!Hooks /\ \A h \in DOMAIN f : f[h] \in Settings!HookSettings
  BY DEF Settings!HookMaps, Settings!Catalog, Settings!Hooks

\* Some maps of hooks.
LEMMA HookMapCases ==
  /\ \A f \in [Settings!Hooks -> Settings!HookSettings] : f \in Settings!HookMaps
  /\ \A f \in [Settings!Catalog -> Settings!HookSettings] : f \in Settings!HookMaps
  /\ \A f \in [{} -> Settings!HookSettings] : f \in Settings!HookMaps
  /\ \A f \in [{"player", "present"} -> Settings!HookSettings] : f \in Settings!HookMaps
  BY DEF Settings!HookMaps

\* Preferences stay some when a field changes.
LEMMA PreferencesKeep ==
  ASSUME NEW s \in Settings!Preferences
  PROVE  /\ \A f \in Settings!HookMaps : [s EXCEPT !.hooks = f] \in Settings!Preferences
         /\ \A x \in {"csb", "cs"} : [s EXCEPT !.script = x] \in Settings!Preferences
         /\ \A x \in {"off", "x4"} : [s EXCEPT !.msaa = x] \in Settings!Preferences
         /\ \A x \in 0..MaxVolume : [s EXCEPT !.volume = x] \in Settings!Preferences
         /\ \A x \in BOOLEAN : [s EXCEPT !.pad = x] \in Settings!Preferences
         /\ \A x \in BOOLEAN : [s EXCEPT !.borderless = x] \in Settings!Preferences
  BY DEF Settings!Preferences

\* The built-in settings of a hook.
LEMMA DefaultHookType ==
  ASSUME NEW h \in Settings!Hooks
  PROVE  Settings!DefaultHook(h) \in Settings!HookSettings
  BY DEF Settings!Hooks, Settings!DefaultHook, Settings!DefaultMode, Settings!Preferred,
         Settings!HookSettings, Settings!Modes

LEMMA DefaultsType == Settings!Defaults \in Settings!Preferences
  <1>1. [h \in {} |-> Settings!DefaultHook(h)] \in Settings!HookMaps
    BY HookMapCases
  <1>2. 1 \in 0..MaxVolume
    BY SettingsAssumption DEF Settings!Defaults
  <1> QED
    BY <1>1, <1>2 DEF Settings!Defaults, Settings!Preferences

LEMMA EarlierType == Settings!Earlier \in Settings!Preferences
  <1> DEFINE f == [h \in {"player", "present"} |->
                    [mode |-> IF h = "present" THEN "mirror" ELSE "observe", active |-> "strict"]]
  <1>1. f \in Settings!HookMaps
    <2>1. f \in [{"player", "present"} -> Settings!HookSettings]
      BY DEF Settings!HookSettings, Settings!Modes
    <2> HIDE DEF f
    <2> QED
      BY <2>1, HookMapCases
  <1> HIDE DEF f
  <1>2. [[[Settings!Defaults EXCEPT !.script = "cs"] EXCEPT !.msaa = "x4"] EXCEPT !.hooks = f]
          \in Settings!Preferences
    BY <1>1, DefaultsType, PreferencesKeep
  <1>3. Settings!Earlier =
          [[[Settings!Defaults EXCEPT !.script = "cs"] EXCEPT !.msaa = "x4"] EXCEPT !.hooks = f]
    BY DEF Settings!Earlier, f, Settings!Defaults
  <1> QED
    BY <1>2, <1>3

\* The state before any preference is loaded.
LEMMA InventoryType == Settings!Inventory \in Settings!InForce
  <1> DEFINE f == [h \in Settings!Hooks |-> Settings!DefaultHook(h)]
  <1>1. f \in [Settings!Hooks -> Settings!HookSettings]
    BY DefaultHookType
  <1> HIDE DEF f
  <1>2. [Settings!Defaults EXCEPT !.hooks = f] \in Settings!Preferences
    BY <1>1, HookMapCases, DefaultsType, PreferencesKeep
  <1>3. [Settings!Defaults EXCEPT !.hooks = f].hooks = f
    BY DEF Settings!Defaults
  <1> QED
    BY <1>1, <1>2, <1>3 DEF Settings!Inventory, f, Settings!InForce

\* What a save that was cut leaves is a file.
LEMMA CutType ==
  ASSUME NEW s \in Settings!Preferences
  PROVE  /\ Settings!CutOf(s) \subseteq Settings!Files
         /\ Settings!Whole(s) \in Settings!Files
         /\ Settings!Empty \in Settings!Files /\ Settings!Absent \in Settings!Files
         /\ Settings!Unreadable \in Settings!Files
  <1>1. \A x \in Settings!Preferences : Settings!Whole(x) \in Settings!Files
    BY DEF Settings!Whole, Settings!Files
  <1>2. s.script \in {"csb", "cs"} /\ s.msaa \in {"off", "x4"}
    BY DEF Settings!Preferences
  <1>3. [[Settings!Defaults EXCEPT !.script = s.script] EXCEPT !.msaa = s.msaa] \in Settings!Preferences
    BY <1>2, DefaultsType, PreferencesKeep
  <1>4. [Settings!Defaults EXCEPT !.script = s.script, !.msaa = s.msaa] =
          [[Settings!Defaults EXCEPT !.script = s.script] EXCEPT !.msaa = s.msaa]
    BY DEF Settings!Defaults
  <1>5. Settings!Whole([Settings!Defaults EXCEPT !.script = s.script, !.msaa = s.msaa])
          \in Settings!Files
    BY <1>1, <1>3, <1>4
  <1>6. Settings!Unreadable \in Settings!Files
    BY DefaultsType DEF Settings!Unreadable, Settings!Files
  <1> QED
    BY <1>1, <1>5, <1>6, DefaultsType
       DEF Settings!CutOf, Settings!Empty, Settings!Absent, Settings!Files

\* What is loaded from a file are preferences.
LEMMA LoadType ==
  ASSUME NEW f \in Settings!Files PROVE Settings!Load(f) \in Settings!Preferences
  BY DefaultsType DEF Settings!Load, Settings!Files

\* A state in force has settings of every hook.
LEMMA InForceHooks ==
  ASSUME NEW s \in Settings!InForce
  PROVE  s.hooks \in [Settings!Hooks -> Settings!HookSettings]
  <1>1. s.hooks \in Settings!HookMaps
    BY DEF Settings!InForce, Settings!Preferences
  <1> QED
    BY <1>1 DEF Settings!InForce, Settings!HookMaps, Settings!Hooks, Settings!Catalog

\* And it stays in force with other ones.
LEMMA InForceKeep ==
  ASSUME NEW s \in Settings!InForce
  PROVE  /\ \A f \in [Settings!Hooks -> Settings!HookSettings] :
              [s EXCEPT !.hooks = f] \in Settings!InForce
         /\ \A x \in 0..MaxVolume : [s EXCEPT !.volume = x] \in Settings!InForce
  <1>1. s \in Settings!Preferences /\ DOMAIN s.hooks = Settings!Hooks
    BY DEF Settings!InForce
  <1>2. \A f \in [Settings!Hooks -> Settings!HookSettings] :
          [s EXCEPT !.hooks = f] \in Settings!Preferences /\ [s EXCEPT !.hooks = f].hooks = f
    BY <1>1, HookMapCases, PreferencesKeep DEF Settings!Preferences
  <1>3. \A x \in 0..MaxVolume :
          [s EXCEPT !.volume = x] \in Settings!Preferences
          /\ [s EXCEPT !.volume = x].hooks = s.hooks
    BY <1>1, PreferencesKeep DEF Settings!Preferences
  <1> QED
    BY <1>1, <1>2, <1>3 DEF Settings!InForce

\* A hook's mode is set in the state in force; the multisampling is asked for
\* by the present hook only.
LEMMA SetHookModeType ==
  ASSUME NEW s \in Settings!InForce, NEW h \in Settings!Hooks, NEW m \in Settings!Modes
  PROVE  /\ Settings!SetHookMode(s, h, m) \in Settings!InForce
         /\ h # "present" =>
              Settings!RequestedLevel(Settings!SetHookMode(s, h, m)) = Settings!RequestedLevel(s)
  <1>1. s.hooks \in [Settings!Hooks -> Settings!HookSettings]
    BY InForceHooks
  <1> DEFINE k == [mode |-> m, active |-> IF m # "observe" THEN m ELSE s.hooks[h].active]
             f == [s.hooks EXCEPT ![h] = k]
  <1>2. k \in Settings!HookSettings
    BY <1>1 DEF Settings!HookSettings
  <1>3. f \in [Settings!Hooks -> Settings!HookSettings]
    <2> HIDE DEF k
    <2> QED
      BY <1>1, <1>2
  <1>4. Settings!SetHookMode(s, h, m) = [s EXCEPT !.hooks = f]
    BY <1>1 DEF Settings!SetHookMode
  <1>5. Settings!SetHookMode(s, h, m) \in Settings!InForce
    <2> HIDE DEF f
    <2> QED
      BY <1>3, <1>4, InForceKeep
  <1>6. ASSUME h # "present"
        PROVE  Settings!RequestedLevel([s EXCEPT !.hooks = f]) = Settings!RequestedLevel(s)
    <2>1. f["present"] = s.hooks["present"]
      BY <1>1, <1>6
    <2> HIDE DEF f
    <2>2. [s EXCEPT !.hooks = f].hooks = f /\ [s EXCEPT !.hooks = f].msaa = s.msaa
      BY DEF Settings!InForce, Settings!Preferences
    <2> QED
      BY <2>1, <2>2 DEF Settings!RequestedLevel, Settings!Replaces
  <1> QED
    BY <1>4, <1>5, <1>6

\* Preferences that are loaded come into force.
LEMMA LoadPreferencesType ==
  ASSUME NEW st \in Settings!InForce, NEW s \in Settings!Preferences
  PROVE  Settings!LoadPreferences(st, s) \in Settings!InForce
  <1> DEFINE hook(h) == IF h \notin DOMAIN s.hooks THEN st
                        ELSE Settings!SetHookMode(
                               Settings!SetPreferred(st, h, s.hooks[h].active), h, s.hooks[h].mode)
             f == [h \in Settings!Hooks |-> hook(h).hooks[h]]
             hooked == [st EXCEPT !.hooks = f]
             padded == Settings!SetHookMode(hooked, "inputs", IF s.pad THEN "fallback" ELSE "observe")
  <1>1. st.hooks \in [Settings!Hooks -> Settings!HookSettings]
    BY InForceHooks
  <1>2. ASSUME NEW h \in DOMAIN s.hooks
        PROVE  h \in Settings!Hooks /\ s.hooks[h] \in Settings!HookSettings
    BY HookMapTypes DEF Settings!Preferences
  <1>3. ASSUME NEW h \in Settings!Hooks, NEW a \in Settings!Modes
        PROVE  Settings!SetPreferred(st, h, a) \in Settings!InForce
    <2> DEFINE k == [st.hooks[h] EXCEPT !.active = Settings!Preferred(a)]
               g == [st.hooks EXCEPT ![h] = k]
    <2>1. k \in Settings!HookSettings
      BY <1>1, <1>3 DEF Settings!HookSettings, Settings!Preferred, Settings!Modes
    <2>2. g \in [Settings!Hooks -> Settings!HookSettings]
      <3> HIDE DEF k
      <3> QED
        BY <1>1, <2>1
    <2>3. Settings!SetPreferred(st, h, a) = [st EXCEPT !.hooks = g]
      BY DEF Settings!SetPreferred
    <2> HIDE DEF g
    <2> QED
      BY <2>2, <2>3, InForceKeep
  <1>4. \A h \in Settings!Hooks : hook(h) \in Settings!InForce
    <2> SUFFICES ASSUME NEW h \in DOMAIN s.hooks
                 PROVE  Settings!SetHookMode(Settings!SetPreferred(st, h, s.hooks[h].active),
                                             h, s.hooks[h].mode) \in Settings!InForce
      OBVIOUS
    <2>1. s.hooks[h].active \in Settings!Modes /\ s.hooks[h].mode \in Settings!Modes
      BY <1>2 DEF Settings!HookSettings
    <2> QED
      BY <1>2, <1>3, <2>1, SetHookModeType
  <1>5. f \in [Settings!Hooks -> Settings!HookSettings]
    <2>1. \A h \in Settings!Hooks : hook(h).hooks \in [Settings!Hooks -> Settings!HookSettings]
      <3> HIDE DEF hook
      <3> QED
        BY <1>4, InForceHooks
    <2> HIDE DEF hook
    <2> QED
      BY <2>1
  <1>6. hooked \in Settings!InForce
    <2> HIDE DEF f
    <2> QED
      BY <1>5, InForceKeep
  <1>7. padded \in Settings!InForce
    <2>1. "inputs" \in Settings!Hooks /\ {"fallback", "observe"} \subseteq Settings!Modes
      BY DEF Settings!Hooks, Settings!Modes
    <2> HIDE DEF hooked
    <2> QED
      BY <1>6, <2>1, SetHookModeType
  <1>8. Settings!LoadPreferences(st, s) =
          [padded EXCEPT !.msaa = s.msaa, !.volume = s.volume, !.pad = s.pad,
                         !.borderless = s.borderless]
    BY DEF Settings!LoadPreferences
  <1> HIDE DEF padded
  <1>9. /\ s.msaa \in {"off", "x4"} /\ s.volume \in 0..MaxVolume
        /\ s.pad \in BOOLEAN /\ s.borderless \in BOOLEAN
    BY DEF Settings!Preferences
  <1> QED
    BY <1>7, <1>8, <1>9 DEF Settings!InForce, Settings!Preferences

\* What the launcher keeps: the catalog's hooks.
LEMMA NormalizeType ==
  ASSUME NEW s \in Settings!Preferences
  PROVE  Settings!Normalize(s) \in Settings!Preferences
  <1> DEFINE base == [h \in Settings!Catalog |->
                        IF h \in DOMAIN s.hooks THEN s.hooks[h] ELSE Settings!DefaultHook(h)]
             both(m) == [mode |-> m, active |-> m]
             present == IF s.borderless /\ base["present"].mode \in {"observe", "mirror"}
                        THEN both("fallback") ELSE base["present"]
             inputs == IF s.pad THEN both("fallback")
                       ELSE IF base["inputs"].mode # "observe"
                       THEN [mode |-> "observe", active |-> base["inputs"].mode]
                       ELSE base["inputs"]
  <1>1. base \in [Settings!Catalog -> Settings!HookSettings]
    <2>1. s.hooks \in Settings!HookMaps
      BY DEF Settings!Preferences
    <2>2. \A h \in DOMAIN s.hooks : s.hooks[h] \in Settings!HookSettings
      BY <2>1, HookMapTypes
    <2>3. \A h \in Settings!Catalog : Settings!DefaultHook(h) \in Settings!HookSettings
      BY DefaultHookType DEF Settings!Catalog
    <2> QED
      BY <2>2, <2>3
  <1>2. {"present", "inputs"} \subseteq Settings!Catalog
    BY DEF Settings!Catalog, Settings!Hooks
  <1> HIDE DEF base
  <1>3. present \in Settings!HookSettings
    BY <1>1, <1>2 DEF Settings!HookSettings, Settings!Modes
  <1>4. inputs \in Settings!HookSettings
    BY <1>1, <1>2 DEF Settings!HookSettings, Settings!Modes
  <1> HIDE DEF present, inputs
  <1>5. [base EXCEPT !["present"] = present, !["inputs"] = inputs] \in Settings!HookMaps
    <2>1. [base EXCEPT !["present"] = present, !["inputs"] = inputs]
            \in [Settings!Catalog -> Settings!HookSettings]
      BY <1>1, <1>3, <1>4
    <2> QED
      BY <2>1, HookMapCases
  <1>6. Settings!Normalize(s) =
          [s EXCEPT !.hooks = [base EXCEPT !["present"] = present, !["inputs"] = inputs]]
    BY DEF Settings!Normalize, base, present, inputs
  <1> QED
    BY <1>5, <1>6, PreferencesKeep

\* The widescreen preset changes modes only.
LEMMA WidescreenType ==
  ASSUME NEW s \in Settings!Preferences, NEW wide \in BOOLEAN
  PROVE  Settings!Widescreen(s, wide) \in Settings!Preferences
  <1> DEFINE turn(k) == IF wide
                        THEN LET m == IF k.active = "strict" THEN "strict" ELSE "fallback"
                             IN [mode |-> m, active |-> m]
                        ELSE [mode |-> "observe",
                              active |-> IF k.mode # "observe" THEN k.mode ELSE k.active]
             f == [h \in DOMAIN s.hooks |->
                     IF Settings!FollowsWidescreen(h) THEN turn(s.hooks[h]) ELSE s.hooks[h]]
  <1>1. s.hooks \in Settings!HookMaps
    BY DEF Settings!Preferences
  <1>2. \A k \in Settings!HookSettings : turn(k) \in Settings!HookSettings
    BY DEF Settings!HookSettings, Settings!Modes
  <1>3. Settings!Widescreen(s, wide) = [s EXCEPT !.hooks = f]
    BY DEF Settings!Widescreen
  <1> HIDE DEF turn
  <1>4. \A h \in DOMAIN s.hooks : f[h] \in Settings!HookSettings
    BY <1>1, <1>2, HookMapTypes
  <1>5. f = [h \in DOMAIN s.hooks |-> f[h]]
    OBVIOUS
  <1> HIDE DEF f
  <1>6. f \in [DOMAIN s.hooks -> Settings!HookSettings]
    BY <1>4, <1>5
  <1>7. f \in Settings!HookMaps
    BY <1>1, <1>6 DEF Settings!HookMaps
  <1> QED
    BY ZenonT(60), <1>3, <1>7, PreferencesKeep

\* The files stay files.
LEMMA FileTypesStep == Settings!IInv /\ [Settings!Next]_settingsVars => Settings!FileTypes'
  <1> SUFFICES ASSUME Settings!IInv, [Settings!Next]_settingsVars PROVE Settings!FileTypes'
    OBVIOUS
  <1> USE DEF Settings!gpuVars, Settings!IInv, Settings!TypeOK, Settings!FileTypes
  <1>1. ASSUME Settings!LauncherLoad PROVE Settings!FileTypes'
    BY <1>1 DEF Settings!LauncherLoad
  <1>2. ASSUME Settings!LauncherCloses PROVE Settings!FileTypes'
    BY <1>2 DEF Settings!LauncherCloses
  <1>3. ASSUME Settings!LauncherSave PROVE Settings!FileTypes'
    BY <1>3, CutType, DefaultsType DEF Settings!LauncherSave
  <1>4. ASSUME Settings!LauncherWrite PROVE Settings!FileTypes'
    <2>1. launcher.s \in Settings!Preferences
      BY DEF Settings!LauncherTypes
    <2>2. launcher.s.script \in {"csb", "cs"}
      BY <2>1 DEF Settings!Preferences
    <2> QED
      BY <1>4, <2>1, <2>2, CutType DEF Settings!LauncherWrite
  <1>5. ASSUME Settings!Bootstrap PROVE Settings!FileTypes'
    BY <1>5 DEF Settings!Bootstrap
  <1>6. ASSUME Settings!GameEnds PROVE Settings!FileTypes'
    <2>1. \A u \in Settings!Savers : Settings!CutOf(saver[u].out) \subseteq Settings!Files
      BY CutType DEF Settings!SaverTypes
    <2> QED
      BY <1>6, <2>1 DEF Settings!GameEnds
  <1>7. ASSUME NEW c \in Commands, Settings!ApplyHookModePreference(c[1], c[2]) PROVE Settings!FileTypes'
    BY <1>7 DEF Settings!ApplyHookModePreference
  <1>8. ASSUME NEW d \in {-1, 1}, Settings!VolumeHotkey(d) PROVE Settings!FileTypes'
    BY <1>8 DEF Settings!VolumeHotkey
  <1>9. ASSUME NEW t \in Settings!Savers, Settings!SaveLoad(t) PROVE Settings!FileTypes'
    BY <1>9 DEF Settings!SaveLoad
  <1>10. ASSUME NEW t \in Settings!Savers, Settings!SaveCollect(t) PROVE Settings!FileTypes'
    BY <1>10 DEF Settings!SaveCollect
  <1>11. ASSUME NEW t \in Settings!Savers, Settings!SaveOpen(t) PROVE Settings!FileTypes'
    BY <1>11, CutType, DefaultsType DEF Settings!SaveOpen
  <1>12. ASSUME NEW t \in Settings!Savers, Settings!SaveWrite(t) PROVE Settings!FileTypes'
    <2>1. saver[t].out \in Settings!Preferences
      BY DEF Settings!SaverTypes
    <2> QED
      BY <1>12, <2>1, CutType DEF Settings!SaveWrite
  <1>13. ASSUME Settings!ApplyHookModeLevel PROVE Settings!FileTypes'
    BY <1>13 DEF Settings!ApplyHookModeLevel
  <1>14. ASSUME Settings!PresentReads PROVE Settings!FileTypes'
    BY <1>14 DEF Settings!PresentReads
  <1>15. ASSUME Settings!PresentWrites PROVE Settings!FileTypes'
    BY <1>15 DEF Settings!PresentWrites
  <1>16. CASE UNCHANGED settingsVars
    BY <1>16 DEF settingsVars
  <1> QED
    BY <1>1, <1>2, <1>3, <1>4, <1>5, <1>6, <1>7, <1>8, <1>9, <1>10, <1>11, <1>12, <1>13,
       <1>14, <1>15, <1>16
       DEF Settings!Next

\* The preferences in force stay some.
LEMMA GameTypesStep == Settings!IInv /\ [Settings!Next]_settingsVars => Settings!GameTypes'
  <1> SUFFICES ASSUME Settings!IInv, [Settings!Next]_settingsVars PROVE Settings!GameTypes'
    OBVIOUS
  <1> USE DEF Settings!gpuVars, Settings!IInv, Settings!TypeOK, Settings!GameTypes
  <1>1. ASSUME Settings!LauncherLoad PROVE Settings!GameTypes'
    BY <1>1 DEF Settings!LauncherLoad
  <1>2. ASSUME Settings!LauncherCloses PROVE Settings!GameTypes'
    BY <1>2 DEF Settings!LauncherCloses
  <1>3. ASSUME Settings!LauncherSave PROVE Settings!GameTypes'
    BY <1>3 DEF Settings!LauncherSave
  <1>4. ASSUME Settings!LauncherWrite PROVE Settings!GameTypes'
    <2>1. /\ game' \in {"off", "boot", "on"} /\ rt' \in {rt, Settings!Inventory}
          /\ UNCHANGED <<presenting, stale>>
      BY <1>4 DEF Settings!LauncherWrite
    <2> QED
      BY <2>1, InventoryType
  <1>5. ASSUME Settings!Bootstrap PROVE Settings!GameTypes'
    <2> DEFINE source == IF file.kind = "none" /\ legacy.kind # "none" THEN legacy ELSE file
    <2>1. Settings!Load(source) \in Settings!Preferences
      BY LoadType DEF Settings!FileTypes
    <2>2. Settings!LoadPreferences(rt, Settings!Load(source)) \in Settings!InForce
      BY <2>1, LoadPreferencesType
    <2> QED
      BY <1>5, <2>2 DEF Settings!Bootstrap
  <1>6. ASSUME Settings!GameEnds PROVE Settings!GameTypes'
    BY <1>6, InventoryType DEF Settings!GameEnds, Settings!NoPresent
  <1>7. ASSUME NEW c \in Commands, Settings!ApplyHookModePreference(c[1], c[2]) PROVE Settings!GameTypes'
    <2>1. c[1] \in Settings!Hooks /\ c[2] \in Settings!Modes
      BY SettingsAssumption
    <2>2. Settings!SetHookMode(rt, c[1], c[2]) \in Settings!InForce
      BY <2>1, SetHookModeType
    <2> QED
      BY <1>7, <2>2 DEF Settings!ApplyHookModePreference
  <1>8. ASSUME NEW d \in {-1, 1}, Settings!VolumeHotkey(d) PROVE Settings!GameTypes'
    <2>1. rt.volume \in 0..MaxVolume
      BY DEF Settings!InForce, Settings!Preferences
    <2>2. Settings!StepVolume(rt.volume, d) \in 0..MaxVolume
      BY <2>1, SettingsAssumption DEF Settings!StepVolume
    <2>3. [rt EXCEPT !.volume = Settings!StepVolume(rt.volume, d)] \in Settings!InForce
      BY <2>2, InForceKeep
    <2> QED
      BY <1>8, <2>3 DEF Settings!VolumeHotkey
  <1>9. ASSUME NEW t \in Settings!Savers, Settings!SaveLoad(t) PROVE Settings!GameTypes'
    BY <1>9 DEF Settings!SaveLoad
  <1>10. ASSUME NEW t \in Settings!Savers, Settings!SaveCollect(t) PROVE Settings!GameTypes'
    BY <1>10 DEF Settings!SaveCollect
  <1>11. ASSUME NEW t \in Settings!Savers, Settings!SaveOpen(t) PROVE Settings!GameTypes'
    BY <1>11 DEF Settings!SaveOpen
  <1>12. ASSUME NEW t \in Settings!Savers, Settings!SaveWrite(t) PROVE Settings!GameTypes'
    BY <1>12 DEF Settings!SaveWrite
  <1>13. ASSUME Settings!ApplyHookModeLevel PROVE Settings!GameTypes'
    BY <1>13 DEF Settings!ApplyHookModeLevel
  <1>14. ASSUME Settings!PresentReads PROVE Settings!GameTypes'
    BY <1>14 DEF Settings!PresentReads, Settings!InForce, Settings!Preferences
  <1>15. ASSUME Settings!PresentWrites PROVE Settings!GameTypes'
    BY <1>15 DEF Settings!PresentWrites, Settings!NoPresent
  <1>16. CASE UNCHANGED settingsVars
    BY <1>16 DEF settingsVars
  <1> QED
    BY <1>1, <1>2, <1>3, <1>4, <1>5, <1>6, <1>7, <1>8, <1>9, <1>10, <1>11, <1>12, <1>13,
       <1>14, <1>15, <1>16
       DEF Settings!Next

\* What the launcher edits stays preferences.
LEMMA LauncherTypesStep == Settings!IInv /\ [Settings!Next]_settingsVars => Settings!LauncherTypes'
  <1> SUFFICES ASSUME Settings!IInv, [Settings!Next]_settingsVars PROVE Settings!LauncherTypes'
    OBVIOUS
  <1> USE DEF Settings!gpuVars, Settings!IInv, Settings!TypeOK, Settings!LauncherTypes,
         Settings!IdleLauncher
  <1>1. ASSUME Settings!LauncherLoad PROVE Settings!LauncherTypes'
    <2> DEFINE source == IF file.kind = "none" /\ legacy.kind # "none" THEN legacy ELSE file
               s == Settings!Widescreen(Settings!Normalize(Settings!Load(source)), FALSE)
    <2>1. Settings!Load(source) \in Settings!Preferences
      BY LoadType DEF Settings!FileTypes
    <2>2. s \in Settings!Preferences
      BY <2>1, NormalizeType, WidescreenType
    <2>3. launcher' = launcher \/ launcher' = [pc |-> "ui", s |-> s]
      BY <1>1 DEF Settings!LauncherLoad
    <2> HIDE DEF s
    <2> QED
      BY <2>2, <2>3
  <1>2. ASSUME Settings!LauncherCloses PROVE Settings!LauncherTypes'
    BY <1>2, DefaultsType DEF Settings!LauncherCloses
  <1>3. ASSUME Settings!LauncherSave PROVE Settings!LauncherTypes'
    <2>1. PICK e \in Edits :
            launcher' = [pc |-> "write",
                         s |-> Settings!Widescreen(
                                 Settings!Normalize([launcher.s EXCEPT !.pad = e[1]]), e[2])]
      BY <1>3 DEF Settings!LauncherSave
    <2>2. e[1] \in BOOLEAN /\ e[2] \in BOOLEAN
      BY SettingsAssumption
    <2>3. [launcher.s EXCEPT !.pad = e[1]] \in Settings!Preferences
      BY <2>2, PreferencesKeep
    <2>4. Settings!Widescreen(Settings!Normalize([launcher.s EXCEPT !.pad = e[1]]), e[2])
            \in Settings!Preferences
      BY <2>2, <2>3, NormalizeType, WidescreenType
    <2> QED
      BY <2>1, <2>4
  <1>4. ASSUME Settings!LauncherWrite PROVE Settings!LauncherTypes'
    BY <1>4, DefaultsType DEF Settings!LauncherWrite
  <1>5. ASSUME Settings!Bootstrap PROVE Settings!LauncherTypes'
    BY <1>5 DEF Settings!Bootstrap
  <1>6. ASSUME Settings!GameEnds PROVE Settings!LauncherTypes'
    BY <1>6 DEF Settings!GameEnds
  <1>7. ASSUME NEW c \in Commands, Settings!ApplyHookModePreference(c[1], c[2]) PROVE Settings!LauncherTypes'
    BY <1>7 DEF Settings!ApplyHookModePreference
  <1>8. ASSUME NEW d \in {-1, 1}, Settings!VolumeHotkey(d) PROVE Settings!LauncherTypes'
    BY <1>8 DEF Settings!VolumeHotkey
  <1>9. ASSUME NEW t \in Settings!Savers, Settings!SaveLoad(t) PROVE Settings!LauncherTypes'
    BY <1>9 DEF Settings!SaveLoad
  <1>10. ASSUME NEW t \in Settings!Savers, Settings!SaveCollect(t) PROVE Settings!LauncherTypes'
    BY <1>10 DEF Settings!SaveCollect
  <1>11. ASSUME NEW t \in Settings!Savers, Settings!SaveOpen(t) PROVE Settings!LauncherTypes'
    BY <1>11 DEF Settings!SaveOpen
  <1>12. ASSUME NEW t \in Settings!Savers, Settings!SaveWrite(t) PROVE Settings!LauncherTypes'
    BY <1>12 DEF Settings!SaveWrite
  <1>13. ASSUME Settings!ApplyHookModeLevel PROVE Settings!LauncherTypes'
    BY <1>13 DEF Settings!ApplyHookModeLevel
  <1>14. ASSUME Settings!PresentReads PROVE Settings!LauncherTypes'
    BY <1>14 DEF Settings!PresentReads
  <1>15. ASSUME Settings!PresentWrites PROVE Settings!LauncherTypes'
    BY <1>15 DEF Settings!PresentWrites
  <1>16. CASE UNCHANGED settingsVars
    BY <1>16 DEF settingsVars
  <1> QED
    BY <1>1, <1>2, <1>3, <1>4, <1>5, <1>6, <1>7, <1>8, <1>9, <1>10, <1>11, <1>12, <1>13,
       <1>14, <1>15, <1>16
       DEF Settings!Next

\* The saving threads stay well typed.
LEMMA SaverTypesStep == Settings!IInv /\ [Settings!Next]_settingsVars => Settings!SaverTypes'
  <1> SUFFICES ASSUME Settings!IInv, [Settings!Next]_settingsVars PROVE Settings!SaverTypes'
    OBVIOUS
  <1> USE DEF Settings!gpuVars, Settings!IInv, Settings!TypeOK, Settings!SaverTypes, Settings!IdleSaver
  <1>1. ASSUME Settings!LauncherLoad PROVE Settings!SaverTypes'
    BY <1>1 DEF Settings!LauncherLoad
  <1>2. ASSUME Settings!LauncherCloses PROVE Settings!SaverTypes'
    BY <1>2 DEF Settings!LauncherCloses
  <1>3. ASSUME Settings!LauncherSave PROVE Settings!SaverTypes'
    BY <1>3 DEF Settings!LauncherSave
  <1>4. ASSUME Settings!LauncherWrite PROVE Settings!SaverTypes'
    BY <1>4 DEF Settings!LauncherWrite
  <1>5. ASSUME Settings!Bootstrap PROVE Settings!SaverTypes'
    BY <1>5 DEF Settings!Bootstrap
  <1>6. ASSUME Settings!GameEnds PROVE Settings!SaverTypes'
    BY <1>6, DefaultsType DEF Settings!GameEnds
  <1>7. ASSUME NEW c \in Commands, Settings!ApplyHookModePreference(c[1], c[2]) PROVE Settings!SaverTypes'
    BY <1>7 DEF Settings!ApplyHookModePreference
  <1>8. ASSUME NEW d \in {-1, 1}, Settings!VolumeHotkey(d) PROVE Settings!SaverTypes'
    BY <1>8 DEF Settings!VolumeHotkey
  <1>9. ASSUME NEW t \in Settings!Savers, Settings!SaveLoad(t) PROVE Settings!SaverTypes'
    <2>1. Settings!Load(file).script \in {"csb", "cs"}
      BY LoadType DEF Settings!FileTypes, Settings!Preferences
    <2> QED
      BY <1>9, <2>1, DefaultsType DEF Settings!SaveLoad
  <1>10. ASSUME NEW t \in Settings!Savers, Settings!SaveCollect(t) PROVE Settings!SaverTypes'
    <2>1. Settings!Collected(rt, saver[t].script) \in Settings!Preferences
      <3>1. rt \in Settings!Preferences /\ saver[t].script \in {"csb", "cs"}
        BY DEF Settings!GameTypes, Settings!InForce
      <3> QED
        BY <3>1, PreferencesKeep DEF Settings!Collected
    <2> QED
      BY <1>10, <2>1 DEF Settings!SaveCollect
  <1>11. ASSUME NEW t \in Settings!Savers, Settings!SaveOpen(t) PROVE Settings!SaverTypes'
    BY <1>11, DefaultsType DEF Settings!SaveOpen
  <1>12. ASSUME NEW t \in Settings!Savers, Settings!SaveWrite(t) PROVE Settings!SaverTypes'
    BY <1>12, DefaultsType DEF Settings!SaveWrite
  <1>13. ASSUME Settings!ApplyHookModeLevel PROVE Settings!SaverTypes'
    BY <1>13 DEF Settings!ApplyHookModeLevel
  <1>14. ASSUME Settings!PresentReads PROVE Settings!SaverTypes'
    BY <1>14 DEF Settings!PresentReads
  <1>15. ASSUME Settings!PresentWrites PROVE Settings!SaverTypes'
    BY <1>15 DEF Settings!PresentWrites
  <1>16. CASE UNCHANGED settingsVars
    BY <1>16 DEF settingsVars
  <1> QED
    BY <1>1, <1>2, <1>3, <1>4, <1>5, <1>6, <1>7, <1>8, <1>9, <1>10, <1>11, <1>12, <1>13,
       <1>14, <1>15, <1>16
       DEF Settings!Next

\* The parts of the types the saves turn on.
LEMMA SettingsPcs ==
  ASSUME Settings!TypeOK
  PROVE  /\ game \in {"off", "boot", "on"} /\ launcher.pc \in {"off", "ui", "write"}
         /\ saver \in [Settings!Savers -> [pc : {"idle", "apply", "load", "collect", "open", "write"},
                                           script : {"csb", "cs"}, out : Settings!Preferences]]
  BY DEF Settings!TypeOK, Settings!GameTypes, Settings!LauncherTypes, Settings!SaverTypes

\* Nothing is asked of the renderer before the game has its preferences.
LEMMA BootStep == Settings!IInv /\ [Settings!Next]_settingsVars => Settings!BootInv'
  <1> SUFFICES ASSUME Settings!IInv, [Settings!Next]_settingsVars PROVE Settings!BootInv'
    OBVIOUS
  <1> USE DEF Settings!gpuVars, Settings!IInv, Settings!TypeOK, Settings!GameTypes, Settings!SaverTypes,
         Settings!BootInv, Settings!IdleSaver
  <1>1. ASSUME Settings!LauncherLoad PROVE Settings!BootInv'
    BY <1>1 DEF Settings!LauncherLoad
  <1>2. ASSUME Settings!LauncherCloses PROVE Settings!BootInv'
    BY <1>2 DEF Settings!LauncherCloses
  <1>3. ASSUME Settings!LauncherSave PROVE Settings!BootInv'
    BY <1>3 DEF Settings!LauncherSave
  <1>4. ASSUME Settings!LauncherWrite PROVE Settings!BootInv'
    BY <1>4 DEF Settings!LauncherWrite
  <1>5. ASSUME Settings!Bootstrap PROVE Settings!BootInv'
    BY <1>5 DEF Settings!Bootstrap
  <1>6. ASSUME Settings!GameEnds PROVE Settings!BootInv'
    BY <1>6 DEF Settings!GameEnds
  <1>7. ASSUME NEW c \in Commands, Settings!ApplyHookModePreference(c[1], c[2]) PROVE Settings!BootInv'
    BY <1>7 DEF Settings!ApplyHookModePreference
  <1>8. ASSUME NEW d \in {-1, 1}, Settings!VolumeHotkey(d) PROVE Settings!BootInv'
    BY <1>8 DEF Settings!VolumeHotkey
  <1>9. ASSUME NEW t \in Settings!Savers, Settings!SaveLoad(t) PROVE Settings!BootInv'
    BY <1>9 DEF Settings!SaveLoad
  <1>10. ASSUME NEW t \in Settings!Savers, Settings!SaveCollect(t) PROVE Settings!BootInv'
    BY <1>10 DEF Settings!SaveCollect
  <1>11. ASSUME NEW t \in Settings!Savers, Settings!SaveOpen(t) PROVE Settings!BootInv'
    BY <1>11 DEF Settings!SaveOpen
  <1>12. ASSUME NEW t \in Settings!Savers, Settings!SaveWrite(t) PROVE Settings!BootInv'
    BY <1>12 DEF Settings!SaveWrite
  <1>13. ASSUME Settings!ApplyHookModeLevel PROVE Settings!BootInv'
    BY <1>13 DEF Settings!ApplyHookModeLevel, Settings!Savers
  <1>14. ASSUME Settings!PresentReads PROVE Settings!BootInv'
    BY <1>14 DEF Settings!PresentReads
  <1>15. ASSUME Settings!PresentWrites PROVE Settings!BootInv'
    BY <1>15 DEF Settings!PresentWrites, Settings!NoPresent
  <1>16. CASE UNCHANGED settingsVars
    BY <1>16 DEF settingsVars
  <1> QED
    BY <1>1, <1>2, <1>3, <1>4, <1>5, <1>6, <1>7, <1>8, <1>9, <1>10, <1>11, <1>12, <1>13,
       <1>14, <1>15, <1>16
       DEF Settings!Next

\* As long as no save overlaps or fails, the one that is made carries what it
\* should.
LEMMA QuietStep == Settings!IInv /\ [Settings!Next]_settingsVars => Settings!QuietInv'
  <1> SUFFICES ASSUME Settings!IInv, [Settings!Next]_settingsVars PROVE Settings!QuietInv'
    OBVIOUS
  <1> USE SettingsPcs DEF Settings!gpuVars, Settings!IInv, Settings!BootInv, Settings!QuietInv,
         Settings!IdleSaver, Settings!IdleLauncher, Settings!Savers
  <1>1. ASSUME Settings!LauncherLoad PROVE Settings!QuietInv'
    BY <1>1 DEF Settings!LauncherLoad
  <1>2. ASSUME Settings!LauncherCloses PROVE Settings!QuietInv'
    BY <1>2 DEF Settings!LauncherCloses
  <1>3. ASSUME Settings!LauncherSave PROVE Settings!QuietInv'
    <2>1. PICK s : launcher' = [pc |-> "write", s |-> s]
      BY <1>3 DEF Settings!LauncherSave
    <2>2. game' = game /\ saver' = saver /\ (~overlap' => ~Settings!OthersSaving("launcher"))
      BY <1>3 DEF Settings!LauncherSave
    <2>3. ~overlap' => \A t \in Settings!Savers : saver'[t].pc = "idle"
      BY <2>2 DEF Settings!OthersSaving
    <2> QED
      BY <2>1, <2>3
  <1>4. ASSUME Settings!LauncherWrite PROVE Settings!QuietInv'
    <2>1. launcher'.pc = "off" /\ saver' = saver /\ launcher.pc = "write"
      BY <1>4 DEF Settings!LauncherWrite
    <2>2. CASE overlap'
      BY <2>2
    <2>3. CASE ~overlap' /\ game' # "off"
      <3>1. file' = Settings!Whole(launcher.s) /\ chosen' = launcher.s.script
            /\ overlap' = (overlap /\ game # "off")
        BY <1>4, <2>3, Zenon DEF Settings!LauncherWrite
      <3>2. ~(overlap /\ game # "off")
        BY <2>3, <3>1, Zenon
      <3>3. \A t \in Settings!Savers : saver[t].pc = "idle"
        BY <2>1, <3>2
      <3> QED
        BY <2>1, <3>1, <3>3 DEF Settings!Whole
    <2> QED
      BY <2>2, <2>3
  <1>5. ASSUME Settings!Bootstrap PROVE Settings!QuietInv'
    BY <1>5 DEF Settings!Bootstrap
  <1>6. ASSUME Settings!GameEnds PROVE Settings!QuietInv'
    BY <1>6 DEF Settings!GameEnds
  <1>7. ASSUME NEW c \in Commands, Settings!ApplyHookModePreference(c[1], c[2]) PROVE Settings!QuietInv'
    BY ZenonT(60), <1>7 DEF Settings!ApplyHookModePreference, Settings!OthersSaving, Settings!SetHookMode
  <1>8. ASSUME NEW d \in {-1, 1}, Settings!VolumeHotkey(d) PROVE Settings!QuietInv'
    BY <1>8 DEF Settings!VolumeHotkey, Settings!OthersSaving
  <1>9. ASSUME NEW t \in Settings!Savers, Settings!SaveLoad(t) PROVE Settings!QuietInv'
    BY <1>9 DEF Settings!SaveLoad, Settings!Loads, Settings!Load, Settings!OthersSaving
  <1>10. ASSUME NEW t \in Settings!Savers, Settings!SaveCollect(t) PROVE Settings!QuietInv'
    BY <1>10 DEF Settings!SaveCollect, Settings!Collected
  <1>11. ASSUME NEW t \in Settings!Savers, Settings!SaveOpen(t) PROVE Settings!QuietInv'
    BY <1>11 DEF Settings!SaveOpen, Settings!Empty
  <1>12. ASSUME NEW t \in Settings!Savers, Settings!SaveWrite(t) PROVE Settings!QuietInv'
    <2>1. saver' = [saver EXCEPT ![t] = Settings!IdleSaver] /\ UNCHANGED <<launcher, game, rt, chosen>>
      BY <1>12 DEF Settings!SaveWrite
    <2>2. ~overlap' => ~overlap /\ file' = Settings!Whole(saver[t].out) /\ saver[t].pc = "write"
      BY <1>12 DEF Settings!SaveWrite
    <2>3. [rt EXCEPT !.script = chosen].script = chosen
      BY DEF Settings!TypeOK, Settings!GameTypes, Settings!InForce, Settings!Preferences
    <2>4. (game # "off" /\ ~overlap') => file'.kind = "whole" /\ file'.v.script = chosen
      <3> SUFFICES ASSUME game # "off", ~overlap'
                   PROVE  file'.kind = "whole" /\ file'.v.script = chosen
        OBVIOUS
      <3>1. saver[t].out = [rt EXCEPT !.script = chosen]
        BY <2>2
      <3>2. file'.kind = "whole" /\ file'.v = saver[t].out
        BY <2>2 DEF Settings!Whole
      <3>3. file'.v.script = chosen
        BY <2>3, <3>1, <3>2, Zenon
      <3> QED
        BY <2>1, <3>2, <3>3
    <2>5. \A u \in Settings!Savers : (game # "off" /\ ~overlap') => saver'[u].pc = "idle"
      BY <2>1, <2>2
    <2> QED
      BY <2>1, <2>4, <2>5
  <1>13. ASSUME Settings!ApplyHookModeLevel PROVE Settings!QuietInv'
    BY <1>13 DEF Settings!ApplyHookModeLevel
  <1>14. ASSUME Settings!PresentReads PROVE Settings!QuietInv'
    BY <1>14 DEF Settings!PresentReads
  <1>15. ASSUME Settings!PresentWrites PROVE Settings!QuietInv'
    BY <1>15 DEF Settings!PresentWrites
  <1>16. CASE UNCHANGED settingsVars
    BY <1>16 DEF settingsVars
  <1> QED
    BY <1>1, <1>2, <1>3, <1>4, <1>5, <1>6, <1>7, <1>8, <1>9, <1>10, <1>11, <1>12, <1>13,
       <1>14, <1>15, <1>16
       DEF Settings!Next

\* And after it the file holds the state in force.
LEMMA QuietSaveStep == Settings!IInv /\ [Settings!Next]_settingsVars => Settings!QuietSaveIsWhole'
  <1> SUFFICES ASSUME Settings!IInv, [Settings!Next]_settingsVars PROVE Settings!QuietSaveIsWhole'
    OBVIOUS
  <1> USE SettingsPcs DEF Settings!gpuVars, Settings!IInv, Settings!BootInv, Settings!QuietInv,
         Settings!IdleSaver, Settings!IdleLauncher, Settings!Savers, Settings!QuietSaveIsWhole
  <1>1. ASSUME Settings!LauncherLoad PROVE Settings!QuietSaveIsWhole'
    BY <1>1 DEF Settings!LauncherLoad
  <1>2. ASSUME Settings!LauncherCloses PROVE Settings!QuietSaveIsWhole'
    BY <1>2 DEF Settings!LauncherCloses
  <1>3. ASSUME Settings!LauncherSave PROVE Settings!QuietSaveIsWhole'
    BY <1>3 DEF Settings!LauncherSave, Settings!OthersSaving
  <1>4. ASSUME Settings!LauncherWrite PROVE Settings!QuietSaveIsWhole'
    BY <1>4 DEF Settings!LauncherWrite, Settings!Whole
  <1>5. ASSUME Settings!Bootstrap PROVE Settings!QuietSaveIsWhole'
    BY <1>5 DEF Settings!Bootstrap
  <1>6. ASSUME Settings!GameEnds PROVE Settings!QuietSaveIsWhole'
    BY <1>6 DEF Settings!GameEnds
  <1>7. ASSUME NEW c \in Commands, Settings!ApplyHookModePreference(c[1], c[2]) PROVE Settings!QuietSaveIsWhole'
    BY <1>7 DEF Settings!ApplyHookModePreference
  <1>8. ASSUME NEW d \in {-1, 1}, Settings!VolumeHotkey(d) PROVE Settings!QuietSaveIsWhole'
    BY <1>8 DEF Settings!VolumeHotkey
  <1>9. ASSUME NEW t \in Settings!Savers, Settings!SaveLoad(t) PROVE Settings!QuietSaveIsWhole'
    BY <1>9 DEF Settings!SaveLoad
  <1>10. ASSUME NEW t \in Settings!Savers, Settings!SaveCollect(t) PROVE Settings!QuietSaveIsWhole'
    BY <1>10 DEF Settings!SaveCollect
  <1>11. ASSUME NEW t \in Settings!Savers, Settings!SaveOpen(t) PROVE Settings!QuietSaveIsWhole'
    BY <1>11 DEF Settings!SaveOpen, Settings!Empty
  <1>12. ASSUME NEW t \in Settings!Savers, Settings!SaveWrite(t) PROVE Settings!QuietSaveIsWhole'
    <2>1. UNCHANGED <<launcher, game, rt, chosen>>
      BY <1>12 DEF Settings!SaveWrite
    <2>2. ~overlap' => ~overlap /\ file' = Settings!Whole(saver[t].out) /\ saver[t].pc = "write"
      BY <1>12 DEF Settings!SaveWrite
    <2>3. (game = "on" /\ ~overlap') => saver[t].out = [rt EXCEPT !.script = chosen]
      BY <2>2
    <2> QED
      BY <2>1, <2>2, <2>3 DEF Settings!Whole
  <1>13. ASSUME Settings!ApplyHookModeLevel PROVE Settings!QuietSaveIsWhole'
    BY <1>13 DEF Settings!ApplyHookModeLevel
  <1>14. ASSUME Settings!PresentReads PROVE Settings!QuietSaveIsWhole'
    BY <1>14 DEF Settings!PresentReads
  <1>15. ASSUME Settings!PresentWrites PROVE Settings!QuietSaveIsWhole'
    BY <1>15 DEF Settings!PresentWrites
  <1>16. CASE UNCHANGED settingsVars
    BY <1>16 DEF settingsVars
  <1> QED
    BY <1>1, <1>2, <1>3, <1>4, <1>5, <1>6, <1>7, <1>8, <1>9, <1>10, <1>11, <1>12, <1>13,
       <1>14, <1>15, <1>16
       DEF Settings!Next

\* A call of the present hook that no command overtook has the level in force.
LEMMA PresentStep == Settings!IInv /\ [Settings!Next]_settingsVars => Settings!PresentInv'
  <1> SUFFICES ASSUME Settings!IInv, [Settings!Next]_settingsVars PROVE Settings!PresentInv'
    OBVIOUS
  <1> USE DEF Settings!gpuVars, Settings!IInv, Settings!TypeOK, Settings!GameTypes, Settings!BootInv,
         Settings!PresentInv
  <1>1. ASSUME Settings!LauncherLoad PROVE Settings!PresentInv'
    BY <1>1 DEF Settings!LauncherLoad
  <1>2. ASSUME Settings!LauncherCloses PROVE Settings!PresentInv'
    BY <1>2 DEF Settings!LauncherCloses
  <1>3. ASSUME Settings!LauncherSave PROVE Settings!PresentInv'
    BY <1>3 DEF Settings!LauncherSave
  <1>4. ASSUME Settings!LauncherWrite PROVE Settings!PresentInv'
    BY <1>4 DEF Settings!LauncherWrite, Settings!NoPresent
  <1>5. ASSUME Settings!Bootstrap PROVE Settings!PresentInv'
    BY <1>5 DEF Settings!Bootstrap, Settings!NoPresent
  <1>6. ASSUME Settings!GameEnds PROVE Settings!PresentInv'
    BY <1>6 DEF Settings!GameEnds, Settings!NoPresent
  <1>7. ASSUME NEW c \in Commands, Settings!ApplyHookModePreference(c[1], c[2]) PROVE Settings!PresentInv'
    <2>1. c[1] \in Settings!Hooks /\ c[2] \in Settings!Modes
      BY SettingsAssumption
    <2>2. c[1] # "present" => Settings!RequestedLevel(Settings!SetHookMode(rt, c[1], c[2]))
                                = Settings!RequestedLevel(rt)
      BY <2>1, SetHookModeType
    <2>3. /\ rt' = Settings!SetHookMode(rt, c[1], c[2])
          /\ presenting' = [presenting EXCEPT !.raced = @ \/ (c[1] = "present" /\ presenting.pc = "write")]
      BY <1>7 DEF Settings!ApplyHookModePreference
    <2>4. /\ presenting'.pc = presenting.pc /\ presenting'.level = presenting.level
          /\ presenting'.raced = (presenting.raced \/ (c[1] = "present" /\ presenting.pc = "write"))
      BY <2>3
    <2> QED
      BY <2>2, <2>3, <2>4
  <1>8. ASSUME NEW d \in {-1, 1}, Settings!VolumeHotkey(d) PROVE Settings!PresentInv'
    <2>1. \A v : [rt EXCEPT !.volume = v].hooks = rt.hooks /\ [rt EXCEPT !.volume = v].msaa = rt.msaa
      BY DEF Settings!InForce, Settings!Preferences
    <2> QED
      BY <1>8, <2>1 DEF Settings!VolumeHotkey, Settings!RequestedLevel
  <1>9. ASSUME NEW t \in Settings!Savers, Settings!SaveLoad(t) PROVE Settings!PresentInv'
    BY <1>9 DEF Settings!SaveLoad
  <1>10. ASSUME NEW t \in Settings!Savers, Settings!SaveCollect(t) PROVE Settings!PresentInv'
    BY <1>10 DEF Settings!SaveCollect
  <1>11. ASSUME NEW t \in Settings!Savers, Settings!SaveOpen(t) PROVE Settings!PresentInv'
    BY <1>11 DEF Settings!SaveOpen
  <1>12. ASSUME NEW t \in Settings!Savers, Settings!SaveWrite(t) PROVE Settings!PresentInv'
    BY <1>12 DEF Settings!SaveWrite
  <1>13. ASSUME Settings!ApplyHookModeLevel PROVE Settings!PresentInv'
    BY <1>13 DEF Settings!ApplyHookModeLevel
  <1>14. ASSUME Settings!PresentReads PROVE Settings!PresentInv'
    BY <1>14 DEF Settings!PresentReads, Settings!RequestedLevel
  <1>15. ASSUME Settings!PresentWrites PROVE Settings!PresentInv'
    BY <1>15 DEF Settings!PresentWrites, Settings!NoPresent
  <1>16. CASE UNCHANGED settingsVars
    BY <1>16 DEF settingsVars
  <1> QED
    BY <1>1, <1>2, <1>3, <1>4, <1>5, <1>6, <1>7, <1>8, <1>9, <1>10, <1>11, <1>12, <1>13,
       <1>14, <1>15, <1>16
       DEF Settings!Next

\* The multisampling is asked for again whenever the present hook changes.
LEMMA MsaaStep == Settings!IInv /\ [Settings!Next]_settingsVars => Settings!MsaaFollowsHook'
  <1> SUFFICES ASSUME Settings!IInv, [Settings!Next]_settingsVars PROVE Settings!MsaaFollowsHook'
    OBVIOUS
  <1> USE DEF Settings!gpuVars, Settings!IInv, Settings!TypeOK, Settings!GameTypes, Settings!BootInv,
         Settings!MsaaFollowsHook
  <1>1. ASSUME Settings!LauncherLoad PROVE Settings!MsaaFollowsHook'
    BY <1>1 DEF Settings!LauncherLoad
  <1>2. ASSUME Settings!LauncherCloses PROVE Settings!MsaaFollowsHook'
    BY <1>2 DEF Settings!LauncherCloses
  <1>3. ASSUME Settings!LauncherSave PROVE Settings!MsaaFollowsHook'
    BY <1>3 DEF Settings!LauncherSave
  <1>4. ASSUME Settings!LauncherWrite PROVE Settings!MsaaFollowsHook'
    BY <1>4 DEF Settings!LauncherWrite
  <1>5. ASSUME Settings!Bootstrap PROVE Settings!MsaaFollowsHook'
    <2>1. Settings!RequestedLevel(Settings!Inventory) = "off"
      BY DEF Settings!RequestedLevel, Settings!Inventory, Settings!Defaults, Settings!DefaultHook,
             Settings!DefaultMode, Settings!Hooks
    <2>2. rt = Settings!Inventory /\ gpu = "off"
      BY <1>5 DEF Settings!Bootstrap
    <2>3. gpu' = Settings!RequestedLevel(rt)' \/ (UNCHANGED <<rt, gpu>>)
      BY <1>5 DEF Settings!Bootstrap
    <2>4. Settings!RequestedLevel(rt)' = Settings!RequestedLevel(rt')
      OBVIOUS
    <2> QED
      BY <2>1, <2>2, <2>3, <2>4
  <1>6. ASSUME Settings!GameEnds PROVE Settings!MsaaFollowsHook'
    BY <1>6 DEF Settings!GameEnds
  <1>7. ASSUME NEW c \in Commands, Settings!ApplyHookModePreference(c[1], c[2]) PROVE Settings!MsaaFollowsHook'
    <2>1. c[1] \in Settings!Hooks /\ c[2] \in Settings!Modes
      BY SettingsAssumption
    <2>2. c[1] # "present" => Settings!RequestedLevel(Settings!SetHookMode(rt, c[1], c[2]))
                                = Settings!RequestedLevel(rt)
      BY <2>1, SetHookModeType
    <2>3. /\ saver' = [saver EXCEPT !["ipc"].pc = IF c[1] = "present" THEN "apply" ELSE "load"]
          /\ rt' = Settings!SetHookMode(rt, c[1], c[2]) /\ saver["ipc"].pc = "idle"
          /\ UNCHANGED <<game, gpu, stale>>
      BY <1>7 DEF Settings!ApplyHookModePreference
    <2>4. c[1] = "present" => saver'["ipc"].pc = "apply"
      BY <2>3 DEF Settings!SaverTypes, Settings!Savers
    <2>5. CASE c[1] = "present"
      BY <2>4, <2>5
    <2>6. CASE c[1] # "present"
      <3>1. Settings!RequestedLevel(rt') = Settings!RequestedLevel(rt)
        BY <2>2, <2>3, <2>6
      <3> QED
        BY <2>3, <3>1
    <2> QED
      BY <2>5, <2>6
  <1>8. ASSUME NEW d \in {-1, 1}, Settings!VolumeHotkey(d) PROVE Settings!MsaaFollowsHook'
    <2>1. \A v : [rt EXCEPT !.volume = v].hooks = rt.hooks /\ [rt EXCEPT !.volume = v].msaa = rt.msaa
      BY DEF Settings!InForce, Settings!Preferences
    <2> QED
      BY <1>8, <2>1 DEF Settings!VolumeHotkey, Settings!RequestedLevel, Settings!Replaces,
             Settings!SaverTypes, Settings!Savers
  <1>9. ASSUME NEW t \in Settings!Savers, Settings!SaveLoad(t) PROVE Settings!MsaaFollowsHook'
    BY <1>9 DEF Settings!SaveLoad, Settings!SaverTypes, Settings!Savers, Settings!IdleSaver
  <1>10. ASSUME NEW t \in Settings!Savers, Settings!SaveCollect(t) PROVE Settings!MsaaFollowsHook'
    BY <1>10 DEF Settings!SaveCollect, Settings!SaverTypes, Settings!Savers, Settings!IdleSaver
  <1>11. ASSUME NEW t \in Settings!Savers, Settings!SaveOpen(t) PROVE Settings!MsaaFollowsHook'
    BY <1>11 DEF Settings!SaveOpen, Settings!SaverTypes, Settings!Savers, Settings!IdleSaver
  <1>12. ASSUME NEW t \in Settings!Savers, Settings!SaveWrite(t) PROVE Settings!MsaaFollowsHook'
    BY <1>12 DEF Settings!SaveWrite, Settings!SaverTypes, Settings!Savers, Settings!IdleSaver
  <1>13. ASSUME Settings!ApplyHookModeLevel PROVE Settings!MsaaFollowsHook'
    BY <1>13 DEF Settings!ApplyHookModeLevel, Settings!AfterHookMode, Settings!RequestedLevel,
             Settings!Replaces
  <1>14. ASSUME Settings!PresentReads PROVE Settings!MsaaFollowsHook'
    BY <1>14 DEF Settings!PresentReads
  <1>15. ASSUME Settings!PresentWrites PROVE Settings!MsaaFollowsHook'
    <2>1. /\ game' = game /\ rt' = rt /\ gpu' = presenting.level /\ stale' = presenting.raced
          /\ presenting.pc = "write"
      BY <1>15 DEF Settings!PresentWrites
    <2>2. ~stale' => gpu' = Settings!RequestedLevel(rt)
      BY <2>1 DEF Settings!PresentInv
    <2>3. Settings!RequestedLevel(rt)' = Settings!RequestedLevel(rt)
      BY <2>1
    <2> QED
      BY <2>2, <2>3
  <1>16. CASE UNCHANGED settingsVars
    BY <1>16 DEF settingsVars
  <1> QED
    BY <1>1, <1>2, <1>3, <1>4, <1>5, <1>6, <1>7, <1>8, <1>9, <1>10, <1>11, <1>12, <1>13,
       <1>14, <1>15, <1>16
       DEF Settings!Next

\* All of it holds at the start and stays.
LEMMA SettingsInvariant == Spec => []Settings!IInv
  <1>1. Init => Settings!IInv
    <2> SUFFICES ASSUME Init PROVE Settings!IInv
      OBVIOUS
    <2>1. Settings!Init
      BY DEF Init
    <2>2. Settings!TypeOK
      BY <2>1, CutType, EarlierType, DefaultsType, InventoryType
         DEF Settings!Init, Settings!TypeOK, Settings!FileTypes, Settings!GameTypes,
             Settings!LauncherTypes, Settings!SaverTypes, Settings!IdleLauncher, Settings!IdleSaver,
             Settings!NoPresent
    <2> QED
      BY <2>1, <2>2 DEF Settings!IInv, Settings!Init, Settings!BootInv, Settings!QuietInv,
         Settings!QuietSaveIsWhole, Settings!MsaaFollowsHook, Settings!PresentInv,
         Settings!IdleSaver, Settings!NoPresent
  <1>2. [Next]_vars => [Settings!Next]_settingsVars
    BY DEF Next, SettingsStep, WindowStep, RefsStep, PipeStep, MemoryStep, FilesStep, CrashStep, vars
  <1>3. Settings!IInv /\ [Settings!Next]_settingsVars => Settings!IInv'
    <2> SUFFICES ASSUME Settings!IInv, [Settings!Next]_settingsVars PROVE Settings!IInv'
      OBVIOUS
    <2>1. Settings!TypeOK'
      BY FileTypesStep, GameTypesStep, LauncherTypesStep, SaverTypesStep DEF Settings!TypeOK
    <2> QED
      BY <2>1, BootStep, QuietStep, QuietSaveStep, PresentStep, MsaaStep DEF Settings!IInv
  <1> QED
    BY <1>1, <1>2, <1>3, PTL DEF Spec

\* Saves that neither overlap nor fail leave the state in force in the file, with
\* the script mode the launcher chose, and the renderer's multisampling follows
\* the present hook but for a call of it that a command overtook
\* (runtime_preferences.cpp:34-130, d3d9_quality_hooks.cpp:175-210).
THEOREM SettingsAreKept == Spec => []SettingsHold
  <1>1. Settings!IInv => SettingsHold
    BY DEF Settings!IInv, SettingsHold
  <1> QED
    BY <1>1, SettingsInvariant, PTL

-----------------------------------------------------------------------------
-----------------------------------------------------------------------------
(* The text of a request.                                                  *)

\* What a character becomes, and whether an escape starts at a place.
CodeOf(ch) == IF Pipe!Plain(ch) THEN <<ch>> ELSE <<Pipe!Percent, ch \div 3, ch % 3>>
EscapeAt(w, j) == /\ w[j] = Pipe!Percent /\ j + 2 <= Len(w)
                  /\ Pipe!Nibble(w[j + 1]) >= 0 /\ Pipe!Nibble(w[j + 2]) >= 0

\* The two functions the conversions compute, place by place.
EscapeStep(text, e, i) == IF i = 0 THEN << >> ELSE e[i - 1] \o CodeOf(text[i])
IsEscape(text, e) == e = [i \in 0..Len(text) |-> EscapeStep(text, e, i)]
UnescapeStep(w, u, j) ==
  IF j > Len(w) THEN << >>
  ELSE IF EscapeAt(w, j) THEN <<w[j + 1] * 3 + w[j + 2]>> \o u[j + 3]
  ELSE <<w[j]>> \o u[j + 1]
IsUnescape(w, u) == u = [j \in 1..(Len(w) + 3) |-> UnescapeStep(w, u, j)]

\* The conversions are these functions' values.
LEMMA EscapeUnfolds ==
  \A text : Pipe!EscapeProtocolToken(text) = (CHOOSE e : IsEscape(text, e))[Len(text)]
  BY Zenon DEF Pipe!EscapeProtocolToken, IsEscape, EscapeStep, CodeOf

LEMMA UnescapeUnfolds ==
  \A w : Pipe!UnescapeProtocolToken(w) = (CHOOSE u : IsUnescape(w, u))[1]
  BY Zenon DEF Pipe!UnescapeProtocolToken, IsUnescape, UnescapeStep, EscapeAt

\* They exist: each value needs the one before it,
LEMMA EscapeExists ==
  ASSUME NEW text \in Seq(0..6) PROVE \E e : IsEscape(text, e)
  <1> DEFINE n == Len(text)
             Upto(e, m) == \A i \in 0..n : i <= m => e[i] = EscapeStep(text, e, i)
             S == {m \in Nat : \E e : DOMAIN e = 0..n /\ Upto(e, m)}
  <1>1. n \in Nat
    OBVIOUS
  <1> HIDE DEF n
  <1>2. 0 \in S
    <2>1. Upto([i \in 0..n |-> << >>], 0)
      BY <1>1, SMTT(40) DEF EscapeStep
    <2> QED
      BY <2>1
  <1>3. ASSUME NEW m \in Nat, m \in S PROVE m + 1 \in S
    <2>1. PICK e : DOMAIN e = 0..n /\ Upto(e, m)
      BY <1>3
    <2> DEFINE f == [i \in 0..n |-> IF i = m + 1 THEN e[m] \o CodeOf(text[m + 1]) ELSE e[i]]
    <2>2. \A i \in 0..n : i # m + 1 => f[i] = e[i]
      OBVIOUS
    <2>3. m + 1 \in 0..n => f[m + 1] = e[m] \o CodeOf(text[m + 1])
      OBVIOUS
    <2>4. DOMAIN f = 0..n
      OBVIOUS
    <2> HIDE DEF f
    <2>5. Upto(f, m + 1)
      <3> SUFFICES ASSUME NEW i \in 0..n, i <= m + 1 PROVE f[i] = EscapeStep(text, f, i)
        OBVIOUS
      <3>1. CASE i = m + 1
        <4>1. i # 0 /\ i - 1 = m /\ m \in 0..n /\ m # m + 1
          BY <1>1, <3>1
        <4>2. f[m] = e[m]
          BY <2>2, <4>1
        <4> QED
          BY <2>3, <3>1, <4>1, <4>2 DEF EscapeStep
      <3>2. CASE i <= m
        <4>1. e[i] = EscapeStep(text, e, i) /\ f[i] = e[i]
          BY <2>1, <2>2, <3>2
        <4>2. i # 0 => f[i - 1] = e[i - 1]
          BY <1>1, <2>2, <3>2
        <4> QED
          BY <4>1, <4>2 DEF EscapeStep
      <3> QED
        BY <3>1, <3>2
    <2> HIDE DEF Upto
    <2> QED
      BY <2>4, <2>5
  <1>4. n \in S
    <2> HIDE DEF S
    <2> QED
      BY <1>1, <1>2, <1>3, SetInduction
  <1>5. PICK e : DOMAIN e = 0..n /\ Upto(e, n)
    BY <1>4
  <1>6. \A i \in 0..n : e[i] = EscapeStep(text, e, i)
    BY <1>1, <1>5
  <1> DEFINE h == [i \in 0..n |-> EscapeStep(text, e, i)]
  <1>7. \A i \in 0..n : h[i] = e[i]
    BY <1>6
  <1>8. \A i \in 0..n : EscapeStep(text, h, i) = EscapeStep(text, e, i)
    <2> HIDE DEF h
    <2>1. \A i \in 0..n : i # 0 => h[i - 1] = e[i - 1]
      BY <1>1, <1>7
    <2> QED
      BY <2>1 DEF EscapeStep
  <1>9. h = [i \in 0..n |-> EscapeStep(text, h, i)]
    <2>1. [i \in 0..n |-> EscapeStep(text, h, i)] = [i \in 0..n |-> EscapeStep(text, e, i)]
      <3> HIDE DEF h
      <3> QED
        BY <1>8
    <2> QED
      BY <2>1
  <1> HIDE DEF h
  <1> QED
    BY <1>9 DEF IsEscape, n

\* and each needs one or the other further on.
LEMMA UnescapeExists ==
  ASSUME NEW w \in Seq(0..6) PROVE \E u : IsUnescape(w, u)
  <1> DEFINE n == Len(w)
             From(u, m) == \A j \in 1..(n + 3) : j > n - m => u[j] = UnescapeStep(w, u, j)
             S == {m \in Nat : \E u : From(u, m)}
  <1>1. n \in Nat
    OBVIOUS
  <1>2. 0 \in S
    <2>1. From([j \in 1..(n + 3) |-> << >>], 0)
      BY <1>1 DEF UnescapeStep
    <2> QED
      BY <2>1
  <1>3. ASSUME NEW m \in Nat, m \in S PROVE m + 1 \in S
    <2>1. PICK u : From(u, m)
      BY <1>3
    <2> DEFINE k == n - m
               v == [j \in 1..(n + 3) |-> IF j = k THEN UnescapeStep(w, u, k) ELSE u[j]]
    <2>2. \A j \in 1..(n + 3) : v[j] = IF j = k THEN UnescapeStep(w, u, k) ELSE u[j]
      OBVIOUS
    <2> HIDE DEF v
    <2>3. \A j \in 1..(n + 3) : j >= k => UnescapeStep(w, v, j) = UnescapeStep(w, u, j)
      <3> SUFFICES ASSUME NEW j \in 1..(n + 3), j >= k, j <= n
                   PROVE  v[j + 1] = u[j + 1] /\ v[j + 3] = u[j + 3]
        BY <1>1 DEF UnescapeStep
      <3> QED
        BY <1>1, <2>2
    <2>4. From(v, m + 1)
      <3> SUFFICES ASSUME NEW j \in 1..(n + 3), j > n - (m + 1) PROVE v[j] = UnescapeStep(w, v, j)
        OBVIOUS
      <3>1. j >= k
        BY <1>1
      <3>2. v[j] = UnescapeStep(w, u, j)
        BY <1>1, <2>1, <2>2, <3>1
      <3> QED
        BY <2>3, <3>1, <3>2
    <2> QED
      BY <2>4
  <1>4. n \in S
    <2> HIDE DEF S, n
    <2> QED
      BY <1>1, <1>2, <1>3, SetInduction
  <1>5. PICK u : From(u, n)
    BY <1>4
  <1>6. \A j \in 1..(n + 3) : u[j] = UnescapeStep(w, u, j)
    BY <1>1, <1>5
  <1> DEFINE h == [j \in 1..(n + 3) |-> UnescapeStep(w, u, j)]
  <1>7. \A j \in 1..(n + 3) : h[j] = u[j]
    BY <1>6
  <1>8. \A j \in 1..(n + 3) : UnescapeStep(w, h, j) = UnescapeStep(w, u, j)
    <2> HIDE DEF h
    <2>1. \A j \in 1..(n + 3) : j <= n => h[j + 1] = u[j + 1] /\ h[j + 3] = u[j + 3]
      BY <1>1, <1>7
    <2> QED
      BY <1>1, <2>1 DEF UnescapeStep
  <1>9. h = [j \in 1..(n + 3) |-> UnescapeStep(w, h, j)]
    <2>1. [j \in 1..(n + 3) |-> UnescapeStep(w, h, j)] = [j \in 1..(n + 3) |-> UnescapeStep(w, u, j)]
      <3> HIDE DEF h
      <3> QED
        BY <1>8
    <2> QED
      BY <2>1
  <1> HIDE DEF h
  <1> QED
    BY <1>9 DEF IsUnescape

\* The code of a character is itself, or a percent sign and two digits.
LEMMA CodeFacts ==
  ASSUME NEW ch \in 0..6
  PROVE  /\ CodeOf(ch) \in Seq((0..6) \ {Pipe!Space, Pipe!Equals})
         /\ \/ ch # Pipe!Percent /\ CodeOf(ch) = <<ch>>
            \/ \E d, m \in 0..2 : CodeOf(ch) = <<Pipe!Percent, d, m>> /\ d * 3 + m = ch
  <1>1. CASE Pipe!Plain(ch)
    BY <1>1 DEF CodeOf, Pipe!Plain, Pipe!Percent, Pipe!Space, Pipe!Equals
  <1>2. CASE ~Pipe!Plain(ch)
    <2> DEFINE q == ch \div 3
               r == ch % 3
    <2>1. q \in 0..2 /\ r \in 0..2 /\ q * 3 + r = ch
      <3>1. ch \in {3, 4, 5}
        BY <1>2 DEF Pipe!Plain, Pipe!Percent, Pipe!Space, Pipe!Equals
      <3>2. 3 \div 3 = 1 /\ 4 \div 3 = 1 /\ 5 \div 3 = 1
        OBVIOUS
      <3>3. 3 % 3 = 0 /\ 4 % 3 = 1 /\ 5 % 3 = 2
        OBVIOUS
      <3>4. CASE ch = 3
        <4>1. q = 1 /\ r = 0
          BY <3>2, <3>3, <3>4, Zenon
        <4> HIDE DEF q, r
        <4> QED
          BY <3>4, <4>1
      <3>5. CASE ch = 4
        <4>1. q = 1 /\ r = 1
          BY <3>2, <3>3, <3>5, Zenon
        <4> HIDE DEF q, r
        <4> QED
          BY <3>5, <4>1
      <3>6. CASE ch = 5
        <4>1. q = 1 /\ r = 2
          BY <3>2, <3>3, <3>6, Zenon
        <4> HIDE DEF q, r
        <4> QED
          BY <3>6, <4>1
      <3> QED
        BY <3>1, <3>4, <3>5, <3>6
    <2>2. CodeOf(ch) = <<Pipe!Percent, q, r>>
      BY <1>2 DEF CodeOf
    <2>3. \A d, m \in 0..2 : <<Pipe!Percent, d, m>> \in Seq((0..6) \ {Pipe!Space, Pipe!Equals})
      BY DEF Pipe!Percent, Pipe!Space, Pipe!Equals
    <2> HIDE DEF q, r
    <2> QED
      BY <2>1, <2>2, <2>3
  <1> QED
    BY <1>1, <1>2

\* A sequence is the beginning of another one.
Begins(s, t) == Len(s) <= Len(t) /\ \A j \in 1..Len(s) : t[j] = s[j]

\* What is escaped up to a character is a beginning of what is escaped in the
\* end, the character's code comes next, and no space or equals sign is in it.
LEMMA EscapeFacts ==
  ASSUME NEW text \in Seq(0..6), NEW e, IsEscape(text, e)
  PROVE  /\ e[0] = << >>
         /\ \A i \in 0..Len(text) : e[i] \in Seq((0..6) \ {Pipe!Space, Pipe!Equals})
         /\ \A i \in 1..Len(text) : e[i] = e[i - 1] \o CodeOf(text[i])
         /\ \A i \in 0..Len(text) : Begins(e[i], e[Len(text)])
  <1> DEFINE n == Len(text)
             V == (0..6) \ {Pipe!Space, Pipe!Equals}
             In(m) == m <= n => e[m] \in Seq(V)
             S == {m \in Nat : In(m)}
  <1>1. n \in Nat
    OBVIOUS
  <1>2. \A i \in 0..n : e[i] = EscapeStep(text, e, i)
    BY DEF IsEscape
  <1>3. e[0] = << >>
    BY <1>1, <1>2 DEF EscapeStep
  <1>4. ASSUME NEW i \in 1..n PROVE e[i] = e[i - 1] \o CodeOf(text[i])
    <2>1. i \in 0..n /\ i # 0
      BY <1>1
    <2>2. e[i] = EscapeStep(text, e, i)
      BY <1>2, <2>1
    <2> QED
      BY <2>1, <2>2 DEF EscapeStep
  <1>5. ASSUME NEW i \in 1..n PROVE CodeOf(text[i]) \in Seq(V)
    <2>1. text[i] \in 0..6
      OBVIOUS
    <2> QED
      BY <2>1, CodeFacts
  <1> HIDE DEF n, V
  <1>6. 0 \in S
    <2>1. << >> \in Seq(V)
      OBVIOUS
    <2> QED
      BY <1>3, <2>1
  <1>7. ASSUME NEW m \in Nat, m \in S PROVE m + 1 \in S
    <2> SUFFICES ASSUME m + 1 <= n PROVE e[m + 1] \in Seq(V)
      OBVIOUS
    <2>1. m + 1 \in 1..n /\ (m + 1) - 1 = m /\ m <= n
      BY <1>1
    <2>2. e[m + 1] = e[m] \o CodeOf(text[m + 1])
      BY <1>4, <2>1
    <2>3. e[m] \in Seq(V) /\ CodeOf(text[m + 1]) \in Seq(V)
      BY <1>5, <1>7, <2>1
    <2> QED
      BY <2>2, <2>3
  <1>8. \A i \in 0..n : e[i] \in Seq(V)
    <2>1. \A m \in Nat : m \in S
      <3> HIDE DEF S
      <3> QED
        BY <1>6, <1>7, SetInduction
    <2> QED
      BY <1>1, <2>1
  <1> DEFINE B == {m \in Nat : m <= n => \A i \in 0..m : Begins(e[i], e[m])}
  <1>9. 0 \in B
    BY <1>8, <1>1 DEF Begins
  <1>10. ASSUME NEW m \in Nat, m \in B PROVE m + 1 \in B
    <2> SUFFICES ASSUME m + 1 <= n, NEW i \in 0..(m + 1) PROVE Begins(e[i], e[m + 1])
      OBVIOUS
    <2>1. m + 1 \in 1..n /\ (m + 1) - 1 = m /\ m \in 0..n /\ i \in 0..n
      BY <1>1
    <2>2. e[m + 1] = e[m] \o CodeOf(text[m + 1])
      BY <1>4, <2>1
    <2>3. /\ e[m] \in Seq(V) /\ CodeOf(text[m + 1]) \in Seq(V)
          /\ e[m + 1] \in Seq(V) /\ e[i] \in Seq(V)
      BY <1>5, <1>8, <2>1
    <2>4. Begins(e[m], e[m + 1])
      <3> DEFINE a == e[m]
                 b == CodeOf(text[m + 1])
      <3>1. a \in Seq(V) /\ b \in Seq(V)
        BY <2>3
      <3> HIDE DEF a, b
      <3>2. Len(a) <= Len(a \o b) /\ \A j \in 1..Len(a) : (a \o b)[j] = a[j]
        BY <3>1
      <3> QED
        BY <2>2, <3>2 DEF Begins, a, b
    <2>5. CASE i = m + 1
      BY <2>3, <2>5 DEF Begins
    <2>6. CASE i \in 0..m
      <3>1. Begins(e[i], e[m])
        BY <1>10, <2>1, <2>6
      <3>2. Len(e[i]) \in Nat /\ Len(e[m]) \in Nat /\ Len(e[m + 1]) \in Nat
        BY <2>3
      <3> QED
        BY <2>4, <3>1, <3>2 DEF Begins
    <2> QED
      BY <2>5, <2>6
  <1>11. n \in B
    <2> HIDE DEF B
    <2> QED
      BY <1>1, <1>9, <1>10, SetInduction
  <1>12. \A i \in 0..n : Begins(e[i], e[n])
    BY <1>1, <1>11
  <1> QED
    BY <1>3, <1>4, <1>8, <1>12, Zenon DEF n, V

\* Where the elements of a sequence are once it is appended to another.
LEMMA Concatenated ==
  ASSUME NEW V, NEW s \in Seq(V), NEW w \in Seq(V)
  PROVE  /\ Len(s) \in Nat /\ Len(s \o w) = Len(s) + Len(w)
         /\ \A k \in 1..Len(w) : (s \o w)[Len(s) + k] = w[k]
  OBVIOUS

\* What three more elements are, and where.
LEMMA ThreeMore ==
  ASSUME NEW V, NEW s \in Seq(V), NEW x \in V, NEW y \in V, NEW z \in V,
         NEW t, t = s \o <<x, y, z>>
  PROVE  Len(t) = Len(s) + 3 /\ t[Len(s) + 1] = x /\ t[Len(s) + 2] = y /\ t[Len(s) + 3] = z
  <1>1. PICK w \in Seq(V) : w = <<x, y, z>> /\ Len(w) = 3 /\ w[1] = x /\ w[2] = y /\ w[3] = z
    <2>1. <<x, y, z>> \in Seq(V)
      OBVIOUS
    <2>2. Len(<<x, y, z>>) = 3 /\ <<x, y, z>>[1] = x /\ <<x, y, z>>[2] = y /\ <<x, y, z>>[3] = z
      OBVIOUS
    <2> QED
      BY <2>1, <2>2, Zenon
  <1>2. Len(s \o w) = Len(s) + 3 /\ \A k \in 1..3 : (s \o w)[Len(s) + k] = w[k]
    BY <1>1, Concatenated
  <1>3. 1 \in 1..3 /\ 2 \in 1..3 /\ 3 \in 1..3
    OBVIOUS
  <1> QED
    BY <1>1, <1>2, <1>3, Zenon

\* The last characters, one more.
LEMMA OneMore ==
  ASSUME NEW s \in Seq(0..6), NEW i \in 1..Len(s)
  PROVE  <<s[i]>> \o SubSeq(s, i + 1, Len(s)) = SubSeq(s, i, Len(s))
  OBVIOUS

\* A text comes back from its escape.
LEMMA UnescapeEscape ==
  ASSUME NEW text \in Seq(0..6)
  PROVE  /\ Pipe!EscapeProtocolToken(text) \in Seq((0..6) \ {Pipe!Space, Pipe!Equals})
         /\ Pipe!UnescapeProtocolToken(Pipe!EscapeProtocolToken(text)) = text
  <1> DEFINE n == Len(text)
             e == CHOOSE e : IsEscape(text, e)
             w == Pipe!EscapeProtocolToken(text)
             u == CHOOSE u : IsUnescape(w, u)
             V == (0..6) \ {Pipe!Space, Pipe!Equals}
  <1>1. IsEscape(text, e)
    BY EscapeExists
  <1>2. w = e[n]
    BY EscapeUnfolds
  <1> HIDE DEF e, w
  <1>3. n \in Nat /\ e[0] = << >>
    <2>1. e[0] = << >>
      BY <1>1, EscapeFacts
    <2> QED
      BY <2>1
  <1>4. \A i \in 0..n : e[i] \in Seq(V)
    BY <1>1, EscapeFacts
  <1>5. \A i \in 1..n : e[i] = e[i - 1] \o CodeOf(text[i])
    BY <1>1, EscapeFacts
  <1>6. \A i \in 0..n : Len(e[i]) <= Len(w) /\ \A j \in 1..Len(e[i]) : w[j] = e[i][j]
    <2>1. \A i \in 0..n : Begins(e[i], e[n])
      BY <1>1, EscapeFacts
    <2> QED
      BY <1>2, <2>1, Zenon DEF Begins
  <1>7. w \in Seq(V) /\ w \in Seq(0..6)
    <2>1. w \in Seq(V)
      BY <1>2, <1>3, <1>4
    <2>2. w \in Seq(0..6)
      BY <2>1
    <2> QED
      BY <2>1, <2>2
  <1>8. IsUnescape(w, u)
    BY <1>7, UnescapeExists
  <1>9. Pipe!UnescapeProtocolToken(w) = u[1]
    BY UnescapeUnfolds
  <1> HIDE DEF u
  <1>10. \A j \in 1..(Len(w) + 3) : u[j] = UnescapeStep(w, u, j)
    BY <1>8 DEF IsUnescape
  <1> DEFINE S == {k \in Nat : k <= n => u[Len(e[n - k]) + 1] = SubSeq(text, (n - k) + 1, n)}
  <1>11. 0 \in S
    <2>1. Len(w) + 1 \in 1..(Len(w) + 3) /\ Len(w) + 1 > Len(w)
      BY <1>7
    <2>2. u[Len(w) + 1] = << >>
      BY <1>10, <2>1 DEF UnescapeStep
    <2>3. SubSeq(text, n + 1, n) = << >>
      BY <1>3
    <2>4. n - 0 = n
      BY <1>3
    <2> QED
      BY <1>2, <2>2, <2>3, <2>4
  <1>12. ASSUME NEW k \in Nat, k \in S PROVE k + 1 \in S
    <2> SUFFICES ASSUME k + 1 <= n
                 PROVE  u[Len(e[n - (k + 1)]) + 1] = SubSeq(text, (n - (k + 1)) + 1, n)
      OBVIOUS
    <2> DEFINE i == n - k
               p == Len(e[i - 1])
    <2>1. /\ i \in 1..n /\ i \in 0..n /\ i - 1 \in 0..n
          /\ n - (k + 1) = i - 1 /\ (n - (k + 1)) + 1 = i
      BY <1>3
    <2>2. u[Len(e[i]) + 1] = SubSeq(text, i + 1, n)
      BY <1>3, <1>12
    <2> HIDE DEF i
    <2>3. e[i] = e[i - 1] \o CodeOf(text[i]) /\ e[i - 1] \in Seq(V) /\ text[i] \in 0..6
      <3>1. text[i] \in 0..6
        BY <2>1
      <3> QED
        BY <1>4, <1>5, <2>1, <3>1
    <2>4. Len(e[i]) <= Len(w) /\ \A j \in 1..Len(e[i]) : w[j] = e[i][j]
      BY <1>6, <2>1
    <2>5. p \in Nat /\ Len(w) \in Nat
      BY <1>7, <2>3
    <2>6. SubSeq(text, i, n) = <<text[i]>> \o SubSeq(text, i + 1, n)
      BY <2>1, OneMore
    <2>7. CASE text[i] # Pipe!Percent /\ CodeOf(text[i]) = <<text[i]>>
      <3>1. Len(e[i]) = p + 1 /\ w[p + 1] = text[i]
        <4>1. Len(e[i]) = p + 1 /\ e[i][p + 1] = text[i]
          BY <2>3, <2>7
        <4> QED
          BY SMTT(40), <2>4, <2>5, <4>1
      <3>2. u[p + 1] = UnescapeStep(w, u, p + 1) /\ p + 1 <= Len(w)
        BY <1>10, <2>4, <2>5, <3>1
      <3>3. u[p + 1] = <<text[i]>> \o u[(p + 1) + 1]
        BY SMTT(40), <2>5, <2>7, <3>1, <3>2 DEF UnescapeStep, EscapeAt
      <3> QED
        BY <2>1, <2>2, <2>6, <3>1, <3>3
    <2>8. ASSUME NEW d \in 0..2, NEW m \in 0..2, CodeOf(text[i]) = <<Pipe!Percent, d, m>>, d * 3 + m = text[i]
          PROVE  u[p + 1] = SubSeq(text, i, n)
      <3>1. /\ Len(e[i]) = p + 3
            /\ w[p + 1] = Pipe!Percent /\ w[p + 2] = d /\ w[p + 3] = m
        <4>1. /\ Len(e[i]) = p + 3
              /\ e[i][p + 1] = Pipe!Percent /\ e[i][p + 2] = d /\ e[i][p + 3] = m
          <5>1. d \in V /\ m \in V /\ Pipe!Percent \in V
            BY <2>8 DEF V, Pipe!Percent, Pipe!Space, Pipe!Equals
          <5>2. e[i - 1] \in Seq(V) /\ e[i] = e[i - 1] \o <<Pipe!Percent, d, m>>
            BY <2>3, <2>8, Zenon
          <5> QED
            BY <5>1, <5>2, ThreeMore
        <4>2. \A j \in {p + 1, p + 2, p + 3} : j \in 1..Len(e[i])
          BY SMTT(40), <2>5, <4>1
        <4> HIDE DEF p
        <4>3. \A j \in {p + 1, p + 2, p + 3} : w[j] = e[i][j]
          BY <2>4, <4>2
        <4> QED
          BY <4>1, <4>3
      <3>2. u[p + 1] = UnescapeStep(w, u, p + 1) /\ p + 3 <= Len(w)
        BY <1>10, <2>4, <2>5, <3>1
      <3>3. /\ (p + 1) + 1 = p + 2 /\ (p + 1) + 2 = p + 3 /\ (p + 1) + 3 = p + 4
            /\ ~(p + 1 > Len(w))
        BY <2>5, <3>2
      <3>4. EscapeAt(w, p + 1)
        BY SMTT(40), <2>5, <3>1, <3>2, <3>3 DEF EscapeAt, Pipe!Nibble
      <3>5. u[p + 1] = <<d * 3 + m>> \o u[p + 4]
        BY <3>1, <3>2, <3>3, <3>4 DEF UnescapeStep
      <3>6. Len(e[i]) + 1 = p + 4
        BY <2>5, <3>1
      <3> QED
        BY <2>2, <2>6, <2>8, <3>5, <3>6
    <2> QED
      BY <2>1, <2>3, <2>7, <2>8, CodeFacts
  <1>13. n \in S
    <2> HIDE DEF S
    <2> QED
      BY <1>3, <1>11, <1>12, SetInduction
  <1>14. u[1] = text
    <2>1. n - n = 0 /\ Len(e[0]) + 1 = 1 /\ (n - n) + 1 = 1
      BY <1>3
    <2>2. u[1] = SubSeq(text, 1, n)
      BY <1>3, <1>13, <2>1
    <2> QED
      BY <2>2
  <1> QED
    BY <1>7, <1>9, <1>14 DEF w

\* A line without its first two characters.
LEMMA SkipTwo ==
  ASSUME NEW s \in Seq(0..6),
         NEW a \in 0..6, NEW b \in 0..6, NEW c \in 0..6, NEW d \in 0..6
  PROVE  SubSeq(<<a, b, c, d>> \o s, 2 + 1, Len(s) + 4) = <<c, d>> \o s
  OBVIOUS

\* And from the line that carries it.
LEMMA ParseFormat ==
  ASSUME NEW text \in Seq(0..6) PROVE Pipe!ParseText(Pipe!Format(text)) = text
  <1> DEFINE W == Pipe!EscapeProtocolToken(text)
             wire == Pipe!Format(text)
             token == <<Pipe!Letter, Pipe!Equals>> \o W
  <1>1. W \in Seq((0..6) \ {Pipe!Space, Pipe!Equals}) /\ Pipe!UnescapeProtocolToken(W) = text
    BY UnescapeEscape
  <1>2. wire = <<Pipe!Letter, Pipe!Space, Pipe!Letter, Pipe!Equals>> \o W
    BY DEF Pipe!Format
  <1> HIDE DEF W, wire
  <1>3. W \in Seq(0..6) /\ \A j \in 1..Len(W) : W[j] # Pipe!Space /\ W[j] # Pipe!Equals
    BY <1>1
  <1>4. /\ wire \in Seq(0..6) /\ Len(wire) = Len(W) + 4 /\ Len(W) \in Nat
        /\ wire[1] # Pipe!Space /\ wire[2] = Pipe!Space
        /\ \A j \in 3..Len(wire) : wire[j] # Pipe!Space
    BY <1>2, <1>3 DEF Pipe!Letter, Pipe!Space, Pipe!Equals
  <1>5. (CHOOSE i \in DOMAIN wire : wire[i] = Pipe!Space /\ \A j \in 1..(i - 1) : wire[j] # Pipe!Space) = 2
    <2>1. DOMAIN wire = 1..Len(wire) /\ Len(wire) >= 4
      BY <1>4
    <2>2. 2 \in DOMAIN wire /\ \A j \in 1..(2 - 1) : wire[j] # Pipe!Space
      BY <1>4, <2>1
    <2>3. \A i \in DOMAIN wire : wire[i] = Pipe!Space => i = 2
      BY <1>4, <2>1
    <2> QED
      BY <1>4, <2>2, <2>3
  <1>6. {i \in (2 + 1)..Len(wire) : wire[i] = Pipe!Space} = {}
    BY <1>4
  <1>7. Pipe!Token(wire) = SubSeq(wire, 2 + 1, Len(wire))
    BY <1>5, <1>6 DEF Pipe!Token
  <1>8. Pipe!Token(wire) = token
    <2>1. Pipe!Letter \in 0..6 /\ Pipe!Space \in 0..6 /\ Pipe!Equals \in 0..6
      BY DEF Pipe!Letter, Pipe!Space, Pipe!Equals
    <2>2. SubSeq(<<Pipe!Letter, Pipe!Space, Pipe!Letter, Pipe!Equals>> \o W, 2 + 1, Len(W) + 4) = token
      BY <1>3 DEF Pipe!Letter, Pipe!Space, Pipe!Equals
    <2> QED
      BY <1>2, <1>4, <1>7, <2>2
  <1>9. /\ token \in Seq(0..6) /\ Len(token) = Len(W) + 2
        /\ token[1] # Pipe!Equals /\ token[2] = Pipe!Equals
        /\ \A j \in 3..Len(token) : token[j] # Pipe!Equals
    BY <1>3 DEF Pipe!Letter, Pipe!Equals
  <1>10. SubSeq(token, 2 + 1, Len(token)) = W
    BY <1>3, <1>9
  <1> HIDE DEF token
  <1>11. (CHOOSE i \in DOMAIN token : token[i] = Pipe!Equals /\ \A j \in 1..(i - 1) : token[j] # Pipe!Equals) = 2
    <2>1. DOMAIN token = 1..Len(token) /\ Len(token) >= 2
      BY <1>4, <1>9
    <2>2. 2 \in DOMAIN token /\ \A j \in 1..(2 - 1) : token[j] # Pipe!Equals
      BY <1>9, <2>1
    <2>3. \A i \in DOMAIN token : token[i] = Pipe!Equals => i = 2
      BY <1>9, <2>1
    <2> QED
      BY <1>9, <2>2, <2>3
  <1>12. Pipe!ParseText(wire) = Pipe!UnescapeProtocolToken(SubSeq(token, 2 + 1, Len(token)))
    BY <1>8, <1>11 DEF Pipe!ParseText
  <1> QED
    BY <1>1, <1>10, <1>12 DEF wire
-----------------------------------------------------------------------------
(* Control pipe.                                                           *)

\* No request at all, the others and those with an argument.
LEMMA NoRequestType == Pipe!NoRequest \in Pipe!AllRequests /\ Pipe!NoRequest.kind = "none"
  BY DEF Pipe!NoRequest, Pipe!AllRequests, Pipe!Kinds

LEMMA RequestType ==
  ASSUME NEW k \in Pipe!Kinds
  PROVE  Pipe!Request(k) \in Pipe!AllRequests /\ Pipe!Request(k).kind = k
  BY NoRequestType DEF Pipe!Request, Pipe!AllRequests

LEMMA RequestKeeps ==
  ASSUME NEW r \in Pipe!AllRequests
  PROVE  /\ \A n \in Nat : [r EXCEPT !.count = n] \in Pipe!AllRequests
                           /\ [r EXCEPT !.count = n].kind = r.kind
         /\ \A t \in Seq(0..Pipe!Letter) : [r EXCEPT !.text = t] \in Pipe!AllRequests
                           /\ [r EXCEPT !.text = t].kind = r.kind /\ [r EXCEPT !.text = t].text = t
  BY DEF Pipe!AllRequests

\* The requests of a key.
LEMMA KeyRequestType ==
  ASSUME NEW down \in BOOLEAN
  PROVE  /\ Pipe!KeyRequest(down) \in Pipe!AllRequests
         /\ Pipe!KeyRequest(down).kind = "simulate_key"
         /\ Pipe!KeyRequest(down).key = down
  BY NoRequestType DEF Pipe!KeyRequest, Pipe!AllRequests, Pipe!Kinds

\* A command is one of these, and asks for what the client was told.
LEMMA CommandCases ==
  ASSUME NEW c \in Clients, Pipe!Command(c)
  PROVE  \E op \in {"type", "press", "hold", "wait-hook", "wait-paliv", "wait-event", "shutdown"},
            r \in Pipe!AllRequests :
           Pipe!Begin(c, op, r) /\ (r.kind = "type_text" => r.text \in Texts)
  <1> USE PipeAssumption
  <1>1. ASSUME NEW t \in Texts, Pipe!Begin(c, "type", [Pipe!Request("type_text") EXCEPT !.text = t])
        PROVE  \E op \in {"type"}, r \in Pipe!AllRequests :
                 Pipe!Begin(c, op, r) /\ (r.kind = "type_text" => r.text \in Texts)
    <2> DEFINE r == [Pipe!Request("type_text") EXCEPT !.text = t]
    <2>1. r \in Pipe!AllRequests /\ r.text \in Texts
      BY RequestType, RequestKeeps DEF Pipe!Kinds
    <2> HIDE DEF r
    <2> QED
      BY <1>1, <2>1 DEF r
  <1>2. ASSUME NEW op \in {"press", "hold"}, Pipe!Begin(c, op, Pipe!KeyRequest(TRUE))
        PROVE  \E r \in Pipe!AllRequests :
                 Pipe!Begin(c, op, r) /\ (r.kind = "type_text" => r.text \in Texts)
    <2>1. /\ Pipe!KeyRequest(TRUE) \in Pipe!AllRequests
          /\ Pipe!KeyRequest(TRUE).kind # "type_text"
      BY KeyRequestType
    <2> QED
      BY <1>2, <2>1
  <1>3. ASSUME NEW n \in 1..MaxCalls,
               Pipe!Begin(c, "wait-hook", [Pipe!Request("wait_for_hook_calls") EXCEPT !.count = n])
        PROVE  \E r \in Pipe!AllRequests :
                 Pipe!Begin(c, "wait-hook", r) /\ (r.kind = "type_text" => r.text \in Texts)
    <2> DEFINE r == [Pipe!Request("wait_for_hook_calls") EXCEPT !.count = n]
    <2>1. r \in Pipe!AllRequests /\ r.kind # "type_text"
      BY RequestType, RequestKeeps DEF Pipe!Kinds
    <2> HIDE DEF r
    <2> QED
      BY <1>3, <2>1 DEF r
  <1>4. ASSUME Pipe!Begin(c, "wait-paliv", [Pipe!Request("wait_for_paliv_state") EXCEPT !.count = 1])
        PROVE  \E r \in Pipe!AllRequests :
                 Pipe!Begin(c, "wait-paliv", r) /\ (r.kind = "type_text" => r.text \in Texts)
    <2> DEFINE r == [Pipe!Request("wait_for_paliv_state") EXCEPT !.count = 1]
    <2>1. r \in Pipe!AllRequests /\ r.kind # "type_text"
      BY RequestType, RequestKeeps DEF Pipe!Kinds
    <2> HIDE DEF r
    <2> QED
      BY <1>4, <2>1 DEF r
  <1>5. \A k \in {"read_event_log", "shutdown"} :
          Pipe!Request(k) \in Pipe!AllRequests /\ Pipe!Request(k).kind # "type_text"
    BY RequestType DEF Pipe!Kinds
  <1> QED
    BY <1>1, <1>2, <1>3, <1>4, <1>5 DEF Pipe!Command

\* A command that has its answer ends, or asks once more.
Again(c, k) ==
  /\ k = [client[c] EXCEPT !.pc = "wait", !.step = k.step, !.request = k.request,
                           !.answer = "none", !.repeats = k.repeats]
  /\ k.repeats \in Nat
  /\ \/ /\ client[c].op \in {"press", "hold"} /\ k.step = "final"
        /\ k.request = Pipe!KeyRequest(FALSE)
     \/ client[c].op = "hold" /\ k.step = "repeat" /\ k.request = Pipe!KeyRequest(TRUE)
     \/ client[c].op = "hold" /\ k.step = "release" /\ k.request = Pipe!KeyRequest(FALSE)
     \/ client[c].op = "wait-event" /\ k.step = "first" /\ k.request = client[c].request

Ends(c) ==
  client[c].op \in {"press", "hold"} =>
    client[c].step # "repeat" /\ (client[c].answer = "ok" => client[c].step \in {"final", "release"})

LEMMA FinishCases ==
  ASSUME Pipe!ClientTypes, Pipe!StepInv, NEW c \in Clients, Pipe!Finish(c)
  PROVE  \/ client' = [client EXCEPT ![c] = Pipe!Idle] /\ Ends(c)
         \/ \E k : client' = [client EXCEPT ![c] = k] /\ Again(c, k)
  <1> DEFINE again(step, request) ==
        [client[c] EXCEPT !.pc = "wait", !.step = step, !.request = request, !.answer = "none",
                          !.repeats = IF step = "repeat" THEN @ + 1 ELSE @]
             good == client[c].answer = "ok"
             op == client[c].op
  <1> USE DEF Pipe!ClientTypes
  <1>1. client[c].pc = "answer"
    BY DEF Pipe!Finish
  <1>2. /\ op = "press" => client[c].step \in {"first", "final"}
        /\ op = "hold" => client[c].step \in {"first", "repeat", "final", "release"}
    BY <1>1 DEF Pipe!StepInv
  <1>3. ASSUME NEW step, NEW request,
               \/ op \in {"press", "hold"} /\ step = "final" /\ request = Pipe!KeyRequest(FALSE)
               \/ op = "hold" /\ step = "repeat" /\ request = Pipe!KeyRequest(TRUE)
               \/ op = "wait-event" /\ step = "first" /\ request = client[c].request
        PROVE  Again(c, again(step, request))
    <2> DEFINE k == again(step, request)
    <2>1. /\ client[c] \in [pc : {"idle", "wait", "open", "reading", "answer"},
               op : {"none", "type", "press", "hold", "wait-hook", "wait-paliv",
                     "wait-event", "shutdown"},
               step : {"none", "first", "repeat", "final", "release"},
               request : Pipe!AllRequests, answer : {"none", "ok", "error", "pipe"},
               repeats : Nat]
      OBVIOUS
    <2>2. k.step = step /\ k.request = request /\ k.repeats \in Nat
      BY <2>1
    <2>3. k = [client[c] EXCEPT !.pc = "wait", !.step = k.step, !.request = k.request,
                                !.answer = "none", !.repeats = k.repeats]
      BY <2>1, <2>2
    <2> HIDE DEF k
    <2> QED
      <3>1. \/ /\ client[c].op \in {"press", "hold"} /\ k.step = "final"
               /\ k.request = Pipe!KeyRequest(FALSE)
            \/ client[c].op = "hold" /\ k.step = "repeat" /\ k.request = Pipe!KeyRequest(TRUE)
            \/ client[c].op = "wait-event" /\ k.step = "first" /\ k.request = client[c].request
        BY <1>3, <2>2
      <3>2. Again(c, k)
        BY <2>2, <2>3, <3>1, Zenon DEF Again
      <3> QED
        BY <3>2 DEF k
  <1>4. Again(c, [client[c] EXCEPT !.pc = "wait", !.step = "release", !.answer = "none",
                                   !.request = Pipe!KeyRequest(FALSE)])
        \/ op # "hold"
    BY DEF Again
  <1>5. Pipe!HoldReleases(c) =
          [client EXCEPT ![c] = [client[c] EXCEPT !.pc = "wait", !.step = "release",
                                   !.answer = "none", !.request = Pipe!KeyRequest(FALSE)]]
    BY DEF Pipe!HoldReleases
  <1>6. CASE op = "press" /\ client[c].step = "first" /\ good
    <2>1. client' = [client EXCEPT ![c] = again("final", Pipe!KeyRequest(FALSE))]
      BY <1>6 DEF Pipe!Finish
    <2> QED
      BY <1>3, <1>6, <2>1
  <1>7. CASE op = "hold" /\ client[c].step \in {"first", "repeat"} /\ good
    <2>1. \/ client' = [client EXCEPT ![c] = again("final", Pipe!KeyRequest(FALSE))]
          \/ client' = [client EXCEPT ![c] = again("repeat", Pipe!KeyRequest(TRUE))]
      BY <1>7 DEF Pipe!Finish
    <2> QED
      BY ZenonT(60), <1>3, <1>7, <2>1
  <1>8. CASE op = "hold" /\ client[c].step = "repeat" /\ ~good
    <2>1. client' = Pipe!HoldReleases(c)
      BY <1>8 DEF Pipe!Finish
    <2> QED
      BY <1>4, <1>5, <1>8, <2>1
  <1>9. CASE op = "wait-event"
    <2>1. \/ client' = [client EXCEPT ![c] = again("first", client[c].request)]
          \/ client' = [client EXCEPT ![c] = Pipe!Idle]
      BY <1>9 DEF Pipe!Finish
    <2>2. Ends(c)
      BY <1>9 DEF Ends
    <2> QED
      BY <1>3, <1>9, <2>1, <2>2
  <1>10. CASE /\ ~(op = "press" /\ client[c].step = "first" /\ good)
              /\ ~(op = "hold" /\ client[c].step \in {"first", "repeat"} /\ good)
              /\ ~(op = "hold" /\ client[c].step = "repeat" /\ ~good)
              /\ op # "wait-event"
    <2>1. client' = [client EXCEPT ![c] = Pipe!Idle]
      BY <1>10 DEF Pipe!Finish
    <2>2. Ends(c)
      BY <1>2, <1>10 DEF Ends
    <2> QED
      BY <2>1, <2>2
  <1> QED
    BY <1>6, <1>7, <1>8, <1>9, <1>10

\* What the thread reads is what was sent.
LEMMA ReadRequestRead ==
  ASSUME Pipe!IInv, Pipe!ReadRequest
  PROVE  server' = [server EXCEPT !.pc = "execute", !.request = client[server.c].request]
  <1> DEFINE written == client[server.c].request
  <1>1. server.c \in Clients /\ client[server.c].pc = "reading"
    BY DEF Pipe!IInv, Pipe!ServeInv, Pipe!ReadRequest
  <1>2. written \in Pipe!AllRequests /\ (written.kind = "type_text" => written.text \in Texts)
    BY <1>1 DEF Pipe!IInv, Pipe!TypeOK, Pipe!ClientTypes, Pipe!StepInv
  <1>3. ASSUME written.kind = "type_text"
        PROVE  [written EXCEPT !.text = Pipe!ParseText(Pipe!Format(written.text))] = written
    <2>1. written.text \in Seq(0..6)
      BY <1>2, <1>3, PipeAssumption DEF Pipe!Letter
    <2>2. Pipe!ParseText(Pipe!Format(written.text)) = written.text
      BY <2>1, ParseFormat
    <2> HIDE DEF written
    <2> QED
      BY <1>2, <2>2 DEF Pipe!AllRequests
  <1> QED
    BY <1>3, Zenon DEF Pipe!ReadRequest

\* A client's record.
Records == [pc : {"idle", "wait", "open", "reading", "answer"},
            op : {"none", "type", "press", "hold", "wait-hook", "wait-paliv", "wait-event",
                  "shutdown"},
            step : {"none", "first", "repeat", "final", "release"},
            request : Pipe!AllRequests, answer : {"none", "ok", "error", "pipe"}, repeats : Nat]

\* A client goes on with its exchange, which changes nothing of its command.
Goes(c, p) ==
  \E k \in Records : /\ client' = [client EXCEPT ![c] = k]
                     /\ k.pc = p /\ k.op = client[c].op /\ k.step = client[c].step
                     /\ k.request = client[c].request

LEMMA GoesOn ==
  ASSUME Pipe!ClientTypes, NEW c \in Clients
  PROVE  /\ \A p \in {"open", "reading"} : client' = [client EXCEPT ![c].pc = p] => Goes(c, p)
         /\ \A a \in {"ok", "error", "pipe"} :
              client' = [client EXCEPT ![c].pc = "answer", ![c].answer = a]
                => Goes(c, "answer") /\ client'[c].answer = a
  <1>1. client[c] \in Records
    BY DEF Pipe!ClientTypes, Records
  <1>2. ASSUME NEW p \in {"open", "reading"}, client' = [client EXCEPT ![c].pc = p] PROVE Goes(c, p)
    <2> DEFINE k == [client[c] EXCEPT !.pc = p]
    <2>1. k \in Records /\ k.pc = p /\ k.op = client[c].op /\ k.step = client[c].step
          /\ k.request = client[c].request
      BY <1>1 DEF Records
    <2>2. client' = [client EXCEPT ![c] = k]
      BY <1>2
    <2> HIDE DEF k
    <2> QED
      BY <2>1, <2>2 DEF Goes
  <1>3. ASSUME NEW a \in {"ok", "error", "pipe"},
               client' = [client EXCEPT ![c].pc = "answer", ![c].answer = a]
        PROVE  Goes(c, "answer") /\ client'[c].answer = a
    <2> DEFINE k == [client[c] EXCEPT !.pc = "answer", !.answer = a]
    <2>1. k \in Records /\ k.pc = "answer" /\ k.op = client[c].op /\ k.step = client[c].step
          /\ k.request = client[c].request /\ k.answer = a
      BY <1>1 DEF Records
    <2>2. client' = [client EXCEPT ![c] = k]
      BY <1>1, <1>3 DEF Pipe!ClientTypes
    <2>3. client'[c] = k
      BY <2>2 DEF Pipe!ClientTypes
    <2> HIDE DEF k
    <2> QED
      BY <2>1, <2>2, <2>3 DEF Goes
  <1> QED
    BY <1>2, <1>3

LEMMA Gone ==
  ASSUME Pipe!ClientTypes, NEW c \in Clients, NEW p, Goes(c, p)
  PROVE  /\ Pipe!ClientTypes'
         /\ \A d \in Clients \ {c} : client'[d] = client[d]
         /\ client'[c].pc = p /\ client'[c].op = client[c].op /\ client'[c].step = client[c].step
         /\ client'[c].request = client[c].request
  BY DEF Goes, Records, Pipe!ClientTypes

LEMMA StepGone ==
  ASSUME Pipe!ClientTypes, Pipe!StepInv, NEW c \in Clients, client[c].pc # "idle", NEW p, Goes(c, p)
  PROVE  Pipe!StepInv'
  <1>1. /\ \A d \in Clients \ {c} : client'[d] = client[d]
        /\ client'[c].op = client[c].op /\ client'[c].step = client[c].step
        /\ client'[c].request = client[c].request
    BY Gone
  <1> QED
    BY ZenonT(60), <1>1 DEF Pipe!StepInv

\* The steps of an exchange.
LEMMA WaitCases ==
  ASSUME Pipe!ClientTypes, NEW c \in Clients
  PROVE  /\ Pipe!WaitNamedPipe(c) => Goes(c, "open")
         /\ Pipe!WaitNamedPipeTimesOut(c) => Goes(c, "answer") /\ client'[c].answer = "pipe"
  BY GoesOn DEF Pipe!WaitNamedPipe, Pipe!WaitNamedPipeTimesOut

LEMMA OpenCases ==
  ASSUME Pipe!ClientTypes, NEW c \in Clients, Pipe!OpenPipe(c)
  PROVE  /\ client[c].pc = "open"
         /\ \/ /\ Goes(c, "reading") /\ pipe = "listening" /\ pipe' = "busy"
               /\ server' = [server EXCEPT !.pc = "read", !.c = c]
            \/ Goes(c, "answer") /\ client'[c].answer = "pipe" /\ UNCHANGED <<pipe, server>>
  BY GoesOn DEF Pipe!OpenPipe

LEMMA ReadAnswerCases ==
  ASSUME Pipe!ClientTypes, NEW c \in Clients, Pipe!ReadAnswer(c)
  PROVE  Goes(c, "answer") /\ (client'[c].answer = "ok" => server.ok)
  BY GoesOn DEF Pipe!ReadAnswer

LEMMA DisconnectCases ==
  ASSUME Pipe!ClientTypes, Pipe!ServeInv, Pipe!Disconnect
  PROVE  /\ server.c \in Clients
         /\ \/ UNCHANGED client /\ client[server.c].pc # "reading"
            \/ /\ Goes(server.c, "answer") /\ client[server.c].pc = "reading"
               /\ client'[server.c].answer = "pipe"
  <1>1. server.c \in Clients
    BY DEF Pipe!ServeInv, Pipe!Disconnect
  <1> QED
    BY <1>1, GoesOn DEF Pipe!Disconnect

\* The server stays well typed.
LEMMA ServerTypesStep == Pipe!IInv /\ [Pipe!Next]_pipeVars => Pipe!ServerTypes'
  <1> SUFFICES ASSUME Pipe!IInv, [Pipe!Next]_pipeVars PROVE Pipe!ServerTypes'
    OBVIOUS
  <1> USE NoRequestType DEF Pipe!IInv, Pipe!TypeOK, Pipe!ServerTypes, Pipe!Free,
         Pipe!Reply
  <1>1. ASSUME Pipe!CreatePipe PROVE Pipe!ServerTypes'
    BY <1>1 DEF Pipe!CreatePipe
  <1>2. ASSUME Pipe!ReadRequest PROVE Pipe!ServerTypes'
    <2>1. server.c \in Clients
      BY <1>2 DEF Pipe!ServeInv, Pipe!ReadRequest
    <2>2. client[server.c].request \in Pipe!AllRequests
      BY <2>1 DEF Pipe!ClientTypes
    <2> QED
      BY <1>2, <2>2, ReadRequestRead
  <1>3. ASSUME Pipe!DispatchCommand PROVE Pipe!ServerTypes'
    <2>1. \/ \E ok \in BOOLEAN : server' = [server EXCEPT !.pc = "close", !.ok = ok]
          \/ server' = [server EXCEPT !.pc = "waiting"]
      BY <1>3 DEF Pipe!DispatchCommand
    <2> QED
      BY <2>1
  <1>4. ASSUME Pipe!WaitWakes PROVE Pipe!ServerTypes'
    BY <1>4 DEF Pipe!WaitWakes
  <1>5. ASSUME Pipe!WaitTimesOut PROVE Pipe!ServerTypes'
    <2>1. Pipe!Reached \in BOOLEAN
      <3>1. CASE server.request.kind = "wait_for_hook_calls"
        BY <3>1 DEF Pipe!Reached
      <3>2. CASE server.request.kind # "wait_for_hook_calls"
        BY <3>2, Zenon DEF Pipe!Reached
      <3> QED
        BY <3>1, <3>2
    <2> QED
      BY <1>5, <2>1 DEF Pipe!WaitTimesOut
  <1>6. ASSUME Pipe!Disconnect PROVE Pipe!ServerTypes'
    BY <1>6 DEF Pipe!Disconnect
  <1>7. ASSUME NEW c \in Clients, Pipe!WaitNamedPipe(c) PROVE Pipe!ServerTypes'
    BY <1>7 DEF Pipe!WaitNamedPipe
  <1>8. ASSUME NEW c \in Clients, Pipe!WaitNamedPipeTimesOut(c) PROVE Pipe!ServerTypes'
    BY <1>8 DEF Pipe!WaitNamedPipeTimesOut
  <1>9. ASSUME NEW c \in Clients, Pipe!OpenPipe(c) PROVE Pipe!ServerTypes'
    BY <1>9 DEF Pipe!OpenPipe
  <1>10. ASSUME NEW c \in Clients, Pipe!ReadAnswer(c) PROVE Pipe!ServerTypes'
    BY <1>10 DEF Pipe!ReadAnswer
  <1>11. ASSUME NEW c \in Clients, Pipe!Finish(c) PROVE Pipe!ServerTypes'
    BY <1>11 DEF Pipe!Finish
  <1>12. ASSUME NEW c \in Clients, Pipe!Command(c) PROVE Pipe!ServerTypes'
    <2>1. PICK op \in {"type", "press", "hold", "wait-hook", "wait-paliv", "wait-event", "shutdown"},
               r \in Pipe!AllRequests :
            Pipe!Begin(c, op, r) /\ (r.kind = "type_text" => r.text \in Texts)
      BY <1>12, CommandCases
    <2> QED
      BY <2>1 DEF Pipe!Begin
  <1>13. ASSUME NEW c \in Clients, Pipe!DeadlinePasses(c) PROVE Pipe!ServerTypes'
    BY <1>13 DEF Pipe!DeadlinePasses
  <1>14. ASSUME Pipe!IncrementHookCall PROVE Pipe!ServerTypes'
    BY <1>14 DEF Pipe!IncrementHookCall
  <1>15. ASSUME Pipe!ObservePalivEntry PROVE Pipe!ServerTypes'
    BY <1>15 DEF Pipe!ObservePalivEntry
  <1>16. CASE UNCHANGED pipeVars
    BY <1>16 DEF pipeVars
  <1> QED
    BY <1>1, <1>2, <1>3, <1>4, <1>5, <1>6, <1>7, <1>8, <1>9, <1>10, <1>11, <1>12, <1>13,
       <1>14, <1>15, <1>16
       DEF Pipe!Next, Pipe!Serve, Pipe!Exchange

\* The pipe is there or not.
LEMMA PipeTypesStep == Pipe!IInv /\ [Pipe!Next]_pipeVars => Pipe!PipeTypes'
  <1> SUFFICES ASSUME Pipe!IInv, [Pipe!Next]_pipeVars PROVE Pipe!PipeTypes'
    OBVIOUS
  <1> USE DEF Pipe!IInv, Pipe!TypeOK, Pipe!PipeTypes
  <1>1. ASSUME Pipe!CreatePipe PROVE Pipe!PipeTypes'
    BY <1>1 DEF Pipe!CreatePipe
  <1>2. ASSUME Pipe!ReadRequest PROVE Pipe!PipeTypes'
    BY <1>2 DEF Pipe!ReadRequest
  <1>3. ASSUME Pipe!DispatchCommand PROVE Pipe!PipeTypes'
    BY <1>3 DEF Pipe!DispatchCommand
  <1>4. ASSUME Pipe!WaitWakes PROVE Pipe!PipeTypes'
    BY <1>4 DEF Pipe!WaitWakes
  <1>5. ASSUME Pipe!WaitTimesOut PROVE Pipe!PipeTypes'
    BY <1>5 DEF Pipe!WaitTimesOut
  <1>6. ASSUME Pipe!Disconnect PROVE Pipe!PipeTypes'
    BY <1>6 DEF Pipe!Disconnect
  <1>7. ASSUME NEW c \in Clients, Pipe!WaitNamedPipe(c) PROVE Pipe!PipeTypes'
    BY <1>7 DEF Pipe!WaitNamedPipe
  <1>8. ASSUME NEW c \in Clients, Pipe!WaitNamedPipeTimesOut(c) PROVE Pipe!PipeTypes'
    BY <1>8 DEF Pipe!WaitNamedPipeTimesOut
  <1>9. ASSUME NEW c \in Clients, Pipe!OpenPipe(c) PROVE Pipe!PipeTypes'
    BY <1>9 DEF Pipe!OpenPipe
  <1>10. ASSUME NEW c \in Clients, Pipe!ReadAnswer(c) PROVE Pipe!PipeTypes'
    BY <1>10 DEF Pipe!ReadAnswer
  <1>11. ASSUME NEW c \in Clients, Pipe!Finish(c) PROVE Pipe!PipeTypes'
    BY <1>11 DEF Pipe!Finish
  <1>12. ASSUME NEW c \in Clients, Pipe!Command(c) PROVE Pipe!PipeTypes'
    <2>1. PICK op \in {"type", "press", "hold", "wait-hook", "wait-paliv", "wait-event", "shutdown"},
               r \in Pipe!AllRequests :
            Pipe!Begin(c, op, r) /\ (r.kind = "type_text" => r.text \in Texts)
      BY <1>12, CommandCases
    <2> QED
      BY <2>1 DEF Pipe!Begin
  <1>13. ASSUME NEW c \in Clients, Pipe!DeadlinePasses(c) PROVE Pipe!PipeTypes'
    BY <1>13 DEF Pipe!DeadlinePasses
  <1>14. ASSUME Pipe!IncrementHookCall PROVE Pipe!PipeTypes'
    BY <1>14 DEF Pipe!IncrementHookCall
  <1>15. ASSUME Pipe!ObservePalivEntry PROVE Pipe!PipeTypes'
    BY <1>15 DEF Pipe!ObservePalivEntry
  <1>16. CASE UNCHANGED pipeVars
    BY <1>16 DEF pipeVars
  <1> QED
    BY <1>1, <1>2, <1>3, <1>4, <1>5, <1>6, <1>7, <1>8, <1>9, <1>10, <1>11, <1>12, <1>13,
       <1>14, <1>15, <1>16
       DEF Pipe!Next, Pipe!Serve, Pipe!Exchange

\* The command lines stay well typed.
LEMMA ClientTypesStep == Pipe!IInv /\ [Pipe!Next]_pipeVars => Pipe!ClientTypes'
  <1> SUFFICES ASSUME Pipe!IInv, [Pipe!Next]_pipeVars PROVE Pipe!ClientTypes'
    OBVIOUS
  <1> USE NoRequestType DEF Pipe!IInv, Pipe!TypeOK, Pipe!ClientTypes, Pipe!Idle
  <1>1. ASSUME Pipe!CreatePipe PROVE Pipe!ClientTypes'
    BY <1>1 DEF Pipe!CreatePipe
  <1>2. ASSUME Pipe!ReadRequest PROVE Pipe!ClientTypes'
    BY <1>2 DEF Pipe!ReadRequest
  <1>3. ASSUME Pipe!DispatchCommand PROVE Pipe!ClientTypes'
    BY <1>3 DEF Pipe!DispatchCommand
  <1>4. ASSUME Pipe!WaitWakes PROVE Pipe!ClientTypes'
    BY <1>4 DEF Pipe!WaitWakes
  <1>5. ASSUME Pipe!WaitTimesOut PROVE Pipe!ClientTypes'
    BY <1>5 DEF Pipe!WaitTimesOut
  <1>6. ASSUME Pipe!Disconnect PROVE Pipe!ClientTypes'
    <2>1. /\ server.c \in Clients
          /\ \/ UNCHANGED client /\ client[server.c].pc # "reading"
             \/ /\ Goes(server.c, "answer") /\ client[server.c].pc = "reading"
                /\ client'[server.c].answer = "pipe"
      BY <1>6, DisconnectCases DEF Pipe!IInv, Pipe!TypeOK
    <2>2. ASSUME NEW p, Goes(server.c, p), server.c \in Clients
          PROVE  /\ Pipe!ClientTypes'
                 /\ \A d \in Clients \ {server.c} : client'[d] = client[d]
                 /\ client'[server.c].pc = p /\ client'[server.c].op = client[server.c].op
                 /\ client'[server.c].step = client[server.c].step
                 /\ client'[server.c].request = client[server.c].request
      BY <2>2, Gone DEF Pipe!IInv, Pipe!TypeOK
    <2> QED
      BY <1>6, <2>1, <2>2 DEF Pipe!Disconnect
  <1>7. ASSUME NEW c \in Clients, Pipe!WaitNamedPipe(c) PROVE Pipe!ClientTypes'
    <2>1. Goes(c, "open")
      BY <1>7, WaitCases DEF Pipe!IInv, Pipe!TypeOK
    <2>2. ASSUME NEW p, Goes(c, p), c \in Clients
          PROVE  /\ Pipe!ClientTypes'
                 /\ \A d \in Clients \ {c} : client'[d] = client[d]
                 /\ client'[c].pc = p /\ client'[c].op = client[c].op
                 /\ client'[c].step = client[c].step
                 /\ client'[c].request = client[c].request
      BY <2>2, Gone DEF Pipe!IInv, Pipe!TypeOK
    <2> QED
      BY <1>7, <2>1, <2>2 DEF Pipe!WaitNamedPipe
  <1>8. ASSUME NEW c \in Clients, Pipe!WaitNamedPipeTimesOut(c) PROVE Pipe!ClientTypes'
    <2>1. Goes(c, "answer") /\ client'[c].answer = "pipe"
      BY <1>8, WaitCases DEF Pipe!IInv, Pipe!TypeOK
    <2>2. ASSUME NEW p, Goes(c, p), c \in Clients
          PROVE  /\ Pipe!ClientTypes'
                 /\ \A d \in Clients \ {c} : client'[d] = client[d]
                 /\ client'[c].pc = p /\ client'[c].op = client[c].op
                 /\ client'[c].step = client[c].step
                 /\ client'[c].request = client[c].request
      BY <2>2, Gone DEF Pipe!IInv, Pipe!TypeOK
    <2> QED
      BY <1>8, <2>1, <2>2 DEF Pipe!WaitNamedPipeTimesOut
  <1>9. ASSUME NEW c \in Clients, Pipe!OpenPipe(c) PROVE Pipe!ClientTypes'
    <2>1. /\ client[c].pc = "open"
          /\ \/ /\ Goes(c, "reading") /\ pipe = "listening" /\ pipe' = "busy"
                /\ server' = [server EXCEPT !.pc = "read", !.c = c]
             \/ Goes(c, "answer") /\ client'[c].answer = "pipe" /\ UNCHANGED <<pipe, server>>
      BY <1>9, OpenCases DEF Pipe!IInv, Pipe!TypeOK
    <2>2. ASSUME NEW p, Goes(c, p)
          PROVE  /\ Pipe!ClientTypes'
                 /\ \A d \in Clients \ {c} : client'[d] = client[d]
                 /\ client'[c].pc = p /\ client'[c].op = client[c].op
                 /\ client'[c].step = client[c].step
                 /\ client'[c].request = client[c].request
      BY <2>2, Gone DEF Pipe!IInv, Pipe!TypeOK
    <2>3. CASE UNCHANGED <<pipe, server>> /\ Goes(c, "answer") /\ client'[c].answer = "pipe"
      BY <1>9, <2>1, <2>2, <2>3 DEF Pipe!OpenPipe
    <2>4. CASE /\ Goes(c, "reading") /\ pipe = "listening" /\ pipe' = "busy"
               /\ server' = [server EXCEPT !.pc = "read", !.c = c]
      <3>1. server'.pc = "read" /\ server'.c = c
        BY <2>4 DEF Pipe!IInv, Pipe!TypeOK, Pipe!ServerTypes
      <3> QED
        BY <1>9, <2>1, <2>2, <2>4, <3>1 DEF Pipe!OpenPipe
    <2> QED
      BY <2>1, <2>3, <2>4
  <1>10. ASSUME NEW c \in Clients, Pipe!ReadAnswer(c) PROVE Pipe!ClientTypes'
    <2>1. Goes(c, "answer") /\ (client'[c].answer = "ok" => server.ok)
      BY <1>10, ReadAnswerCases DEF Pipe!IInv, Pipe!TypeOK
    <2>2. ASSUME NEW p, Goes(c, p), c \in Clients
          PROVE  /\ Pipe!ClientTypes'
                 /\ \A d \in Clients \ {c} : client'[d] = client[d]
                 /\ client'[c].pc = p /\ client'[c].op = client[c].op
                 /\ client'[c].step = client[c].step
                 /\ client'[c].request = client[c].request
      BY <2>2, Gone DEF Pipe!IInv, Pipe!TypeOK
    <2> QED
      BY <1>10, <2>1, <2>2 DEF Pipe!ReadAnswer
  <1>11. ASSUME NEW c \in Clients, Pipe!Finish(c) PROVE Pipe!ClientTypes'
    <2>1. CASE client' = [client EXCEPT ![c] = Pipe!Idle]
      BY <2>1
    <2>2. ASSUME NEW k, client' = [client EXCEPT ![c] = k], Again(c, k) PROVE Pipe!ClientTypes'
      <3>1. k.request \in Pipe!AllRequests /\ k.repeats \in Nat
            /\ k.step \in {"none", "first", "repeat", "final", "release"}
        BY <2>2, KeyRequestType DEF Again
      <3>2. k = [client[c] EXCEPT !.pc = "wait", !.step = k.step, !.request = k.request,
                                  !.answer = "none", !.repeats = k.repeats]
        BY <2>2 DEF Again
      <3>0. client[c] \in Records
        BY DEF Records
      <3>3. k \in [pc : {"idle", "wait", "open", "reading", "answer"},
                   op : {"none", "type", "press", "hold", "wait-hook", "wait-paliv",
                         "wait-event", "shutdown"},
                   step : {"none", "first", "repeat", "final", "release"},
                   request : Pipe!AllRequests, answer : {"none", "ok", "error", "pipe"},
                   repeats : Nat]
        BY <3>0, <3>1, <3>2 DEF Records
      <3> QED
        BY <2>2, <3>3
    <2> QED
      BY <1>11, <2>1, <2>2, FinishCases
  <1>12. ASSUME NEW c \in Clients, Pipe!Command(c) PROVE Pipe!ClientTypes'
    <2>1. PICK op \in {"type", "press", "hold", "wait-hook", "wait-paliv", "wait-event", "shutdown"},
               r \in Pipe!AllRequests :
            Pipe!Begin(c, op, r) /\ (r.kind = "type_text" => r.text \in Texts)
      BY <1>12, CommandCases
    <2> QED
      BY <2>1 DEF Pipe!Begin
  <1>13. ASSUME NEW c \in Clients, Pipe!DeadlinePasses(c) PROVE Pipe!ClientTypes'
    BY <1>13 DEF Pipe!DeadlinePasses
  <1>14. ASSUME Pipe!IncrementHookCall PROVE Pipe!ClientTypes'
    BY <1>14 DEF Pipe!IncrementHookCall
  <1>15. ASSUME Pipe!ObservePalivEntry PROVE Pipe!ClientTypes'
    BY <1>15 DEF Pipe!ObservePalivEntry
  <1>16. CASE UNCHANGED pipeVars
    BY <1>16 DEF pipeVars
  <1> QED
    BY <1>1, <1>2, <1>3, <1>4, <1>5, <1>6, <1>7, <1>8, <1>9, <1>10, <1>11, <1>12, <1>13,
       <1>14, <1>15, <1>16
       DEF Pipe!Next, Pipe!Serve, Pipe!Exchange

\* What the game publishes stays well typed.
LEMMA PublishedTypesStep == Pipe!IInv /\ [Pipe!Next]_pipeVars => Pipe!GameTypes'
  <1> SUFFICES ASSUME Pipe!IInv, [Pipe!Next]_pipeVars PROVE Pipe!GameTypes'
    OBVIOUS
  <1> USE PipeAssumption DEF Pipe!IInv, Pipe!TypeOK, Pipe!GameTypes, Pipe!gameVars
  <1>1. ASSUME Pipe!CreatePipe PROVE Pipe!GameTypes'
    BY <1>1 DEF Pipe!CreatePipe
  <1>2. ASSUME Pipe!ReadRequest PROVE Pipe!GameTypes'
    BY <1>2 DEF Pipe!ReadRequest
  <1>3. ASSUME Pipe!DispatchCommand PROVE Pipe!GameTypes'
    <2>1. server.c \in Clients
      BY <1>3 DEF Pipe!ServeInv, Pipe!DispatchCommand
    <2>2. keys' \in {keys, keys \union {server.c}, keys \ {server.c}} /\ UNCHANGED <<calls, paliv>>
      BY <1>3 DEF Pipe!DispatchCommand
    <2> QED
      BY <2>1, <2>2
  <1>4. ASSUME Pipe!WaitWakes PROVE Pipe!GameTypes'
    BY <1>4 DEF Pipe!WaitWakes
  <1>5. ASSUME Pipe!WaitTimesOut PROVE Pipe!GameTypes'
    BY <1>5 DEF Pipe!WaitTimesOut
  <1>6. ASSUME Pipe!Disconnect PROVE Pipe!GameTypes'
    BY <1>6 DEF Pipe!Disconnect
  <1>7. ASSUME NEW c \in Clients, Pipe!WaitNamedPipe(c) PROVE Pipe!GameTypes'
    BY <1>7 DEF Pipe!WaitNamedPipe
  <1>8. ASSUME NEW c \in Clients, Pipe!WaitNamedPipeTimesOut(c) PROVE Pipe!GameTypes'
    BY <1>8 DEF Pipe!WaitNamedPipeTimesOut
  <1>9. ASSUME NEW c \in Clients, Pipe!OpenPipe(c) PROVE Pipe!GameTypes'
    BY <1>9 DEF Pipe!OpenPipe
  <1>10. ASSUME NEW c \in Clients, Pipe!ReadAnswer(c) PROVE Pipe!GameTypes'
    BY <1>10 DEF Pipe!ReadAnswer
  <1>11. ASSUME NEW c \in Clients, Pipe!Finish(c) PROVE Pipe!GameTypes'
    BY <1>11 DEF Pipe!Finish
  <1>12. ASSUME NEW c \in Clients, Pipe!Command(c) PROVE Pipe!GameTypes'
    <2>1. PICK op \in {"type", "press", "hold", "wait-hook", "wait-paliv", "wait-event", "shutdown"},
               r \in Pipe!AllRequests :
            Pipe!Begin(c, op, r) /\ (r.kind = "type_text" => r.text \in Texts)
      BY <1>12, CommandCases
    <2> QED
      BY <2>1 DEF Pipe!Begin
  <1>13. ASSUME NEW c \in Clients, Pipe!DeadlinePasses(c) PROVE Pipe!GameTypes'
    BY <1>13 DEF Pipe!DeadlinePasses
  <1>14. ASSUME Pipe!IncrementHookCall PROVE Pipe!GameTypes'
    BY <1>14 DEF Pipe!IncrementHookCall
  <1>15. ASSUME Pipe!ObservePalivEntry PROVE Pipe!GameTypes'
    BY <1>15 DEF Pipe!ObservePalivEntry
  <1>16. CASE UNCHANGED pipeVars
    BY <1>16 DEF pipeVars
  <1> QED
    BY <1>1, <1>2, <1>3, <1>4, <1>5, <1>6, <1>7, <1>8, <1>9, <1>10, <1>11, <1>12, <1>13,
       <1>14, <1>15, <1>16
       DEF Pipe!Next, Pipe!Serve, Pipe!Exchange

\* The thread serves one client at a time.
LEMMA ServeStep == Pipe!IInv /\ [Pipe!Next]_pipeVars => Pipe!ServeInv'
  <1> SUFFICES ASSUME Pipe!IInv, [Pipe!Next]_pipeVars PROVE Pipe!ServeInv'
    OBVIOUS
  <1> USE DEF Pipe!IInv, Pipe!TypeOK, Pipe!ServerTypes, Pipe!ClientTypes, Pipe!ServeInv,
         Pipe!Free, Pipe!Idle, Pipe!Reply
  <1>1. ASSUME Pipe!CreatePipe PROVE Pipe!ServeInv'
    BY <1>1 DEF Pipe!CreatePipe
  <1>2. ASSUME Pipe!ReadRequest PROVE Pipe!ServeInv'
    BY <1>2, ReadRequestRead DEF Pipe!ReadRequest
  <1>3. ASSUME Pipe!DispatchCommand PROVE Pipe!ServeInv'
    <2>1. /\ server.pc = "execute" /\ UNCHANGED <<client, pipe>>
          /\ server'.c = server.c /\ server'.request = server.request
          /\ \/ server'.pc = "close"
             \/ /\ server.request.kind \in {"wait_for_hook_calls", "wait_for_paliv_state"}
                /\ server'.pc = "waiting"
      BY <1>3 DEF Pipe!DispatchCommand
    <2> QED
      BY <2>1
  <1>4. ASSUME Pipe!WaitWakes PROVE Pipe!ServeInv'
    BY <1>4 DEF Pipe!WaitWakes
  <1>5. ASSUME Pipe!WaitTimesOut PROVE Pipe!ServeInv'
    BY <1>5 DEF Pipe!WaitTimesOut
  <1>6. ASSUME Pipe!Disconnect PROVE Pipe!ServeInv'
    <2>1. /\ server.c \in Clients
          /\ \/ UNCHANGED client /\ client[server.c].pc # "reading"
             \/ /\ Goes(server.c, "answer") /\ client[server.c].pc = "reading"
                /\ client'[server.c].answer = "pipe"
      BY <1>6, DisconnectCases DEF Pipe!IInv, Pipe!TypeOK
    <2>2. ASSUME NEW p, Goes(server.c, p), server.c \in Clients
          PROVE  /\ Pipe!ClientTypes'
                 /\ \A d \in Clients \ {server.c} : client'[d] = client[d]
                 /\ client'[server.c].pc = p /\ client'[server.c].op = client[server.c].op
                 /\ client'[server.c].step = client[server.c].step
                 /\ client'[server.c].request = client[server.c].request
      BY <2>2, Gone DEF Pipe!IInv, Pipe!TypeOK
    <2> QED
      BY <1>6, <2>1, <2>2 DEF Pipe!Disconnect
  <1>7. ASSUME NEW c \in Clients, Pipe!WaitNamedPipe(c) PROVE Pipe!ServeInv'
    <2>1. Goes(c, "open")
      BY <1>7, WaitCases DEF Pipe!IInv, Pipe!TypeOK
    <2>2. ASSUME NEW p, Goes(c, p), c \in Clients
          PROVE  /\ Pipe!ClientTypes'
                 /\ \A d \in Clients \ {c} : client'[d] = client[d]
                 /\ client'[c].pc = p /\ client'[c].op = client[c].op
                 /\ client'[c].step = client[c].step
                 /\ client'[c].request = client[c].request
      BY <2>2, Gone DEF Pipe!IInv, Pipe!TypeOK
    <2> QED
      BY <1>7, <2>1, <2>2 DEF Pipe!WaitNamedPipe
  <1>8. ASSUME NEW c \in Clients, Pipe!WaitNamedPipeTimesOut(c) PROVE Pipe!ServeInv'
    <2>1. Goes(c, "answer") /\ client'[c].answer = "pipe"
      BY <1>8, WaitCases DEF Pipe!IInv, Pipe!TypeOK
    <2>2. ASSUME NEW p, Goes(c, p), c \in Clients
          PROVE  /\ Pipe!ClientTypes'
                 /\ \A d \in Clients \ {c} : client'[d] = client[d]
                 /\ client'[c].pc = p /\ client'[c].op = client[c].op
                 /\ client'[c].step = client[c].step
                 /\ client'[c].request = client[c].request
      BY <2>2, Gone DEF Pipe!IInv, Pipe!TypeOK
    <2> QED
      BY <1>8, <2>1, <2>2 DEF Pipe!WaitNamedPipeTimesOut
  <1>9. ASSUME NEW c \in Clients, Pipe!OpenPipe(c) PROVE Pipe!ServeInv'
    <2>1. /\ client[c].pc = "open"
          /\ \/ /\ Goes(c, "reading") /\ pipe = "listening" /\ pipe' = "busy"
                /\ server' = [server EXCEPT !.pc = "read", !.c = c]
             \/ Goes(c, "answer") /\ client'[c].answer = "pipe" /\ UNCHANGED <<pipe, server>>
      BY <1>9, OpenCases DEF Pipe!IInv, Pipe!TypeOK
    <2>2. ASSUME NEW p, Goes(c, p)
          PROVE  /\ Pipe!ClientTypes'
                 /\ \A d \in Clients \ {c} : client'[d] = client[d]
                 /\ client'[c].pc = p /\ client'[c].op = client[c].op
                 /\ client'[c].step = client[c].step
                 /\ client'[c].request = client[c].request
      BY <2>2, Gone DEF Pipe!IInv, Pipe!TypeOK
    <2>3. CASE UNCHANGED <<pipe, server>> /\ Goes(c, "answer") /\ client'[c].answer = "pipe"
      BY <1>9, <2>1, <2>2, <2>3 DEF Pipe!OpenPipe
    <2>4. CASE /\ Goes(c, "reading") /\ pipe = "listening" /\ pipe' = "busy"
               /\ server' = [server EXCEPT !.pc = "read", !.c = c]
      <3>1. server'.pc = "read" /\ server'.c = c
        BY <2>4 DEF Pipe!IInv, Pipe!TypeOK, Pipe!ServerTypes
      <3> QED
        BY <1>9, <2>1, <2>2, <2>4, <3>1 DEF Pipe!OpenPipe
    <2> QED
      BY <2>1, <2>3, <2>4
  <1>10. ASSUME NEW c \in Clients, Pipe!ReadAnswer(c) PROVE Pipe!ServeInv'
    <2>1. Goes(c, "answer") /\ (client'[c].answer = "ok" => server.ok)
      BY <1>10, ReadAnswerCases DEF Pipe!IInv, Pipe!TypeOK
    <2>2. ASSUME NEW p, Goes(c, p), c \in Clients
          PROVE  /\ Pipe!ClientTypes'
                 /\ \A d \in Clients \ {c} : client'[d] = client[d]
                 /\ client'[c].pc = p /\ client'[c].op = client[c].op
                 /\ client'[c].step = client[c].step
                 /\ client'[c].request = client[c].request
      BY <2>2, Gone DEF Pipe!IInv, Pipe!TypeOK
    <2> QED
      BY <1>10, <2>1, <2>2 DEF Pipe!ReadAnswer
  <1>11. ASSUME NEW c \in Clients, Pipe!Finish(c) PROVE Pipe!ServeInv'
    <2>1. CASE client' = [client EXCEPT ![c] = Pipe!Idle]
      BY <1>11, <2>1 DEF Pipe!Finish
    <2>2. ASSUME NEW k, client' = [client EXCEPT ![c] = k], Again(c, k) PROVE Pipe!ServeInv'
      BY ZenonT(60), <1>11, <2>2 DEF Pipe!Finish, Again
    <2> QED
      BY <1>11, <2>1, <2>2, FinishCases
  <1>12. ASSUME NEW c \in Clients, Pipe!Command(c) PROVE Pipe!ServeInv'
    <2>1. PICK op \in {"type", "press", "hold", "wait-hook", "wait-paliv", "wait-event", "shutdown"},
               r \in Pipe!AllRequests :
            Pipe!Begin(c, op, r) /\ (r.kind = "type_text" => r.text \in Texts)
      BY <1>12, CommandCases
    <2> QED
      BY <2>1 DEF Pipe!Begin
  <1>13. ASSUME NEW c \in Clients, Pipe!DeadlinePasses(c) PROVE Pipe!ServeInv'
    BY <1>13 DEF Pipe!DeadlinePasses
  <1>14. ASSUME Pipe!IncrementHookCall PROVE Pipe!ServeInv'
    BY <1>14 DEF Pipe!IncrementHookCall
  <1>15. ASSUME Pipe!ObservePalivEntry PROVE Pipe!ServeInv'
    BY <1>15 DEF Pipe!ObservePalivEntry
  <1>16. CASE UNCHANGED pipeVars
    BY <1>16 DEF pipeVars
  <1> QED
    BY <1>1, <1>2, <1>3, <1>4, <1>5, <1>6, <1>7, <1>8, <1>9, <1>10, <1>11, <1>12, <1>13,
       <1>14, <1>15, <1>16
       DEF Pipe!Next, Pipe!Serve, Pipe!Exchange

\* Each step of a command has its request.
LEMMA StepInvStep == Pipe!IInv /\ [Pipe!Next]_pipeVars => Pipe!StepInv'
  <1> SUFFICES ASSUME Pipe!IInv, [Pipe!Next]_pipeVars PROVE Pipe!StepInv'
    OBVIOUS
  <1> USE DEF Pipe!IInv, Pipe!TypeOK, Pipe!ClientTypes, Pipe!StepInv, Pipe!Idle
  <1>1. ASSUME Pipe!CreatePipe PROVE Pipe!StepInv'
    BY <1>1 DEF Pipe!CreatePipe
  <1>2. ASSUME Pipe!ReadRequest PROVE Pipe!StepInv'
    BY <1>2 DEF Pipe!ReadRequest
  <1>3. ASSUME Pipe!DispatchCommand PROVE Pipe!StepInv'
    BY <1>3 DEF Pipe!DispatchCommand
  <1>4. ASSUME Pipe!WaitWakes PROVE Pipe!StepInv'
    BY <1>4 DEF Pipe!WaitWakes
  <1>5. ASSUME Pipe!WaitTimesOut PROVE Pipe!StepInv'
    BY <1>5 DEF Pipe!WaitTimesOut
  <1>6. ASSUME Pipe!Disconnect PROVE Pipe!StepInv'
    <2>1. UNCHANGED client \/ Pipe!StepInv'
      BY <1>6, DisconnectCases, StepGone
    <2> QED
      BY <2>1
  <1>7. ASSUME NEW c \in Clients, Pipe!WaitNamedPipe(c) PROVE Pipe!StepInv'
    BY <1>7, WaitCases, StepGone DEF Pipe!WaitNamedPipe
  <1>8. ASSUME NEW c \in Clients, Pipe!WaitNamedPipeTimesOut(c) PROVE Pipe!StepInv'
    BY <1>8, WaitCases, StepGone DEF Pipe!WaitNamedPipeTimesOut
  <1>9. ASSUME NEW c \in Clients, Pipe!OpenPipe(c) PROVE Pipe!StepInv'
    BY <1>9, OpenCases, StepGone DEF Pipe!OpenPipe
  <1>10. ASSUME NEW c \in Clients, Pipe!ReadAnswer(c) PROVE Pipe!StepInv'
    BY <1>10, ReadAnswerCases, StepGone DEF Pipe!ReadAnswer
  <1>11. ASSUME NEW c \in Clients, Pipe!Finish(c) PROVE Pipe!StepInv'
    <2>1. CASE client' = [client EXCEPT ![c] = Pipe!Idle]
      BY <2>1
    <2>2. ASSUME NEW k, client' = [client EXCEPT ![c] = k], Again(c, k) PROVE Pipe!StepInv'
      <3>1. k.op = client[c].op /\ client[c].pc = "answer"
        BY <1>11, <2>2 DEF Pipe!Finish, Again
      <3>2. k.request.kind = "type_text" => k.request.text \in Texts
        BY <2>2, <3>1, KeyRequestType DEF Again
      <3>3. /\ k.op = "press" => k.step \in {"first", "final"}
            /\ k.op = "hold" => k.step \in {"first", "repeat", "final", "release"}
            /\ k.step \in {"final", "release"} => k.request = Pipe!KeyRequest(FALSE)
        BY <2>2, <3>1 DEF Again
      <3> QED
        BY <2>2, <3>2, <3>3
    <2> QED
      BY <1>11, <2>1, <2>2, FinishCases
  <1>12. ASSUME NEW c \in Clients, Pipe!Command(c) PROVE Pipe!StepInv'
    <2>1. PICK op \in {"type", "press", "hold", "wait-hook", "wait-paliv", "wait-event", "shutdown"},
               r \in Pipe!AllRequests :
            Pipe!Begin(c, op, r) /\ (r.kind = "type_text" => r.text \in Texts)
      BY <1>12, CommandCases
    <2> QED
      BY <2>1 DEF Pipe!Begin
  <1>13. ASSUME NEW c \in Clients, Pipe!DeadlinePasses(c) PROVE Pipe!StepInv'
    BY <1>13 DEF Pipe!DeadlinePasses
  <1>14. ASSUME Pipe!IncrementHookCall PROVE Pipe!StepInv'
    BY <1>14 DEF Pipe!IncrementHookCall
  <1>15. ASSUME Pipe!ObservePalivEntry PROVE Pipe!StepInv'
    BY <1>15 DEF Pipe!ObservePalivEntry
  <1>16. CASE UNCHANGED pipeVars
    BY <1>16 DEF pipeVars
  <1> QED
    BY <1>1, <1>2, <1>3, <1>4, <1>5, <1>6, <1>7, <1>8, <1>9, <1>10, <1>11, <1>12, <1>13,
       <1>14, <1>15, <1>16
       DEF Pipe!Next, Pipe!Serve, Pipe!Exchange

\* The request that is executed is the one that was sent.
LEMMA ArrivesStep == Pipe!IInv /\ [Pipe!Next]_pipeVars => Pipe!RequestArrives'
  <1> SUFFICES ASSUME Pipe!IInv, [Pipe!Next]_pipeVars PROVE Pipe!RequestArrives'
    OBVIOUS
  <1> USE DEF Pipe!IInv, Pipe!TypeOK, Pipe!ServerTypes, Pipe!ClientTypes, Pipe!ServeInv,
         Pipe!Free, Pipe!Idle, Pipe!Reply, Pipe!RequestArrives
  <1>1. ASSUME Pipe!CreatePipe PROVE Pipe!RequestArrives'
    BY <1>1 DEF Pipe!CreatePipe
  <1>2. ASSUME Pipe!ReadRequest PROVE Pipe!RequestArrives'
    BY <1>2, ReadRequestRead DEF Pipe!ReadRequest
  <1>3. ASSUME Pipe!DispatchCommand PROVE Pipe!RequestArrives'
    <2>1. /\ server.pc = "execute" /\ UNCHANGED <<client, pipe>>
          /\ server'.c = server.c /\ server'.request = server.request
      BY <1>3 DEF Pipe!DispatchCommand
    <2> QED
      BY <2>1
  <1>4. ASSUME Pipe!WaitWakes PROVE Pipe!RequestArrives'
    BY <1>4 DEF Pipe!WaitWakes
  <1>5. ASSUME Pipe!WaitTimesOut PROVE Pipe!RequestArrives'
    BY <1>5 DEF Pipe!WaitTimesOut
  <1>6. ASSUME Pipe!Disconnect PROVE Pipe!RequestArrives'
    <2>1. /\ server.c \in Clients
          /\ \/ UNCHANGED client /\ client[server.c].pc # "reading"
             \/ /\ Goes(server.c, "answer") /\ client[server.c].pc = "reading"
                /\ client'[server.c].answer = "pipe"
      BY <1>6, DisconnectCases DEF Pipe!IInv, Pipe!TypeOK
    <2>2. ASSUME NEW p, Goes(server.c, p), server.c \in Clients
          PROVE  /\ Pipe!ClientTypes'
                 /\ \A d \in Clients \ {server.c} : client'[d] = client[d]
                 /\ client'[server.c].pc = p /\ client'[server.c].op = client[server.c].op
                 /\ client'[server.c].step = client[server.c].step
                 /\ client'[server.c].request = client[server.c].request
      BY <2>2, Gone DEF Pipe!IInv, Pipe!TypeOK
    <2> QED
      BY <1>6, <2>1, <2>2 DEF Pipe!Disconnect
  <1>7. ASSUME NEW c \in Clients, Pipe!WaitNamedPipe(c) PROVE Pipe!RequestArrives'
    <2>1. Goes(c, "open")
      BY <1>7, WaitCases DEF Pipe!IInv, Pipe!TypeOK
    <2>2. ASSUME NEW p, Goes(c, p), c \in Clients
          PROVE  /\ Pipe!ClientTypes'
                 /\ \A d \in Clients \ {c} : client'[d] = client[d]
                 /\ client'[c].pc = p /\ client'[c].op = client[c].op
                 /\ client'[c].step = client[c].step
                 /\ client'[c].request = client[c].request
      BY <2>2, Gone DEF Pipe!IInv, Pipe!TypeOK
    <2> QED
      BY <1>7, <2>1, <2>2 DEF Pipe!WaitNamedPipe
  <1>8. ASSUME NEW c \in Clients, Pipe!WaitNamedPipeTimesOut(c) PROVE Pipe!RequestArrives'
    <2>1. Goes(c, "answer") /\ client'[c].answer = "pipe"
      BY <1>8, WaitCases DEF Pipe!IInv, Pipe!TypeOK
    <2>2. ASSUME NEW p, Goes(c, p), c \in Clients
          PROVE  /\ Pipe!ClientTypes'
                 /\ \A d \in Clients \ {c} : client'[d] = client[d]
                 /\ client'[c].pc = p /\ client'[c].op = client[c].op
                 /\ client'[c].step = client[c].step
                 /\ client'[c].request = client[c].request
      BY <2>2, Gone DEF Pipe!IInv, Pipe!TypeOK
    <2> QED
      BY <1>8, <2>1, <2>2 DEF Pipe!WaitNamedPipeTimesOut
  <1>9. ASSUME NEW c \in Clients, Pipe!OpenPipe(c) PROVE Pipe!RequestArrives'
    <2>1. /\ client[c].pc = "open"
          /\ \/ /\ Goes(c, "reading") /\ pipe = "listening" /\ pipe' = "busy"
                /\ server' = [server EXCEPT !.pc = "read", !.c = c]
             \/ Goes(c, "answer") /\ client'[c].answer = "pipe" /\ UNCHANGED <<pipe, server>>
      BY <1>9, OpenCases DEF Pipe!IInv, Pipe!TypeOK
    <2>2. ASSUME NEW p, Goes(c, p)
          PROVE  /\ Pipe!ClientTypes'
                 /\ \A d \in Clients \ {c} : client'[d] = client[d]
                 /\ client'[c].pc = p /\ client'[c].op = client[c].op
                 /\ client'[c].step = client[c].step
                 /\ client'[c].request = client[c].request
      BY <2>2, Gone DEF Pipe!IInv, Pipe!TypeOK
    <2>3. CASE UNCHANGED <<pipe, server>> /\ Goes(c, "answer") /\ client'[c].answer = "pipe"
      BY <1>9, <2>1, <2>2, <2>3 DEF Pipe!OpenPipe
    <2>4. CASE /\ Goes(c, "reading") /\ pipe = "listening" /\ pipe' = "busy"
               /\ server' = [server EXCEPT !.pc = "read", !.c = c]
      <3>1. server'.pc = "read" /\ server'.c = c
        BY <2>4 DEF Pipe!IInv, Pipe!TypeOK, Pipe!ServerTypes
      <3> QED
        BY <1>9, <2>1, <2>2, <2>4, <3>1 DEF Pipe!OpenPipe
    <2> QED
      BY <2>1, <2>3, <2>4
  <1>10. ASSUME NEW c \in Clients, Pipe!ReadAnswer(c) PROVE Pipe!RequestArrives'
    <2>1. Goes(c, "answer") /\ (client'[c].answer = "ok" => server.ok)
      BY <1>10, ReadAnswerCases DEF Pipe!IInv, Pipe!TypeOK
    <2>2. ASSUME NEW p, Goes(c, p), c \in Clients
          PROVE  /\ Pipe!ClientTypes'
                 /\ \A d \in Clients \ {c} : client'[d] = client[d]
                 /\ client'[c].pc = p /\ client'[c].op = client[c].op
                 /\ client'[c].step = client[c].step
                 /\ client'[c].request = client[c].request
      BY <2>2, Gone DEF Pipe!IInv, Pipe!TypeOK
    <2> QED
      BY <1>10, <2>1, <2>2 DEF Pipe!ReadAnswer
  <1>11. ASSUME NEW c \in Clients, Pipe!Finish(c) PROVE Pipe!RequestArrives'
    <2>1. CASE client' = [client EXCEPT ![c] = Pipe!Idle]
      BY <1>11, <2>1 DEF Pipe!Finish
    <2>2. ASSUME NEW k, client' = [client EXCEPT ![c] = k], Again(c, k) PROVE Pipe!RequestArrives'
      BY ZenonT(60), <1>11, <2>2 DEF Pipe!Finish, Again
    <2> QED
      BY <1>11, <2>1, <2>2, FinishCases
  <1>12. ASSUME NEW c \in Clients, Pipe!Command(c) PROVE Pipe!RequestArrives'
    <2>1. PICK op \in {"type", "press", "hold", "wait-hook", "wait-paliv", "wait-event", "shutdown"},
               r \in Pipe!AllRequests :
            Pipe!Begin(c, op, r) /\ (r.kind = "type_text" => r.text \in Texts)
      BY <1>12, CommandCases
    <2> QED
      BY <2>1 DEF Pipe!Begin
  <1>13. ASSUME NEW c \in Clients, Pipe!DeadlinePasses(c) PROVE Pipe!RequestArrives'
    BY <1>13 DEF Pipe!DeadlinePasses
  <1>14. ASSUME Pipe!IncrementHookCall PROVE Pipe!RequestArrives'
    BY <1>14 DEF Pipe!IncrementHookCall
  <1>15. ASSUME Pipe!ObservePalivEntry PROVE Pipe!RequestArrives'
    BY <1>15 DEF Pipe!ObservePalivEntry
  <1>16. CASE UNCHANGED pipeVars
    BY <1>16 DEF pipeVars
  <1> QED
    BY <1>1, <1>2, <1>3, <1>4, <1>5, <1>6, <1>7, <1>8, <1>9, <1>10, <1>11, <1>12, <1>13,
       <1>14, <1>15, <1>16
       DEF Pipe!Next, Pipe!Serve, Pipe!Exchange

\* A release that was answered well let the key go.
LEMMA KeyStep == Pipe!IInv /\ [Pipe!Next]_pipeVars => Pipe!KeyInv'
  <1> SUFFICES ASSUME Pipe!IInv, [Pipe!Next]_pipeVars PROVE Pipe!KeyInv'
    OBVIOUS
  <1> USE DEF Pipe!IInv, Pipe!TypeOK, Pipe!ServerTypes, Pipe!ClientTypes, Pipe!ServeInv,
         Pipe!Free, Pipe!Idle, Pipe!Reply, Pipe!KeyInv, Pipe!Releasing
  <1>1. ASSUME Pipe!CreatePipe PROVE Pipe!KeyInv'
    BY <1>1 DEF Pipe!CreatePipe, Pipe!gameVars
  <1>2. ASSUME Pipe!ReadRequest PROVE Pipe!KeyInv'
    BY <1>2, ReadRequestRead DEF Pipe!ReadRequest, Pipe!gameVars
  <1>3. ASSUME Pipe!DispatchCommand PROVE Pipe!KeyInv'
    <2>1. server.pc = "execute" /\ server.c \in Clients /\ UNCHANGED client
          /\ client[server.c].pc = "reading" /\ server.request = client[server.c].request
      BY <1>3 DEF Pipe!DispatchCommand, Pipe!RequestArrives
    <2>2. \A c \in Clients \ {server.c} : c \in keys' => c \in keys
      BY <1>3 DEF Pipe!DispatchCommand
    <2>3. server'.c = server.c
      BY ZenonT(60), <1>3 DEF Pipe!DispatchCommand
    <2>4. ASSUME server'.ok, Pipe!Releasing(server.c), server'.pc = "close" PROVE server.c \notin keys'
      <3>1. server.request = Pipe!KeyRequest(FALSE)
        BY <2>1, <2>4 DEF Pipe!StepInv, Pipe!Releasing
      <3>2. server.request.kind = "simulate_key" /\ ~server.request.key
        BY <3>1, KeyRequestType
      <3> QED
        BY <1>3, <2>4, <3>2 DEF Pipe!DispatchCommand
    <2> QED
      BY <2>1, <2>2, <2>3, <2>4
  <1>4. ASSUME Pipe!WaitWakes PROVE Pipe!KeyInv'
    <2>1. ~Pipe!Releasing(server.c)
      <3>1. server.request = client[server.c].request /\ client[server.c].pc = "reading"
            /\ server.c \in Clients /\ server.request.kind # "simulate_key"
        BY <1>4 DEF Pipe!WaitWakes, Pipe!RequestArrives
      <3>2. Pipe!KeyRequest(FALSE).kind = "simulate_key"
        BY KeyRequestType
      <3>3. Pipe!Releasing(server.c) => client[server.c].request = Pipe!KeyRequest(FALSE)
        BY <3>1 DEF Pipe!StepInv, Pipe!Releasing
      <3> QED
        BY <3>1, <3>2, <3>3
    <2>2. server'.c = server.c /\ UNCHANGED <<client, keys>>
      BY <1>4 DEF Pipe!WaitWakes, Pipe!gameVars
    <2> QED
      BY <2>1, <2>2
  <1>5. ASSUME Pipe!WaitTimesOut PROVE Pipe!KeyInv'
    <2>1. ~Pipe!Releasing(server.c)
      <3>1. server.request = client[server.c].request /\ client[server.c].pc = "reading"
            /\ server.c \in Clients /\ server.request.kind # "simulate_key"
        BY <1>5 DEF Pipe!WaitTimesOut, Pipe!RequestArrives
      <3>2. Pipe!KeyRequest(FALSE).kind = "simulate_key"
        BY KeyRequestType
      <3>3. Pipe!Releasing(server.c) => client[server.c].request = Pipe!KeyRequest(FALSE)
        BY <3>1 DEF Pipe!StepInv, Pipe!Releasing
      <3> QED
        BY <3>1, <3>2, <3>3
    <2>2. server'.c = server.c /\ UNCHANGED <<client, keys>>
      BY <1>5 DEF Pipe!WaitTimesOut, Pipe!gameVars
    <2> QED
      BY <2>1, <2>2
  <1>6. ASSUME Pipe!Disconnect PROVE Pipe!KeyInv'
    <2>1. /\ server.c \in Clients
          /\ \/ UNCHANGED client /\ client[server.c].pc # "reading"
             \/ /\ Goes(server.c, "answer") /\ client[server.c].pc = "reading"
                /\ client'[server.c].answer = "pipe"
      BY <1>6, DisconnectCases DEF Pipe!IInv, Pipe!TypeOK
    <2>2. ASSUME NEW p, Goes(server.c, p), server.c \in Clients
          PROVE  /\ Pipe!ClientTypes'
                 /\ \A d \in Clients \ {server.c} : client'[d] = client[d]
                 /\ client'[server.c].pc = p /\ client'[server.c].op = client[server.c].op
                 /\ client'[server.c].step = client[server.c].step
                 /\ client'[server.c].request = client[server.c].request
      BY <2>2, Gone DEF Pipe!IInv, Pipe!TypeOK
    <2> QED
      BY <1>6, <2>1, <2>2 DEF Pipe!Disconnect, Pipe!gameVars
  <1>7. ASSUME NEW c \in Clients, Pipe!WaitNamedPipe(c) PROVE Pipe!KeyInv'
    <2>1. Goes(c, "open")
      BY <1>7, WaitCases DEF Pipe!IInv, Pipe!TypeOK
    <2>2. ASSUME NEW p, Goes(c, p), c \in Clients
          PROVE  /\ Pipe!ClientTypes'
                 /\ \A d \in Clients \ {c} : client'[d] = client[d]
                 /\ client'[c].pc = p /\ client'[c].op = client[c].op
                 /\ client'[c].step = client[c].step
                 /\ client'[c].request = client[c].request
      BY <2>2, Gone DEF Pipe!IInv, Pipe!TypeOK
    <2> QED
      BY <1>7, <2>1, <2>2 DEF Pipe!WaitNamedPipe, Pipe!gameVars
  <1>8. ASSUME NEW c \in Clients, Pipe!WaitNamedPipeTimesOut(c) PROVE Pipe!KeyInv'
    <2>1. Goes(c, "answer") /\ client'[c].answer = "pipe"
      BY <1>8, WaitCases DEF Pipe!IInv, Pipe!TypeOK
    <2>2. ASSUME NEW p, Goes(c, p), c \in Clients
          PROVE  /\ Pipe!ClientTypes'
                 /\ \A d \in Clients \ {c} : client'[d] = client[d]
                 /\ client'[c].pc = p /\ client'[c].op = client[c].op
                 /\ client'[c].step = client[c].step
                 /\ client'[c].request = client[c].request
      BY <2>2, Gone DEF Pipe!IInv, Pipe!TypeOK
    <2> QED
      BY <1>8, <2>1, <2>2 DEF Pipe!WaitNamedPipeTimesOut, Pipe!gameVars
  <1>9. ASSUME NEW c \in Clients, Pipe!OpenPipe(c) PROVE Pipe!KeyInv'
    <2>1. /\ client[c].pc = "open"
          /\ \/ /\ Goes(c, "reading") /\ pipe = "listening" /\ pipe' = "busy"
                /\ server' = [server EXCEPT !.pc = "read", !.c = c]
             \/ Goes(c, "answer") /\ client'[c].answer = "pipe" /\ UNCHANGED <<pipe, server>>
      BY <1>9, OpenCases DEF Pipe!IInv, Pipe!TypeOK
    <2>2. ASSUME NEW p, Goes(c, p)
          PROVE  /\ Pipe!ClientTypes'
                 /\ \A d \in Clients \ {c} : client'[d] = client[d]
                 /\ client'[c].pc = p /\ client'[c].op = client[c].op
                 /\ client'[c].step = client[c].step
                 /\ client'[c].request = client[c].request
      BY <2>2, Gone DEF Pipe!IInv, Pipe!TypeOK
    <2>3. CASE UNCHANGED <<pipe, server>> /\ Goes(c, "answer") /\ client'[c].answer = "pipe"
      BY <1>9, <2>1, <2>2, <2>3 DEF Pipe!OpenPipe, Pipe!gameVars
    <2>4. CASE /\ Goes(c, "reading") /\ pipe = "listening" /\ pipe' = "busy"
               /\ server' = [server EXCEPT !.pc = "read", !.c = c]
      <3>1. server'.pc = "read" /\ server'.c = c
        BY <2>4 DEF Pipe!IInv, Pipe!TypeOK, Pipe!ServerTypes
      <3> QED
        BY <1>9, <2>1, <2>2, <2>4, <3>1 DEF Pipe!OpenPipe, Pipe!gameVars
    <2> QED
      BY <2>1, <2>3, <2>4
  <1>10. ASSUME NEW c \in Clients, Pipe!ReadAnswer(c) PROVE Pipe!KeyInv'
    <2>1. Goes(c, "answer") /\ (client'[c].answer = "ok" => server.ok)
      BY <1>10, ReadAnswerCases DEF Pipe!IInv, Pipe!TypeOK
    <2>2. ASSUME NEW p, Goes(c, p), c \in Clients
          PROVE  /\ Pipe!ClientTypes'
                 /\ \A d \in Clients \ {c} : client'[d] = client[d]
                 /\ client'[c].pc = p /\ client'[c].op = client[c].op
                 /\ client'[c].step = client[c].step
                 /\ client'[c].request = client[c].request
      BY <2>2, Gone DEF Pipe!IInv, Pipe!TypeOK
    <2> QED
      BY <1>10, <2>1, <2>2 DEF Pipe!ReadAnswer, Pipe!gameVars
  <1>11. ASSUME NEW c \in Clients, Pipe!Finish(c) PROVE Pipe!KeyInv'
    <2>1. CASE client' = [client EXCEPT ![c] = Pipe!Idle]
      BY <1>11, <2>1 DEF Pipe!Finish, Pipe!gameVars
    <2>2. ASSUME NEW k, client' = [client EXCEPT ![c] = k], Again(c, k) PROVE Pipe!KeyInv'
      <3>1. k.pc = "wait" /\ UNCHANGED <<server, keys>> /\ client[c].pc = "answer"
        BY ZenonT(60), <1>11, <2>2 DEF Pipe!Finish, Pipe!gameVars, Again
      <3> HIDE DEF Pipe!Releasing
      <3>2. \A d \in Clients \ {c} : client'[d] = client[d]
        BY <2>2
      <3>3. client'[c].pc = "wait"
        BY <2>2, <3>1
      <3>4. \A d \in Clients \ {c} : Pipe!Releasing(d)' <=> Pipe!Releasing(d)
        BY <3>2 DEF Pipe!Releasing
      <3> QED
        BY <3>1, <3>2, <3>3, <3>4
    <2> QED
      BY <1>11, <2>1, <2>2, FinishCases
  <1>12. ASSUME NEW c \in Clients, Pipe!Command(c) PROVE Pipe!KeyInv'
    <2>1. PICK op \in {"type", "press", "hold", "wait-hook", "wait-paliv", "wait-event", "shutdown"},
               r \in Pipe!AllRequests :
            Pipe!Begin(c, op, r) /\ (r.kind = "type_text" => r.text \in Texts)
      BY <1>12, CommandCases
    <2> QED
      BY <2>1 DEF Pipe!Begin, Pipe!gameVars
  <1>13. ASSUME NEW c \in Clients, Pipe!DeadlinePasses(c) PROVE Pipe!KeyInv'
    BY <1>13 DEF Pipe!DeadlinePasses, Pipe!gameVars
  <1>14. ASSUME Pipe!IncrementHookCall PROVE Pipe!KeyInv'
    BY <1>14 DEF Pipe!IncrementHookCall
  <1>15. ASSUME Pipe!ObservePalivEntry PROVE Pipe!KeyInv'
    BY <1>15 DEF Pipe!ObservePalivEntry
  <1>16. CASE UNCHANGED pipeVars
    BY <1>16 DEF pipeVars
  <1> QED
    BY <1>1, <1>2, <1>3, <1>4, <1>5, <1>6, <1>7, <1>8, <1>9, <1>10, <1>11, <1>12, <1>13,
       <1>14, <1>15, <1>16
       DEF Pipe!Next, Pipe!Serve, Pipe!Exchange

\* All of it holds at the start and stays.
LEMMA PipeInvariant == Spec => []Pipe!IInv
  <1>1. Init => Pipe!IInv
    <2> SUFFICES ASSUME Init PROVE Pipe!IInv
      OBVIOUS
    <2>1. Pipe!Init
      BY DEF Init
    <2>2. Pipe!TypeOK
      BY <2>1, PipeAssumption, NoRequestType
         DEF Pipe!Init, Pipe!TypeOK, Pipe!ServerTypes, Pipe!ClientTypes, Pipe!GameTypes,
             Pipe!PipeTypes, Pipe!Free, Pipe!Idle
    <2> QED
      BY <2>1, <2>2
         DEF Pipe!Init, Pipe!IInv, Pipe!ServeInv, Pipe!StepInv, Pipe!RequestArrives, Pipe!KeyInv,
             Pipe!Free, Pipe!Idle
  <1>2. [Next]_vars => [Pipe!Next]_pipeVars
    BY DEF Next, SettingsStep, WindowStep, RefsStep, PipeStep, MemoryStep, FilesStep, CrashStep, vars
  <1>3. Pipe!IInv /\ [Pipe!Next]_pipeVars => Pipe!IInv'
    <2> SUFFICES ASSUME Pipe!IInv, [Pipe!Next]_pipeVars PROVE Pipe!IInv'
      OBVIOUS
    <2>1. Pipe!TypeOK'
      BY ServerTypesStep, PipeTypesStep, ClientTypesStep, PublishedTypesStep DEF Pipe!TypeOK
    <2> QED
      BY <2>1, ServeStep, StepInvStep, ArrivesStep, KeyStep DEF Pipe!IInv
  <1> QED
    BY <1>1, <1>2, <1>3, PTL DEF Spec

\* The runtime executes what the client was told to send: whatever is typed, its
\* spaces, equals and percent signs come through the escapes and the cut into
\* tokens (protocol.cpp:76-108).
THEOREM RequestsArrive == Spec => []PipeHolds
  <1>1. Pipe!IInv => PipeHolds
    BY DEF Pipe!IInv, PipeHolds
  <1> QED
    BY <1>1, PipeInvariant, PTL

\* A press or hold that ends with its key still down had its first or its last
\* exchange go wrong: a repeat that fails is followed by a release
\* (cli/main.cpp:848-968).
THEOREM HeldKeyIsReleased == Spec => KeyComesUp
  <1> DEFINE Safe == \A c \in Clients :
               (client[c].pc = "answer" /\ client[c].op \in {"press", "hold"}
                  /\ client'[c].pc = "idle" /\ c \in keys)
                 => client[c].answer # "ok" /\ client[c].step # "repeat"
  <1>1. Pipe!IInv /\ [Next]_vars => [Safe]_Pipe!vars
    <2> SUFFICES ASSUME Pipe!IInv, [Pipe!Next]_pipeVars PROVE Safe
      BY DEF Next, SettingsStep, WindowStep, RefsStep, PipeStep, MemoryStep, FilesStep, CrashStep, vars
    <2> SUFFICES ASSUME NEW c \in Clients, client[c].pc = "answer", client'[c].pc = "idle",
                        client[c].op \in {"press", "hold"}, c \in keys
                 PROVE  client[c].answer # "ok" /\ client[c].step # "repeat"
      OBVIOUS
    <2> USE DEF Pipe!IInv, Pipe!TypeOK, Pipe!ClientTypes
    <2>1. CASE Pipe!Finish(c)
      <3>1. ASSUME NEW k, client' = [client EXCEPT ![c] = k], Again(c, k) PROVE FALSE
        BY <3>1 DEF Again
      <3>2. Ends(c)
        BY <2>1, <3>1, FinishCases
      <3>3. (client[c].answer = "ok" /\ Pipe!Releasing(c)) => c \notin keys
        BY DEF Pipe!KeyInv
      <3> QED
        BY <3>2, <3>3 DEF Ends, Pipe!Releasing
    <2>2. ASSUME NEW d \in Clients, \E k : client' = [client EXCEPT ![d] = k], d # c PROVE FALSE
      BY <2>2
    <2>3. ASSUME NEW d \in Clients, Pipe!Finish(d) PROVE d = c
      <3>1. \E k : client' = [client EXCEPT ![d] = k]
        BY <2>3, FinishCases
      <3> QED
        BY <2>2, <3>1
    <2>4. ASSUME NEW d \in Clients, Pipe!Command(d) PROVE FALSE
      BY <2>4, CommandCases DEF Pipe!Begin
    <2>5. ~UNCHANGED client
      OBVIOUS
    <2>6. ~Pipe!Serve
      BY <2>5 DEF Pipe!Serve, Pipe!CreatePipe, Pipe!ReadRequest, Pipe!DispatchCommand, Pipe!WaitWakes,
                  Pipe!WaitTimesOut, Pipe!Disconnect
    <2>7. ASSUME NEW d \in Clients,
                 \/ Pipe!WaitNamedPipe(d) \/ Pipe!WaitNamedPipeTimesOut(d) \/ Pipe!OpenPipe(d)
                 \/ Pipe!ReadAnswer(d) \/ Pipe!DeadlinePasses(d)
          PROVE  FALSE
      BY <2>7 DEF Pipe!WaitNamedPipe, Pipe!WaitNamedPipeTimesOut, Pipe!OpenPipe, Pipe!ReadAnswer,
                  Pipe!DeadlinePasses
    <2>8. ~(Pipe!IncrementHookCall \/ Pipe!ObservePalivEntry)
      BY <2>5 DEF Pipe!IncrementHookCall, Pipe!ObservePalivEntry
    <2> QED
      BY <2>1, <2>3, <2>4, <2>5, <2>6, <2>7, <2>8 DEF Pipe!Next, Pipe!Exchange, pipeVars
  <1>2. [][Safe]_Pipe!vars => KeyComesUp
    BY DEF KeyComesUp, Pipe!KeyComesUp
  <1> QED
    BY <1>1, <1>2, PipeInvariant, PTL DEF Spec

-----------------------------------------------------------------------------
(* UI refs.                                                                *)

\* The record of a window.
WindowRecords == [name : STRING, up : Nat, left : Int, size : Int, click : BOOLEAN, edit : BOOLEAN]

\* The windows of a tree are numbered, and every parent comes before its windows.
LEMMA TreeFacts ==
  ASSUME NEW t, Ui!IsTree(t)
  PROVE  /\ t \in Seq(WindowRecords) /\ Len(t) \in Nat \ {0} /\ Ui!Refs(t) = 1..Len(t)
         /\ t[1].up = 0
         /\ \A i \in 1..Len(t) : t[i] \in WindowRecords /\ t[i].up \in Nat
         /\ \A i \in 1..Len(t) : t[i].up = 0 <=> i = 1
         /\ \A i \in 2..Len(t) : t[i].up \in 1..(i - 1)
  <1>1. t \in Seq(WindowRecords) /\ t # << >> /\ t[1].up = 0
    BY DEF Ui!IsTree, Ui!NoTree, WindowRecords
  <1>2. \A j \in 2..Len(t) : t[j].up \in 1..(j - 1)
    BY DEF Ui!IsTree
  <1>3. \A i \in 1..Len(t) : t[i] \in WindowRecords
    <2> HIDE DEF WindowRecords
    <2> QED
      BY <1>1
  <1>4. \A i \in 1..Len(t) : t[i].up \in Nat
    BY <1>3 DEF WindowRecords
  <1>5. Len(t) \in Nat \ {0} /\ Ui!Refs(t) = 1..Len(t)
    <2> HIDE DEF WindowRecords
    <2> QED
      BY <1>1 DEF Ui!Refs
  <1>6. \A i \in 1..Len(t) : t[i].up = 0 <=> i = 1
    <2> SUFFICES ASSUME NEW i \in 1..Len(t) PROVE t[i].up = 0 <=> i = 1
      OBVIOUS
    <2>1. CASE i = 1
      BY <2>1, <1>1
    <2>2. CASE i \in 2..Len(t)
      BY <2>2, <1>2
    <2> QED
      BY <1>5, <2>1, <2>2
  <1> QED
    BY <1>1, <1>2, <1>3, <1>4, <1>5, <1>6

\* What is added up along the parents of a window.
AlongStep(t, w, g, i) == w[i] + (IF t[i].up = 0 THEN 0 ELSE g[t[i].up])

\* There is such a sum for every window.
LEMMA AlongExists ==
  ASSUME NEW t, Ui!IsTree(t), NEW w \in [1..Len(t) -> Int]
  PROVE  \E g \in [1..Len(t) -> Int] : \A i \in 1..Len(t) : g[i] = AlongStep(t, w, g, i)
  <1> DEFINE n == Len(t)
             Upto(g, m) == \A i \in 1..n : i <= m => g[i] = AlongStep(t, w, g, i)
             S == {m \in Nat : \E g \in [1..n -> Int] : Upto(g, m)}
  <1>1. n \in Nat /\ \A i \in 1..n : t[i].up = 0 \/ (t[i].up \in 1..n /\ t[i].up < i)
    <2>1. \A i \in 2..Len(t) : t[i].up \in 1..(i - 1)
      BY TreeFacts
    <2> QED
      BY <2>1, TreeFacts
  <1>2. w \in [1..n -> Int]
    OBVIOUS
  <1> HIDE DEF n
  <1>3. 0 \in S
    <2>1. [i \in 1..n |-> 0] \in [1..n -> Int] /\ Upto([i \in 1..n |-> 0], 0)
      BY <1>1
    <2> QED
      BY <2>1
  <1>4. ASSUME NEW m \in Nat, m \in S PROVE m + 1 \in S
    <2>1. PICK g \in [1..n -> Int] : Upto(g, m)
      BY <1>4
    <2> DEFINE f == [i \in 1..n |-> IF i = m + 1 THEN AlongStep(t, w, g, i) ELSE g[i]]
    <2>2. \A i \in 1..n : AlongStep(t, w, g, i) \in Int
      <3> SUFFICES ASSUME NEW i \in 1..n PROVE AlongStep(t, w, g, i) \in Int
        OBVIOUS
      <3>1. w[i] \in Int /\ (t[i].up # 0 => g[t[i].up] \in Int)
        BY <1>1, <1>2, <2>1
      <3> QED
        BY <3>1 DEF AlongStep
    <2>3. f \in [1..n -> Int]
      <3> HIDE DEF Upto
      <3> QED
        BY <2>1, <2>2
    <2>4. \A i \in 1..n : f[i] = IF i = m + 1 THEN AlongStep(t, w, g, i) ELSE g[i]
      OBVIOUS
    <2> HIDE DEF f
    <2>5. Upto(f, m + 1)
      <3> SUFFICES ASSUME NEW i \in 1..n, i <= m + 1 PROVE f[i] = AlongStep(t, w, f, i)
        OBVIOUS
      <3>1. t[i].up # 0 => f[t[i].up] = g[t[i].up]
        BY <1>1, <2>4
      <3>2. AlongStep(t, w, f, i) = AlongStep(t, w, g, i)
        BY <3>1 DEF AlongStep
      <3>3. f[i] = AlongStep(t, w, g, i)
        BY <2>1, <2>4
      <3> QED
        BY <3>2, <3>3
    <2> HIDE DEF Upto
    <2> QED
      BY <2>3, <2>5
  <1>5. n \in S
    <2> HIDE DEF S
    <2> QED
      BY <1>1, <1>3, <1>4, SetInduction
  <1>6. PICK g \in [1..n -> Int] : Upto(g, n)
    BY <1>5
  <1> QED
    BY <1>1, <1>6 DEF n

\* What a parent passes on to its windows, every window has.
LEMMA AlongTyped ==
  ASSUME NEW t, Ui!IsTree(t), NEW d,
         \A i \in 1..Len(t) : t[i].up = 0 => d[i] \in Int,
         \A i \in 1..Len(t) : (t[i].up # 0 /\ d[t[i].up] \in Int) => d[i] \in Int
  PROVE  \A i \in 1..Len(t) : d[i] \in Int
  <1> DEFINE T == {i \in 1..Len(t) : d[i] \notin Int}
  <1> SUFFICES ASSUME T # {} PROVE FALSE
    OBVIOUS
  <1>1. Len(t) \in Nat
    BY TreeFacts
  <1>2. PICK i \in T : \A j \in T : i <= j
    <2>1. T \in SUBSET Nat
      BY <1>1
    <2> HIDE DEF T
    <2> QED
      BY <2>1, SmallestElement
  <1>3. t[i].up # 0 /\ i \in 2..Len(t)
    BY <1>1, <1>2, TreeFacts
  <1>4. t[i].up \in 1..(i - 1)
    BY <1>3, TreeFacts
  <1>5. t[i].up \in 1..Len(t) /\ t[i].up \notin T
    BY <1>1, <1>2, <1>4
  <1> QED
    BY <1>2, <1>3, <1>5

\* The recursive functions over a tree, plainly.
IsDepth(t, d) == d = [i \in Ui!Refs(t) |-> IF t[i].up = 0 THEN 0 ELSE d[t[i].up] + 1]
IsLeft(t, d) == d = [i \in Ui!Refs(t) |-> t[i].left + (IF t[i].up = 0 THEN 0 ELSE d[t[i].up])]

LEMMA DepthUnfolds == \A t : Ui!Depth(t) = CHOOSE d : IsDepth(t, d)
  BY Zenon DEF Ui!Depth, IsDepth

LEMMA LeftUnfolds == \A t : Ui!AbsoluteLeft(t) = CHOOSE d : IsLeft(t, d)
  BY Zenon DEF Ui!AbsoluteLeft, IsLeft

\* A window is one deeper than its parent.
LEMMA DepthFacts ==
  ASSUME NEW t, Ui!IsTree(t)
  PROVE  \A i \in 1..Len(t) :
           /\ Ui!Depth(t)[i] \in Int
           /\ Ui!Depth(t)[i] = IF t[i].up = 0 THEN 0 ELSE Ui!Depth(t)[t[i].up] + 1
  <1> DEFINE n == Len(t)
             w == [i \in 1..n |-> IF t[i].up = 0 THEN 0 ELSE 1]
  <1>1. n \in Nat /\ Ui!Refs(t) = 1..n /\ \A i \in 1..n : t[i].up = 0 \/ t[i].up \in 1..n
    <2>1. \A i \in 2..Len(t) : t[i].up \in 1..(i - 1)
      BY TreeFacts
    <2> QED
      BY <2>1, TreeFacts
  <1>2. PICK g \in [1..n -> Int] : \A i \in 1..n : g[i] = AlongStep(t, w, g, i)
    <2>1. w \in [1..Len(t) -> Int]
      OBVIOUS
    <2> HIDE DEF w
    <2> QED
      BY <2>1, AlongExists
  <1>3. \A i \in 1..n : g[i] = IF t[i].up = 0 THEN 0 ELSE g[t[i].up] + 1
    <2> SUFFICES ASSUME NEW i \in 1..n PROVE g[i] = IF t[i].up = 0 THEN 0 ELSE g[t[i].up] + 1
      OBVIOUS
    <2>1. w[i] = IF t[i].up = 0 THEN 0 ELSE 1
      OBVIOUS
    <2>2. t[i].up # 0 => g[t[i].up] \in Int
      BY <1>1, <1>2
    <2> HIDE DEF w, n
    <2> QED
      BY <1>2, <2>1, <2>2 DEF AlongStep
  <1> DEFINE h == [i \in 1..n |-> IF t[i].up = 0 THEN 0 ELSE g[t[i].up] + 1]
  <1>4. g = h
    <2>1. \A i \in 1..n : h[i] = g[i]
      BY <1>3
    <2>2. DOMAIN h = 1..n /\ h = [i \in 1..n |-> h[i]]
      OBVIOUS
    <2> HIDE DEF h, n, w
    <2> QED
      BY <1>2, <2>1, <2>2
  <1>5. IsDepth(t, g)
    BY <1>1, <1>4 DEF IsDepth
  <1> DEFINE d == Ui!Depth(t)
  <1>6. IsDepth(t, d)
    <2> HIDE DEF n, w, h
    <2> QED
      BY <1>5, DepthUnfolds, Zenon
  <1>7. \A i \in 1..n : d[i] = IF t[i].up = 0 THEN 0 ELSE d[t[i].up] + 1
    <2> HIDE DEF n, w, h, d
    <2> QED
      BY <1>1, <1>6 DEF IsDepth
  <1>8. \A i \in 1..n : d[i] \in Int
    <2> HIDE DEF d
    <2>1. \A i \in 1..Len(t) : t[i].up = 0 => d[i] \in Int
      BY <1>7
    <2>2. \A i \in 1..Len(t) : (t[i].up # 0 /\ d[t[i].up] \in Int) => d[i] \in Int
      BY <1>7
    <2> QED
      BY <2>1, <2>2, AlongTyped
  <1> QED
    BY <1>7, <1>8

\* The place of a window on the screen is a number.
LEMMA LeftFacts ==
  ASSUME NEW t, Ui!IsTree(t)
  PROVE  \A i \in 1..Len(t) : Ui!AbsoluteLeft(t)[i] \in Int
  <1> DEFINE n == Len(t)
             w == [i \in 1..n |-> t[i].left]
  <1>1. n \in Nat /\ Ui!Refs(t) = 1..n /\ \A i \in 1..n : t[i].up = 0 \/ t[i].up \in 1..n
    <2>1. \A i \in 2..Len(t) : t[i].up \in 1..(i - 1)
      BY TreeFacts
    <2> QED
      BY <2>1, TreeFacts
  <1>2. \A i \in 1..n : t[i].left \in Int
    BY TreeFacts DEF WindowRecords
  <1>3. PICK g \in [1..n -> Int] : \A i \in 1..n : g[i] = AlongStep(t, w, g, i)
    <2>1. w \in [1..Len(t) -> Int]
      BY <1>2
    <2> HIDE DEF w
    <2> QED
      BY <2>1, AlongExists
  <1> DEFINE h == [i \in 1..n |-> t[i].left + (IF t[i].up = 0 THEN 0 ELSE g[t[i].up])]
  <1>4. g = h
    <2>1. \A i \in 1..n : h[i] = AlongStep(t, w, g, i)
      BY DEF AlongStep
    <2>2. DOMAIN h = 1..n /\ h = [i \in 1..n |-> h[i]]
      OBVIOUS
    <2>3. \A i \in 1..n : g[i] = h[i]
      <3> HIDE DEF h, w, n
      <3> QED
        BY <1>3, <2>1
    <2> HIDE DEF h, n, w
    <2> QED
      BY <1>3, <2>2, <2>3
  <1>5. IsLeft(t, g)
    BY <1>1, <1>4 DEF IsLeft
  <1> DEFINE d == Ui!AbsoluteLeft(t)
  <1>6. IsLeft(t, d)
    <2> HIDE DEF n, w, h
    <2> QED
      BY <1>5, LeftUnfolds, Zenon
  <1>7. \A i \in 1..n : d[i] = t[i].left + (IF t[i].up = 0 THEN 0 ELSE d[t[i].up])
    <2> HIDE DEF n, w, h, d
    <2> QED
      BY <1>1, <1>6 DEF IsLeft
  <1> QED
    <2> HIDE DEF d
    <2>1. \A i \in 1..Len(t) : t[i].up = 0 => d[i] \in Int
      BY <1>2, <1>7
    <2>2. \A i \in 1..Len(t) : (t[i].up # 0 /\ d[t[i].up] \in Int) => d[i] \in Int
      BY <1>2, <1>7
    <2>3. \A i \in 1..Len(t) : d[i] \in Int
      BY <2>1, <2>2, AlongTyped
    <2> QED
      BY <2>3 DEF d

\* The parser, plainly: what it knows after so many lines.
ParseStep(lines, s, i) == IF i = 0 THEN Ui!NothingRead ELSE Ui!ParseLine(s[i - 1], lines[i])
IsParse(lines, s) == s = [i \in 0..Len(lines) |-> ParseStep(lines, s, i)]

LEMMA ParseUnfolds ==
  \A lines : lines # << >> => Ui!Parse(lines) = (CHOOSE s : IsParse(lines, s))[Len(lines)]
  BY Zenon DEF Ui!Parse, IsParse, ParseStep

\* It knows something after every line.
LEMMA ParseExists ==
  ASSUME NEW lines, Len(lines) \in Nat PROVE \E s : IsParse(lines, s)
  <1> DEFINE n == Len(lines)
             Upto(e, m) == \A i \in 0..n : i <= m => e[i] = ParseStep(lines, e, i)
             S == {m \in Nat : \E e : DOMAIN e = 0..n /\ Upto(e, m)}
  <1>1. n \in Nat
    OBVIOUS
  <1> HIDE DEF n
  <1>2. 0 \in S
    <2>1. Upto([i \in 0..n |-> Ui!NothingRead], 0)
      BY <1>1 DEF ParseStep
    <2> QED
      BY <2>1
  <1>3. ASSUME NEW m \in Nat, m \in S PROVE m + 1 \in S
    <2>1. PICK e : DOMAIN e = 0..n /\ Upto(e, m)
      BY <1>3
    <2> DEFINE f == [i \in 0..n |-> IF i = m + 1 THEN Ui!ParseLine(e[m], lines[m + 1]) ELSE e[i]]
    <2>2. \A i \in 0..n : i # m + 1 => f[i] = e[i]
      OBVIOUS
    <2>3. m + 1 \in 0..n => f[m + 1] = Ui!ParseLine(e[m], lines[m + 1])
      OBVIOUS
    <2>4. DOMAIN f = 0..n
      OBVIOUS
    <2> HIDE DEF f
    <2>5. Upto(f, m + 1)
      <3> SUFFICES ASSUME NEW i \in 0..n, i <= m + 1 PROVE f[i] = ParseStep(lines, f, i)
        OBVIOUS
      <3>1. CASE i = m + 1
        <4>1. i # 0 /\ i - 1 = m /\ m \in 0..n /\ m # m + 1
          BY <1>1, <3>1
        <4>2. f[m] = e[m]
          BY <2>2, <4>1
        <4> QED
          BY <2>3, <3>1, <4>1, <4>2 DEF ParseStep
      <3>2. CASE i <= m
        <4>1. e[i] = ParseStep(lines, e, i) /\ f[i] = e[i]
          BY <2>1, <2>2, <3>2
        <4>2. i # 0 => f[i - 1] = e[i - 1]
          BY <1>1, <2>2, <3>2
        <4> QED
          BY <4>1, <4>2 DEF ParseStep
      <3> QED
        BY <3>1, <3>2
    <2> HIDE DEF Upto
    <2> QED
      BY <2>4, <2>5
  <1>4. n \in S
    <2> HIDE DEF S
    <2> QED
      BY <1>1, <1>2, <1>3, SetInduction
  <1>5. PICK e : DOMAIN e = 0..n /\ Upto(e, n)
    BY <1>4
  <1>6. \A i \in 0..n : e[i] = ParseStep(lines, e, i)
    BY <1>1, <1>5
  <1> DEFINE h == [i \in 0..n |-> ParseStep(lines, e, i)]
  <1>7. \A i \in 0..n : h[i] = e[i]
    BY <1>6
  <1>8. \A i \in 0..n : ParseStep(lines, h, i) = ParseStep(lines, e, i)
    <2> HIDE DEF h
    <2>1. \A i \in 0..n : i # 0 => h[i - 1] = e[i - 1]
      BY <1>1, <1>7
    <2> QED
      BY <2>1 DEF ParseStep
  <1>9. h = [i \in 0..n |-> ParseStep(lines, h, i)]
    <2>1. [i \in 0..n |-> ParseStep(lines, h, i)] = [i \in 0..n |-> ParseStep(lines, e, i)]
      <3> HIDE DEF h
      <3> QED
        BY <1>8
    <2> QED
      BY <2>1
  <1> HIDE DEF h
  <1> QED
    BY <1>9 DEF IsParse, n

\* The windows still open after so many lines are the last one read and all
\* that it lies in, the outermost first.
Open(t, st, i) ==
  /\ st \in Seq(1..i) /\ Len(st) > 0 /\ st[1] = 1 /\ st[Len(st)] = i
  /\ \A k \in 2..Len(st) : t[st[k]].up = st[k - 1]
  /\ \A k \in 1..Len(st) : Ui!Depth(t)[st[k]] = k - 1

\* The parent of the next window is open, at the place that its depth says.
LEMMA ParentIsOpen ==
  ASSUME NEW t, Ui!IsTree(t), NEW i \in 1..(Len(t) - 1), NEW st, Open(t, st, i)
  PROVE  /\ Ui!Depth(t)[i + 1] \in 1..Len(st)
         /\ st[Ui!Depth(t)[i + 1]] = t[i + 1].up
  <1> DEFINE p == t[i + 1].up
             n == Len(st)
             T == {k \in 1..n : st[k] >= p}
  <1>1. Len(t) \in Nat /\ i \in Nat /\ i + 1 \in 2..Len(t) /\ p \in 1..i
    BY TreeFacts
  <1>2. \A k \in (p + 1)..i : t[k].up >= p
    BY SMTT(40), <1>1 DEF Ui!IsTree
  <1>3. st \in Seq(1..i) /\ n \in Nat \ {0} /\ st[1] = 1 /\ st[n] = i
    BY DEF Open
  <1>4. \A k \in 2..n : t[st[k]].up = st[k - 1]
    BY DEF Open
  <1>5. \A k \in 1..n : st[k] \in 1..i
    BY <1>3
  <1>6. T \in SUBSET Nat /\ n \in T
    <2> HIDE DEF p, n
    <2> QED
      BY <1>1, <1>3
  <1>7. PICK k \in T : \A j \in T : k <= j
    <2> HIDE DEF T
    <2> QED
      BY <1>6, SmallestElement
  <1>8. k \in 1..n /\ st[k] \in 1..i /\ st[k] >= p
    <2> HIDE DEF n, p
    <2> QED
      BY <1>5, <1>7
  <1>9. st[k] = p
    <2> SUFFICES ASSUME st[k] # p PROVE FALSE
      OBVIOUS
    <2> HIDE DEF n, p
    <2>1. st[k] \in (p + 1)..i
      BY <1>1, <1>8
    <2>2. k # 1
      BY <1>1, <1>3, <2>1
    <2>3. k \in 2..n /\ k - 1 \in 1..n
      BY <1>3, <1>8, <2>2
    <2>4. st[k - 1] >= p
      BY <1>2, <1>4, <2>1, <2>3
    <2>5. k - 1 \in T
      BY <2>3, <2>4
    <2> QED
      BY <1>7, <1>8, <2>5
  <1>10. Ui!Depth(t)[p] = k - 1
    <2>1. Ui!Depth(t)[st[k]] = k - 1
      BY <1>8 DEF Open
    <2> QED
      BY <1>9, <2>1
  <1>11. Ui!Depth(t)[i + 1] = Ui!Depth(t)[p] + 1
    <2>1. i + 1 \in 1..Len(t) /\ t[i + 1].up # 0
      BY <1>1
    <2> QED
      BY <2>1, DepthFacts
  <1>12. Ui!Depth(t)[i + 1] = k
    <2> HIDE DEF p, n
    <2> QED
      BY <1>3, <1>8, <1>10, <1>11
  <1> QED
    BY <1>8, <1>9, <1>12

\* The windows open after the next line.
LEMMA OpenNext ==
  ASSUME NEW t, Ui!IsTree(t), NEW i \in 1..(Len(t) - 1), NEW st, Open(t, st, i)
  PROVE  Open(t, Append(SubSeq(st, 1, Ui!Depth(t)[i + 1]), i + 1), i + 1)
  <1> DEFINE k == Ui!Depth(t)[i + 1]
             next == Append(SubSeq(st, 1, k), i + 1)
  <1>1. k \in 1..Len(st) /\ st[k] = t[i + 1].up /\ i \in Nat
    BY ParentIsOpen, TreeFacts
  <1>2. st \in Seq(1..i) /\ Len(st) \in Nat /\ st[1] = 1
    BY DEF Open
  <1>3. SubSeq(st, 1, k) \in Seq(1..i) /\ Len(SubSeq(st, 1, k)) = k
    <2> HIDE DEF k
    <2> QED
      BY <1>1, <1>2
  <1>4. \A j \in 1..k : SubSeq(st, 1, k)[j] = st[j]
    <2> HIDE DEF k
    <2> QED
      BY <1>1, <1>2
  <1>5. SubSeq(st, 1, k) \in Seq(1..(i + 1)) /\ k \in Nat
    <2> HIDE DEF k
    <2>1. \A j \in 1..k : SubSeq(st, 1, k)[j] \in 1..(i + 1)
      BY <1>1, <1>3
    <2> QED
      BY <1>1, <1>2, <1>3, <2>1
  <1>6. next \in Seq(1..(i + 1)) /\ Len(next) = k + 1 /\ next[k + 1] = i + 1
    <2> HIDE DEF k
    <2> QED
      BY <1>1, <1>3, <1>5
  <1>7. \A j \in 1..k : next[j] = st[j]
    <2> HIDE DEF k
    <2> QED
      BY <1>3, <1>4, <1>5
  <1> HIDE DEF next
  <1>8. \A j \in 2..Len(next) : t[next[j]].up = next[j - 1]
    <2> SUFFICES ASSUME NEW j \in 2..Len(next) PROVE t[next[j]].up = next[j - 1]
      OBVIOUS
    <2> HIDE DEF k
    <2>1. CASE j = k + 1
      BY <1>1, <1>5, <1>6, <1>7, <2>1
    <2>2. CASE j # k + 1
      <3>1. j \in 2..Len(st) /\ j \in 1..k /\ j - 1 \in 1..k
        BY <1>1, <1>2, <1>5, <1>6, <2>2
      <3>2. t[st[j]].up = st[j - 1]
        BY <3>1 DEF Open
      <3> QED
        BY <1>7, <3>1, <3>2
    <2> QED
      BY <2>1, <2>2
  <1>9. \A j \in 1..Len(next) : Ui!Depth(t)[next[j]] = j - 1
    <2> SUFFICES ASSUME NEW j \in 1..Len(next) PROVE Ui!Depth(t)[next[j]] = j - 1
      OBVIOUS
    <2>1. CASE j = k + 1
      <3>1. Ui!Depth(t)[next[j]] = k
        BY <1>6, <2>1
      <3> HIDE DEF k
      <3> QED
        BY <1>5, <2>1, <3>1
    <2>2. CASE j # k + 1
      <3> HIDE DEF k
      <3>1. j \in 1..k /\ j \in 1..Len(st)
        BY <1>1, <1>2, <1>5, <1>6, <2>2
      <3>2. Ui!Depth(t)[st[j]] = j - 1
        BY <3>1 DEF Open
      <3> QED
        BY <1>7, <3>1, <3>2
    <2> QED
      BY <2>1, <2>2
  <1>10. Len(next) > 0 /\ next[1] = 1 /\ next[Len(next)] = i + 1
    <2> HIDE DEF k
    <2> QED
      BY <1>1, <1>2, <1>5, <1>6, <1>7
  <1> QED
    BY <1>6, <1>8, <1>9, <1>10 DEF Open, next

\* One step of the parser on the next window of a tree.
LEMMA ParseNext ==
  ASSUME NEW t, Ui!IsTree(t), NEW i \in 1..(Len(t) - 1), NEW st, Open(t, st, i)
  PROVE  Ui!ParseLine([ok |-> TRUE, stack |-> st, tree |-> SubSeq(t, 1, i)], Ui!Serialize(t)[i + 1])
           = [ok |-> TRUE, stack |-> Append(SubSeq(st, 1, Ui!Depth(t)[i + 1]), i + 1),
              tree |-> SubSeq(t, 1, i + 1)]
  <1> DEFINE k == Ui!Depth(t)[i + 1]
             open == SubSeq(st, 1, k)
             known == SubSeq(t, 1, i)
             state == [ok |-> TRUE, stack |-> st, tree |-> known]
             line == Ui!Serialize(t)[i + 1]
  <1>1. k \in 1..Len(st) /\ st[k] = t[i + 1].up /\ i \in Nat /\ Len(t) \in Nat
    BY ParentIsOpen, TreeFacts
  <1>2. st \in Seq(1..i) /\ Len(st) \in Nat
    BY DEF Open
  <1>3. line = [depth |-> k, node |-> t[i + 1]]
    BY <1>1, TreeFacts DEF Ui!Serialize
  <1>4. open \in Seq(1..i) /\ Len(open) = k /\ open[k] = st[k]
    <2> HIDE DEF k
    <2> QED
      BY <1>1, <1>2
  <1>5. t \in Seq(WindowRecords) /\ t[i + 1] \in WindowRecords
    BY <1>1, TreeFacts
  <1>6. known \in Seq(WindowRecords) /\ Len(known) = i /\ SubSeq(t, 1, i + 1) = Append(known, t[i + 1])
    <2> HIDE DEF WindowRecords
    <2> QED
      BY SMTT(40), <1>1, <1>5
  <1>7. known # Ui!NoTree /\ open # << >>
    <2> HIDE DEF known, open, k, WindowRecords
    <2> QED
      BY <1>1, <1>4, <1>6 DEF Ui!NoTree
  <1>8. Ui!Last(open) = t[i + 1].up
    <2> HIDE DEF open, k
    <2> QED
      BY <1>1, <1>4 DEF Ui!Last
  <1>9. [t[i + 1] EXCEPT !.up = t[i + 1].up] = t[i + 1]
    BY <1>5 DEF WindowRecords
  <1>10. state.ok /\ state.stack = st /\ state.tree = known
    OBVIOUS
  <1>11. line.depth = k /\ line.node = t[i + 1]
    BY <1>3
  <1>12. ~(~state.ok \/ line.depth > Len(state.stack) \/ (line.depth = 0) # (state.tree = Ui!NoTree))
    <2> HIDE DEF state, line, known, open, k
    <2>1. state.ok /\ ~(k > Len(st)) /\ k # 0
      BY <1>1, <1>2, <1>10
    <2> QED
      BY <1>7, <1>10, <1>11, <2>1
  <1>13. Len(state.tree) + 1 = i + 1 /\ SubSeq(state.stack, 1, line.depth) = open
    <2> HIDE DEF known, WindowRecords, line, k
    <2> QED
      BY <1>6, <1>11
  <1>14. Ui!ParseLine(state, line) =
           [ok |-> TRUE, stack |-> Append(open, i + 1),
            tree |-> Append(known, [t[i + 1] EXCEPT !.up = t[i + 1].up])]
    <2> HIDE DEF state, line, known, open, k
    <2> QED
      BY <1>7, <1>8, <1>10, <1>11, <1>12, <1>13 DEF Ui!ParseLine
  <1> QED
    <2> HIDE DEF known, open
    <2>1. Ui!ParseLine(state, line) =
            [ok |-> TRUE, stack |-> Append(open, i + 1), tree |-> SubSeq(t, 1, i + 1)]
      BY <1>6, <1>9, <1>14
    <2> QED
      BY <2>1 DEF known, open

\* What is written of a tree reads back as that tree.
LEMMA ParseSerialize ==
  ASSUME NEW t, Ui!IsTree(t)
  PROVE  Ui!Parse(Ui!Serialize(t)).ok /\ Ui!Parse(Ui!Serialize(t)).tree = t
  <1> DEFINE lines == Ui!Serialize(t)
             n == Len(t)
             s == CHOOSE e : IsParse(lines, e)
             Known(i) == i \in 1..n =>
                           \E st : /\ Open(t, st, i)
                                   /\ s[i] = [ok |-> TRUE, stack |-> st, tree |-> SubSeq(t, 1, i)]
             S == {i \in Nat : Known(i)}
  <1>1. n \in Nat \ {0} /\ Ui!Refs(t) = 1..n
    BY TreeFacts
  <1>2. lines \in Seq({[depth |-> Ui!Depth(t)[i], node |-> t[i]] : i \in 1..n}) /\ Len(lines) = n
    <2> HIDE DEF n
    <2> QED
      BY <1>1 DEF Ui!Serialize
  <1>3. Ui!Parse(lines) = s[n]
    <2>1. lines # << >>
      <3> HIDE DEF lines, n
      <3> QED
        BY <1>1, <1>2
    <2> HIDE DEF lines, n
    <2> QED
      BY <1>2, <2>1, ParseUnfolds
  <1>4. IsParse(lines, s)
    <2>1. \E e : IsParse(lines, e)
      <3> HIDE DEF lines, n
      <3> QED
        BY <1>1, <1>2, ParseExists
    <2> HIDE DEF lines
    <2> QED
      BY <2>1, Zenon
  <1>5. \A i \in 0..n : s[i] = ParseStep(lines, s, i)
    <2> HIDE DEF lines, n, s
    <2> QED
      BY <1>2, <1>4 DEF IsParse
  <1> HIDE DEF s
  <1>6. 0 \in S
    BY <1>1
  <1>7. Known(1)
    <2>1. s[0] = Ui!NothingRead /\ s[1] = Ui!ParseLine(s[0], lines[1])
      <3>1. 0 \in 0..n /\ 1 \in 0..n /\ 1 # 0 /\ 1 - 1 = 0
        BY <1>1
      <3> HIDE DEF lines, n
      <3> QED
        BY <1>5, <3>1 DEF ParseStep
    <2>2. Ui!Depth(t)[1] = 0 /\ t[1].up = 0 /\ 1 \in 1..n
      <3>1. 1 \in 1..Len(t) /\ t[1].up = 0
        BY TreeFacts
      <3> QED
        BY <3>1, DepthFacts
    <2>3. lines[1] = [depth |-> 0, node |-> t[1]]
      BY <1>1, <2>2 DEF Ui!Serialize
    <2>4. t \in Seq(WindowRecords) /\ t[1] \in WindowRecords
      BY <2>2, TreeFacts
    <2>5. [t[1] EXCEPT !.up = 0] = t[1]
      BY <2>2, <2>4 DEF WindowRecords
    <2>6. SubSeq(t, 1, 1) = <<t[1]>>
      <3> DEFINE q == SubSeq(t, 1, 1)
      <3> HIDE DEF WindowRecords
      <3>1. q \in Seq(WindowRecords) /\ Len(q) = 1 /\ q[1] = t[1]
        BY <1>1, <2>4
      <3> HIDE DEF q
      <3>2. q = <<q[1]>>
        BY <3>1
      <3> QED
        BY <3>1, <3>2 DEF q
    <2>7. Ui!ParseLine(Ui!NothingRead, [depth |-> 0, node |-> t[1]])
            = [ok |-> TRUE, stack |-> <<1>>, tree |-> <<t[1]>>]
      <3> DEFINE line == [depth |-> 0, node |-> t[1]]
      <3>1. line.depth = 0 /\ line.node = t[1]
        OBVIOUS
      <3> HIDE DEF line
      <3>2. Ui!ParseLine(Ui!NothingRead, line)
              = [ok |-> TRUE, stack |-> Append(<< >>, 0 + 1), tree |-> Append(<< >>, [t[1] EXCEPT !.up = 0])]
        <4> DEFINE state == Ui!NothingRead
        <4>1. state.ok /\ state.stack = << >> /\ state.tree = Ui!NoTree
          BY DEF Ui!NothingRead
        <4>2. SubSeq(<< >>, 1, 0) = << >> /\ Len(<< >>) = 0 /\ Ui!NoTree = << >>
          BY DEF Ui!NoTree
        <4> HIDE DEF state
        <4>3. ~(~state.ok \/ line.depth > Len(state.stack) \/ (line.depth = 0) # (state.tree = Ui!NoTree))
          <5>1. state.ok /\ ~(line.depth > Len(state.stack))
            BY <3>1, <4>1, <4>2
          <5> QED
            BY <3>1, <4>1, <5>1
        <4>4. SubSeq(state.stack, 1, line.depth) = << >> /\ Len(state.tree) + 1 = 0 + 1
          BY <3>1, <4>1, <4>2
        <4>5. Ui!ParseLine(state, line)
                = [ok |-> TRUE, stack |-> Append(<< >>, 0 + 1), tree |-> Append(<< >>, [t[1] EXCEPT !.up = 0])]
          BY <3>1, <4>1, <4>2, <4>3, <4>4 DEF Ui!ParseLine
        <4> QED
          BY <4>5 DEF state
      <3>3. Append(<< >>, 0 + 1) = <<1>> /\ Append(<< >>, t[1]) = <<t[1]>>
        OBVIOUS
      <3> QED
        BY <2>5, <3>2, <3>3 DEF line
    <2>8. Open(t, <<1>>, 1)
      <3>1. <<1>> \in Seq(1..1) /\ Len(<<1>>) = 1 /\ <<1>>[1] = 1
        OBVIOUS
      <3> QED
        BY <2>2, <3>1 DEF Open
    <2>9. s[1] = [ok |-> TRUE, stack |-> <<1>>, tree |-> SubSeq(t, 1, 1)]
      BY <2>1, <2>3, <2>6, <2>7
    <2> QED
      BY <2>8, <2>9
  <1>8. ASSUME NEW i \in Nat, i \in S PROVE i + 1 \in S
    <2>0. Known(i + 1) => i + 1 \in S
      <3> HIDE DEF Known
      <3> QED
        OBVIOUS
    <2> SUFFICES Known(i + 1)
      BY <2>0
    <2>1. CASE i + 1 \notin 1..n
      BY <2>1
    <2>2. CASE i = 0
      <3>1. i + 1 = 1
        BY <2>2
      <3> QED
        BY <1>7, <3>1, Zenon
    <2>3. CASE i # 0 /\ i + 1 \in 1..n
      <3>1. i \in 1..n /\ i \in 1..(Len(t) - 1) /\ i + 1 \in 0..n /\ i + 1 # 0 /\ (i + 1) - 1 = i
        BY <1>1, <2>3
      <3>2. PICK st : Open(t, st, i) /\ s[i] = [ok |-> TRUE, stack |-> st, tree |-> SubSeq(t, 1, i)]
        BY <1>8, <3>1
      <3>3. s[i + 1] = Ui!ParseLine(s[i], lines[i + 1])
        <4> HIDE DEF lines, n
        <4> QED
          BY <1>5, <3>1 DEF ParseStep
      <3> DEFINE next == Append(SubSeq(st, 1, Ui!Depth(t)[i + 1]), i + 1)
      <3>4. s[i + 1] = [ok |-> TRUE, stack |-> next, tree |-> SubSeq(t, 1, i + 1)]
        BY <3>1, <3>2, <3>3, ParseNext
      <3>5. Open(t, next, i + 1)
        BY <3>1, <3>2, OpenNext
      <3> HIDE DEF next
      <3> QED
        BY <3>4, <3>5, Zenon
    <2> QED
      BY <2>1, <2>2, <2>3
  <1>9. n \in S
    <2> HIDE DEF S
    <2> QED
      BY <1>1, <1>6, <1>8, SetInduction
  <1>10. PICK st : s[n] = [ok |-> TRUE, stack |-> st, tree |-> SubSeq(t, 1, n)]
    <2>1. Known(n) /\ n \in 1..n
      <3> HIDE DEF Known
      <3> QED
        BY <1>1, <1>9
    <2> QED
      BY <2>1, Zenon
  <1>11. SubSeq(t, 1, n) = t
    <2>1. t \in Seq(WindowRecords)
      BY TreeFacts
    <2> HIDE DEF WindowRecords
    <2> QED
      BY <1>1, <2>1
  <1> QED
    BY <1>3, <1>10, <1>11

\* The parts of a scale, and the place the UI starts at.
LEMMA PlanFacts ==
  ASSUME NEW size \in {ClientSize, LogicalSize}
  PROVE  /\ Ui!ViewportPlan(size).num \in Nat \ {0} /\ Ui!ViewportPlan(size).den \in Nat \ {0}
         /\ Ui!ViewportPlan(size).origin \in Int
  <1>1. \A d \in {1, 2} : LogicalSize[d] \in Nat \ {0} /\ size[d] \in Nat \ {0}
    BY RefsAssumption
  <1>2. PICK d \in {1, 2} :
          Ui!ViewportPlan(size) =
            [num |-> size[d], den |-> LogicalSize[d],
             origin |-> size[1] * LogicalSize[d] - LogicalSize[1] * size[d]]
    BY DEF Ui!ViewportPlan
  <1>3. \A w, x, y, z \in Int : w * x - y * z \in Int
    OBVIOUS
  <1>4. size[1] * LogicalSize[d] - LogicalSize[1] * size[d] \in Int
    BY <1>1, <1>3
  <1> QED
    BY <1>1, <1>2, <1>4

\* Rounding stays within half a unit.
LEMMA RoundedFacts ==
  ASSUME NEW a \in Int, NEW unit \in Nat \ {0}
  PROVE  /\ Ui!Rounded(a, unit) \in Int
         /\ a >= 0 => /\ Ui!Rounded(a, unit) \in Nat
                      /\ 2 * (Ui!Rounded(a, unit) * unit) <= 2 * a + unit
                      /\ 2 * a < 2 * (Ui!Rounded(a, unit) * unit) + unit
  <1>1. \A m \in Nat, n \in Nat \ {0} :
          m \div n \in Nat /\ (m \div n) * n <= m /\ m < (m \div n) * n + n
    BY SMTT(60)
  <1>2. \A q, u \in Int : q * (2 * u) = 2 * (q * u)
    OBVIOUS
  <1>3. CASE a >= 0
    <2> DEFINE q == (2 * a + unit) \div (2 * unit)
    <2>1. Ui!Rounded(a, unit) = q
      BY <1>3 DEF Ui!Rounded
    <2>2. 2 * a + unit \in Nat /\ 2 * unit \in Nat \ {0}
      BY <1>3
    <2>3. q \in Nat /\ q * (2 * unit) <= 2 * a + unit /\ 2 * a + unit < q * (2 * unit) + 2 * unit
      BY <1>1, <2>2
    <2>4. q * (2 * unit) = 2 * (q * unit) /\ q * unit \in Int
      <3> HIDE DEF q
      <3> QED
        BY <1>2, <2>3
    <2> HIDE DEF q
    <2>5. 2 * (q * unit) <= 2 * a + unit /\ 2 * a < 2 * (q * unit) + unit
      BY <2>3, <2>4
    <2> QED
      BY <2>1, <2>3, <2>5
  <1>4. CASE ~(a >= 0)
    <2>1. Ui!Rounded(a, unit) = -((unit - 2 * a) \div (2 * unit))
      BY <1>4 DEF Ui!Rounded
    <2>2. unit - 2 * a \in Nat /\ 2 * unit \in Nat \ {0}
      BY <1>4
    <2>3. (unit - 2 * a) \div (2 * unit) \in Nat
      BY <1>1, <2>2
    <2> HIDE DEF Ui!Rounded
    <2> QED
      BY <1>4, <2>1, <2>3
  <1> QED
    BY <1>3, <1>4

\* A place that is projected is a point a message carries.
LEMMA PhysicalType ==
  ASSUME NEW size \in {ClientSize, LogicalSize}, NEW a \in Int
  PROVE  /\ Ui!Projected(Ui!ViewportPlan(size), a) \in Int
         /\ Ui!ToPhysical(Ui!ViewportPlan(size), a) \in Int
  <1> DEFINE plan == Ui!ViewportPlan(size)
             place == Ui!Projected(plan, a)
  <1>1. \A x, y, z \in Int : 2 * x * y + z \in Int
    OBVIOUS
  <1>2. place \in Int
    BY <1>1, PlanFacts DEF Ui!Projected
  <1>3. 2 * plan.den \in Nat \ {0}
    BY PlanFacts
  <1>4. Ui!Rounded(place, 2 * plan.den) \in Int
    <2> HIDE DEF place, plan
    <2> QED
      BY <1>2, <1>3, RoundedFacts
  <1>5. \A m \in Int : m % 65536 \in Int
    OBVIOUS
  <1>6. Ui!ToPhysical(plan, a) \in Int
    BY <1>4, <1>5 DEF Ui!ToPhysical
  <1> QED
    BY <1>2, <1>6

\* The point of a place the client did not refuse is within half a pixel of it.
LEMMA Nearest ==
  ASSUME NEW size \in {ClientSize, LogicalSize}, NEW a \in Int,
         Ui!Projects(Ui!ViewportPlan(size), a)
  PROVE  LET plan == Ui!ViewportPlan(size)
             x == Ui!ToPhysical(plan, a) * (2 * plan.den) - plan.origin
         IN /\ x \in Int
            /\ 2 * (a * plan.num) - plan.den < x /\ x <= 2 * (a * plan.num) + plan.den
  <1> DEFINE plan == Ui!ViewportPlan(size)
             unit == 2 * plan.den
             place == Ui!Projected(plan, a)
             q == Ui!Rounded(place, unit)
  <1>1. plan.num \in Nat \ {0} /\ plan.den \in Nat \ {0} /\ plan.origin \in Int
    BY PlanFacts
  <1>2. unit \in Nat \ {0} /\ place \in Nat /\ place <= 65535 * unit
    <2>1. unit \in Nat \ {0} /\ 65535 * unit \in Nat
      BY <1>1
    <2> HIDE DEF unit
    <2>2. place \in 0..(65535 * unit)
      BY DEF Ui!Projects, unit
    <2> QED
      BY <2>1, <2>2
  <1>3. place = 2 * (a * plan.num) + plan.origin /\ a * plan.num \in Int
    <2>1. \A x, y, z \in Int : 2 * x * y + z = 2 * (x * y) + z /\ x * y \in Int
      OBVIOUS
    <2> QED
      BY <1>1, <2>1 DEF Ui!Projected
  <1> HIDE DEF place
  <1>4. q \in Nat /\ 2 * (q * unit) <= 2 * place + unit /\ 2 * place < 2 * (q * unit) + unit
    <2> HIDE DEF unit
    <2> QED
      BY <1>2, RoundedFacts
  <1>5. q * unit \in Int
    <2>1. \A x, y \in Nat : x * y \in Int
      OBVIOUS
    <2> HIDE DEF q, unit
    <2> QED
      BY <1>2, <1>4, <2>1
  <1>6. q <= 65535
    <2> HIDE DEF q, unit
    <2>1. \A n \in Nat, u \in Nat \ {0} : n > 65535 => n * u >= 65536 * u
      BY SMTT(60)
    <2>2. q > 65535 => q * unit >= 65536 * unit
      BY <1>2, <1>4, <2>1
    <2>3. 2 * (q * unit) <= 131070 * unit + unit
      BY <1>2, <1>4, <1>5
    <2> QED
      BY <1>2, <1>4, <1>5, <2>2, <2>3
  <1>7. Ui!ToPhysical(plan, a) = q
    <2>1. q % 65536 = q
      <3> HIDE DEF q
      <3> QED
        BY <1>4, <1>6
    <2> QED
      BY <2>1 DEF Ui!ToPhysical, place
  <1>8. unit = 2 * plan.den
    OBVIOUS
  <1> DEFINE x == q * unit - plan.origin
  <1> HIDE DEF q, unit
  <1>9. /\ x \in Int
        /\ 2 * (a * plan.num) - plan.den < x /\ x <= 2 * (a * plan.num) + plan.den
    <2> DEFINE middle == a * plan.num
               grid == q * unit
    <2>1. grid \in Int /\ middle \in Int /\ place = 2 * middle + plan.origin /\ x = grid - plan.origin
          /\ 2 * grid <= 2 * place + unit /\ 2 * place < 2 * grid + unit
      BY <1>3, <1>4, <1>5
    <2> HIDE DEF x, grid, middle, plan
    <2> QED
      BY <1>1, <1>8, <2>1 DEF middle
  <1> QED
    BY <1>7, <1>8, <1>9

\* A click at the centre of a window that is wide enough goes down inside.
LEMMA CentreInside ==
  ASSUME NEW t, NEW r, Ui!AbsoluteLeft(t)[r] \in Int, t[r].size \in Int, t[r].size > 0,
         Ui!Wide(t, r), Ui!Projects(Ui!ViewportPlan(ClientSize), Ui!ClickPlan(t, r))
  PROVE  Ui!Inside(t, r, Ui!ToPhysical(Ui!ViewportPlan(ClientSize), Ui!ClickPlan(t, r)))
  <1> DEFINE plan == Ui!ViewportPlan(ClientSize)
             num == plan.num
             den == plan.den
             left == Ui!AbsoluteLeft(t)[r]
             width == t[r].size
             half == width \div 2
             a == Ui!ClickPlan(t, r)
             x == Ui!ToPhysical(plan, a) * (2 * den) - plan.origin
  <1>1. num \in Nat \ {0} /\ den \in Nat \ {0}
    BY PlanFacts
  <1>2. half \in Int /\ 2 * half <= width
    <2> HIDE DEF width
    <2> QED
      BY DEF width
  <1>3. a = left + half /\ a \in Int
    BY <1>2 DEF Ui!ClickPlan, Ui!Centre
  <1>4. x \in Int /\ 2 * (a * num) - den < x /\ x <= 2 * (a * num) + den
    <2> HIDE DEF a
    <2> QED
      BY <1>3, Nearest DEF a
  <1>5. den < 2 * (half * num)
    BY DEF Ui!Wide
  <1>6. left * (2 * num) <= x /\ x < (left + width) * (2 * num)
    <2>1. \A l, h, w \in Int, n \in Nat :
            /\ l * (2 * n) = 2 * (l * n) /\ (l + h) * n = l * n + h * n
            /\ (l + w) * (2 * n) = 2 * (l * n) + w * (2 * n)
            /\ l * n \in Int /\ h * n \in Int /\ w * (2 * n) \in Int
      BY SMTT(60)
    <2>2. \A h, w \in Int, n \in Nat : 2 * h <= w => 4 * (h * n) <= w * (2 * n)
      <3> SUFFICES ASSUME NEW h \in Int, NEW w \in Int, NEW n \in Nat, 2 * h <= w
                   PROVE  4 * (h * n) <= w * (2 * n)
        OBVIOUS
      <3>1. (w - 2 * h) * n >= 0
        <4>1. \A d, m \in Nat : d * m >= 0
          OBVIOUS
        <4>2. w - 2 * h \in Nat
          OBVIOUS
        <4> QED
          BY <4>1, <4>2
      <3>2. w * (2 * n) = 2 * ((w - 2 * h) * n) + 4 * (h * n)
        BY SMTT(60)
      <3> QED
        BY <3>1, <3>2
    <2>3. left \in Int /\ width \in Int
      OBVIOUS
    <2> HIDE DEF num, den, left, width, half, a, x
    <2> DEFINE ln == left * num
               hn == half * num
               wn == width * (2 * num)
    <2>4. a * num = ln + hn /\ left * (2 * num) = 2 * ln /\ (left + width) * (2 * num) = 2 * ln + wn
          /\ ln \in Int /\ hn \in Int /\ wn \in Int
      BY <1>1, <1>2, <1>3, <2>1, <2>3
    <2>5. 4 * hn <= wn
      BY <1>1, <1>2, <2>2, <2>3
    <2> HIDE DEF ln, hn, wn
    <2>6. den < 2 * hn
      BY <1>5 DEF hn
    <2> QED
      BY <1>1, <1>4, <2>4, <2>5, <2>6
  <1> QED
    BY <1>6 DEF Ui!Inside

\* The clients' trees are the game's.
LEMMA ViewerFacts ==
  ASSUME Ui!TypeOK, NEW c \in Clients
  PROVE  /\ viewer[c] \in Ui!Records
         /\ \A u \in {viewer[c].seen, viewer[c].copy, cache} :
              u = Ui!NoTree \/ (Ui!IsTree(u) /\ u \in Trees)
         /\ Ui!IsTree(tree) /\ tree \in Trees
  <1>1. viewer[c] \in Ui!Records
    BY DEF Ui!TypeOK, Ui!ClientTypes
  <1>2. {viewer[c].seen, viewer[c].copy} \subseteq Trees \union {Ui!NoTree}
    BY <1>1 DEF Ui!Records
  <1>3. tree \in Trees /\ cache \in Trees \union {Ui!NoTree}
    BY DEF Ui!TypeOK, Ui!GameTypes
  <1> QED
    BY <1>1, <1>2, <1>3, RefsAssumption

\* A ref there is, is a window of a tree.
LEMMA RefsOfTree ==
  ASSUME NEW u, u = Ui!NoTree \/ Ui!IsTree(u), NEW r \in Ui!Refs(u)
  PROVE  /\ Ui!IsTree(u) /\ u # Ui!NoTree
         /\ r \in Nat /\ u[r].left \in Int /\ u[r].size \in Int /\ Ui!AbsoluteLeft(u)[r] \in Int
  <1>1. u # Ui!NoTree
    BY DEF Ui!Refs, Ui!NoTree
  <1>2. Ui!IsTree(u)
    BY <1>1
  <1>3. r \in 1..Len(u) /\ Len(u) \in Nat /\ u[r] \in WindowRecords
    BY <1>2, TreeFacts
  <1>4. u[r].left \in Int /\ u[r].size \in Int
    BY <1>3 DEF WindowRecords
  <1>5. Ui!AbsoluteLeft(u)[r] \in Int
    BY <1>2, <1>3, LeftFacts
  <1> QED
    BY <1>1, <1>2, <1>3, <1>4, <1>5

\* What the record of a client that made a step says.
Sound(c, k) ==
  /\ k.pc # "plan"
  /\ k.pc = "send" => /\ k.op \in {"fill", "type"} \/ k.direct
                      /\ k.op = "fill" => k.ref \in Ui!Refs(k.seen)
  /\ (/\ k.pc = "down" /\ ~k.direct /\ k.op # "fill" /\ k.pid
      /\ c \notin moved.copy /\ Ui!Wide(tree, k.ref))
       => Ui!Inside(tree, k.ref, k.x)

\* A step of a client that reads no snapshot changes its record only.
Turn(c, k) ==
  /\ viewer' = [viewer EXCEPT ![c] = k]
  /\ k \in Ui!Records /\ k.seen = viewer[c].seen /\ Sound(c, k)
  /\ tree' = tree /\ cache' = cache /\ moved' = moved

\* The record of a client that waits, and those that commands start from.
LEMMA IdleType ==
  /\ Ui!Idle \in Ui!Records /\ Ui!Idle.pc = "idle" /\ ~Ui!Idle.direct
  /\ Ui!Idle.seen = Ui!NoTree /\ Ui!Idle.copy = Ui!NoTree
  BY DEF Ui!Idle, Ui!Records

\* A record stays one when its fields change.
LEMMA RecordKeeps ==
  ASSUME NEW k \in Ui!Records, NEW pc \in {"idle", "read", "plan", "send", "down", "up", "text"},
         NEW seen \in Trees \union {Ui!NoTree}
  PROVE  /\ [k EXCEPT !.pc = pc] \in Ui!Records /\ [k EXCEPT !.pc = pc].seen = k.seen
         /\ [k EXCEPT !.seen = seen] \in Ui!Records /\ [k EXCEPT !.seen = seen].pc = k.pc
  BY DEF Ui!Records

\* The record of a client that is done.
LEMMA DoneFacts ==
  ASSUME Ui!TypeOK, NEW c \in Clients
  PROVE  Ui!Done(c) \in Ui!Records /\ Ui!Done(c).pc = "idle" /\ Ui!Done(c).seen = viewer[c].seen
  <1>1. viewer[c].seen \in Trees \union {Ui!NoTree}
    BY ViewerFacts
  <1>2. Ui!Done(c).seen = viewer[c].seen
    BY IdleType DEF Ui!Done, Ui!Records
  <1> QED
    BY <1>1, <1>2, IdleType, RecordKeeps DEF Ui!Done

\* A client that is done made a turn.
LEMMA DoneTurn ==
  ASSUME Ui!TypeOK, NEW c \in Clients, viewer' = [viewer EXCEPT ![c] = Ui!Done(c)],
         UNCHANGED <<tree, cache, moved>>
  PROVE  \E k : Turn(c, k)
  <1> DEFINE k == Ui!Done(c)
  <1>1. k \in Ui!Records /\ k.pc = "idle" /\ k.seen = viewer[c].seen /\ viewer' = [viewer EXCEPT ![c] = k]
    BY DoneFacts
  <1> HIDE DEF k
  <1>2. Turn(c, k)
    BY <1>1 DEF Turn, Sound
  <1> QED
    BY <1>2

\* A command begins.
LEMMA CommandTurn ==
  ASSUME Ui!TypeOK, NEW c \in Clients, Ui!Command(c)
  PROVE  (\E k : Turn(c, k)) /\ focus' = focus /\ viewed' \in 0..MaxUiCommands
  <1> DEFINE seen == viewer[c].seen
             Good(m) == /\ [m EXCEPT !.seen = seen] \in Ui!Records
                        /\ m.pc \in {"read", "send"}
                        /\ m.pc = "send" => /\ m.op \in {"fill", "type"} \/ m.direct
                                            /\ m.op = "fill" => m.ref \in Ui!Refs(seen)
                        /\ [m EXCEPT !.seen = seen].pc = m.pc
                        /\ [m EXCEPT !.seen = seen].op = m.op
                        /\ [m EXCEPT !.seen = seen].ref = m.ref
                        /\ [m EXCEPT !.seen = seen].direct = m.direct
                        /\ [m EXCEPT !.seen = seen].seen = seen
  <1>1. seen \in Trees \union {Ui!NoTree} /\ \A r \in Ui!Refs(seen) : r \in Nat
    BY ViewerFacts, RefsOfTree
  <1>2. PICK m : Good(m) /\ Ui!Begin(c, m)
    <2>1. CASE \E direct, pid \in BOOLEAN, r \in Ui!Refs(seen) :
                 Ui!Begin(c, [Ui!Idle EXCEPT !.pc = "read", !.op = "click", !.ref = r,
                                             !.direct = direct, !.pid = pid])
      <3>1. PICK direct \in BOOLEAN, pid \in BOOLEAN, r \in Ui!Refs(seen) :
              Ui!Begin(c, [Ui!Idle EXCEPT !.pc = "read", !.op = "click", !.ref = r,
                                          !.direct = direct, !.pid = pid])
        BY <2>1
      <3>2. Good([Ui!Idle EXCEPT !.pc = "read", !.op = "click", !.ref = r,
                                 !.direct = direct, !.pid = pid])
        <4> HIDE DEF seen
        <4> QED
          BY ZenonT(60), <1>1, IdleType DEF Ui!Records
      <3> HIDE DEF Good
      <3> QED
        BY <3>1, <3>2
    <2>2. CASE \E direct \in BOOLEAN, p \in Paths :
                 Ui!Begin(c, [Ui!Idle EXCEPT !.pc = "read", !.op = "click-path", !.path = p,
                                             !.direct = direct])
      <3>1. PICK direct \in BOOLEAN, p \in Paths :
              Ui!Begin(c, [Ui!Idle EXCEPT !.pc = "read", !.op = "click-path", !.path = p,
                                          !.direct = direct])
        BY <2>2
      <3>2. Good([Ui!Idle EXCEPT !.pc = "read", !.op = "click-path", !.path = p, !.direct = direct])
        <4> HIDE DEF seen
        <4> QED
          BY <1>1, IdleType DEF Ui!Records
      <3> HIDE DEF Good
      <3> QED
        BY <3>1, <3>2
    <2>3. CASE \E p \in Paths :
                 Ui!Begin(c, [Ui!Idle EXCEPT !.pc = "read", !.op = "wait-path", !.path = p])
      <3>1. PICK p \in Paths :
              Ui!Begin(c, [Ui!Idle EXCEPT !.pc = "read", !.op = "wait-path", !.path = p])
        BY <2>3
      <3>2. Good([Ui!Idle EXCEPT !.pc = "read", !.op = "wait-path", !.path = p])
        <4> HIDE DEF seen
        <4> QED
          BY <1>1, IdleType DEF Ui!Records
      <3> HIDE DEF Good
      <3> QED
        BY <3>1, <3>2
    <2>4. CASE Ui!Begin(c, [Ui!Idle EXCEPT !.pc = "read", !.op = "snapshot"])
      <3>1. Good([Ui!Idle EXCEPT !.pc = "read", !.op = "snapshot"])
        <4> HIDE DEF seen
        <4> QED
          BY <1>1, IdleType DEF Ui!Records
      <3> HIDE DEF Good
      <3> QED
        BY <2>4, <3>1
    <2>5. CASE \E r \in Ui!Refs(seen) :
                 Ui!Begin(c, [Ui!Idle EXCEPT !.pc = "send", !.op = "fill", !.ref = r])
      <3>1. PICK r \in Ui!Refs(seen) :
              Ui!Begin(c, [Ui!Idle EXCEPT !.pc = "send", !.op = "fill", !.ref = r])
        BY <2>5
      <3>2. Good([Ui!Idle EXCEPT !.pc = "send", !.op = "fill", !.ref = r])
        <4> HIDE DEF seen
        <4> QED
          BY <1>1, IdleType DEF Ui!Records
      <3> HIDE DEF Good
      <3> QED
        BY <3>1, <3>2
    <2>6. CASE Ui!Begin(c, [Ui!Idle EXCEPT !.pc = "send", !.op = "type"])
      <3>1. Good([Ui!Idle EXCEPT !.pc = "send", !.op = "type"])
        <4> HIDE DEF seen
        <4> QED
          BY <1>1, IdleType DEF Ui!Records
      <3> HIDE DEF Good
      <3> QED
        BY <2>6, <3>1
    <2> HIDE DEF Good
    <2> QED
      BY <2>1, <2>2, <2>3, <2>4, <2>5, <2>6 DEF Ui!Command
  <1> DEFINE k == [m EXCEPT !.seen = seen]
  <1>3. /\ viewer' = [viewer EXCEPT ![c] = k] /\ UNCHANGED <<tree, focus, cache, moved>>
        /\ viewed < MaxUiCommands /\ viewed' = viewed + 1
    BY <1>2 DEF Ui!Begin
  <1>4. /\ k \in Ui!Records /\ k.pc \in {"read", "send"} /\ k.seen = seen
        /\ k.pc = "send" => /\ k.op \in {"fill", "type"} \/ k.direct
                            /\ k.op = "fill" => k.ref \in Ui!Refs(seen)
    BY <1>2
  <1> HIDE DEF k
  <1>5. Turn(c, k)
    BY <1>3, <1>4 DEF Turn, Sound
  <1>6. viewed' \in 0..MaxUiCommands
    BY <1>3, RefsAssumption DEF Ui!TypeOK, Ui!HistoryTypes
  <1> QED
    BY <1>3, <1>5, <1>6

\* A click is planned on the copy, inside the window it has there.
LEMMA PlanTurn ==
  ASSUME Ui!IInv, NEW c \in Clients, Ui!PlanClick(c)
  PROVE  \E k : Turn(c, k)
  <1> DEFINE v == viewer[c]
             copy == v.copy
             r == IF v.op = "click" THEN v.ref ELSE Ui!FindUnique(copy, v.path)
             size == IF v.pid /\ ~v.direct THEN ClientSize ELSE LogicalSize
             plan == Ui!ViewportPlan(size)
             x == Ui!ToPhysical(plan, Ui!ClickPlan(copy, r))
             bad == \/ r \notin Ui!Refs(copy) \/ ~copy[r].click \/ copy[r].size <= 0
                    \/ ~Ui!Projects(plan, Ui!ClickPlan(copy, r))
             k == [v EXCEPT !.ref = r, !.copy = Ui!NoTree,
                            !.pc = IF v.direct THEN "send" ELSE "down", !.x = x]
  <1>1. Ui!TypeOK /\ Ui!CopyInv
    BY DEF Ui!IInv
  <1>2. /\ v.pc = "plan" /\ v.op \in {"click", "click-path"}
        /\ viewer' = [viewer EXCEPT ![c] = IF bad THEN Ui!Done(c) ELSE k]
        /\ UNCHANGED <<tree, cache, moved>>
    <2>1. Ui!ViewportPlan(IF v.pid /\ ~v.direct THEN ClientSize ELSE LogicalSize) = plan
      OBVIOUS
    <2> HIDE DEF plan
    <2> QED
      BY <2>1 DEF Ui!PlanClick
  <1> HIDE DEF bad, k
  <1>3. CASE bad
    <2>1. viewer' = [viewer EXCEPT ![c] = Ui!Done(c)]
      BY <1>2, <1>3
    <2> QED
      BY <1>1, <1>2, <2>1, DoneTurn
  <1>4. CASE ~bad
    <2>1. viewer' = [viewer EXCEPT ![c] = k]
      BY <1>2, <1>4
    <2>2. v \in Ui!Records /\ (copy = Ui!NoTree \/ Ui!IsTree(copy))
      BY <1>1, ViewerFacts
    <2> HIDE DEF r, size, v, plan
    <2>3. r \in Ui!Refs(copy) /\ ~(copy[r].size <= 0) /\ Ui!Projects(plan, Ui!ClickPlan(copy, r))
      BY <1>4 DEF bad
    <2>4. r \in Nat /\ copy[r].size \in Int /\ Ui!AbsoluteLeft(copy)[r] \in Int
      BY <2>2, <2>3, RefsOfTree
    <2>5. Ui!ClickPlan(copy, r) \in Int
      <3>1. copy[r].size \div 2 \in Int
        <4>1. \A w \in Int : w \div 2 \in Int
          OBVIOUS
        <4> QED
          BY <2>4, <4>1
      <3> QED
        BY <2>4, <3>1 DEF Ui!ClickPlan, Ui!Centre
    <2>6. size \in {ClientSize, LogicalSize} /\ (v.pid /\ ~v.direct => size = ClientSize)
      BY DEF size
    <2>7. x \in Int
      BY <2>5, <2>6, PhysicalType DEF plan
    <2>8. (v.pid /\ ~v.direct /\ Ui!Wide(copy, r)) => Ui!Inside(copy, r, x)
      <3> SUFFICES ASSUME v.pid, ~v.direct, Ui!Wide(copy, r) PROVE Ui!Inside(copy, r, x)
        OBVIOUS
      <3>1. plan = Ui!ViewportPlan(ClientSize)
        BY <2>6 DEF plan
      <3>2. copy[r].size > 0
        BY <2>3, <2>4
      <3> HIDE DEF copy
      <3> QED
        BY <2>3, <2>4, <3>1, <3>2, CentreInside
    <2> HIDE DEF x
    <2>9. /\ k \in Ui!Records /\ k.seen = v.seen /\ k.op = v.op /\ k.direct = v.direct
          /\ k.pid = v.pid /\ k.ref = r /\ k.x = x /\ k.pc = IF v.direct THEN "send" ELSE "down"
      BY <2>2, <2>4, <2>7 DEF k, Ui!Records
    <2>10. c \notin moved.copy => copy = tree
      BY <1>1, <1>2 DEF Ui!CopyInv, v
    <2>11. Sound(c, k)
      <3>1. k.op # "fill"
        BY <1>2, <2>9
      <3>2. k.pc = "send" => k.direct
        BY <2>9
      <3>3. (k.pid /\ ~k.direct /\ c \notin moved.copy /\ Ui!Wide(tree, k.ref))
              => Ui!Inside(tree, k.ref, k.x)
        <4> HIDE DEF copy
        <4> QED
          BY <2>8, <2>9, <2>10
      <3>4. k.pc # "plan"
        BY <2>9
      <3> QED
        BY <3>1, <3>2, <3>3, <3>4 DEF Sound
    <2>12. Turn(c, k)
      BY <1>2, <2>1, <2>9, <2>11 DEF Turn, v
    <2> QED
      BY <2>12
  <1> QED
    BY <1>3, <1>4

\* The runtime clicks by ref for a fill or a direct click only.
LEMMA SendTurn ==
  ASSUME Ui!IInv, NEW c \in Clients, Ui!SendRef(c)
  PROVE  \E k : Turn(c, k)
  <1> DEFINE v == viewer[c]
             r == v.ref
             accepted == Ui!Accepted(c)
             x == Ui!RuntimeClick(cache, r)
             k == [v EXCEPT !.pc = "down", !.x = x]
  <1>1. Ui!TypeOK /\ Ui!SendInv
    BY DEF Ui!IInv
  <1>2. /\ v.pc = "send" /\ v.op # "type"
        /\ viewer' = [viewer EXCEPT ![c] = IF ~accepted THEN Ui!Done(c) ELSE k]
        /\ UNCHANGED <<tree, cache, moved>>
    BY DEF Ui!SendRef
  <1> HIDE DEF k
  <1>3. CASE ~accepted
    <2>1. viewer' = [viewer EXCEPT ![c] = Ui!Done(c)]
      BY <1>2, <1>3
    <2> QED
      BY <1>1, <1>2, <2>1, DoneTurn
  <1>4. CASE accepted
    <2>1. viewer' = [viewer EXCEPT ![c] = k] /\ r \in Ui!Refs(cache)
      BY <1>2, <1>4 DEF Ui!Accepted
    <2>2. v \in Ui!Records /\ (cache = Ui!NoTree \/ Ui!IsTree(cache))
      BY <1>1, ViewerFacts
    <2>3. Ui!Half(cache[r].left + cache[r].left + cache[r].size) \in Int
      <3>1. cache[r].left + cache[r].left + cache[r].size \in Int
        BY <2>1, <2>2, RefsOfTree
      <3>2. \A b \in Int : b \div 2 \in Int /\ -((-b) \div 2) \in Int
        OBVIOUS
      <3> QED
        BY <3>1, <3>2 DEF Ui!Half
    <2>4. x \in Int
      BY <2>3, PhysicalType DEF Ui!RuntimeClick
    <2>5. v.op = "fill" \/ v.direct
      BY <1>1, <1>2 DEF Ui!SendInv
    <2> HIDE DEF x, v
    <2>6. k \in Ui!Records /\ k.seen = v.seen /\ k.pc = "down" /\ k.op = v.op /\ k.direct = v.direct
      BY <2>2, <2>4 DEF k, Ui!Records
    <2>7. Turn(c, k)
      BY <1>2, <2>1, <2>5, <2>6 DEF Turn, Sound, v
    <2> QED
      BY <2>7
  <1> QED
    BY <1>3, <1>4

\* The window under a point is one of the tree.
LEMMA WindowAtType ==
  ASSUME NEW t, Ui!IsTree(t), NEW raw
  PROVE  Ui!WindowAt(t, raw) \in Nat
  <1> DEFINE hit == {i \in Ui!Refs(t) : Ui!Inside(t, i, raw)}
  <1>1. hit \subseteq 0..Len(t) /\ Len(t) \in Nat
    BY TreeFacts
  <1>2. Ui!WindowAt(t, raw) = IF hit = {} THEN 0 ELSE Ui!Max(hit)
    BY DEF Ui!WindowAt
  <1> HIDE DEF hit
  <1>3. hit # {} => Ui!Max(hit) \in hit
    <2> SUFFICES ASSUME hit # {} PROVE Ui!Max(hit) \in hit
      OBVIOUS
    <2>1. \E m \in hit : \A y \in hit : m >= y
      BY <1>1, LargestElement
    <2> QED
      BY <2>1, Zenon DEF Ui!Max
  <1>4. \A i \in hit : i \in Nat
    BY <1>1
  <1>5. hit # {} => Ui!Max(hit) \in Nat
    BY <1>3, <1>4
  <1> QED
    BY <1>2, <1>5

\* The button goes down, and the window there has the focus.
LEMMA DownTurn ==
  ASSUME Ui!TypeOK, NEW c \in Clients, Ui!ButtonDown(c)
  PROVE  (\E k : Turn(c, k)) /\ focus' \in Nat
  <1> DEFINE pc == IF viewer[c].op = "fill" THEN "text" ELSE "up"
             k == [Ui!Done(c) EXCEPT !.pc = pc]
  <1>1. viewer' = [viewer EXCEPT ![c] = k] /\ UNCHANGED <<tree, cache, moved>>
        /\ focus' = Ui!WindowAt(tree, viewer[c].x)
    BY DEF Ui!ButtonDown
  <1>2. pc \in {"text", "up"}
    OBVIOUS
  <1>3. k \in Ui!Records /\ k.seen = viewer[c].seen /\ k.pc = pc
    <2> HIDE DEF pc
    <2>1. Ui!Done(c) \in Ui!Records
      BY DoneFacts
    <2>2. \A d \in Ui!Records : /\ [d EXCEPT !.pc = pc] \in Ui!Records
                                 /\ [d EXCEPT !.pc = pc].pc = pc
                                 /\ [d EXCEPT !.pc = pc].seen = d.seen
      BY <1>2 DEF Ui!Records
    <2> QED
      BY <2>1, <2>2, DoneFacts
  <1> HIDE DEF k
  <1>4. Turn(c, k)
    BY <1>1, <1>2, <1>3 DEF Turn, Sound
  <1>5. focus' \in Nat
    BY <1>1, ViewerFacts, WindowAtType
  <1> QED
    BY <1>4, <1>5

\* wait-path reads again, and type_text goes on.
LEMMA WaitTurn ==
  ASSUME Ui!TypeOK, NEW c \in Clients, Ui!WaitPath(c) \/ Ui!TypeIntoFocused(c)
  PROVE  \E k : Turn(c, k)
  <1>1. PICK pc \in {"read", "text"} :
          \/ viewer' = [viewer EXCEPT ![c] = Ui!Done(c)]
          \/ viewer' = [viewer EXCEPT ![c] = [viewer[c] EXCEPT !.pc = pc]]
    BY DEF Ui!WaitPath, Ui!TypeIntoFocused
  <1>2. UNCHANGED <<tree, cache, moved>>
    BY DEF Ui!WaitPath, Ui!TypeIntoFocused
  <1>3. CASE viewer' = [viewer EXCEPT ![c] = Ui!Done(c)]
    BY <1>2, <1>3, DoneTurn
  <1>4. CASE viewer' = [viewer EXCEPT ![c] = [viewer[c] EXCEPT !.pc = pc]]
    <2> DEFINE v == viewer[c]
               k == [v EXCEPT !.pc = pc]
    <2>1. v \in Ui!Records
      BY ViewerFacts
    <2> HIDE DEF v
    <2>2. k \in Ui!Records /\ k.seen = v.seen /\ k.pc = pc
      BY <1>1, <2>1 DEF Ui!Records
    <2> HIDE DEF k
    <2>3. viewer' = [viewer EXCEPT ![c] = k] /\ k.seen = viewer[c].seen
      BY <1>4, <2>2 DEF k, v
    <2>4. Turn(c, k)
      BY <1>1, <1>2, <2>2, <2>3 DEF Turn, Sound
    <2> QED
      BY <2>4
  <1> QED
    BY <1>1, <1>3, <1>4

\* The steps of the clients but the reading of a snapshot are turns.
LEMMA Turns ==
  ASSUME Ui!IInv, NEW c \in Clients,
         \/ Ui!Command(c) \/ Ui!SnapshotFails(c) \/ Ui!WaitPath(c) \/ Ui!DeadlinePasses(c)
         \/ Ui!PlanClick(c) \/ Ui!SendRef(c) \/ Ui!TypeIntoFocused(c) \/ Ui!ButtonDown(c)
         \/ Ui!ButtonUp(c) \/ Ui!Text(c)
  PROVE  (\E k : Turn(c, k)) /\ focus' \in Nat /\ viewed' \in 0..MaxUiCommands
  <1>1. Ui!TypeOK
    BY DEF Ui!IInv
  <1>2. focus \in Nat /\ viewed \in 0..MaxUiCommands
    BY <1>1 DEF Ui!TypeOK, Ui!GameTypes, Ui!HistoryTypes
  <1>3. ASSUME Ui!Command(c) PROVE (\E k : Turn(c, k)) /\ focus' \in Nat /\ viewed' \in 0..MaxUiCommands
    BY <1>1, <1>2, <1>3, CommandTurn
  <1>4. ASSUME Ui!SnapshotFails(c) \/ Ui!DeadlinePasses(c) \/ Ui!ButtonUp(c) \/ Ui!Text(c)
        PROVE  (\E k : Turn(c, k)) /\ focus' = focus /\ viewed' = viewed
    <2>1. viewer' = [viewer EXCEPT ![c] = Ui!Done(c)] /\ UNCHANGED <<tree, focus, cache, viewed, moved>>
      BY <1>4 DEF Ui!SnapshotFails, Ui!DeadlinePasses, Ui!ButtonUp, Ui!Text
    <2> QED
      BY <1>1, <2>1, DoneTurn
  <1>5. ASSUME Ui!WaitPath(c) \/ Ui!TypeIntoFocused(c)
        PROVE  (\E k : Turn(c, k)) /\ focus' = focus /\ viewed' = viewed
    <2>1. focus' = focus /\ viewed' = viewed
      BY <1>5 DEF Ui!WaitPath, Ui!TypeIntoFocused
    <2> QED
      BY <1>1, <1>5, <2>1, WaitTurn
  <1>6. ASSUME Ui!PlanClick(c) PROVE (\E k : Turn(c, k)) /\ focus' = focus /\ viewed' = viewed
    <2>1. focus' = focus /\ viewed' = viewed
      BY <1>6 DEF Ui!PlanClick
    <2> QED
      BY <1>6, <2>1, PlanTurn
  <1>7. ASSUME Ui!SendRef(c) PROVE (\E k : Turn(c, k)) /\ focus' = focus /\ viewed' = viewed
    <2>1. focus' = focus /\ viewed' = viewed
      BY <1>7 DEF Ui!SendRef
    <2> QED
      BY <1>7, <2>1, SendTurn
  <1>8. ASSUME Ui!ButtonDown(c) PROVE (\E k : Turn(c, k)) /\ focus' \in Nat /\ viewed' = viewed
    <2>1. viewed' = viewed
      BY <1>8 DEF Ui!ButtonDown
    <2> QED
      BY <1>1, <1>8, <2>1, DownTurn
  <1> QED
    BY <1>2, <1>3, <1>4, <1>5, <1>6, <1>7, <1>8

\* A snapshot is read: the client has the game's tree.
LEMMA ReadTurn ==
  ASSUME Ui!IInv, NEW c \in Clients, Ui!ReadSnapshotTree(c)
  PROVE  \E k \in Ui!Records :
           /\ viewer' = [viewer EXCEPT ![c] = k]
           /\ k.pc \in {"idle", "plan"} /\ (k.pc = "plan" => k.copy = tree)
           /\ k.seen = tree \/ (k.seen = viewer[c].seen /\ moved'.seen = moved.seen)
           /\ cache' = tree /\ tree' = tree /\ focus' = focus /\ viewed' = viewed
           /\ moved' \in [copy : SUBSET Clients, seen : SUBSET Clients]
           /\ moved.copy \subseteq moved'.copy \union {c}
           /\ moved.seen \subseteq moved'.seen \union {c}
  <1> DEFINE v == viewer[c]
             parsed == Ui!Parse(Ui!Serialize(tree))
             prints == v.op = "snapshot"
             k == IF prints THEN [Ui!Idle EXCEPT !.seen = tree]
                  ELSE [v EXCEPT !.copy = tree, !.pc = "plan"]
  <1>1. Ui!TypeOK /\ moved \in [copy : SUBSET Clients, seen : SUBSET Clients]
    BY DEF Ui!IInv, Ui!TypeOK, Ui!HistoryTypes
  <1>2. v \in Ui!Records /\ tree \in Trees /\ Ui!IsTree(tree)
    BY <1>1, ViewerFacts
  <1>3. parsed.ok /\ parsed.tree = tree
    BY <1>2, ParseSerialize
  <1>4. /\ cache' = tree /\ UNCHANGED <<tree, focus, viewed>>
        /\ viewer' = [viewer EXCEPT ![c] =
             IF ~parsed.ok THEN Ui!Done(c)
             ELSE IF prints THEN [Ui!Idle EXCEPT !.seen = parsed.tree]
             ELSE [v EXCEPT !.copy = parsed.tree, !.pc = "plan"]]
        /\ moved' = [copy |-> moved.copy \ {c},
                     seen |-> IF prints THEN moved.seen \ {c} ELSE moved.seen]
    BY DEF Ui!ReadSnapshotTree
  <1> HIDE DEF parsed
  <1>5. viewer' = [viewer EXCEPT ![c] = k]
    BY <1>3, <1>4
  <1> HIDE DEF v
  <1>6. prints => k \in Ui!Records /\ k.pc = "idle" /\ k.seen = tree
    <2>1. \A d \in Ui!Records : /\ [d EXCEPT !.seen = tree] \in Ui!Records
                                /\ [d EXCEPT !.seen = tree].pc = d.pc
                                /\ [d EXCEPT !.seen = tree].seen = tree
      BY <1>2 DEF Ui!Records
    <2> QED
      BY <2>1, IdleType
  <1>7. ~prints => k \in Ui!Records /\ k.pc = "plan" /\ k.copy = tree /\ k.seen = v.seen
    BY <1>2 DEF Ui!Records
  <1> HIDE DEF k, prints
  <1>8. k \in Ui!Records /\ k.pc \in {"idle", "plan"} /\ (k.pc = "plan" => k.copy = tree)
    BY <1>6, <1>7
  <1>9. k.seen = tree \/ (k.seen = v.seen /\ moved'.seen = moved.seen)
    BY <1>4, <1>6, <1>7
  <1>10. /\ moved' \in [copy : SUBSET Clients, seen : SUBSET Clients]
         /\ moved.copy \subseteq moved'.copy \union {c}
         /\ moved.seen \subseteq moved'.seen \union {c}
    BY <1>1, <1>4
  <1> QED
    BY <1>4, <1>5, <1>8, <1>9, <1>10 DEF v

\* The cases of a step.
LEMMA RefsCases ==
  ASSUME Ui!IInv, [Ui!Next]_refVars
  PROVE  \/ UNCHANGED refVars
         \/ \E t \in Trees : Ui!GameChanges(t)
         \/ \E c \in Clients : Ui!ReadSnapshotTree(c)
         \/ \E c \in Clients : \E k : Turn(c, k) /\ focus' \in Nat /\ viewed' \in 0..MaxUiCommands
  BY Turns DEF Ui!Next

\* What the game shows and what was done so far keep their types.
LEMMA RefsTypesStep == Ui!IInv /\ [Ui!Next]_refVars => Ui!TypeOK'
  <1> SUFFICES ASSUME Ui!IInv, [Ui!Next]_refVars PROVE Ui!TypeOK'
    OBVIOUS
  <1>1. Ui!TypeOK
    BY DEF Ui!IInv
  <1>2. /\ tree \in Trees /\ focus \in Nat /\ cache \in Trees \union {Ui!NoTree}
        /\ viewer \in [Clients -> Ui!Records] /\ viewed \in 0..MaxUiCommands
        /\ moved \in [copy : SUBSET Clients, seen : SUBSET Clients]
    BY <1>1 DEF Ui!TypeOK, Ui!GameTypes, Ui!ClientTypes, Ui!HistoryTypes
  <1> SUFFICES /\ tree' \in Trees /\ focus' \in Nat /\ cache' \in Trees \union {Ui!NoTree}
               /\ viewer' \in [Clients -> Ui!Records] /\ viewed' \in 0..MaxUiCommands
               /\ moved' \in [copy : SUBSET Clients, seen : SUBSET Clients]
    BY DEF Ui!TypeOK, Ui!GameTypes, Ui!ClientTypes, Ui!HistoryTypes
  <1>3. CASE UNCHANGED refVars
    BY <1>2, <1>3 DEF refVars
  <1>4. ASSUME NEW t \in Trees, Ui!GameChanges(t)
        PROVE  /\ tree' \in Trees /\ focus' \in Nat /\ cache' \in Trees \union {Ui!NoTree}
               /\ viewer' \in [Clients -> Ui!Records] /\ viewed' \in 0..MaxUiCommands
               /\ moved' \in [copy : SUBSET Clients, seen : SUBSET Clients]
    BY <1>2, <1>4 DEF Ui!GameChanges
  <1>5. ASSUME NEW c \in Clients, Ui!ReadSnapshotTree(c)
        PROVE  /\ tree' \in Trees /\ focus' \in Nat /\ cache' \in Trees \union {Ui!NoTree}
               /\ viewer' \in [Clients -> Ui!Records] /\ viewed' \in 0..MaxUiCommands
               /\ moved' \in [copy : SUBSET Clients, seen : SUBSET Clients]
    <2>1. PICK k \in Ui!Records :
            /\ viewer' = [viewer EXCEPT ![c] = k]
            /\ cache' = tree /\ tree' = tree /\ focus' = focus /\ viewed' = viewed
            /\ moved' \in [copy : SUBSET Clients, seen : SUBSET Clients]
      BY <1>5, ReadTurn
    <2> QED
      BY <1>2, <2>1
  <1>6. ASSUME NEW c \in Clients, NEW k, Turn(c, k), focus' \in Nat, viewed' \in 0..MaxUiCommands
        PROVE  /\ tree' \in Trees /\ focus' \in Nat /\ cache' \in Trees \union {Ui!NoTree}
               /\ viewer' \in [Clients -> Ui!Records] /\ viewed' \in 0..MaxUiCommands
               /\ moved' \in [copy : SUBSET Clients, seen : SUBSET Clients]
    BY <1>2, <1>6 DEF Turn
  <1> QED
    BY <1>3, <1>4, <1>5, <1>6, RefsCases

\* The trees printed last stay the game's until it changes its windows.
LEMMA SeenStep == Ui!IInv /\ [Ui!Next]_refVars => Ui!SeenInv'
  <1> SUFFICES ASSUME Ui!IInv, [Ui!Next]_refVars PROVE Ui!SeenInv'
    OBVIOUS
  <1>1. Ui!SeenInv /\ viewer \in [Clients -> Ui!Records]
    BY DEF Ui!IInv, Ui!TypeOK, Ui!ClientTypes
  <1>2. CASE UNCHANGED refVars
    BY <1>1, <1>2 DEF refVars, Ui!SeenInv
  <1>3. ASSUME NEW t \in Trees, Ui!GameChanges(t) PROVE Ui!SeenInv'
    BY <1>3 DEF Ui!GameChanges, Ui!SeenInv
  <1>4. ASSUME NEW c \in Clients, Ui!ReadSnapshotTree(c) PROVE Ui!SeenInv'
    <2>1. PICK k \in Ui!Records :
            /\ viewer' = [viewer EXCEPT ![c] = k]
            /\ k.seen = tree \/ (k.seen = viewer[c].seen /\ moved'.seen = moved.seen)
            /\ cache' = tree /\ tree' = tree
            /\ moved.seen \subseteq moved'.seen \union {c}
      BY <1>4, ReadTurn
    <2> SUFFICES ASSUME NEW d \in Clients, d \notin moved'.seen, viewer'[d].seen # Ui!NoTree
                 PROVE  viewer'[d].seen = tree' /\ cache' = tree'
      BY DEF Ui!SeenInv
    <2>2. CASE d = c
      <3>1. viewer'[c] = k
        BY <1>1, <2>1
      <3> QED
        BY <1>1, <2>1, <2>2, <3>1 DEF Ui!SeenInv
    <2>3. CASE d # c
      <3>1. viewer'[d] = viewer[d] /\ d \notin moved.seen
        BY <1>1, <2>1, <2>3
      <3> QED
        BY <1>1, <2>1, <3>1 DEF Ui!SeenInv
    <2> QED
      BY <2>2, <2>3
  <1>5. ASSUME NEW c \in Clients, NEW k, Turn(c, k) PROVE Ui!SeenInv'
    <2>1. \A d \in Clients : viewer'[d].seen = viewer[d].seen
      BY <1>1, <1>5 DEF Turn
    <2> QED
      BY <1>1, <1>5, <2>1 DEF Turn, Ui!SeenInv
  <1> QED
    BY <1>2, <1>3, <1>4, <1>5, RefsCases

\* So do the copies that clicks are planned on.
LEMMA CopyStep == Ui!IInv /\ [Ui!Next]_refVars => Ui!CopyInv'
  <1> SUFFICES ASSUME Ui!IInv, [Ui!Next]_refVars PROVE Ui!CopyInv'
    OBVIOUS
  <1>1. Ui!CopyInv /\ viewer \in [Clients -> Ui!Records]
    BY DEF Ui!IInv, Ui!TypeOK, Ui!ClientTypes
  <1>2. CASE UNCHANGED refVars
    BY <1>1, <1>2 DEF refVars, Ui!CopyInv
  <1>3. ASSUME NEW t \in Trees, Ui!GameChanges(t) PROVE Ui!CopyInv'
    BY <1>3 DEF Ui!GameChanges, Ui!CopyInv
  <1>4. ASSUME NEW c \in Clients, Ui!ReadSnapshotTree(c) PROVE Ui!CopyInv'
    <2>1. PICK k \in Ui!Records :
            /\ viewer' = [viewer EXCEPT ![c] = k] /\ (k.pc = "plan" => k.copy = tree)
            /\ tree' = tree /\ moved.copy \subseteq moved'.copy \union {c}
      BY <1>4, ReadTurn
    <2> SUFFICES ASSUME NEW d \in Clients, d \notin moved'.copy, viewer'[d].pc = "plan"
                 PROVE  viewer'[d].copy = tree'
      BY DEF Ui!CopyInv
    <2>2. CASE d = c
      BY <1>1, <2>1, <2>2
    <2>3. CASE d # c
      <3>1. viewer'[d] = viewer[d] /\ d \notin moved.copy
        BY <1>1, <2>1, <2>3
      <3> QED
        BY <1>1, <2>1, <3>1 DEF Ui!CopyInv
    <2> QED
      BY <2>2, <2>3
  <1>5. ASSUME NEW c \in Clients, NEW k, Turn(c, k) PROVE Ui!CopyInv'
    <2>1. \A d \in Clients : viewer'[d].pc = "plan" => viewer'[d] = viewer[d]
      BY <1>1, <1>5 DEF Turn, Sound
    <2> QED
      BY <1>1, <1>5, <2>1 DEF Turn, Ui!CopyInv
  <1> QED
    BY <1>2, <1>3, <1>4, <1>5, RefsCases

\* What is sent by ref is what the runtime carries out.
LEMMA SendInvStep == Ui!IInv /\ [Ui!Next]_refVars => Ui!SendInv'
  <1> SUFFICES ASSUME Ui!IInv, [Ui!Next]_refVars PROVE Ui!SendInv'
    OBVIOUS
  <1>1. Ui!SendInv /\ viewer \in [Clients -> Ui!Records]
    BY DEF Ui!IInv, Ui!TypeOK, Ui!ClientTypes
  <1>2. CASE UNCHANGED refVars
    BY <1>1, <1>2 DEF refVars, Ui!SendInv
  <1>3. ASSUME NEW t \in Trees, Ui!GameChanges(t) PROVE Ui!SendInv'
    BY <1>1, <1>3 DEF Ui!GameChanges, Ui!SendInv
  <1>4. ASSUME NEW c \in Clients, Ui!ReadSnapshotTree(c) PROVE Ui!SendInv'
    <2>1. PICK k \in Ui!Records : viewer' = [viewer EXCEPT ![c] = k] /\ k.pc \in {"idle", "plan"}
      BY <1>4, ReadTurn
    <2>2. \A d \in Clients : viewer'[d].pc = "send" => viewer'[d] = viewer[d]
      BY <1>1, <2>1
    <2> QED
      BY <1>1, <2>2 DEF Ui!SendInv
  <1>5. ASSUME NEW c \in Clients, NEW k, Turn(c, k) PROVE Ui!SendInv'
    <2>1. \A d \in Clients : viewer'[d] = IF d = c THEN k ELSE viewer[d]
      BY <1>1, <1>5 DEF Turn
    <2> QED
      BY <1>1, <1>5, <2>1 DEF Turn, Sound, Ui!SendInv
  <1> QED
    BY <1>2, <1>3, <1>4, <1>5, RefsCases

\* A click through the queue stays inside its window.
LEMMA QueuedStep == Ui!IInv /\ [Ui!Next]_refVars => Ui!QueuedClickLands'
  <1> SUFFICES ASSUME Ui!IInv, [Ui!Next]_refVars PROVE Ui!QueuedClickLands'
    OBVIOUS
  <1> DEFINE Lands(k) == Ui!Wide(tree, k.ref) => Ui!Inside(tree, k.ref, k.x)
             Queued(k) == k.pc = "down" /\ ~k.direct /\ k.op # "fill" /\ k.pid
  <1>1. viewer \in [Clients -> Ui!Records]
        /\ \A d \in Clients : (Queued(viewer[d]) /\ d \notin moved.copy) => Lands(viewer[d])
    BY DEF Ui!IInv, Ui!TypeOK, Ui!ClientTypes, Ui!QueuedClickLands
  <1>2. CASE moved'.copy = Clients
    BY <1>2 DEF Ui!QueuedClickLands
  <1>3. ASSUME tree' = tree,
               \A d \in Clients : (Queued(viewer'[d]) /\ d \notin moved'.copy) => Lands(viewer'[d])
        PROVE  Ui!QueuedClickLands'
    BY <1>3 DEF Ui!QueuedClickLands, Ui!Inside, Ui!Wide, Ui!AbsoluteLeft, Ui!Refs
  <1> HIDE DEF Lands
  <1>4. CASE UNCHANGED refVars
    BY <1>1, <1>3, <1>4 DEF refVars
  <1>5. ASSUME NEW t \in Trees, Ui!GameChanges(t) PROVE Ui!QueuedClickLands'
    BY <1>2, <1>5 DEF Ui!GameChanges
  <1>6. ASSUME NEW c \in Clients, Ui!ReadSnapshotTree(c) PROVE Ui!QueuedClickLands'
    <2>1. PICK k \in Ui!Records :
            /\ viewer' = [viewer EXCEPT ![c] = k] /\ k.pc \in {"idle", "plan"}
            /\ tree' = tree /\ moved.copy \subseteq moved'.copy \union {c}
      BY <1>6, ReadTurn
    <2>2. \A d \in Clients : viewer'[d] = IF d = c THEN k ELSE viewer[d]
      BY <1>1, <2>1
    <2>3. ASSUME NEW d \in Clients, Queued(viewer'[d]), d \notin moved'.copy PROVE Lands(viewer'[d])
      <3>1. d # c
        BY <2>1, <2>2, <2>3
      <3>2. viewer'[d] = viewer[d] /\ d \notin moved.copy
        BY <2>1, <2>2, <2>3, <3>1
      <3> QED
        BY <1>1, <2>3, <3>2
    <2> QED
      BY <1>3, <2>1, <2>3
  <1>7. ASSUME NEW c \in Clients, NEW k, Turn(c, k) PROVE Ui!QueuedClickLands'
    <2>1. tree' = tree /\ moved' = moved /\ \A d \in Clients : viewer'[d] = IF d = c THEN k ELSE viewer[d]
      BY <1>1, <1>7 DEF Turn
    <2>2. (Queued(k) /\ c \notin moved.copy) => Lands(k)
      BY <1>7 DEF Turn, Sound, Lands
    <2> HIDE DEF Queued
    <2> QED
      BY <1>1, <1>3, <2>1, <2>2
  <1> QED
    BY <1>4, <1>5, <1>6, <1>7, RefsCases

\* An accepted ref names what its client saw, for the runtime's tree is the
\* client's.
LEMMA RefNames == Ui!SeenInv /\ Ui!SendInv => Ui!RefNamesTheSame
  <1> SUFFICES ASSUME Ui!SeenInv, Ui!SendInv, NEW c \in Clients,
                      viewer[c].pc = "send", viewer[c].op = "fill", c \notin moved.seen
               PROVE  cache[viewer[c].ref] = viewer[c].seen[viewer[c].ref]
    BY DEF Ui!RefNamesTheSame
  <1>1. viewer[c].ref \in Ui!Refs(viewer[c].seen)
    BY DEF Ui!SendInv
  <1>2. viewer[c].seen # Ui!NoTree
    BY <1>1 DEF Ui!Refs, Ui!NoTree
  <1> QED
    BY <1>1, <1>2 DEF Ui!SeenInv

\* The inductive invariant of the UI refs.
LEMMA RefsInvariant == Spec => []Ui!IInv
  <1>1. Init => Ui!IInv
    <2> SUFFICES ASSUME Ui!Init PROVE Ui!IInv
      BY DEF Init
    <2>1. Ui!TypeOK
      BY IdleType, RefsAssumption
      DEF Ui!Init, Ui!TypeOK, Ui!GameTypes, Ui!ClientTypes, Ui!HistoryTypes
    <2>2. Ui!SeenInv /\ Ui!CopyInv /\ Ui!SendInv /\ Ui!QueuedClickLands
      BY IdleType DEF Ui!Init, Ui!SeenInv, Ui!CopyInv, Ui!SendInv, Ui!QueuedClickLands
    <2> QED
      BY <2>1, <2>2, RefNames DEF Ui!IInv
  <1>2. Ui!IInv /\ [Ui!Next]_refVars => Ui!IInv'
    <2> SUFFICES ASSUME Ui!IInv, [Ui!Next]_refVars PROVE Ui!IInv'
      OBVIOUS
    <2>1. Ui!TypeOK' /\ Ui!SeenInv' /\ Ui!CopyInv' /\ Ui!SendInv' /\ Ui!QueuedClickLands'
      BY RefsTypesStep, SeenStep, CopyStep, SendInvStep, QueuedStep
    <2>2. (Ui!SeenInv /\ Ui!SendInv => Ui!RefNamesTheSame)'
      BY RefNames, PTL
    <2> QED
      BY <2>1, <2>2 DEF Ui!IInv
  <1>3. Ui!IInv /\ [Next]_vars => Ui!IInv'
    <2> SUFFICES ASSUME Ui!IInv, [Next]_vars PROVE Ui!IInv'
      OBVIOUS
    <2>1. [Ui!Next]_refVars
      BY DEF Next, vars, SettingsStep, WindowStep, RefsStep, PipeStep, MemoryStep, FilesStep, CrashStep
    <2> QED
      BY <1>2, <2>1
  <1> QED
    BY <1>1, <1>3, PTL DEF Spec

\* Whatever the game shows and however many clients ask, a ref of the tree a
\* client printed last that the runtime accepts names the window it had there,
\* and a click through the queue goes down inside the window its client chose,
\* as long as the game changed nothing since: for every tree of windows and
\* every scale, of windows of which half is wider than half a pixel.
THEOREM RefsAreKept == Spec => []RefsHold
  <1>1. Ui!IInv => RefsHold
    BY DEF RefsHold, Ui!IInv
  <1> QED
    BY RefsInvariant, <1>1, PTL

=============================================================================
