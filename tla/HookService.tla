----------------------------- MODULE HookService -----------------------------
(***************************************************************************)
(* What the runtime promises the game and its clients about hooks, leaving *)
(* out how a hook is made: functions come to be hooked only before the     *)
(* game runs, and cease to be only behind a shutdown command; the runtime  *)
(* calls itself ready only with all required functions hooked; no call of  *)
(* the game is lost before a shutdown; and a shutdown of a runtime that    *)
(* was up leaves no function hooked that could be restored.                *)
(***************************************************************************)
CONSTANTS
  Hooks,      \* the functions that can be hooked
  Required    \* those the runtime cannot do without

VARIABLES
  hooked,     \* the functions whose calls come to the runtime
  stuck,      \* those whose bytes could not be restored
  over,       \* the installation is over
  ready,      \* the runtime says it is ready
  running,    \* the game runs
  stopping,   \* a shutdown has been asked for
  clean,      \* it came after the installation
  stopped,    \* and it has been served
  lost        \* a call of the game was lost

vars == <<hooked, stuck, over, ready, running, stopping, clean, stopped, lost>>

Init ==
  /\ hooked = {} /\ stuck = {}
  /\ over = FALSE /\ ready = FALSE /\ running = FALSE
  /\ stopping = FALSE /\ clean = FALSE /\ stopped = FALSE /\ lost = FALSE

Hook(h) ==
  /\ ~over /\ ~running
  /\ hooked' = hooked \union {h}
  /\ UNCHANGED <<stuck, over, ready, running, stopping, clean, stopped, lost>>

\* The installation ends; ready promises the required functions.
Settle(up) ==
  /\ ~over /\ over' = TRUE
  /\ up => Required \subseteq hooked \/ stopping
  /\ ready' = up
  /\ UNCHANGED <<hooked, stuck, running, stopping, clean, stopped, lost>>

Run ==
  /\ over /\ running' = TRUE
  /\ UNCHANGED <<hooked, stuck, over, ready, stopping, clean, stopped, lost>>

Stop(afterwards) ==
  /\ ~stopping /\ stopping' = TRUE
  /\ afterwards => over
  /\ clean' = afterwards
  /\ UNCHANGED <<hooked, stuck, over, ready, running, stopped, lost>>

Unhook(h) ==
  /\ stopping /\ ~stopped
  /\ hooked' = hooked \ {h}
  /\ UNCHANGED <<stuck, over, ready, running, stopping, clean, stopped, lost>>

Stick(h) ==
  /\ stopping /\ ~stopped
  /\ stuck' = stuck \union {h}
  /\ UNCHANGED <<hooked, over, ready, running, stopping, clean, stopped, lost>>

Finish ==
  /\ stopping /\ stopped' = TRUE
  /\ clean => hooked \subseteq stuck
  /\ UNCHANGED <<hooked, stuck, over, ready, running, stopping, clean, lost>>

Lose ==
  /\ running /\ stopping /\ lost' = TRUE
  /\ UNCHANGED <<hooked, stuck, over, ready, running, stopping, clean, stopped>>

Next ==
  \/ \E h \in Hooks : Hook(h) \/ Unhook(h) \/ Stick(h)
  \/ \E b \in BOOLEAN : Settle(b) \/ Stop(b)
  \/ Run \/ Finish \/ Lose

Spec == Init /\ [][Next]_vars
=============================================================================
