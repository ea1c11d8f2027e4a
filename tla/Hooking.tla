------------------------------- MODULE Hooking -------------------------------
(***************************************************************************)
(* Hooks among the threads (HookLifecycle) and the bytes of one hook       *)
(* (Trampoline) side by side.  HookLifecycle takes the copying for granted *)
(* and Trampoline the other threads: until the jump is written nobody else *)
(* looks at what it writes.  A behaviour therefore follows one of the two, *)
(* chosen at its start; the other stays in one initial state.              *)
(***************************************************************************)
EXTENDS HookLifecycle, Trampoline

VARIABLE part  \* the one followed

HookingInit ==
  /\ part \in {"threads", "bytes"} /\ Init /\ BytesInit
  /\ part # "threads" => target = [h \in Hooks |-> "original"]
  /\ part # "bytes" =>
       /\ hook = CHOOSE h \in Descriptors : TRUE
       /\ image = CHOOSE i \in Images[hook] : TRUE

ThreadStep == part = "threads" /\ Next /\ UNCHANGED <<part, byteVars>>
ByteStep == part = "bytes" /\ BytesNext /\ UNCHANGED <<part, vars>>

\* The launcher runs, as in FairLauncher.
Launching == part = "threads" /\ LauncherStep /\ UNCHANGED <<part, byteVars>>

HookingSpec ==
  /\ HookingInit /\ [][ThreadStep \/ ByteStep]_<<part, vars, byteVars>>
  /\ WF_<<part, vars, byteVars>>(Launching)
=============================================================================
