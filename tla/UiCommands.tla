----------------------------- MODULE UiCommands -----------------------------
(***************************************************************************)
(* What a client may rely on when it sends UI commands: they are served    *)
(* one after the other, the game takes the messages of a command in their  *)
(* order before the command is answered, and "ok" means that it took all   *)
(* of them.  A command given up may leave one message in the game's hands; *)
(* the game takes it before any message of a later command, or drops it.   *)
(* A command that leaves for the OS queue has no promise left.             *)
(***************************************************************************)
EXTENDS Naturals, Sequences

CONSTANTS
  Commands,     \* the kinds of command
  Script,       \* [Commands -> Seq(Kinds)]: the messages of each, in order
  MaxCommands   \* bound on the commands of a behaviour

VARIABLES
  command,   \* the command being served, or "none"
  answers,   \* the commands answered, each with ok
  taken,     \* [1 .. MaxCommands -> Nat]: how many messages of each the game took
  late,      \* the number of the command given up with a message in the game's hands
  outside    \* the numbers of the commands that left for the OS queue

vars == <<command, answers, taken, late, outside>>

\* The number of the command being served, and the script of any.
Serving == Len(answers) + 1
ScriptOf(n) == Script[IF n \in DOMAIN answers THEN answers[n].command ELSE command]

Init ==
  /\ command = "none" /\ answers = <<>> /\ late = {} /\ outside = {}
  /\ taken = [n \in 1 .. MaxCommands |-> 0]

Receive(c) ==
  /\ command = "none" /\ Len(answers) < MaxCommands /\ command' = c
  /\ UNCHANGED <<answers, taken, late, outside>>

\* The game takes the next message of command n.
Takes(n) ==
  /\ n \notin outside /\ taken[n] < Len(ScriptOf(n))
  /\ taken' = [taken EXCEPT ![n] = @ + 1]
  /\ UNCHANGED <<command, answers, outside>>

Take == command # "none" /\ late = {} /\ Takes(Serving) /\ UNCHANGED late

TakeLate == \E n \in late : Takes(n) /\ late' = {}

Drop == late # {} /\ late' = {} /\ UNCHANGED <<command, answers, taken, outside>>

\* The command is answered, or its next message follows.
Answer(ok) ==
  /\ command' = "none"
  /\ answers' = Append(answers, [command |-> command, ok |-> ok])

GoesOn == UNCHANGED <<command, answers>>

Done(ok) ==
  /\ command # "none"
  /\ ok => Serving \in outside \/ taken[Serving] = Len(ScriptOf(Serving))
  /\ Answer(ok)
  /\ UNCHANGED <<taken, late, outside>>

GiveUp ==
  /\ command # "none" /\ Serving \notin outside
  /\ late = {} /\ late' = {Serving}
  /\ Answer(FALSE) \/ GoesOn
  /\ UNCHANGED <<taken, outside>>

Leave ==
  /\ command # "none"
  /\ outside' = outside \union {Serving} /\ late' = late \ {Serving}
  /\ taken' = [taken EXCEPT ![Serving] = 0]
  /\ GoesOn \/ \E ok \in BOOLEAN : Answer(ok)

Next ==
  \/ \E c \in Commands : Receive(c)
  \/ \E ok \in BOOLEAN : Done(ok)
  \/ Take \/ TakeLate \/ Drop \/ GiveUp \/ Leave

Spec == Init /\ [][Next]_vars
=============================================================================
