--------------------------- MODULE UiMessageSeam ---------------------------
(***************************************************************************)
(* UI messages on their way from a control client into the game: the IPC   *)
(* thread (ipc_server.cpp, DispatchUiMessageCommand and its multi-message  *)
(* users in ui_snapshot_runtime.cpp), the synchronous queue of             *)
(* common/input_queue.cpp with its tickets, and the game thread, which     *)
(* drains the queue in Hook_ProcessInputs.                                 *)
(*                                                                         *)
(* The IPC thread pushes a ticket, wakes the game with WM_NULL and waits   *)
(* at most five seconds; a wait may end by timeout whenever its ticket is  *)
(* open.  One pipe instance serves one client at a time, so commands are   *)
(* served one after the other; tickets that timed out stay in the queue.   *)
(* The game's own message loop is external.  The model begins when the     *)
(* bootstrap has signalled the ready event, the game not yet resumed.      *)
(***************************************************************************)
EXTENDS Naturals, Sequences, SequencesExt, FiniteSets

CONSTANTS
  Commands,     \* the kinds of command a client may send
  Script,       \* [Commands -> Seq(Kinds)]: the messages each sends, in order
  MaxCommands,  \* bound on the commands of a behaviour
  Alone         \* bound: commands that have a behaviour to themselves

\* "post" is a message sent with bypass_os_queue = 0; "click" sends WM_MOUSEMOVE first.
ASSUME SeamAssumption ==
  /\ MaxCommands \in Nat /\ Alone \subseteq Commands /\ "none" \notin Commands
  /\ \A c \in Commands : Script[c] \in Seq(Range(Script[c])) /\ Script[c] # <<>>

VARIABLES
  ipc,          \* where the IPC thread is
  command,      \* the command it serves
  left,         \* the messages of it not yet sent; the head is being sent
  ticket,       \* every ticket pushed so far
  queue,        \* SynchronousUiMessageQueue: indices of ticket
  replies,      \* each command so far, with ok of its response
  uiReady,      \* RuntimeState::UiDispatchReady
  hooked,       \* the ProcessInputs hook is installed
  game,         \* where the game thread is
  held,         \* the ticket DrainMainThreadUiQueue has popped
  outcome,      \* what its dispatch returned
  uiManager,    \* UIFrameManager_GetInstance returns one that is complete
  window,       \* the game has a visible top-level window
  osQueue,      \* the game window's message queue
  seen,         \* history: the UI messages the game handled
  viaOs,        \* history: commands one of whose messages took the OS path
  woken,        \* history: tickets for which a WM_NULL was posted
  abandoned     \* history: tickets canceled before the game thread had checked them

ipcVars == <<ipc, command, left, replies>>
ticketVars == <<ticket, queue>>
gameVars == <<game, held, outcome, uiManager, window>>
vars == <<ipc, command, left, ticket, queue, replies, uiReady, hooked, game, held, outcome,
          uiManager, window, osQueue, seen, viaOs, woken, abandoned>>

Kinds == UNION {Range(Script[c]) : c \in Commands}
Outcomes == [delivered : BOOLEAN, handled : BOOLEAN]
Undelivered == [delivered |-> FALSE, handled |-> FALSE]
IpcPCs == {"client", "ready", "push", "wake", "wait", "post", "stopped"}
GamePCs == {"suspended", "pump", "pop", "check", "dispatch", "complete", "gamepad", "idle", "waitMessage"}

\* The number of the command being served.
Serving == Len(replies) + 1

Wakeup == [command |-> 0, kind |-> "WM_NULL"]
Current == [command |-> Serving, kind |-> Head(left)]

Tickets ==
  [command : 1 .. MaxCommands, kind : Kinds, status : {"open", "completed", "canceled"},
   delivered : BOOLEAN, handled : BOOLEAN]

\* What the game sees of a message: ticket 0 is the OS queue.
Sightings == [command : 1 .. MaxCommands, kind : Kinds, ticket : Nat, handled : BOOLEAN]

IpcTypes ==
  /\ ipc \in IpcPCs /\ command \in Commands \union {"none"} /\ left \in Seq(Kinds)
  /\ IF ipc \in {"client", "stopped"} THEN command = "none"
     ELSE command \in Commands /\ left # <<>> /\ Len(replies) < MaxCommands
  /\ replies \in Seq([command : Commands, ok : BOOLEAN]) /\ Len(replies) <= MaxCommands

TicketTypes ==
  /\ ticket \in Seq(Tickets) /\ queue \in Seq(DOMAIN ticket)
  /\ ipc \in {"wake", "wait"} => ticket # <<>>

GameTypes ==
  /\ uiReady \in BOOLEAN /\ hooked \in BOOLEAN /\ uiManager \in BOOLEAN /\ window \in BOOLEAN
  /\ game \in GamePCs /\ outcome \in Outcomes
  /\ game \in {"check", "dispatch", "complete"} => held \in DOMAIN ticket
  /\ osQueue \in Seq({Wakeup} \union [command : 1 .. MaxCommands, kind : Kinds])

HistoryTypes ==
  /\ viaOs \subseteq 1 .. MaxCommands /\ woken \subseteq DOMAIN ticket /\ abandoned \subseteq DOMAIN ticket
  /\ seen \in Seq(Sightings) /\ \A i \in DOMAIN seen : seen[i].ticket \in {0} \union DOMAIN ticket

TypeOK == IpcTypes /\ TicketTypes /\ GameTypes /\ HistoryTypes

Init ==
  /\ ipc = "client" /\ command = "none" /\ left = <<>>
  /\ ticket = <<>> /\ queue = <<>> /\ replies = <<>>
  /\ uiReady = FALSE /\ hooked = TRUE
  /\ game = "suspended" /\ held = 0 /\ outcome = Undelivered
  /\ uiManager = FALSE /\ window = FALSE /\ osQueue = <<>>
  /\ seen = <<>> /\ viaOs = {} /\ woken = {} /\ abandoned = {}

-----------------------------------------------------------------------------
\* The IPC thread.

Reply(ok) ==
  /\ replies' = Append(replies, [command |-> command, ok |-> ok]) /\ ipc' = "client"
  /\ command' = "none" /\ left' = <<>>

\* The current message was delivered, or is a move whose failure is ignored.
NextMessage ==
  IF Tail(left) = <<>>
    THEN Reply(TRUE)
    ELSE left' = Tail(left) /\ ipc' = "ready" /\ UNCHANGED <<command, replies>>

\* Mutant: a message that failed is skipped.
SkipFailed == NextMessage

\* DispatchClientClick posts to the OS queue what the seam did not deliver;
\* every other command ends.
SeamFails ==
  IF Head(left) \in {"move", "down", "up"}
    THEN ipc' = "post" /\ UNCHANGED <<command, left, replies>>
    ELSE Reply(FALSE)

\* A command parsed from the pipe.
ReceiveCommand(c) ==
  /\ ipc = "client" /\ Len(replies) < MaxCommands
  /\ c \in Alone => replies = <<>>
  /\ \A n \in DOMAIN replies : replies[n].command \notin Alone
  /\ command' = c /\ left' = Script[c]
  /\ ipc' = IF c = "post" THEN "post" ELSE "ready"
  /\ UNCHANGED <<ticketVars, gameVars, replies, uiReady, hooked, osQueue, seen, viaOs, woken, abandoned>>

\* UiDispatchReady, or else RefreshUiDispatchReady, which calls the game's
\* accessor on this thread.
CheckReady ==
  /\ ipc = "ready"
  /\ uiReady' = (uiReady \/ uiManager)
  /\ IF uiReady'
       THEN ipc' = "push" /\ UNCHANGED <<command, left, replies>>
       ELSE SeamFails
  /\ UNCHANGED <<ticketVars, gameVars, hooked, osQueue, seen, viaOs, woken, abandoned>>

Push ==
  /\ ipc = "push" /\ ipc' = "wake"
  /\ ticket' = Append(ticket, [command |-> Serving, kind |-> Head(left), status |-> "open",
                               delivered |-> FALSE, handled |-> FALSE])
  /\ queue' = Append(queue, Len(ticket'))
  /\ UNCHANGED <<command, left, replies, gameVars, uiReady, hooked, osQueue, seen, viaOs, woken, abandoned>>

\* The post is skipped without a window, and its own failure is ignored.
Wake ==
  /\ ipc = "wake" /\ ipc' = "wait"
  /\ \/ window /\ osQueue' = Append(osQueue, Wakeup) /\ woken' = woken \union {Len(ticket)}
     \/ UNCHANGED <<osQueue, woken>>
  /\ UNCHANGED <<command, left, replies, ticketVars, gameVars, uiReady, hooked, seen, viaOs, abandoned>>

WaitCompleted ==
  /\ ipc = "wait" /\ Last(ticket).status = "completed"
  /\ IF Last(ticket).delivered THEN NextMessage ELSE SeamFails
  /\ UNCHANGED <<ticketVars, gameVars, uiReady, hooked, osQueue, seen, viaOs, woken, abandoned>>

\* Mutant: the wait has no timeout.
WaitNeverTimesOut ==
  /\ FALSE /\ SeamFails
  /\ UNCHANGED <<ticketVars, gameVars, uiReady, hooked, osQueue, seen, viaOs, woken, abandoned>>

\* completed_cv.wait_for ran out with the ticket open.
WaitTimesOut ==
  /\ ipc = "wait" /\ Last(ticket).status = "open"
  /\ ticket' = [ticket EXCEPT ![Len(ticket)].status = "canceled"]
  /\ abandoned' = IF Contains(queue, Len(ticket)) \/ (game = "check" /\ held = Len(ticket))
                    THEN abandoned \union {Len(ticket)} ELSE abandoned
  /\ SeamFails
  /\ UNCHANGED <<queue, gameVars, uiReady, hooked, osQueue, seen, viaOs, woken>>

\* The OS path to the game's window or, without one, to whichever window is
\* in the foreground.
PostMessage ==
  /\ ipc = "post"
  /\ IF window THEN osQueue' = Append(osQueue, Current) ELSE UNCHANGED osQueue
  /\ viaOs' = viaOs \union {Serving}
  /\ NextMessage
  /\ UNCHANGED <<ticketVars, gameVars, uiReady, hooked, seen, woken, abandoned>>

\* No window at all, or PostMessageA failed.
PostFails ==
  /\ ipc = "post"
  /\ IF Head(left) = "move" THEN NextMessage ELSE Reply(FALSE)
  /\ viaOs' = viaOs \union {Serving}
  /\ UNCHANGED <<ticketVars, gameVars, uiReady, hooked, osQueue, seen, woken, abandoned>>

\* RequestShutdown and UninstallAll; the server loop ends after the response.
Shutdown ==
  /\ ipc = "client" /\ ipc' = "stopped" /\ hooked' = FALSE
  /\ UNCHANGED <<command, left, replies, ticketVars, gameVars, uiReady, osQueue, seen, viaOs, woken, abandoned>>

-----------------------------------------------------------------------------
\* The game thread.

ResumeGame ==
  /\ game = "suspended" /\ game' = "pump"
  /\ UNCHANGED <<ipcVars, ticketVars, held, outcome, uiManager, window, uiReady, hooked,
                 osQueue, seen, viaOs, woken, abandoned>>

\* The window appears once; the UI manager comes and goes with the game's state.
GameChanges ==
  /\ game = "pump"
  /\ \/ ~window /\ window' = TRUE /\ UNCHANGED uiManager
     \/ uiManager' = ~uiManager /\ UNCHANGED window
  /\ UNCHANGED <<ipcVars, ticketVars, game, held, outcome, uiReady, hooked,
                 osQueue, seen, viaOs, woken, abandoned>>

\* The window procedure hands a UI message to Hook_HandleUiMessageAndProcess,
\* whose answer reaches no client.
PumpMessage ==
  /\ game = "pump" /\ osQueue # <<>>
  /\ osQueue' = Tail(osQueue)
  /\ IF Head(osQueue) # Wakeup /\ uiManager
       THEN /\ seen' = Append(seen, [command |-> Head(osQueue).command, kind |-> Head(osQueue).kind,
                                     ticket |-> 0, handled |-> FALSE])
            /\ uiReady' = (uiReady \/ hooked)
       ELSE UNCHANGED <<seen, uiReady>>
  /\ UNCHANGED <<ipcVars, ticketVars, gameVars, hooked, viaOs, woken, abandoned>>

\* The game's ProcessInputs, hooked or restored.
ProcessInputs ==
  /\ game = "pump"
  /\ game' = IF hooked THEN "pop" ELSE "idle"
  /\ UNCHANGED <<ipcVars, ticketVars, held, outcome, uiManager, window, uiReady, hooked,
                 osQueue, seen, viaOs, woken, abandoned>>

\* Mutant: the head is read and stays.
PeekOnly ==
  /\ game = "pop" /\ queue # <<>>
  /\ held' = Head(queue) /\ game' = "check"
  /\ UNCHANGED <<ipcVars, ticketVars, outcome, uiManager, window, uiReady, hooked,
                 osQueue, seen, viaOs, woken, abandoned>>

TryPop ==
  /\ game = "pop" /\ queue # <<>>
  /\ held' = Head(queue) /\ queue' = Tail(queue) /\ game' = "check"
  /\ UNCHANGED <<ipcVars, ticket, outcome, uiManager, window, uiReady, hooked,
                 osQueue, seen, viaOs, woken, abandoned>>

DrainDone ==
  /\ game = "pop" /\ queue = <<>> /\ game' = "gamepad"
  /\ UNCHANGED <<ipcVars, ticketVars, held, outcome, uiManager, window, uiReady, hooked,
                 osQueue, seen, viaOs, woken, abandoned>>

\* Mutant: canceled tickets are dispatched.
DispatchAnyway ==
  /\ game = "check" /\ game' = "dispatch"
  /\ UNCHANGED <<ipcVars, ticketVars, held, outcome, uiManager, window, uiReady, hooked,
                 osQueue, seen, viaOs, woken, abandoned>>

\* Mutant: a canceled ticket ends the drain.
CanceledEndsDrain ==
  /\ game = "check"
  /\ IF ticket[held].status = "canceled"
       THEN game' = "gamepad" /\ held' = 0
       ELSE game' = "dispatch" /\ UNCHANGED held
  /\ UNCHANGED <<ipcVars, ticketVars, outcome, uiManager, window, uiReady, hooked,
                 osQueue, seen, viaOs, woken, abandoned>>

CheckCanceled ==
  /\ game = "check"
  /\ IF ticket[held].status = "canceled"
       THEN game' = "pop" /\ held' = 0
       ELSE game' = "dispatch" /\ UNCHANGED held
  /\ UNCHANGED <<ipcVars, ticketVars, outcome, uiManager, window, uiReady, hooked,
                 osQueue, seen, viaOs, woken, abandoned>>

\* DispatchUiMessageOnGameThread: no lock is held since CheckCanceled.
Dispatch ==
  /\ game = "dispatch" /\ game' = "complete"
  /\ IF uiManager
       THEN \E h \in BOOLEAN :
              /\ outcome' = [delivered |-> TRUE, handled |-> h]
              /\ seen' = Append(seen, [command |-> ticket[held].command, kind |-> ticket[held].kind,
                                       ticket |-> held, handled |-> h])
              /\ uiReady' = (uiReady \/ hooked)
       ELSE outcome' = Undelivered /\ UNCHANGED <<seen, uiReady>>
  /\ UNCHANGED <<ipcVars, ticketVars, held, uiManager, window, hooked, osQueue, viaOs, woken, abandoned>>

Complete ==
  /\ game = "complete" /\ game' = "pop" /\ held' = 0 /\ outcome' = Undelivered
  /\ IF ticket[held].status = "canceled"
       THEN UNCHANGED ticket
       ELSE ticket' = [ticket EXCEPT ![held].status = "completed",
                                     ![held].delivered = outcome.delivered,
                                     ![held].handled = outcome.handled]
  /\ UNCHANGED <<ipcVars, queue, uiManager, window, uiReady, hooked,
                 osQueue, seen, viaOs, woken, abandoned>>

\* The rest of Hook_ProcessInputs: a gamepad button may send its key, which
\* this thread dispatches without the queue.
GamepadTick ==
  /\ game = "gamepad" /\ game' = "idle"
  /\ uiReady' \in {uiReady, uiReady \/ uiManager}
  /\ UNCHANGED <<ipcVars, ticketVars, held, outcome, uiManager, window, hooked,
                 osQueue, seen, viaOs, woken, abandoned>>

\* The menu loop blocks in WaitMessage when it becomes idle.
GameIdles ==
  /\ game = "idle" /\ game' \in {"pump", "waitMessage"}
  /\ UNCHANGED <<ipcVars, ticketVars, held, outcome, uiManager, window, uiReady, hooked,
                 osQueue, seen, viaOs, woken, abandoned>>

WaitMessageReturns ==
  /\ game = "waitMessage" /\ osQueue # <<>> /\ game' = "pump"
  /\ UNCHANGED <<ipcVars, ticketVars, held, outcome, uiManager, window, uiReady, hooked,
                 osQueue, seen, viaOs, woken, abandoned>>

IpcStep ==
  \/ \E c \in Commands : ReceiveCommand(c)
  \/ CheckReady \/ Push \/ Wake \/ WaitCompleted \/ WaitTimesOut
  \/ PostMessage \/ PostFails \/ Shutdown

GameStep ==
  \/ ResumeGame \/ GameChanges \/ PumpMessage \/ ProcessInputs \/ TryPop \/ DrainDone
  \/ CheckCanceled \/ Dispatch \/ Complete \/ GamepadTick \/ GameIdles \/ WaitMessageReturns

Next == IpcStep \/ GameStep

Spec == Init /\ [][Next]_vars

\* The IPC thread runs, whatever the game does: a hung game thread included.
\* Nothing obliges a client to send.
FairSpec ==
  Spec /\ WF_vars(CheckReady \/ Push \/ Wake \/ WaitCompleted \/ WaitTimesOut \/ PostMessage \/ PostFails)

\* The game thread's loop, as far as it does not depend on the player.
GameLoop ==
  \/ ResumeGame \/ PumpMessage \/ ProcessInputs \/ TryPop \/ DrainDone
  \/ CheckCanceled \/ Dispatch \/ Complete \/ GamepadTick \/ GameIdles \/ WaitMessageReturns

-----------------------------------------------------------------------------
\* Where the game saw ticket t, and the messages of command n.
SeenAt(t) == {i \in DOMAIN seen : seen[i].ticket = t}
SeenBy(n) == {i \in DOMAIN seen : seen[i].command = n}

\* A ticket reaches the game at most once, and what Wait reports about it is
\* what happened: delivered, with the answer the game gave, or not at all.
TruthfulTickets ==
  \A t \in DOMAIN ticket :
    /\ \A i, j \in SeenAt(t) : i = j
    /\ ticket[t].status = "completed" =>
         /\ ticket[t].delivered <=> SeenAt(t) # {}
         /\ \A i \in SeenAt(t) : seen[i].handled = ticket[t].handled

\* A ticket the client gave up on before the game thread had looked at it
\* never reaches the game, however late the queue is drained.
AbandonedStaysOut == \A t \in abandoned : SeenAt(t) = {}

\* Both: a ticket ends the way it was reported, and only once.
TicketsEndOnce == TruthfulTickets /\ AbandonedStaysOut

CommandOf(n) ==
  IF n \in DOMAIN replies THEN replies[n].command
  ELSE IF n = Serving THEN command ELSE "none"

\* The messages of command n, and how many of them the game has seen.
ScriptOf(n) == Script[CommandOf(n)]
CountOf(n) == Cardinality(SeenBy(n))

\* The k-th message of command n that the game saw is the k-th of its script.
SeesPrefix(n) ==
  \A i \in SeenBy(n) :
    LET k == Cardinality(SeenBy(n) \intersect (1 .. i))
    IN  k \in DOMAIN ScriptOf(n) /\ seen[i].kind = ScriptOf(n)[k]

\* What the game has seen of a command that never left the seam is a prefix
\* of the command's messages in their order (no hole after a failure, no
\* release before its press), and all of them when the client was told ok.
InOrder ==
  \A n \in 1 .. MaxCommands : CommandOf(n) # "none" /\ n \notin viaOs =>
    /\ SeesPrefix(n)
    /\ n \in DOMAIN replies /\ replies[n].ok => CountOf(n) = Len(ScriptOf(n))

\* The command of a message that the game thread will dispatch although its
\* sender has given up: it checked the ticket before.
Straggler ==
  IF game = "dispatch" /\ ticket[held].status = "canceled" /\ ticket[held].command \notin viaOs
    THEN {ticket[held].command} ELSE {}

\* How many messages of each command the game took, while it stays with the seam.
Taken == [n \in 1 .. MaxCommands |-> IF n \in viaOs THEN 0 ELSE CountOf(n)]

Promised ==
  INSTANCE UiCommands
    WITH answers <- replies, outside <- viaOs, late <- Straggler, taken <- Taken

\* Clients may think of commands as served one by one, each by its messages in
\* order: at most one message comes after the answer of a command given up, and
\* then before any message of a later command (input_queue.cpp and
\* DrainMainThreadUiQueue together).
OrderlyCommands == Promised!Spec

\* A response to a client does not depend on the game thread: a command is
\* answered even if the game never drains the queue.
Answered == ipc \in IpcPCs \ {"client", "stopped"} ~> ipc = "client"

\* No wakeup is lost: once the game's window has been sent WM_NULL for a
\* ticket, a game thread that keeps running takes the ticket out, even from
\* WaitMessage and past tickets that were given up.
WokenIsDrained ==
  WF_vars(GameLoop) =>
    \A t \in 1 .. MaxCommands :
      (t \in woken /\ t \in Range(queue) /\ hooked) ~> (t \notin Range(queue) \/ ~hooked)

\* The IPC thread never calls a game accessor (the rule stated beside
\* BuildSnapshotResponse): when it checks the readiness of the seam, the game
\* thread has published it.
AccessorsOnGameThread == [][ipc = "ready" /\ ipc' # "ready" => uiReady]_vars

-----------------------------------------------------------------------------
(* What is true of the queue and its tickets in every reachable state.     *)

\* The queue holds tickets nobody has looked at, oldest first, all of them
\* newer than the one the game thread has in hand.
QueueInv ==
  /\ \A i, j \in DOMAIN queue : i < j => queue[i] < queue[j]
  /\ \A i \in DOMAIN queue :
       /\ ticket[queue[i]].status # "completed" /\ SeenAt(queue[i]) = {}
       /\ game \in {"check", "dispatch", "complete"} => held < queue[i]

HeldInv ==
  /\ game \in {"check", "dispatch", "complete"} => ticket[held].status # "completed"
  /\ game \in {"check", "dispatch"} => SeenAt(held) = {}
  /\ game = "complete" =>
       /\ outcome.delivered <=> SeenAt(held) # {}
       /\ \A i \in SeenAt(held) : seen[i].handled = outcome.handled

AbandonedInv ==
  \A t \in abandoned :
    /\ ticket[t].status = "canceled" /\ SeenAt(t) = {}
    /\ game \in {"dispatch", "complete"} => held # t

\* The ticket being waited for, and what became of the given up ones.
OpenInv ==
  /\ ipc \in {"wake", "wait"} =>
       Last(ticket).command = Serving /\ Last(ticket).kind = Head(left)
       /\ Last(ticket).status # "canceled"
  /\ \A t \in DOMAIN ticket :
       /\ ticket[t].status = "open" => t = Len(ticket) /\ ipc \in {"wake", "wait"}
       /\ ticket[t].status = "canceled" =>
            \/ ticket[t].command \in viaOs
            \/ ticket[t].command < Serving
            \/ ticket[t].command = Serving /\ ipc = "post"

\* Nothing is known of a command that has not been received.
Known == IF ipc \in {"client", "stopped"} THEN Len(replies) ELSE Serving

FutureInv ==
  /\ \A t \in DOMAIN ticket : ticket[t].command <= Known
  /\ \A i \in DOMAIN seen : seen[i].command <= Known
  /\ \A n \in viaOs : n <= Known

OsInv ==
  /\ \A i \in DOMAIN osQueue : osQueue[i] # Wakeup => osQueue[i].command \in viaOs
  /\ \A i \in DOMAIN seen :
       IF seen[i].ticket = 0 THEN seen[i].command \in viaOs
       ELSE seen[i].command = ticket[seen[i].ticket].command

\* left is the end of the script.
Remaining ==
  /\ Len(left) <= Len(Script[command])
  /\ \A j \in DOMAIN left : left[j] = Script[command][Len(Script[command]) - Len(left) + j]

\* The rest of the command's messages, the head not yet seen unless its
\* ticket has been.
RestInv ==
  /\ ipc \notin {"client", "stopped"} => Remaining
  /\ ipc \in {"ready", "push"} /\ Serving \notin viaOs =>
       CountOf(Serving) + Len(left) = Len(Script[command])
  /\ ipc \in {"wake", "wait"} /\ Serving \notin viaOs =>
       CountOf(Serving) + Len(left) = Len(Script[command]) + IF SeenAt(Len(ticket)) = {} THEN 0 ELSE 1

\* A ticket that may still reach the game carries the next message of its command.
MayBeSeen(t) == ticket[t].status = "open" \/ (game = "dispatch" /\ held = t)

IsNext(n, kind) == CountOf(n) + 1 \in DOMAIN ScriptOf(n) /\ kind = ScriptOf(n)[CountOf(n) + 1]

NextInv ==
  \A t \in DOMAIN ticket :
    SeenAt(t) = {} /\ ticket[t].command \notin viaOs /\ MayBeSeen(t)
    => IsNext(ticket[t].command, ticket[t].kind)

IInv ==
  /\ TypeOK /\ QueueInv /\ HeldInv /\ AbandonedInv /\ TruthfulTickets
  /\ OpenInv /\ FutureInv /\ OsInv /\ RestInv /\ NextInv /\ InOrder

=============================================================================
