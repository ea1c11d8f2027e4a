------------------------ MODULE UiMessageSeamProofs ------------------------
(***************************************************************************)
(* Theorems about UiMessageSeam, for any commands with any scripts, and    *)
(* any number of them.                                                     *)
(***************************************************************************)
EXTENDS UiMessageSeam, FiniteSetTheorems, TLAPS

-----------------------------------------------------------------------------
(* What the IPC thread does with a command.                                *)

Answers(ok) ==
  /\ replies' = Append(replies, [command |-> command, ok |-> ok])
  /\ ipc' = "client" /\ command' = "none" /\ left' = <<>>

\* The head was delivered, and the rest remains.
Advances ==
  /\ Tail(left) # <<>> /\ left' = Tail(left) /\ ipc' = "ready"
  /\ UNCHANGED <<command, replies>>

FallsBack ==
  /\ Head(left) \in {"move", "down", "up"} /\ ipc' = "post"
  /\ UNCHANGED <<command, left, replies>>

\* The ticket waited for was delivered, and the command is not done with it.
Delivered == ticket[Len(ticket)].status = "completed" /\ ticket[Len(ticket)].delivered

\* Elements of sequences.
LEMMA ElementOf ==
  ASSUME NEW S, NEW s \in Seq(S), NEW i \in DOMAIN s PROVE s[i] \in S
  OBVIOUS

LEMMA SingleElement ==
  ASSUME NEW S, NEW s \in Seq(S), s # <<>>, Tail(s) = <<>> PROVE Len(s) = 1
  <1>1. Len(Tail(s)) = Len(s) - 1
    OBVIOUS
  <1>2. Len(<<>>) = 0
    OBVIOUS
  <1>3. Len(s) \in Nat
    OBVIOUS
  <1>4. Len(s) - 1 = 0
    BY ONLY <1>1, <1>2, Tail(s) = <<>>
  <1> QED
    BY <1>3, <1>4

LEMMA EmptySequence ==
  ASSUME NEW S PROVE <<>> \in Seq(S) /\ DOMAIN <<>> = {}
  OBVIOUS

\* The seam is ready.
Proceeds == ipc' = "push" /\ UNCHANGED <<command, left, replies>>

\* After a message, the next one or the answer.
LEMMA AfterMessage ==
  ASSUME NextMessage PROVE (Answers(TRUE) /\ Tail(left) = <<>>) \/ Advances
  BY DEF NextMessage, Reply, Answers, Advances

\* After a failure of the seam, the OS queue or the answer.
LEMMA AfterFailure ==
  ASSUME SeamFails PROVE Answers(FALSE) \/ FallsBack
  BY DEF SeamFails, Reply, Answers, FallsBack

\* The game thread does not touch the command.
LEMMA GameFrame ==
  ASSUME GameStep PROVE UNCHANGED <<ipc, command, left, replies, viaOs, woken, abandoned>>
  BY DEF GameStep, ipcVars, ResumeGame, GameChanges, PumpMessage, ProcessInputs, TryPop,
         DrainDone, CheckCanceled, Dispatch, Complete, GamepadTick, GameIdles, WaitMessageReturns

\* The IPC thread does not touch what the game thread has in hand.
LEMMA IpcFrame ==
  ASSUME IpcStep PROVE UNCHANGED <<game, held, outcome, uiManager, window, seen>>
  BY DEF IpcStep, gameVars, ReceiveCommand, CheckReady, Push, Wake, WaitCompleted,
         WaitTimesOut, PostMessage, PostFails, Shutdown

\* A script is a sequence of kinds.
LEMMA Scripts ==
  ASSUME NEW c \in Commands
  PROVE  Script[c] \in Seq(Kinds) /\ Script[c] # <<>>
  BY SeamAssumption DEF Kinds

\* What the game saw, once more.
SeesMore(e) ==
  /\ seen' \in Seq(Sightings) /\ Len(seen) \in Nat /\ Len(seen') = Len(seen) + 1
  /\ DOMAIN seen = 1 .. Len(seen) /\ DOMAIN seen' = 1 .. Len(seen')
  /\ \A i \in DOMAIN seen : seen'[i] = seen[i]
  /\ seen'[Len(seen')] = e

\* Another sighting is the last.
LEMMA Sighting ==
  ASSUME seen \in Seq(Sightings), NEW e \in Sightings, seen' = Append(seen, e)
  PROVE  SeesMore(e)
  BY DEF SeesMore

\* The OS queue brings a message without a ticket.
LEMMA Pumped ==
  ASSUME GameTypes, HistoryTypes, PumpMessage
  PROVE  \/ seen' = seen /\ UNCHANGED uiReady
         \/ /\ Head(osQueue) # Wakeup /\ Head(osQueue) \in [command : 1 .. MaxCommands, kind : Kinds]
            /\ uiReady' = (uiReady \/ hooked)
            /\ \E e \in Sightings : SeesMore(e) /\ e.ticket = 0 /\ e.command = Head(osQueue).command
  <1>1. CASE Head(osQueue) # Wakeup /\ uiManager
    <2>1. Head(osQueue) \in [command : 1 .. MaxCommands, kind : Kinds]
      BY <1>1 DEF PumpMessage, GameTypes
    <2> DEFINE e == [command |-> Head(osQueue).command, kind |-> Head(osQueue).kind,
                     ticket |-> 0, handled |-> FALSE]
    <2>2. e \in Sightings
      BY <2>1 DEF Sightings
    <2>3. seen' = Append(seen, e) /\ uiReady' = (uiReady \/ hooked)
      BY <1>1 DEF PumpMessage
    <2>4. e.ticket = 0 /\ e.command = Head(osQueue).command
      OBVIOUS
    <2> HIDE DEF e
    <2>5. SeesMore(e)
      BY <2>2, <2>3, Sighting DEF HistoryTypes
    <2> QED
      BY <1>1, <2>1, <2>2, <2>3, <2>4, <2>5
  <1>2. CASE ~(Head(osQueue) # Wakeup /\ uiManager)
    BY <1>2 DEF PumpMessage
  <1> QED
    BY <1>1, <1>2

\* Without the UI manager the ticket in hand is not delivered.
Undeliverable == UNCHANGED <<seen, uiReady>> /\ outcome' = Undelivered

\* Dispatching the ticket in hand.
Delivers(e) ==
  /\ e \in Sightings /\ e.ticket = held
  /\ e.command = ticket[held].command /\ e.kind = ticket[held].kind
  /\ SeesMore(e)
  /\ outcome' = [delivered |-> TRUE, handled |-> e.handled] /\ uiReady' = (uiReady \/ hooked)

\* The game thread hands over the ticket it holds, or nothing.
LEMMA Dispatched ==
  ASSUME TicketTypes, GameTypes, HistoryTypes, Dispatch
  PROVE  /\ held \in DOMAIN ticket
         /\ Undeliverable \/ \E e : Delivers(e)
  <1>1. held \in DOMAIN ticket /\ ticket[held] \in Tickets /\ held \in Nat
    BY DEF Dispatch, GameTypes, TicketTypes
  <1>2. CASE uiManager
    <2>1. PICK h \in BOOLEAN :
            /\ outcome' = [delivered |-> TRUE, handled |-> h]
            /\ seen' = Append(seen, [command |-> ticket[held].command, kind |-> ticket[held].kind,
                                     ticket |-> held, handled |-> h])
            /\ uiReady' = (uiReady \/ hooked)
      BY <1>2 DEF Dispatch
    <2> DEFINE e == [command |-> ticket[held].command, kind |-> ticket[held].kind,
                     ticket |-> held, handled |-> h]
    <2>2. e \in Sightings
      BY <1>1 DEF Sightings, Tickets
    <2>3. e.ticket = held /\ e.command = ticket[held].command /\ e.kind = ticket[held].kind /\ e.handled = h
      OBVIOUS
    <2>4. seen' = Append(seen, e)
      BY <2>1
    <2> HIDE DEF e
    <2>5. SeesMore(e)
      BY <2>2, <2>4, Sighting DEF HistoryTypes
    <2>6. Delivers(e)
      BY <2>1, <2>2, <2>3, <2>5 DEF Delivers
    <2> QED
      BY <1>1, <2>6
  <1>3. CASE ~uiManager
    BY <1>1, <1>3 DEF Dispatch, Undeliverable
  <1> QED
    BY <1>2, <1>3

\* While a command is served its number is in range.
LEMMA ServingInRange ==
  ASSUME IpcTypes, ipc \notin {"client", "stopped"} PROVE Serving \in 1 .. MaxCommands
  BY SeamAssumption DEF IpcTypes, Serving

\* The new ticket is the last.
LEMMA TicketPushed ==
  ASSUME IpcTypes, TicketTypes, Push
  PROVE  /\ ticket' \in Seq(Tickets) /\ Len(ticket) \in Nat /\ Len(ticket') = Len(ticket) + 1
         /\ DOMAIN ticket = 1 .. Len(ticket) /\ DOMAIN ticket' = 1 .. Len(ticket')
         /\ \A t \in DOMAIN ticket : ticket'[t] = ticket[t]
         /\ ticket'[Len(ticket')] = [command |-> Serving, kind |-> Head(left), status |-> "open",
                                     delivered |-> FALSE, handled |-> FALSE]
         /\ queue' = Append(queue, Len(ticket'))
  <1> DEFINE new == [command |-> Serving, kind |-> Head(left), status |-> "open",
                     delivered |-> FALSE, handled |-> FALSE]
  <1>1. Serving \in 1 .. MaxCommands
    BY SeamAssumption DEF IpcTypes, Push, Serving
  <1>2. Head(left) \in Kinds
    BY DEF IpcTypes, Push
  <1>3. new \in Tickets
    BY <1>1, <1>2 DEF Tickets
  <1>4. ticket' = Append(ticket, new) /\ queue' = Append(queue, Len(ticket'))
    BY DEF Push
  <1> HIDE DEF new
  <1>5. ticket \in Seq(Tickets)
    BY DEF TicketTypes
  <1>6. /\ ticket' \in Seq(Tickets) /\ Len(ticket) \in Nat /\ Len(ticket') = Len(ticket) + 1
        /\ DOMAIN ticket = 1 .. Len(ticket) /\ DOMAIN ticket' = 1 .. Len(ticket')
        /\ \A t \in DOMAIN ticket : ticket'[t] = ticket[t]
        /\ ticket'[Len(ticket')] = new
    BY <1>3, <1>4, <1>5
  <1> QED
    BY <1>4, <1>6 DEF new

\* What a ticket is for never changes.
SameTicket(t) == ticket'[t].command = ticket[t].command /\ ticket'[t].kind = ticket[t].kind

\* Only the status of the last ticket is set.
LEMMA TicketCanceled ==
  ASSUME IpcTypes, TicketTypes, WaitTimesOut
  PROVE  /\ ticket' \in Seq(Tickets) /\ DOMAIN ticket' = DOMAIN ticket /\ Len(ticket') = Len(ticket)
         /\ Len(ticket) \in DOMAIN ticket /\ DOMAIN ticket = 1 .. Len(ticket)
         /\ \A t \in DOMAIN ticket : SameTicket(t)
         /\ \A t \in DOMAIN ticket : t # Len(ticket) => ticket'[t] = ticket[t]
         /\ ticket[Len(ticket)].status = "open" /\ ticket'[Len(ticket)].status = "canceled"
  <1>1. ticket \in Seq(Tickets) /\ ticket # <<>> /\ Last(ticket).status = "open"
    BY DEF TicketTypes, WaitTimesOut
  <1>2. ticket' = [ticket EXCEPT ![Len(ticket)].status = "canceled"]
    BY DEF WaitTimesOut
  <1>3. Len(ticket) \in DOMAIN ticket /\ DOMAIN ticket = 1 .. Len(ticket)
    BY <1>1
  <1>4. \A t \in DOMAIN ticket : ticket[t] \in Tickets
    BY <1>1
  <1>5. ASSUME NEW t \in DOMAIN ticket
        PROVE  /\ SameTicket(t) /\ (t # Len(ticket) => ticket'[t] = ticket[t])
               /\ (t = Len(ticket) => ticket'[t].status = "canceled") /\ ticket'[t] \in Tickets
    BY <1>2, <1>3, <1>4 DEF SameTicket, Tickets
  <1>6. DOMAIN ticket' = DOMAIN ticket
    BY <1>2
  <1>7. ticket' \in Seq(Tickets) /\ Len(ticket') = Len(ticket)
    <2>1. ticket' \in [1 .. Len(ticket) -> Tickets]
      BY <1>2, <1>3, <1>5
    <2> QED
      BY <1>1, <2>1
  <1> QED
    BY <1>1, <1>3, <1>5, <1>6, <1>7 DEF Last

\* Only the answer of the ticket in hand is set, unless it was given up.
LEMMA TicketCompleted ==
  ASSUME TicketTypes, GameTypes, Complete
  PROVE  /\ ticket' \in Seq(Tickets) /\ DOMAIN ticket' = DOMAIN ticket /\ Len(ticket') = Len(ticket)
         /\ held \in DOMAIN ticket /\ DOMAIN ticket = 1 .. Len(ticket)
         /\ \A t \in DOMAIN ticket : SameTicket(t)
         /\ \A t \in DOMAIN ticket : t # held => ticket'[t] = ticket[t]
         /\ game = "complete" /\ game' = "pop" /\ held' = 0 /\ outcome' = Undelivered
         /\ UNCHANGED <<ipc, command, left, replies, queue, uiManager, window, uiReady, hooked,
                        osQueue, seen, viaOs, woken, abandoned>>
         /\ IF ticket[held].status = "canceled" THEN ticket' = ticket
            ELSE /\ ticket'[held].status = "completed"
                 /\ ticket'[held].delivered = outcome.delivered
                 /\ ticket'[held].handled = outcome.handled
  <1>1. ticket \in Seq(Tickets) /\ held \in DOMAIN ticket /\ outcome \in Outcomes
    BY DEF TicketTypes, GameTypes, Complete
  <1>2. DOMAIN ticket = 1 .. Len(ticket) /\ \A t \in DOMAIN ticket : ticket[t] \in Tickets
    BY <1>1
  <1>0. /\ game = "complete" /\ game' = "pop" /\ held' = 0 /\ outcome' = Undelivered
        /\ UNCHANGED <<ipc, command, left, replies, queue, uiManager, window, uiReady, hooked,
                       osQueue, seen, viaOs, woken, abandoned>>
    BY DEF Complete, ipcVars
  <1>3. CASE ticket[held].status = "canceled"
    BY <1>0, <1>1, <1>2, <1>3 DEF Complete, SameTicket
  <1>4. CASE ticket[held].status # "canceled"
    <2>1. ticket' = [ticket EXCEPT ![held].status = "completed",
                                   ![held].delivered = outcome.delivered,
                                   ![held].handled = outcome.handled]
      BY <1>4 DEF Complete
    <2>2. outcome.delivered \in BOOLEAN /\ outcome.handled \in BOOLEAN
      BY <1>1 DEF Outcomes
    <2>3. \A t \in DOMAIN ticket : t # held => ticket'[t] = ticket[t]
      BY <1>1, <2>1
    <2>4. ticket'[held] = [command |-> ticket[held].command, kind |-> ticket[held].kind,
                           status |-> "completed", delivered |-> outcome.delivered,
                           handled |-> outcome.handled]
      BY <1>1, <1>2, <2>1 DEF Tickets
    <2>5. \A t \in DOMAIN ticket : ticket'[t] \in Tickets /\ SameTicket(t)
      BY <1>2, <2>2, <2>3, <2>4 DEF Tickets, SameTicket
    <2>6. ticket' \in Seq(Tickets) /\ Len(ticket') = Len(ticket) /\ DOMAIN ticket' = DOMAIN ticket
      <3>1. DOMAIN ticket' = DOMAIN ticket
        BY <2>1
      <3>2. ticket' \in [1 .. Len(ticket) -> Tickets]
        BY <1>2, <2>1, <2>5, <3>1
      <3> QED
        BY <1>1, <1>2, <3>1, <3>2
    <2> QED
      BY <1>0, <1>1, <1>2, <1>4, <2>3, <2>4, <2>5, <2>6
  <1> QED
    BY <1>3, <1>4

-----------------------------------------------------------------------------
(* Types.                                                                  *)

\* Every action keeps the types of the IPC thread's variables,
LEMMA IpcTypesStep == IInv /\ [Next]_vars => IpcTypes'
  <1> SUFFICES ASSUME IInv, [Next]_vars PROVE IpcTypes'
    OBVIOUS
  <1> USE SeamAssumption DEF IInv, TypeOK, IpcTypes, IpcPCs, ipcVars, ticketVars,
         gameVars
  <1>1. ASSUME NEW c \in Commands, ReceiveCommand(c) PROVE IpcTypes'
    BY <1>1, Scripts DEF ReceiveCommand
  <1>2. ASSUME CheckReady PROVE IpcTypes'
    <2>1. Proceeds \/ Answers(FALSE) \/ FallsBack
      BY <1>2, AfterFailure DEF CheckReady, Proceeds
    <2>2. CASE Proceeds
      BY <1>2, <2>2 DEF CheckReady, Proceeds
    <2>3. CASE Answers(FALSE)
      BY <1>2, <2>3 DEF CheckReady, Answers
    <2>4. CASE FallsBack
      BY <1>2, <2>4 DEF CheckReady, FallsBack
    <2> QED
      BY <2>1, <2>2, <2>3, <2>4
  <1>3. ASSUME Push PROVE IpcTypes'
    BY <1>3 DEF Push
  <1>4. ASSUME Wake PROVE IpcTypes'
    BY <1>4 DEF Wake
  <1>5. ASSUME WaitCompleted PROVE IpcTypes'
    <2>1. \/ Answers(TRUE) /\ Delivered /\ Tail(left) = <<>>
          \/ Advances /\ Delivered
          \/ Answers(FALSE)
          \/ FallsBack
      BY <1>5, AfterMessage, AfterFailure DEF WaitCompleted, Last, Delivered
    <2>2. CASE Answers(TRUE) /\ Delivered /\ Tail(left) = <<>>
      BY <1>5, <2>2 DEF WaitCompleted, Answers
    <2>3. CASE Advances /\ Delivered
      BY <1>5, <2>3 DEF WaitCompleted, Advances
    <2>4. CASE Answers(FALSE)
      BY <1>5, <2>4 DEF WaitCompleted, Answers
    <2>5. CASE FallsBack
      BY <1>5, <2>5 DEF WaitCompleted, FallsBack
    <2> QED
      BY <2>1, <2>2, <2>3, <2>4, <2>5
  <1>6. ASSUME WaitTimesOut PROVE IpcTypes'
    <2>1. Answers(FALSE) \/ FallsBack
      BY <1>6, AfterFailure DEF WaitTimesOut
    <2>2. CASE Answers(FALSE)
      BY <1>6, <2>2 DEF WaitTimesOut, Answers
    <2>3. CASE FallsBack
      BY <1>6, <2>3 DEF WaitTimesOut, FallsBack
    <2> QED
      BY <2>1, <2>2, <2>3
  <1>7. ASSUME PostMessage PROVE IpcTypes'
    <2>1. Answers(TRUE) \/ Advances
      BY <1>7, AfterMessage DEF PostMessage
    <2>2. CASE Answers(TRUE)
      BY <1>7, <2>2 DEF PostMessage, Answers
    <2>3. CASE Advances
      BY <1>7, <2>3 DEF PostMessage, Advances
    <2> QED
      BY <2>1, <2>2, <2>3
  <1>8. ASSUME PostFails PROVE IpcTypes'
    <2>1. Answers(TRUE) \/ Advances \/ Answers(FALSE)
      BY <1>8, AfterMessage DEF PostFails, Answers, Reply
    <2>2. CASE Answers(TRUE)
      BY <1>8, <2>2 DEF PostFails, Answers
    <2>3. CASE Advances
      BY <1>8, <2>3 DEF PostFails, Advances
    <2>4. CASE Answers(FALSE)
      BY <1>8, <2>4 DEF PostFails, Answers
    <2> QED
      BY <2>1, <2>2, <2>3, <2>4
  <1>9. ASSUME Shutdown PROVE IpcTypes'
    BY <1>9 DEF Shutdown
  <1>10. ASSUME GameStep PROVE IpcTypes'
    BY <1>10, GameFrame
  <1>11. CASE UNCHANGED vars
    BY <1>11 DEF vars
  <1> QED
    BY <1>1, <1>2, <1>3, <1>4, <1>5, <1>6, <1>7, <1>8, <1>9, <1>10, <1>11
       DEF Next, IpcStep

\* of the tickets and their queue,
LEMMA TicketTypesStep == IInv /\ [Next]_vars => TicketTypes'
  <1> SUFFICES ASSUME IInv, [Next]_vars PROVE TicketTypes'
    OBVIOUS
  <1> USE SeamAssumption DEF IInv, TypeOK, TicketTypes, ipcVars, ticketVars, gameVars
  <1>1. ASSUME NEW c \in Commands, ReceiveCommand(c) PROVE TicketTypes'
    BY <1>1 DEF ReceiveCommand
  <1>2. ASSUME CheckReady PROVE TicketTypes'
    <2>1. Proceeds \/ Answers(FALSE) \/ FallsBack
      BY <1>2, AfterFailure DEF CheckReady, Proceeds
    <2>2. CASE Proceeds
      BY <1>2, <2>2 DEF CheckReady, Proceeds
    <2>3. CASE Answers(FALSE)
      BY <1>2, <2>3 DEF CheckReady, Answers
    <2>4. CASE FallsBack
      BY <1>2, <2>4 DEF CheckReady, FallsBack
    <2> QED
      BY <2>1, <2>2, <2>3, <2>4
  <1>3. ASSUME Push PROVE TicketTypes'
    <2>1. IpcTypes
      BY DEF IInv
    <2>2. \A i \in DOMAIN queue : queue[i] \in DOMAIN ticket'
      BY <1>3, <2>1, TicketPushed
    <2>3. ticket' \in Seq(Tickets) /\ ticket' # <<>> /\ Len(ticket') \in DOMAIN ticket'
      BY <1>3, <2>1, TicketPushed
    <2>4. queue \in Seq(DOMAIN ticket')
      BY <2>2
    <2>5. queue' = Append(queue, Len(ticket'))
      BY <1>3, <2>1, TicketPushed
    <2>6. queue' \in Seq(DOMAIN ticket')
      BY ONLY <2>3, <2>4, <2>5
    <2> QED
      BY <2>3, <2>6
  <1>4. ASSUME Wake PROVE TicketTypes'
    BY <1>4 DEF Wake
  <1>5. ASSUME WaitCompleted PROVE TicketTypes'
    <2>1. \/ Answers(TRUE) /\ Delivered /\ Tail(left) = <<>>
          \/ Advances /\ Delivered
          \/ Answers(FALSE)
          \/ FallsBack
      BY <1>5, AfterMessage, AfterFailure DEF WaitCompleted, Last, Delivered
    <2>2. CASE Answers(TRUE) /\ Delivered /\ Tail(left) = <<>>
      BY <1>5, <2>2 DEF WaitCompleted, Answers
    <2>3. CASE Advances /\ Delivered
      BY <1>5, <2>3 DEF WaitCompleted, Advances
    <2>4. CASE Answers(FALSE)
      BY <1>5, <2>4 DEF WaitCompleted, Answers
    <2>5. CASE FallsBack
      BY <1>5, <2>5 DEF WaitCompleted, FallsBack
    <2> QED
      BY <2>1, <2>2, <2>3, <2>4, <2>5
  <1>6. ASSUME WaitTimesOut PROVE TicketTypes'
    <2>1. Answers(FALSE) \/ FallsBack
      BY <1>6, AfterFailure DEF WaitTimesOut
    <2>2. CASE Answers(FALSE)
      BY <1>6, <2>2, TicketCanceled DEF WaitTimesOut, Answers, IpcTypes
    <2>3. CASE FallsBack
      BY <1>6, <2>3, TicketCanceled DEF WaitTimesOut, FallsBack, IpcTypes
    <2> QED
      BY <2>1, <2>2, <2>3
  <1>7. ASSUME PostMessage PROVE TicketTypes'
    <2>1. Answers(TRUE) \/ Advances
      BY <1>7, AfterMessage DEF PostMessage
    <2>2. CASE Answers(TRUE)
      BY <1>7, <2>2 DEF PostMessage, Answers
    <2>3. CASE Advances
      BY <1>7, <2>3 DEF PostMessage, Advances
    <2> QED
      BY <2>1, <2>2, <2>3
  <1>8. ASSUME PostFails PROVE TicketTypes'
    <2>1. Answers(TRUE) \/ Advances \/ Answers(FALSE)
      BY <1>8, AfterMessage DEF PostFails, Answers, Reply
    <2>2. CASE Answers(TRUE)
      BY <1>8, <2>2 DEF PostFails, Answers
    <2>3. CASE Advances
      BY <1>8, <2>3 DEF PostFails, Advances
    <2>4. CASE Answers(FALSE)
      BY <1>8, <2>4 DEF PostFails, Answers
    <2> QED
      BY <2>1, <2>2, <2>3, <2>4
  <1>9. ASSUME Shutdown PROVE TicketTypes'
    BY <1>9 DEF Shutdown
  <1>10. ASSUME ResumeGame PROVE TicketTypes'
    BY <1>10 DEF ResumeGame
  <1>11. ASSUME GameChanges PROVE TicketTypes'
    BY <1>11 DEF GameChanges
  <1>12. ASSUME PumpMessage PROVE TicketTypes'
    BY <1>12 DEF PumpMessage
  <1>13. ASSUME ProcessInputs PROVE TicketTypes'
    BY <1>13 DEF ProcessInputs
  <1>14. ASSUME TryPop PROVE TicketTypes'
    BY <1>14 DEF TryPop
  <1>15. ASSUME DrainDone PROVE TicketTypes'
    BY <1>15 DEF DrainDone
  <1>16. ASSUME CheckCanceled PROVE TicketTypes'
    BY <1>16 DEF CheckCanceled
  <1>17. ASSUME Dispatch PROVE TicketTypes'
    BY <1>17 DEF Dispatch
  <1>18. ASSUME Complete PROVE TicketTypes'
    BY <1>18, TicketCompleted
  <1>19. ASSUME GamepadTick PROVE TicketTypes'
    BY <1>19 DEF GamepadTick
  <1>20. ASSUME GameIdles PROVE TicketTypes'
    BY <1>20 DEF GameIdles
  <1>21. ASSUME WaitMessageReturns PROVE TicketTypes'
    BY <1>21 DEF WaitMessageReturns
  <1>22. CASE UNCHANGED vars
    BY <1>22 DEF vars
  <1> QED
    BY <1>1, <1>2, <1>3, <1>4, <1>5, <1>6, <1>7, <1>8, <1>9, <1>10, <1>11, <1>12, <1>13,
       <1>14, <1>15, <1>16, <1>17, <1>18, <1>19, <1>20, <1>21, <1>22
       DEF Next, IpcStep, GameStep

\* of the game thread's,
LEMMA GameTypesStep == IInv /\ [Next]_vars => GameTypes'
  <1> SUFFICES ASSUME IInv, [Next]_vars PROVE GameTypes'
    OBVIOUS
  <1> USE SeamAssumption DEF IInv, TypeOK, GameTypes, GamePCs, Outcomes, Undelivered,
         ipcVars, ticketVars, gameVars
  <1>1. ASSUME NEW c \in Commands, ReceiveCommand(c) PROVE GameTypes'
    BY <1>1 DEF ReceiveCommand
  <1>2. ASSUME CheckReady PROVE GameTypes'
    BY <1>2 DEF CheckReady
  <1>3. ASSUME Push PROVE GameTypes'
    BY <1>3, TicketPushed DEF Push
  <1>4. ASSUME Wake PROVE GameTypes'
    BY <1>4 DEF Wake
  <1>5. ASSUME WaitCompleted PROVE GameTypes'
    BY <1>5 DEF WaitCompleted
  <1>6. ASSUME WaitTimesOut PROVE GameTypes'
    BY <1>6, TicketCanceled DEF WaitTimesOut, IpcTypes
  <1>7. ASSUME PostMessage PROVE GameTypes'
    <2>1. Current \in [command : 1 .. MaxCommands, kind : Kinds]
      BY <1>7 DEF PostMessage, IpcTypes, Current, Serving
    <2> QED
      BY <1>7, <2>1 DEF PostMessage
  <1>8. ASSUME PostFails PROVE GameTypes'
    BY <1>8 DEF PostFails
  <1>9. ASSUME Shutdown PROVE GameTypes'
    BY <1>9 DEF Shutdown
  <1>10. ASSUME ResumeGame PROVE GameTypes'
    BY <1>10 DEF ResumeGame
  <1>11. ASSUME GameChanges PROVE GameTypes'
    BY <1>11 DEF GameChanges
  <1>12. ASSUME PumpMessage PROVE GameTypes'
    BY <1>12 DEF PumpMessage
  <1>13. ASSUME ProcessInputs PROVE GameTypes'
    BY <1>13 DEF ProcessInputs
  <1>14. ASSUME TryPop PROVE GameTypes'
    BY <1>14 DEF TryPop, TicketTypes
  <1>15. ASSUME DrainDone PROVE GameTypes'
    BY <1>15 DEF DrainDone
  <1>16. ASSUME CheckCanceled PROVE GameTypes'
    BY <1>16 DEF CheckCanceled
  <1>17. ASSUME Dispatch PROVE GameTypes'
    <2>1. CASE Undeliverable
      BY <1>17, <2>1 DEF Dispatch, Undeliverable
    <2>2. ASSUME NEW e, Delivers(e) PROVE GameTypes'
      <3>1. e.handled \in BOOLEAN
        BY <2>2 DEF Delivers, Sightings
      <3> QED
        BY <1>17, <2>2, <3>1 DEF Dispatch, Delivers
    <2> QED
      BY <1>17, <2>1, <2>2, Dispatched
  <1>18. ASSUME Complete PROVE GameTypes'
    <2>1. game' = "pop" /\ outcome' = Undelivered /\ UNCHANGED <<uiReady, hooked, uiManager, window, osQueue>>
      BY <1>18 DEF Complete
    <2> QED
      BY <2>1
  <1>19. ASSUME GamepadTick PROVE GameTypes'
    BY <1>19 DEF GamepadTick
  <1>20. ASSUME GameIdles PROVE GameTypes'
    BY <1>20 DEF GameIdles
  <1>21. ASSUME WaitMessageReturns PROVE GameTypes'
    BY <1>21 DEF WaitMessageReturns
  <1>22. CASE UNCHANGED vars
    BY <1>22 DEF vars
  <1> QED
    BY <1>1, <1>2, <1>3, <1>4, <1>5, <1>6, <1>7, <1>8, <1>9, <1>10, <1>11, <1>12, <1>13,
       <1>14, <1>15, <1>16, <1>17, <1>18, <1>19, <1>20, <1>21, <1>22
       DEF Next, IpcStep, GameStep

\* and of what the game has seen.
LEMMA HistoryTypesStep == IInv /\ [Next]_vars => HistoryTypes'
  <1> SUFFICES ASSUME IInv, [Next]_vars PROVE HistoryTypes'
    OBVIOUS
  <1> USE SeamAssumption DEF IInv, TypeOK, HistoryTypes, ipcVars, ticketVars, gameVars
  <1>1. ASSUME NEW c \in Commands, ReceiveCommand(c) PROVE HistoryTypes'
    BY <1>1 DEF ReceiveCommand
  <1>2. ASSUME CheckReady PROVE HistoryTypes'
    BY <1>2 DEF CheckReady
  <1>3. ASSUME Push PROVE HistoryTypes'
    BY <1>3, TicketPushed DEF Push
  <1>4. ASSUME Wake PROVE HistoryTypes'
    BY <1>4 DEF Wake, TicketTypes
  <1>5. ASSUME WaitCompleted PROVE HistoryTypes'
    BY <1>5 DEF WaitCompleted
  <1>6. ASSUME WaitTimesOut PROVE HistoryTypes'
    BY <1>6, TicketCanceled DEF WaitTimesOut, IpcTypes, TicketTypes, GameTypes
  <1>7. ASSUME PostMessage PROVE HistoryTypes'
    BY <1>7, ServingInRange DEF PostMessage
  <1>8. ASSUME PostFails PROVE HistoryTypes'
    BY <1>8, ServingInRange DEF PostFails
  <1>9. ASSUME Shutdown PROVE HistoryTypes'
    BY <1>9 DEF Shutdown
  <1>10. ASSUME ResumeGame PROVE HistoryTypes'
    BY <1>10 DEF ResumeGame
  <1>11. ASSUME GameChanges PROVE HistoryTypes'
    BY <1>11 DEF GameChanges
  <1>12. ASSUME PumpMessage PROVE HistoryTypes'
    <2>1. CASE seen' = seen
      BY <1>12, <2>1 DEF PumpMessage
    <2>2. ASSUME NEW e \in Sightings, SeesMore(e), e.ticket = 0 PROVE HistoryTypes'
      BY <1>12, <2>2 DEF PumpMessage, SeesMore
    <2> QED
      BY <1>12, <2>1, <2>2, Pumped
  <1>13. ASSUME ProcessInputs PROVE HistoryTypes'
    BY <1>13 DEF ProcessInputs
  <1>14. ASSUME TryPop PROVE HistoryTypes'
    BY <1>14 DEF TryPop
  <1>15. ASSUME DrainDone PROVE HistoryTypes'
    BY <1>15 DEF DrainDone
  <1>16. ASSUME CheckCanceled PROVE HistoryTypes'
    BY <1>16 DEF CheckCanceled
  <1>17. ASSUME Dispatch PROVE HistoryTypes'
    <2>1. CASE Undeliverable
      BY <1>17, <2>1 DEF Dispatch, Undeliverable
    <2>2. ASSUME NEW e, Delivers(e) PROVE HistoryTypes'
      <3>1. UNCHANGED <<ticket, viaOs, woken, abandoned>>
        BY <1>17 DEF Dispatch
      <3>2. seen' \in Seq(Sightings)
        BY <2>2 DEF Delivers, SeesMore
      <3>3. ASSUME NEW i \in DOMAIN seen' PROVE seen'[i].ticket \in {0} \union DOMAIN ticket
        <4>1. seen'[i].ticket = held \/ (i \in DOMAIN seen /\ seen'[i] = seen[i])
          BY <2>2 DEF Delivers, SeesMore
        <4> QED
          BY <1>17, <4>1, Dispatched
      <3> QED
        BY <3>1, <3>2, <3>3
    <2> QED
      BY <1>17, <2>1, <2>2, Dispatched
  <1>18. ASSUME Complete PROVE HistoryTypes'
    BY <1>18, TicketCompleted
  <1>19. ASSUME GamepadTick PROVE HistoryTypes'
    BY <1>19 DEF GamepadTick
  <1>20. ASSUME GameIdles PROVE HistoryTypes'
    BY <1>20 DEF GameIdles
  <1>21. ASSUME WaitMessageReturns PROVE HistoryTypes'
    BY <1>21 DEF WaitMessageReturns
  <1>22. CASE UNCHANGED vars
    BY <1>22 DEF vars
  <1> QED
    BY <1>1, <1>2, <1>3, <1>4, <1>5, <1>6, <1>7, <1>8, <1>9, <1>10, <1>11, <1>12, <1>13,
       <1>14, <1>15, <1>16, <1>17, <1>18, <1>19, <1>20, <1>21, <1>22
       DEF Next, IpcStep, GameStep

-----------------------------------------------------------------------------
(* Sightings, by ticket and by command.                                    *)

LEMMA SameSightings ==
  ASSUME UNCHANGED seen
  PROVE  /\ \A t : SeenAt(t)' = SeenAt(t)
         /\ \A n : SeenBy(n)' = SeenBy(n) /\ CountOf(n)' = CountOf(n)
  BY DEF SeenAt, SeenBy, CountOf

\* A command was seen a finite number of times.
LEMMA Counts ==
  ASSUME HistoryTypes, NEW n
  PROVE  /\ SeenBy(n) \subseteq 1 .. Len(seen) /\ Len(seen) \in Nat
         /\ IsFiniteSet(SeenBy(n)) /\ CountOf(n) \in Nat
  <1>1. Len(seen) \in Nat /\ DOMAIN seen = 1 .. Len(seen)
    BY DEF HistoryTypes
  <1>2. SeenBy(n) \subseteq 1 .. Len(seen)
    BY <1>1 DEF SeenBy
  <1>3. IsFiniteSet(1 .. Len(seen))
    BY <1>1, FS_Interval
  <1>4. IsFiniteSet(SeenBy(n))
    BY <1>2, <1>3, FS_Subset
  <1> QED
    BY <1>1, <1>2, <1>4, FS_CardinalityType DEF CountOf

\* Another sighting counts for its ticket and its command.
LEMMA OneMoreSighting ==
  ASSUME HistoryTypes, NEW e, SeesMore(e)
  PROVE  /\ \A t : SeenAt(t)' = IF e.ticket = t THEN SeenAt(t) \union {Len(seen')} ELSE SeenAt(t)
         /\ \A n : SeenBy(n)' = IF e.command = n THEN SeenBy(n) \union {Len(seen')} ELSE SeenBy(n)
         /\ \A n : CountOf(n)' = IF e.command = n THEN CountOf(n) + 1 ELSE CountOf(n)
  <1>1. /\ Len(seen) \in Nat /\ Len(seen') = Len(seen) + 1
        /\ DOMAIN seen = 1 .. Len(seen) /\ DOMAIN seen' = 1 .. Len(seen')
        /\ \A i \in DOMAIN seen : seen'[i] = seen[i]
        /\ seen'[Len(seen')] = e
    BY DEF SeesMore
  <1>2. DOMAIN seen' = DOMAIN seen \union {Len(seen')} /\ Len(seen') \notin DOMAIN seen
    BY <1>1
  <1>3. \A t : SeenAt(t)' = IF e.ticket = t THEN SeenAt(t) \union {Len(seen')} ELSE SeenAt(t)
    BY <1>1, <1>2 DEF SeenAt
  <1>4. \A n : SeenBy(n)' = IF e.command = n THEN SeenBy(n) \union {Len(seen')} ELSE SeenBy(n)
    BY <1>1, <1>2 DEF SeenBy
  <1>5. ASSUME NEW n PROVE CountOf(n)' = IF e.command = n THEN CountOf(n) + 1 ELSE CountOf(n)
    <2>1. IsFiniteSet(SeenBy(n)) /\ Len(seen') \notin SeenBy(n)
      BY <1>2, Counts DEF SeenBy
    <2>2. Cardinality(SeenBy(n) \union {Len(seen')}) = Cardinality(SeenBy(n)) + 1
      BY <2>1, FS_AddElement
    <2> QED
      BY <1>4, <2>2 DEF CountOf
  <1> QED
    BY <1>3, <1>4, <1>5

\* What has not been pushed has not been seen.
LEMMA NewTicketUnseen ==
  ASSUME HistoryTypes
  PROVE  \A t : t \notin {0} \union DOMAIN ticket => SeenAt(t) = {}
  BY DEF HistoryTypes, SeenAt

-----------------------------------------------------------------------------
(* Tickets on their way.                                                   *)

\* The queue keeps its order, and its tickets wait for the game thread.
LEMMA QueueStep == IInv /\ [Next]_vars => QueueInv'
  <1> SUFFICES ASSUME IInv, [Next]_vars PROVE QueueInv'
    OBVIOUS
  <1> USE SameSightings DEF IInv, TypeOK, QueueInv, ipcVars, ticketVars, gameVars
  <1>1. ASSUME NEW c \in Commands, ReceiveCommand(c) PROVE QueueInv'
    BY <1>1 DEF ReceiveCommand
  <1>2. ASSUME CheckReady PROVE QueueInv'
    BY <1>2 DEF CheckReady
  <1>3. ASSUME Push PROVE QueueInv'
    <2>1. queue \in Seq(DOMAIN ticket) /\ game' = game /\ held' = held
      BY <1>3 DEF TicketTypes, Push
    <2>2. \A i \in DOMAIN queue : queue[i] \in DOMAIN ticket /\ queue[i] < Len(ticket')
      BY <1>3, <2>1, TicketPushed
    <2>3. UNCHANGED seen /\ \A t : SeenAt(t)' = SeenAt(t)
      BY <1>3 DEF Push
    <2>4. game \in {"check", "dispatch", "complete"} => held < Len(ticket')
      BY <1>3, TicketPushed DEF GameTypes
    <2>5. \A i \in DOMAIN queue' : \/ queue'[i] = Len(ticket') /\ i = Len(queue) + 1
                                   \/ i \in DOMAIN queue /\ queue'[i] = queue[i]
      <3>1. queue' = Append(queue, Len(ticket')) /\ Len(queue) \in Nat /\ DOMAIN queue = 1 .. Len(queue)
        BY <1>3, <2>1, TicketPushed
      <3> QED
        BY <2>1, <3>1
    <2>6. /\ \A t : t = Len(ticket') => SeenAt(t)' = {}
          /\ ticket'[Len(ticket')].status = "open"
      BY <1>3, <2>3, NewTicketUnseen, TicketPushed
    <2>7. \A i, j \in DOMAIN queue' : i < j => queue'[i] < queue'[j]
      <3>1. \A i \in DOMAIN queue : i \in Nat /\ i < Len(queue) + 1 /\ Len(queue) \in Nat
        BY <2>1
      <3> QED
        BY <2>2, <2>5, <3>1
    <2>8. \A i \in DOMAIN queue : ticket'[queue[i]] = ticket[queue[i]]
      BY <1>3, <2>2, TicketPushed
    <2> QED
      BY <2>1, <2>2, <2>3, <2>4, <2>5, <2>6, <2>7, <2>8
  <1>4. ASSUME Wake PROVE QueueInv'
    BY <1>4 DEF Wake
  <1>5. ASSUME WaitCompleted PROVE QueueInv'
    BY <1>5 DEF WaitCompleted
  <1>6. ASSUME WaitTimesOut PROVE QueueInv'
    <2>1. UNCHANGED <<queue, seen, game, held>> /\ \A i \in DOMAIN queue : queue[i] \in DOMAIN ticket
      BY <1>6 DEF WaitTimesOut, TicketTypes
    <2>2. \A t \in DOMAIN ticket : ticket'[t] = ticket[t] \/ ticket'[t].status = "canceled"
      BY <1>6, TicketCanceled
    <2> QED
      BY <2>1, <2>2
  <1>7. ASSUME PostMessage PROVE QueueInv'
    BY <1>7 DEF PostMessage
  <1>8. ASSUME PostFails PROVE QueueInv'
    BY <1>8 DEF PostFails
  <1>9. ASSUME Shutdown PROVE QueueInv'
    BY <1>9 DEF Shutdown
  <1>10. ASSUME ResumeGame PROVE QueueInv'
    BY <1>10 DEF ResumeGame
  <1>11. ASSUME GameChanges PROVE QueueInv'
    BY <1>11 DEF GameChanges
  <1>12. ASSUME PumpMessage PROVE QueueInv'
    <2>1. UNCHANGED <<queue, ticket, game, held>> /\ game = "pump"
      BY <1>12 DEF PumpMessage
    <2>2. \A i \in DOMAIN queue : queue[i] # 0
      BY <1>12 DEF TicketTypes
    <2>3. \A i \in DOMAIN queue : SeenAt(queue[i])' = SeenAt(queue[i])
      BY <1>12, <2>1, <2>2, Pumped, OneMoreSighting
    <2> QED
      BY <2>1, <2>3
  <1>13. ASSUME ProcessInputs PROVE QueueInv'
    BY <1>13 DEF ProcessInputs
  <1>14. ASSUME TryPop PROVE QueueInv'
    <2>1. queue \in Seq(DOMAIN ticket) /\ queue # <<>> /\ queue' = Tail(queue) /\ held' = Head(queue)
      BY <1>14 DEF TryPop, TicketTypes
    <2>2. \A i \in DOMAIN queue' : i + 1 \in DOMAIN queue /\ i \in Nat /\ queue'[i] = queue[i + 1] /\ i > 0
      BY <2>1
    <2>3. 1 \in DOMAIN queue /\ held' = queue[1]
      BY <2>1
    <2>4. UNCHANGED <<ticket, seen>>
      BY <1>14 DEF TryPop
    <2> QED
      BY <2>1, <2>2, <2>3, <2>4
  <1>15. ASSUME DrainDone PROVE QueueInv'
    BY <1>15 DEF DrainDone
  <1>16. ASSUME CheckCanceled PROVE QueueInv'
    BY <1>16 DEF CheckCanceled
  <1>17. ASSUME Dispatch PROVE QueueInv'
    <2>1. /\ UNCHANGED <<queue, ticket, held>> /\ game = "dispatch" /\ game' = "complete"
          /\ \A i \in DOMAIN queue : queue[i] # held
      BY <1>17 DEF Dispatch, TicketTypes, GameTypes
    <2>2. \A i \in DOMAIN queue : SeenAt(queue[i])' = SeenAt(queue[i])
      BY <1>17, <2>1, Dispatched, OneMoreSighting DEF Delivers, Undeliverable
    <2> QED
      BY <2>1, <2>2
  <1>18. ASSUME Complete PROVE QueueInv'
    <2>1. \A i \in DOMAIN queue :
            queue[i] \in DOMAIN ticket /\ queue[i] \in Nat /\ held < queue[i] /\ held \in Nat
      BY <1>18 DEF Complete, TicketTypes, GameTypes
    <2>2. UNCHANGED <<queue, seen>> /\ game' = "pop"
      BY <1>18 DEF Complete
    <2>3. \A i \in DOMAIN queue : ticket'[queue[i]] = ticket[queue[i]]
      BY <1>18, <2>1, TicketCompleted
    <2> QED
      BY <2>1, <2>2, <2>3
  <1>19. ASSUME GamepadTick PROVE QueueInv'
    BY <1>19 DEF GamepadTick
  <1>20. ASSUME GameIdles PROVE QueueInv'
    BY <1>20 DEF GameIdles
  <1>21. ASSUME WaitMessageReturns PROVE QueueInv'
    BY <1>21 DEF WaitMessageReturns
  <1>22. CASE UNCHANGED vars
    BY <1>22 DEF vars
  <1> QED
    BY <1>1, <1>2, <1>3, <1>4, <1>5, <1>6, <1>7, <1>8, <1>9, <1>10, <1>11, <1>12, <1>13,
       <1>14, <1>15, <1>16, <1>17, <1>18, <1>19, <1>20, <1>21, <1>22
       DEF Next, IpcStep, GameStep

\* The ticket in hand is unseen until it is dispatched, and its answer is the game's.
LEMMA HeldStep == IInv /\ [Next]_vars => HeldInv'
  <1> SUFFICES ASSUME IInv, [Next]_vars PROVE HeldInv'
    OBVIOUS
  <1> USE SameSightings DEF IInv, TypeOK, HeldInv, ipcVars, ticketVars, gameVars
  <1>1. ASSUME NEW c \in Commands, ReceiveCommand(c) PROVE HeldInv'
    BY <1>1 DEF ReceiveCommand
  <1>2. ASSUME CheckReady PROVE HeldInv'
    BY <1>2 DEF CheckReady
  <1>3. ASSUME Push PROVE HeldInv'
    <2>1. /\ UNCHANGED <<seen, game, held, outcome, abandoned>>
          /\ \A t \in DOMAIN ticket : ticket'[t] = ticket[t]
      BY <1>3, TicketPushed DEF Push
    <2> QED
      BY <2>1 DEF GameTypes
  <1>4. ASSUME Wake PROVE HeldInv'
    BY <1>4 DEF Wake
  <1>5. ASSUME WaitCompleted PROVE HeldInv'
    BY <1>5 DEF WaitCompleted
  <1>6. ASSUME WaitTimesOut PROVE HeldInv'
    <2>1. UNCHANGED <<seen, game, held, outcome>>
      BY <1>6 DEF WaitTimesOut
    <2>2. \A t \in DOMAIN ticket : ticket'[t] = ticket[t] \/ ticket'[t].status = "canceled"
      BY <1>6, TicketCanceled
    <2> QED
      BY <2>1, <2>2 DEF GameTypes
  <1>7. ASSUME PostMessage PROVE HeldInv'
    BY <1>7 DEF PostMessage
  <1>8. ASSUME PostFails PROVE HeldInv'
    BY <1>8 DEF PostFails
  <1>9. ASSUME Shutdown PROVE HeldInv'
    BY <1>9 DEF Shutdown
  <1>10. ASSUME ResumeGame PROVE HeldInv'
    BY <1>10 DEF ResumeGame
  <1>11. ASSUME GameChanges PROVE HeldInv'
    BY <1>11 DEF GameChanges
  <1>12. ASSUME PumpMessage PROVE HeldInv'
    <2>1. game = "pump" /\ game' = game
      BY <1>12 DEF PumpMessage
    <2> QED
      BY <2>1
  <1>13. ASSUME ProcessInputs PROVE HeldInv'
    BY <1>13 DEF ProcessInputs
  <1>14. ASSUME TryPop PROVE HeldInv'
    <2>1. 1 \in DOMAIN queue /\ held' = queue[1] /\ game' = "check" /\ UNCHANGED <<ticket, seen>>
      BY <1>14 DEF TryPop, TicketTypes
    <2> QED
      BY <2>1 DEF QueueInv
  <1>15. ASSUME DrainDone PROVE HeldInv'
    BY <1>15 DEF DrainDone
  <1>16. ASSUME CheckCanceled PROVE HeldInv'
    BY <1>16 DEF CheckCanceled
  <1>17. ASSUME Dispatch PROVE HeldInv'
    <2>1. UNCHANGED <<ticket, held>> /\ game = "dispatch" /\ game' = "complete" /\ held \in DOMAIN ticket
      BY <1>17, Dispatched DEF Dispatch
    <2>2. CASE Undeliverable
      BY <2>1, <2>2 DEF Undeliverable, Undelivered
    <2>3. ASSUME NEW e, Delivers(e) PROVE HeldInv'
      <3>1. SeenAt(held)' = {Len(seen')} /\ seen'[Len(seen')] = e
        BY <2>1, <2>3, OneMoreSighting DEF Delivers, SeesMore
      <3>2. outcome'.delivered = TRUE /\ outcome'.handled = e.handled
        BY <2>3 DEF Delivers
      <3> QED
        BY <2>1, <3>1, <3>2
    <2> QED
      BY <1>17, <2>2, <2>3, Dispatched
  <1>18. ASSUME Complete PROVE HeldInv'
    BY <1>18 DEF Complete
  <1>19. ASSUME GamepadTick PROVE HeldInv'
    BY <1>19 DEF GamepadTick
  <1>20. ASSUME GameIdles PROVE HeldInv'
    BY <1>20 DEF GameIdles
  <1>21. ASSUME WaitMessageReturns PROVE HeldInv'
    BY <1>21 DEF WaitMessageReturns
  <1>22. CASE UNCHANGED vars
    BY <1>22 DEF vars
  <1> QED
    BY <1>1, <1>2, <1>3, <1>4, <1>5, <1>6, <1>7, <1>8, <1>9, <1>10, <1>11, <1>12, <1>13,
       <1>14, <1>15, <1>16, <1>17, <1>18, <1>19, <1>20, <1>21, <1>22
       DEF Next, IpcStep, GameStep

\* A ticket given up in time is never in hand past the check.
LEMMA AbandonedStep == IInv /\ [Next]_vars => AbandonedInv'
  <1> SUFFICES ASSUME IInv, [Next]_vars PROVE AbandonedInv'
    OBVIOUS
  <1> USE SameSightings DEF IInv, TypeOK, AbandonedInv, ipcVars, ticketVars, gameVars
  <1>1. ASSUME NEW c \in Commands, ReceiveCommand(c) PROVE AbandonedInv'
    BY <1>1 DEF ReceiveCommand
  <1>2. ASSUME CheckReady PROVE AbandonedInv'
    BY <1>2 DEF CheckReady
  <1>3. ASSUME Push PROVE AbandonedInv'
    <2>1. /\ UNCHANGED <<seen, game, held, outcome, abandoned>>
          /\ \A t \in DOMAIN ticket : ticket'[t] = ticket[t]
      BY <1>3, TicketPushed DEF Push
    <2> QED
      BY <2>1 DEF HistoryTypes
  <1>4. ASSUME Wake PROVE AbandonedInv'
    BY <1>4 DEF Wake
  <1>5. ASSUME WaitCompleted PROVE AbandonedInv'
    BY <1>5 DEF WaitCompleted
  <1>6. ASSUME WaitTimesOut PROVE AbandonedInv'
    <2>1. UNCHANGED <<seen, game, held>>
      BY <1>6 DEF WaitTimesOut
    <2>2. \A t \in abandoned : ticket'[t].status = "canceled"
      BY <1>6, TicketCanceled DEF HistoryTypes
    <2>3. ASSUME NEW t \in abandoned', t \notin abandoned
          PROVE  /\ t = Len(ticket) /\ ticket'[t].status = "canceled" /\ SeenAt(t) = {}
                 /\ game \in {"dispatch", "complete"} => held # t
      <3>1. /\ t = Len(ticket)
            /\ Contains(queue, Len(ticket)) \/ (game = "check" /\ held = Len(ticket))
        BY <1>6, <2>3 DEF WaitTimesOut
      <3>2. Contains(queue, Len(ticket)) => \E i \in DOMAIN queue : queue[i] = Len(ticket)
        BY DEF Contains, TicketTypes
      <3>3. ticket'[t].status = "canceled"
        BY <1>6, <3>1, TicketCanceled
      <3>4. SeenAt(t) = {}
        BY <3>1, <3>2 DEF QueueInv, HeldInv
      <3>5. game \in {"dispatch", "complete"} => held # t
        BY <3>1, <3>2 DEF QueueInv, GameTypes, TicketTypes
      <3> QED
        BY <3>1, <3>3, <3>4, <3>5
    <2> QED
      BY <2>1, <2>2, <2>3
  <1>7. ASSUME PostMessage PROVE AbandonedInv'
    BY <1>7 DEF PostMessage
  <1>8. ASSUME PostFails PROVE AbandonedInv'
    BY <1>8 DEF PostFails
  <1>9. ASSUME Shutdown PROVE AbandonedInv'
    BY <1>9 DEF Shutdown
  <1>10. ASSUME ResumeGame PROVE AbandonedInv'
    BY <1>10 DEF ResumeGame
  <1>11. ASSUME GameChanges PROVE AbandonedInv'
    BY <1>11 DEF GameChanges
  <1>12. ASSUME PumpMessage PROVE AbandonedInv'
    <2>1. UNCHANGED <<ticket, game, held, abandoned>> /\ game = "pump"
      BY <1>12 DEF PumpMessage
    <2>2. \A t \in abandoned : t # 0
      BY DEF HistoryTypes, TicketTypes
    <2>3. \A t \in abandoned : SeenAt(t)' = SeenAt(t)
      BY <1>12, <2>2, Pumped, OneMoreSighting
    <2> QED
      BY <2>1, <2>3
  <1>13. ASSUME ProcessInputs PROVE AbandonedInv'
    BY <1>13 DEF ProcessInputs
  <1>14. ASSUME TryPop PROVE AbandonedInv'
    BY <1>14 DEF TryPop
  <1>15. ASSUME DrainDone PROVE AbandonedInv'
    BY <1>15 DEF DrainDone
  <1>16. ASSUME CheckCanceled PROVE AbandonedInv'
    BY <1>16 DEF CheckCanceled
  <1>17. ASSUME Dispatch PROVE AbandonedInv'
    <2>1. UNCHANGED <<ticket, held, abandoned>> /\ game = "dispatch" /\ game' = "complete"
      BY <1>17 DEF Dispatch
    <2>2. \A t \in abandoned : SeenAt(t)' = SeenAt(t)
      BY <1>17, <2>1, Dispatched, OneMoreSighting DEF Delivers, Undeliverable
    <2> QED
      BY <2>1, <2>2
  <1>18. ASSUME Complete PROVE AbandonedInv'
    <2>1. UNCHANGED <<seen, abandoned>> /\ game' = "pop" /\ game = "complete"
      BY <1>18 DEF Complete
    <2>2. \A t \in abandoned : ticket'[t] = ticket[t]
      BY <1>18, <2>1, TicketCompleted DEF HistoryTypes
    <2> QED
      BY <2>1, <2>2
  <1>19. ASSUME GamepadTick PROVE AbandonedInv'
    BY <1>19 DEF GamepadTick
  <1>20. ASSUME GameIdles PROVE AbandonedInv'
    BY <1>20 DEF GameIdles
  <1>21. ASSUME WaitMessageReturns PROVE AbandonedInv'
    BY <1>21 DEF WaitMessageReturns
  <1>22. CASE UNCHANGED vars
    BY <1>22 DEF vars
  <1> QED
    BY <1>1, <1>2, <1>3, <1>4, <1>5, <1>6, <1>7, <1>8, <1>9, <1>10, <1>11, <1>12, <1>13,
       <1>14, <1>15, <1>16, <1>17, <1>18, <1>19, <1>20, <1>21, <1>22
       DEF Next, IpcStep, GameStep

\* What Wait reports of a ticket is what the game did with it.
LEMMA TruthfulStep == IInv /\ [Next]_vars => TruthfulTickets'
  <1> SUFFICES ASSUME IInv, [Next]_vars PROVE TruthfulTickets'
    OBVIOUS
  <1> USE SameSightings DEF IInv, TypeOK, TruthfulTickets, ipcVars, ticketVars, gameVars
  <1>1. ASSUME NEW c \in Commands, ReceiveCommand(c) PROVE TruthfulTickets'
    BY <1>1 DEF ReceiveCommand
  <1>2. ASSUME CheckReady PROVE TruthfulTickets'
    BY <1>2 DEF CheckReady
  <1>3. ASSUME Push PROVE TruthfulTickets'
    <2>1. UNCHANGED seen /\ \A t : SeenAt(t)' = SeenAt(t)
      BY <1>3 DEF Push
    <2>2. \A t \in DOMAIN ticket' : \/ t \in DOMAIN ticket /\ ticket'[t] = ticket[t]
                                    \/ t = Len(ticket') /\ ticket'[t].status = "open"
      BY <1>3, TicketPushed
    <2>3. \A t : t = Len(ticket') => SeenAt(t) = {}
      BY <1>3, NewTicketUnseen, TicketPushed
    <2> QED
      BY <2>1, <2>2, <2>3
  <1>4. ASSUME Wake PROVE TruthfulTickets'
    BY <1>4 DEF Wake
  <1>5. ASSUME WaitCompleted PROVE TruthfulTickets'
    BY <1>5 DEF WaitCompleted
  <1>6. ASSUME WaitTimesOut PROVE TruthfulTickets'
    <2>1. UNCHANGED seen
      BY <1>6 DEF WaitTimesOut
    <2>2. DOMAIN ticket' = DOMAIN ticket
          /\ \A t \in DOMAIN ticket : ticket'[t] = ticket[t] \/ ticket'[t].status = "canceled"
      BY <1>6, TicketCanceled
    <2> QED
      BY <2>1, <2>2
  <1>7. ASSUME PostMessage PROVE TruthfulTickets'
    BY <1>7 DEF PostMessage
  <1>8. ASSUME PostFails PROVE TruthfulTickets'
    BY <1>8 DEF PostFails
  <1>9. ASSUME Shutdown PROVE TruthfulTickets'
    BY <1>9 DEF Shutdown
  <1>10. ASSUME ResumeGame PROVE TruthfulTickets'
    BY <1>10 DEF ResumeGame
  <1>11. ASSUME GameChanges PROVE TruthfulTickets'
    BY <1>11 DEF GameChanges
  <1>12. ASSUME PumpMessage PROVE TruthfulTickets'
    <2>1. UNCHANGED ticket /\ \A t \in DOMAIN ticket : t # 0
      BY <1>12 DEF PumpMessage, TicketTypes
    <2>2. \A t \in DOMAIN ticket : SeenAt(t)' = SeenAt(t)
      BY <1>12, <2>1, Pumped, OneMoreSighting
    <2>3. \A t \in DOMAIN ticket : \A i \in SeenAt(t) : seen'[i] = seen[i]
      BY <1>12, Pumped DEF SeesMore, SeenAt
    <2> QED
      BY <2>1, <2>2, <2>3
  <1>13. ASSUME ProcessInputs PROVE TruthfulTickets'
    BY <1>13 DEF ProcessInputs
  <1>14. ASSUME TryPop PROVE TruthfulTickets'
    BY <1>14 DEF TryPop
  <1>15. ASSUME DrainDone PROVE TruthfulTickets'
    BY <1>15 DEF DrainDone
  <1>16. ASSUME CheckCanceled PROVE TruthfulTickets'
    BY <1>16 DEF CheckCanceled
  <1>17. ASSUME Dispatch PROVE TruthfulTickets'
    <2>1. UNCHANGED <<ticket, held>> /\ ticket[held].status # "completed" /\ SeenAt(held) = {}
      BY <1>17 DEF Dispatch, HeldInv
    <2>2. CASE Undeliverable
      BY <2>1, <2>2 DEF Undeliverable
    <2>3. ASSUME NEW e, Delivers(e) PROVE TruthfulTickets'
      <3>1. \A t : t # held => SeenAt(t)' = SeenAt(t)
        BY <2>3, OneMoreSighting DEF Delivers
      <3>2. SeenAt(held)' = {Len(seen')}
        BY <2>1, <2>3, OneMoreSighting DEF Delivers
      <3>3. \A t : \A i \in SeenAt(t) : seen'[i] = seen[i]
        BY <2>3 DEF Delivers, SeesMore, SeenAt
      <3> QED
        BY <2>1, <3>1, <3>2, <3>3
    <2> QED
      BY <1>17, <2>2, <2>3, Dispatched
  <1>18. ASSUME Complete PROVE TruthfulTickets'
    <2>1. UNCHANGED seen /\ DOMAIN ticket' = DOMAIN ticket /\ held \in DOMAIN ticket
      BY <1>18, TicketCompleted
    <2>2. \A t \in DOMAIN ticket : t # held => ticket'[t] = ticket[t]
      BY <1>18, TicketCompleted
    <2>3. ticket'[held] = ticket[held] \/ (/\ ticket'[held].delivered = outcome.delivered
                                           /\ ticket'[held].handled = outcome.handled)
      BY <1>18, TicketCompleted
    <2>4. /\ outcome.delivered <=> SeenAt(held) # {}
          /\ \A i \in SeenAt(held) : seen[i].handled = outcome.handled
      BY <1>18, TicketCompleted DEF HeldInv
    <2> QED
      BY <2>1, <2>2, <2>3, <2>4
  <1>19. ASSUME GamepadTick PROVE TruthfulTickets'
    BY <1>19 DEF GamepadTick
  <1>20. ASSUME GameIdles PROVE TruthfulTickets'
    BY <1>20 DEF GameIdles
  <1>21. ASSUME WaitMessageReturns PROVE TruthfulTickets'
    BY <1>21 DEF WaitMessageReturns
  <1>22. CASE UNCHANGED vars
    BY <1>22 DEF vars
  <1> QED
    BY <1>1, <1>2, <1>3, <1>4, <1>5, <1>6, <1>7, <1>8, <1>9, <1>10, <1>11, <1>12, <1>13,
       <1>14, <1>15, <1>16, <1>17, <1>18, <1>19, <1>20, <1>21, <1>22
       DEF Next, IpcStep, GameStep

-----------------------------------------------------------------------------
(* Commands on their way.                                                  *)

\* Answering one is the last of the replies, and changes no command's kind.
LEMMA OneMoreReply ==
  ASSUME IpcTypes, ipc \notin {"client", "stopped"}, NEW ok \in BOOLEAN, Answers(ok)
  PROVE  /\ Len(replies) \in Nat /\ Len(replies') = Len(replies) + 1
         /\ Serving \in Nat /\ Serving' = Serving + 1
         /\ DOMAIN replies = 1 .. Len(replies) /\ DOMAIN replies' = 1 .. Len(replies')
         /\ \A n \in DOMAIN replies : replies'[n] = replies[n]
         /\ replies'[Serving] = [command |-> command, ok |-> ok]
         /\ ipc' = "client" /\ Serving \in 1 .. MaxCommands
         /\ \A n \in Nat : CommandOf(n)' = CommandOf(n)
  <1> DEFINE r == [command |-> command, ok |-> ok]
  <1>1. r \in [command : Commands, ok : BOOLEAN] /\ r.command = command
    BY DEF IpcTypes
  <1>2. replies' = Append(replies, r) /\ ipc' = "client" /\ command' = "none"
    BY DEF Answers
  <1>3. replies \in Seq([command : Commands, ok : BOOLEAN])
    BY DEF IpcTypes
  <1> HIDE DEF r
  <1>4. /\ Len(replies) \in Nat /\ Len(replies') = Len(replies) + 1
        /\ DOMAIN replies = 1 .. Len(replies) /\ DOMAIN replies' = 1 .. Len(replies')
        /\ \A n \in DOMAIN replies : replies'[n] = replies[n]
        /\ replies'[Len(replies) + 1] = r
    BY <1>1, <1>2, <1>3
  <1>5. Serving \in Nat /\ Serving' = Serving + 1 /\ Serving = Len(replies) + 1
    BY <1>4 DEF Serving
  <1>6. ASSUME NEW n \in Nat PROVE CommandOf(n)' = CommandOf(n)
    <2>1. CASE n \in DOMAIN replies
      BY <1>4, <2>1 DEF CommandOf
    <2>2. CASE n = Serving
      BY <1>1, <1>4, <1>5, <2>2 DEF CommandOf
    <2>3. CASE n \notin DOMAIN replies /\ n # Serving
      BY <1>2, <1>4, <1>5, <2>3 DEF CommandOf
    <2> QED
      BY <2>1, <2>2, <2>3
  <1> QED
    BY <1>1, <1>2, <1>4, <1>5, <1>6, ServingInRange DEF r

\* The numbers that are compared are numbers.
LEMMA Numbers ==
  ASSUME IpcTypes, TicketTypes, HistoryTypes
  PROVE  /\ Len(replies) \in Nat /\ Serving = Len(replies) + 1 /\ DOMAIN replies = 1 .. Len(replies)
         /\ Len(ticket) \in Nat /\ DOMAIN ticket = 1 .. Len(ticket)
         /\ \A t \in DOMAIN ticket : ticket[t] \in Tickets /\ ticket[t].command \in 1 .. MaxCommands
         /\ \A i \in DOMAIN seen : seen[i] \in Sightings /\ seen[i].command \in 1 .. MaxCommands
         /\ viaOs \subseteq 1 .. MaxCommands
  <1>1. \A t \in DOMAIN ticket : ticket[t] \in Tickets
    BY DEF TicketTypes
  <1>2. \A i \in DOMAIN seen : seen[i] \in Sightings
    BY DEF HistoryTypes
  <1>3. /\ \A x \in Tickets : x.command \in 1 .. MaxCommands
        /\ \A e \in Sightings : e.command \in 1 .. MaxCommands
    BY DEF Tickets, Sightings
  <1>4. Len(ticket) \in Nat /\ DOMAIN ticket = 1 .. Len(ticket)
    BY DEF TicketTypes
  <1>5. Len(replies) \in Nat /\ Serving = Len(replies) + 1 /\ DOMAIN replies = 1 .. Len(replies)
    BY DEF IpcTypes, Serving
  <1> QED
    BY <1>1, <1>2, <1>3, <1>4, <1>5 DEF HistoryTypes

\* What only the game thread does leaves the number of the command.
LEMMA SameServing ==
  ASSUME UNCHANGED <<replies, command>> PROVE Serving' = Serving /\ \A n : CommandOf(n)' = CommandOf(n)
  BY DEF Serving, CommandOf

\* What an answer does to the numbers of commands.
LEMMA Answered1 ==
  ASSUME IpcTypes, ipc \notin {"client", "stopped"}, NEW ok \in BOOLEAN, Answers(ok)
  PROVE  /\ ipc' = "client" /\ Serving \in Nat /\ Serving' = Serving + 1 /\ Len(replies') = Serving
         /\ Len(replies) = Serving - 1
  <1>1. ipc' = "client" /\ Serving \in Nat /\ Len(replies') = Len(replies) + 1 /\ Len(replies) \in Nat
    BY OneMoreReply
  <1>2. Serving = Len(replies) + 1 /\ Serving' = Len(replies') + 1
    BY DEF Serving
  <1> QED
    BY <1>1, <1>2

\* Every command number that is kept is a number.
LEMMA CommandNumbers ==
  ASSUME IpcTypes, TicketTypes, HistoryTypes
  PROVE  /\ Serving \in Nat /\ Len(replies) \in Nat /\ Serving = Len(replies) + 1
         /\ \A t \in DOMAIN ticket : ticket[t].command \in Nat
         /\ \A i \in DOMAIN seen : seen[i].command \in Nat
         /\ viaOs \subseteq Nat
  BY SeamAssumption, Numbers

\* The open ticket is the one waited for.
LEMMA OpenStep == IInv /\ [Next]_vars => OpenInv'
  <1> SUFFICES ASSUME IInv, [Next]_vars PROVE OpenInv'
    OBVIOUS
  <1> USE SameServing DEF IInv, TypeOK, OpenInv, Last, ipcVars, ticketVars, gameVars
  <1>1. ASSUME NEW c \in Commands, ReceiveCommand(c) PROVE OpenInv'
    <2>1. ipc = "client" /\ UNCHANGED <<ticket, replies, seen, viaOs>> /\ ipc' \in {"post", "ready"}
      BY <1>1 DEF ReceiveCommand
    <2>2. Serving' = Serving
      BY <2>1 DEF Serving
    <2> QED
      BY <2>1, <2>2, Numbers
  <1>2. ASSUME CheckReady PROVE OpenInv'
    <2>1. Proceeds \/ Answers(FALSE) \/ FallsBack
      BY <1>2, AfterFailure DEF CheckReady, Proceeds
    <2>2. CASE Proceeds
      <3>1. ipc' = "push" /\ UNCHANGED <<replies, command, left>> /\ Serving' = Serving
        BY <1>2, <2>2, SameServing DEF CheckReady, Proceeds
      <3>2. ipc = "ready" /\ UNCHANGED <<ticket, seen, viaOs>>
        BY <1>2 DEF CheckReady
      <3> QED
        BY <3>1, <3>2, CommandNumbers
    <2>3. CASE Answers(FALSE)
      <3>1. ipc' = "client" /\ Serving' = Serving + 1 /\ Len(replies') = Serving
        BY <1>2, <2>3, Answered1 DEF CheckReady
      <3>2. ipc = "ready" /\ UNCHANGED <<ticket, seen, viaOs>>
        BY <1>2 DEF CheckReady
      <3> QED
        BY <3>1, <3>2, CommandNumbers
    <2>4. CASE FallsBack
      <3>1. ipc' = "post" /\ UNCHANGED <<replies, command, left>> /\ Serving' = Serving
        BY <1>2, <2>4, SameServing DEF CheckReady, FallsBack
      <3>2. ipc = "ready" /\ UNCHANGED <<ticket, seen, viaOs>>
        BY <1>2 DEF CheckReady
      <3> QED
        BY <3>1, <3>2, CommandNumbers
    <2> QED
      BY <2>1, <2>2, <2>3, <2>4
  <1>3. ASSUME Push PROVE OpenInv'
    <2>1. /\ UNCHANGED <<viaOs, replies, command, left>> /\ ipc = "push" /\ ipc' = "wake"
      BY <1>3 DEF Push
    <2>2. \A t \in DOMAIN ticket' : \/ t \in DOMAIN ticket /\ ticket'[t] = ticket[t]
                                    \/ t = Len(ticket')
      BY <1>3, TicketPushed
    <2>3. /\ ticket'[Len(ticket')].command = Serving /\ ticket'[Len(ticket')].kind = Head(left)
          /\ ticket'[Len(ticket')].status = "open"
      BY <1>3, TicketPushed
    <2> QED
      BY <2>1, <2>2, <2>3
  <1>4. ASSUME Wake PROVE OpenInv'
    BY <1>4 DEF Wake
  <1>5. ASSUME WaitCompleted PROVE OpenInv'
    <2>1. \/ Answers(TRUE) /\ Delivered /\ Tail(left) = <<>>
          \/ Advances /\ Delivered
          \/ Answers(FALSE)
          \/ FallsBack
      BY <1>5, AfterMessage, AfterFailure DEF WaitCompleted, Last, Delivered
    <2>2. CASE Answers(TRUE) /\ Delivered /\ Tail(left) = <<>>
      <3>1. ipc' = "client" /\ Serving' = Serving + 1 /\ Len(replies') = Serving
        BY <1>5, <2>2, Answered1 DEF WaitCompleted
      <3>2. ipc = "wait" /\ UNCHANGED <<ticket, seen, viaOs>> /\ ticket[Len(ticket)].status = "completed"
        BY <1>5 DEF WaitCompleted
      <3> QED
        BY <3>1, <3>2, CommandNumbers
    <2>3. CASE Advances /\ Delivered
      <3>1. ipc' = "ready" /\ UNCHANGED <<replies, command>> /\ Serving' = Serving
        BY <1>5, <2>3, SameServing DEF WaitCompleted, Advances
      <3>2. ipc = "wait" /\ UNCHANGED <<ticket, seen, viaOs>> /\ ticket[Len(ticket)].status = "completed"
        BY <1>5 DEF WaitCompleted
      <3> QED
        BY <3>1, <3>2, CommandNumbers
    <2>4. CASE Answers(FALSE)
      <3>1. ipc' = "client" /\ Serving' = Serving + 1 /\ Len(replies') = Serving
        BY <1>5, <2>4, Answered1 DEF WaitCompleted
      <3>2. ipc = "wait" /\ UNCHANGED <<ticket, seen, viaOs>> /\ ticket[Len(ticket)].status = "completed"
        BY <1>5 DEF WaitCompleted
      <3> QED
        BY <3>1, <3>2, CommandNumbers
    <2>5. CASE FallsBack
      <3>1. ipc' = "post" /\ UNCHANGED <<replies, command, left>> /\ Serving' = Serving
        BY <1>5, <2>5, SameServing DEF WaitCompleted, FallsBack
      <3>2. ipc = "wait" /\ UNCHANGED <<ticket, seen, viaOs>> /\ ticket[Len(ticket)].status = "completed"
        BY <1>5 DEF WaitCompleted
      <3> QED
        BY <3>1, <3>2, CommandNumbers
    <2> QED
      BY <2>1, <2>2, <2>3, <2>4, <2>5
  <1>6. ASSUME WaitTimesOut PROVE OpenInv'
    <2>1. Answers(FALSE) \/ FallsBack
      BY <1>6, AfterFailure DEF WaitTimesOut
    <2>2. CASE Answers(FALSE)
      <3>1. ipc' = "client" /\ Serving' = Serving + 1 /\ Len(replies') = Serving
        BY <1>6, <2>2, Answered1 DEF WaitTimesOut
      <3>2. /\ UNCHANGED viaOs /\ ipc = "wait"
            /\ DOMAIN ticket' = DOMAIN ticket /\ Len(ticket') = Len(ticket) /\ Len(ticket) \in DOMAIN ticket
            /\ \A t \in DOMAIN ticket : t # Len(ticket) => ticket'[t] = ticket[t]
            /\ ticket'[Len(ticket)].status = "canceled"
            /\ ticket'[Len(ticket)].command = ticket[Len(ticket)].command
        BY <1>6, TicketCanceled DEF SameTicket, WaitTimesOut
      <3> QED
        BY <3>1, <3>2, CommandNumbers
    <2>3. CASE FallsBack
      <3>1. ipc' = "post" /\ UNCHANGED <<replies, command, left>> /\ Serving' = Serving
        BY <1>6, <2>3, SameServing DEF FallsBack, WaitTimesOut
      <3>2. /\ UNCHANGED viaOs /\ ipc = "wait"
            /\ DOMAIN ticket' = DOMAIN ticket /\ Len(ticket') = Len(ticket) /\ Len(ticket) \in DOMAIN ticket
            /\ \A t \in DOMAIN ticket : t # Len(ticket) => ticket'[t] = ticket[t]
            /\ ticket'[Len(ticket)].status = "canceled"
            /\ ticket'[Len(ticket)].command = ticket[Len(ticket)].command
        BY <1>6, TicketCanceled DEF SameTicket, WaitTimesOut
      <3> QED
        BY <3>1, <3>2, CommandNumbers
    <2> QED
      BY <2>1, <2>2, <2>3
  <1>7. ASSUME PostMessage PROVE OpenInv'
    <2>1. Answers(TRUE) \/ Advances
      BY <1>7, AfterMessage DEF PostMessage
    <2>2. CASE Answers(TRUE)
      <3>1. ipc' = "client" /\ Serving' = Serving + 1 /\ Len(replies') = Serving
        BY <1>7, <2>2, Answered1 DEF PostMessage
      <3>2. ipc = "post" /\ UNCHANGED <<ticket, seen>> /\ viaOs' = viaOs \union {Serving}
        BY <1>7 DEF PostMessage
      <3> QED
        BY <3>1, <3>2, CommandNumbers
    <2>3. CASE Advances
      <3>1. ipc' = "ready" /\ UNCHANGED <<replies, command>> /\ Serving' = Serving
        BY <1>7, <2>3, SameServing DEF PostMessage, Advances
      <3>2. ipc = "post" /\ UNCHANGED <<ticket, seen>> /\ viaOs' = viaOs \union {Serving}
        BY <1>7 DEF PostMessage
      <3> QED
        BY <3>1, <3>2, CommandNumbers
    <2> QED
      BY <2>1, <2>2, <2>3
  <1>8. ASSUME PostFails PROVE OpenInv'
    <2>1. Answers(TRUE) \/ Advances \/ Answers(FALSE)
      BY <1>8, AfterMessage DEF PostFails, Answers, Reply
    <2>2. CASE Answers(TRUE)
      <3>1. ipc' = "client" /\ Serving' = Serving + 1 /\ Len(replies') = Serving
        BY <1>8, <2>2, Answered1 DEF PostFails
      <3>2. ipc = "post" /\ UNCHANGED <<ticket, seen>> /\ viaOs' = viaOs \union {Serving}
        BY <1>8 DEF PostFails
      <3> QED
        BY <3>1, <3>2, CommandNumbers
    <2>3. CASE Advances
      <3>1. ipc' = "ready" /\ UNCHANGED <<replies, command>> /\ Serving' = Serving
        BY <1>8, <2>3, SameServing DEF PostFails, Advances
      <3>2. ipc = "post" /\ UNCHANGED <<ticket, seen>> /\ viaOs' = viaOs \union {Serving}
        BY <1>8 DEF PostFails
      <3> QED
        BY <3>1, <3>2, CommandNumbers
    <2>4. CASE Answers(FALSE)
      <3>1. ipc' = "client" /\ Serving' = Serving + 1 /\ Len(replies') = Serving
        BY <1>8, <2>4, Answered1 DEF PostFails
      <3>2. ipc = "post" /\ UNCHANGED <<ticket, seen>> /\ viaOs' = viaOs \union {Serving}
        BY <1>8 DEF PostFails
      <3> QED
        BY <3>1, <3>2, CommandNumbers
    <2> QED
      BY <2>1, <2>2, <2>3, <2>4
  <1>9. ASSUME Shutdown PROVE OpenInv'
    BY <1>9 DEF Shutdown
  <1>10. ASSUME ResumeGame PROVE OpenInv'
    BY <1>10 DEF ResumeGame
  <1>11. ASSUME GameChanges PROVE OpenInv'
    BY <1>11 DEF GameChanges
  <1>12. ASSUME PumpMessage PROVE OpenInv'
    BY <1>12 DEF PumpMessage
  <1>13. ASSUME ProcessInputs PROVE OpenInv'
    BY <1>13 DEF ProcessInputs
  <1>14. ASSUME TryPop PROVE OpenInv'
    BY <1>14 DEF TryPop
  <1>15. ASSUME DrainDone PROVE OpenInv'
    BY <1>15 DEF DrainDone
  <1>16. ASSUME CheckCanceled PROVE OpenInv'
    BY <1>16 DEF CheckCanceled
  <1>17. ASSUME Dispatch PROVE OpenInv'
    BY <1>17 DEF Dispatch
  <1>18. ASSUME Complete PROVE OpenInv'
    <2>1. /\ DOMAIN ticket' = DOMAIN ticket /\ Len(ticket') = Len(ticket)
          /\ \A t \in DOMAIN ticket : SameTicket(t)
          /\ \A t \in DOMAIN ticket : ticket'[t] = ticket[t] \/ ticket'[t].status = "completed"
      BY <1>18, TicketCompleted
    <2>2. UNCHANGED <<ipc, replies, command, left, viaOs>>
      BY <1>18 DEF Complete
    <2>3. ipc \in {"wake", "wait"} => Len(ticket) \in DOMAIN ticket
      BY DEF TicketTypes
    <2> QED
      BY <2>1, <2>2, <2>3 DEF SameTicket
  <1>19. ASSUME GamepadTick PROVE OpenInv'
    BY <1>19 DEF GamepadTick
  <1>20. ASSUME GameIdles PROVE OpenInv'
    BY <1>20 DEF GameIdles
  <1>21. ASSUME WaitMessageReturns PROVE OpenInv'
    BY <1>21 DEF WaitMessageReturns
  <1>22. CASE UNCHANGED vars
    BY <1>22 DEF vars
  <1> QED
    BY <1>1, <1>2, <1>3, <1>4, <1>5, <1>6, <1>7, <1>8, <1>9, <1>10, <1>11, <1>12, <1>13,
       <1>14, <1>15, <1>16, <1>17, <1>18, <1>19, <1>20, <1>21, <1>22
       DEF Next, IpcStep, GameStep

\* Commands are numbered as they come.
LEMMA FutureStep == IInv /\ [Next]_vars => FutureInv'
  <1> SUFFICES ASSUME IInv, [Next]_vars PROVE FutureInv'
    OBVIOUS
  <1> USE SameServing DEF IInv, TypeOK, FutureInv, Known, ipcVars, ticketVars, gameVars
  <1>1. ASSUME NEW c \in Commands, ReceiveCommand(c) PROVE FutureInv'
    <2>1. ipc = "client" /\ UNCHANGED <<ticket, replies, seen, viaOs>> /\ ipc' \in {"post", "ready"}
      BY <1>1 DEF ReceiveCommand
    <2>2. Serving' = Serving
      BY <2>1 DEF Serving
    <2> QED
      BY <2>1, <2>2, CommandNumbers
  <1>2. ASSUME CheckReady PROVE FutureInv'
    <2>1. Proceeds \/ Answers(FALSE) \/ FallsBack
      BY <1>2, AfterFailure DEF CheckReady, Proceeds
    <2>2. CASE Proceeds
      <3>1. ipc' = "push" /\ UNCHANGED <<replies, command, left>> /\ Serving' = Serving
        BY <1>2, <2>2, SameServing DEF CheckReady, Proceeds
      <3>2. ipc = "ready" /\ UNCHANGED <<ticket, seen, viaOs>>
        BY <1>2 DEF CheckReady
      <3> QED
        BY <3>1, <3>2, CommandNumbers
    <2>3. CASE Answers(FALSE)
      <3>1. ipc' = "client" /\ Serving' = Serving + 1 /\ Len(replies') = Serving
        BY <1>2, <2>3, Answered1 DEF CheckReady
      <3>2. ipc = "ready" /\ UNCHANGED <<ticket, seen, viaOs>>
        BY <1>2 DEF CheckReady
      <3> QED
        BY <3>1, <3>2, CommandNumbers
    <2>4. CASE FallsBack
      <3>1. ipc' = "post" /\ UNCHANGED <<replies, command, left>> /\ Serving' = Serving
        BY <1>2, <2>4, SameServing DEF CheckReady, FallsBack
      <3>2. ipc = "ready" /\ UNCHANGED <<ticket, seen, viaOs>>
        BY <1>2 DEF CheckReady
      <3> QED
        BY <3>1, <3>2, CommandNumbers
    <2> QED
      BY <2>1, <2>2, <2>3, <2>4
  <1>3. ASSUME Push PROVE FutureInv'
    <2>1. UNCHANGED <<viaOs, replies, command, seen>> /\ ipc = "push" /\ ipc' = "wake"
      BY <1>3 DEF Push
    <2>2. \A t \in DOMAIN ticket' : \/ t \in DOMAIN ticket /\ ticket'[t] = ticket[t]
                                    \/ ticket'[t].command = Serving
      BY <1>3, TicketPushed
    <2> QED
      BY <2>1, <2>2, CommandNumbers
  <1>4. ASSUME Wake PROVE FutureInv'
    BY <1>4 DEF Wake
  <1>5. ASSUME WaitCompleted PROVE FutureInv'
    <2>1. \/ Answers(TRUE) /\ Delivered /\ Tail(left) = <<>>
          \/ Advances /\ Delivered
          \/ Answers(FALSE)
          \/ FallsBack
      BY <1>5, AfterMessage, AfterFailure DEF WaitCompleted, Last, Delivered
    <2>2. CASE Answers(TRUE) /\ Delivered /\ Tail(left) = <<>>
      <3>1. ipc' = "client" /\ Serving' = Serving + 1 /\ Len(replies') = Serving
        BY <1>5, <2>2, Answered1 DEF WaitCompleted
      <3>2. ipc = "wait" /\ UNCHANGED <<ticket, seen, viaOs>>
        BY <1>5 DEF WaitCompleted
      <3> QED
        BY <3>1, <3>2, CommandNumbers
    <2>3. CASE Advances /\ Delivered
      <3>1. ipc' = "ready" /\ UNCHANGED <<replies, command>> /\ Serving' = Serving
        BY <1>5, <2>3, SameServing DEF WaitCompleted, Advances
      <3>2. ipc = "wait" /\ UNCHANGED <<ticket, seen, viaOs>>
        BY <1>5 DEF WaitCompleted
      <3> QED
        BY <3>1, <3>2, CommandNumbers
    <2>4. CASE Answers(FALSE)
      <3>1. ipc' = "client" /\ Serving' = Serving + 1 /\ Len(replies') = Serving
        BY <1>5, <2>4, Answered1 DEF WaitCompleted
      <3>2. ipc = "wait" /\ UNCHANGED <<ticket, seen, viaOs>>
        BY <1>5 DEF WaitCompleted
      <3> QED
        BY <3>1, <3>2, CommandNumbers
    <2>5. CASE FallsBack
      <3>1. ipc' = "post" /\ UNCHANGED <<replies, command, left>> /\ Serving' = Serving
        BY <1>5, <2>5, SameServing DEF WaitCompleted, FallsBack
      <3>2. ipc = "wait" /\ UNCHANGED <<ticket, seen, viaOs>>
        BY <1>5 DEF WaitCompleted
      <3> QED
        BY <3>1, <3>2, CommandNumbers
    <2> QED
      BY <2>1, <2>2, <2>3, <2>4, <2>5
  <1>6. ASSUME WaitTimesOut PROVE FutureInv'
    <2>1. Answers(FALSE) \/ FallsBack
      BY <1>6, AfterFailure DEF WaitTimesOut
    <2>2. CASE Answers(FALSE)
      <3>1. ipc' = "client" /\ Serving' = Serving + 1 /\ Len(replies') = Serving
        BY <1>6, <2>2, Answered1 DEF WaitTimesOut
      <3>2. /\ UNCHANGED <<viaOs, seen>> /\ ipc = "wait"
            /\ DOMAIN ticket' = DOMAIN ticket
            /\ \A t \in DOMAIN ticket : ticket'[t].command = ticket[t].command
        BY <1>6, TicketCanceled DEF SameTicket, WaitTimesOut
      <3> QED
        BY <3>1, <3>2, CommandNumbers
    <2>3. CASE FallsBack
      <3>1. ipc' = "post" /\ UNCHANGED <<replies, command, left>> /\ Serving' = Serving
        BY <1>6, <2>3, SameServing DEF FallsBack, WaitTimesOut
      <3>2. /\ UNCHANGED <<viaOs, seen>> /\ ipc = "wait"
            /\ DOMAIN ticket' = DOMAIN ticket
            /\ \A t \in DOMAIN ticket : ticket'[t].command = ticket[t].command
        BY <1>6, TicketCanceled DEF SameTicket, WaitTimesOut
      <3> QED
        BY <3>1, <3>2, CommandNumbers
    <2> QED
      BY <2>1, <2>2, <2>3
  <1>7. ASSUME PostMessage PROVE FutureInv'
    <2>1. Answers(TRUE) \/ Advances
      BY <1>7, AfterMessage DEF PostMessage
    <2>2. CASE Answers(TRUE)
      <3>1. ipc' = "client" /\ Serving' = Serving + 1 /\ Len(replies') = Serving
        BY <1>7, <2>2, Answered1 DEF PostMessage
      <3>2. ipc = "post" /\ UNCHANGED <<ticket, seen>> /\ viaOs' = viaOs \union {Serving}
        BY <1>7 DEF PostMessage
      <3> QED
        BY <3>1, <3>2, CommandNumbers
    <2>3. CASE Advances
      <3>1. ipc' = "ready" /\ UNCHANGED <<replies, command>> /\ Serving' = Serving
        BY <1>7, <2>3, SameServing DEF PostMessage, Advances
      <3>2. ipc = "post" /\ UNCHANGED <<ticket, seen>> /\ viaOs' = viaOs \union {Serving}
        BY <1>7 DEF PostMessage
      <3> QED
        BY <3>1, <3>2, CommandNumbers
    <2> QED
      BY <2>1, <2>2, <2>3
  <1>8. ASSUME PostFails PROVE FutureInv'
    <2>1. Answers(TRUE) \/ Advances \/ Answers(FALSE)
      BY <1>8, AfterMessage DEF PostFails, Answers, Reply
    <2>2. CASE Answers(TRUE)
      <3>1. ipc' = "client" /\ Serving' = Serving + 1 /\ Len(replies') = Serving
        BY <1>8, <2>2, Answered1 DEF PostFails
      <3>2. ipc = "post" /\ UNCHANGED <<ticket, seen>> /\ viaOs' = viaOs \union {Serving}
        BY <1>8 DEF PostFails
      <3> QED
        BY <3>1, <3>2, CommandNumbers
    <2>3. CASE Advances
      <3>1. ipc' = "ready" /\ UNCHANGED <<replies, command>> /\ Serving' = Serving
        BY <1>8, <2>3, SameServing DEF PostFails, Advances
      <3>2. ipc = "post" /\ UNCHANGED <<ticket, seen>> /\ viaOs' = viaOs \union {Serving}
        BY <1>8 DEF PostFails
      <3> QED
        BY <3>1, <3>2, CommandNumbers
    <2>4. CASE Answers(FALSE)
      <3>1. ipc' = "client" /\ Serving' = Serving + 1 /\ Len(replies') = Serving
        BY <1>8, <2>4, Answered1 DEF PostFails
      <3>2. ipc = "post" /\ UNCHANGED <<ticket, seen>> /\ viaOs' = viaOs \union {Serving}
        BY <1>8 DEF PostFails
      <3> QED
        BY <3>1, <3>2, CommandNumbers
    <2> QED
      BY <2>1, <2>2, <2>3, <2>4
  <1>9. ASSUME Shutdown PROVE FutureInv'
    BY <1>9 DEF Shutdown
  <1>10. ASSUME ResumeGame PROVE FutureInv'
    BY <1>10 DEF ResumeGame
  <1>11. ASSUME GameChanges PROVE FutureInv'
    BY <1>11 DEF GameChanges
  <1>12. ASSUME PumpMessage PROVE FutureInv'
    <2>1. UNCHANGED <<ipc, replies, command, ticket, viaOs>>
      BY <1>12 DEF PumpMessage
    <2>2. CASE seen' = seen
      BY <2>1, <2>2
    <2>3. ASSUME NEW e \in Sightings, SeesMore(e), Head(osQueue) # Wakeup, e.command = Head(osQueue).command
          PROVE  FutureInv'
      <3>1. 1 \in DOMAIN osQueue /\ Head(osQueue) = osQueue[1]
        BY <1>12 DEF PumpMessage, GameTypes
      <3>2. e.command \in viaOs
        BY <2>3, <3>1 DEF OsInv
      <3>3. \A i \in DOMAIN seen' : seen'[i] = e \/ (i \in DOMAIN seen /\ seen'[i] = seen[i])
        BY <2>3 DEF SeesMore
      <3> QED
        BY <2>1, <3>2, <3>3, CommandNumbers
    <2> QED
      BY <1>12, <2>2, <2>3, Pumped
  <1>13. ASSUME ProcessInputs PROVE FutureInv'
    BY <1>13 DEF ProcessInputs
  <1>14. ASSUME TryPop PROVE FutureInv'
    BY <1>14 DEF TryPop
  <1>15. ASSUME DrainDone PROVE FutureInv'
    BY <1>15 DEF DrainDone
  <1>16. ASSUME CheckCanceled PROVE FutureInv'
    BY <1>16 DEF CheckCanceled
  <1>17. ASSUME Dispatch PROVE FutureInv'
    <2>1. UNCHANGED <<ipc, replies, command, ticket, viaOs>>
      BY <1>17 DEF Dispatch
    <2>2. CASE Undeliverable
      BY <2>1, <2>2 DEF Undeliverable
    <2>3. ASSUME NEW e, Delivers(e) PROVE FutureInv'
      <3>1. e.command = ticket[held].command /\ held \in DOMAIN ticket
        BY <1>17, <2>3, Dispatched DEF Delivers
      <3>2. \A i \in DOMAIN seen' : seen'[i] = e \/ (i \in DOMAIN seen /\ seen'[i] = seen[i])
        BY <2>3 DEF Delivers, SeesMore
      <3> QED
        BY <2>1, <3>1, <3>2, Numbers
    <2> QED
      BY <1>17, <2>2, <2>3, Dispatched
  <1>18. ASSUME Complete PROVE FutureInv'
    <2>1. DOMAIN ticket' = DOMAIN ticket /\ \A t \in DOMAIN ticket : SameTicket(t)
      BY <1>18, TicketCompleted
    <2>2. UNCHANGED <<ipc, replies, command, seen, viaOs>>
      BY <1>18 DEF Complete
    <2> QED
      BY <2>1, <2>2 DEF SameTicket
  <1>19. ASSUME GamepadTick PROVE FutureInv'
    BY <1>19 DEF GamepadTick
  <1>20. ASSUME GameIdles PROVE FutureInv'
    BY <1>20 DEF GameIdles
  <1>21. ASSUME WaitMessageReturns PROVE FutureInv'
    BY <1>21 DEF WaitMessageReturns
  <1>22. CASE UNCHANGED vars
    BY <1>22 DEF vars
  <1> QED
    BY <1>1, <1>2, <1>3, <1>4, <1>5, <1>6, <1>7, <1>8, <1>9, <1>10, <1>11, <1>12, <1>13,
       <1>14, <1>15, <1>16, <1>17, <1>18, <1>19, <1>20, <1>21, <1>22
       DEF Next, IpcStep, GameStep

\* What takes the OS queue is of a command that does.
LEMMA OsStep == IInv /\ [Next]_vars => OsInv'
  <1> SUFFICES ASSUME IInv, [Next]_vars PROVE OsInv'
    OBVIOUS
  <1> USE DEF IInv, TypeOK, OsInv, ipcVars, ticketVars, gameVars
  <1>1. ASSUME NEW c \in Commands, ReceiveCommand(c) PROVE OsInv'
    BY <1>1 DEF ReceiveCommand
  <1>2. ASSUME CheckReady PROVE OsInv'
    BY <1>2 DEF CheckReady
  <1>3. ASSUME Push PROVE OsInv'
    <2>1. UNCHANGED <<viaOs, osQueue, seen>>
      BY <1>3 DEF Push
    <2>2. \A t \in DOMAIN ticket : ticket'[t] = ticket[t]
      BY <1>3, TicketPushed
    <2> QED
      BY <2>1, <2>2 DEF HistoryTypes
  <1>4. ASSUME Wake PROVE OsInv'
    <2>1. UNCHANGED <<viaOs, ticket, seen>>
      BY <1>4 DEF Wake
    <2>2. \A i \in DOMAIN osQueue' :
            osQueue'[i] = Wakeup \/ (i \in DOMAIN osQueue /\ osQueue'[i] = osQueue[i])
      BY <1>4 DEF Wake, GameTypes
    <2> QED
      BY <2>1, <2>2
  <1>5. ASSUME WaitCompleted PROVE OsInv'
    BY <1>5 DEF WaitCompleted
  <1>6. ASSUME WaitTimesOut PROVE OsInv'
    <2>1. UNCHANGED <<viaOs, osQueue, seen>>
      BY <1>6 DEF WaitTimesOut
    <2>2. \A t \in DOMAIN ticket : SameTicket(t)
      BY <1>6, TicketCanceled
    <2> QED
      BY <2>1, <2>2 DEF HistoryTypes, SameTicket
  <1>7. ASSUME PostMessage PROVE OsInv'
    <2>1. UNCHANGED <<ticket, seen>> /\ viaOs' = viaOs \union {Serving}
      BY <1>7 DEF PostMessage
    <2>2. \A i \in DOMAIN osQueue' :
            osQueue'[i].command = Serving \/ (i \in DOMAIN osQueue /\ osQueue'[i] = osQueue[i])
      BY <1>7 DEF PostMessage, GameTypes, Current
    <2> QED
      BY <2>1, <2>2
  <1>8. ASSUME PostFails PROVE OsInv'
    BY <1>8 DEF PostFails
  <1>9. ASSUME Shutdown PROVE OsInv'
    BY <1>9 DEF Shutdown
  <1>10. ASSUME ResumeGame PROVE OsInv'
    BY <1>10 DEF ResumeGame
  <1>11. ASSUME GameChanges PROVE OsInv'
    BY <1>11 DEF GameChanges
  <1>12. ASSUME PumpMessage PROVE OsInv'
    <2>1. UNCHANGED <<ticket, viaOs>>
      BY <1>12 DEF PumpMessage
    <2>2. osQueue # <<>> /\ osQueue' = Tail(osQueue)
      BY <1>12 DEF PumpMessage
    <2>3. \A i \in DOMAIN osQueue' : i + 1 \in DOMAIN osQueue /\ osQueue'[i] = osQueue[i + 1]
      BY <2>2 DEF GameTypes
    <2>4. CASE seen' = seen
      BY <2>1, <2>3, <2>4
    <2>5. ASSUME NEW e \in Sightings, SeesMore(e), e.ticket = 0,
                 Head(osQueue) # Wakeup, e.command = Head(osQueue).command
          PROVE  OsInv'
      <3>1. 1 \in DOMAIN osQueue /\ Head(osQueue) = osQueue[1]
        BY <2>2 DEF GameTypes
      <3>2. e.command \in viaOs
        BY <2>5, <3>1
      <3>3. \A i \in DOMAIN seen' : seen'[i] = e \/ (i \in DOMAIN seen /\ seen'[i] = seen[i])
        BY <2>5 DEF SeesMore
      <3> QED
        BY <2>1, <2>3, <2>5, <3>2, <3>3
    <2> QED
      BY <1>12, <2>4, <2>5, Pumped
  <1>13. ASSUME ProcessInputs PROVE OsInv'
    BY <1>13 DEF ProcessInputs
  <1>14. ASSUME TryPop PROVE OsInv'
    BY <1>14 DEF TryPop
  <1>15. ASSUME DrainDone PROVE OsInv'
    BY <1>15 DEF DrainDone
  <1>16. ASSUME CheckCanceled PROVE OsInv'
    BY <1>16 DEF CheckCanceled
  <1>17. ASSUME Dispatch PROVE OsInv'
    <2>1. UNCHANGED <<ticket, viaOs, osQueue>>
      BY <1>17 DEF Dispatch
    <2>2. CASE Undeliverable
      BY <2>1, <2>2 DEF Undeliverable
    <2>3. ASSUME NEW e, Delivers(e) PROVE OsInv'
      <3>1. e.ticket = held /\ e.command = ticket[held].command /\ held # 0
        BY <1>17, <2>3, Dispatched DEF Delivers, TicketTypes
      <3>2. \A i \in DOMAIN seen' : seen'[i] = e \/ (i \in DOMAIN seen /\ seen'[i] = seen[i])
        BY <2>3 DEF Delivers, SeesMore
      <3> QED
        BY <2>1, <3>1, <3>2
    <2> QED
      BY <1>17, <2>2, <2>3, Dispatched
  <1>18. ASSUME Complete PROVE OsInv'
    <2>1. \A t \in DOMAIN ticket : SameTicket(t)
      BY <1>18, TicketCompleted
    <2>2. UNCHANGED <<osQueue, seen, viaOs>>
      BY <1>18 DEF Complete
    <2> QED
      BY <2>1, <2>2 DEF SameTicket, HistoryTypes
  <1>19. ASSUME GamepadTick PROVE OsInv'
    BY <1>19 DEF GamepadTick
  <1>20. ASSUME GameIdles PROVE OsInv'
    BY <1>20 DEF GameIdles
  <1>21. ASSUME WaitMessageReturns PROVE OsInv'
    BY <1>21 DEF WaitMessageReturns
  <1>22. CASE UNCHANGED vars
    BY <1>22 DEF vars
  <1> QED
    BY <1>1, <1>2, <1>3, <1>4, <1>5, <1>6, <1>7, <1>8, <1>9, <1>10, <1>11, <1>12, <1>13,
       <1>14, <1>15, <1>16, <1>17, <1>18, <1>19, <1>20, <1>21, <1>22
       DEF Next, IpcStep, GameStep

\* A command just received has not been seen.
LEMMA NothingYet ==
  ASSUME IpcTypes, TicketTypes, HistoryTypes, FutureInv, ipc = "client"
  PROVE  SeenBy(Serving) = {} /\ CountOf(Serving) = 0
  <1>1. \A i \in DOMAIN seen : seen[i].command # Serving
    BY CommandNumbers DEF FutureInv, Known
  <1>2. SeenBy(Serving) = {}
    BY <1>1 DEF SeenBy
  <1> QED
    BY <1>2, FS_EmptySet DEF CountOf

\* The ticket in hand at the dispatch is the one waited for, or one whose
\* command no longer stays with the seam.
LEMMA InHand ==
  ASSUME IInv, game = "dispatch"
  PROVE  /\ held \in DOMAIN ticket /\ SeenAt(held) = {} /\ MayBeSeen(held)
         /\ \/ held = Len(ticket) /\ ipc \in {"wake", "wait"} /\ ticket[held].command = Serving
            \/ ticket[held].command \in viaOs
            \/ ticket[held].command < Serving
            \/ ticket[held].command = Serving /\ ipc = "post"
  <1>1. held \in DOMAIN ticket /\ SeenAt(held) = {} /\ ticket[held].status # "completed"
    BY DEF IInv, TypeOK, GameTypes, HeldInv
  <1>2. ticket[held].status \in {"open", "canceled"}
    <2>1. ticket[held] \in Tickets
      BY <1>1 DEF IInv, TypeOK, TicketTypes
    <2> QED
      BY <1>1, <2>1 DEF Tickets
  <1> QED
    BY <1>1, <1>2 DEF IInv, OpenInv, MayBeSeen, Last

\* Without its head the rest is still the end of the script.
LEMMA Shorter ==
  ASSUME IpcTypes, ipc \notin {"client", "stopped"}, Remaining, left' = Tail(left), UNCHANGED command
  PROVE  Remaining' /\ Len(left') = Len(left) - 1 /\ Len(left) \in Nat \ {0}
         /\ Len(Script[command]) \in Nat
  <1>1. left \in Seq(Kinds) /\ left # <<>> /\ command \in Commands
    BY DEF IpcTypes
  <1>2. Script[command] \in Seq(Kinds) /\ Len(Script[command]) \in Nat
    BY <1>1, Scripts
  <1>3. /\ Len(left') = Len(left) - 1 /\ Len(left) \in Nat \ {0} /\ DOMAIN left = 1 .. Len(left)
        /\ DOMAIN left' = 1 .. Len(left')
        /\ \A j \in DOMAIN left' : j + 1 \in DOMAIN left /\ left'[j] = left[j + 1]
    BY <1>1
  <1>4. \A j \in DOMAIN left' :
          Len(Script[command]) - Len(left) + (j + 1) = Len(Script[command]) - Len(left') + j
    BY <1>2, <1>3
  <1> QED
    BY <1>2, <1>3, <1>4 DEF Remaining

\* Every message of the command is sent once the game has seen those before it.
LEMMA RestStep == IInv /\ [Next]_vars => RestInv'
  <1> SUFFICES ASSUME IInv, [Next]_vars PROVE RestInv'
    OBVIOUS
  <1> USE DEF IInv, TypeOK, RestInv, ipcVars, ticketVars, gameVars
  <1>1. ASSUME NEW c \in Commands, ReceiveCommand(c) PROVE RestInv'
    <2>1. ipc = "client" /\ UNCHANGED seen /\ left' = Script[c] /\ command' = c /\ ipc' \in {"post", "ready"}
          /\ Serving' = Serving
      BY <1>1 DEF ReceiveCommand, Serving
    <2>2. Script[c] \in Seq(Kinds)
      BY Scripts
    <2>3. Remaining'
      BY <2>1, <2>2 DEF Remaining
    <2>4. CountOf(Serving)' = 0
      BY <2>1, NothingYet DEF CountOf, SeenBy
    <2>5. Len(left') \in Nat /\ Len(left') = Len(Script[command'])
      BY <2>1, <2>2
    <2>6. (CountOf(Serving) + Len(left) = Len(Script[command]))'
      BY <2>4, <2>5
    <2>7. ipc' \notin {"wake", "wait"}
      BY <2>1
    <2> QED
      BY <2>3, <2>6, <2>7
  <1>2. ASSUME CheckReady PROVE RestInv'
    <2>1. Proceeds \/ Answers(FALSE) \/ FallsBack
      BY <1>2, AfterFailure DEF CheckReady, Proceeds
    <2>2. CASE Proceeds
      BY <1>2, <2>2 DEF CheckReady, Proceeds, Serving, Remaining, CountOf, SeenBy
    <2>3. CASE Answers(FALSE)
      BY <2>3 DEF Answers
    <2>4. CASE FallsBack
      <3>1. ipc' = "post" /\ UNCHANGED <<left, command>> /\ ipc \notin {"client", "stopped"}
        BY <1>2, <2>4 DEF CheckReady, FallsBack
      <3> QED
        BY <3>1 DEF Remaining
    <2> QED
      BY <2>1, <2>2, <2>3, <2>4
  <1>3. ASSUME Push PROVE RestInv'
    <2>1. /\ UNCHANGED <<left, command, seen, viaOs>> /\ ipc = "push" /\ ipc' = "wake" /\ Serving' = Serving
      BY <1>3 DEF Push, Serving
    <2>2. Remaining'
      BY <2>1 DEF Remaining
    <2>3. \A t : t = Len(ticket') => SeenAt(t)' = {}
      BY <1>3, <2>1, NewTicketUnseen, TicketPushed DEF SeenAt
    <2>4. CountOf(Serving)' = CountOf(Serving)
      BY <2>1 DEF CountOf, SeenBy
    <2>5. CountOf(Serving) \in Nat /\ Len(left) \in Nat /\ Len(Script[command]) \in Nat
      BY <2>1, Counts, Scripts DEF IpcTypes
    <2>6. SeenAt(Len(ticket))' = {}
      BY <2>3 DEF SeenAt
    <2> QED
      BY <2>1, <2>2, <2>4, <2>5, <2>6
  <1>4. ASSUME Wake PROVE RestInv'
    BY <1>4 DEF Wake, Remaining, Serving, CountOf, SeenBy, SeenAt
  <1>5. ASSUME WaitCompleted PROVE RestInv'
    <2>1. \/ Answers(TRUE) /\ Delivered /\ Tail(left) = <<>>
          \/ Advances /\ Delivered
          \/ Answers(FALSE)
          \/ FallsBack
      BY <1>5, AfterMessage, AfterFailure DEF WaitCompleted, Last, Delivered
    <2>2. CASE Answers(TRUE) /\ Delivered /\ Tail(left) = <<>>
      BY <2>2 DEF Answers
    <2>3. CASE Advances /\ Delivered
      <3>1. /\ ipc' = "ready" /\ left' = Tail(left) /\ UNCHANGED <<command, seen>> /\ Serving' = Serving
            /\ Tail(left) # <<>> /\ ipc \notin {"client", "stopped"}
        BY <1>5, <2>3 DEF Advances, WaitCompleted, Serving
      <3>2. Remaining'
        BY <3>1, Shorter
      <3>3. Serving \notin viaOs' => CountOf(Serving) + Len(left) = Len(Script[command]) + 1
        <4>1. Len(ticket) \in DOMAIN ticket
          BY <1>5 DEF WaitCompleted, TicketTypes
        <4>2. SeenAt(Len(ticket)) # {}
          BY <2>3, <4>1 DEF Delivered, TruthfulTickets
        <4>3. ipc = "wait" /\ viaOs' = viaOs
          BY <1>5 DEF WaitCompleted
        <4> QED
          BY <4>2, <4>3
      <3>4. Len(left') = Len(left) - 1 /\ Len(left) \in Nat /\ CountOf(Serving) \in Nat
            /\ Len(Script[command]) \in Nat
        BY <3>1, Shorter, Counts
      <3>5. CountOf(Serving)' = CountOf(Serving)
        BY <3>1 DEF CountOf, SeenBy
      <3>6. (Serving \notin viaOs => CountOf(Serving) + Len(left) = Len(Script[command]))'
        <4>1. Script[command'] = Script[command]
          BY <3>1
        <4>2. Serving \notin viaOs' => CountOf(Serving) + Len(left') = Len(Script[command])
          BY <3>3, <3>4
        <4> QED
          BY <3>1, <3>5, <4>1, <4>2
      <3> QED
        BY <3>1, <3>2, <3>6
    <2>4. CASE Answers(FALSE)
      BY <2>4 DEF Answers
    <2>5. CASE FallsBack
      <3>1. ipc' = "post" /\ UNCHANGED <<left, command>> /\ ipc \notin {"client", "stopped"}
        BY <1>5, <2>5 DEF WaitCompleted, FallsBack
      <3> QED
        BY <3>1 DEF Remaining
    <2> QED
      BY <2>1, <2>2, <2>3, <2>4, <2>5
  <1>6. ASSUME WaitTimesOut PROVE RestInv'
    <2>1. Answers(FALSE) \/ FallsBack
      BY <1>6, AfterFailure DEF WaitTimesOut
    <2>2. CASE Answers(FALSE)
      BY <2>2 DEF Answers
    <2>3. CASE FallsBack
      <3>1. ipc' = "post" /\ UNCHANGED <<left, command>> /\ ipc \notin {"client", "stopped"}
        BY <1>6, <2>3 DEF WaitTimesOut, FallsBack
      <3> QED
        BY <3>1 DEF Remaining
    <2> QED
      BY <2>1, <2>2, <2>3
  <1>7. ASSUME PostMessage PROVE RestInv'
    <2>1. Answers(TRUE) \/ Advances
      BY <1>7, AfterMessage DEF PostMessage
    <2>2. CASE Answers(TRUE)
      BY <2>2 DEF Answers
    <2>3. CASE Advances
      <3>1. /\ ipc' = "ready" /\ left' = Tail(left) /\ UNCHANGED <<command, seen>> /\ Serving' = Serving
            /\ Tail(left) # <<>> /\ ipc \notin {"client", "stopped"}
        BY <1>7, <2>3 DEF Advances, PostMessage, Serving
      <3>2. Remaining'
        BY <3>1, Shorter
      <3>3. Serving \notin viaOs' => CountOf(Serving) + Len(left) = Len(Script[command]) + 1
        BY <1>7 DEF PostMessage
      <3>4. Len(left') = Len(left) - 1 /\ Len(left) \in Nat /\ CountOf(Serving) \in Nat
            /\ Len(Script[command]) \in Nat
        BY <3>1, Shorter, Counts
      <3>5. CountOf(Serving)' = CountOf(Serving)
        BY <3>1 DEF CountOf, SeenBy
      <3>6. (Serving \notin viaOs => CountOf(Serving) + Len(left) = Len(Script[command]))'
        <4>1. Script[command'] = Script[command]
          BY <3>1
        <4>2. Serving \notin viaOs' => CountOf(Serving) + Len(left') = Len(Script[command])
          BY <3>3, <3>4
        <4> QED
          BY <3>1, <3>5, <4>1, <4>2
      <3> QED
        BY <3>1, <3>2, <3>6
    <2> QED
      BY <2>1, <2>2, <2>3
  <1>8. ASSUME PostFails PROVE RestInv'
    <2>1. Answers(TRUE) \/ Advances \/ Answers(FALSE)
      BY <1>8, AfterMessage DEF PostFails, Answers, Reply
    <2>2. CASE Answers(TRUE)
      BY <2>2 DEF Answers
    <2>3. CASE Advances
      <3>1. /\ ipc' = "ready" /\ left' = Tail(left) /\ UNCHANGED <<command, seen>> /\ Serving' = Serving
            /\ Tail(left) # <<>> /\ ipc \notin {"client", "stopped"}
        BY <1>8, <2>3 DEF Advances, PostFails, Serving
      <3>2. Remaining'
        BY <3>1, Shorter
      <3>3. Serving \notin viaOs' => CountOf(Serving) + Len(left) = Len(Script[command]) + 1
        BY <1>8 DEF PostFails
      <3>4. Len(left') = Len(left) - 1 /\ Len(left) \in Nat /\ CountOf(Serving) \in Nat
            /\ Len(Script[command]) \in Nat
        BY <3>1, Shorter, Counts
      <3>5. CountOf(Serving)' = CountOf(Serving)
        BY <3>1 DEF CountOf, SeenBy
      <3>6. (Serving \notin viaOs => CountOf(Serving) + Len(left) = Len(Script[command]))'
        <4>1. Script[command'] = Script[command]
          BY <3>1
        <4>2. Serving \notin viaOs' => CountOf(Serving) + Len(left') = Len(Script[command])
          BY <3>3, <3>4
        <4> QED
          BY <3>1, <3>5, <4>1, <4>2
      <3> QED
        BY <3>1, <3>2, <3>6
    <2>4. CASE Answers(FALSE)
      BY <2>4 DEF Answers
    <2> QED
      BY <2>1, <2>2, <2>3, <2>4
  <1>9. ASSUME Shutdown PROVE RestInv'
    BY <1>9 DEF Shutdown
  <1>10. ASSUME ResumeGame PROVE RestInv'
    BY <1>10 DEF ResumeGame, Remaining, Serving, CountOf, SeenBy, SeenAt
  <1>11. ASSUME GameChanges PROVE RestInv'
    BY <1>11 DEF GameChanges, Remaining, Serving, CountOf, SeenBy, SeenAt
  <1>12. ASSUME PumpMessage PROVE RestInv'
    <2>1. UNCHANGED <<ipc, command, left, replies, ticket, viaOs>>
      BY <1>12 DEF PumpMessage
    <2>2. CASE seen' = seen
      BY <2>1, <2>2 DEF Remaining, Serving, CountOf, SeenBy, SeenAt
    <2>3. ASSUME NEW e \in Sightings, SeesMore(e), e.ticket = 0, Head(osQueue) # Wakeup,
                 e.command = Head(osQueue).command
          PROVE  RestInv'
      <3>1. 1 \in DOMAIN osQueue /\ Head(osQueue) = osQueue[1]
        BY <1>12 DEF PumpMessage, GameTypes
      <3>2. e.command \in viaOs
        BY <2>3, <3>1 DEF OsInv
      <3>3. Serving \notin viaOs => CountOf(Serving)' = CountOf(Serving)
        BY <2>1, <2>3, <3>2, OneMoreSighting DEF Serving
      <3>4. ipc \in {"wake", "wait"} => SeenAt(Len(ticket))' = SeenAt(Len(ticket))
        BY <2>1, <2>3, OneMoreSighting DEF TicketTypes
      <3>5. Remaining' = Remaining /\ Serving' = Serving
        BY <2>1 DEF Remaining, Serving
      <3> QED
        BY <2>1, <3>3, <3>4, <3>5
    <2> QED
      BY <1>12, <2>2, <2>3, Pumped
  <1>13. ASSUME ProcessInputs PROVE RestInv'
    BY <1>13 DEF ProcessInputs, Remaining, Serving, CountOf, SeenBy, SeenAt
  <1>14. ASSUME TryPop PROVE RestInv'
    BY <1>14 DEF TryPop, Remaining, Serving, CountOf, SeenBy, SeenAt
  <1>15. ASSUME DrainDone PROVE RestInv'
    BY <1>15 DEF DrainDone, Remaining, Serving, CountOf, SeenBy, SeenAt
  <1>16. ASSUME CheckCanceled PROVE RestInv'
    BY <1>16 DEF CheckCanceled, Remaining, Serving, CountOf, SeenBy, SeenAt
  <1>17. ASSUME Dispatch PROVE RestInv'
    <2>1. UNCHANGED <<ipc, command, left, replies, ticket, viaOs>> /\ game = "dispatch"
      BY <1>17 DEF Dispatch
    <2>2. CASE Undeliverable
      BY <2>1, <2>2 DEF Remaining, Serving, CountOf, SeenBy, SeenAt, Undeliverable
    <2>3. ASSUME NEW e, Delivers(e), ipc \notin {"client", "stopped"} PROVE RestInv'
      <3>1. e.ticket = held /\ e.command = ticket[held].command /\ SeesMore(e)
        BY <2>3 DEF Delivers
      <3>2. Remaining' = Remaining /\ Serving' = Serving
        BY <2>1 DEF Remaining, Serving
      <3>3. /\ Serving' = Serving /\ Serving \in Nat /\ ticket[held].command \in Nat /\ CountOf(Serving) \in Nat
            /\ Len(left) \in Nat /\ Len(Script[command]) \in Nat
        <4>1. Len(left) \in Nat /\ Len(Script[command]) \in Nat
          BY <2>3, Scripts DEF IpcTypes
        <4>2. ticket[held].command \in Nat /\ Serving \in Nat
          BY <2>1, InHand, CommandNumbers DEF IInv, TypeOK
        <4> QED
          BY <3>2, <4>1, <4>2, Counts
      <3>4. CASE held = Len(ticket) /\ ipc \in {"wake", "wait"} /\ ticket[held].command = Serving
        <4>1. CountOf(Serving)' = CountOf(Serving) + 1
          BY <3>1, <3>2, <3>4, OneMoreSighting
        <4>2. SeenAt(Len(ticket)) = {} /\ SeenAt(Len(ticket))' # {}
          BY <2>1, <3>1, <3>4, OneMoreSighting, InHand
        <4>3. Serving \notin viaOs => CountOf(Serving) + Len(left) = Len(Script[command])
          BY <3>3, <3>4, <4>2
        <4>4. Serving \notin viaOs => CountOf(Serving)' + Len(left) = Len(Script[command]) + 1
          BY <3>3, <4>1, <4>3
        <4>5. ipc' \notin {"ready", "push", "client", "stopped"}
          BY <2>1, <3>4
        <4>6. (Serving \notin viaOs => CountOf(Serving) + Len(left)
                 = Len(Script[command]) + IF SeenAt(Len(ticket)) = {} THEN 0 ELSE 1)'
          BY <2>1, <3>2, <4>2, <4>4
        <4> QED
          BY <2>3, <3>2, <4>5, <4>6
      <3>5. CASE ~(held = Len(ticket) /\ ipc \in {"wake", "wait"} /\ ticket[held].command = Serving)
        <4>1. \/ ticket[held].command \in viaOs
              \/ ticket[held].command < Serving
              \/ ticket[held].command = Serving /\ ipc = "post"
          BY <2>1, <3>5, InHand
        <4>2. Serving \notin viaOs /\ ipc # "post" => CountOf(Serving)' = CountOf(Serving)
          BY <3>1, <3>2, <3>3, <4>1, OneMoreSighting
        <4>3. ipc \in {"wake", "wait"} /\ Serving \notin viaOs => held # Len(ticket)
          BY <3>3, <4>1 DEF OpenInv, Last
        <4>4. held # Len(ticket) => SeenAt(Len(ticket))' = SeenAt(Len(ticket))
          BY <2>1, <3>1, OneMoreSighting
        <4> QED
          BY <2>1, <3>2, <4>2, <4>3, <4>4
      <3> QED
        BY <3>4, <3>5
    <2> QED
      BY <1>17, <2>1, <2>2, <2>3, Dispatched
  <1>18. ASSUME Complete PROVE RestInv'
    <2>1. UNCHANGED <<ipc, command, left, replies, seen, viaOs>> /\ Len(ticket') = Len(ticket)
      BY <1>18, TicketCompleted
    <2> QED
      BY <2>1 DEF Remaining, Serving, CountOf, SeenBy, SeenAt
  <1>19. ASSUME GamepadTick PROVE RestInv'
    BY <1>19 DEF GamepadTick, Remaining, Serving, CountOf, SeenBy, SeenAt
  <1>20. ASSUME GameIdles PROVE RestInv'
    BY <1>20 DEF GameIdles, Remaining, Serving, CountOf, SeenBy, SeenAt
  <1>21. ASSUME WaitMessageReturns PROVE RestInv'
    BY <1>21 DEF WaitMessageReturns, Remaining, Serving, CountOf, SeenBy, SeenAt
  <1>22. CASE UNCHANGED vars
    BY <1>22 DEF vars, Remaining, Serving, CountOf, SeenBy, SeenAt
  <1> QED
    BY <1>1, <1>2, <1>3, <1>4, <1>5, <1>6, <1>7, <1>8, <1>9, <1>10, <1>11, <1>12, <1>13,
       <1>14, <1>15, <1>16, <1>17, <1>18, <1>19, <1>20, <1>21, <1>22
       DEF Next, IpcStep, GameStep

\* A ticket stays next while its command is, and nothing of it is seen.
LEMMA StaysNext ==
  ASSUME NEW t, SameTicket(t), IsNext(ticket[t].command, ticket[t].kind),
         \A n : n = ticket[t].command => CountOf(n)' = CountOf(n) /\ CommandOf(n)' = CommandOf(n)
  PROVE  IsNext(ticket[t].command, ticket[t].kind)'
  <1>1. PICK n, kind : n = ticket[t].command /\ kind = ticket[t].kind
    OBVIOUS
  <1>2. ticket'[t].command = n /\ ticket'[t].kind = kind
    BY <1>1 DEF SameTicket
  <1>3. CountOf(n)' = CountOf(n) /\ ScriptOf(n)' = ScriptOf(n)
    BY <1>1 DEF ScriptOf
  <1>4. IsNext(n, kind)'
    BY <1>1, <1>3 DEF IsNext
  <1> QED
    BY <1>2, <1>4 DEF IsNext

\* So do all when nothing is seen.
LEMMA NextKept ==
  ASSUME IInv, UNCHANGED seen, viaOs \subseteq viaOs',
         DOMAIN ticket' = DOMAIN ticket, \A t \in DOMAIN ticket : SameTicket(t),
         \A t \in DOMAIN ticket : MayBeSeen(t)' => MayBeSeen(t),
         \A n \in Nat : n <= Known => CommandOf(n)' = CommandOf(n)
  PROVE  NextInv'
  <1> SUFFICES ASSUME NEW t \in DOMAIN ticket', SeenAt(t)' = {}, ticket'[t].command \notin viaOs',
                      MayBeSeen(t)'
               PROVE  IsNext(ticket[t].command, ticket[t].kind)'
    BY DEF NextInv
  <1>1. t \in DOMAIN ticket /\ SameTicket(t)
    OBVIOUS
  <1>2. ticket[t].command \in Nat /\ ticket[t].command <= Known
    BY <1>1, CommandNumbers DEF IInv, TypeOK, FutureInv
  <1>3. \A n : n = ticket[t].command => CountOf(n)' = CountOf(n) /\ CommandOf(n)' = CommandOf(n)
    BY <1>2, SameSightings
  <1>4. IsNext(ticket[t].command, ticket[t].kind)
    BY <1>1, SameSightings DEF IInv, NextInv, SameTicket
  <1> QED
    BY <1>1, <1>3, <1>4, StaysNext

\* The number of the command is that of the command.
LEMMA ServingCommand ==
  ASSUME IpcTypes PROVE Serving \in Nat /\ CommandOf(Serving) = command /\ ScriptOf(Serving) = Script[command]
  <1>1. Serving \notin DOMAIN replies /\ Serving \in Nat
    BY DEF IpcTypes, Serving
  <1> QED
    BY <1>1 DEF CommandOf, ScriptOf

\* A ticket that passes the check is open.
LEMMA InCheck ==
  ASSUME IInv, game = "check", ticket[held].status # "canceled"
  PROVE  ticket[held].status = "open"
  <1>1. held \in DOMAIN ticket /\ ticket[held] \in Tickets /\ ticket[held].status # "completed"
    BY DEF IInv, TypeOK, GameTypes, TicketTypes, HeldInv
  <1> QED
    BY <1>1 DEF Tickets

\* What may still be seen of a command is its next message.
LEMMA NextStep == IInv /\ [Next]_vars => NextInv'
  <1> SUFFICES ASSUME IInv, [Next]_vars PROVE NextInv'
    OBVIOUS
  <1> USE DEF IInv, TypeOK, ipcVars, ticketVars, gameVars
  <1>1. ASSUME NEW c \in Commands, ReceiveCommand(c) PROVE NextInv'
    <2>1. /\ DOMAIN ticket' = DOMAIN ticket /\ \A t \in DOMAIN ticket : SameTicket(t)
          /\ viaOs \subseteq viaOs' /\ UNCHANGED seen
      BY <1>1 DEF ReceiveCommand, SameTicket
    <2>2. \A t \in DOMAIN ticket : MayBeSeen(t)' => MayBeSeen(t)
      BY <1>1 DEF ReceiveCommand, MayBeSeen
    <2>3. \A n \in Nat : n <= Known => CommandOf(n)' = CommandOf(n)
      <3>1. ipc = "client" /\ UNCHANGED replies /\ DOMAIN replies = 1 .. Len(replies) /\ Len(replies) \in Nat
        BY <1>1, Numbers DEF ReceiveCommand
      <3>2. \A n \in Nat : n <= Len(replies) => n # Serving
        BY <3>1 DEF Serving
      <3>3. Known = Len(replies) /\ Serving' = Serving
        BY <3>1 DEF Known, Serving
      <3>4. \A n \in 1 .. Len(replies) : CommandOf(n)' = CommandOf(n)
        BY <3>1 DEF CommandOf
      <3>5. 0 \notin DOMAIN replies /\ Serving # 0
        BY <3>1 DEF Serving
      <3>6. CommandOf(0)' = CommandOf(0)
        BY <3>1, <3>3, <3>5 DEF CommandOf
      <3> QED
        BY <3>1, <3>3, <3>4, <3>6
    <2> QED
      BY <2>1, <2>2, <2>3, NextKept
  <1>2. ASSUME CheckReady PROVE NextInv'
    <2>1. /\ DOMAIN ticket' = DOMAIN ticket /\ \A t \in DOMAIN ticket : SameTicket(t)
          /\ viaOs \subseteq viaOs' /\ UNCHANGED seen
      BY <1>2 DEF CheckReady, SameTicket
    <2>2. \A t \in DOMAIN ticket : MayBeSeen(t)' => MayBeSeen(t)
      BY <1>2 DEF CheckReady, MayBeSeen
    <2>3. \A n \in Nat : n <= Known => CommandOf(n)' = CommandOf(n)
      <3>1. Proceeds \/ Answers(FALSE) \/ FallsBack
        BY <1>2, AfterFailure DEF CheckReady, Proceeds
      <3>2. ipc \notin {"client", "stopped"}
        BY <1>2 DEF CheckReady
      <3>3. CASE \E ok \in BOOLEAN : Answers(ok)
        BY <3>2, <3>3, OneMoreReply
      <3>4. CASE UNCHANGED <<replies, command>>
        BY <3>4 DEF CommandOf, Serving
      <3> QED
        BY <3>1, <3>3, <3>4 DEF Proceeds, Advances, FallsBack
    <2> QED
      BY <2>1, <2>2, <2>3, NextKept
  <1>3. ASSUME Push PROVE NextInv'
    <2>1. /\ UNCHANGED <<seen, viaOs, game, held, replies, command, left>> /\ ipc = "push"
          /\ \A t \in DOMAIN ticket : ticket'[t] = ticket[t]
      BY <1>3, TicketPushed DEF Push
    <2>2. ASSUME NEW t \in DOMAIN ticket, SeenAt(t)' = {}, ticket'[t].command \notin viaOs', MayBeSeen(t)'
          PROVE  IsNext(ticket[t].command, ticket[t].kind)'
      <3>1. IsNext(ticket[t].command, ticket[t].kind)
        BY <2>1, <2>2, SameSightings DEF MayBeSeen, NextInv
      <3>2. \A n : CommandOf(n)' = CommandOf(n) /\ CountOf(n)' = CountOf(n)
        BY <2>1, SameServing, SameSightings
      <3>3. SameTicket(t)
        BY <2>1 DEF SameTicket
      <3> QED
        BY <3>1, <3>2, <3>3, StaysNext
    <2>3. Serving \notin viaOs => IsNext(Serving, Head(left))
      <3>1. Head(left) = left[1] /\ 1 \in DOMAIN left /\ Len(left) \in Nat \ {0} /\ command \in Commands
        BY <2>1 DEF IpcTypes
      <3>2. Len(Script[command]) \in Nat /\ DOMAIN Script[command] = 1 .. Len(Script[command])
        BY <3>1, Scripts
      <3>3. Head(left) = Script[command][Len(Script[command]) - Len(left) + 1]
        BY <2>1, <3>1 DEF RestInv, Remaining
      <3>4. CountOf(Serving) \in Nat
        BY Counts
      <3>5. Serving \notin viaOs => CountOf(Serving) = Len(Script[command]) - Len(left)
        BY <2>1, <3>1, <3>2, <3>4 DEF RestInv
      <3>6. Serving \notin viaOs => CountOf(Serving) + 1 \in DOMAIN Script[command]
        BY <3>1, <3>2, <3>4, <3>5
      <3>7. ScriptOf(Serving) = Script[command]
        BY ServingCommand
      <3> QED
        BY <3>3, <3>5, <3>6, <3>7 DEF IsNext
    <2>4. /\ ticket'[Len(ticket')].command = Serving /\ ticket'[Len(ticket')].kind = Head(left)
          /\ \A t \in DOMAIN ticket' : t \in DOMAIN ticket \/ t = Len(ticket')
      BY <1>3, TicketPushed
    <2>5. Serving \notin viaOs => IsNext(Serving, Head(left))'
      <3>1. \A n : CommandOf(n)' = CommandOf(n) /\ CountOf(n)' = CountOf(n)
        BY <2>1, SameServing, SameSightings
      <3>2. Serving' = Serving
        BY <2>1, SameServing
      <3>3. ScriptOf(Serving)' = ScriptOf(Serving) /\ CountOf(Serving)' = CountOf(Serving)
        BY <3>1, <3>2 DEF ScriptOf
      <3> QED
        BY <2>1, <2>3, <3>3 DEF IsNext
    <2>6. Serving' = Serving
      BY <2>1, SameServing
    <2>7. ASSUME NEW t \in DOMAIN ticket', t = Len(ticket'), ticket'[t].command \notin viaOs'
          PROVE  IsNext(ticket[t].command, ticket[t].kind)'
      <3>1. ticket'[t].command = Serving' /\ ticket'[t].kind = Head(left')
        BY <2>1, <2>4, <2>6, <2>7
      <3> QED
        BY <2>1, <2>4, <2>5, <2>7, <3>1
    <2> QED
      BY <2>2, <2>4, <2>7 DEF NextInv
  <1>4. ASSUME Wake \/ Shutdown \/ ResumeGame \/ GameChanges \/ ProcessInputs \/ TryPop \/
                DrainDone \/ GamepadTick \/ GameIdles \/ WaitMessageReturns
        PROVE  NextInv'
    <2>1. /\ UNCHANGED <<ticket, seen, viaOs, replies, command>>
          /\ game' = "dispatch" => UNCHANGED <<game, held>>
      BY <1>4
         DEF Wake, Shutdown, ResumeGame, GameChanges, ProcessInputs, TryPop, DrainDone,
             GamepadTick, GameIdles, WaitMessageReturns
    <2>2. \A t \in DOMAIN ticket : MayBeSeen(t)' => MayBeSeen(t)
      BY <2>1 DEF MayBeSeen
    <2> QED
      BY <2>1, <2>2, SameServing, NextKept DEF SameTicket
  <1>5. ASSUME WaitCompleted PROVE NextInv'
    <2>1. /\ DOMAIN ticket' = DOMAIN ticket /\ \A t \in DOMAIN ticket : SameTicket(t)
          /\ viaOs \subseteq viaOs' /\ UNCHANGED seen
      BY <1>5 DEF WaitCompleted, SameTicket
    <2>2. \A t \in DOMAIN ticket : MayBeSeen(t)' => MayBeSeen(t)
      BY <1>5 DEF WaitCompleted, MayBeSeen
    <2>3. \A n \in Nat : n <= Known => CommandOf(n)' = CommandOf(n)
      <3>1. \/ Answers(TRUE) /\ Delivered /\ Tail(left) = <<>>
            \/ Advances /\ Delivered
            \/ Answers(FALSE)
            \/ FallsBack
        BY <1>5, AfterMessage, AfterFailure DEF WaitCompleted, Last, Delivered
      <3>2. ipc \notin {"client", "stopped"}
        BY <1>5 DEF WaitCompleted
      <3>3. CASE \E ok \in BOOLEAN : Answers(ok)
        BY <3>2, <3>3, OneMoreReply
      <3>4. CASE UNCHANGED <<replies, command>>
        BY <3>4 DEF CommandOf, Serving
      <3> QED
        BY <3>1, <3>3, <3>4 DEF Proceeds, Advances, FallsBack
    <2> QED
      BY <2>1, <2>2, <2>3, NextKept
  <1>6. ASSUME WaitTimesOut PROVE NextInv'
    <2>1. /\ DOMAIN ticket' = DOMAIN ticket /\ \A t \in DOMAIN ticket : SameTicket(t)
          /\ viaOs \subseteq viaOs' /\ UNCHANGED seen
      BY <1>6, TicketCanceled DEF WaitTimesOut, SameTicket
    <2>2. \A t \in DOMAIN ticket : MayBeSeen(t)' => MayBeSeen(t)
      BY <1>6, TicketCanceled DEF WaitTimesOut, MayBeSeen
    <2>3. \A n \in Nat : n <= Known => CommandOf(n)' = CommandOf(n)
      <3>1. Answers(FALSE) \/ FallsBack
        BY <1>6, AfterFailure DEF WaitTimesOut
      <3>2. ipc \notin {"client", "stopped"}
        BY <1>6 DEF WaitTimesOut
      <3>3. CASE \E ok \in BOOLEAN : Answers(ok)
        BY <3>2, <3>3, OneMoreReply
      <3>4. CASE UNCHANGED <<replies, command>>
        BY <3>4 DEF CommandOf, Serving
      <3> QED
        BY <3>1, <3>3, <3>4 DEF Proceeds, Advances, FallsBack
    <2> QED
      BY <2>1, <2>2, <2>3, NextKept
  <1>7. ASSUME PostMessage PROVE NextInv'
    <2>1. /\ DOMAIN ticket' = DOMAIN ticket /\ \A t \in DOMAIN ticket : SameTicket(t)
          /\ viaOs \subseteq viaOs' /\ UNCHANGED seen
      BY <1>7 DEF PostMessage, SameTicket
    <2>2. \A t \in DOMAIN ticket : MayBeSeen(t)' => MayBeSeen(t)
      BY <1>7 DEF PostMessage, MayBeSeen
    <2>3. \A n \in Nat : n <= Known => CommandOf(n)' = CommandOf(n)
      <3>1. Answers(TRUE) \/ Advances
        BY <1>7, AfterMessage DEF PostMessage
      <3>2. ipc \notin {"client", "stopped"}
        BY <1>7 DEF PostMessage
      <3>3. CASE \E ok \in BOOLEAN : Answers(ok)
        BY <3>2, <3>3, OneMoreReply
      <3>4. CASE UNCHANGED <<replies, command>>
        BY <3>4 DEF CommandOf, Serving
      <3> QED
        BY <3>1, <3>3, <3>4 DEF Proceeds, Advances, FallsBack
    <2> QED
      BY <2>1, <2>2, <2>3, NextKept
  <1>8. ASSUME PostFails PROVE NextInv'
    <2>1. /\ DOMAIN ticket' = DOMAIN ticket /\ \A t \in DOMAIN ticket : SameTicket(t)
          /\ viaOs \subseteq viaOs' /\ UNCHANGED seen
      BY <1>8 DEF PostFails, SameTicket
    <2>2. \A t \in DOMAIN ticket : MayBeSeen(t)' => MayBeSeen(t)
      BY <1>8 DEF PostFails, MayBeSeen
    <2>3. \A n \in Nat : n <= Known => CommandOf(n)' = CommandOf(n)
      <3>1. Answers(TRUE) \/ Advances \/ Answers(FALSE)
        BY <1>8, AfterMessage DEF PostFails, Answers, Reply
      <3>2. ipc \notin {"client", "stopped"}
        BY <1>8 DEF PostFails
      <3>3. CASE \E ok \in BOOLEAN : Answers(ok)
        BY <3>2, <3>3, OneMoreReply
      <3>4. CASE UNCHANGED <<replies, command>>
        BY <3>4 DEF CommandOf, Serving
      <3> QED
        BY <3>1, <3>3, <3>4 DEF Proceeds, Advances, FallsBack
    <2> QED
      BY <2>1, <2>2, <2>3, NextKept
  <1>9. ASSUME PumpMessage PROVE NextInv'
    <2>1. UNCHANGED <<ipc, command, left, replies, ticket, viaOs, game, held>>
      BY <1>9 DEF PumpMessage
    <2>2. CASE seen' = seen
      BY <2>1, <2>2, NextKept, SameServing DEF SameTicket, MayBeSeen
    <2>3. ASSUME NEW e \in Sightings, SeesMore(e), e.ticket = 0, Head(osQueue) # Wakeup,
                 e.command = Head(osQueue).command
          PROVE  NextInv'
      <3>1. 1 \in DOMAIN osQueue /\ Head(osQueue) = osQueue[1]
        BY <1>9 DEF PumpMessage, GameTypes
      <3>2. e.command \in viaOs
        BY <2>3, <3>1 DEF OsInv
      <3> SUFFICES ASSUME NEW t \in DOMAIN ticket, SeenAt(t)' = {}, ticket[t].command \notin viaOs,
                          MayBeSeen(t)'
                   PROVE  IsNext(ticket[t].command, ticket[t].kind)'
        BY <2>1 DEF NextInv
      <3>3. SeenAt(t) = {} /\ MayBeSeen(t)
        BY <2>1, <2>3, OneMoreSighting DEF MayBeSeen
      <3>4. IsNext(ticket[t].command, ticket[t].kind)
        BY <3>3 DEF NextInv
      <3>5. ticket[t].command # e.command /\ SameTicket(t)
        BY <2>1, <3>2 DEF SameTicket
      <3>6. \A n : n = ticket[t].command => CountOf(n)' = CountOf(n) /\ CommandOf(n)' = CommandOf(n)
        BY <2>1, <2>3, <3>5, OneMoreSighting, SameServing
      <3> QED
        BY <3>4, <3>5, <3>6, StaysNext
    <2> QED
      BY <1>9, <2>2, <2>3, Pumped
  <1>10. ASSUME CheckCanceled PROVE NextInv'
    <2>1. /\ DOMAIN ticket' = DOMAIN ticket /\ \A t \in DOMAIN ticket : SameTicket(t)
          /\ viaOs \subseteq viaOs' /\ UNCHANGED seen
      BY <1>10 DEF CheckCanceled, SameTicket
    <2>2. \A t \in DOMAIN ticket : MayBeSeen(t)' => MayBeSeen(t)
      BY <1>10, InCheck DEF CheckCanceled, MayBeSeen
    <2>3. \A n \in Nat : n <= Known => CommandOf(n)' = CommandOf(n)
      BY <1>10 DEF CheckCanceled, CommandOf, Serving
    <2> QED
      BY <2>1, <2>2, <2>3, NextKept
  <1>11. ASSUME Dispatch PROVE NextInv'
    <2>1. /\ UNCHANGED <<ipc, command, left, replies, ticket, viaOs, held>>
          /\ game = "dispatch" /\ game' = "complete"
      BY <1>11 DEF Dispatch
    <2>2. CASE Undeliverable
      BY <2>1, <2>2, NextKept, SameServing DEF SameTicket, MayBeSeen, Undeliverable
    <2>3. ASSUME NEW e, Delivers(e) PROVE NextInv'
      <3>1. e.ticket = held /\ e.command = ticket[held].command /\ SeesMore(e)
        BY <2>3 DEF Delivers
      <3> SUFFICES ASSUME NEW t \in DOMAIN ticket, SeenAt(t)' = {}, ticket[t].command \notin viaOs,
                          MayBeSeen(t)'
                   PROVE  IsNext(ticket[t].command, ticket[t].kind)'
        BY <2>1 DEF NextInv
      <3>2. t # held /\ SeenAt(t) = {}
        BY <3>1, OneMoreSighting
      <3>3. ticket[t].status = "open" /\ MayBeSeen(t)
        BY <2>1 DEF MayBeSeen
      <3>4. t = Len(ticket) /\ ipc \in {"wake", "wait"} /\ ticket[t].command = Serving
        BY <3>3 DEF OpenInv, Last
      <3>5. ticket[held].command # Serving \/ Serving \in viaOs
        BY <2>1, <3>2, <3>4, InHand, CommandNumbers
      <3>6. IsNext(ticket[t].command, ticket[t].kind)
        BY <3>2, <3>3 DEF NextInv
      <3>7. ticket[t].command # e.command /\ SameTicket(t)
        BY <2>1, <3>1, <3>4, <3>5 DEF SameTicket
      <3>8. \A n : n = ticket[t].command => CountOf(n)' = CountOf(n) /\ CommandOf(n)' = CommandOf(n)
        BY <2>1, <3>1, <3>7, OneMoreSighting, SameServing
      <3> QED
        BY <3>6, <3>7, <3>8, StaysNext
    <2> QED
      BY <1>11, <2>2, <2>3, Dispatched
  <1>12. ASSUME Complete PROVE NextInv'
    <2>1. /\ DOMAIN ticket' = DOMAIN ticket /\ \A t \in DOMAIN ticket : SameTicket(t)
          /\ viaOs \subseteq viaOs' /\ UNCHANGED seen
      BY <1>12, TicketCompleted DEF Complete, SameTicket
    <2>2. \A t \in DOMAIN ticket : MayBeSeen(t)' => MayBeSeen(t)
      BY <1>12, TicketCompleted DEF Complete, MayBeSeen
    <2>3. \A n \in Nat : n <= Known => CommandOf(n)' = CommandOf(n)
      BY <1>12 DEF Complete, CommandOf, Serving
    <2> QED
      BY <2>1, <2>2, <2>3, NextKept
  <1>13. CASE UNCHANGED vars
    BY <1>13 DEF vars, NextInv, IsNext, ScriptOf, CountOf, CommandOf, Serving, SeenAt, SeenBy, MayBeSeen
  <1> QED
    BY <1>1, <1>2, <1>3, <1>4, <1>5, <1>6, <1>7, <1>8, <1>9, <1>10, <1>11, <1>12, <1>13
       DEF Next, IpcStep, GameStep

-----------------------------------------------------------------------------
(* The order of what the game sees.                                        *)

\* What was seen of a command stays a prefix of its script while no more is.
LEMMA PrefixKept ==
  ASSUME NEW n, SeesPrefix(n), SeenBy(n)' = SeenBy(n), CommandOf(n)' = CommandOf(n),
         \A i \in SeenBy(n) : seen'[i] = seen[i]
  PROVE  SeesPrefix(n)'
  BY DEF SeesPrefix, ScriptOf

\* One more message that is next makes a longer prefix.
LEMMA LongerPrefix ==
  ASSUME HistoryTypes, NEW n, SeesPrefix(n), NEW e, SeesMore(e), e.command = n,
         IsNext(n, e.kind), CommandOf(n)' = CommandOf(n)
  PROVE  SeesPrefix(n)'
  <1> DEFINE k(i) == Cardinality(SeenBy(n) \intersect (1 .. i))
  <1>1. /\ Len(seen) \in Nat /\ Len(seen') = Len(seen) + 1
        /\ \A i \in DOMAIN seen : seen'[i] = seen[i]
        /\ seen'[Len(seen')] = e
    BY DEF SeesMore
  <1>2. /\ SeenBy(n) \subseteq 1 .. Len(seen)
        /\ SeenBy(n)' = SeenBy(n) \union {Len(seen')}
        /\ CountOf(n)' = CountOf(n) + 1
    BY Counts, OneMoreSighting
  <1>3. ScriptOf(n)' = ScriptOf(n)
    BY DEF ScriptOf
  <1>4. ASSUME NEW i \in SeenBy(n)
        PROVE  /\ SeenBy(n)' \intersect (1 .. i) = SeenBy(n) \intersect (1 .. i)
               /\ seen'[i] = seen[i]
    <2>1. i \in 1 .. Len(seen) /\ Len(seen') \notin 1 .. i
      BY <1>1, <1>2
    <2>2. i \in DOMAIN seen
      BY DEF SeenBy
    <2> QED
      BY <1>1, <1>2, <2>1, <2>2
  <1>5. SeenBy(n)' \intersect (1 .. Len(seen')) = SeenBy(n)'
    BY <1>1, <1>2
  <1>6. ASSUME NEW i \in SeenBy(n)'
        PROVE  /\ Cardinality(SeenBy(n)' \intersect (1 .. i)) \in DOMAIN ScriptOf(n)
               /\ seen'[i].kind = ScriptOf(n)[Cardinality(SeenBy(n)' \intersect (1 .. i))]
    <2>1. CASE i \in SeenBy(n)
      BY <1>4, <2>1 DEF SeesPrefix
    <2>2. CASE i = Len(seen')
      <3>1. Cardinality(SeenBy(n)' \intersect (1 .. i)) = CountOf(n) + 1
        BY <1>2, <1>5, <2>2 DEF CountOf
      <3>2. CountOf(n) + 1 \in DOMAIN ScriptOf(n) /\ e.kind = ScriptOf(n)[CountOf(n) + 1]
        BY DEF IsNext
      <3> QED
        BY <1>1, <2>2, <3>1, <3>2
    <2> QED
      BY <1>2, <1>6, <2>1, <2>2
  <1> QED
    BY <1>3, <1>6 DEF SeesPrefix

\* The order of what was seen does not depend on commands to come.
LEMMA OrderKept ==
  ASSUME IInv, UNCHANGED seen, viaOs \subseteq viaOs',
         \A n \in Nat : CommandOf(n)' = CommandOf(n),
         \A n \in 1 .. MaxCommands : n \in DOMAIN replies' /\ replies'[n].ok /\ n \notin viaOs' =>
           \/ n \in DOMAIN replies /\ replies[n].ok
           \/ CountOf(n) = Len(ScriptOf(n))
  PROVE  InOrder'
  <1> SUFFICES ASSUME NEW n \in 1 .. MaxCommands, CommandOf(n)' # "none", n \notin viaOs'
               PROVE  /\ SeesPrefix(n)'
                      /\ n \in DOMAIN replies' /\ replies'[n].ok => CountOf(n)' = Len(ScriptOf(n)')
    BY DEF InOrder
  <1>1. CommandOf(n)' = CommandOf(n) /\ n \notin viaOs /\ SeenBy(n)' = SeenBy(n) /\ CountOf(n)' = CountOf(n)
    BY SameSightings, SeamAssumption
  <1>2. ScriptOf(n)' = ScriptOf(n)
    BY <1>1 DEF ScriptOf
  <1>3. SeesPrefix(n) /\ (n \in DOMAIN replies /\ replies[n].ok => CountOf(n) = Len(ScriptOf(n)))
    BY <1>1 DEF IInv, InOrder
  <1>4. SeesPrefix(n)'
    BY <1>1, <1>3, PrefixKept
  <1> QED
    BY <1>1, <1>2, <1>3, <1>4

\* An answer that is not ok promises nothing.
LEMMA OrderAnswered ==
  ASSUME IInv, UNCHANGED seen, viaOs \subseteq viaOs', ipc \notin {"client", "stopped"},
         NEW ok \in BOOLEAN, Answers(ok),
         ok /\ Serving \notin viaOs' => CountOf(Serving) = Len(ScriptOf(Serving))
  PROVE  InOrder'
  <1>1. /\ \A n \in Nat : CommandOf(n)' = CommandOf(n)
        /\ DOMAIN replies = 1 .. Len(replies) /\ DOMAIN replies' = 1 .. Len(replies') /\ Len(replies) \in Nat
        /\ \A n \in DOMAIN replies : replies'[n] = replies[n]
        /\ replies'[Serving] = [command |-> command, ok |-> ok] /\ Len(replies') = Len(replies) + 1
    BY OneMoreReply DEF IInv, TypeOK
  <1>2. replies'[Serving].ok = ok
    BY <1>1
  <1>3. \A n \in DOMAIN replies' : n \in DOMAIN replies \/ n = Serving
    BY <1>1 DEF Serving
  <1> QED
    BY <1>1, <1>2, <1>3, OrderKept

\* What leaves the replies and the command alone keeps the order.
LEMMA OrderUnanswered ==
  ASSUME IInv, UNCHANGED <<seen, replies, command>>, viaOs \subseteq viaOs'
  PROVE  InOrder'
  BY SameServing, OrderKept

\* The game sees the messages of a command in their order.
LEMMA InOrderStep == IInv /\ [Next]_vars => InOrder'
  <1> SUFFICES ASSUME IInv, [Next]_vars PROVE InOrder'
    OBVIOUS
  <1> USE DEF IInv, TypeOK, ipcVars, ticketVars, gameVars
  <1>1. ASSUME NEW c \in Commands, ReceiveCommand(c) PROVE InOrder'
    <2>1. ipc = "client" /\ UNCHANGED <<seen, viaOs, replies>> /\ Serving' = Serving
      BY <1>1 DEF ReceiveCommand, Serving
    <2> SUFFICES ASSUME NEW n \in 1 .. MaxCommands, CommandOf(n)' # "none", n \notin viaOs
                 PROVE  /\ SeesPrefix(n)'
                        /\ n \in DOMAIN replies /\ replies[n].ok => CountOf(n)' = Len(ScriptOf(n)')
      BY <2>1 DEF InOrder
    <2>2. SeenBy(n)' = SeenBy(n) /\ CountOf(n)' = CountOf(n)
      BY <2>1, SameSightings
    <2>3. CASE n \in DOMAIN replies
      <3>1. CommandOf(n)' = CommandOf(n)
        BY <2>1, <2>3 DEF CommandOf
      <3>2. SeesPrefix(n) /\ (replies[n].ok => CountOf(n) = Len(ScriptOf(n)))
        BY <2>3, <3>1 DEF InOrder
      <3>3. ScriptOf(n)' = ScriptOf(n)
        BY <3>1 DEF ScriptOf
      <3>4. SeesPrefix(n)'
        BY <2>1, <2>2, <3>1, <3>2, PrefixKept
      <3> QED
        BY <2>2, <3>2, <3>3, <3>4
    <2>4. CASE n \notin DOMAIN replies
      <3>1. n = Serving
        BY <2>1, <2>4 DEF CommandOf
      <3>2. SeenBy(n)' = {}
        BY <2>1, <2>2, <3>1, NothingYet
      <3> QED
        BY <2>4, <3>2 DEF SeesPrefix
    <2> QED
      BY <2>3, <2>4
  <1>2. ASSUME CheckReady PROVE InOrder'
    <2>1. Proceeds \/ Answers(FALSE) \/ FallsBack
      BY <1>2, AfterFailure DEF CheckReady, Proceeds
    <2>2. CASE Proceeds
      <3>1. UNCHANGED seen /\ viaOs \subseteq viaOs' /\ ipc \notin {"client", "stopped"}
        BY <1>2 DEF CheckReady
      <3>2. UNCHANGED <<replies, command>>
        BY <2>2 DEF Proceeds
      <3> QED
        BY <3>1, <3>2, OrderUnanswered
    <2>3. CASE Answers(FALSE)
      <3>1. UNCHANGED seen /\ viaOs \subseteq viaOs' /\ ipc \notin {"client", "stopped"}
        BY <1>2 DEF CheckReady
      <3> QED
        BY <2>3, <3>1, OrderAnswered
    <2>4. CASE FallsBack
      <3>1. UNCHANGED seen /\ viaOs \subseteq viaOs' /\ ipc \notin {"client", "stopped"}
        BY <1>2 DEF CheckReady
      <3>2. UNCHANGED <<replies, command>>
        BY <2>4 DEF FallsBack
      <3> QED
        BY <3>1, <3>2, OrderUnanswered
    <2> QED
      BY <2>1, <2>2, <2>3, <2>4
  <1>3. ASSUME Push PROVE InOrder'
    <2>1. UNCHANGED <<seen, replies, command>> /\ viaOs \subseteq viaOs'
      BY <1>3 DEF Push
    <2> QED
      BY <2>1, OrderUnanswered
  <1>4. ASSUME Wake \/ Shutdown \/ ResumeGame \/ GameChanges \/ ProcessInputs \/ TryPop \/
                DrainDone \/ GamepadTick \/ GameIdles \/ WaitMessageReturns \/ CheckCanceled \/
                Complete
        PROVE  InOrder'
    <2>1. UNCHANGED <<seen, replies, command>> /\ viaOs \subseteq viaOs'
      BY <1>4
         DEF Wake, Shutdown, ResumeGame, GameChanges, ProcessInputs, TryPop, DrainDone,
             GamepadTick, GameIdles, WaitMessageReturns, CheckCanceled, Complete
    <2> QED
      BY <2>1, OrderUnanswered
  <1>5. ASSUME WaitCompleted PROVE InOrder'
    <2>1. \/ Answers(TRUE) /\ Delivered /\ Tail(left) = <<>>
          \/ Advances /\ Delivered
          \/ Answers(FALSE)
          \/ FallsBack
      BY <1>5, AfterMessage, AfterFailure DEF WaitCompleted, Last, Delivered
    <2>2. CASE Answers(TRUE) /\ Delivered /\ Tail(left) = <<>>
      <3>1. UNCHANGED seen /\ viaOs \subseteq viaOs' /\ ipc \notin {"client", "stopped"}
        BY <1>5 DEF WaitCompleted
      <3>2. Tail(left) = <<>>
        BY <2>2
      <3>3. Len(left) = 1
        <4>1. left \in Seq(Kinds) /\ left # <<>>
          BY <3>1 DEF IpcTypes
        <4> QED
          BY <3>2, <4>1, SingleElement
      <3>4. SeenAt(Len(ticket)) # {}
        <4>1. Len(ticket) \in DOMAIN ticket
          BY <1>5 DEF WaitCompleted, TicketTypes
        <4> QED
          BY <2>2, <4>1 DEF Delivered, TruthfulTickets
      <3>5. command \in Commands /\ Len(Script[command]) \in Nat /\ CountOf(Serving) \in Nat
        BY <3>1, Scripts, Counts DEF IpcTypes
      <3>6. Serving \notin viaOs => CountOf(Serving) + 1 = Len(Script[command]) + 1
        BY <1>5, <3>3, <3>4 DEF RestInv, WaitCompleted
      <3>7. Serving \notin viaOs => CountOf(Serving) = Len(ScriptOf(Serving))
        BY <3>5, <3>6, ServingCommand
      <3>8. Serving \notin viaOs' => CountOf(Serving) = Len(ScriptOf(Serving))
        BY <3>1, <3>7
      <3> QED
        BY <2>2, <3>1, <3>8, OrderAnswered
    <2>3. CASE Advances /\ Delivered
      <3>1. UNCHANGED seen /\ viaOs \subseteq viaOs' /\ ipc \notin {"client", "stopped"}
        BY <1>5 DEF WaitCompleted
      <3>2. UNCHANGED <<replies, command>>
        BY <2>3 DEF Advances
      <3> QED
        BY <3>1, <3>2, OrderUnanswered
    <2>4. CASE Answers(FALSE)
      <3>1. UNCHANGED seen /\ viaOs \subseteq viaOs' /\ ipc \notin {"client", "stopped"}
        BY <1>5 DEF WaitCompleted
      <3> QED
        BY <2>4, <3>1, OrderAnswered
    <2>5. CASE FallsBack
      <3>1. UNCHANGED seen /\ viaOs \subseteq viaOs' /\ ipc \notin {"client", "stopped"}
        BY <1>5 DEF WaitCompleted
      <3>2. UNCHANGED <<replies, command>>
        BY <2>5 DEF FallsBack
      <3> QED
        BY <3>1, <3>2, OrderUnanswered
    <2> QED
      BY <2>1, <2>2, <2>3, <2>4, <2>5
  <1>6. ASSUME WaitTimesOut PROVE InOrder'
    <2>1. Answers(FALSE) \/ FallsBack
      BY <1>6, AfterFailure DEF WaitTimesOut
    <2>2. CASE Answers(FALSE)
      <3>1. UNCHANGED seen /\ viaOs \subseteq viaOs' /\ ipc \notin {"client", "stopped"}
        BY <1>6 DEF WaitTimesOut
      <3> QED
        BY <2>2, <3>1, OrderAnswered
    <2>3. CASE FallsBack
      <3>1. UNCHANGED seen /\ viaOs \subseteq viaOs' /\ ipc \notin {"client", "stopped"}
        BY <1>6 DEF WaitTimesOut
      <3>2. UNCHANGED <<replies, command>>
        BY <2>3 DEF FallsBack
      <3> QED
        BY <3>1, <3>2, OrderUnanswered
    <2> QED
      BY <2>1, <2>2, <2>3
  <1>7. ASSUME PostMessage PROVE InOrder'
    <2>1. Answers(TRUE) \/ Advances
      BY <1>7, AfterMessage DEF PostMessage
    <2>2. CASE Answers(TRUE)
      <3>1. UNCHANGED seen /\ viaOs \subseteq viaOs' /\ ipc \notin {"client", "stopped"}
        BY <1>7 DEF PostMessage
      <3>2. Serving \in viaOs'
        BY <1>7 DEF PostMessage
      <3> QED
        BY <2>2, <3>1, <3>2, OrderAnswered
    <2>3. CASE Advances
      <3>1. UNCHANGED seen /\ viaOs \subseteq viaOs' /\ ipc \notin {"client", "stopped"}
        BY <1>7 DEF PostMessage
      <3>2. UNCHANGED <<replies, command>>
        BY <2>3 DEF Advances
      <3> QED
        BY <3>1, <3>2, OrderUnanswered
    <2> QED
      BY <2>1, <2>2, <2>3
  <1>8. ASSUME PostFails PROVE InOrder'
    <2>1. Answers(TRUE) \/ Advances \/ Answers(FALSE)
      BY <1>8, AfterMessage DEF PostFails, Answers, Reply
    <2>2. CASE Answers(TRUE)
      <3>1. UNCHANGED seen /\ viaOs \subseteq viaOs' /\ ipc \notin {"client", "stopped"}
        BY <1>8 DEF PostFails
      <3>2. Serving \in viaOs'
        BY <1>8 DEF PostFails
      <3> QED
        BY <2>2, <3>1, <3>2, OrderAnswered
    <2>3. CASE Advances
      <3>1. UNCHANGED seen /\ viaOs \subseteq viaOs' /\ ipc \notin {"client", "stopped"}
        BY <1>8 DEF PostFails
      <3>2. UNCHANGED <<replies, command>>
        BY <2>3 DEF Advances
      <3> QED
        BY <3>1, <3>2, OrderUnanswered
    <2>4. CASE Answers(FALSE)
      <3>1. UNCHANGED seen /\ viaOs \subseteq viaOs' /\ ipc \notin {"client", "stopped"}
        BY <1>8 DEF PostFails
      <3> QED
        BY <2>4, <3>1, OrderAnswered
    <2> QED
      BY <2>1, <2>2, <2>3, <2>4
  <1>9. ASSUME PumpMessage PROVE InOrder'
    <2>1. UNCHANGED <<command, replies, viaOs>>
      BY <1>9 DEF PumpMessage
    <2>2. CASE seen' = seen
      BY <2>1, <2>2, OrderUnanswered
    <2>3. ASSUME NEW e \in Sightings, SeesMore(e), Head(osQueue) # Wakeup, e.command = Head(osQueue).command
          PROVE  InOrder'
      <3>1. 1 \in DOMAIN osQueue /\ Head(osQueue) = osQueue[1]
        BY <1>9 DEF PumpMessage, GameTypes
      <3>2. e.command \in viaOs
        BY <2>3, <3>1 DEF OsInv
      <3> SUFFICES ASSUME NEW n \in 1 .. MaxCommands, CommandOf(n)' # "none", n \notin viaOs
                   PROVE  /\ SeesPrefix(n)'
                          /\ n \in DOMAIN replies /\ replies[n].ok => CountOf(n)' = Len(ScriptOf(n)')
        BY <2>1 DEF InOrder
      <3>3. CommandOf(n)' = CommandOf(n) /\ SeenBy(n)' = SeenBy(n) /\ CountOf(n)' = CountOf(n)
        BY <2>1, <2>3, <3>2, SameServing, OneMoreSighting
      <3>4. SeesPrefix(n) /\ (n \in DOMAIN replies /\ replies[n].ok => CountOf(n) = Len(ScriptOf(n)))
        BY <3>3 DEF InOrder
      <3>5. \A i \in SeenBy(n) : seen'[i] = seen[i]
        BY <2>3 DEF SeesMore, SeenBy
      <3>6. SeesPrefix(n)' /\ ScriptOf(n)' = ScriptOf(n)
        BY <3>3, <3>4, <3>5, PrefixKept DEF ScriptOf
      <3> QED
        BY <3>3, <3>4, <3>6
    <2> QED
      BY <1>9, <2>2, <2>3, Pumped
  <1>10. ASSUME Dispatch PROVE InOrder'
    <2>1. UNCHANGED <<command, replies, viaOs, ticket, held>> /\ game = "dispatch"
      BY <1>10 DEF Dispatch
    <2>2. CASE Undeliverable
      BY <2>1, <2>2, OrderUnanswered DEF Undeliverable
    <2>3. ASSUME NEW e, Delivers(e) PROVE InOrder'
      <3>1. SeesMore(e) /\ e.command = ticket[held].command /\ e.kind = ticket[held].kind
        BY <2>3 DEF Delivers
      <3> SUFFICES ASSUME NEW n \in 1 .. MaxCommands, CommandOf(n)' # "none", n \notin viaOs
                   PROVE  /\ SeesPrefix(n)'
                          /\ n \in DOMAIN replies /\ replies[n].ok => CountOf(n)' = Len(ScriptOf(n)')
        BY <2>1 DEF InOrder
      <3>2. CommandOf(n)' = CommandOf(n)
        BY <2>1, SameServing
      <3>3. SeesPrefix(n) /\ (n \in DOMAIN replies /\ replies[n].ok => CountOf(n) = Len(ScriptOf(n)))
        BY <3>2 DEF InOrder
      <3>4. ScriptOf(n)' = ScriptOf(n)
        BY <3>2 DEF ScriptOf
      <3>5. CASE e.command # n
        <4>1. SeenBy(n)' = SeenBy(n) /\ CountOf(n)' = CountOf(n)
          BY <3>1, <3>5, OneMoreSighting
        <4>2. \A i \in SeenBy(n) : seen'[i] = seen[i]
          BY <3>1 DEF SeesMore, SeenBy
        <4>3. SeesPrefix(n)'
          BY <3>2, <3>3, <4>1, <4>2, PrefixKept
        <4> QED
          BY <3>3, <3>4, <4>1, <4>3
      <3>6. CASE e.command = n
        <4>1. IsNext(n, e.kind)
          BY <2>1, <3>1, <3>6, InHand DEF NextInv
        <4>2. SeesPrefix(n)'
          BY <3>1, <3>2, <3>3, <3>6, <4>1, LongerPrefix
        <4>3. ~(n \in DOMAIN replies /\ replies[n].ok)
          <5> SUFFICES ASSUME n \in DOMAIN replies, replies[n].ok PROVE FALSE
            OBVIOUS
          <5>1. CountOf(n) = Len(ScriptOf(n)) /\ CountOf(n) + 1 \in DOMAIN ScriptOf(n)
            BY <3>3, <4>1 DEF IsNext
          <5>2. CommandOf(n) \in Commands
            <6>1. replies \in Seq([command : Commands, ok : BOOLEAN])
              BY DEF IpcTypes
            <6>2. replies[n] \in [command : Commands, ok : BOOLEAN]
              BY <6>1, ElementOf
            <6> QED
              BY <6>2 DEF CommandOf
          <5>3. ScriptOf(n) \in Seq(Kinds)
            BY <5>2, Scripts DEF ScriptOf
          <5> QED
            BY <5>1, <5>3
        <4> QED
          BY <4>2, <4>3
      <3> QED
        BY <3>5, <3>6
    <2> QED
      BY <1>10, <2>2, <2>3, Dispatched
  <1>11. CASE UNCHANGED vars
    BY <1>11, OrderUnanswered DEF vars
  <1> QED
    BY <1>1, <1>2, <1>3, <1>4, <1>5, <1>6, <1>7, <1>8, <1>9, <1>10, <1>11
       DEF Next, IpcStep, GameStep

-----------------------------------------------------------------------------

\* At the start nothing has been sent.
LEMMA Initially == Init => IInv
  <1> SUFFICES ASSUME Init PROVE IInv
    OBVIOUS
  <1> USE DEF Init
  <1>1. TypeOK
    <2>1. IpcTypes
      BY SeamAssumption DEF IpcTypes, IpcPCs
    <2>2. TicketTypes
      BY DEF TicketTypes
    <2>3. GameTypes
      BY EmptySequence DEF GameTypes, GamePCs, Outcomes, Undelivered
    <2>4. HistoryTypes
      BY EmptySequence DEF HistoryTypes
    <2> QED
      BY <2>1, <2>2, <2>3, <2>4 DEF TypeOK
  <1>2. \A n : SeenBy(n) = {}
    BY DEF SeenBy
  <1>3. QueueInv /\ HeldInv /\ AbandonedInv /\ TruthfulTickets /\ OpenInv /\ FutureInv /\ OsInv
    BY DEF QueueInv, HeldInv, AbandonedInv, TruthfulTickets, OpenInv, FutureInv, OsInv
  <1>4. RestInv /\ NextInv
    BY DEF RestInv, NextInv
  <1>5. InOrder
    BY <1>2 DEF InOrder, SeesPrefix
  <1> QED
    BY <1>1, <1>3, <1>4, <1>5 DEF IInv

\* The strengthened invariant holds in every reachable state: the queue is in
\* the order of the pushes, and what a ticket can still do is known.
THEOREM Invariant == Spec => []IInv
  <1>1. IInv /\ [Next]_vars => IInv'
    BY IpcTypesStep, TicketTypesStep, GameTypesStep, HistoryTypesStep, QueueStep, HeldStep,
       AbandonedStep, TruthfulStep, OpenStep, FutureStep, OsStep, RestStep, NextStep, InOrderStep
       DEF IInv, TypeOK
  <1> QED
    BY Initially, <1>1, PTL DEF Spec

\* A ticket reaches the game at most once, and Wait reports what happened to
\* it, however the five seconds and the drain fall together.
THEOREM TicketsTellTheTruth == Spec => []TruthfulTickets
  <1>1. IInv => TruthfulTickets
    BY DEF IInv
  <1> QED
    BY Invariant, <1>1, PTL

\* A ticket given up before the game thread had looked at it never reaches
\* the game.
THEOREM GivenUpStaysOut == Spec => []AbandonedStaysOut
  <1>1. IInv => AbandonedStaysOut
    BY DEF IInv, AbandonedInv, AbandonedStaysOut
  <1> QED
    BY Invariant, <1>1, PTL

\* The two together: a ticket ends once, and as Wait or the giving up said.
THEOREM TicketsEnd == Spec => []TicketsEndOnce
  BY TicketsTellTheTruth, GivenUpStaysOut, PTL DEF TicketsEndOnce

\* Whatever times out, what the game sees of a command that stays with the
\* seam is a prefix of its messages, and all of them behind an ok.
THEOREM CommandsInOrder == Spec => []InOrder
  <1>1. IInv => InOrder
    BY DEF IInv
  <1> QED
    BY Invariant, <1>1, PTL

-----------------------------------------------------------------------------
(* UiMessageSeam implements UiCommands under the mapping of Promised: what  *)
(* the game took is what it has seen, and a straggler is late.              *)

\* Nothing of the promise changes.
Stutters == UNCHANGED <<command, replies, Taken, Straggler, viaOs>>

LEMMA SameTaken ==
  ASSUME UNCHANGED <<seen, viaOs>> PROVE Taken' = Taken
  BY SameSightings DEF Taken

\* Only a ticket that the game thread dispatches makes a straggler.
LEMMA NoStraggler ==
  ASSUME game # "dispatch" \/ ticket[held].status # "canceled" \/ ticket[held].command \in viaOs
  PROVE  Straggler = {}
  BY DEF Straggler

\* The number of the command served, and of those answered, mean the same.
LEMMA PromisedNumbers ==
  ASSUME IpcTypes
  PROVE  /\ Promised!Serving = Serving
         /\ \A n \in 1 .. Serving : Promised!ScriptOf(n) = ScriptOf(n)
  <1>1. Serving = Len(replies) + 1 /\ DOMAIN replies = 1 .. Len(replies) /\ Len(replies) \in Nat
    BY DEF IpcTypes, Serving
  <1>2. ASSUME NEW n \in 1 .. Serving PROVE Promised!ScriptOf(n) = ScriptOf(n)
    <2>1. n \in DOMAIN replies \/ n = Serving
      BY <1>1
    <2> QED
      BY <2>1 DEF Promised!ScriptOf, ScriptOf, CommandOf
  <1> QED
    BY <1>1, <1>2 DEF Promised!Serving

\* A command that is served is one.
LEMMA Served ==
  ASSUME IpcTypes, ipc \notin {"client", "stopped"} PROVE command \in Commands /\ command # "none"
  BY SeamAssumption DEF IpcTypes

\* A message that the game takes was next.
LEMMA PromisedTake ==
  ASSUME IInv, game = "dispatch", UNCHANGED <<command, replies, viaOs, ticket, held>>, game' = "complete",
         NEW e, Delivers(e)
  PROVE  Stutters \/ Promised!Take \/ Promised!TakeLate
  <1> DEFINE n == ticket[held].command
  <1>1. SeesMore(e) /\ e.command = n
    BY DEF Delivers
  <1>2. n \in 1 .. MaxCommands /\ n \in 1 .. Serving /\ held \in DOMAIN ticket
    <2>1. held \in DOMAIN ticket
      BY InHand
    <2>2. n \in 1 .. MaxCommands /\ Serving \in Nat /\ Len(replies) \in Nat /\ Serving = Len(replies) + 1
      BY <2>1, Numbers, CommandNumbers DEF IInv, TypeOK
    <2>3. n <= Serving
      BY <2>1, <2>2 DEF IInv, FutureInv, Known
    <2> QED
      BY <2>1, <2>2, <2>3
  <1>3. \A m : CountOf(m)' = IF n = m THEN CountOf(m) + 1 ELSE CountOf(m)
    BY <1>1, OneMoreSighting DEF IInv, TypeOK
  <1>4. Straggler' = {}
    BY NoStraggler DEF Straggler
  <1>5. CASE n \in viaOs
    <2>1. Taken' = Taken
      BY <1>3, <1>5 DEF Taken
    <2>2. Straggler = {}
      BY <1>5 DEF Straggler
    <2> QED
      BY <1>4, <2>1, <2>2 DEF Stutters
  <1>6. CASE n \notin viaOs
    <2>1. Taken' = [Taken EXCEPT ![n] = @ + 1]
      BY <1>2, <1>3, <1>6 DEF Taken
    <2>2. Taken[n] < Len(ScriptOf(n))
      <3>1. MayBeSeen(held) /\ SeenAt(held) = {}
        BY InHand
      <3>2. IsNext(n, ticket[held].kind)
        BY <1>2, <1>6, <3>1 DEF IInv, NextInv
      <3>3. CommandOf(n) \in Commands
        <4>1. CASE n \in DOMAIN replies
          <5>1. replies[n] \in [command : Commands, ok : BOOLEAN]
            BY <4>1, ElementOf DEF IInv, TypeOK, IpcTypes
          <5> QED
            BY <4>1, <5>1 DEF CommandOf
        <4>2. CASE n \notin DOMAIN replies
          <5>1. Serving = Len(replies) + 1 /\ DOMAIN replies = 1 .. Len(replies) /\ Len(replies) \in Nat
            BY Numbers DEF IInv, TypeOK
          <5>2. n = Serving
            BY <1>2, <4>2, <5>1
          <5>3. ipc \notin {"client", "stopped"}
            <6>1. n <= Known
              BY <1>2 DEF IInv, FutureInv
            <6> QED
              BY <5>1, <5>2, <6>1 DEF Known
          <5> QED
            BY <5>2, <5>3, Served, ServingCommand DEF IInv, TypeOK
        <4> QED
          BY <4>1, <4>2
      <3>4. ScriptOf(n) \in Seq(Kinds)
        BY <3>3, Scripts DEF ScriptOf
      <3>5. CountOf(n) \in Nat /\ Taken[n] = CountOf(n)
        BY <1>2, <1>6, Counts DEF Taken, IInv, TypeOK
      <3> QED
        BY <3>2, <3>4, <3>5 DEF IsNext
    <2>3. Promised!Takes(n)
      <3>1. Promised!ScriptOf(n) = ScriptOf(n)
        BY <1>2, PromisedNumbers DEF IInv, TypeOK
      <3> QED
        BY <1>6, <2>1, <2>2, <3>1 DEF Promised!Takes
    <2>4. CASE ticket[held].status = "canceled"
      <3>1. Straggler = {n}
        BY <1>6, <2>4 DEF Straggler
      <3> QED
        BY <1>4, <2>3, <3>1 DEF Promised!TakeLate
    <2>5. CASE ticket[held].status # "canceled"
      <3>1. Straggler = {}
        BY <2>5 DEF Straggler
      <3>2. ticket[held].status = "open"
        <4>1. ticket[held] \in Tickets /\ ticket[held].status # "completed"
          BY <1>2, Numbers DEF IInv, TypeOK, HeldInv
        <4> QED
          BY <2>5, <4>1 DEF Tickets
      <3>3. held = Len(ticket) /\ ipc \in {"wake", "wait"}
        BY <1>2, <3>2 DEF IInv, OpenInv
      <3>4. n = Serving
        BY <3>3 DEF IInv, OpenInv, Last
      <3>5. command # "none" /\ Promised!Serving = n
        BY <3>3, <3>4, Served, PromisedNumbers DEF IInv, TypeOK
      <3> QED
        BY <1>4, <2>3, <3>1, <3>5 DEF Promised!Take
    <2> QED
      BY <2>4, <2>5
  <1> QED
    BY <1>5, <1>6

\* Nor does what leaves the ticket in hand and its command alone change the
\* straggler.
LEMMA SameStraggler ==
  ASSUME TicketTypes, GameTypes, UNCHANGED <<game, held, viaOs>>,
         \A t \in DOMAIN ticket : ticket'[t] = ticket[t]
  PROVE  Straggler' = Straggler
  BY DEF Straggler, GameTypes

\* A failure of the seam ends the command without ok, or is a stutter.
LEMMA PromisedFailure ==
  ASSUME IpcTypes, ipc \notin {"client", "stopped"}, Answers(FALSE) \/ FallsBack,
         UNCHANGED <<Taken, Straggler, viaOs>>
  PROVE  Stutters \/ Promised!Done(FALSE)
  <1>1. CASE Answers(FALSE)
    <2>1. Promised!Answer(FALSE) /\ command # "none"
      BY <1>1, Served DEF Answers, Promised!Answer
    <2> QED
      BY <2>1 DEF Promised!Done
  <1>2. CASE FallsBack
    BY <1>2 DEF FallsBack, Stutters
  <1> QED
    BY <1>1, <1>2

\* The last message was delivered.
LEMMA PromisedOk ==
  ASSUME IInv, WaitCompleted, Answers(TRUE), Delivered, Tail(left) = <<>>
  PROVE  Promised!Done(TRUE)
  <1> USE DEF IInv, TypeOK
  <1>1. ipc = "wait" /\ UNCHANGED <<seen, viaOs, ticket, game, held>>
    BY DEF WaitCompleted, ticketVars, gameVars
  <1>2. command # "none" /\ command \in Commands /\ Serving \in 1 .. MaxCommands
    BY <1>1, Served, ServingInRange
  <1>3. Taken' = Taken /\ Straggler' = Straggler
    BY <1>1, SameTaken DEF Straggler
  <1>4. Serving \notin viaOs => Taken[Serving] = Len(ScriptOf(Serving))
    <2>1. Len(left) = 1
      BY <1>1, SingleElement DEF IpcTypes
    <2>2. SeenAt(Len(ticket)) # {}
      <3>1. Len(ticket) \in DOMAIN ticket
        BY <1>1 DEF TicketTypes
      <3> QED
        BY <3>1 DEF Delivered, TruthfulTickets
    <2>3. Len(Script[command]) \in Nat /\ CountOf(Serving) \in Nat
      BY <1>2, Scripts, Counts
    <2>4. Serving \notin viaOs => CountOf(Serving) + 1 = Len(Script[command]) + 1
      BY <1>1, <2>1, <2>2 DEF RestInv
    <2>5. Serving \notin viaOs => CountOf(Serving) = Len(ScriptOf(Serving))
      BY <2>3, <2>4, ServingCommand
    <2> QED
      BY <1>2, <2>5 DEF Taken
  <1>5. Promised!Serving = Serving /\ Promised!ScriptOf(Serving) = ScriptOf(Serving)
    BY <1>2, PromisedNumbers
  <1>6. Promised!Answer(TRUE)
    BY DEF Answers, Promised!Answer
  <1> QED
    BY <1>1, <1>2, <1>3, <1>4, <1>5, <1>6 DEF Promised!Done

\* A timeout gives the command up, with a message in the game's hands or not.
LEMMA PromisedTimeout ==
  ASSUME IInv, WaitTimesOut
  PROVE  Stutters \/ Promised!Done(FALSE) \/ Promised!GiveUp
  <1> USE DEF IInv, TypeOK
  <1>1. ipc = "wait" /\ UNCHANGED <<seen, viaOs, game, held>>
    BY DEF WaitTimesOut, gameVars
  <1>2. Answers(FALSE) \/ FallsBack
    BY AfterFailure DEF WaitTimesOut
  <1>3. Taken' = Taken
    BY <1>1, SameTaken
  <1>4. CASE game = "dispatch" /\ held = Len(ticket) /\ Serving \notin viaOs
    <2>1. /\ ticket[Len(ticket)].status = "open" /\ ticket'[Len(ticket)].status = "canceled"
          /\ ticket'[Len(ticket)].command = ticket[Len(ticket)].command
      BY TicketCanceled DEF SameTicket
    <2>2. ticket[Len(ticket)].command = Serving
      BY <1>1 DEF OpenInv, Last
    <2>3. Straggler = {}
      BY <1>4, <2>1 DEF Straggler
    <2>4. Straggler' = {Serving}
      BY <1>1, <1>4, <2>1, <2>2 DEF Straggler
    <2>5. command # "none" /\ Promised!Serving = Serving
      BY <1>1, Served, PromisedNumbers
    <2>6. Promised!Answer(FALSE) \/ Promised!GoesOn
      BY <1>2 DEF Answers, FallsBack, Promised!Answer, Promised!GoesOn
    <2> QED
      BY <1>1, <1>3, <1>4, <2>3, <2>4, <2>5, <2>6 DEF Promised!GiveUp
  <1>5. CASE ~(game = "dispatch" /\ held = Len(ticket) /\ Serving \notin viaOs)
    <2>1. Straggler' = Straggler
      <3>1. CASE game # "dispatch"
        BY <1>1, <3>1 DEF Straggler
      <3>2. CASE game = "dispatch" /\ held # Len(ticket)
        <4>1. held \in DOMAIN ticket
          BY <3>2 DEF GameTypes
        <4>2. ticket'[held] = ticket[held]
          BY <3>2, <4>1, TicketCanceled
        <4> QED
          BY <1>1, <4>2 DEF Straggler
      <3>3. CASE held = Len(ticket) /\ Serving \in viaOs
        <4>1. ticket[held].command = Serving /\ ticket'[held].command = ticket[held].command
          BY <1>1, <3>3, TicketCanceled DEF OpenInv, Last, SameTicket
        <4> QED
          BY <1>1, <3>3, <4>1 DEF Straggler
      <3> QED
        BY <1>5, <3>1, <3>2, <3>3
    <2> QED
      BY <1>1, <1>2, <1>3, <2>1, PromisedFailure
  <1> QED
    BY <1>4, <1>5

\* A message for the OS queue takes its command out of the promise.
LEMMA PromisedLeave ==
  ASSUME IInv, PostMessage \/ PostFails
  PROVE  Promised!Leave
  <1> USE DEF IInv, TypeOK
  <1>1. /\ ipc = "post" /\ UNCHANGED <<seen, ticket, game, held>>
        /\ viaOs' = viaOs \union {Serving}
    BY DEF PostMessage, PostFails, ticketVars, gameVars
  <1>2. Answers(TRUE) \/ Advances \/ Answers(FALSE)
    BY AfterMessage DEF PostMessage, PostFails, Answers, Reply
  <1>3. command # "none" /\ Promised!Serving = Serving /\ Serving \in 1 .. MaxCommands
    BY <1>1, Served, PromisedNumbers, ServingInRange
  <1>4. Taken' = [Taken EXCEPT ![Serving] = 0]
    BY <1>1, <1>3, SameSightings DEF Taken
  <1>5. Straggler' = Straggler \ {Serving}
    BY <1>1 DEF Straggler
  <1>6. Promised!GoesOn \/ \E ok \in BOOLEAN : Promised!Answer(ok)
    BY <1>2 DEF Answers, Advances, Promised!GoesOn, Promised!Answer
  <1> QED
    BY <1>1, <1>3, <1>4, <1>5, <1>6 DEF Promised!Leave

\* Every step is one of the promise, or changes nothing of it.
LEMMA PromisedStep == IInv /\ [Next]_vars => Stutters \/ Promised!Next
  <1> SUFFICES ASSUME IInv, [Next]_vars PROVE Stutters \/ Promised!Next
    OBVIOUS
  <1> USE DEF IInv, TypeOK
  <1>1. ASSUME NEW c \in Commands, ReceiveCommand(c) PROVE Promised!Receive(c)
    <2>1. /\ ipc = "client" /\ Len(replies) < MaxCommands /\ command' = c
          /\ UNCHANGED <<replies, seen, viaOs, ticket, game, held>>
      BY <1>1 DEF ReceiveCommand, ticketVars, gameVars
    <2>2. command = "none"
      BY <2>1 DEF IpcTypes
    <2>3. Taken' = Taken /\ Straggler' = Straggler
      BY <2>1, SameTaken DEF Straggler
    <2> QED
      BY <2>1, <2>2, <2>3 DEF Promised!Receive
  <1>2. ASSUME CheckReady PROVE Stutters \/ Promised!Done(FALSE)
    <2>1. ipc = "ready" /\ UNCHANGED <<seen, viaOs, ticket, game, held>>
      BY <1>2 DEF CheckReady, ticketVars, gameVars
    <2>2. Taken' = Taken /\ Straggler' = Straggler
      BY <2>1, SameTaken DEF Straggler
    <2>3. Proceeds \/ Answers(FALSE) \/ FallsBack
      BY <1>2, AfterFailure DEF CheckReady, Proceeds
    <2>4. CASE Proceeds
      BY <2>1, <2>2, <2>4 DEF Proceeds, Stutters
    <2>5. CASE Answers(FALSE) \/ FallsBack
      BY <2>1, <2>2, <2>5, PromisedFailure
    <2> QED
      BY <2>3, <2>4, <2>5
  <1>3. ASSUME Push PROVE Stutters
    <2>1. UNCHANGED <<command, replies, seen, viaOs, game, held>>
      BY <1>3 DEF Push, gameVars
    <2>2. \A t \in DOMAIN ticket : ticket'[t] = ticket[t]
      BY <1>3, TicketPushed
    <2>3. Straggler' = Straggler
      BY <2>1, <2>2, SameStraggler
    <2> QED
      BY <2>1, <2>3, SameTaken DEF Stutters
  <1>4. ASSUME Wake \/ Shutdown \/ GameChanges PROVE Stutters
    <2>1. UNCHANGED <<command, replies, seen, viaOs, ticket, game, held>>
      BY <1>4 DEF Wake, Shutdown, GameChanges, ticketVars, gameVars, ipcVars
    <2>2. Straggler' = Straggler
      BY <2>1 DEF Straggler
    <2> QED
      BY <2>1, <2>2, SameTaken DEF Stutters
  <1>5. ASSUME WaitCompleted PROVE Stutters \/ \E ok \in BOOLEAN : Promised!Done(ok)
    <2>1. ipc = "wait" /\ UNCHANGED <<seen, viaOs, ticket, game, held>>
      BY <1>5 DEF WaitCompleted, ticketVars, gameVars
    <2>2. Taken' = Taken /\ Straggler' = Straggler
      BY <2>1, SameTaken DEF Straggler
    <2>3. \/ Answers(TRUE) /\ Delivered /\ Tail(left) = <<>>
          \/ Advances /\ Delivered
          \/ Answers(FALSE) \/ FallsBack
      BY <1>5, AfterMessage, AfterFailure DEF WaitCompleted, Last, Delivered
    <2>4. CASE Answers(TRUE) /\ Delivered /\ Tail(left) = <<>>
      BY <1>5, <2>4, PromisedOk
    <2>5. CASE Advances
      BY <2>1, <2>2, <2>5 DEF Advances, Stutters
    <2>6. CASE Answers(FALSE) \/ FallsBack
      BY <2>1, <2>2, <2>6, PromisedFailure
    <2> QED
      BY <2>3, <2>4, <2>5, <2>6
  <1>6. ASSUME ResumeGame \/ ProcessInputs \/ TryPop \/ DrainDone \/ Complete \/ GamepadTick
               \/ GameIdles \/ WaitMessageReturns
        PROVE  Stutters
    <2>1. /\ UNCHANGED <<command, replies, seen, viaOs>>
          /\ game # "dispatch" /\ game' # "dispatch"
      BY <1>6 DEF ResumeGame, ProcessInputs, TryPop, DrainDone, Complete, GamepadTick, GameIdles,
         WaitMessageReturns, ipcVars
    <2>2. Straggler' = Straggler
      BY <2>1 DEF Straggler
    <2> QED
      BY <2>1, <2>2, SameTaken DEF Stutters
  <1>7. ASSUME PumpMessage PROVE Stutters
    <2>1. UNCHANGED <<command, replies, viaOs, ticket, game, held>>
      BY <1>7 DEF PumpMessage, ipcVars, ticketVars, gameVars
    <2>2. Taken' = Taken
      <3>1. CASE seen' = seen
        BY <2>1, <3>1, SameTaken
      <3>2. ASSUME NEW e \in Sightings, SeesMore(e), Head(osQueue) # Wakeup,
                   e.command = Head(osQueue).command
            PROVE  Taken' = Taken
        <4>1. 1 \in DOMAIN osQueue /\ Head(osQueue) = osQueue[1]
          BY <1>7 DEF PumpMessage, GameTypes
        <4>2. e.command \in viaOs
          BY <3>2, <4>1 DEF OsInv
        <4>3. \A n : n \notin viaOs => CountOf(n)' = CountOf(n)
          BY <3>2, <4>2, OneMoreSighting
        <4> QED
          BY <2>1, <4>3 DEF Taken
      <3> QED
        BY <1>7, <3>1, <3>2, Pumped
    <2>3. Straggler' = Straggler
      BY <2>1 DEF Straggler
    <2> QED
      BY <2>1, <2>2, <2>3 DEF Stutters
  <1>8. ASSUME CheckCanceled PROVE Stutters
    <2>1. UNCHANGED <<command, replies, seen, viaOs, ticket>> /\ game = "check"
      BY <1>8 DEF CheckCanceled, ipcVars, ticketVars
    <2>2. game' # "dispatch" \/ (held' = held /\ ticket'[held'].status # "canceled")
      BY <1>8, <2>1 DEF CheckCanceled
    <2>3. Straggler' = {} /\ Straggler = {}
      BY <2>1, <2>2 DEF Straggler
    <2> QED
      BY <2>1, <2>3, SameTaken DEF Stutters
  <1>9. ASSUME Dispatch PROVE Stutters \/ Promised!Next
    <2>1. /\ UNCHANGED <<command, replies, viaOs, ticket, held>>
          /\ game = "dispatch" /\ game' = "complete"
      BY <1>9 DEF Dispatch, ipcVars, ticketVars
    <2>2. CASE Undeliverable
      <3>1. Taken' = Taken
        BY <2>1, <2>2, SameTaken DEF Undeliverable
      <3>2. Straggler' = {}
        BY <2>1 DEF Straggler
      <3>3. Stutters \/ Promised!Drop
        BY <2>1, <3>1, <3>2 DEF Stutters, Promised!Drop
      <3> QED
        BY <3>3 DEF Promised!Next
    <2>3. ASSUME NEW e, Delivers(e) PROVE Stutters \/ Promised!Next
      BY <2>1, <2>3, PromisedTake DEF Promised!Next
    <2> QED
      BY <1>9, <2>2, <2>3, Dispatched
  <1>10. CASE UNCHANGED vars
    <2>1. UNCHANGED <<command, replies, seen, viaOs, ticket, game, held>>
      BY <1>10 DEF vars
    <2>2. Straggler' = Straggler
      BY <2>1 DEF Straggler
    <2> QED
      BY <2>1, <2>2, SameTaken DEF Stutters
  <1>11. ASSUME WaitTimesOut PROVE Stutters \/ Promised!Next
    BY <1>11, PromisedTimeout DEF Promised!Next
  <1>12. ASSUME PostMessage \/ PostFails PROVE Promised!Next
    BY <1>12, PromisedLeave DEF Promised!Next
  <1> QED
    BY <1>1, <1>2, <1>3, <1>4, <1>5, <1>6, <1>7, <1>8, <1>9, <1>10, <1>11, <1>12
       DEF Next, IpcStep, GameStep, Promised!Next

\* Whatever times out and however the two threads interleave, the seam serves
\* commands one by one, as UiCommands has it.
THEOREM Refinement == Spec => OrderlyCommands
  <1>1. Init => Promised!Init
    <2> SUFFICES ASSUME Init PROVE Promised!Init
      OBVIOUS
    <2>1. \A n : CountOf(n) = 0
      <3>1. \A n : SeenBy(n) = {}
        BY DEF Init, SeenBy
      <3> QED
        BY <3>1, FS_EmptySet DEF CountOf
    <2> QED
      BY <2>1 DEF Init, Promised!Init, Taken, Straggler
  <1>2. IInv /\ [Next]_vars => [Promised!Next]_(Promised!vars)
    BY PromisedStep DEF Stutters, Promised!vars
  <1> QED
    BY <1>1, <1>2, Invariant, PTL DEF Spec, OrderlyCommands, Promised!Spec

=============================================================================
