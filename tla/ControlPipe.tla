----------------------------- MODULE ControlPipe -----------------------------
(* The control pipe: command lines send one request per connection, the        *)
(* runtime serves one connection at a time, executes the request and closes    *)
(* the connection.  Requests wait for the state the game's thread publishes,   *)
(* and press, hold and the polling waits are several exchanges.                *)
EXTENDS Integers, Sequences, FiniteSets, Functions

CONSTANTS Clients,      \* command lines
          Texts,        \* what is typed: sequences of characters 0..6
          MaxCalls,     \* bound: calls of the hook that is waited for
          MaxCommands,  \* bound: commands of one behaviour
          MaxRepeats    \* bound: repeats of one hold

VARIABLES server,   \* the IPC thread: where it is, whom it serves, what it answers
          pipe,     \* "none", "listening", "busy": the one instance of the pipe
          client,   \* every command line
          calls, paliv,   \* RuntimeState: the hook calls counted, the last PALIV entry
          keys,     \* the clients whose key the game takes as held down
          shutdown, \* ShutdownRequested
          commands  \* commands given so far

vars == <<server, pipe, client, calls, paliv, keys, shutdown, commands>>
gameVars == <<calls, paliv, keys>>
-----------------------------------------------------------------------------
(* Characters: three digits, which are also the digits of an escape, then the *)
(* percent sign, the space, the equals sign and a letter.                     *)
Percent == 3
Space == 4
Equals == 5
Letter == 6
Plain(ch) == ch \notin {Percent, Space, Equals}
Nibble(ch) == IF ch < 3 THEN ch ELSE -1

EscapeProtocolToken(text) ==
  LET esc[i \in 0..Len(text)] ==
        IF i = 0 THEN << >>
        ELSE esc[i - 1] \o (IF Plain(text[i]) THEN <<text[i]>>
                            ELSE <<Percent, text[i] \div 3, text[i] % 3>>)
  IN esc[Len(text)]

\* Mutant: the escape at the end of the text is left as it is.
UnescapeBeforeEnd(text) ==
  LET escape(i) == /\ text[i] = Percent /\ i + 2 < Len(text)
                   /\ Nibble(text[i + 1]) >= 0 /\ Nibble(text[i + 2]) >= 0
      un[i \in 1..(Len(text) + 3)] ==
        IF i > Len(text) THEN << >>
        ELSE IF escape(i) THEN <<text[i + 1] * 3 + text[i + 2]>> \o un[i + 3]
        ELSE <<text[i]>> \o un[i + 1]
  IN un[1]

(* A percent sign that no two digits follow stands for itself.                *)
UnescapeProtocolToken(text) ==
  LET escape(i) == /\ text[i] = Percent /\ i + 2 <= Len(text)
                   /\ Nibble(text[i + 1]) >= 0 /\ Nibble(text[i + 2]) >= 0
      un[i \in 1..(Len(text) + 3)] ==
        IF i > Len(text) THEN << >>
        ELSE IF escape(i) THEN <<text[i + 1] * 3 + text[i + 2]>> \o un[i + 3]
        ELSE <<text[i]>> \o un[i + 1]
  IN un[1]

(* FormatProtocolCommand and ParseProtocolCommand: a request is cut into      *)
(* tokens at the spaces, a token at its first equals sign.                    *)
Format(text) == <<Letter, Space, Letter, Equals>> \o EscapeProtocolToken(text)

Token(wire) ==
  LET from == CHOOSE i \in DOMAIN wire : wire[i] = Space /\ \A j \in 1..(i - 1) : wire[j] # Space
      ends == {i \in (from + 1)..Len(wire) : wire[i] = Space}
      to == IF ends = {} THEN Len(wire) ELSE (CHOOSE i \in ends : \A j \in ends : i <= j) - 1
  IN SubSeq(wire, from + 1, to)

ParseText(wire) ==
  LET token == Token(wire)
      pivot == CHOOSE i \in DOMAIN token : token[i] = Equals /\ \A j \in 1..(i - 1) : token[j] # Equals
  IN UnescapeProtocolToken(SubSeq(token, pivot + 1, Len(token)))
-----------------------------------------------------------------------------
NoRequest == [kind |-> "none", key |-> FALSE, count |-> 0, text |-> << >>]
Request(kind) == [NoRequest EXCEPT !.kind = kind]
KeyRequest(down) == [NoRequest EXCEPT !.kind = "simulate_key", !.key = down]

Free == [pc |-> "create", c |-> "none", request |-> NoRequest, ok |-> FALSE]
Idle == [pc |-> "idle", op |-> "none", step |-> "none", request |-> NoRequest,
         answer |-> "none", repeats |-> 0]

Init == /\ server = Free
        /\ pipe = "none"
        /\ client = [c \in Clients |-> Idle]
        /\ calls = 0 /\ paliv = 0
        /\ keys = {}
        /\ shutdown = FALSE
        /\ commands = 0
-----------------------------------------------------------------------------
(* SendPipeCommand of the command line.  WaitNamedPipe and CreateFile are two *)
(* calls: another client may take the instance between them, and then this    *)
(* one fails at once.                                                         *)
WaitNamedPipe(c) ==
  /\ client[c].pc = "wait" /\ pipe = "listening"
  /\ client' = [client EXCEPT ![c].pc = "open"]
  /\ UNCHANGED <<server, pipe, gameVars, shutdown, commands>>

WaitNamedPipeTimesOut(c) ==
  /\ client[c].pc = "wait" /\ pipe # "listening"
  /\ client' = [client EXCEPT ![c].pc = "answer", ![c].answer = "pipe"]
  /\ UNCHANGED <<server, pipe, gameVars, shutdown, commands>>

OpenPipe(c) ==
  /\ client[c].pc = "open"
  /\ IF pipe = "listening"
     THEN /\ pipe' = "busy"
          /\ server' = [server EXCEPT !.pc = "read", !.c = c]
          /\ client' = [client EXCEPT ![c].pc = "reading"]
     ELSE /\ client' = [client EXCEPT ![c].pc = "answer", ![c].answer = "pipe"]
          /\ UNCHANGED <<pipe, server>>
  /\ UNCHANGED <<gameVars, shutdown, commands>>

(* The client reads what was written.                                         *)
ReadAnswer(c) ==
  /\ client[c].pc = "reading" /\ server.pc = "close" /\ server.c = c
  /\ client' = [client EXCEPT ![c].pc = "answer", ![c].answer = IF server.ok THEN "ok" ELSE "error"]
  /\ UNCHANGED <<server, pipe, gameVars, shutdown, commands>>

(* IpcServerThreadProc.                                                       *)
CreatePipe ==
  /\ server.pc = "create"
  /\ IF shutdown
     THEN server' = [Free EXCEPT !.pc = "ended"] /\ UNCHANGED pipe
     ELSE pipe' = "listening" /\ server' = [Free EXCEPT !.pc = "listen"]
  /\ UNCHANGED <<client, gameVars, shutdown, commands>>

(* ParseProtocolCommand of what the client wrote.                             *)
ReadRequest ==
  LET sent == client[server.c].request IN
  /\ server.pc = "read"
  /\ server' = [server EXCEPT !.pc = "execute",
                  !.request = IF sent.kind # "type_text" THEN sent
                              ELSE [sent EXCEPT !.text = ParseText(Format(sent.text))]]
  /\ UNCHANGED <<pipe, client, gameVars, shutdown, commands>>

Reply(ok) == server' = [server EXCEPT !.pc = "close", !.ok = ok]

(* DispatchCommand.  A message to the game is delivered or it is not; a wait  *)
(* keeps the connection, and every other client, waiting.                     *)
DispatchCommand ==
  /\ server.pc = "execute"
  /\ CASE server.request.kind = "simulate_key" ->
            \/ /\ keys' = IF server.request.key THEN keys \union {server.c} ELSE keys \ {server.c}
               /\ Reply(TRUE) /\ UNCHANGED shutdown
            \/ Reply(FALSE) /\ UNCHANGED <<keys, shutdown>>
       [] server.request.kind \in {"wait_for_hook_calls", "wait_for_paliv_state"} ->
            server' = [server EXCEPT !.pc = "waiting"] /\ UNCHANGED <<keys, shutdown>>
       [] server.request.kind = "shutdown" -> shutdown' = TRUE /\ Reply(TRUE) /\ UNCHANGED keys
       [] OTHER -> Reply(TRUE) /\ UNCHANGED <<keys, shutdown>>
  /\ UNCHANGED <<pipe, client, calls, paliv, commands>>

Reached == IF server.request.kind = "wait_for_hook_calls"
           THEN calls >= server.request.count ELSE paliv = server.request.count

(* WaitForHookCalls and WaitForPalivEntry: woken by a change, or at the       *)
(* timeout, which looks once more.                                            *)
WaitWakes == /\ server.pc = "waiting" /\ Reached
             /\ Reply(TRUE)
             /\ UNCHANGED <<pipe, client, gameVars, shutdown, commands>>

WaitTimesOut == /\ server.pc = "waiting"
                /\ Reply(Reached)
                /\ UNCHANGED <<pipe, client, gameVars, shutdown, commands>>

(* DisconnectNamedPipe right after the last write: an answer the client has   *)
(* not read yet is thrown away.                                               *)
Disconnect ==
  /\ server.pc = "close"
  /\ client' = IF client[server.c].pc # "reading" THEN client
               ELSE [client EXCEPT ![server.c].pc = "answer", ![server.c].answer = "pipe"]
  /\ server' = Free
  /\ pipe' = "none"
  /\ UNCHANGED <<gameVars, shutdown, commands>>
-----------------------------------------------------------------------------
Send(c, step, request) ==
  client' = [client EXCEPT ![c].pc = "wait", ![c].step = step, ![c].request = request]

Begin(c, op, request) ==
  /\ client[c].pc = "idle" /\ commands < MaxCommands
  /\ client' = [client EXCEPT ![c] = [Idle EXCEPT !.pc = "wait", !.op = op, !.step = "first",
                                                  !.request = request]]
  /\ commands' = commands + 1
  /\ UNCHANGED <<server, pipe, gameVars, shutdown>>

(* The commands: type, and everything else that is one exchange; press and    *)
(* hold; the waits of the runtime; wait-event, wait-state, wait-path and      *)
(* wait-text, which poll; shutdown, which the tests send.                     *)
Command(c) ==
  \/ \E t \in Texts : Begin(c, "type", [Request("type_text") EXCEPT !.text = t])
  \/ c \notin keys /\ (Begin(c, "press", KeyRequest(TRUE)) \/ Begin(c, "hold", KeyRequest(TRUE)))
  \/ \E n \in 1..MaxCalls : Begin(c, "wait-hook", [Request("wait_for_hook_calls") EXCEPT !.count = n])
  \/ Begin(c, "wait-paliv", [Request("wait_for_paliv_state") EXCEPT !.count = 1])
  \/ Begin(c, "wait-event", Request("read_event_log"))
  \/ Begin(c, "shutdown", Request("shutdown"))

\* Mutant: a repeat that failed ends the command.
HoldGivesUp(c) == [client EXCEPT ![c] = Idle]

(* SendKeyState of the release, whose own failure nobody looks at.            *)
HoldReleases(c) ==
  [client EXCEPT ![c].pc = "wait", ![c].step = "release", ![c].answer = "none",
                 ![c].request = KeyRequest(FALSE)]

(* What the command does with its answer.                                     *)
Finish(c) ==
  /\ client[c].pc = "answer"
  /\ LET good == client[c].answer = "ok"
         again(step, request) ==
           [client[c] EXCEPT !.pc = "wait", !.step = step, !.request = request,
                             !.answer = "none",
                             !.repeats = IF step = "repeat" THEN @ + 1 ELSE @]
     IN client' \in
          CASE client[c].op = "press" /\ client[c].step = "first" /\ good ->
                 {[client EXCEPT ![c] = again("final", KeyRequest(FALSE))]}
            [] client[c].op = "hold" /\ client[c].step \in {"first", "repeat"} /\ good ->
                 {[client EXCEPT ![c] = again("final", KeyRequest(FALSE))]}
                   \union (IF client[c].repeats < MaxRepeats
                           THEN {[client EXCEPT ![c] = again("repeat", KeyRequest(TRUE))]} ELSE {})
            [] client[c].op = "hold" /\ client[c].step = "repeat" /\ ~good ->
                 {HoldReleases(c)}
            [] client[c].op = "wait-event" ->      \* found, or asked again
                 {[client EXCEPT ![c] = again("first", client[c].request)]}
                   \union (IF good THEN {[client EXCEPT ![c] = Idle]} ELSE {})
            [] OTHER -> {[client EXCEPT ![c] = Idle]}
  /\ UNCHANGED <<server, pipe, gameVars, shutdown, commands>>

(* The deadline of wait-event, looked at before every poll.                   *)
DeadlinePasses(c) ==
  /\ client[c].pc = "wait" /\ client[c].op = "wait-event"
  /\ client' = [client EXCEPT ![c] = Idle]
  /\ UNCHANGED <<server, pipe, gameVars, shutdown, commands>>

(* The game's thread, as far as a wait can see it: what it publishes while    *)
(* nobody waits it may as well have published later (a bound).                *)
IncrementHookCall ==
  /\ server.pc = "waiting" /\ calls < MaxCalls
  /\ calls' = calls + 1
  /\ UNCHANGED <<server, pipe, client, paliv, keys, shutdown, commands>>

ObservePalivEntry ==
  /\ server.pc = "waiting"
  /\ paliv' = 1 - paliv
  /\ UNCHANGED <<server, pipe, client, calls, keys, shutdown, commands>>

Serve == CreatePipe \/ ReadRequest \/ DispatchCommand \/ WaitWakes \/ WaitTimesOut \/ Disconnect

Exchange(c) == \/ WaitNamedPipe(c) \/ WaitNamedPipeTimesOut(c) \/ OpenPipe(c)
               \/ ReadAnswer(c) \/ Finish(c)

Next == \/ Serve
        \/ \E c \in Clients : Exchange(c) \/ Command(c) \/ DeadlinePasses(c)
        \/ IncrementHookCall \/ ObservePalivEntry

Spec == Init /\ [][Next]_vars
-----------------------------------------------------------------------------
Kinds == {"none", "type_text", "simulate_key", "wait_for_hook_calls", "wait_for_paliv_state",
          "read_event_log", "shutdown"}
AllRequests == [kind : Kinds, key : BOOLEAN, count : Nat, text : Seq(0..Letter)]

ServerTypes ==
  server \in [pc : {"create", "listen", "read", "execute", "waiting", "close", "ended"},
              c : Clients \union {"none"}, request : AllRequests, ok : BOOLEAN]
ClientTypes ==
  client \in [Clients -> [pc : {"idle", "wait", "open", "reading", "answer"},
                          op : {"none", "type", "press", "hold", "wait-hook", "wait-paliv",
                                "wait-event", "shutdown"},
                          step : {"none", "first", "repeat", "final", "release"},
                          request : AllRequests, answer : {"none", "ok", "error", "pipe"},
                          repeats : Nat]]
GameTypes == calls \in 0..MaxCalls /\ paliv \in {0, 1} /\ keys \subseteq Clients

PipeTypes == pipe \in {"none", "listening", "busy"}

TypeOK == ServerTypes /\ PipeTypes /\ ClientTypes /\ GameTypes

(* What the game is told to type is what the command line was given, with its *)
(* spaces, equals and percent signs: escaping, cutting into tokens and        *)
(* unescaping change nothing (protocol.cpp:11-28, 76-108, 230-371).           *)
RequestArrives ==
  server.pc \in {"execute", "waiting", "close"} => server.request = client[server.c].request
                                                   \/ client[server.c].pc # "reading"

(* A press or hold that ends with its key still down did so because the very  *)
(* first exchange or the one that would have released the key went wrong: a   *)
(* repeat that fails is followed by a release (cli/main.cpp:848-968).         *)
KeyComesUp ==
  [][\A c \in Clients :
       (client[c].pc = "answer" /\ client[c].op \in {"press", "hold"}
          /\ client'[c].pc = "idle" /\ c \in keys)
       => client[c].answer # "ok" /\ client[c].step # "repeat"]_vars

(* The thread serves one client, who waits for its answer until it is         *)
(* written; nobody else is on the pipe.                                       *)
ServeInv ==
  /\ pipe = "listening" => server.pc = "listen"
  /\ server.pc \in {"read", "execute", "waiting", "close"} => server.c \in Clients
  /\ server.pc \in {"read", "execute", "waiting"} => client[server.c].pc = "reading"
  /\ \A c \in Clients : client[c].pc = "reading" =>
       server.c = c /\ server.pc \in {"read", "execute", "waiting", "close"}
  /\ server.pc = "waiting" =>
       server.request.kind \in {"wait_for_hook_calls", "wait_for_paliv_state"}

(* What a client asks for at each step of its command.                        *)
StepInv ==
  \A c \in Clients : client[c].pc # "idle" =>
    /\ client[c].op = "press" => client[c].step \in {"first", "final"}
    /\ client[c].op = "hold" => client[c].step \in {"first", "repeat", "final", "release"}
    /\ client[c].step \in {"final", "release"} => client[c].request = KeyRequest(FALSE)
    /\ client[c].request.kind = "type_text" => client[c].request.text \in Texts

(* A release that was answered well let the key go.                           *)
Releasing(c) == client[c].step \in {"final", "release"}
KeyInv ==
  /\ (server.pc = "close" /\ server.ok /\ client[server.c].pc = "reading" /\ Releasing(server.c))
       => server.c \notin keys
  /\ \A c \in Clients :
       (client[c].pc = "answer" /\ client[c].answer = "ok" /\ Releasing(c)) => c \notin keys

(* These with the types and the requests' arrival are inductive.              *)
IInv == TypeOK /\ ServeInv /\ StepInv /\ RequestArrives /\ KeyInv
=============================================================================
