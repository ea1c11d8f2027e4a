------------------------------- MODULE UiRefs -------------------------------
(* Control clients name the game's windows by the refs e1, e2, ... of a UI     *)
(* snapshot.  The runtime numbers the windows in the order it walks them and   *)
(* keeps the last tree it was asked for; every client works on its own copy,   *)
(* several clients run at once and the game changes its windows meanwhile.     *)
(* One screen coordinate stands for both.                                      *)
EXTENDS Integers, Sequences, SequencesExt, FiniteSetsExt

CONSTANTS Trees,        \* what the game's GUI sheet may look like
          Clients,      \* command lines running at once
          Paths,        \* window paths asked for, as sequences of names
          LogicalSize, ClientSize,   \* <<width, height>> of the UI and of the window
          MaxCommands   \* bound: commands of one behaviour

VARIABLES tree,     \* the windows of the active GUI sheet, in the game's order
          focus,    \* the window with the input focus, or 0
          cache,    \* g_snapshot_cache: the last tree of a snapshot_ui command
          client,   \* every command line
          commands, \* commands given so far
          moved     \* history: clients whose copy and printed tree the game outdated

vars == <<tree, focus, cache, client, commands, moved>>
-----------------------------------------------------------------------------
(* A tree is the sequence of its windows in preorder; up is the parent's      *)
(* place in it, left is relative to the parent.  The ref of a window is its   *)
(* place: next_ref starts at 1 for every snapshot.                            *)
NoTree == << >>
Refs(t) == DOMAIN t

\* One root, then every window after its parent and all that lies between is
\* inside that parent.
IsTree(t) ==
  /\ t \in Seq([name : STRING, up : Nat, left : Int, size : Int, click : BOOLEAN, edit : BOOLEAN])
  /\ t # NoTree /\ t[1].up = 0
  /\ \A j \in 2..Len(t) : /\ t[j].up \in 1..(j - 1)
                          /\ \A i \in (t[j].up + 1)..(j - 1) : t[i].up >= t[j].up

Depth(t) == LET d[i \in Refs(t)] == IF t[i].up = 0 THEN 0 ELSE d[t[i].up] + 1 IN d
AbsoluteLeft(t) ==
  LET left[i \in Refs(t)] == t[i].left + (IF t[i].up = 0 THEN 0 ELSE left[t[i].up]) IN left

(* PathSegmentForNode: a window without a name is named by its place among    *)
(* its siblings.                                                              *)
Segment(t, i) ==
  [name |-> t[i].name,
   at |-> IF t[i].name # "" THEN 0 ELSE Cardinality({j \in 1..(i - 1) : t[j].up = t[i].up})]
Path(t) ==
  LET path[i \in Refs(t)] ==
        Append(IF t[i].up = 0 THEN << >> ELSE path[t[i].up], Segment(t, i)) IN path

-----------------------------------------------------------------------------
(* SerializeUiSnapshotTree and ParseUiSnapshotTree: one line per window, with *)
(* its depth instead of its parent; the parser keeps the stack of the windows *)
(* that are still open.                                                       *)
Serialize(t) == [i \in Refs(t) |-> [depth |-> Depth(t)[i], node |-> t[i]]]

Rejected == [ok |-> FALSE, tree |-> NoTree, stack |-> << >>]

\* Mutant: the windows that ended stay on the stack of the parser.
ParseLineKeepsOpen(state, line) ==
  IF ~state.ok \/ line.depth > Len(state.stack) \/ (line.depth = 0) # (state.tree = NoTree)
  THEN Rejected
  ELSE [ok |-> TRUE, stack |-> Append(state.stack, Len(state.tree) + 1),
        tree |-> Append(state.tree,
                   [line.node EXCEPT !.up = IF state.stack = << >> THEN 0 ELSE Last(state.stack)])]

ParseLine(state, line) ==
  IF ~state.ok \/ line.depth > Len(state.stack) \/ (line.depth = 0) # (state.tree = NoTree)
  THEN Rejected
  ELSE LET open == SubSeq(state.stack, 1, line.depth)
           here == Len(state.tree) + 1
       IN [ok |-> TRUE, stack |-> Append(open, here),
           tree |-> Append(state.tree,
                      [line.node EXCEPT !.up = IF open = << >> THEN 0 ELSE Last(open)])]

NothingRead == [ok |-> TRUE, tree |-> NoTree, stack |-> << >>]

Parse(lines) ==
  LET state[i \in 0..Len(lines)] ==
        IF i = 0 THEN NothingRead ELSE ParseLine(state[i - 1], lines[i])
  IN IF lines = << >> THEN Rejected ELSE state[Len(lines)]

(* FindUniqueUiSnapshotNodeByPathSuffix: the first exact path, else the only  *)
(* window whose path ends with the wanted one.                                *)
FindUnique(t, path) ==
  LET wanted == [k \in DOMAIN path |-> [name |-> path[k], at |-> 0]]
      exact == {i \in Refs(t) : Path(t)[i] = wanted}
      suffix == {i \in Refs(t) : IsSuffix(wanted, Path(t)[i])}
  IN IF path = << >> THEN 0
     ELSE IF exact # {} THEN Min(exact)
     ELSE IF Cardinality(suffix) = 1 THEN Min(suffix) ELSE 0
-----------------------------------------------------------------------------
(* BuildUiViewportPlan: one scale for both directions, the smaller of the two  *)
(* ratios, and the UI in the middle.  The scale num / den is exact where the   *)
(* code has a float; places on the screen are counted in 1 / (2 * den).        *)
ViewportPlan(size) ==
  LET d == IF size[1] * LogicalSize[2] <= size[2] * LogicalSize[1] THEN 1 ELSE 2
  IN [num |-> size[d], den |-> LogicalSize[d],
      origin |-> size[1] * LogicalSize[d] - LogicalSize[1] * size[d]]

\* UiLogicalToPhysical, and the place as lround and the message's sixteen bits
\* leave it.
Projected(plan, x) == 2 * x * plan.num + plan.origin
Rounded(a, unit) ==
  IF a >= 0 THEN (2 * a + unit) \div (2 * unit) ELSE -((unit - 2 * a) \div (2 * unit))
ToPhysical(plan, x) == Rounded(Projected(plan, x), 2 * plan.den) % 65536

\* A point that a mouse message cannot carry is refused.
Projects(plan, x) == Projected(plan, x) \in 0..(65535 * (2 * plan.den))

Centre(left, t, i) == left + t[i].size \div 2

\* Mutant: the rectangle is taken as it is.
ClickPlanRelative(t, r) == Centre(t[r].left, t, r)

(* BuildUiRefClickPlan on the client's tree: parents' places are added up.    *)
ClickPlan(t, r) == Centre(AbsoluteLeft(t)[r], t, r)

(* DispatchClientClick in the runtime: the middle of the rectangle as it was  *)
(* captured, with the size of the game's window, which is its configured one. *)
Half(a) == IF a >= 0 THEN a \div 2 ELSE -((-a) \div 2)
RuntimeClick(t, r) ==
  ToPhysical(ViewportPlan(ClientSize), Half(t[r].left + t[r].left + t[r].size))

(* The window the game gives a mouse message to: the last one drawn there.    *)
(* PhysicalToUiLogical does not round, so that the place is compared in       *)
(* 1 / (2 * num).                                                             *)
Inside(t, i, raw) ==
  LET plan == ViewportPlan(ClientSize)
      x == raw * (2 * plan.den) - plan.origin
      left == AbsoluteLeft(t)[i]
  IN left * (2 * plan.num) <= x /\ x < (left + t[i].size) * (2 * plan.num)
WindowAt(t, raw) ==
  LET hit == {i \in Refs(t) : Inside(t, i, raw)}
  IN IF hit = {} THEN 0 ELSE Max(hit)

(* Half of the window is wider than half a pixel.                             *)
Wide(t, i) ==
  LET plan == ViewportPlan(ClientSize) IN plan.den < 2 * ((t[i].size \div 2) * plan.num)
-----------------------------------------------------------------------------
Idle == [pc |-> "idle", op |-> "none", ref |-> 0, path |-> << >>, direct |-> FALSE,
         pid |-> TRUE, seen |-> NoTree, copy |-> NoTree, x |-> 0]

Init == /\ tree \in Trees
        /\ focus = 0
        /\ cache = NoTree
        /\ client = [c \in Clients |-> Idle]
        /\ commands = 0
        /\ moved = [copy |-> {}, seen |-> {}]

(* The game opens, closes or moves windows; a focus it destroys is gone.      *)
GameChanges(t) ==
  /\ tree # t
  /\ tree' = t
  /\ focus' = 0
  /\ moved' = [copy |-> Clients, seen |-> Clients]
  /\ UNCHANGED <<cache, client, commands>>

Begin(c, command) ==
  /\ client[c].pc = "idle" /\ commands < MaxCommands
  /\ commands' = commands + 1
  /\ client' = [client EXCEPT ![c] = [command EXCEPT !.seen = client[c].seen]]
  /\ UNCHANGED <<tree, focus, cache, moved>>

(* The command line: click, click-path, wait-path and snapshot read a fresh   *)
(* snapshot of their own; click and fill take a ref of the tree printed last; *)
(* type takes whatever editable window has the focus.                         *)
Command(c) ==
  \/ \E direct, pid \in BOOLEAN, r \in Refs(client[c].seen) :
       /\ direct => pid
       /\ Begin(c, [Idle EXCEPT !.pc = "read", !.op = "click", !.ref = r, !.direct = direct, !.pid = pid])
  \/ \E direct \in BOOLEAN, p \in Paths :
       Begin(c, [Idle EXCEPT !.pc = "read", !.op = "click-path", !.path = p, !.direct = direct])
  \/ \E p \in Paths : Begin(c, [Idle EXCEPT !.pc = "read", !.op = "wait-path", !.path = p])
  \/ Begin(c, [Idle EXCEPT !.pc = "read", !.op = "snapshot"])
  \/ \E r \in Refs(client[c].seen) : Begin(c, [Idle EXCEPT !.pc = "send", !.op = "fill", !.ref = r])
  \/ Begin(c, [Idle EXCEPT !.pc = "send", !.op = "type"])

Done(c) == [Idle EXCEPT !.seen = client[c].seen]

(* snapshot_ui in the runtime, which replaces its cache, and the client's     *)
(* parse of the answer.                                                       *)
ReadSnapshotTree(c) ==
  LET parsed == Parse(Serialize(tree))
      prints == client[c].op = "snapshot"
  IN /\ client[c].pc = "read"
     /\ cache' = tree
     /\ client' = [client EXCEPT ![c] =
          IF ~parsed.ok THEN Done(c)
          ELSE IF prints THEN [Idle EXCEPT !.seen = parsed.tree]
          ELSE [client[c] EXCEPT !.copy = parsed.tree, !.pc = "plan"]]
     /\ moved' = [copy |-> moved.copy \ {c},
                  seen |-> IF prints THEN moved.seen \ {c} ELSE moved.seen]
     /\ UNCHANGED <<tree, focus, commands>>

(* The game has no GUI sheet yet, or the pipe is gone; wait-path tries again. *)
SnapshotFails(c) ==
  /\ client[c].pc = "read" /\ client[c].op # "wait-path"
  /\ client' = [client EXCEPT ![c] = Done(c)]
  /\ UNCHANGED <<tree, focus, cache, commands, moved>>

(* wait-path ends when the path is there, and reads again otherwise, until    *)
(* its deadline.                                                              *)
WaitPath(c) ==
  /\ client[c].pc = "plan" /\ client[c].op = "wait-path"
  /\ client' = [client EXCEPT ![c] =
       IF FindUnique(client[c].copy, client[c].path) # 0 THEN Done(c)
       ELSE [client[c] EXCEPT !.pc = "read"]]
  /\ UNCHANGED <<tree, focus, cache, commands, moved>>

DeadlinePasses(c) ==
  /\ client[c].pc = "read" /\ client[c].op = "wait-path"
  /\ client' = [client EXCEPT ![c] = Done(c)]
  /\ UNCHANGED <<tree, focus, cache, commands, moved>>

(* HandleClick and HandleClickPath: refuse a ref that is not there, cannot be *)
(* clicked, has no area or lies off the screen; the window's size is asked    *)
(* for only with --pid and the operating system's queue, and else the root's  *)
(* is taken, which fills the UI.                                              *)
PlanClick(c) ==
  LET copy == client[c].copy
      r == IF client[c].op = "click" THEN client[c].ref ELSE FindUnique(copy, client[c].path)
      plan == ViewportPlan(IF client[c].pid /\ ~client[c].direct THEN ClientSize ELSE LogicalSize)
  IN /\ client[c].pc = "plan" /\ client[c].op \in {"click", "click-path"}
     /\ client' = [client EXCEPT ![c] =
          IF \/ r \notin Refs(copy) \/ ~copy[r].click \/ copy[r].size <= 0
             \/ ~Projects(plan, ClickPlan(copy, r))
          THEN Done(c)
          ELSE [client[c] EXCEPT !.ref = r, !.copy = NoTree,
                  !.pc = IF client[c].direct THEN "send" ELSE "down",
                  !.x = ToPhysical(plan, ClickPlan(copy, r))]]
     /\ UNCHANGED <<tree, focus, cache, commands, moved>>

(* click_ui_ref and fill_ui_ref in the runtime: the ref is looked up in the   *)
(* cache, whoever filled it last and however old the client's number is.      *)
Accepted(c) ==
  LET r == client[c].ref
  IN r \in Refs(cache) /\ cache[r].click /\ (client[c].op = "fill" => cache[r].edit)

SendRef(c) ==
  /\ client[c].pc = "send" /\ client[c].op # "type"
  /\ client' = [client EXCEPT ![c] =
       IF ~Accepted(c) THEN Done(c)
       ELSE [client[c] EXCEPT !.pc = "down", !.x = RuntimeClick(cache, client[c].ref)]]
  /\ UNCHANGED <<tree, focus, cache, commands, moved>>

(* type_text walks the game's windows without touching the cache.             *)
TypeIntoFocused(c) ==
  /\ client[c].pc = "send" /\ client[c].op = "type"
  /\ client' = [client EXCEPT ![c] =
       IF focus # 0 /\ tree[focus].edit THEN [client[c] EXCEPT !.pc = "text"] ELSE Done(c)]
  /\ UNCHANGED <<tree, focus, cache, commands, moved>>

(* The button goes down at the point and the window there takes the focus;    *)
(* it comes up, and the text of a fill goes wherever the focus is by then.    *)
ButtonDown(c) ==
  /\ client[c].pc = "down"
  /\ focus' = WindowAt(tree, client[c].x)
  /\ client' = [client EXCEPT ![c] =
       [Done(c) EXCEPT !.pc = IF client[c].op = "fill" THEN "text" ELSE "up"]]
  /\ UNCHANGED <<tree, cache, commands, moved>>

ButtonUp(c) ==
  /\ client[c].pc = "up"
  /\ client' = [client EXCEPT ![c] = Done(c)]
  /\ UNCHANGED <<tree, focus, cache, commands, moved>>

Text(c) ==
  /\ client[c].pc = "text"
  /\ client' = [client EXCEPT ![c] = Done(c)]
  /\ UNCHANGED <<tree, focus, cache, commands, moved>>

Next == \/ \E t \in Trees : GameChanges(t)
        \/ \E c \in Clients : \/ Command(c) \/ ReadSnapshotTree(c) \/ SnapshotFails(c) \/ WaitPath(c)
                              \/ DeadlinePasses(c) \/ PlanClick(c) \/ SendRef(c)
                              \/ TypeIntoFocused(c) \/ ButtonDown(c) \/ ButtonUp(c) \/ Text(c)

Spec == Init /\ [][Next]_vars
-----------------------------------------------------------------------------
GameTypes == tree \in Trees /\ focus \in Nat /\ cache \in Trees \union {NoTree}
Records == [pc : {"idle", "read", "plan", "send", "down", "up", "text"},
            op : {"none", "click", "click-path", "wait-path", "snapshot", "fill", "type"},
            ref : Nat, path : Paths \union {<< >>}, direct : BOOLEAN, pid : BOOLEAN,
            seen : Trees \union {NoTree}, copy : Trees \union {NoTree}, x : Int]
ClientTypes == client \in [Clients -> Records]
HistoryTypes == /\ commands \in 0..MaxCommands
                /\ moved \in [copy : SUBSET Clients, seen : SUBSET Clients]
TypeOK == GameTypes /\ ClientTypes /\ HistoryTypes

(* As long as the game changes nothing, the ref of a fill that the runtime     *)
(* accepts names the window its client saw under that ref, whichever client    *)
(* replaced the cache meanwhile (ui_snapshot_runtime.cpp:252-322).  That a ref *)
(* is accepted at all after another snapshot is not asked for.                 *)
RefNamesTheSame ==
  \A c \in Clients :
    (client[c].pc = "send" /\ client[c].op = "fill" /\ c \notin moved.seen /\ Accepted(c)) =>
      cache[client[c].ref] = client[c].seen[client[c].ref]

(* A click through the operating system's queue by ref or path goes down      *)
(* inside the window the client's fresh snapshot gave it, if the game changed *)
(* nothing since then, the client knows the game's window and half of the     *)
(* window clicked is wider than half a pixel                                  *)
(* (cli/main.cpp:559-627, 629-691; ui_input_plan.cpp:74-136;                  *)
(* ui_coordinate_space.cpp:71-121).                                           *)
QueuedClickLands ==
  \A c \in Clients :
    (client[c].pc = "down" /\ ~client[c].direct /\ client[c].op # "fill"
       /\ client[c].pid /\ c \notin moved.copy /\ Wide(tree, client[c].ref)) =>
      Inside(tree, client[c].ref, client[c].x)

(* The same of a click or fill by ref that the runtime carries out itself:    *)
(* "Let the runtime convert the stable logical ref center into the current    *)
(* physical viewport" (cli/main.cpp:602-604).  The runtime leaves the places  *)
(* of the parents out.                                                        *)
DirectClickLands ==
  \A c \in Clients :
    (client[c].pc = "down" /\ (client[c].direct \/ client[c].op = "fill")
       /\ c \notin moved.copy \union moved.seen) =>
      Inside(tree, client[c].ref, client[c].x)
-----------------------------------------------------------------------------
\* The tree printed last is the game's and the runtime's, until the game
\* changes its windows.
SeenInv ==
  \A c \in Clients :
    (c \notin moved.seen /\ client[c].seen # NoTree) => client[c].seen = tree /\ cache = tree

\* So is the copy a click is planned on.
CopyInv ==
  \A c \in Clients : (client[c].pc = "plan" /\ c \notin moved.copy) => client[c].copy = tree

\* Only what the runtime carries out is sent by ref, and a fill takes a ref of
\* the tree printed last.
SendInv ==
  \A c \in Clients :
    client[c].pc = "send" =>
      /\ client[c].op \in {"fill", "type"} \/ client[c].direct
      /\ client[c].op = "fill" => client[c].ref \in Refs(client[c].seen)

\* The inductive invariant.
IInv == TypeOK /\ SeenInv /\ CopyInv /\ SendInv /\ RefNamesTheSame /\ QueuedClickLands
=============================================================================
