------------------------------ MODULE MCRuntime ------------------------------
(* Small instances of the runtime's parts for TLC.                           *)
EXTENDS Runtime

MCCommands == {<<"present", "observe">>, <<"present", "fallback">>}
MCEdits == {<<FALSE, TRUE>>}

Widget(name, up, left, size, click, edit) ==
  [name |-> name, up |-> up, left |-> left, size |-> size, click |-> click, edit |-> edit]
MCTrees ==
  {<<Widget("root", 0, 0, 20, FALSE, FALSE), Widget("frame", 1, 10, 10, TRUE, FALSE),
     Widget("ok", 2, 4, 5, TRUE, FALSE), Widget("", 1, 0, 6, TRUE, TRUE)>>,
   <<Widget("root", 0, 0, 20, FALSE, FALSE), Widget("", 1, 0, 6, TRUE, TRUE),
     Widget("frame", 1, 10, 10, TRUE, FALSE), Widget("ok", 3, 4, 5, TRUE, FALSE)>>}
MCPaths == {<<"ok">>}
MCLogicalSize == <<20, 15>>
\* The scale is 9/5, and two and a half pixels are left over on each side.
MCClientSize == <<41, 27>>

MCTexts == {<<3, 1, 2, 4, 5, 6, 3>>}

MCRegions == <<[base |-> 0, size |-> 2, protect |-> "rw"],
               [base |-> 2, size |-> 2, protect |-> "xr"],
               [base |-> 4, size |-> 2, protect |-> "ro"]>>
Ask(op, space, addr, type, hex, v, unsafe) ==
  [op |-> op, space |-> space, addr |-> addr, type |-> type,
   text |-> [hex |-> hex, v |-> v], unsafe |-> unsafe]
MCRequests ==
  {Ask("write", "runtime_va", 0, "i32", TRUE, 14, FALSE),
   Ask("read", "runtime_va", 0, "i32", FALSE, 0, FALSE),
   Ask("write", "runtime_va", 1, "i32", FALSE, -7, FALSE),
   Ask("write", "ida_ea", 1, "u8", FALSE, 3, FALSE),
   Ask("write", "ida_ea", 1, "u8", FALSE, 3, TRUE),
   Ask("write", "runtime_va", 4, "u16", TRUE, 6, FALSE),
   Ask("read", "runtime_va", 4, "u16", TRUE, 6, FALSE)}

Path(absolute, dirs, name, ext) ==
  [absolute |-> absolute, dirs |-> dirs, name |-> name, ext |-> ext]
MCResources == {Path(FALSE, <<".", "gamedata">>, "m", "csb"),
                Path(FALSE, <<"gamedata">>, "m", "cs")}
MCPackaged == {r \in MCResources : r.ext = "csb"}

MCBodies == {<<"a", "a">>, <<"lead", "tail", "a", "lead", "tail", "a">>,
             <<"a", "a", "a", "a", "lead", "tail", "a">>}
=============================================================================
