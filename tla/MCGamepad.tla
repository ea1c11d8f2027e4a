----------------------------- MODULE MCGamepad -----------------------------
(* Gamepad with the buttons that behave differently, the others being like   *)
(* one of them, alone and in the pairs that meet in a frame.                 *)
EXTENDS Gamepad

MCButtons == {"a", "b", "x", "rb", "start"}
MCDpad == {"up"}
MCPads == {{}, {"b"}, {"rb"}, {"start"}, {"up"}, {"stick"}, {"a", "up"}, {"x", "stick"}}
MCUis == {"loading", "title", "world", "menu", "trade", "wheel", "combatList"}
MCSendInput == BOOLEAN
=============================================================================
