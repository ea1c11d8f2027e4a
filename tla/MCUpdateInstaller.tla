-------------------------- MODULE MCUpdateInstaller --------------------------
(***************************************************************************)
(* A small installation for TLC.  The launcher and the game library exist  *)
(* before the first update, the command line tool is new, and the legacy   *)
(* launcher is deleted by the updates.                                     *)
(***************************************************************************)
EXTENDS UpdateInstaller, TLC

CONSTANTS exe, lib, cli, legacy, old

MCFiles == {exe, lib, cli, legacy}
MCGameFiles == {lib}
MCPayload == [s \in Stages |-> {exe, lib, cli}]
MCRemoved == [s \in Stages |-> {legacy}]
MCOriginal == [f \in MCFiles |-> IF f = cli THEN Absent ELSE old]

SmallFiles == {exe, lib}
SmallPayload == [s \in Stages |-> {exe, lib}]
SmallRemoved == [s \in Stages |-> {}]
SmallOriginal == [f \in SmallFiles |-> old]
==============================================================================
