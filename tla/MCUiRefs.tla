------------------------------- MODULE MCUiRefs -------------------------------
(* One dialog with a button inside a frame.                                   *)
EXTENDS UiRefs

Root == [name |-> "root", up |-> 0, left |-> 0, size |-> 20, click |-> FALSE, edit |-> FALSE]
Frame == [Root EXCEPT !.name = "frame", !.up = 1, !.left = 10, !.size = 10]
Button == [Frame EXCEPT !.name = "ok", !.up = 2, !.left = 4, !.size = 4, !.click = TRUE]

MCTrees == {<<Root, Frame, Button>>}
MCPaths == {<<"frame", "ok">>}
MCLogicalSize == <<20, 15>>
\* A window smaller than the UI: the scale is 4/5, half a pixel is left over.
MCClientSize == <<17, 12>>
=============================================================================
