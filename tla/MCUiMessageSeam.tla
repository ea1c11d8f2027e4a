-------------------------- MODULE MCUiMessageSeam --------------------------
(* Clicks, typing and single messages with and without the OS queue.  The    *)
(* up of a click is dispatched as its down is, and left out.                 *)
EXTENDS UiMessageSeam, TLC

MCScript ==
  [c \in Commands |->
     CASE c = "click" -> <<"move", "down">>
       [] c = "type"  -> <<"a", "b">>
       [] OTHER       -> <<"key">>]
=============================================================================
