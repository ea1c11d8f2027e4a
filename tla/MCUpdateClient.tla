--------------------------- MODULE MCUpdateClient ---------------------------
(* Two mirrors, two packages, and two downloads before task names run out. *)
EXTENDS UpdateClient, TLC

CONSTANTS g, h, p, q

MCSources == <<g, h>>
=============================================================================
