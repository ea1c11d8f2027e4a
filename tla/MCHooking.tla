------------------------------ MODULE MCHooking ------------------------------
(* Threads: a required hook between two optional ones.  Bytes: the hooks of *)
(* the inventory, and some it does not have.                                *)
EXTENDS Hooking, HookInventory, TLC

CONSTANTS a, b, c

MCOrder == <<a, b, c>>

\* A short jump; a span that cuts an instruction; one of four bytes; a jump to the
\* function itself; a call with a prefix; a replacement that is out of Reach.
Others ==
  [
   short_jump |-> <<4266240, 5, <<235, 3, 86, 87, 80>>>>,
   cut |-> <<4266240, 5, <<86, 87, 83, 131, 236, 8>>>>,
   four |-> <<4266240, 4, <<131, 236, 8, 83>>>>,
   endless |-> <<4266240, 5, <<233, 251, 255, 255, 255>>>>,
   prefixed |-> <<4266240, 7, <<100, 232, 1, 0, 0, 0, 144>>>>,
   far |-> <<4266240, 5, <<86, 87, 83, 80, 81, 82>>>>]

MCRegistered == DOMAIN Inventory
MCDescriptors == MCRegistered \union DOMAIN Others

Descriptor(h) == IF h \in MCRegistered THEN Inventory[h] ELSE Others[h]

MCTarget == [h \in MCDescriptors |-> Descriptor(h)[1]]
MCSpan == [h \in MCDescriptors |-> Descriptor(h)[2]]
MCPrologue == [h \in MCDescriptors |-> Descriptor(h)[3]]

\* The runtime's DLL at its preferred address.
MCReplacement == [h \in MCDescriptors |-> IF h = "far" THEN 2147352576 ELSE 268435456]

\* What was expected, or another version of the game.
Expected(h) == [i \in 0 .. Len(MCPrologue[h]) - 1 |-> MCPrologue[h][i + 1]]
MCImages ==
  [h \in MCDescriptors |->
     {Expected(h), [Expected(h) EXCEPT ![Len(MCPrologue[h]) - 1] = (@ + 1) % 256]}]

\* Low, near the DLL, and out of the Reach of this run.
MCPlaces == {65536, 270532608, 2147352576}
=============================================================================
