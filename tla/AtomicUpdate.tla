---------------------------- MODULE AtomicUpdate ----------------------------
(***************************************************************************)
(* What the updater promises about the installed program files: whatever   *)
(* crashes, failures and competing processes do, the installation changes  *)
(* only by whole updates.  An update publishes every payload file and      *)
(* deletes every file of its removal list in one step, or does nothing.    *)
(***************************************************************************)
CONSTANTS
  Files,     \* the managed paths (update_manifest.cpp, IsManagedPath)
  Stages,    \* update tasks; the task's name is the content it publishes
  Payload,   \* Payload[s]: the files the manifest of s publishes
  Removed,   \* Removed[s]: the files the manifest of s deletes
  Original,  \* Original[f]: what the first installation has at path f
  Absent     \* no file at that path

VARIABLE tree

\* The tree that installing stage s over tree t produces.
Apply(s, t) ==
  [f \in Files |-> IF f \in Payload[s] THEN s
                   ELSE IF f \in Removed[s] THEN Absent
                   ELSE t[f]]

Init == tree = Original

Next == \E s \in Stages : tree' = Apply(s, tree)

Spec == Init /\ [][Next]_tree
=============================================================================
