----------------------------- MODULE Trampoline -----------------------------
(***************************************************************************)
(* The bytes of one hook: HookManager::InstallHook and UninstallHook       *)
(* (hook_manager.cpp) with the copying of x86_trampoline.cpp.  The first   *)
(* instructions of a function are copied into a trampoline, with their     *)
(* relative branches adjusted, a jump back is put behind them, and the     *)
(* function's first bytes become a jump to the replacement.  What other    *)
(* threads do meanwhile is in HookLifecycle.                               *)
(***************************************************************************)
EXTENDS X86Trampoline

VARIABLES
  hook,        \* the hook this behaviour installs
  step,        \* the next step, or the step that failed
  code,        \* the function's first bytes
  saved,       \* original_bytes
  place,       \* the trampoline's address
  copy,        \* its bytes
  offset,      \* how far the copying loop is
  image,       \* history: the function's first bytes before anything happened
  starts       \* history: where the loop found instructions

byteVars == <<hook, step, code, saved, place, copy, offset, image, starts>>

Steps ==
  {"verify", "allocate", "copy", "patch", "installed", "removed", "kept",
   "mismatch", "noMemory", "undecoded", "outOfReach", "unprotected"}

-----------------------------------------------------------------------------
BytesInit ==
  /\ hook \in Descriptors /\ image \in Images[hook] /\ code = image
  /\ step = "verify" /\ saved = <<>> /\ place = 0 /\ copy = <<>>
  /\ offset = 0 /\ starts = {}

\* Every failure frees the trampoline.
Fails(why) ==
  /\ step' = why /\ copy' = <<>>
  /\ UNCHANGED <<code, saved, place, offset, starts>>

VerifyPrologue ==
  /\ step = "verify"
  /\ IF \A i \in 1 .. Len(Prologue[hook]) : code[i - 1] = Prologue[hook][i]
       THEN /\ step' = "allocate" /\ saved' = [i \in 0 .. Span[hook] - 1 |-> code[i]]
            /\ UNCHANGED <<code, place, copy, offset, starts>>
       ELSE Fails("mismatch")

\* VirtualAlloc, and the memcpy that begins the copying.
AllocateTrampoline ==
  /\ step = "allocate"
  /\ \/ /\ place' \in Places /\ step' = "copy"
        /\ copy' = [i \in 0 .. Span[hook] + 4 |-> IF i < Span[hook] THEN code[i] ELSE 0]
        /\ UNCHANGED <<code, saved, offset, starts>>
     \/ Fails("noMemory")

\* Mutant: branches are copied as they are.
CopyVerbatim ==
  /\ step = "copy" /\ offset < Span[hook]
  /\ LET n == InstructionLength(code, offset, Span[hook] - offset)
     IN  /\ n # 0
         /\ offset' = offset + n /\ starts' = starts \union {offset}
         /\ UNCHANGED <<step, code, saved, place, copy>>

\* One turn of the loop; relative branches keep their targets.
CopyInstruction ==
  /\ step = "copy" /\ offset < Span[hook]
  /\ LET n == InstructionLength(code, offset, Span[hook] - offset)
         p == OpcodeAt(code, offset)
         d == BranchTarget(code, Target[hook], p) - (place + p + 5)
     IN  IF n = 0 THEN Fails("undecoded")
         ELSE IF code[p] \in Branches /\ d \notin Displacements THEN Fails("outOfReach")
         ELSE /\ copy' = IF code[p] \in Branches
                           THEN WithDisplacement(copy, p + 1, d) ELSE copy
              /\ offset' = offset + n /\ starts' = starts \union {offset}
              /\ UNCHANGED <<step, code, saved, place>>

\* WriteJumpPatch: a jump at offset i of bytes that lie at address a.
JumpFits(a, i, to) == to - (a + i + 5) \in Displacements
WithJump(b, a, i, to) == WithDisplacement([b EXCEPT ![i] = Jump], i + 1, to - (a + i + 5))

WriteJumpBack ==
  LET back == Target[hook] + Span[hook]
  IN  /\ step = "copy" /\ offset >= Span[hook]
      /\ IF JumpFits(place, Span[hook], back)
           THEN \/ /\ step' = "patch"
                   /\ copy' = WithJump(copy, place, Span[hook], back)
                   /\ UNCHANGED <<code, saved, place, offset, starts>>
                \/ Fails("unprotected")
           ELSE Fails("outOfReach")

\* The rest of the span becomes nops.
WritePatch ==
  /\ step = "patch"
  /\ IF Span[hook] >= 5 /\ JumpFits(Target[hook], 0, Replacement[hook])
       THEN \/ /\ step' = "installed"
               /\ code' = WithJump([i \in 0 .. Size(hook) - 1 |->
                                      IF i \in 5 .. Span[hook] - 1 THEN Nop ELSE code[i]],
                                   Target[hook], 0, Replacement[hook])
               /\ UNCHANGED <<saved, place, copy, offset, starts>>
            \/ Fails("unprotected")
       ELSE Fails("outOfReach")

\* The bytes are put back unless they cannot be made writable; the trampoline goes.
UninstallHook ==
  /\ step = "installed" /\ saved # <<>> /\ copy' = <<>>
  /\ \/ /\ step' = "removed"
        /\ code' = [i \in 0 .. Size(hook) - 1 |-> IF i < Span[hook] THEN saved[i] ELSE code[i]]
     \/ step' = "kept" /\ UNCHANGED code
  /\ UNCHANGED <<saved, place, offset, starts>>

BytesNext ==
  /\ \/ VerifyPrologue \/ AllocateTrampoline \/ CopyInstruction
     \/ WriteJumpBack \/ WritePatch \/ UninstallHook
  /\ UNCHANGED <<hook, image>>

BytesSpec == BytesInit /\ [][BytesNext]_byteVars

-----------------------------------------------------------------------------
BytesTypeOK ==
  /\ hook \in Descriptors /\ step \in Steps /\ place \in Int
  /\ image \in [0 .. Size(hook) - 1 -> Byte] /\ code \in [0 .. Size(hook) - 1 -> Byte]
  /\ saved = <<>> \/ saved \in [0 .. Span[hook] - 1 -> Byte]
  /\ copy = <<>> \/ copy \in [0 .. Span[hook] + 4 -> Byte]
  /\ offset \in 0 .. Span[hook] /\ starts \subseteq 0 .. Span[hook] - 1

LengthAt(s) == InstructionLength(image, s, Span[hook] - s)

\* The instruction at offset s of the trampoline is the one the function began
\* with: as long, with the same bytes, or a branch to the same place.
SameInstruction(s) ==
  LET p == OpcodeAt(image, s)
  IN  /\ LengthAt(s) > 0 /\ InstructionLength(copy, s, Span[hook] - s) = LengthAt(s)
      /\ IF image[p] \in Branches
           THEN /\ \A i \in s .. p : copy[i] = image[i]
                /\ BranchTarget(copy, place, p) = BranchTarget(image, Target[hook], p)
           ELSE \A i \in s .. s + LengthAt(s) - 1 : copy[i] = image[i]

JumpsTo(b, a, i, to) == b[i] = Jump /\ BranchTarget(b, a, i) = to

\* With a hook installed, calls of the function go to the replacement, and a call
\* of the trampoline executes what the function began with, instruction by
\* instruction, and goes on behind the bytes that were replaced.  Without one,
\* the function is as it was.
HookedCodeRuns ==
  /\ step = "installed" =>
       /\ JumpsTo(code, Target[hook], 0, Replacement[hook])
       /\ \A i \in Span[hook] .. Size(hook) - 1 : code[i] = image[i]
       /\ 0 \in starts
       /\ \A s \in starts :
            SameInstruction(s) /\ s + LengthAt(s) \in starts \union {Span[hook]}
       /\ JumpsTo(copy, place, Span[hook], Target[hook] + Span[hook])
  /\ step \notin {"installed", "kept"} => code = image

\* Every registered hook can be installed: its span is a number of instructions the
\* copying knows, and none of them calls or jumps into the bytes that are replaced.
RegisteredHooksFit ==
  hook \in Registered =>
    /\ step # "undecoded"
    /\ step = "installed" =>
         \A s \in starts :
           LET p == OpcodeAt(image, s)
           IN  image[p] \in Branches =>
                 BranchTarget(image, Target[hook], p) - Target[hook] \notin 1 .. Span[hook] - 1

-----------------------------------------------------------------------------
(* The strengthening the proofs need.                                      *)

\* Whose bytes are where: the function's until the patch, and what was saved.
BytesInv ==
  /\ step \notin {"installed", "kept"} => code = image
  /\ step \in {"allocate", "copy", "patch", "installed"} =>
       saved = [i \in 0 .. Span[hook] - 1 |-> image[i]]
  /\ step = "installed" => \A i \in Span[hook] .. Size(hook) - 1 : code[i] = image[i]

\* What the loop has copied, and what it has not looked at.
CopyInv ==
  /\ step \in {"verify", "allocate"} => offset = 0 /\ starts = {}
  /\ step \in {"copy", "patch", "installed"} =>
       /\ copy \in [0 .. Span[hook] + 4 -> Byte]
       /\ offset > 0 => 0 \in starts
       /\ \A s \in starts :
            SameInstruction(s) /\ s + LengthAt(s) <= offset
            /\ s + LengthAt(s) \in starts \union {offset}
  /\ step = "copy" => \A i \in offset .. Span[hook] - 1 : copy[i] = image[i]
  /\ step \in {"patch", "installed"} => offset = Span[hook]

JumpInv ==
  /\ step \in {"patch", "installed"} =>
       JumpsTo(copy, place, Span[hook], Target[hook] + Span[hook])
  /\ step = "installed" => Span[hook] >= 5 /\ JumpsTo(code, Target[hook], 0, Replacement[hook])

TrampolineInv == BytesTypeOK /\ BytesInv /\ CopyInv /\ JumpInv
=============================================================================
