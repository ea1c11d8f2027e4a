--------------------------- MODULE X86Trampoline ---------------------------
(***************************************************************************)
(* The x86 instructions of a trampoline: how CopyRelocatingX86Bytes        *)
(* (x86_trampoline.cpp) finds the length of an instruction, and the        *)
(* displacement of a relative branch.                                      *)
(*                                                                         *)
(* Bytes are numbers and addresses integers; an offset counts from 0.  In  *)
(* a 32-bit process the subtraction of two addresses wraps around instead  *)
(* of failing the test of its range, and so does the processor's addition. *)
(***************************************************************************)
EXTENDS Integers, Sequences

CONSTANTS
  Descriptors,  \* the hooks somebody may ask for
  Registered,   \* those of the inventory
  Target,       \* [Descriptors -> Int]: the address of the function
  Prologue,     \* [Descriptors -> Seq(Byte)]: its expected_prologue
  Span,         \* [Descriptors -> Nat]: its patch_span
  Replacement,  \* [Descriptors -> Int]: where its calls shall go
  Images,       \* [Descriptors -> sets of bytes]: what the function may begin with
  Places,       \* the addresses VirtualAlloc may return
  Reach         \* the largest displacement: 2^31 - 1, less where a run shall exceed it

Byte == 0 .. 255

\* The bytes of a function the model keeps: those compared or replaced.
Size(h) == IF Span[h] > Len(Prologue[h]) THEN Span[h] ELSE Len(Prologue[h])

ASSUME TrampolineAssumption ==
  /\ Registered \subseteq Descriptors
  /\ Target \in [Descriptors -> Int] /\ Replacement \in [Descriptors -> Int] /\ Places \subseteq Int
  /\ Prologue \in [Descriptors -> Seq(Byte)] /\ Span \in [Descriptors -> Nat]
  /\ \A h \in Descriptors : Images[h] \subseteq [0 .. Size(h) - 1 -> Byte]
  /\ Reach \in Nat /\ Reach <= 2147483647

-----------------------------------------------------------------------------
\* Displacements: four bytes, the least significant first, two's complement.
Displacements == -(Reach + 1) .. Reach

Displacement(b, i) ==
  b[i] + 256 * b[i + 1] + 65536 * b[i + 2]
  + 16777216 * (IF b[i + 3] < 128 THEN b[i + 3] ELSE b[i + 3] - 256)

WithDisplacement(b, i, d) ==
  [b EXCEPT ![i] = d % 256, ![i + 1] = (d \div 256) % 256,
            ![i + 2] = (d \div 65536) % 256, ![i + 3] = (d \div 16777216) % 256]

\* Where a branch with its opcode at offset p leads, in bytes at address a.
BranchTarget(b, a, p) == a + p + 5 + Displacement(b, p + 1)

\* Opcodes the copying knows: call and jmp rel32; push register and nop; with an
\* 8-bit or a 32-bit operand; those with a ModRM byte, some with an immediate.
Branches == {232, 233}
Single == 80 .. 87 \union {144}
WithByte == {106}
WithWord == {104, 161} \union Branches
ImmediateByte == {128, 131}
ImmediateWord == {129}
WithModRM == {51, 57, 137, 138, 139, 141} \union ImmediateByte \union ImmediateWord
SegmentPrefix == 100
Jump == 233
Nop == 144

Immediate(opcode) ==
  IF opcode \in ImmediateByte THEN 1 ELSE IF opcode \in ImmediateWord THEN 4 ELSE 0

PlainLength(opcode) ==
  IF opcode \in Single THEN 1
  ELSE IF opcode \in WithByte THEN 2
  ELSE IF opcode \in WithWord THEN 5 ELSE 0

\* The length of an instruction with opcode at offset p and a ModRM byte, of which
\* left bytes are there; 0 if these are too few.
ModRMLength(b, p, left, immediate) ==
  LET mod == b[p + 1] \div 64
      rm == b[p + 1] % 8
      sib == mod # 3 /\ rm = 4
      wide == mod = 2 \/ (mod = 0 /\ (rm = 5 \/ (sib /\ b[p + 2] % 8 = 5)))
      n == 2 + (IF sib THEN 1 ELSE 0)
             + (IF mod = 1 THEN 1 ELSE IF wide THEN 4 ELSE 0) + immediate
  IN  IF left < 2 \/ (sib /\ left < 3) \/ n > left THEN 0 ELSE n

OpcodeLength(b, p, left) ==
  IF b[p] \in WithModRM THEN ModRMLength(b, p, left, Immediate(b[p])) ELSE PlainLength(b[p])

OpcodeAt(b, s) == IF b[s] = SegmentPrefix THEN s + 1 ELSE s

\* Mutant: segment prefixes are not known.
PrefixUnknown(b, s, left) ==
  LET n == OpcodeLength(b, s, left) IN IF n > left THEN 0 ELSE n

\* The length of the instruction at offset s, of which left bytes are there; 0 if
\* it is none the copying knows or does not end in them.
InstructionLength(b, s, left) ==
  LET p == OpcodeAt(b, s)
      n == OpcodeLength(b, p, left - (p - s))
  IN  IF p - s >= left \/ n = 0 \/ n > left - (p - s) THEN 0 ELSE (p - s) + n
=============================================================================
