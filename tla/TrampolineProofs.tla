-------------------------- MODULE TrampolineProofs --------------------------
(***************************************************************************)
(* Theorems about Trampoline, for any hooks, bytes and addresses.          *)
(***************************************************************************)
EXTENDS Trampoline, TLAPS

\* A number is a byte or not; the interval itself is never looked at again.
LEMMA ByteFacts == \A x : x \in Byte <=> x \in Int /\ 0 <= x /\ x <= 255
  BY DEF Byte

\* A displacement that was written reads back, and nothing else has changed.
LEMMA DisplacementReads ==
  ASSUME NEW m \in Int, NEW b \in [0 .. m -> Byte], NEW i \in Nat, i + 3 <= m,
         NEW d \in Int, -2147483648 <= d, d <= 2147483647
  PROVE  /\ WithDisplacement(b, i, d) \in [0 .. m -> Byte]
         /\ Displacement(WithDisplacement(b, i, d), i) = d
         /\ \A k \in 0 .. m : k < i \/ k > i + 3 => WithDisplacement(b, i, d)[k] = b[k]
  <1> DEFINE c == WithDisplacement(b, i, d)
             low == d % 256
             second == (d \div 256) % 256
             third == (d \div 65536) % 256
             high == (d \div 16777216) % 256
  <1>1. low \in Byte /\ second \in Byte /\ third \in Byte /\ high \in Byte
    BY ByteFacts
  <1> HIDE DEF low, second, third, high
  <1>2. c = [b EXCEPT ![i] = low, ![i + 1] = second, ![i + 2] = third, ![i + 3] = high]
    BY DEF WithDisplacement, low, second, third, high
  <1>3. /\ c \in [0 .. m -> Byte] /\ \A k \in 0 .. m : k < i \/ k > i + 3 => c[k] = b[k]
        /\ c[i] = low /\ c[i + 1] = second /\ c[i + 2] = third /\ c[i + 3] = high
    <2> HIDE DEF c
    <2> QED
      BY <1>1, <1>2
  <1>4. d = low + 256 * second + 65536 * third + 16777216 * (d \div 16777216)
    BY DEF low, second, third
  <1>5. d \div 16777216 = IF high < 128 THEN high ELSE high - 256
    BY DEF high
  <1>6. Displacement(c, i) = d
    <2> HIDE DEF c
    <2> QED
      BY <1>3, <1>4, <1>5 DEF Displacement
  <1> QED
    BY <1>3, <1>6

\* An instruction with a ModRM byte has that byte, and its SIB byte if there is one.
LEMMA ModRMFacts ==
  ASSUME NEW b, NEW p \in Nat, NEW left \in Nat, NEW k \in Nat
  PROVE  /\ ModRMLength(b, p, left, k) \in 0 .. left
         /\ ModRMLength(b, p, left, k) > 0 =>
              /\ ModRMLength(b, p, left, k) >= 2
              /\ b[p + 1] \div 64 # 3 /\ b[p + 1] % 8 = 4 => ModRMLength(b, p, left, k) >= 3
  <1> DEFINE n == 2 + (IF b[p + 1] \div 64 # 3 /\ b[p + 1] % 8 = 4 THEN 1 ELSE 0)
                    + (IF b[p + 1] \div 64 = 1 THEN 1
                       ELSE IF b[p + 1] \div 64 = 2
                               \/ (b[p + 1] \div 64 = 0
                                   /\ (b[p + 1] % 8 = 5
                                       \/ ((b[p + 1] \div 64 # 3 /\ b[p + 1] % 8 = 4)
                                           /\ b[p + 2] % 8 = 5)))
                       THEN 4 ELSE 0) + k
  <1>1. ModRMLength(b, p, left, k) =
          IF left < 2 \/ ((b[p + 1] \div 64 # 3 /\ b[p + 1] % 8 = 4) /\ left < 3) \/ n > left
            THEN 0 ELSE n
    BY DEF ModRMLength
  <1>2. n \in Nat /\ n >= 2 /\ (b[p + 1] \div 64 # 3 /\ b[p + 1] % 8 = 4 => n >= 3)
    OBVIOUS
  <1> HIDE DEF n
  <1> QED
    BY <1>1, <1>2

\* A branch is five bytes from its opcode on.
LEMMA BranchOpcode == \A op \in Branches : op \notin WithModRM /\ PlainLength(op) = 5
  BY DEF PlainLength, Branches, Single, WithByte, WithWord, WithModRM, ImmediateByte, ImmediateWord

LEMMA OpcodeIsNat ==
  ASSUME NEW b, NEW p \in Nat, NEW left \in Nat
  PROVE  OpcodeLength(b, p, left) \in Nat
  <1> DEFINE k == Immediate(b[p])
  <1>1. k \in Nat
    BY DEF Immediate
  <1>2. PlainLength(b[p]) \in Nat
    BY DEF PlainLength
  <1>3. OpcodeLength(b, p, left) \in {ModRMLength(b, p, left, k), PlainLength(b[p])}
    BY DEF OpcodeLength
  <1> HIDE DEF k
  <1>4. ModRMLength(b, p, left, k) \in 0 .. left
    BY <1>1, ModRMFacts
  <1>5. ModRMLength(b, p, left, k) \in Nat
    BY <1>4
  <1> QED
    BY <1>2, <1>3, <1>5

\* The length read at an offset: no more than is there, and what determines it.
LEMMA LengthFacts ==
  ASSUME NEW b, NEW s \in Nat, NEW left \in Nat, left > 0
  PROVE  /\ InstructionLength(b, s, left) \in 0 .. left
         /\ OpcodeAt(b, s) \in {s, s + 1}
         /\ InstructionLength(b, s, left) > 0 =>
              /\ OpcodeAt(b, s) < s + InstructionLength(b, s, left)
              /\ b[OpcodeAt(b, s)] \in Branches =>
                   s + InstructionLength(b, s, left) = OpcodeAt(b, s) + 5
  <1> DEFINE p == OpcodeAt(b, s)
             n == OpcodeLength(b, p, left - (p - s))
  <1>1. p \in {s, s + 1}
    BY DEF OpcodeAt
  <1>2. CASE p - s >= left
    BY <1>1, <1>2 DEF InstructionLength
  <1>3. CASE p - s < left
    <2>1. p \in Nat /\ left - (p - s) \in Nat
      BY <1>1, <1>3
    <2>2. n \in Nat
      BY <2>1, OpcodeIsNat
    <2>3. b[p] \in Branches => n = 5
      BY BranchOpcode DEF OpcodeLength
    <2>4. InstructionLength(b, s, left) =
            IF p - s >= left \/ n = 0 \/ n > left - (p - s) THEN 0 ELSE (p - s) + n
      BY DEF InstructionLength
    <2> HIDE DEF n
    <2> HIDE DEF p
    <2> QED
      BY <1>1, <1>3, <2>2, <2>3, <2>4 DEF p
  <1> QED
    BY <1>1, <1>2, <1>3

\* The bytes of an instruction that determine its length are the same in b and c.
Agree(b, c, s, left) ==
  /\ \A i \in s .. OpcodeAt(b, s) : c[i] = b[i]
  /\ b[OpcodeAt(b, s)] \notin Branches =>
       \A i \in s .. s + InstructionLength(b, s, left) - 1 : c[i] = b[i]

LEMMA SameLength ==
  ASSUME NEW b, NEW c, NEW s \in Nat, NEW left \in Nat, left > 0,
         InstructionLength(b, s, left) > 0, Agree(b, c, s, left)
  PROVE  InstructionLength(c, s, left) = InstructionLength(b, s, left)
  <1> DEFINE p == OpcodeAt(b, s)
             r == left - (p - s)
  <1>7. /\ \A i \in s .. p : c[i] = b[i]
        /\ b[p] \notin Branches => \A i \in s .. s + InstructionLength(b, s, left) - 1 : c[i] = b[i]
    BY DEF Agree
  <1>1. p \in {s, s + 1} /\ p - s < left /\ c[s] = b[s] /\ c[p] = b[p]
    BY <1>7 DEF OpcodeAt, InstructionLength
  <1>2. OpcodeAt(c, s) = p
    BY <1>1 DEF OpcodeAt
  <1>0. InstructionLength(c, s, left) =
          IF p - s >= left \/ OpcodeLength(c, p, r) = 0 \/ OpcodeLength(c, p, r) > r
            THEN 0 ELSE (p - s) + OpcodeLength(c, p, r)
    BY <1>2 DEF InstructionLength
  <1>5. InstructionLength(b, s, left) =
          IF p - s >= left \/ OpcodeLength(b, p, r) = 0 \/ OpcodeLength(b, p, r) > r
            THEN 0 ELSE (p - s) + OpcodeLength(b, p, r)
    BY DEF InstructionLength
  <1>6. p \in Nat /\ r \in Nat /\ p + r = s + left
    BY <1>1
  <1> HIDE DEF p, r
  <1>3. InstructionLength(b, s, left) = p - s + OpcodeLength(b, p, r) /\ OpcodeLength(b, p, r) \in 1 .. r
    <2>1. OpcodeLength(b, p, r) \in Nat
      BY <1>6, OpcodeIsNat
    <2> QED
      BY <1>1, <1>5, <1>6, <2>1
  <1>4. OpcodeLength(c, p, r) = OpcodeLength(b, p, r)
    <2>1. CASE b[p] \notin WithModRM
      BY <1>1, <2>1 DEF OpcodeLength
    <2>2. CASE b[p] \in WithModRM
      <3> DEFINE k == Immediate(b[p])
      <3>1. b[p] \notin Branches /\ k \in Nat
        BY <2>2 DEF Branches, WithModRM, ImmediateByte, ImmediateWord, Immediate
      <3>2. OpcodeLength(b, p, r) = ModRMLength(b, p, r, k) /\ OpcodeLength(c, p, r) = ModRMLength(c, p, r, k)
        BY <1>1, <2>2 DEF OpcodeLength
      <3> HIDE DEF k
      <3>3. \A i \in p .. p + ModRMLength(b, p, r, k) - 1 : c[i] = b[i]
        <4>1. \A i \in s .. s + InstructionLength(b, s, left) - 1 : c[i] = b[i]
          BY <1>7, <3>1
        <4> QED
          BY <1>1, <1>3, <3>2, <4>1
      <3>4. /\ ModRMLength(b, p, r, k) \in 1 .. r /\ ModRMLength(b, p, r, k) >= 2
            /\ b[p + 1] \div 64 # 3 /\ b[p + 1] % 8 = 4 => ModRMLength(b, p, r, k) >= 3
        <4>1. ModRMLength(b, p, r, k) \in 1 .. r
          BY <1>3, <3>2
        <4>2. /\ ModRMLength(b, p, r, k) \in 0 .. r
              /\ ModRMLength(b, p, r, k) > 0 =>
                   /\ ModRMLength(b, p, r, k) >= 2
                   /\ b[p + 1] \div 64 # 3 /\ b[p + 1] % 8 = 4 => ModRMLength(b, p, r, k) >= 3
          BY <1>6, <3>1, ModRMFacts
        <4> QED
          BY <4>1, <4>2
      <3>5. c[p + 1] = b[p + 1]
        BY <1>6, <3>3, <3>4
      <3>6. CASE b[p + 1] \div 64 # 3 /\ b[p + 1] % 8 = 4
        <4>1. c[p + 2] = b[p + 2]
          BY <1>6, <3>3, <3>4, <3>6
        <4> QED
          BY <3>2, <3>5, <4>1 DEF ModRMLength
      <3>7. CASE ~(b[p + 1] \div 64 # 3 /\ b[p + 1] % 8 = 4)
        BY <3>2, <3>5, <3>7 DEF ModRMLength
      <3> QED
        BY <3>6, <3>7
    <2> QED
      BY <2>1, <2>2
  <1> QED
    BY <1>0, <1>4, <1>5
-----------------------------------------------------------------------------
LEMMA HookFacts ==
  ASSUME BytesTypeOK
  PROVE  /\ Span[hook] \in Nat /\ Size(hook) \in Nat /\ Span[hook] <= Size(hook)
         /\ Target[hook] \in Int /\ Replacement[hook] \in Int
         /\ Prologue[hook] \in Seq(Byte) /\ Len(Prologue[hook]) \in Nat
  <1>1. hook \in Descriptors
    BY DEF BytesTypeOK
  <1>2. Prologue[hook] \in Seq(Byte) /\ Span[hook] \in Nat
    BY <1>1, TrampolineAssumption
  <1>3. Len(Prologue[hook]) \in Nat
    BY <1>2
  <1> QED
    BY <1>1, <1>2, <1>3, TrampolineAssumption DEF Size

\* What is done above an instruction leaves it as it is.
LEMMA StaysSame ==
  ASSUME BytesTypeOK, UNCHANGED <<hook, image, place>>, NEW e \in Nat, NEW s \in 0 .. Span[hook] - 1,
         copy \in [0 .. Span[hook] + 4 -> Byte], copy' \in [0 .. Span[hook] + 4 -> Byte],
         \A i \in 0 .. Span[hook] + 4 : i < e => copy'[i] = copy[i],
         SameInstruction(s), s + LengthAt(s) <= e
  PROVE  SameInstruction(s)'
  <1> DEFINE size == Span[hook]
             left == size - s
             n == LengthAt(s)
             p == OpcodeAt(image, s)
             q == OpcodeAt(copy, s)
  <1>1. size \in Nat /\ Size(hook) \in Nat /\ size <= Size(hook)
        /\ image \in [0 .. Size(hook) - 1 -> Byte]
    BY HookFacts DEF BytesTypeOK
  <1>2. /\ s \in Nat /\ left \in Nat /\ left > 0 /\ s + left = size
    <2>1. s \in 0 .. size - 1
      OBVIOUS
    <2> HIDE DEF size
    <2> QED
      BY <1>1, <2>1
  <1>3. /\ n \in 0 .. left /\ p \in {s, s + 1}
        /\ n > 0 => p < s + n /\ (image[p] \in Branches => s + n = p + 5)
    BY <1>1, <1>2, LengthFacts DEF LengthAt
  <1>4. n > 0 /\ InstructionLength(copy, s, left) = n /\ s + n <= e
    BY DEF SameInstruction
  <1>5. LengthAt(s)' = n /\ (Span[hook]' - s) = left /\ OpcodeAt(image, s)' = p
    BY DEF LengthAt
  <1>6. q < s + n /\ q \in {s, s + 1}
    BY <1>2, <1>4, LengthFacts
  <1>7. image[p] \in Branches =>
          /\ \A i \in s .. p : copy[i] = image[i]
          /\ BranchTarget(copy, place, p) = BranchTarget(image, Target[hook], p)
    BY DEF SameInstruction
  <1>8. image[p] \notin Branches => \A i \in s .. s + n - 1 : copy[i] = image[i]
    BY DEF SameInstruction
  <1>9. SUFFICES /\ InstructionLength(copy', s, left) = n
                 /\ image[p] \in Branches =>
                      /\ \A i \in s .. p : copy'[i] = image[i]
                      /\ BranchTarget(copy', place, p) = BranchTarget(copy, place, p)
                 /\ image[p] \notin Branches => \A i \in s .. s + n - 1 : copy'[i] = image[i]
    BY <1>4, <1>5, <1>7 DEF SameInstruction
  <1> HIDE DEF size, left, n, p, q
  <1>10. \A i \in s .. s + n - 1 : copy'[i] = copy[i]
    <2> SUFFICES ASSUME NEW i \in s .. s + n - 1 PROVE copy'[i] = copy[i]
      OBVIOUS
    <2>1. i \in 0 .. size + 4 /\ i < e
      BY <1>1, <1>2, <1>3, <1>4
    <2> QED
      BY <2>1 DEF size
  <1>11. InstructionLength(copy', s, left) = n
    <2>1. \A i \in s .. q : copy'[i] = copy[i]
      <3> SUFFICES ASSUME NEW i \in s .. q PROVE i \in s .. s + n - 1
        BY <1>10
      <3> QED
        BY <1>2, <1>3, <1>6
    <2>2. Agree(copy, copy', s, left)
      BY <1>4, <1>10, <2>1 DEF Agree, q
    <2>3. InstructionLength(copy', s, left) = InstructionLength(copy, s, left)
      BY <1>2, <1>3, <1>4, <2>2, SameLength
    <2> QED
      BY <1>4, <2>3
  <1>12. ASSUME image[p] \in Branches
         PROVE  /\ \A i \in s .. p : copy'[i] = image[i]
                /\ BranchTarget(copy', place, p) = BranchTarget(copy, place, p)
    <2>1. s + n = p + 5
      BY <1>3, <1>4, <1>12
    <2>2. \A i \in s .. p : copy'[i] = image[i]
      <3> SUFFICES ASSUME NEW i \in s .. p PROVE i \in s .. s + n - 1
        BY <1>7, <1>10, <1>12
      <3> QED
        BY <1>2, <1>3, <1>4
    <2>3. /\ copy'[p + 1] = copy[p + 1]
          /\ copy'[p + 1 + 1] = copy[p + 1 + 1]
          /\ copy'[p + 1 + 2] = copy[p + 1 + 2]
          /\ copy'[p + 1 + 3] = copy[p + 1 + 3]
      <3>1. /\ p + 1 \in s .. s + n - 1 /\ p + 1 + 1 \in s .. s + n - 1
            /\ p + 1 + 2 \in s .. s + n - 1 /\ p + 1 + 3 \in s .. s + n - 1
        BY <1>2, <1>3, <2>1
      <3> QED
        BY <1>10, <3>1
    <2>4. Displacement(copy', p + 1) = Displacement(copy, p + 1)
      BY <2>3 DEF Displacement
    <2>5. BranchTarget(copy', place, p) = BranchTarget(copy, place, p)
      BY <2>4 DEF BranchTarget
    <2> QED
      BY <2>2, <2>5
  <1> QED
    BY <1>8, <1>10, <1>11, <1>12

Frame == UNCHANGED <<hook, image>>

\* A failure leaves the function alone.
LEMMA FailsKeeps ==
  ASSUME TrampolineInv, Frame, step \in {"verify", "allocate", "copy", "patch"},
         NEW why \in {"mismatch", "noMemory", "undecoded", "outOfReach", "unprotected"}, Fails(why)
  PROVE  TrampolineInv'
  <1>1. BytesTypeOK'
    BY DEF Frame, Fails, TrampolineInv, BytesTypeOK, Steps, Size
  <1>2. BytesInv' /\ CopyInv' /\ JumpInv'
    BY DEF Frame, Fails, TrampolineInv, BytesInv, CopyInv, JumpInv
  <1> QED
    BY <1>1, <1>2 DEF TrampolineInv

LEMMA VerifyKeeps == ASSUME TrampolineInv, Frame, VerifyPrologue PROVE TrampolineInv'
  <1>1. CASE Fails("mismatch")
    BY <1>1, FailsKeeps DEF VerifyPrologue
  <1>2. CASE /\ step' = "allocate" /\ saved' = [i \in 0 .. Span[hook] - 1 |-> code[i]]
             /\ UNCHANGED <<code, place, copy, offset, starts>>
    <2>1. step = "verify" /\ code = image /\ offset = 0 /\ starts = {}
      BY DEF VerifyPrologue, TrampolineInv, BytesInv, CopyInv
    <2>2. saved' \in [0 .. Span[hook] - 1 -> Byte]
      BY <1>2, HookFacts DEF TrampolineInv, BytesTypeOK
    <2>3. BytesTypeOK'
      BY <1>2, <2>2 DEF Frame, TrampolineInv, BytesTypeOK, Steps, Size
    <2>4. BytesInv' /\ CopyInv' /\ JumpInv'
      BY <1>2, <2>1 DEF Frame, BytesInv, CopyInv, JumpInv
    <2> QED
      BY <2>3, <2>4 DEF TrampolineInv
  <1> QED
    BY <1>1, <1>2 DEF VerifyPrologue

LEMMA AllocateKeeps == ASSUME TrampolineInv, Frame, AllocateTrampoline PROVE TrampolineInv'
  <1>1. CASE Fails("noMemory")
    BY <1>1, FailsKeeps DEF AllocateTrampoline
  <1>2. CASE /\ place' \in Places /\ step' = "copy"
             /\ copy' = [i \in 0 .. Span[hook] + 4 |-> IF i < Span[hook] THEN code[i] ELSE 0]
             /\ UNCHANGED <<code, saved, offset, starts>>
    <2>1. step = "allocate" /\ code = image /\ offset = 0 /\ starts = {}
      BY DEF AllocateTrampoline, TrampolineInv, BytesInv, CopyInv
    <2>2. copy' \in [0 .. Span[hook] + 4 -> Byte]
      <3>1. 0 \in Byte
        BY ByteFacts
      <3> DEFINE size == Span[hook]
                 all == Size(hook)
      <3>2. /\ size \in Nat /\ all \in Nat /\ size <= all /\ code \in [0 .. all - 1 -> Byte]
            /\ copy' = [i \in 0 .. size + 4 |-> IF i < size THEN code[i] ELSE 0]
        BY <1>2, HookFacts DEF TrampolineInv, BytesTypeOK
      <3> HIDE DEF size, all
      <3>3. \A i \in 0 .. size + 4 : (IF i < size THEN code[i] ELSE 0) \in Byte
        BY <3>1, <3>2
      <3>4. copy' \in [0 .. size + 4 -> Byte]
        BY <3>2, <3>3
      <3> QED
        BY <3>4 DEF size
    <2>3. BytesTypeOK'
      BY <1>2, <2>2, TrampolineAssumption DEF Frame, TrampolineInv, BytesTypeOK, Steps, Size
    <2>4. BytesInv' /\ JumpInv'
      BY <1>2, <2>1 DEF Frame, TrampolineInv, BytesInv, JumpInv
    <2>5. \A i \in 0 .. Span[hook] - 1 : copy'[i] = image[i]
      BY <1>2, <2>1, HookFacts DEF TrampolineInv
    <2>6. CopyInv'
      BY <1>2, <2>1, <2>2, <2>5 DEF Frame, CopyInv
    <2> QED
      BY <2>3, <2>4, <2>6 DEF TrampolineInv
  <1> QED
    BY <1>1, <1>2 DEF AllocateTrampoline

LEMMA DisplacementIsInt ==
  ASSUME NEW b, NEW i \in Nat, \A k \in i .. i + 3 : b[k] \in Byte
  PROVE  Displacement(b, i) \in Int
  <1>1. b[i] \in Int /\ b[i + 1] \in Int /\ b[i + 2] \in Int /\ b[i + 3] \in Int
    BY ByteFacts
  <1> QED
    BY <1>1 DEF Displacement

LEMMA DisplacementBounds ==
  \A d \in Displacements : d \in Int /\ -2147483648 <= d /\ d <= 2147483647
  BY TrampolineAssumption DEF Displacements

\* What one turn of the loop finds at its offset.
LEMMA CopyFacts ==
  ASSUME TrampolineInv, step = "copy", offset < Span[hook], LengthAt(offset) # 0
  PROVE  LET p == OpcodeAt(image, offset)
             n == LengthAt(offset)
         IN  /\ code = image /\ offset \in Nat /\ n \in Nat /\ n > 0 /\ p \in Nat
             /\ offset <= p /\ p < offset + n /\ offset + n <= Span[hook]
             /\ image[p] \in Branches => offset + n = p + 5
             /\ copy \in [0 .. Span[hook] + 4 -> Byte]
             /\ \A i \in offset .. Span[hook] - 1 : copy[i] = image[i]
             /\ image[p] \in Branches => BranchTarget(image, Target[hook], p) \in Int
  <1> DEFINE p == OpcodeAt(image, offset)
             n == LengthAt(offset)
             size == Span[hook]
  <1>1. /\ size \in Nat /\ Size(hook) \in Nat /\ size <= Size(hook)
        /\ image \in [0 .. Size(hook) - 1 -> Byte] /\ Target[hook] \in Int
    BY HookFacts DEF TrampolineInv, BytesTypeOK
  <1>2. offset \in Nat /\ size - offset \in Nat /\ size - offset > 0
    BY <1>1 DEF TrampolineInv, BytesTypeOK
  <1>3. /\ code = image /\ copy \in [0 .. size + 4 -> Byte]
        /\ \A i \in offset .. size - 1 : copy[i] = image[i]
    BY DEF TrampolineInv, BytesInv, CopyInv
  <1>4. /\ n \in 0 .. size - offset /\ p \in {offset, offset + 1}
        /\ n > 0 => p < offset + n /\ (image[p] \in Branches => offset + n = p + 5)
    BY <1>2, LengthFacts DEF LengthAt
  <1>5. n # 0
    OBVIOUS
  <1> HIDE DEF p, n, size
  <1>6. /\ n \in Nat /\ n > 0 /\ p \in Nat /\ offset <= p /\ p < offset + n
        /\ offset + n <= size /\ (image[p] \in Branches => offset + n = p + 5)
    BY <1>1, <1>2, <1>4, <1>5
  <1>7. image[p] \in Branches => BranchTarget(image, Target[hook], p) \in Int
    <2> SUFFICES ASSUME image[p] \in Branches PROVE BranchTarget(image, Target[hook], p) \in Int
      OBVIOUS
    <2>1. \A k \in p + 1 .. p + 1 + 3 : image[k] \in Byte
      <3> SUFFICES ASSUME NEW k \in p + 1 .. p + 1 + 3 PROVE k \in 0 .. Size(hook) - 1
        BY <1>1
      <3> QED
        BY <1>1, <1>2, <1>6
    <2>2. Displacement(image, p + 1) \in Int
      BY <1>6, <2>1, DisplacementIsInt
    <2> QED
      BY <1>1, <1>6, <2>2 DEF BranchTarget
  <1> QED
    BY <1>2, <1>3, <1>6, <1>7 DEF p, n, size

\* A branch that was adjusted leads where it led, and its bytes are otherwise the same.
LEMMA BranchCopied ==
  ASSUME TrampolineInv, step = "copy", offset < Span[hook], LengthAt(offset) # 0,
         NEW p, p = OpcodeAt(image, offset), image[p] \in Branches,
         NEW d \in Displacements, d = BranchTarget(image, Target[hook], p) - (place + p + 5),
         NEW c, c = WithDisplacement(copy, p + 1, d)
  PROVE  /\ c \in [0 .. Span[hook] + 4 -> Byte]
         /\ \A i \in 0 .. Span[hook] + 4 :
              i <= p \/ i >= offset + LengthAt(offset) => c[i] = copy[i]
         /\ BranchTarget(c, place, p) = BranchTarget(image, Target[hook], p)
  <1> DEFINE n == LengthAt(offset)
             size == Span[hook]
             m == size + 4
  <1>1. /\ size \in Nat /\ p \in Nat /\ offset \in Nat /\ n \in Nat
        /\ offset + n = p + 5 /\ offset + n <= size
        /\ copy \in [0 .. size + 4 -> Byte]
        /\ BranchTarget(image, Target[hook], p) \in Int
    BY CopyFacts, HookFacts DEF TrampolineInv
  <1>2. place \in Int
    BY DEF TrampolineInv, BytesTypeOK
  <1>3. d \in Int /\ -2147483648 <= d /\ d <= 2147483647
    BY DisplacementBounds
  <1> HIDE DEF n, size
  <1>4. /\ m \in Int /\ p + 1 \in Nat /\ p + 1 + 3 <= m
        /\ copy \in [0 .. m -> Byte]
    BY <1>1
  <1> HIDE DEF m
  <1>5. /\ c \in [0 .. m -> Byte] /\ Displacement(c, p + 1) = d
        /\ \A k \in 0 .. m : k < p + 1 \/ k > p + 1 + 3 => c[k] = copy[k]
    BY <1>3, <1>4, DisplacementReads
  <1>6. ASSUME NEW i \in 0 .. m, i <= p \/ i >= offset + n PROVE c[i] = copy[i]
    <2>1. i < p + 1 \/ i > p + 1 + 3
      BY <1>1, <1>4, <1>6
    <2> QED
      BY <1>5, <2>1
  <1>7. BranchTarget(c, place, p) = BranchTarget(image, Target[hook], p)
    <2>1. BranchTarget(c, place, p) = place + p + 5 + d
      BY <1>5 DEF BranchTarget
    <2> QED
      BY <1>1, <1>2, <1>3, <2>1
  <1> QED
    BY <1>5, <1>6, <1>7 DEF n, size, m

\* The loop's turn that copies an instruction.
CopiesOne ==
  LET n == LengthAt(offset)
      p == OpcodeAt(image, offset)
      d == BranchTarget(image, Target[hook], p) - (place + p + 5)
  IN  /\ image[p] \in Branches => d \in Displacements
      /\ copy' = IF image[p] \in Branches
                         THEN WithDisplacement(copy, p + 1, d) ELSE copy
      /\ offset' = offset + n /\ starts' = starts \union {offset}
      /\ UNCHANGED <<step, code, saved, place>>

\* Its bytes: an instruction like the one at offset, and everything else as before.
LEMMA CopiedBytes ==
  ASSUME TrampolineInv, Frame, step = "copy", offset < Span[hook], LengthAt(offset) # 0, CopiesOne
  PROVE  /\ copy' \in [0 .. Span[hook] + 4 -> Byte]
         /\ \A i \in 0 .. Span[hook] + 4 :
              i < offset \/ i >= offset + LengthAt(offset) => copy'[i] = copy[i]
         /\ InstructionLength(copy', offset, Span[hook] - offset) = LengthAt(offset)
         /\ IF image[OpcodeAt(image, offset)] \in Branches
              THEN /\ \A i \in offset .. OpcodeAt(image, offset) : copy'[i] = image[i]
                   /\ BranchTarget(copy', place, OpcodeAt(image, offset))
                        = BranchTarget(image, Target[hook], OpcodeAt(image, offset))
              ELSE \A i \in offset .. offset + LengthAt(offset) - 1 : copy'[i] = image[i]
  <1> DEFINE n == LengthAt(offset)
             p == OpcodeAt(image, offset)
             size == Span[hook]
             left == size - offset
             d == BranchTarget(image, Target[hook], p) - (place + p + 5)
             c == copy'
  <1>1. /\ size \in Nat /\ offset \in Nat /\ n \in Nat /\ n > 0 /\ p \in Nat
        /\ offset <= p /\ p < offset + n /\ offset + n <= size
        /\ image[p] \in Branches => offset + n = p + 5
        /\ copy \in [0 .. size + 4 -> Byte]
        /\ \A i \in offset .. size - 1 : copy[i] = image[i]
    BY CopyFacts, HookFacts DEF TrampolineInv
  <1>2. left \in Nat /\ left > 0
    BY <1>1
  <1>3. /\ image[p] \in Branches => d \in Displacements
        /\ c = IF image[p] \in Branches THEN WithDisplacement(copy, p + 1, d) ELSE copy
    BY DEF CopiesOne
  <1>4. /\ c \in [0 .. size + 4 -> Byte]
        /\ \A i \in 0 .. size + 4 : i <= p \/ i >= offset + n => c[i] = copy[i]
        /\ image[p] \in Branches => BranchTarget(c, place, p) = BranchTarget(image, Target[hook], p)
        /\ image[p] \notin Branches => c = copy
    <2>1. CASE image[p] \in Branches
      <3>1. d \in Displacements /\ c = WithDisplacement(copy, p + 1, d)
        BY <1>3, <2>1
      <3> HIDE DEF c
      <3> QED
        BY <2>1, <3>1, BranchCopied
    <2>2. CASE image[p] \notin Branches
      BY <1>1, <1>3, <2>2
    <2> QED
      BY <2>1, <2>2
  <1> HIDE DEF n, p, size, left, d, c
  <1>5. \A i \in 0 .. size + 4 : i < offset \/ i >= offset + n => c[i] = copy[i]
    BY <1>1, <1>4
  <1>6. \A i \in offset .. p : c[i] = image[i]
    <2> SUFFICES ASSUME NEW i \in offset .. p PROVE c[i] = image[i]
      OBVIOUS
    <2>1. i \in 0 .. size + 4 /\ i <= p /\ i \in offset .. size - 1
      BY <1>1
    <2> QED
      BY <1>1, <1>4, <2>1
  <1>7. image[p] \notin Branches => \A i \in offset .. offset + n - 1 : c[i] = image[i]
    <2> SUFFICES ASSUME image[p] \notin Branches, NEW i \in offset .. offset + n - 1
                 PROVE  c[i] = image[i]
      OBVIOUS
    <2>1. i \in offset .. size - 1
      BY <1>1
    <2> QED
      BY <1>1, <1>4, <2>1
  <1>8. InstructionLength(c, offset, left) = n
    <2>1. InstructionLength(image, offset, left) = n
      BY DEF LengthAt, n, left, size
    <2>2. Agree(image, c, offset, left)
      BY <1>6, <1>7, <2>1 DEF Agree, p
    <2> QED
      BY <1>1, <1>2, <2>1, <2>2, SameLength
  <1> QED
    BY <1>4, <1>5, <1>6, <1>7, <1>8 DEF n, p, size, left, c

LEMMA CopiesOneKeeps ==
  ASSUME TrampolineInv, Frame, step = "copy", offset < Span[hook], LengthAt(offset) # 0, CopiesOne
  PROVE  TrampolineInv'
  <1> DEFINE n == LengthAt(offset)
             size == Span[hook]
  <1>1. /\ offset' = offset + n /\ starts' = starts \union {offset}
        /\ UNCHANGED <<step, code, saved, place, hook, image>>
    BY DEF CopiesOne, Frame
  <1>2. size \in Nat /\ offset \in Nat /\ n \in Nat /\ n > 0 /\ offset + n <= size
    BY CopyFacts, HookFacts DEF TrampolineInv
  <1>3. /\ copy' \in [0 .. size + 4 -> Byte]
        /\ \A i \in 0 .. size + 4 : i < offset \/ i >= offset + n => copy'[i] = copy[i]
    BY CopiedBytes
  <1>4. \A s : LengthAt(s)' = LengthAt(s) /\ OpcodeAt(image, s)' = OpcodeAt(image, s)
    BY <1>1 DEF LengthAt
  <1>5. /\ offset > 0 => 0 \in starts
        /\ \A s \in starts :
             SameInstruction(s) /\ s + LengthAt(s) <= offset
             /\ s + LengthAt(s) \in starts \union {offset}
        /\ \A i \in offset .. size - 1 : copy[i] = image[i]
        /\ copy \in [0 .. size + 4 -> Byte]
        /\ starts \subseteq 0 .. size - 1
    BY DEF TrampolineInv, BytesTypeOK, CopyInv
  <1>6. ASSUME NEW s \in 0 .. size - 1, s = offset
        PROVE  SameInstruction(s)'
    <2>1. /\ InstructionLength(copy', s, size - s) = LengthAt(s)
          /\ IF image[OpcodeAt(image, s)] \in Branches
               THEN /\ \A i \in s .. OpcodeAt(image, s) : copy'[i] = image[i]
                    /\ BranchTarget(copy', place, OpcodeAt(image, s))
                         = BranchTarget(image, Target[hook], OpcodeAt(image, s))
               ELSE \A i \in s .. s + LengthAt(s) - 1 : copy'[i] = image[i]
      BY <1>6, CopiedBytes
    <2>2. LengthAt(s) > 0
      BY <1>2, <1>6
    <2> QED
      BY <1>1, <1>4, <2>1, <2>2 DEF SameInstruction
  <1>7. ASSUME NEW s \in starts PROVE SameInstruction(s)'
    <2>1. \A i \in 0 .. size + 4 : i < offset => copy'[i] = copy[i]
      BY <1>3
    <2>2. s \in 0 .. size - 1 /\ SameInstruction(s) /\ s + LengthAt(s) <= offset
      BY <1>5
    <2>3. BytesTypeOK /\ UNCHANGED <<hook, image, place>>
      BY <1>1 DEF TrampolineInv
    <2> QED
      BY <1>2, <1>3, <1>5, <2>1, <2>2, <2>3, StaysSame
  <1> HIDE DEF n
  <1>8. \A s \in starts' :
          /\ SameInstruction(s)' /\ s + LengthAt(s)' <= offset'
          /\ s + LengthAt(s)' \in starts' \union {offset'}
    <2> SUFFICES ASSUME NEW s \in starts'
                 PROVE  /\ SameInstruction(s)' /\ s + LengthAt(s)' <= offset'
                        /\ s + LengthAt(s)' \in starts' \union {offset'}
      OBVIOUS
    <2>1. CASE s \in starts
      <3>1. SameInstruction(s)' /\ s + LengthAt(s) <= offset /\ s + LengthAt(s) \in starts \union {offset}
        BY <1>5, <1>7, <2>1
      <3>2. s + LengthAt(s) \in Int
        <4>1. starts \union {offset} \subseteq Int
          BY <1>2, <1>5
        <4> QED
          BY <3>1, <4>1
      <3> QED
        BY <1>1, <1>2, <1>4, <3>1, <3>2
    <2>2. CASE s = offset
      <3>1. s \in 0 .. size - 1
        BY <1>2, <2>2
      <3>2. SameInstruction(s)'
        BY <1>6, <2>2, <3>1
      <3>3. LengthAt(s)' = n
        BY <1>4, <2>2 DEF n
      <3> QED
        BY <1>1, <1>2, <2>2, <3>2, <3>3
    <2> QED
      BY <1>1, <2>1, <2>2
  <1>9. \A i \in offset' .. size - 1 : copy'[i] = image[i]
    <2> SUFFICES ASSUME NEW i \in offset' .. size - 1 PROVE copy'[i] = image[i]
      OBVIOUS
    <2>1. i \in offset .. size - 1 /\ i \in 0 .. size + 4 /\ i >= offset + n
      BY <1>1, <1>2
    <2> QED
      BY <1>3, <1>5, <2>1 DEF n
  <1>10. offset' > 0 => 0 \in starts'
    BY <1>1, <1>2, <1>5
  <1>11. BytesTypeOK'
    <2>1. offset' \in 0 .. size /\ starts' \subseteq 0 .. size - 1
      BY <1>1, <1>2, <1>5
    <2> QED
      BY <1>1, <1>3, <2>1 DEF TrampolineInv, BytesTypeOK, Size
  <1>12. BytesInv' /\ JumpInv'
    BY <1>1 DEF TrampolineInv, BytesInv, JumpInv
  <1>13. CopyInv'
    BY <1>1, <1>3, <1>8, <1>9, <1>10 DEF CopyInv
  <1> QED
    BY <1>11, <1>12, <1>13 DEF TrampolineInv

LEMMA CopyKeeps == ASSUME TrampolineInv, Frame, CopyInstruction PROVE TrampolineInv'
  <1>1. step = "copy" /\ offset < Span[hook] /\ code = image
    BY DEF CopyInstruction, TrampolineInv, BytesInv
  <1>2. \/ LengthAt(offset) = 0 /\ Fails("undecoded")
        \/ Fails("outOfReach")
        \/ LengthAt(offset) # 0 /\ CopiesOne
    BY <1>1 DEF CopyInstruction, CopiesOne, LengthAt
  <1>3. CASE Fails("undecoded") \/ Fails("outOfReach")
    BY <1>1, <1>3, FailsKeeps
  <1>4. CASE LengthAt(offset) # 0 /\ CopiesOne
    BY <1>1, <1>4, CopiesOneKeeps
  <1> QED
    BY <1>2, <1>3, <1>4
-----------------------------------------------------------------------------
\* A jump that fits leads where it shall, and changes its five bytes only.
LEMMA JumpWritten ==
  ASSUME NEW m \in Int, NEW b \in [0 .. m -> Byte], NEW i \in Nat, i + 4 <= m,
         NEW a \in Int, NEW to \in Int, JumpFits(a, i, to)
  PROVE  /\ WithJump(b, a, i, to) \in [0 .. m -> Byte]
         /\ JumpsTo(WithJump(b, a, i, to), a, i, to)
         /\ \A k \in 0 .. m : k < i \/ k > i + 4 => WithJump(b, a, i, to)[k] = b[k]
  <1> DEFINE d == to - (a + i + 5)
             c == [b EXCEPT ![i] = Jump]
             r == WithJump(b, a, i, to)
  <1>1. d \in Int /\ -2147483648 <= d /\ d <= 2147483647
    BY DisplacementBounds DEF JumpFits
  <1>2. Jump \in Byte
    BY ByteFacts DEF Jump
  <1>3. c \in [0 .. m -> Byte] /\ c[i] = Jump /\ \A k \in 0 .. m : k # i => c[k] = b[k]
    BY <1>2
  <1>4. r = WithDisplacement(c, i + 1, d)
    BY DEF WithJump
  <1>5. d = to - (a + i + 5)
    OBVIOUS
  <1> HIDE DEF d, c, r
  <1>6. i + 1 \in Nat /\ i + 1 + 3 <= m
    OBVIOUS
  <1>7. /\ r \in [0 .. m -> Byte] /\ Displacement(r, i + 1) = d
        /\ \A k \in 0 .. m : k < i + 1 \/ k > i + 1 + 3 => r[k] = c[k]
    BY <1>1, <1>3, <1>4, <1>6, DisplacementReads
  <1>8. r[i] = Jump
    <2>1. i \in 0 .. m /\ i < i + 1
      OBVIOUS
    <2> QED
      BY <1>3, <1>7, <2>1
  <1>9. BranchTarget(r, a, i) = to
    BY <1>1, <1>5, <1>7 DEF BranchTarget
  <1>10. ASSUME NEW k \in 0 .. m, k < i \/ k > i + 4 PROVE r[k] = b[k]
    <2>1. (k < i + 1 \/ k > i + 1 + 3) /\ k # i
      BY <1>10
    <2> QED
      BY <1>3, <1>7, <2>1
  <1> QED
    BY <1>7, <1>8, <1>9, <1>10 DEF JumpsTo, r

LEMMA JumpBackKeeps == ASSUME TrampolineInv, Frame, WriteJumpBack PROVE TrampolineInv'
  <1> DEFINE size == Span[hook]
             back == Target[hook] + size
  <1>1. CASE Fails("outOfReach") \/ Fails("unprotected")
    BY <1>1, FailsKeeps DEF WriteJumpBack
  <1>2. CASE /\ JumpFits(place, size, back) /\ step' = "patch"
             /\ copy' = WithJump(copy, place, size, back)
             /\ UNCHANGED <<code, saved, place, offset, starts>>
    <2>1. /\ step = "copy" /\ offset >= size /\ size \in Nat /\ back \in Int
          /\ place \in Int /\ offset \in 0 .. size
      BY HookFacts DEF WriteJumpBack, TrampolineInv, BytesTypeOK
    <2>2. offset = size
      BY <2>1
    <2>3. /\ copy \in [0 .. size + 4 -> Byte]
          /\ offset > 0 => 0 \in starts
          /\ \A s \in starts :
               SameInstruction(s) /\ s + LengthAt(s) <= offset
               /\ s + LengthAt(s) \in starts \union {offset}
          /\ starts \subseteq 0 .. size - 1 /\ code = image
      BY <2>1 DEF TrampolineInv, BytesTypeOK, BytesInv, CopyInv
    <2>4. /\ copy' \in [0 .. size + 4 -> Byte]
          /\ JumpsTo(copy', place, size, back)
          /\ \A k \in 0 .. size + 4 : k < size => copy'[k] = copy[k]
      <3> HIDE DEF size, back
      <3>1. size + 4 \in Int
        BY <2>1
      <3> QED
        BY <1>2, <2>1, <2>3, <3>1, JumpWritten
    <2>5. ASSUME NEW s \in starts PROVE SameInstruction(s)'
      <3>1. s \in 0 .. size - 1 /\ SameInstruction(s) /\ s + LengthAt(s) <= size
        BY <2>2, <2>3
      <3>2. BytesTypeOK /\ UNCHANGED <<hook, image, place>>
        BY <1>2 DEF TrampolineInv, Frame
      <3> QED
        BY <2>1, <2>3, <2>4, <3>1, <3>2, StaysSame
    <2>6. \A s : LengthAt(s)' = LengthAt(s)
      BY DEF LengthAt, Frame
    <2>7. CopyInv'
      BY <1>2, <2>2, <2>3, <2>4, <2>5, <2>6 DEF CopyInv, Frame
    <2>8. BytesTypeOK'
      BY <1>2, <2>4 DEF Frame, TrampolineInv, BytesTypeOK, Steps, Size
    <2>9. BytesInv'
      BY <1>2, <2>1, <2>3 DEF Frame, TrampolineInv, BytesInv
    <2>10. JumpInv'
      BY <1>2, <2>4 DEF Frame, JumpInv
    <2> QED
      BY <2>7, <2>8, <2>9, <2>10 DEF TrampolineInv
  <1> QED
    BY <1>1, <1>2 DEF WriteJumpBack

\* What says nothing of the function's bytes: the trampoline stays as it is.
LEMMA CopyStays ==
  ASSUME CopyInv, Frame, UNCHANGED <<place, copy, offset, starts>>,
         step = "patch", step' = "installed"
  PROVE  CopyInv'
  BY DEF CopyInv, SameInstruction, LengthAt, Frame

LEMMA PatchKeeps == ASSUME TrampolineInv, Frame, WritePatch PROVE TrampolineInv'
  <1> DEFINE size == Span[hook]
             all == Size(hook)
             b == [i \in 0 .. all - 1 |-> IF i \in 5 .. size - 1 THEN Nop ELSE code[i]]
  <1>1. CASE Fails("outOfReach") \/ Fails("unprotected")
    BY <1>1, FailsKeeps DEF WritePatch
  <1>2. CASE /\ size >= 5 /\ JumpFits(Target[hook], 0, Replacement[hook])
             /\ step' = "installed"
             /\ code' = WithJump(b, Target[hook], 0, Replacement[hook])
             /\ UNCHANGED <<saved, place, copy, offset, starts>>
    <2>1. /\ step = "patch" /\ size \in Nat /\ all \in Nat /\ size <= all
          /\ Target[hook] \in Int /\ Replacement[hook] \in Int
          /\ code \in [0 .. all - 1 -> Byte]
      BY HookFacts DEF WritePatch, TrampolineInv, BytesTypeOK
    <2>2. code = image /\ CopyInv
      BY <2>1 DEF TrampolineInv, BytesInv
    <2>3. Nop \in Byte
      BY ByteFacts DEF Nop
    <2> HIDE DEF size, all
    <2>4. b \in [0 .. all - 1 -> Byte] /\ \A i \in size .. all - 1 : b[i] = code[i]
      BY <2>1, <2>3
    <2> HIDE DEF b
    <2>5. /\ code' \in [0 .. all - 1 -> Byte]
          /\ JumpsTo(code', Target[hook], 0, Replacement[hook])
          /\ \A k \in 0 .. all - 1 : k > 4 => code'[k] = b[k]
      <3>1. all - 1 \in Int /\ 0 \in Nat /\ 0 + 4 <= all - 1
        BY <1>2, <2>1
      <3> DEFINE m == all - 1
                 from == Target[hook]
                 to == Replacement[hook]
      <3>2. /\ b \in [0 .. m -> Byte] /\ m \in Int /\ 0 \in Nat /\ 0 + 4 <= m
            /\ from \in Int /\ to \in Int /\ JumpFits(from, 0, to)
        BY <1>2, <2>1, <2>4, <3>1
      <3>3. code' = WithJump(b, from, 0, to)
        BY <1>2
      <3> HIDE DEF m, from, to
      <3>4. /\ WithJump(b, from, 0, to) \in [0 .. m -> Byte]
            /\ JumpsTo(WithJump(b, from, 0, to), from, 0, to)
            /\ \A k \in 0 .. m : k < 0 \/ k > 0 + 4 => WithJump(b, from, 0, to)[k] = b[k]
        BY <3>2, JumpWritten
      <3> QED
        BY <3>3, <3>4 DEF m, from, to
    <2>6. \A i \in size .. all - 1 : code'[i] = image[i]
      BY <1>2, <2>1, <2>2, <2>4, <2>5
    <2>7. BytesTypeOK'
      BY <1>2, <2>5 DEF Frame, TrampolineInv, BytesTypeOK, Steps, Size, all
    <2>8. CopyInv'
      BY <1>2, <2>1, <2>2, CopyStays DEF Frame
    <2>9. BytesInv'
      BY <1>2, <2>1, <2>6 DEF Frame, TrampolineInv, BytesInv, size, all, Size
    <2>10. JumpInv'
      BY <1>2, <2>1, <2>5 DEF Frame, TrampolineInv, JumpInv, size
    <2> QED
      BY <2>7, <2>8, <2>9, <2>10 DEF TrampolineInv
  <1> QED
    BY <1>1, <1>2 DEF WritePatch

LEMMA UninstallKeeps == ASSUME TrampolineInv, Frame, UninstallHook PROVE TrampolineInv'
  <1> DEFINE size == Span[hook]
             all == Size(hook)
  <1>1. /\ step = "installed" /\ copy' = <<>>
        /\ UNCHANGED <<saved, place, offset, starts, hook, image>>
        /\ step' \in {"removed", "kept"}
        /\ step' = "removed" =>
             code' = [i \in 0 .. all - 1 |-> IF i < size THEN saved[i] ELSE code[i]]
        /\ step' = "kept" => code' = code
    BY DEF UninstallHook, Frame
  <1>2. /\ size \in Nat /\ all \in Nat /\ size <= all /\ image \in [0 .. all - 1 -> Byte]
        /\ code \in [0 .. all - 1 -> Byte]
        /\ saved = [i \in 0 .. size - 1 |-> image[i]]
        /\ \A i \in size .. all - 1 : code[i] = image[i]
    BY <1>1, HookFacts DEF TrampolineInv, BytesTypeOK, BytesInv
  <1> HIDE DEF size, all
  <1>3. step' = "removed" => code' = image
    <2> SUFFICES ASSUME step' = "removed" PROVE code' = image
      OBVIOUS
    <2> DEFINE c == [i \in 0 .. all - 1 |-> IF i < size THEN saved[i] ELSE code[i]]
    <2>1. ASSUME NEW i \in 0 .. all - 1 PROVE c[i] = image[i]
      <3>1. CASE i < size
        BY <1>2, <3>1
      <3>2. CASE i >= size
        BY <1>2, <3>2
      <3> QED
        BY <1>2, <3>1, <3>2
    <2>2. c = image
      BY <1>2, <2>1
    <2> QED
      BY <1>1, <2>2
  <1>4. code' \in [0 .. all - 1 -> Byte]
    BY <1>1, <1>2, <1>3
  <1>5. BytesTypeOK'
    BY <1>1, <1>4 DEF TrampolineInv, BytesTypeOK, Steps, Size, all
  <1>6. BytesInv' /\ CopyInv' /\ JumpInv'
    BY <1>1, <1>3 DEF BytesInv, CopyInv, JumpInv
  <1> QED
    BY <1>5, <1>6 DEF TrampolineInv
-----------------------------------------------------------------------------
LEMMA InitEstablishes == BytesInit => TrampolineInv
  <1> SUFFICES ASSUME BytesInit PROVE TrampolineInv
    OBVIOUS
  <1>1. /\ hook \in Descriptors /\ image \in Images[hook] /\ code = image
        /\ step = "verify" /\ saved = <<>> /\ place = 0 /\ copy = <<>>
        /\ offset = 0 /\ starts = {}
    BY DEF BytesInit
  <1>2. image \in [0 .. Size(hook) - 1 -> Byte] /\ Span[hook] \in Nat
    BY <1>1, TrampolineAssumption
  <1>3. BytesTypeOK
    BY <1>1, <1>2 DEF BytesTypeOK, Steps
  <1>4. BytesInv /\ CopyInv /\ JumpInv
    BY <1>1 DEF BytesInv, CopyInv, JumpInv
  <1> QED
    BY <1>3, <1>4 DEF TrampolineInv

LEMMA NextKeeps == TrampolineInv /\ [BytesNext]_byteVars => TrampolineInv'
  <1> SUFFICES ASSUME TrampolineInv, [BytesNext]_byteVars PROVE TrampolineInv'
    OBVIOUS
  <1>1. CASE UNCHANGED byteVars
    BY <1>1 DEF byteVars, TrampolineInv, BytesTypeOK, Size, BytesInv, CopyInv, SameInstruction, LengthAt, JumpInv
  <1>2. CASE BytesNext
    <2>1. Frame
      BY <1>2 DEF BytesNext, Frame
    <2>2. CASE VerifyPrologue
      BY <2>1, <2>2, VerifyKeeps
    <2>3. CASE AllocateTrampoline
      BY <2>1, <2>3, AllocateKeeps
    <2>4. CASE CopyInstruction
      BY <2>1, <2>4, CopyKeeps
    <2>5. CASE WriteJumpBack
      BY <2>1, <2>5, JumpBackKeeps
    <2>6. CASE WritePatch
      BY <2>1, <2>6, PatchKeeps
    <2>7. CASE UninstallHook
      BY <2>1, <2>7, UninstallKeeps
    <2> QED
      BY <1>2, <2>2, <2>3, <2>4, <2>5, <2>6, <2>7 DEF BytesNext
  <1> QED
    BY <1>1, <1>2

\* The copying loop's invariant: up to the offset it has reached, the trampoline holds
\* the function's instructions, each as long as before and leading where it led, and
\* behind the offset still the bytes of the memcpy.
THEOREM Invariant == BytesSpec => []TrampolineInv
  BY InitEstablishes, NextKeeps, PTL DEF BytesSpec

\* Whatever bytes a function begins with, whatever span is registered and wherever the
\* trampoline lies, InstallHook either reports a failure and leaves the function as it
\* was, or calls reach the replacement and the trampoline does what those bytes did.
THEOREM HookedCode == BytesSpec => []HookedCodeRuns
  <1>1. TrampolineInv => HookedCodeRuns
    <2> SUFFICES ASSUME TrampolineInv PROVE HookedCodeRuns
      OBVIOUS
    <2>1. step \notin {"installed", "kept"} => code = image
      BY DEF TrampolineInv, BytesInv
    <2>2. ASSUME step = "installed"
          PROVE  /\ \A i \in Span[hook] .. Size(hook) - 1 : code[i] = image[i]
                 /\ offset = Span[hook] /\ offset > 0 /\ (offset > 0 => 0 \in starts)
                 /\ \A s \in starts :
                      SameInstruction(s) /\ s + LengthAt(s) \in starts \union {offset}
                 /\ JumpsTo(copy, place, Span[hook], Target[hook] + Span[hook])
                 /\ JumpsTo(code, Target[hook], 0, Replacement[hook])
      <3>1. Span[hook] >= 5 /\ offset = Span[hook] /\ Span[hook] \in Nat
        BY <2>2, HookFacts DEF TrampolineInv, CopyInv, JumpInv
      <3>2. offset > 0
        BY <3>1
      <3> QED
        BY <2>2, <3>1, <3>2 DEF TrampolineInv, BytesInv, CopyInv, JumpInv
    <2> QED
      BY <2>1, <2>2 DEF HookedCodeRuns
  <1> QED
    BY <1>1, Invariant, PTL
=============================================================================
