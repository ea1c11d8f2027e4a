------------------------- MODULE MemoryAndFileProofs -------------------------
(***************************************************************************)
(* Theorems about two parts of Runtime: the memory commands, for any       *)
(* regions, any commands and any protections the game asks for; and the    *)
(* loose files, for any threads, resources, package and number of handles. *)
(***************************************************************************)
EXTENDS Runtime, FiniteSetTheorems, TLAPS

-----------------------------------------------------------------------------
(* Memory: the pure parts.                                                 *)

\* The region of an address.
LEMMA RegionFound ==
  ASSUME NEW a \in Memory!Addresses
  PROVE  /\ Memory!RegionOf(a) \in DOMAIN Regions
         /\ Regions[Memory!RegionOf(a)].base <= a /\ a < Memory!End(Memory!RegionOf(a))
  BY MemoryAssumption DEF Memory!RegionOf, Memory!RegionIds

\* A region without the other ones: an address in it has no other region.
LEMMA RegionUnique ==
  ASSUME NEW a \in Memory!Addresses, NEW r \in DOMAIN Regions,
         Regions[r].base <= a, a < Memory!End(r)
  PROVE  Memory!RegionOf(a) = r
  BY RegionFound, MemoryAssumption

\* A written value reads back: the sign and the byte order survive.
LEMMA ReadBack ==
  ASSUME NEW type \in {"u8", "u16", "i32"}, NEW text \in [hex : BOOLEAN, v : Int],
         Memory!InRange(type, text)
  PROVE  Memory!Decode(type, Memory!Encode(type, text)) = Memory!Signed(type, text.v)
  <1> DEFINE v == text.v
             m == Memory!Modulus(type)
  <1>1. v \in Int
    OBVIOUS
  <1>2. CASE type = "u8"
    <2>1. 0 <= v /\ v < 4
      BY <1>1, <1>2 DEF Memory!InRange, Memory!Modulus, Memory!SizeOf, Memory!Base
    <2>2. Memory!Encode(type, text) = <<v>>
      BY <1>1, <1>2, <2>1 DEF Memory!Encode, Memory!Modulus, Memory!SizeOf, Memory!Base
    <2> QED
      BY <1>2, <2>2 DEF Memory!Decode, Memory!SizeOf
  <1>3. CASE type # "u8"
    <2>1. m = 16 /\ m \div 2 = 8
      BY <1>3 DEF Memory!Modulus, Memory!SizeOf, Memory!Base
    <2>2. -8 <= v /\ v < 16 /\ (type = "u16" => 0 <= v)
      BY <1>1, <1>3, <2>1 DEF Memory!InRange
    <2> DEFINE w == v % 16
    <2>3. w \in 0..15 /\ w = IF v < 0 THEN v + 16 ELSE v
      BY <1>1, <2>2
    <2>4. Memory!Encode(type, text) = <<w % 4, w \div 4>>
      BY <1>3, <2>1 DEF Memory!Encode, Memory!SizeOf, Memory!Base
    <2>5. (w % 4) + 4 * (w \div 4) = w
      BY <2>3
    <2>6. Memory!Decode(type, Memory!Encode(type, text)) = Memory!Signed(type, w)
      BY <1>3, <2>4, <2>5 DEF Memory!Decode, Memory!SizeOf, Memory!Base
    <2>7. Memory!Signed(type, w) = Memory!Signed(type, v)
      BY <1>3, <2>1, <2>2, <2>3 DEF Memory!Signed
    <2> QED
      BY <2>6, <2>7
  <1> QED
    BY <1>2, <1>3

\* What a step of the IPC thread may use of its command.
LEMMA IpcFacts ==
  ASSUME Memory!IpcTypes
  PROVE  /\ ipc.pc \in {"idle", "query", "read", "before", "protect", "write", "restore", "verify"}
         /\ ipc.pc # "idle" => ipc.request \in Requests /\ ipc.addr \in Memory!Addresses
         /\ ipc.pc \in {"read", "before", "protect", "write"} => ipc.seen \in Memory!Protections
         /\ Memory!Unrestored => ipc.old \in Memory!Protections
         /\ ipc.pc \in {"read", "before", "protect"} =>
              ipc \in [pc : {"read", "before", "protect", "write"}, request : Requests,
                       addr : Memory!Addresses, seen : Memory!Protections]
         /\ ipc.pc \in {"restore", "verify"} =>
              ipc \in [pc : {"restore", "verify"}, request : Requests, addr : Memory!Addresses,
                       wrote : BOOLEAN, old : Memory!Protections]
  <1> USE DEF Memory!Unrestored
  <1>1. CASE ipc = Memory!Idle
    BY <1>1 DEF Memory!Idle
  <1>2. CASE ipc \in [pc : {"query"}, request : Requests, addr : Memory!Addresses]
    BY <1>2
  <1>3. CASE ipc \in [pc : {"read", "before", "protect", "write"}, request : Requests,
                      addr : Memory!Addresses, seen : Memory!Protections]
    BY <1>3
  <1>4. CASE ipc \in [pc : {"write"}, request : Requests, addr : Memory!Addresses,
                      seen : Memory!Protections, old : Memory!Protections]
    BY <1>4
  <1>5. CASE ipc \in [pc : {"restore", "verify"}, request : Requests, addr : Memory!Addresses,
                      wrote : BOOLEAN, old : Memory!Protections]
    BY <1>5
  <1> QED
    BY <1>1, <1>2, <1>3, <1>4, <1>5 DEF Memory!IpcTypes

\* The fields of a command, and the address it is carried out at.
LEMMA RequestFacts ==
  ASSUME NEW request \in Requests
  PROVE  /\ request.type \in {"u8", "u16", "i32"} /\ Memory!SizeOf(request.type) \in {1, 2}
         /\ request.text \in [hex : BOOLEAN, v : Int] /\ request.op \in {"read", "write"}
         /\ Memory!Resolve(request.space, request.addr) \in Memory!Addresses
  <1>1. request \in [op : {"read", "write"}, space : {"runtime_va", "ida_ea"},
                     addr : Memory!Addresses, type : {"u8", "u16", "i32"},
                     text : [hex : BOOLEAN, v : Int], unsafe : BOOLEAN]
    BY MemoryAssumption
  <1>2. (request.addr - ImageBase + ModuleBase) % AddressLimit \in 0..(AddressLimit - 1)
    BY <1>1, MemoryAssumption DEF Memory!Addresses
  <1> QED
    BY <1>1, <1>2 DEF Memory!SizeOf, Memory!Resolve, Memory!Addresses

\* A value has as many bytes as its type, and none is larger than a byte.
LEMMA EncodedBytes ==
  ASSUME NEW request \in Requests
  PROVE  Memory!Encode(request.type, request.text)
           \in [1..Memory!SizeOf(request.type) -> 0..(Memory!Base - 1)]
  <1>1. request.text.v \in Int /\ request.type \in {"u8", "u16", "i32"}
    BY RequestFacts
  <1>2. CASE request.type = "u8"
    <2>1. request.text.v % 4 \in 0..3
      BY <1>1
    <2> QED
      BY <1>2, <2>1 DEF Memory!Encode, Memory!SizeOf, Memory!Modulus, Memory!Base
  <1>3. CASE request.type # "u8"
    <2> DEFINE v == request.text.v % 16
    <2>1. v \in 0..15
      BY <1>1
    <2>2. v % 4 \in 0..3 /\ v \div 4 \in 0..3
      BY <2>1
    <2>3. Memory!Encode(request.type, request.text) = <<v % 4, v \div 4>>
      BY <1>3 DEF Memory!Encode, Memory!SizeOf, Memory!Modulus, Memory!Base
    <2>4. Memory!SizeOf(request.type) = 2 /\ Memory!Base = 4
      BY <1>3 DEF Memory!SizeOf, Memory!Base
    <2> HIDE DEF v
    <2> QED
      BY <2>2, <2>3, <2>4
  <1> QED
    BY <1>2, <1>3

\* What is decoded is a number.
LEMMA DecodedValue ==
  ASSUME NEW type \in {"u8", "u16", "i32"}
  PROVE  /\ \A v \in Int : Memory!Signed(type, v) \in Int
         /\ \A bytes \in [1..Memory!SizeOf(type) -> 0..(Memory!Base - 1)] :
              Memory!Decode(type, bytes) \in Int
  <1>1. Memory!Modulus(type) \in Int /\ Memory!Modulus(type) \div 2 \in Int
    BY DEF Memory!Modulus, Memory!Base
  <1>2. \A v \in Int : Memory!Signed(type, v) \in Int
    BY <1>1 DEF Memory!Signed
  <1>3. ASSUME NEW bytes \in [1..Memory!SizeOf(type) -> 0..(Memory!Base - 1)]
        PROVE  Memory!Decode(type, bytes) \in Int
    <2>1. bytes[1] \in Int /\ (Memory!SizeOf(type) # 1 => bytes[2] \in Int)
      BY DEF Memory!SizeOf, Memory!Base
    <2>2. (IF Memory!SizeOf(type) = 1 THEN bytes[1] ELSE bytes[1] + Memory!Base * bytes[2]) \in Int
      BY <2>1 DEF Memory!Base
    <2> QED
      BY <1>2, <2>2 DEF Memory!Decode
  <1> QED
    BY <1>2, <1>3

\* A command past its check reaches the addresses of its region only.
LEMMA CommandRange ==
  ASSUME Memory!IInv, Memory!Checked(ipc.pc)
  PROVE  /\ ipc.addr \in Memory!Addresses /\ ipc.request \in Requests
         /\ Memory!SizeOf(ipc.request.type) \in {1, 2}
         /\ ipc.addr + Memory!SizeOf(ipc.request.type) <= AddressLimit
         /\ Memory!Range \subseteq Memory!Addresses
         /\ \A a \in Memory!Range : Memory!RegionOf(a) = Memory!RegionOf(ipc.addr)
         /\ Memory!BytesThere \in [1..Memory!SizeOf(ipc.request.type) -> 0..(Memory!Base - 1)]
  <1> DEFINE n == Memory!SizeOf(ipc.request.type)
             r == Memory!RegionOf(ipc.addr)
  <1>1. ipc.addr \in Memory!Addresses /\ ipc.request \in Requests /\ ipc.pc # "idle"
    BY IpcFacts DEF Memory!IInv, Memory!TypeOK, Memory!Checked
  <1>2. n \in {1, 2}
    BY <1>1, RequestFacts
  <1>3. ipc.addr + n <= Memory!End(r)
    BY DEF Memory!IInv, Memory!CommandInv
  <1>4. r \in DOMAIN Regions /\ Regions[r].base <= ipc.addr
    BY <1>1, RegionFound
  <1>5. /\ Memory!End(r) <= AddressLimit /\ Memory!End(r) \in Int /\ Regions[r].base \in Nat
        /\ AddressLimit \in Nat
    BY <1>4, MemoryAssumption DEF Memory!End
  <1>6. ipc.addr \in Nat
    BY <1>1, <1>5 DEF Memory!Addresses
  <1> HIDE DEF n, r
  <1>7. ASSUME NEW a \in Memory!Range
        PROVE  a \in Memory!Addresses /\ Memory!RegionOf(a) = r
    <2>1. a \in Int /\ ipc.addr <= a /\ a <= ipc.addr + n - 1
      BY <1>2, <1>6 DEF Memory!Range, n
    <2>2. a \in 0..(AddressLimit - 1) /\ a < Memory!End(r) /\ Regions[r].base <= a
      BY <1>2, <1>3, <1>4, <1>5, <1>6, <2>1
    <2> QED
      BY <1>4, <2>2, RegionUnique DEF Memory!Addresses
  <1>8. ASSUME NEW k \in 1..n PROVE mem[ipc.addr + k - 1] \in 0..(Memory!Base - 1)
    <2>1. ipc.addr + k - 1 \in 0..(AddressLimit - 1)
      BY <1>2, <1>3, <1>5, <1>6
    <2> QED
      BY <2>1 DEF Memory!IInv, Memory!TypeOK, Memory!SpaceTypes, Memory!Addresses
  <1> QED
    BY <1>1, <1>2, <1>3, <1>5, <1>6, <1>7, <1>8
       DEF Memory!BytesThere, Memory!Bytes, n, r

-----------------------------------------------------------------------------
(* Memory: the parts of the invariant.                                     *)

\* The bytes and their protections stay well typed.
LEMMA SpaceTypesStep == Memory!IInv /\ [Memory!Next]_memoryVars => Memory!SpaceTypes'
  <1> SUFFICES ASSUME Memory!IInv, [Memory!Next]_memoryVars PROVE Memory!SpaceTypes'
    OBVIOUS
  <1> USE MemoryAssumption, IpcFacts DEF Memory!raceVars, Memory!IInv, Memory!TypeOK, Memory!SpaceTypes,
         Memory!CountTypes, Memory!RegionIds, Memory!Protections
  <1>1. ASSUME NEW request \in Requests, Memory!HandleMemRead(request) PROVE Memory!SpaceTypes'
    BY <1>1 DEF Memory!HandleMemRead, Memory!Begin, Memory!Values
  <1>2. ASSUME NEW request \in Requests, Memory!HandleMemWrite(request) PROVE Memory!SpaceTypes'
    BY <1>2 DEF Memory!HandleMemWrite, Memory!Begin
  <1>3. ASSUME Memory!QueryMemoryRegion PROVE Memory!SpaceTypes'
    BY <1>3 DEF Memory!QueryMemoryRegion, Memory!Refuse
  <1>4. ASSUME Memory!ReadBytes PROVE Memory!SpaceTypes'
    <2>1. Memory!Checked(ipc.pc) /\ UNCHANGED <<mem, protect, stored, asked>>
      BY <1>4 DEF Memory!ReadBytes, Memory!Checked
    <2>2. /\ ipc.request.type \in {"u8", "u16", "i32"} /\ ipc.addr \in Memory!Addresses
          /\ Memory!Decode(ipc.request.type, Memory!BytesThere) \in Int
      BY <2>1, CommandRange, RequestFacts, DecodedValue
    <2>3. \/ shown' = shown
          \/ shown' = [type |-> ipc.request.type, addr |-> ipc.addr,
                       value |-> Memory!Decode(ipc.request.type, Memory!BytesThere)]
      BY <1>4 DEF Memory!ReadBytes
    <2>4. shown' \in Memory!Values
      BY <2>2, <2>3 DEF Memory!Values
    <2> QED
      BY <2>1, <2>4
  <1>5. ASSUME Memory!ReadBefore PROVE Memory!SpaceTypes'
    BY <1>5 DEF Memory!ReadBefore, Memory!Refuse
  <1>6. ASSUME Memory!ProtectForWrite PROVE Memory!SpaceTypes'
    BY <1>6 DEF Memory!ProtectForWrite, Memory!Refuse, Memory!Opened
  <1>7. ASSUME Memory!WriteBytes PROVE Memory!SpaceTypes'
    <2>1. Memory!Checked(ipc.pc) /\ UNCHANGED <<protect, shown, asked>>
      BY <1>7 DEF Memory!WriteBytes, Memory!Checked
    <2>2. /\ ipc.request \in Requests /\ ipc.addr \in Nat
          /\ Memory!SizeOf(ipc.request.type) \in {1, 2}
      BY <2>1, CommandRange DEF Memory!Addresses
    <2> DEFINE bytes == Memory!Encode(ipc.request.type, ipc.request.text)
    <2>3. bytes \in [1..Memory!SizeOf(ipc.request.type) -> 0..(Memory!Base - 1)]
      BY <2>2, EncodedBytes
    <2>4. \/ mem' = mem
          \/ mem' = [a \in Memory!Addresses |->
                     IF a \in Memory!Range THEN bytes[a - ipc.addr + 1] ELSE mem[a]]
      BY <1>7 DEF Memory!WriteBytes
    <2> HIDE DEF bytes
    <2>5. ASSUME NEW a \in Memory!Range PROVE bytes[a - ipc.addr + 1] \in 0..(Memory!Base - 1)
      <3>1. a - ipc.addr + 1 \in 1..Memory!SizeOf(ipc.request.type)
        BY <2>2 DEF Memory!Range
      <3> QED
        BY <2>3, <3>1
    <2>6. mem' \in [Memory!Addresses -> 0..(Memory!Base - 1)]
      BY <2>4, <2>5
    <2>7. stored' \in Memory!Values
      BY <1>7 DEF Memory!WriteBytes, Memory!Values
    <2> QED
      BY <2>1, <2>6, <2>7
  <1>8. ASSUME Memory!RestoreProtection PROVE Memory!SpaceTypes'
    BY <1>8 DEF Memory!RestoreProtection
  <1>9. ASSUME Memory!VerifyWrite PROVE Memory!SpaceTypes'
    <2>1. Memory!Checked(ipc.pc) /\ UNCHANGED <<mem, protect, asked>> /\ shown' = Memory!Nothing
      BY <1>9 DEF Memory!VerifyWrite, Memory!Checked
    <2>2. /\ ipc.request.type \in {"u8", "u16", "i32"} /\ ipc.addr \in Memory!Addresses
          /\ Memory!Signed(ipc.request.type, ipc.request.text.v) \in Int
      BY <2>1, CommandRange, RequestFacts, DecodedValue
    <2>3. \/ stored' = stored
          \/ stored' = [type |-> ipc.request.type, addr |-> ipc.addr,
                        value |-> Memory!Signed(ipc.request.type, ipc.request.text.v)]
      BY <1>9 DEF Memory!VerifyWrite
    <2>4. shown' \in Memory!Values /\ stored' \in Memory!Values
      BY <2>1, <2>2, <2>3 DEF Memory!Values
    <2> QED
      BY <2>1, <2>4
  <1>10. ASSUME NEW a \in Memory!Addresses, Memory!GameWrites(a) PROVE Memory!SpaceTypes'
    <2>1. UNCHANGED <<protect, asked>> /\ mem' = [mem EXCEPT ![a] = 0]
      BY <1>10 DEF Memory!GameWrites
    <2>2. shown' \in Memory!Values /\ stored' \in Memory!Values
      BY <1>10 DEF Memory!GameWrites, Memory!Values
    <2>3. mem' \in [Memory!Addresses -> 0..(Memory!Base - 1)]
      BY <2>1 DEF Memory!Base
    <2> QED
      BY <2>1, <2>2, <2>3
  <1>11. ASSUME NEW r \in DOMAIN Regions, NEW p \in {"ro", "rw", "xr", "xrw", "none"}, Memory!GameProtects(r, p) PROVE Memory!SpaceTypes'
    BY <1>11 DEF Memory!GameProtects
  <1>12. CASE UNCHANGED memoryVars
    BY <1>12 DEF memoryVars
  <1> QED
    BY <1>1, <1>2, <1>3, <1>4, <1>5, <1>6, <1>7, <1>8, <1>9, <1>10, <1>11, <1>12
       DEF Memory!Next, Memory!RegionIds

\* The bounds hold.
LEMMA CountTypesStep == Memory!IInv /\ [Memory!Next]_memoryVars => Memory!CountTypes'
  <1> SUFFICES ASSUME Memory!IInv, [Memory!Next]_memoryVars PROVE Memory!CountTypes'
    OBVIOUS
  <1> USE MemoryAssumption DEF Memory!raceVars, Memory!IInv, Memory!TypeOK, Memory!CountTypes
  <1>1. ASSUME NEW request \in Requests, Memory!HandleMemRead(request) PROVE Memory!CountTypes'
    BY <1>1 DEF Memory!HandleMemRead, Memory!Begin
  <1>2. ASSUME NEW request \in Requests, Memory!HandleMemWrite(request) PROVE Memory!CountTypes'
    BY <1>2 DEF Memory!HandleMemWrite, Memory!Begin
  <1>3. ASSUME Memory!QueryMemoryRegion PROVE Memory!CountTypes'
    BY <1>3 DEF Memory!QueryMemoryRegion, Memory!Refuse
  <1>4. ASSUME Memory!ReadBytes PROVE Memory!CountTypes'
    BY <1>4 DEF Memory!ReadBytes
  <1>5. ASSUME Memory!ReadBefore PROVE Memory!CountTypes'
    BY <1>5 DEF Memory!ReadBefore, Memory!Refuse
  <1>6. ASSUME Memory!ProtectForWrite PROVE Memory!CountTypes'
    BY <1>6 DEF Memory!ProtectForWrite, Memory!Refuse
  <1>7. ASSUME Memory!WriteBytes PROVE Memory!CountTypes'
    BY <1>7 DEF Memory!WriteBytes
  <1>8. ASSUME Memory!RestoreProtection PROVE Memory!CountTypes'
    BY <1>8, IpcFacts, RegionFound DEF Memory!RestoreProtection, Memory!RegionIds
  <1>9. ASSUME Memory!VerifyWrite PROVE Memory!CountTypes'
    BY <1>9 DEF Memory!VerifyWrite
  <1>10. ASSUME NEW a \in Memory!Addresses, Memory!GameWrites(a) PROVE Memory!CountTypes'
    BY <1>10 DEF Memory!GameWrites
  <1>11. ASSUME NEW r \in DOMAIN Regions, NEW p \in {"ro", "rw", "xr", "xrw", "none"}, Memory!GameProtects(r, p) PROVE Memory!CountTypes'
    BY <1>11 DEF Memory!GameProtects, Memory!RegionIds
  <1>12. CASE UNCHANGED memoryVars
    BY <1>12 DEF memoryVars
  <1> QED
    BY <1>1, <1>2, <1>3, <1>4, <1>5, <1>6, <1>7, <1>8, <1>9, <1>10, <1>11, <1>12
       DEF Memory!Next, Memory!RegionIds

\* A command is passed on whole.
LEMMA IpcTypesStep == Memory!IInv /\ [Memory!Next]_memoryVars => Memory!IpcTypes'
  <1> SUFFICES ASSUME Memory!IInv, [Memory!Next]_memoryVars PROVE Memory!IpcTypes'
    OBVIOUS
  <1> USE IpcFacts, RequestFacts DEF Memory!raceVars, Memory!IInv, Memory!TypeOK, Memory!IpcTypes
  <1>1. ASSUME NEW request \in Requests, Memory!HandleMemRead(request) PROVE Memory!IpcTypes'
    BY <1>1 DEF Memory!HandleMemRead, Memory!Begin
  <1>2. ASSUME NEW request \in Requests, Memory!HandleMemWrite(request) PROVE Memory!IpcTypes'
    BY <1>2 DEF Memory!HandleMemWrite, Memory!Begin
  <1>3. ASSUME Memory!QueryMemoryRegion PROVE Memory!IpcTypes'
    <2>1. ipc.pc = "query" /\ ipc.request \in Requests /\ ipc.addr \in Memory!Addresses
      BY <1>3 DEF Memory!QueryMemoryRegion
    <2>2. protect[Memory!RegionOf(ipc.addr)] \in Memory!Protections
      BY <2>1, RegionFound DEF Memory!SpaceTypes, Memory!RegionIds
    <2>3. \/ ipc' = Memory!Idle
          \/ \E pc \in {"read", "before"} :
               ipc' = [pc |-> pc, request |-> ipc.request, addr |-> ipc.addr,
                       seen |-> protect[Memory!RegionOf(ipc.addr)]]
      BY <1>3 DEF Memory!QueryMemoryRegion, Memory!Refuse
    <2> QED
      BY <2>1, <2>2, <2>3
  <1>4. ASSUME Memory!ReadBytes PROVE Memory!IpcTypes'
    BY <1>4 DEF Memory!ReadBytes
  <1>5. ASSUME Memory!ReadBefore PROVE Memory!IpcTypes'
    BY <1>5 DEF Memory!ReadBefore, Memory!Refuse
  <1>6. ASSUME Memory!ProtectForWrite PROVE Memory!IpcTypes'
    <2>1. /\ ipc.pc = "protect" /\ ipc.request \in Requests /\ ipc.addr \in Memory!Addresses
          /\ ipc.seen \in Memory!Protections
      BY <1>6 DEF Memory!ProtectForWrite
    <2>2. protect[Memory!RegionOf(ipc.addr)] \in Memory!Protections
      BY <2>1, RegionFound DEF Memory!SpaceTypes, Memory!RegionIds
    <2>3. \/ ipc' = Memory!Idle
          \/ ipc' = [pc |-> "write", request |-> ipc.request, addr |-> ipc.addr,
                     seen |-> ipc.seen, old |-> protect[Memory!RegionOf(ipc.addr)]]
      BY <1>6 DEF Memory!ProtectForWrite, Memory!Refuse
    <2> QED
      BY <2>1, <2>2, <2>3
  <1>7. ASSUME Memory!WriteBytes PROVE Memory!IpcTypes'
    <2>1. ipc.pc = "write" /\ ipc.request \in Requests /\ ipc.addr \in Memory!Addresses
      BY <1>7 DEF Memory!WriteBytes
    <2>2. "old" \in DOMAIN ipc => ipc.old \in Memory!Protections
      BY <2>1 DEF Memory!Unrestored
    <2>3. PICK wrote \in BOOLEAN :
            ipc' = [pc |-> IF "old" \in DOMAIN ipc THEN "restore" ELSE "verify",
                    request |-> ipc.request, addr |-> ipc.addr, wrote |-> wrote,
                    old |-> IF "old" \in DOMAIN ipc THEN ipc.old ELSE "none"]
      <3> DEFINE wrote == ~Memory!WriteTraps
      <3>1. wrote \in BOOLEAN
        OBVIOUS
      <3> QED
        BY <1>7, <3>1 DEF Memory!WriteBytes
    <2>4. "none" \in Memory!Protections
      BY DEF Memory!Protections
    <2>5. ipc' \in [pc : {"restore", "verify"}, request : Requests, addr : Memory!Addresses,
                    wrote : BOOLEAN, old : Memory!Protections]
      BY <2>1, <2>2, <2>3, <2>4
    <2> QED
      BY <2>5
  <1>8. ASSUME Memory!RestoreProtection PROVE Memory!IpcTypes'
    BY <1>8 DEF Memory!RestoreProtection
  <1>9. ASSUME Memory!VerifyWrite PROVE Memory!IpcTypes'
    BY <1>9 DEF Memory!VerifyWrite
  <1>10. ASSUME NEW a \in Memory!Addresses, Memory!GameWrites(a) PROVE Memory!IpcTypes'
    BY <1>10 DEF Memory!GameWrites
  <1>11. ASSUME NEW r \in DOMAIN Regions, NEW p \in {"ro", "rw", "xr", "xrw", "none"}, Memory!GameProtects(r, p) PROVE Memory!IpcTypes'
    BY <1>11 DEF Memory!GameProtects
  <1>12. CASE UNCHANGED memoryVars
    BY <1>12 DEF memoryVars
  <1> QED
    BY <1>1, <1>2, <1>3, <1>4, <1>5, <1>6, <1>7, <1>8, <1>9, <1>10, <1>11, <1>12
       DEF Memory!Next, Memory!RegionIds

\* A command is checked before it touches anything.
LEMMA CommandStep == Memory!IInv /\ [Memory!Next]_memoryVars => Memory!CommandInv'
  <1> SUFFICES ASSUME Memory!IInv, [Memory!Next]_memoryVars PROVE Memory!CommandInv'
    OBVIOUS
  <1> USE IpcFacts DEF Memory!raceVars, Memory!IInv, Memory!TypeOK, Memory!CommandInv, Memory!Checked,
         Memory!Idle, Memory!ProtectInv, Memory!Unrestored
  <1>1. ASSUME NEW request \in Requests, Memory!HandleMemRead(request) PROVE Memory!CommandInv'
    BY <1>1 DEF Memory!HandleMemRead, Memory!Begin
  <1>2. ASSUME NEW request \in Requests, Memory!HandleMemWrite(request) PROVE Memory!CommandInv'
    BY <1>2 DEF Memory!HandleMemWrite, Memory!Begin
  <1>3. ASSUME Memory!QueryMemoryRegion PROVE Memory!CommandInv'
    <2> DEFINE r == Memory!RegionOf(ipc.addr)
    <2>1. ipc.pc = "query" /\ ipc.request.op \in {"read", "write"}
      BY <1>3, RequestFacts DEF Memory!QueryMemoryRegion
    <2> HIDE DEF r
    <2>4. CASE ipc' = Memory!Idle
      BY <2>4
    <2>5. CASE /\ ipc.addr + Memory!SizeOf(ipc.request.type) <= Memory!End(r)
               /\ ipc.request.op = "write" => Memory!Consent(protect[r], ipc.request)
               /\ ipc' = [pc |-> IF ipc.request.op = "read" THEN "read" ELSE "before",
                          request |-> ipc.request, addr |-> ipc.addr, seen |-> protect[r]]
      BY <2>1, <2>5 DEF r
    <2> QED
      BY <1>3, <2>4, <2>5 DEF Memory!QueryMemoryRegion, Memory!Refuse, r
  <1>4. ASSUME Memory!ReadBytes PROVE Memory!CommandInv'
    BY <1>4 DEF Memory!ReadBytes
  <1>5. ASSUME Memory!ReadBefore PROVE Memory!CommandInv'
    BY <1>5 DEF Memory!ReadBefore, Memory!Refuse
  <1>6. ASSUME Memory!ProtectForWrite PROVE Memory!CommandInv'
    BY <1>6 DEF Memory!ProtectForWrite, Memory!Refuse
  <1>7. ASSUME Memory!WriteBytes PROVE Memory!CommandInv'
    BY <1>7 DEF Memory!WriteBytes
  <1>8. ASSUME Memory!RestoreProtection PROVE Memory!CommandInv'
    BY <1>8 DEF Memory!RestoreProtection
  <1>9. ASSUME Memory!VerifyWrite PROVE Memory!CommandInv'
    BY <1>9 DEF Memory!VerifyWrite
  <1>10. ASSUME NEW a \in Memory!Addresses, Memory!GameWrites(a) PROVE Memory!CommandInv'
    BY <1>10 DEF Memory!GameWrites
  <1>11. ASSUME NEW r \in DOMAIN Regions, NEW p \in {"ro", "rw", "xr", "xrw", "none"}, Memory!GameProtects(r, p) PROVE Memory!CommandInv'
    BY <1>11 DEF Memory!GameProtects
  <1>12. CASE UNCHANGED memoryVars
    BY <1>12 DEF memoryVars
  <1> QED
    BY <1>1, <1>2, <1>3, <1>4, <1>5, <1>6, <1>7, <1>8, <1>9, <1>10, <1>11, <1>12
       DEF Memory!Next, Memory!RegionIds

\* What a command saw is what it changes, unless the game comes between.
LEMMA SeenStep == Memory!IInv /\ [Memory!Next]_memoryVars => Memory!SeenInv'
  <1> SUFFICES ASSUME Memory!IInv, [Memory!Next]_memoryVars PROVE Memory!SeenInv'
    OBVIOUS
  <1> USE IpcFacts DEF Memory!raceVars, Memory!IInv, Memory!TypeOK, Memory!SeenInv,
         Memory!Unrestored, Memory!Idle
  <1>1. ASSUME NEW request \in Requests, Memory!HandleMemRead(request) PROVE Memory!SeenInv'
    BY <1>1 DEF Memory!HandleMemRead, Memory!Begin
  <1>2. ASSUME NEW request \in Requests, Memory!HandleMemWrite(request) PROVE Memory!SeenInv'
    BY <1>2 DEF Memory!HandleMemWrite, Memory!Begin
  <1>3. ASSUME Memory!QueryMemoryRegion PROVE Memory!SeenInv'
    BY <1>3 DEF Memory!QueryMemoryRegion, Memory!Refuse
  <1>4. ASSUME Memory!ReadBytes PROVE Memory!SeenInv'
    BY <1>4 DEF Memory!ReadBytes
  <1>5. ASSUME Memory!ReadBefore PROVE Memory!SeenInv'
    BY <1>5 DEF Memory!ReadBefore, Memory!Refuse
  <1>6. ASSUME Memory!ProtectForWrite PROVE Memory!SeenInv'
    <2> DEFINE r == Memory!RegionOf(ipc.addr)
    <2>1. /\ ipc.pc = "protect" /\ r \in DOMAIN Regions /\ UNCHANGED overtaken
          /\ protect \in [DOMAIN Regions -> Memory!Protections]
          /\ ~Memory!Unrestored
      BY <1>6, RegionFound DEF Memory!ProtectForWrite, Memory!SpaceTypes, Memory!RegionIds
    <2> HIDE DEF r
    <2>2. CASE ipc' = Memory!Idle
      BY <2>2
    <2>3. CASE /\ protect' = [protect EXCEPT ![r] = Memory!Opened(ipc.seen)]
               /\ ipc' = [pc |-> "write", request |-> ipc.request, addr |-> ipc.addr,
                         seen |-> ipc.seen, old |-> protect[r]]
      <3>1. protect'[r] = Memory!Opened(ipc.seen) /\ Memory!RegionOf(ipc'.addr) = r
        BY <2>1, <2>3 DEF r
      <3>2. ipc'.old = protect[r] /\ ipc'.seen = ipc.seen /\ ipc'.pc = "write"
        BY <2>3
      <3>3. ~overtaken => protect[r] = ipc.seen
        BY <2>1 DEF r
      <3>4. Memory!Unrestored'
        BY <2>3
      <3>5. protect'[Memory!RegionOf(ipc'.addr)] = Memory!Opened(ipc.seen)
        BY <3>1
      <3> QED
        BY <2>1, <3>2, <3>3, <3>4, <3>5
    <2> QED
      BY <1>6, <2>2, <2>3 DEF Memory!ProtectForWrite, Memory!Refuse, r
  <1>7. ASSUME Memory!WriteBytes PROVE Memory!SeenInv'
    BY <1>7 DEF Memory!WriteBytes
  <1>8. ASSUME Memory!RestoreProtection PROVE Memory!SeenInv'
    BY <1>8 DEF Memory!RestoreProtection
  <1>9. ASSUME Memory!VerifyWrite PROVE Memory!SeenInv'
    BY <1>9 DEF Memory!VerifyWrite
  <1>10. ASSUME NEW a \in Memory!Addresses, Memory!GameWrites(a) PROVE Memory!SeenInv'
    BY <1>10 DEF Memory!GameWrites
  <1>11. ASSUME NEW r \in DOMAIN Regions, NEW p \in {"ro", "rw", "xr", "xrw", "none"}, Memory!GameProtects(r, p) PROVE Memory!SeenInv'
    <2>1. protect \in [DOMAIN Regions -> Memory!Protections]
      BY DEF Memory!SpaceTypes, Memory!RegionIds
    <2>2. /\ UNCHANGED ipc /\ protect' = [protect EXCEPT ![r] = p]
          /\ overtaken' = (overtaken \/ (ipc.pc # "idle" /\ r = Memory!RegionOf(ipc.addr)))
      BY <1>11 DEF Memory!GameProtects
    <2>3. CASE ipc.pc = "idle" \/ overtaken'
      BY <2>2, <2>3
    <2>4. CASE ipc.pc # "idle" /\ ~overtaken'
      <3>1. protect'[Memory!RegionOf(ipc.addr)] = protect[Memory!RegionOf(ipc.addr)] /\ ~overtaken
        BY <2>1, <2>2, <2>4, RegionFound
      <3> QED
        BY <2>2, <3>1
    <2> QED
      BY <2>3, <2>4
  <1>12. CASE UNCHANGED memoryVars
    BY <1>12 DEF memoryVars
  <1> QED
    BY <1>1, <1>2, <1>3, <1>4, <1>5, <1>6, <1>7, <1>8, <1>9, <1>10, <1>11, <1>12
       DEF Memory!Next, Memory!RegionIds

\* A protection taken away is remembered, and so is one that was not given back.
LEMMA ProtectStep == Memory!IInv /\ [Memory!Next]_memoryVars => Memory!ProtectInv'
  <1> SUFFICES ASSUME Memory!IInv, [Memory!Next]_memoryVars PROVE Memory!ProtectInv'
    OBVIOUS
  <1> USE IpcFacts DEF Memory!raceVars, Memory!IInv, Memory!TypeOK, Memory!ProtectInv,
         Memory!Unrestored, Memory!Idle, Memory!Left, Memory!RegionIds
  <1>1. ASSUME NEW request \in Requests, Memory!HandleMemRead(request) PROVE Memory!ProtectInv'
    BY <1>1 DEF Memory!HandleMemRead, Memory!Begin
  <1>2. ASSUME NEW request \in Requests, Memory!HandleMemWrite(request) PROVE Memory!ProtectInv'
    BY <1>2 DEF Memory!HandleMemWrite, Memory!Begin
  <1>3. ASSUME Memory!QueryMemoryRegion PROVE Memory!ProtectInv'
    BY <1>3 DEF Memory!QueryMemoryRegion, Memory!Refuse
  <1>4. ASSUME Memory!ReadBytes PROVE Memory!ProtectInv'
    BY <1>4 DEF Memory!ReadBytes
  <1>5. ASSUME Memory!ReadBefore PROVE Memory!ProtectInv'
    BY <1>5 DEF Memory!ReadBefore, Memory!Refuse
  <1>6. ASSUME Memory!ProtectForWrite PROVE Memory!ProtectInv'
    <2> DEFINE r == Memory!RegionOf(ipc.addr)
    <2>1. /\ ipc.pc = "protect" /\ r \in DOMAIN Regions /\ UNCHANGED <<asked, failed, lost>>
          /\ protect \in [DOMAIN Regions -> Memory!Protections]
          /\ ~Memory!Unrestored
      BY <1>6, RegionFound DEF Memory!ProtectForWrite, Memory!SpaceTypes, Memory!RegionIds
    <2>2. CASE ipc' = Memory!Idle /\ UNCHANGED protect
      BY <2>1, <2>2
    <2>3. ASSUME NEW new,
                 /\ protect' = [protect EXCEPT ![r] = new]
                 /\ ipc' = [pc |-> "write", request |-> ipc.request, addr |-> ipc.addr,
                           seen |-> ipc.seen, old |-> protect[r]]
          PROVE  Memory!ProtectInv'
      <3>1. Memory!RegionOf(ipc'.addr) = r /\ ipc'.old = protect[r] /\ Memory!Unrestored'
        BY <2>3
      <3> HIDE DEF r
      <3>2. \A k \in DOMAIN Regions : k # r => protect'[k] = protect[k]
        BY <2>1, <2>3
      <3> QED
        BY <2>1, <3>1, <3>2
    <2> QED
      BY <1>6, <2>2, <2>3 DEF Memory!ProtectForWrite, Memory!Refuse
  <1>7. ASSUME Memory!WriteBytes PROVE Memory!ProtectInv'
    BY <1>7 DEF Memory!WriteBytes
  <1>8. ASSUME Memory!RestoreProtection PROVE Memory!ProtectInv'
    <2>1. /\ ipc.pc = "restore" /\ ipc'.pc = "verify" /\ UNCHANGED asked
          /\ protect \in [DOMAIN Regions -> Memory!Protections] /\ Memory!Unrestored
      BY <1>8 DEF Memory!RestoreProtection, Memory!SpaceTypes, Memory!RegionIds
    <2>2. PICK r \in DOMAIN Regions : r = Memory!RegionOf(ipc.addr)
      BY <2>1, RegionFound
    <2>3. \A k \in DOMAIN Regions \ {r} : k \in lost \/ protect[k] = Memory!Left(k)
      BY <2>2
    <2>4. r \in lost \/ ipc.old = Memory!Left(r)
      BY <2>1, <2>2
    <2>5. CASE protect' = [protect EXCEPT ![r] = ipc.old] /\ UNCHANGED <<failed, lost>>
      <3>1. \A k \in DOMAIN Regions : k \in lost' \/ protect'[k] = Memory!Left(k)'
        BY <2>1, <2>2, <2>3, <2>4, <2>5
      <3> QED
        BY <2>1, <3>1
    <2>6. CASE overtaken /\ lost' = lost \union {r} /\ UNCHANGED <<protect, failed>>
      <3>1. \A k \in DOMAIN Regions : k \in lost' \/ protect'[k] = Memory!Left(k)'
        BY <2>1, <2>3, <2>6
      <3> QED
        BY <2>1, <3>1
    <2>7. CASE ~overtaken /\ failed' = failed \union {r} /\ UNCHANGED <<protect, lost>>
      <3>1. protect[r] = Memory!Opened(ipc.old)
        BY <2>1, <2>2, <2>7 DEF Memory!SeenInv
      <3>2. Memory!Opened(Memory!Left(r)) = Memory!Opened(asked[r])
        BY DEF Memory!Opened, Memory!Executable
      <3>3. Memory!Left(r)' = Memory!Opened(asked[r])
        BY <2>1, <2>7
      <3>4. r \in lost' \/ protect'[r] = Memory!Left(r)'
        BY <2>4, <2>7, <3>1, <3>2, <3>3
      <3>5. \A k \in DOMAIN Regions \ {r} : k \in lost' \/ protect'[k] = Memory!Left(k)'
        BY <2>1, <2>3, <2>7
      <3> QED
        BY <2>1, <3>4, <3>5
    <2> QED
      BY <1>8, <2>2, <2>5, <2>6, <2>7 DEF Memory!RestoreProtection
  <1>9. ASSUME Memory!VerifyWrite PROVE Memory!ProtectInv'
    BY <1>9 DEF Memory!VerifyWrite
  <1>10. ASSUME NEW a \in Memory!Addresses, Memory!GameWrites(a) PROVE Memory!ProtectInv'
    BY <1>10 DEF Memory!GameWrites
  <1>11. ASSUME NEW r \in DOMAIN Regions, NEW p \in {"ro", "rw", "xr", "xrw", "none"}, Memory!GameProtects(r, p) PROVE Memory!ProtectInv'
    <2>1. /\ protect \in [DOMAIN Regions -> Memory!Protections]
          /\ asked \in [DOMAIN Regions -> Memory!Protections]
      BY DEF Memory!SpaceTypes, Memory!RegionIds
    <2>2. /\ UNCHANGED ipc /\ protect' = [protect EXCEPT ![r] = p] /\ asked' = [asked EXCEPT ![r] = p]
          /\ failed' = failed \ {r}
          /\ lost' = IF Memory!Unrestored /\ r = Memory!RegionOf(ipc.addr)
                     THEN lost \union {r} ELSE lost \ {r}
      BY <1>11 DEF Memory!GameProtects
    <2>3. protect'[r] = p /\ Memory!Left(r)' = p
      BY <2>1, <2>2
    <2>4. ASSUME NEW k \in DOMAIN Regions, k # r
          PROVE  protect'[k] = protect[k] /\ Memory!Left(k)' = Memory!Left(k) /\ (k \in lost => k \in lost')
      BY <2>1, <2>2, <2>4
    <2>5. Memory!Unrestored' <=> Memory!Unrestored
      BY <2>2
    <2> QED
      BY <2>2, <2>3, <2>4, <2>5
  <1>12. CASE UNCHANGED memoryVars
    BY <1>12 DEF memoryVars
  <1> QED
    BY <1>1, <1>2, <1>3, <1>4, <1>5, <1>6, <1>7, <1>8, <1>9, <1>10, <1>11, <1>12
       DEF Memory!Next, Memory!RegionIds

\* What is stored and printed stays true while the bytes stay.
LEMMA ValuesStay ==
  ASSUME Memory!ValueInv, UNCHANGED <<mem, stored, shown>>,
         ipc.pc \in {"restore", "verify"} => ipc'.pc \in {"restore", "verify"}
  PROVE  Memory!ValueInv'
  BY DEF Memory!ValueInv, Memory!StillThere, Memory!Bytes

\* What was stored stays until somebody writes.
LEMMA ValueStep == Memory!IInv /\ [Memory!Next]_memoryVars => Memory!ValueInv'
  <1> SUFFICES ASSUME Memory!IInv, [Memory!Next]_memoryVars PROVE Memory!ValueInv'
    OBVIOUS
  <1> USE IpcFacts DEF Memory!raceVars, Memory!IInv, Memory!TypeOK, Memory!Idle
  <1>1. ASSUME NEW request \in Requests, Memory!HandleMemRead(request) PROVE Memory!ValueInv'
    <2>1. UNCHANGED <<mem, stored, shown>>
      BY <1>1 DEF Memory!HandleMemRead, Memory!Begin
    <2>2. ipc'.pc \notin {"restore", "verify"} => ipc.pc \notin {"restore", "verify"}
      BY <1>1 DEF Memory!HandleMemRead, Memory!Begin
    <2> QED
      BY <2>1, <2>2, ValuesStay
  <1>2. ASSUME NEW request \in Requests, Memory!HandleMemWrite(request) PROVE Memory!ValueInv'
    <2>1. UNCHANGED <<mem, stored, shown>>
      BY <1>2 DEF Memory!HandleMemWrite, Memory!Begin
    <2>2. ipc'.pc \notin {"restore", "verify"} => ipc.pc \notin {"restore", "verify"}
      BY <1>2 DEF Memory!HandleMemWrite, Memory!Begin
    <2> QED
      BY <2>1, <2>2, ValuesStay
  <1>3. ASSUME Memory!QueryMemoryRegion PROVE Memory!ValueInv'
    <2>1. UNCHANGED <<mem, stored, shown>>
      BY <1>3 DEF Memory!QueryMemoryRegion, Memory!Refuse
    <2>2. ipc'.pc \notin {"restore", "verify"} => ipc.pc \notin {"restore", "verify"}
      BY <1>3 DEF Memory!QueryMemoryRegion, Memory!Refuse
    <2> QED
      BY <2>1, <2>2, ValuesStay
  <1>4. ASSUME Memory!ReadBytes PROVE Memory!ValueInv'
    <2>1. Memory!Checked(ipc.pc) /\ ipc.pc = "read" /\ ipc' = Memory!Idle /\ UNCHANGED <<mem, stored>>
      BY <1>4 DEF Memory!ReadBytes, Memory!Checked
    <2>2. CASE shown' = shown
      BY <2>1, <2>2, ValuesStay
    <2> DEFINE new == [type |-> ipc.request.type, addr |-> ipc.addr,
                       value |-> Memory!Decode(ipc.request.type, Memory!BytesThere)]
    <2>3. CASE shown' = new
      <3>1. /\ Memory!Decode(new.type, Memory!Bytes(new.addr, new.type)) = new.value
            /\ new.addr + Memory!SizeOf(new.type) <= AddressLimit
        BY <2>1, CommandRange DEF Memory!BytesThere
      <3>2. \A addr, type : Memory!Bytes(addr, type)' = Memory!Bytes(addr, type)
        BY <2>1 DEF Memory!Bytes
      <3> HIDE DEF new
      <3> QED
        BY <2>1, <2>3, <3>1, <3>2 DEF Memory!ValueInv, Memory!StillThere
    <2> QED
      BY <1>4, <2>2, <2>3 DEF Memory!ReadBytes
  <1>5. ASSUME Memory!ReadBefore PROVE Memory!ValueInv'
    <2>1. UNCHANGED <<mem, stored, shown>>
      BY <1>5 DEF Memory!ReadBefore, Memory!Refuse
    <2>2. ipc'.pc \notin {"restore", "verify"} => ipc.pc \notin {"restore", "verify"}
      BY <1>5 DEF Memory!ReadBefore, Memory!Refuse
    <2> QED
      BY <2>1, <2>2, ValuesStay
  <1>6. ASSUME Memory!ProtectForWrite PROVE Memory!ValueInv'
    <2>1. UNCHANGED <<mem, stored, shown>>
      BY <1>6 DEF Memory!ProtectForWrite, Memory!Refuse
    <2>2. ipc'.pc \notin {"restore", "verify"} => ipc.pc \notin {"restore", "verify"}
      BY <1>6 DEF Memory!ProtectForWrite, Memory!Refuse
    <2> QED
      BY <2>1, <2>2, ValuesStay
  <1>7. ASSUME Memory!WriteBytes PROVE Memory!ValueInv'
    <2>1. ipc.pc = "write" /\ ipc'.pc \in {"restore", "verify"} /\ UNCHANGED shown
      BY <1>7 DEF Memory!WriteBytes
    <2>2. CASE mem' = mem /\ stored' = stored
      BY <2>1, <2>2 DEF Memory!ValueInv, Memory!StillThere, Memory!Bytes
    <2>3. CASE stored' = Memory!Nothing
      BY <2>1, <2>3 DEF Memory!ValueInv, Memory!StillThere
    <2> QED
      BY <1>7, <2>2, <2>3 DEF Memory!WriteBytes
  <1>8. ASSUME Memory!RestoreProtection PROVE Memory!ValueInv'
    <2>1. UNCHANGED <<mem, stored, shown>> /\ ipc.pc = "restore" /\ ipc'.pc = "verify"
      BY <1>8 DEF Memory!RestoreProtection
    <2> QED
      BY <2>1 DEF Memory!ValueInv, Memory!StillThere, Memory!Bytes
  <1>9. ASSUME Memory!VerifyWrite PROVE Memory!ValueInv'
    <2>1. /\ Memory!Checked(ipc.pc) /\ ipc.request.op = "write" /\ ipc.pc = "verify"
          /\ UNCHANGED mem /\ shown' = Memory!Nothing
      BY <1>9 DEF Memory!VerifyWrite, Memory!Checked, Memory!CommandInv
    <2>2. \A addr, type : Memory!Bytes(addr, type)' = Memory!Bytes(addr, type)
      BY <2>1 DEF Memory!Bytes
    <2>3. CASE stored' = stored
      BY <2>1, <2>2, <2>3 DEF Memory!ValueInv, Memory!StillThere
    <2> DEFINE new == [type |-> ipc.request.type, addr |-> ipc.addr,
                       value |-> Memory!Signed(ipc.request.type, ipc.request.text.v)]
    <2>4. CASE /\ Memory!BytesThere = Memory!Encode(ipc.request.type, ipc.request.text)
               /\ stored' = new
      <3>1. /\ ipc.request.type \in {"u8", "u16", "i32"}
            /\ ipc.request.text \in [hex : BOOLEAN, v : Int]
            /\ new.addr + Memory!SizeOf(new.type) <= AddressLimit
        BY <2>1, CommandRange, RequestFacts
      <3>2. Memory!InRange(ipc.request.type, ipc.request.text)
        BY <2>1 DEF Memory!CommandInv
      <3>3. Memory!Decode(new.type, Memory!Bytes(new.addr, new.type)) = new.value
        BY <2>4, <3>1, <3>2, ReadBack DEF Memory!BytesThere
      <3> HIDE DEF new
      <3> QED
        BY <2>1, <2>2, <2>4, <3>1, <3>3 DEF Memory!ValueInv, Memory!StillThere
    <2> QED
      BY <1>9, <2>3, <2>4 DEF Memory!VerifyWrite
  <1>10. ASSUME NEW a \in Memory!Addresses, Memory!GameWrites(a) PROVE Memory!ValueInv'
    <2>1. stored' = Memory!Nothing /\ shown' = Memory!Nothing
      BY <1>10 DEF Memory!GameWrites
    <2> QED
      BY <2>1 DEF Memory!ValueInv, Memory!StillThere
  <1>11. ASSUME NEW r \in DOMAIN Regions, NEW p \in {"ro", "rw", "xr", "xrw", "none"}, Memory!GameProtects(r, p) PROVE Memory!ValueInv'
    <2>1. UNCHANGED <<mem, stored, shown>>
      BY <1>11 DEF Memory!GameProtects
    <2>2. ipc'.pc \notin {"restore", "verify"} => ipc.pc \notin {"restore", "verify"}
      BY <1>11 DEF Memory!GameProtects
    <2> QED
      BY <2>1, <2>2, ValuesStay
  <1>12. CASE UNCHANGED memoryVars
    BY <1>12 DEF memoryVars, Memory!ValueInv, Memory!StillThere, Memory!Bytes
  <1> QED
    BY <1>1, <1>2, <1>3, <1>4, <1>5, <1>6, <1>7, <1>8, <1>9, <1>10, <1>11, <1>12
       DEF Memory!Next, Memory!RegionIds

-----------------------------------------------------------------------------
(* Memory: the theorems.                                                   *)

LEMMA MemoryInit == Init => Memory!IInv
  <1> SUFFICES ASSUME Memory!Init PROVE Memory!IInv
    BY DEF Init
  <1> USE MemoryAssumption DEF Memory!Init
  <1>1. Memory!SpaceTypes
    <2>1. protect \in [Memory!RegionIds -> Memory!Protections]
      BY DEF Memory!RegionIds
    <2> QED
      BY <2>1 DEF Memory!SpaceTypes, Memory!Values, Memory!Base
  <1>2. Memory!CountTypes /\ Memory!IpcTypes
    <2>1. gameSteps \in 0..MaxGameSteps /\ requests \in 0..MaxRequests
      OBVIOUS
    <2>2. overtaken \in BOOLEAN /\ failed = {} /\ lost = {}
      OBVIOUS
    <2> QED
      BY <2>1, <2>2 DEF Memory!CountTypes, Memory!IpcTypes
  <1>3. Memory!CommandInv
    BY DEF Memory!CommandInv, Memory!Checked, Memory!Idle
  <1>4. Memory!ProtectInv /\ Memory!SeenInv
    BY DEF Memory!ProtectInv, Memory!SeenInv, Memory!Left, Memory!Unrestored, Memory!Idle
  <1>5. Memory!ValueInv
    BY DEF Memory!ValueInv, Memory!StillThere
  <1> QED
    BY <1>1, <1>2, <1>3, <1>4, <1>5 DEF Memory!IInv, Memory!TypeOK

\* Every step of the runtime is one of the memory commands and the game, or
\* leaves memory alone.
LEMMA MemoryFrame == [Next]_vars => [Memory!Next]_memoryVars
  BY DEF Next, vars, SettingsStep, WindowStep, RefsStep, PipeStep, MemoryStep, FilesStep, CrashStep

LEMMA MemoryInvariant == Spec => []Memory!IInv
  <1>1. Memory!IInv /\ [Next]_vars => Memory!IInv'
    BY MemoryFrame, SpaceTypesStep, CountTypesStep, IpcTypesStep, CommandStep, SeenStep, ProtectStep,
       ValueStep
       DEF Memory!IInv, Memory!TypeOK
  <1> QED
    BY MemoryInit, <1>1, PTL DEF Spec

\* Whatever regions and commands there are, whenever the system refuses a change
\* of protection and whenever the game makes one: after a command every region
\* has the protection the game asked for, or the opened one where giving it back
\* failed, but for those the game changed while a command had their protection;
\* and a value reported as written reads back until somebody writes there.
THEOREM MemoryIsHeld == Spec => []MemoryHolds
  <1>1. Memory!IInv => MemoryHolds
    <2> SUFFICES ASSUME Memory!IInv PROVE MemoryHolds
      OBVIOUS
    <2>1. Memory!ProtectionRestored
      BY DEF Memory!IInv, Memory!ProtectInv, Memory!Unrestored, Memory!ProtectionRestored
    <2>2. Memory!ReadBackValue
      <3> SUFFICES ASSUME stored.type # "none", shown.type = stored.type, shown.addr = stored.addr
                   PROVE  shown.value = stored.value
        BY DEF Memory!ReadBackValue
      <3>1. stored # Memory!Nothing /\ shown # Memory!Nothing
        BY DEF Memory!Nothing
      <3>2. Memory!StillThere(stored)
        BY DEF Memory!IInv, Memory!ValueInv
      <3>3. Memory!StillThere(shown)
        BY <3>1 DEF Memory!IInv, Memory!ValueInv
      <3> QED
        BY <3>1, <3>2, <3>3 DEF Memory!StillThere
    <2> QED
      BY <2>1, <2>2 DEF MemoryHolds, Memory!IInv
  <1> QED
    BY MemoryInvariant, <1>1, PTL

\* The write changes bytes of the region that was checked only.
LEMMA WriteNeedsConsent ==
  ASSUME Memory!IInv, [Memory!Next]_memoryVars, ipc.pc = "write", ipc'.pc # "write", ~overtaken,
         NEW a \in Memory!Addresses, mem'[a] # mem[a], Memory!IsCode(Memory!RegionOf(a))
  PROVE  ipc.request.unsafe
  <1>1. Memory!WriteBytes
    BY DEF memoryVars, Memory!Next, Memory!HandleMemRead, Memory!HandleMemWrite, Memory!Begin,
           Memory!QueryMemoryRegion, Memory!ReadBytes, Memory!ReadBefore, Memory!ProtectForWrite,
           Memory!RestoreProtection, Memory!VerifyWrite, Memory!GameWrites, Memory!GameProtects
  <1>2. a \in Memory!Range
    <2>1. mem \in [Memory!Addresses -> 0..(Memory!Base - 1)]
      BY DEF Memory!IInv, Memory!TypeOK, Memory!SpaceTypes
    <2> QED
      BY <1>1, <2>1 DEF Memory!WriteBytes
  <1>3. Memory!RegionOf(a) = Memory!RegionOf(ipc.addr)
    BY <1>2, CommandRange DEF Memory!Checked
  <1> DEFINE r == Memory!RegionOf(ipc.addr)
  <1>4. Memory!Consent(ipc.seen, ipc.request)
    BY DEF Memory!IInv, Memory!CommandInv
  <1>5. r \in Memory!RegionIds
    BY CommandRange, RegionFound DEF Memory!Checked, Memory!RegionIds
  <1>6. (IF Memory!Unrestored THEN ipc.old ELSE protect[r]) = ipc.seen
    BY DEF Memory!IInv, Memory!SeenInv
  <1>7. protect[r] \in {ipc.seen, Memory!Opened(ipc.seen)}
    BY <1>6 DEF Memory!IInv, Memory!SeenInv
  <1>8. r \in lost \/ ipc.seen = Memory!Left(r)
    BY <1>5, <1>6 DEF Memory!IInv, Memory!ProtectInv
  <1>9. Memory!Executable(ipc.seen)
    <2>1. CASE Memory!Executable(protect[r])
      BY <1>7, <2>1 DEF Memory!Opened, Memory!Executable
    <2>2. CASE r \notin lost /\ Memory!Executable(asked[r])
      BY <1>8, <2>2 DEF Memory!Left, Memory!Opened, Memory!Executable
    <2> QED
      BY <1>3, <2>1, <2>2 DEF Memory!IsCode
  <1> QED
    BY <1>4, <1>9 DEF Memory!Consent

\* A command without consent changes no byte that can be executed or that the
\* game calls code, neither at the edge of a region nor by its last byte, unless
\* the game changed the region's protection after the check.
THEOREM CodeIsGuarded == Spec => CodeNeedsConsent
  <1> DEFINE Guarded == (ipc.pc = "write" /\ ipc'.pc # "write" /\ ~overtaken) =>
               \A a \in Memory!Addresses :
                 (mem'[a] # mem[a] /\ Memory!IsCode(Memory!RegionOf(a))) => ipc.request.unsafe
  <1>1. Memory!IInv /\ [Next]_vars => [Guarded]_memoryVars
    BY MemoryFrame, WriteNeedsConsent
  <1>2. Spec => [][Guarded]_memoryVars
    BY MemoryInvariant, <1>1, PTL DEF Spec
  <1> QED
    BY <1>2 DEF CodeNeedsConsent, Memory!CodeNeedsConsent, Memory!vars, memoryVars

-----------------------------------------------------------------------------
(* Loose files.                                                            *)

\* What a request is led to is a file of the gamepatch directory, or none.
LEMMA CandidateType ==
  ASSUME NEW l \in {"package", "text"}, NEW r \in Resources
  PROVE  Loose!Candidate(l, r) \in Loose!Files \union {Loose!NoFile}
  BY DEF Loose!Files

\* A thread that is in a hook has a request.
LEMMA InHook ==
  ASSUME Loose!CallTypes, NEW t \in Threads, call[t].pc \notin {"idle", "closed"}
  PROVE  call[t] \in Loose!Calls
  BY DEF Loose!CallTypes, Loose!Idle, Loose!Closing

\* A request stays one when it goes on, when its event, view, edit or slot changes.
LEMMA RequestGoesOn ==
  ASSUME NEW c \in Loose!Calls,
         NEW pc \in {"validate", "map", "claim", "cpk", "find", "fill", "count", "script", "direct"}
  PROVE  /\ [c EXCEPT !.pc = pc] \in Loose!Calls
         /\ [c EXCEPT !.pc = pc, !.event = "override_error"] \in Loose!Calls
         /\ [c EXCEPT !.pc = pc, !.by = "game"] \in Loose!Calls
         /\ \A view \in Loose!Contents : [c EXCEPT !.pc = pc, !.view = view] \in Loose!Calls
         /\ \A i \in 0..SlotCount : [c EXCEPT !.pc = pc, !.slot = i] \in Loose!Calls
         /\ [c EXCEPT !.edited = TRUE] \in Loose!Calls
  <1> USE DEF Loose!Calls
  <1>1. /\ [c EXCEPT !.pc = pc] \in Loose!Calls
        /\ [c EXCEPT !.pc = pc, !.event = "override_error"] \in Loose!Calls
        /\ [c EXCEPT !.pc = pc, !.by = "game"] \in Loose!Calls
        /\ [c EXCEPT !.edited = TRUE] \in Loose!Calls
    <2>1. [c EXCEPT !.pc = pc] \in Loose!Calls /\ [c EXCEPT !.edited = TRUE] \in Loose!Calls
      OBVIOUS
    <2>2. [c EXCEPT !.pc = pc, !.event = "override_error"] \in Loose!Calls
      OBVIOUS
    <2>3. [c EXCEPT !.pc = pc, !.by = "game"] \in Loose!Calls
      OBVIOUS
    <2> QED
      BY <2>1, <2>2, <2>3
  <1>2. \A view \in Loose!Contents : [c EXCEPT !.pc = pc, !.view = view] \in Loose!Calls
    OBVIOUS
  <1>3. \A i \in 0..SlotCount : [c EXCEPT !.pc = pc, !.slot = i] \in Loose!Calls
    OBVIOUS
  <1> QED
    BY <1>1, <1>2, <1>3

\* What stays of a request that goes on.
SameRequest(d, c) == d.loader = c.loader /\ d.mode = c.mode /\ d.file = c.file /\ d.edited = c.edited
LEMMA ToPackage ==
  ASSUME NEW c \in Loose!Calls, NEW d, d = [c EXCEPT !.pc = "cpk", !.event = "override_error"]
  PROVE  d.pc = "cpk" /\ SameRequest(d, c)
  BY DEF Loose!Calls, SameRequest
LEMMA ToFind ==
  ASSUME NEW c \in Loose!Calls, NEW d, d = [c EXCEPT !.pc = "find"]
  PROVE  d.pc = "find" /\ SameRequest(d, c) /\ d.view = c.view
  BY DEF Loose!Calls, SameRequest

\* The requests keep their fields.
LEMMA CallTypesStep == Loose!IInv /\ [Loose!Next]_fileVars => Loose!CallTypes'
  <1> SUFFICES ASSUME Loose!IInv, [Loose!Next]_fileVars PROVE Loose!CallTypes'
    OBVIOUS
  <1> USE RuntimeAssumption DEF Loose!IInv, Loose!CallTypes, Loose!rest, Loose!world, Loose!pool,
         Loose!Answer, Loose!Continue
  <1>1. ASSUME NEW t \in Threads, NEW loader \in {"package", "text"}, NEW r \in Resources, Loose!Request(t, loader, r)
        PROVE  Loose!CallTypes'
    <2>1. PICK start \in {"validate", "cpk", "script", "direct"},
               found \in BOOLEAN,
               event \in {"overlay_disabled", "mirror_compare", "cpk_fallback"} :
            call' = [call EXCEPT ![t] = [pc |-> start, loader |-> loader, resource |-> r,
                       mode |-> mode, file |-> Loose!Candidate(loader, r), found |-> found,
                       event |-> event, view |-> "none", edited |-> FALSE, by |-> "hook",
                       slot |-> 0]]
      BY ZenonT(60), <1>1 DEF Loose!Request, Loose!Exists
    <2>2. mode \in Loose!Modes
      BY DEF Loose!TypeOK
    <2>3. Loose!Candidate(loader, r) \in Loose!Files \union {Loose!NoFile}
      BY CandidateType
    <2> QED
      BY <2>1, <2>2, <2>3 DEF Loose!Calls
  <1>2. ASSUME NEW t \in Threads, Loose!ValidateLoosePackageFile(t)
        PROVE  Loose!CallTypes'
    <2>1. call[t] \in Loose!Calls
      BY <1>2, InHook DEF Loose!ValidateLoosePackageFile
    <2>2. \A pc \in {"map", "cpk"} : [call[t] EXCEPT !.pc = pc] \in Loose!Calls
      BY <2>1, RequestGoesOn
    <2> QED
      BY <1>2, <2>2 DEF Loose!ValidateLoosePackageFile
  <1>3. ASSUME NEW t \in Threads, Loose!MapLooseFile(t)
        PROVE  Loose!CallTypes'
    <2>1. call[t] \in Loose!Calls
      BY <1>3, InHook DEF Loose!MapLooseFile
    <2>2. CASE Loose!OverrideError(t)
      <3>1. [call[t] EXCEPT !.pc = "cpk", !.event = "override_error"] \in Loose!Calls
        BY <2>1, RequestGoesOn
      <3> QED
        BY <2>2, <3>1 DEF Loose!OverrideError
    <2>3. CASE ~Loose!OverrideError(t)
      <3>1. patch[call[t].file] \in Loose!Contents
        BY <1>3, <2>1, <2>3 DEF Loose!MapLooseFile, Loose!RouteInv, Loose!Calls, Loose!TypeOK
      <3>2. [call[t] EXCEPT !.pc = "claim", !.view = patch[call[t].file]] \in Loose!Calls
        BY <2>1, <3>1, RequestGoesOn
      <3> QED
        BY <1>3, <2>3, <3>2 DEF Loose!MapLooseFile
    <2> QED
      BY <2>2, <2>3
  <1>4. ASSUME NEW t \in Threads, Loose!ClaimHandle(t)
        PROVE  Loose!CallTypes'
    <2>1. call[t] \in Loose!Calls
      BY <1>4, InHook DEF Loose!ClaimHandle
    <2>2. /\ [call[t] EXCEPT !.pc = "cpk", !.event = "override_error"] \in Loose!Calls
          /\ [call[t] EXCEPT !.pc = "find"] \in Loose!Calls
      BY <2>1, RequestGoesOn
    <2> QED
      BY <1>4, <2>2 DEF Loose!ClaimHandle, Loose!OverrideError
  <1>5. ASSUME NEW t \in Threads, Loose!CallOriginalPackage(t)
        PROVE  Loose!CallTypes'
    <2>1. call[t] \in Loose!Calls
      BY <1>5, InHook DEF Loose!CallOriginalPackage
    <2>2. [call[t] EXCEPT !.pc = "find", !.by = "game"] \in Loose!Calls
      BY <2>1, RequestGoesOn
    <2> QED
      BY <1>5, <2>2 DEF Loose!CallOriginalPackage
  <1>6. ASSUME NEW t \in Threads, Loose!FindFreePackageHandleSlot(t)
        PROVE  Loose!CallTypes'
    <2>1. call[t] \in Loose!Calls
      BY <1>6, InHook DEF Loose!FindFreePackageHandleSlot
    <2>2. /\ [call[t] EXCEPT !.pc = "cpk", !.event = "override_error"] \in Loose!Calls
          /\ \A i \in 1..SlotCount : [call[t] EXCEPT !.pc = "fill", !.slot = i] \in Loose!Calls
      <3>1. \A i \in 1..SlotCount : i \in 0..SlotCount
        OBVIOUS
      <3> HIDE DEF Loose!CallTypes
      <3> QED
        BY <2>1, <3>1, RequestGoesOn
    <2> QED
      BY <1>6, <2>2 DEF Loose!FindFreePackageHandleSlot, Loose!OverrideError
  <1>7. ASSUME NEW t \in Threads, Loose!FillHandle(t)
        PROVE  Loose!CallTypes'
    <2>1. call[t] \in Loose!Calls
      BY <1>7, InHook DEF Loose!FillHandle
    <2>2. [call[t] EXCEPT !.pc = "count"] \in Loose!Calls
      BY <2>1, RequestGoesOn
    <2> QED
      BY <1>7, <2>2 DEF Loose!FillHandle
  <1>8. ASSUME NEW t \in Threads, Loose!CountHandle(t)
        PROVE  Loose!CallTypes'
    BY <1>8 DEF Loose!CountHandle
  <1>9. ASSUME NEW t \in Threads, Loose!LoadTextScript(t)
        PROVE  Loose!CallTypes'
    BY <1>9 DEF Loose!LoadTextScript, Loose!ScriptMissing, Loose!ScriptRead, Loose!ScriptRefused
  <1>10. ASSUME NEW t \in Threads, Loose!CallOriginalTextScript(t)
        PROVE  Loose!CallTypes'
    BY <1>10 DEF Loose!CallOriginalTextScript
  <1>11. ASSUME NEW t \in Threads, NEW i \in 1..SlotCount, Loose!Close(t, i)
        PROVE  Loose!CallTypes'
    BY <1>11 DEF Loose!Close
  <1>12. ASSUME NEW t \in Threads, Loose!CountClosed(t)
        PROVE  Loose!CallTypes'
    BY <1>12 DEF Loose!CountClosed
  <1>13. ASSUME NEW f \in Loose!Files, NEW content \in Loose!Contents, Loose!EditPatch(f, content)
        PROVE  Loose!CallTypes'
    <2>1. \A t \in Threads : call[t].pc \notin {"idle", "closed"}
                               => [call[t] EXCEPT !.edited = TRUE] \in Loose!Calls
      <3> SUFFICES ASSUME NEW t \in Threads, call[t].pc \notin {"idle", "closed"}
                   PROVE  [call[t] EXCEPT !.edited = TRUE] \in Loose!Calls
        OBVIOUS
      <3>1. call[t] \in Loose!Calls
        BY InHook
      <3> QED
        BY <3>1, RequestGoesOn
    <2> QED
      BY <1>13, <2>1 DEF Loose!EditPatch
  <1>14. ASSUME NEW m \in Loose!Modes, Loose!SetHookMode(m)
        PROVE  Loose!CallTypes'
    BY <1>14 DEF Loose!SetHookMode
  <1>15. CASE UNCHANGED fileVars
    BY <1>15 DEF fileVars
  <1> QED
    BY <1>1, <1>2, <1>3, <1>4, <1>5, <1>6, <1>7, <1>8,
       <1>9, <1>10, <1>11, <1>12, <1>13, <1>14, <1>15 DEF Loose!Next, Loose!Load

\* A request goes through one hook, in the mode it read, with a file and a slot.
LEMMA RouteStep == Loose!IInv /\ [Loose!Next]_fileVars => Loose!RouteInv'
  <1> SUFFICES ASSUME Loose!IInv, [Loose!Next]_fileVars PROVE Loose!RouteInv'
    OBVIOUS
  <1> USE RuntimeAssumption DEF Loose!IInv, Loose!TypeOK, Loose!CallTypes, Loose!Calls,
         Loose!RouteInv, Loose!Claiming, Loose!Idle, Loose!Closing, Loose!rest, Loose!world,
         Loose!pool, Loose!Answer, Loose!Continue
  <1>1. ASSUME NEW t \in Threads, NEW loader \in {"package", "text"}, NEW r \in Resources, Loose!Request(t, loader, r)
        PROVE  Loose!RouteInv'
    <2> DEFINE start == call'[t].pc
    <2>1. /\ \A u \in Threads \ {t} : call'[u] = call[u]
          /\ call'[t].loader = loader /\ call'[t].mode = mode
          /\ call'[t].file = Loose!Candidate(loader, r)
      BY <1>1 DEF Loose!Request
    <2>2. CASE loader = "package"
      BY <1>1, <2>1, <2>2 DEF Loose!Request, Loose!Exists
    <2>3. CASE loader = "text"
      BY <1>1, <2>1, <2>3 DEF Loose!Request
    <2> QED
      BY <2>2, <2>3
  <1>2. ASSUME NEW t \in Threads, Loose!ValidateLoosePackageFile(t)
        PROVE  Loose!RouteInv'
    BY <1>2 DEF Loose!ValidateLoosePackageFile
  <1>3. ASSUME NEW t \in Threads, Loose!MapLooseFile(t)
        PROVE  Loose!RouteInv'
    <2>1. /\ call[t] \in Loose!Calls /\ call[t].pc = "map"
          /\ patch' = patch /\ \A u \in Threads \ {t} : call'[u] = call[u]
      BY <1>3, InHook DEF Loose!MapLooseFile, Loose!OverrideError
    <2>2. \/ call'[t] \in {Loose!Idle, [call[t] EXCEPT !.pc = "cpk", !.event = "override_error"]}
          \/ call'[t] = [call[t] EXCEPT !.pc = "claim", !.view = patch[call[t].file]]
      BY <1>3 DEF Loose!MapLooseFile, Loose!OverrideError
    <2>3. \/ call'[t] = Loose!Idle
          \/ /\ call'[t].pc \in {"cpk", "claim"} /\ SameRequest(call'[t], call[t])
             /\ call'[t].pc = "claim" => call'[t].view = patch[call[t].file]
      <3> HIDE DEF Loose!Calls, Loose!RouteInv, Loose!ViewInv, Loose!CallTypes, Loose!TypeOK
      <3>1. CASE call'[t] = Loose!Idle
        BY <3>1
      <3>2. CASE call'[t] = [call[t] EXCEPT !.pc = "cpk", !.event = "override_error"]
        BY <2>1, <3>2, ToPackage
      <3>3. CASE call'[t] = [call[t] EXCEPT !.pc = "claim", !.view = patch[call[t].file]]
        BY <2>1, <3>3 DEF Loose!Calls, SameRequest
      <3> QED
        BY <2>2, <3>1, <3>2, <3>3
    <2> QED
      BY <2>1, <2>3 DEF SameRequest
  <1>4. ASSUME NEW t \in Threads, Loose!ClaimHandle(t)
        PROVE  Loose!RouteInv'
    <2>1. /\ call[t] \in Loose!Calls /\ call[t].pc = "claim"
          /\ patch' = patch /\ \A u \in Threads \ {t} : call'[u] = call[u]
      BY <1>4, InHook DEF Loose!ClaimHandle, Loose!OverrideError
    <2>2. \/ call'[t] \in {Loose!Idle, [call[t] EXCEPT !.pc = "cpk", !.event = "override_error"]}
          \/ call'[t] = [call[t] EXCEPT !.pc = "find"]
      BY <1>4 DEF Loose!ClaimHandle, Loose!OverrideError
    <2>3. \/ call'[t] = Loose!Idle
          \/ /\ call'[t].pc \in {"cpk", "find"} /\ SameRequest(call'[t], call[t])
             /\ call'[t].pc = "find" => call'[t].view = call[t].view
      <3> HIDE DEF Loose!Calls, Loose!RouteInv, Loose!ViewInv, Loose!CallTypes, Loose!TypeOK
      <3>1. CASE call'[t] = Loose!Idle
        BY <3>1
      <3>2. CASE call'[t] = [call[t] EXCEPT !.pc = "cpk", !.event = "override_error"]
        BY <2>1, <3>2, ToPackage
      <3>3. CASE call'[t] = [call[t] EXCEPT !.pc = "find"]
        BY <2>1, <3>3, ToFind
      <3> QED
        BY <2>2, <3>1, <3>2, <3>3
    <2> QED
      BY <2>1, <2>3 DEF SameRequest
  <1>5. ASSUME NEW t \in Threads, Loose!CallOriginalPackage(t)
        PROVE  Loose!RouteInv'
    <2>1. call[t] \in Loose!Calls /\ \A u \in Threads \ {t} : call'[u] = call[u]
      BY <1>5, InHook DEF Loose!CallOriginalPackage, Loose!OverrideError
    <2>2. call'[t] \in {Loose!Idle, [call[t] EXCEPT !.pc = "cpk", !.event = "override_error"],
                        [call[t] EXCEPT !.pc = "find", !.by = "game"]}
      BY <1>5 DEF Loose!CallOriginalPackage, Loose!OverrideError
    <2> QED
      BY <1>5, <2>1, <2>2 DEF Loose!CallOriginalPackage
  <1>6. ASSUME NEW t \in Threads, Loose!FindFreePackageHandleSlot(t)
        PROVE  Loose!RouteInv'
    <2>1. /\ call[t] \in Loose!Calls /\ call[t].pc = "find"
          /\ patch' = patch /\ \A u \in Threads \ {t} : call'[u] = call[u]
      BY <1>6, InHook DEF Loose!FindFreePackageHandleSlot, Loose!OverrideError
    <2>2. \/ call'[t] \in {Loose!Idle, [call[t] EXCEPT !.pc = "cpk", !.event = "override_error"]}
          \/ \E i \in 1..SlotCount : call'[t] = [call[t] EXCEPT !.pc = "fill", !.slot = i]
      BY <1>6 DEF Loose!FindFreePackageHandleSlot, Loose!OverrideError
    <2>3. \/ call'[t] = Loose!Idle
          \/ /\ call'[t].pc \in {"cpk", "fill"} /\ SameRequest(call'[t], call[t])
             /\ call'[t].pc = "fill" =>
                  call'[t].slot # 0 /\ call'[t].view = call[t].view /\ call'[t].by = call[t].by
      <3> HIDE DEF Loose!Calls, Loose!RouteInv, Loose!ViewInv, Loose!CallTypes, Loose!TypeOK
      <3>1. CASE call'[t] = Loose!Idle
        BY <3>1
      <3>2. CASE call'[t] = [call[t] EXCEPT !.pc = "cpk", !.event = "override_error"]
        BY <2>1, <3>2, ToPackage
      <3>3. ASSUME NEW i \in 1..SlotCount, call'[t] = [call[t] EXCEPT !.pc = "fill", !.slot = i]
            PROVE  call'[t].pc = "fill" /\ SameRequest(call'[t], call[t])
                   /\ call'[t].slot # 0 /\ call'[t].view = call[t].view /\ call'[t].by = call[t].by
        <4>1. i # 0
          OBVIOUS
        <4>2. call'[t].pc = "fill" /\ SameRequest(call'[t], call[t]) /\ call'[t].slot = i
              /\ call'[t].view = call[t].view /\ call'[t].by = call[t].by
          BY <2>1, <3>3 DEF Loose!Calls, SameRequest
        <4> QED
          BY <4>1, <4>2
      <3> QED
        BY <2>2, <3>1, <3>2, <3>3
    <2> QED
      BY <2>1, <2>3 DEF SameRequest
  <1>7. ASSUME NEW t \in Threads, Loose!FillHandle(t)
        PROVE  Loose!RouteInv'
    BY <1>7 DEF Loose!FillHandle
  <1>8. ASSUME NEW t \in Threads, Loose!CountHandle(t)
        PROVE  Loose!RouteInv'
    BY <1>8 DEF Loose!CountHandle
  <1>9. ASSUME NEW t \in Threads, Loose!LoadTextScript(t)
        PROVE  Loose!RouteInv'
    BY <1>9 DEF Loose!LoadTextScript, Loose!ScriptMissing, Loose!ScriptRead, Loose!ScriptRefused
  <1>10. ASSUME NEW t \in Threads, Loose!CallOriginalTextScript(t)
        PROVE  Loose!RouteInv'
    BY <1>10 DEF Loose!CallOriginalTextScript
  <1>11. ASSUME NEW t \in Threads, NEW i \in 1..SlotCount, Loose!Close(t, i)
        PROVE  Loose!RouteInv'
    BY <1>11 DEF Loose!Close
  <1>12. ASSUME NEW t \in Threads, Loose!CountClosed(t)
        PROVE  Loose!RouteInv'
    BY <1>12 DEF Loose!CountClosed
  <1>13. ASSUME NEW f \in Loose!Files, NEW content \in Loose!Contents, Loose!EditPatch(f, content)
        PROVE  Loose!RouteInv'
    BY <1>13 DEF Loose!EditPatch
  <1>14. ASSUME NEW m \in Loose!Modes, Loose!SetHookMode(m)
        PROVE  Loose!RouteInv'
    BY <1>14 DEF Loose!SetHookMode
  <1>15. CASE UNCHANGED fileVars
    BY <1>15 DEF fileVars
  <1> QED
    BY <1>1, <1>2, <1>3, <1>4, <1>5, <1>6, <1>7, <1>8,
       <1>9, <1>10, <1>11, <1>12, <1>13, <1>14, <1>15 DEF Loose!Next, Loose!Load

-----------------------------------------------------------------------------
(* The pool.                                                               *)

\* The instance counts a set as everybody does.
LEMMA CardinalityHere == \A S : Loose!Cardinality(S) = Cardinality(S)
  BY DEF Loose!Cardinality, Cardinality

\* Handles of the pool are finitely many, and no more than there are.
LEMMA SlotsAreFew ==
  ASSUME NEW S \in SUBSET (1..SlotCount)
  PROVE  IsFiniteSet(S) /\ Cardinality(S) \in Nat
  <1>1. IsFiniteSet(1..SlotCount)
    BY FS_Interval, RuntimeAssumption
  <1>2. IsFiniteSet(S)
    BY <1>1, FS_Subset
  <1> QED
    BY <1>2, FS_CardinalityType

LEMMA OpenSlotsFinite == IsFiniteSet(Loose!OpenSlots) /\ Cardinality(Loose!OpenSlots) \in Nat
  BY SlotsAreFew DEF Loose!OpenSlots

\* A free slot that becomes a handle is one more open handle.
LEMMA SlotFilled ==
  ASSUME Loose!HandleTypes, NEW i \in 1..SlotCount, handles[i] = Loose!Free,
         NEW h, h # Loose!Free, handles' = [handles EXCEPT ![i] = h]
  PROVE  Loose!Cardinality(Loose!OpenSlots)' = Loose!Cardinality(Loose!OpenSlots) + 1
  <1>1. Loose!OpenSlots' = Loose!OpenSlots \union {i} /\ i \notin Loose!OpenSlots
    BY DEF Loose!OpenSlots, Loose!HandleTypes
  <1>2. Cardinality(Loose!OpenSlots') = Cardinality(Loose!OpenSlots) + 1
    BY <1>1, OpenSlotsFinite, FS_AddElement
  <1> QED
    BY <1>2, CardinalityHere

\* A handle freed is one open handle less.
LEMMA SlotFreed ==
  ASSUME Loose!HandleTypes, NEW i \in 1..SlotCount, handles[i] # Loose!Free,
         handles' = [handles EXCEPT ![i] = Loose!Free]
  PROVE  Loose!Cardinality(Loose!OpenSlots)' = Loose!Cardinality(Loose!OpenSlots) - 1
  <1>1. Loose!OpenSlots' = Loose!OpenSlots \ {i} /\ i \in Loose!OpenSlots
    BY DEF Loose!OpenSlots, Loose!HandleTypes
  <1>2. Cardinality(Loose!OpenSlots') = Cardinality(Loose!OpenSlots) - 1
    BY <1>1, OpenSlotsFinite, FS_RemoveElement
  <1> QED
    BY <1>2, CardinalityHere

\* A mapped file, and a resource of the package, become a handle.
LEMMA HandleMade ==
  ASSUME Loose!CallTypes, Loose!RouteInv, Loose!ViewInv, NEW t \in Threads, call[t].pc = "fill"
  PROVE  Loose!Handle(t) \in Loose!Handles /\ Loose!Handle(t) # Loose!Free
  <1>1. call[t] \in Loose!Calls
    BY InHook
  <1>2. CASE call[t].by = "game"
    BY <1>2 DEF Loose!Handle, Loose!Handles, Loose!Free
  <1>3. CASE call[t].by # "game"
    <2>1. /\ call[t].file \in Loose!Files /\ call[t].view \in Loose!Contents
          /\ call[t].edited \in BOOLEAN
      BY <1>1, <1>3 DEF Loose!Calls, Loose!RouteInv, Loose!ViewInv, Loose!Claiming
    <2> QED
      BY <1>3, <2>1 DEF Loose!Handle, Loose!Handles, Loose!Free
  <1> QED
    BY <1>2, <1>3

\* The handles keep their fields.
LEMMA HandleTypesStep == Loose!IInv /\ [Loose!Next]_fileVars => Loose!HandleTypes'
  <1> SUFFICES ASSUME Loose!IInv, [Loose!Next]_fileVars PROVE Loose!HandleTypes'
    OBVIOUS
  <1> USE DEF Loose!IInv, Loose!HandleTypes, Loose!rest, Loose!world, Loose!pool
  <1>1. ASSUME NEW t \in Threads, NEW loader \in {"package", "text"}, NEW r \in Resources, Loose!Request(t, loader, r)
        PROVE  Loose!HandleTypes'
    BY <1>1 DEF Loose!Request
  <1>2. ASSUME NEW t \in Threads, Loose!ValidateLoosePackageFile(t)
        PROVE  Loose!HandleTypes'
    BY <1>2 DEF Loose!ValidateLoosePackageFile
  <1>3. ASSUME NEW t \in Threads, Loose!MapLooseFile(t)
        PROVE  Loose!HandleTypes'
    BY <1>3 DEF Loose!MapLooseFile, Loose!OverrideError
  <1>4. ASSUME NEW t \in Threads, Loose!ClaimHandle(t)
        PROVE  Loose!HandleTypes'
    BY <1>4 DEF Loose!ClaimHandle, Loose!OverrideError
  <1>5. ASSUME NEW t \in Threads, Loose!CallOriginalPackage(t)
        PROVE  Loose!HandleTypes'
    BY <1>5 DEF Loose!CallOriginalPackage
  <1>6. ASSUME NEW t \in Threads, Loose!FindFreePackageHandleSlot(t)
        PROVE  Loose!HandleTypes'
    BY <1>6 DEF Loose!FindFreePackageHandleSlot, Loose!OverrideError
  <1>7. ASSUME NEW t \in Threads, Loose!FillHandle(t)
        PROVE  Loose!HandleTypes'
    <2>1. Loose!Handle(t) \in Loose!Handles
      BY <1>7, HandleMade DEF Loose!FillHandle
    <2> QED
      BY <1>7, <2>1 DEF Loose!FillHandle
  <1>8. ASSUME NEW t \in Threads, Loose!CountHandle(t)
        PROVE  Loose!HandleTypes'
    BY <1>8 DEF Loose!CountHandle
  <1>9. ASSUME NEW t \in Threads, Loose!LoadTextScript(t)
        PROVE  Loose!HandleTypes'
    BY <1>9 DEF Loose!LoadTextScript, Loose!ScriptMissing, Loose!ScriptRead, Loose!ScriptRefused
  <1>10. ASSUME NEW t \in Threads, Loose!CallOriginalTextScript(t)
        PROVE  Loose!HandleTypes'
    BY <1>10 DEF Loose!CallOriginalTextScript
  <1>11. ASSUME NEW t \in Threads, NEW i \in 1..SlotCount, Loose!Close(t, i)
        PROVE  Loose!HandleTypes'
    BY <1>11 DEF Loose!Close, Loose!Handles
  <1>12. ASSUME NEW t \in Threads, Loose!CountClosed(t)
        PROVE  Loose!HandleTypes'
    BY <1>12 DEF Loose!CountClosed
  <1>13. ASSUME NEW f \in Loose!Files, NEW content \in Loose!Contents, Loose!EditPatch(f, content)
        PROVE  Loose!HandleTypes'
    BY <1>13 DEF Loose!EditPatch
  <1>14. ASSUME NEW m \in Loose!Modes, Loose!SetHookMode(m)
        PROVE  Loose!HandleTypes'
    BY <1>14 DEF Loose!SetHookMode
  <1>15. CASE UNCHANGED fileVars
    BY <1>15 DEF fileVars
  <1> QED
    BY <1>1, <1>2, <1>3, <1>4, <1>5, <1>6, <1>7, <1>8,
       <1>9, <1>10, <1>11, <1>12, <1>13, <1>14, <1>15 DEF Loose!Next, Loose!Load

\* What was validated stays valid unless it is edited.
LEMMA ViewStep == Loose!IInv /\ [Loose!Next]_fileVars => Loose!ViewInv'
  <1> SUFFICES ASSUME Loose!IInv, [Loose!Next]_fileVars PROVE Loose!ViewInv'
    OBVIOUS
  <1> USE RuntimeAssumption DEF Loose!IInv, Loose!TypeOK, Loose!CallTypes, Loose!Calls,
         Loose!RouteInv, Loose!ViewInv, Loose!Claiming, Loose!Idle, Loose!Closing, Loose!Valid,
         Loose!rest, Loose!world, Loose!pool, Loose!Answer, Loose!Continue
  <1>1. ASSUME NEW t \in Threads, NEW loader \in {"package", "text"}, NEW r \in Resources, Loose!Request(t, loader, r)
        PROVE  Loose!ViewInv'
    BY <1>1 DEF Loose!Request
  <1>2. ASSUME NEW t \in Threads, Loose!ValidateLoosePackageFile(t)
        PROVE  Loose!ViewInv'
    BY <1>2 DEF Loose!ValidateLoosePackageFile
  <1>3. ASSUME NEW t \in Threads, Loose!MapLooseFile(t)
        PROVE  Loose!ViewInv'
    BY SMTT(40), <1>3 DEF Loose!MapLooseFile, Loose!OverrideError
  <1>4. ASSUME NEW t \in Threads, Loose!ClaimHandle(t)
        PROVE  Loose!ViewInv'
    <2>1. /\ call[t] \in Loose!Calls /\ call[t].pc = "claim"
          /\ patch' = patch /\ \A u \in Threads \ {t} : call'[u] = call[u]
      BY <1>4, InHook DEF Loose!ClaimHandle, Loose!OverrideError
    <2>2. \/ call'[t] \in {Loose!Idle, [call[t] EXCEPT !.pc = "cpk", !.event = "override_error"]}
          \/ call'[t] = [call[t] EXCEPT !.pc = "find"]
      BY <1>4 DEF Loose!ClaimHandle, Loose!OverrideError
    <2>3. \/ call'[t] = Loose!Idle
          \/ /\ call'[t].pc \in {"cpk", "find"} /\ SameRequest(call'[t], call[t])
             /\ call'[t].pc = "find" => call'[t].view = call[t].view
      <3> HIDE DEF Loose!Calls, Loose!RouteInv, Loose!ViewInv, Loose!CallTypes, Loose!TypeOK
      <3>1. CASE call'[t] = Loose!Idle
        BY <3>1
      <3>2. CASE call'[t] = [call[t] EXCEPT !.pc = "cpk", !.event = "override_error"]
        BY <2>1, <3>2, ToPackage
      <3>3. CASE call'[t] = [call[t] EXCEPT !.pc = "find"]
        BY <2>1, <3>3, ToFind
      <3> QED
        BY <2>2, <3>1, <3>2, <3>3
    <2> QED
      BY <2>1, <2>3 DEF SameRequest
  <1>5. ASSUME NEW t \in Threads, Loose!CallOriginalPackage(t)
        PROVE  Loose!ViewInv'
    <2>1. call[t] \in Loose!Calls /\ \A u \in Threads \ {t} : call'[u] = call[u]
      BY <1>5, InHook DEF Loose!CallOriginalPackage, Loose!OverrideError
    <2>2. call'[t] \in {Loose!Idle, [call[t] EXCEPT !.pc = "cpk", !.event = "override_error"],
                        [call[t] EXCEPT !.pc = "find", !.by = "game"]}
      BY <1>5 DEF Loose!CallOriginalPackage, Loose!OverrideError
    <2> QED
      BY <1>5, <2>1, <2>2 DEF Loose!CallOriginalPackage
  <1>6. ASSUME NEW t \in Threads, Loose!FindFreePackageHandleSlot(t)
        PROVE  Loose!ViewInv'
    <2>1. /\ call[t] \in Loose!Calls /\ call[t].pc = "find"
          /\ patch' = patch /\ \A u \in Threads \ {t} : call'[u] = call[u]
      BY <1>6, InHook DEF Loose!FindFreePackageHandleSlot, Loose!OverrideError
    <2>2. \/ call'[t] \in {Loose!Idle, [call[t] EXCEPT !.pc = "cpk", !.event = "override_error"]}
          \/ \E i \in 1..SlotCount : call'[t] = [call[t] EXCEPT !.pc = "fill", !.slot = i]
      BY <1>6 DEF Loose!FindFreePackageHandleSlot, Loose!OverrideError
    <2>3. \/ call'[t] = Loose!Idle
          \/ /\ call'[t].pc \in {"cpk", "fill"} /\ SameRequest(call'[t], call[t])
             /\ call'[t].pc = "fill" =>
                  call'[t].slot # 0 /\ call'[t].view = call[t].view /\ call'[t].by = call[t].by
      <3> HIDE DEF Loose!Calls, Loose!RouteInv, Loose!ViewInv, Loose!CallTypes, Loose!TypeOK
      <3>1. CASE call'[t] = Loose!Idle
        BY <3>1
      <3>2. CASE call'[t] = [call[t] EXCEPT !.pc = "cpk", !.event = "override_error"]
        BY <2>1, <3>2, ToPackage
      <3>3. ASSUME NEW i \in 1..SlotCount, call'[t] = [call[t] EXCEPT !.pc = "fill", !.slot = i]
            PROVE  call'[t].pc = "fill" /\ SameRequest(call'[t], call[t])
                   /\ call'[t].slot # 0 /\ call'[t].view = call[t].view /\ call'[t].by = call[t].by
        <4>1. i # 0
          OBVIOUS
        <4>2. call'[t].pc = "fill" /\ SameRequest(call'[t], call[t]) /\ call'[t].slot = i
              /\ call'[t].view = call[t].view /\ call'[t].by = call[t].by
          BY <2>1, <3>3 DEF Loose!Calls, SameRequest
        <4> QED
          BY <4>1, <4>2
      <3> QED
        BY <2>2, <3>1, <3>2, <3>3
    <2> QED
      BY <2>1, <2>3 DEF SameRequest
  <1>7. ASSUME NEW t \in Threads, Loose!FillHandle(t)
        PROVE  Loose!ViewInv'
    BY <1>7 DEF Loose!FillHandle
  <1>8. ASSUME NEW t \in Threads, Loose!CountHandle(t)
        PROVE  Loose!ViewInv'
    BY <1>8 DEF Loose!CountHandle
  <1>9. ASSUME NEW t \in Threads, Loose!LoadTextScript(t)
        PROVE  Loose!ViewInv'
    BY <1>9 DEF Loose!LoadTextScript, Loose!ScriptMissing, Loose!ScriptRead, Loose!ScriptRefused
  <1>10. ASSUME NEW t \in Threads, Loose!CallOriginalTextScript(t)
        PROVE  Loose!ViewInv'
    BY <1>10 DEF Loose!CallOriginalTextScript
  <1>11. ASSUME NEW t \in Threads, NEW i \in 1..SlotCount, Loose!Close(t, i)
        PROVE  Loose!ViewInv'
    BY <1>11 DEF Loose!Close
  <1>12. ASSUME NEW t \in Threads, Loose!CountClosed(t)
        PROVE  Loose!ViewInv'
    BY <1>12 DEF Loose!CountClosed
  <1>13. ASSUME NEW f \in Loose!Files, NEW content \in Loose!Contents, Loose!EditPatch(f, content)
        PROVE  Loose!ViewInv'
    BY <1>13 DEF Loose!EditPatch
  <1>14. ASSUME NEW m \in Loose!Modes, Loose!SetHookMode(m)
        PROVE  Loose!ViewInv'
    BY <1>14 DEF Loose!SetHookMode
  <1>15. CASE UNCHANGED fileVars
    BY <1>15 DEF fileVars
  <1> QED
    BY ZenonT(60), <1>1, <1>2, <1>3, <1>4, <1>5, <1>6, <1>7, <1>8,
       <1>9, <1>10, <1>11, <1>12, <1>13, <1>14, <1>15 DEF Loose!Next, Loose!Load

\* Nobody comes into the pool in a step, or leaves it, but the thread that acts.
LEMMA SameWithin ==
  ASSUME Loose!CallTypes, NEW t \in Threads, NEW c, call' = [call EXCEPT ![t] = c]
  PROVE  /\ \A u \in Threads \ {t} : call'[u] = call[u]
         /\ \A u \in Threads \ {t} : Loose!GamesOwn(u)' <=> Loose!GamesOwn(u)
         /\ Loose!Within' \ {t} = Loose!Within \ {t}
         /\ t \in Loose!Within' <=> c.pc \in {"find", "fill", "count", "closed"}
         /\ Loose!GamesOwn(t)' <=> (c.pc = "closed" \/ c.by = "game")
  BY DEF Loose!CallTypes, Loose!Within, Loose!GamesOwn

\* What one thread does outside the pool, and does not take it into the pool,
\* leaves the pool in order.
LEMMA Elsewhere ==
  ASSUME Loose!IInv, NEW t \in Threads, t \notin Loose!Within, NEW c,
         c.pc \notin {"find", "fill", "count", "closed"},
         call' = [call EXCEPT ![t] = c], UNCHANGED <<handles, openCount, crossed>>
  PROVE  Loose!PoolInv'
  <1>1. Loose!Within' = Loose!Within /\ \A u \in Loose!Within : call'[u] = call[u]
    BY SameWithin DEF Loose!IInv, Loose!Within
  <1>2. \A u \in Loose!Within : Loose!GamesOwn(u)' <=> Loose!GamesOwn(u)
    BY <1>1 DEF Loose!GamesOwn
  <1>3. Loose!OpenSlots' = Loose!OpenSlots
    BY DEF Loose!OpenSlots
  <1> QED
    BY <1>1, <1>2, <1>3 DEF Loose!IInv, Loose!PoolInv

\* A thread that comes into the pool, goes on there or leaves it keeps the pool
\* in order if the mutex lets it, and if, unless codes have crossed, it is alone
\* and leaves the count right for where it goes.
LEMMA PoolMoves ==
  ASSUME Loose!IInv, Loose!CallTypes', NEW t \in Threads, NEW c, call' = [call EXCEPT ![t] = c],
         c.pc \in {"find", "fill", "count"} /\ c.by = "hook"
           => \A u \in Loose!Within \ {t} : Loose!GamesOwn(u),
         ~crossed' => ~crossed /\ Loose!Within \ {t} = {}
                      /\ Loose!Cardinality(Loose!OpenSlots)' <= OpenLimit,
         (~crossed' /\ c.pc \notin {"find", "fill", "count", "closed"})
           => openCount' = Loose!Cardinality(Loose!OpenSlots)',
         (~crossed' /\ c.pc \in {"find", "fill"})
           => openCount' = Loose!Cardinality(Loose!OpenSlots)' /\ openCount' < OpenLimit,
         (~crossed' /\ c.pc = "fill") => handles'[c.slot] = Loose!Free,
         (~crossed' /\ c.pc = "count") => openCount' + 1 = Loose!Cardinality(Loose!OpenSlots)',
         (~crossed' /\ c.pc = "closed")
           => openCount' = Loose!Cardinality(Loose!OpenSlots)' + 1 /\ openCount' <= OpenLimit
  PROVE  Loose!PoolInv'
  <1> USE DEF Loose!IInv
  <1>1. call'[t] = c
    BY DEF Loose!CallTypes
  <1>2. /\ \A u \in Threads \ {t} : call'[u] = call[u] /\ (Loose!GamesOwn(u)' <=> Loose!GamesOwn(u))
        /\ Loose!Within' \ {t} = Loose!Within \ {t}
        /\ Loose!GamesOwn(t)' <=> (c.pc = "closed" \/ c.by = "game")
        /\ t \in Loose!Within' <=> c.pc \in {"find", "fill", "count", "closed"}
        /\ Loose!Within' \subseteq Threads /\ Loose!Within \subseteq Threads
    <2>1. Loose!Within' \subseteq Threads /\ Loose!Within \subseteq Threads
      BY DEF Loose!Within
    <2>2. /\ \A u \in Threads \ {t} : call'[u] = call[u]
          /\ \A u \in Threads \ {t} : Loose!GamesOwn(u)' <=> Loose!GamesOwn(u)
          /\ Loose!Within' \ {t} = Loose!Within \ {t}
          /\ t \in Loose!Within' <=> c.pc \in {"find", "fill", "count", "closed"}
          /\ Loose!GamesOwn(t)' <=> (c.pc = "closed" \/ c.by = "game")
      BY SameWithin
    <2> QED
      BY <2>1, <2>2
  <1>3. t \in Loose!Within' /\ ~Loose!GamesOwn(t)' => c.by = "hook"
    <2>1. c.pc \in {"find", "fill", "count"} => c \in Loose!Calls
      BY <1>1 DEF Loose!CallTypes, Loose!Idle, Loose!Closing
    <2> QED
      BY <1>2, <2>1 DEF Loose!Calls
  <1>4. ASSUME NEW u \in Loose!Within', NEW v \in Loose!Within', ~Loose!GamesOwn(u)', ~Loose!GamesOwn(v)'
        PROVE  u = v
    BY <1>2, <1>3, <1>4 DEF Loose!PoolInv
  <1>5. ASSUME ~crossed' PROVE Loose!Within' \subseteq {t}
    BY <1>2, <1>5
  <1> QED
    BY <1>1, <1>2, <1>4, <1>5 DEF Loose!PoolInv

\* A count within its room is not wrapped.
LEMMA NotWrapped ==
  ASSUME NEW x \in Nat, x < CountSize
  PROVE  x % CountSize = x /\ (x + CountSize) % CountSize = x
  BY RuntimeAssumption

\* Unless codes have crossed, a count changes by one.
LEMMA CountedRight ==
  ASSUME openCount \in Nat, ~crossed, Loose!Cardinality(Loose!OpenSlots) <= OpenLimit
  PROVE  /\ (openCount' \in Loose!Counted(1) /\ openCount + 1 = Loose!Cardinality(Loose!OpenSlots))
              => openCount' = Loose!Cardinality(Loose!OpenSlots)
         /\ (openCount' \in Loose!Counted(CountSize - 1)
             /\ openCount = Loose!Cardinality(Loose!OpenSlots) + 1)
              => openCount' = Loose!Cardinality(Loose!OpenSlots)
  <1> DEFINE n == Loose!Cardinality(Loose!OpenSlots)
  <1>1. n \in Nat /\ n < CountSize /\ CountSize \in Nat
    BY OpenSlotsFinite, CardinalityHere, RuntimeAssumption
  <1>2. n % CountSize = n /\ (n + CountSize) % CountSize = n
    BY <1>1, NotWrapped
  <1>3. \A change : Loose!Counted(change) = {(openCount + change + 0) % CountSize}
    BY DEF Loose!Counted
  <1> HIDE DEF n
  <1>4. openCount + 1 = n => openCount + 1 + 0 = n
    OBVIOUS
  <1>5. openCount = n + 1 => openCount + (CountSize - 1) + 0 = n + CountSize
    BY <1>1
  <1> QED
    BY <1>2, <1>3, <1>4, <1>5 DEF n

\* What a request that goes on keeps, and where one that is given up goes.
LEMMA GoesOn ==
  ASSUME Loose!CallTypes, NEW t \in Threads, call[t].pc \notin {"idle", "closed"}
  PROVE  /\ \A pc : call' = [call EXCEPT ![t].pc = pc]
                  => /\ call' = [call EXCEPT ![t] = call'[t]]
                     /\ call'[t].pc = pc /\ call'[t].by = call[t].by
         /\ \A i : call' = [call EXCEPT ![t].pc = "fill", ![t].slot = i]
                  => /\ call' = [call EXCEPT ![t] = call'[t]]
                     /\ call'[t].pc = "fill" /\ call'[t].by = call[t].by /\ call'[t].slot = i
         /\ call' = [call EXCEPT ![t].pc = "find", ![t].by = "game"]
              => /\ call' = [call EXCEPT ![t] = call'[t]]
                 /\ call'[t].pc = "find" /\ call'[t].by = "game"
         /\ Loose!OverrideError(t)
              => call' = [call EXCEPT ![t] = call'[t]] /\ call'[t].pc \in {"idle", "cpk"}
  <1>1. call[t] \in Loose!Calls
    BY InHook
  <1> USE DEF Loose!CallTypes
  <1>2. ASSUME NEW pc, call' = [call EXCEPT ![t].pc = pc]
        PROVE  /\ call' = [call EXCEPT ![t] = call'[t]]
               /\ call'[t].pc = pc /\ call'[t].by = call[t].by
    BY <1>1, <1>2 DEF Loose!Calls
  <1>3. ASSUME NEW i, call' = [call EXCEPT ![t].pc = "fill", ![t].slot = i]
        PROVE  /\ call' = [call EXCEPT ![t] = call'[t]]
               /\ call'[t].pc = "fill" /\ call'[t].by = call[t].by /\ call'[t].slot = i
    BY <1>1, <1>3 DEF Loose!Calls
  <1>4. ASSUME call' = [call EXCEPT ![t].pc = "find", ![t].by = "game"]
        PROVE  /\ call' = [call EXCEPT ![t] = call'[t]]
               /\ call'[t].pc = "find" /\ call'[t].by = "game"
    BY <1>1, <1>4 DEF Loose!Calls
  <1>5. ASSUME Loose!OverrideError(t)
        PROVE  call' = [call EXCEPT ![t] = call'[t]] /\ call'[t].pc \in {"idle", "cpk"}
    BY <1>1, <1>5 DEF Loose!Calls, Loose!OverrideError, Loose!Answer, Loose!Idle
  <1> QED
    BY <1>2, <1>3, <1>4, <1>5

\* The handles that are open are a number, and the same while no handle changes.
LEMMA Few == Loose!Cardinality(Loose!OpenSlots) \in Nat
  BY OpenSlotsFinite, CardinalityHere
LEMMA Same == handles' = handles => Loose!OpenSlots' = Loose!OpenSlots
                                    /\ Loose!Cardinality(Loose!OpenSlots)' = Loose!Cardinality(Loose!OpenSlots)
  BY DEF Loose!OpenSlots

\* The pool stays in order until the game's own code crosses another one in it.
LEMMA PoolStep == Loose!IInv /\ [Loose!Next]_fileVars => Loose!PoolInv'
  <1> SUFFICES ASSUME Loose!IInv, [Loose!Next]_fileVars PROVE Loose!PoolInv'
    OBVIOUS
  <1> USE DEF Loose!IInv, Loose!CallTypes, Loose!rest, Loose!world, Loose!pool, Loose!Answer, Loose!Continue
  <1>0. Loose!CallTypes'
    BY CallTypesStep
  <1>1. ASSUME NEW t \in Threads, NEW loader \in {"package", "text"}, NEW r \in Resources, Loose!Request(t, loader, r)
        PROVE  Loose!PoolInv'
    <2>1. t \notin Loose!Within /\ UNCHANGED <<handles, openCount, crossed>>
      BY <1>1 DEF Loose!Within, Loose!Request
    <2>2. /\ call' = [call EXCEPT ![t] = call'[t]]
          /\ call'[t].pc \notin {"find", "fill", "count", "closed"}
      BY <1>1 DEF Loose!Request, Loose!Idle
    <2> QED
      BY <2>1, <2>2, Elsewhere
  <1>2. ASSUME NEW t \in Threads, Loose!ValidateLoosePackageFile(t)
        PROVE  Loose!PoolInv'
    <2>1. t \notin Loose!Within /\ UNCHANGED <<handles, openCount, crossed>>
      BY <1>2 DEF Loose!Within, Loose!ValidateLoosePackageFile
    <2>2. /\ call' = [call EXCEPT ![t] = call'[t]]
          /\ call'[t].pc \notin {"find", "fill", "count", "closed"}
      BY <1>2 DEF Loose!ValidateLoosePackageFile, Loose!Idle
    <2> QED
      BY <2>1, <2>2, Elsewhere
  <1>3. ASSUME NEW t \in Threads, Loose!MapLooseFile(t)
        PROVE  Loose!PoolInv'
    <2>1. t \notin Loose!Within /\ UNCHANGED <<handles, openCount, crossed>> /\ call[t].pc = "map"
      BY <1>3 DEF Loose!Within, Loose!MapLooseFile
    <2>2. CASE Loose!OverrideError(t)
      BY <2>1, <2>2, GoesOn, Elsewhere
    <2>3. CASE ~Loose!OverrideError(t)
      <3>1. call' = [call EXCEPT ![t] = [call[t] EXCEPT !.pc = "claim", !.view = patch[call[t].file]]]
        BY <1>3, <2>3 DEF Loose!MapLooseFile
      <3>2. call[t] \in Loose!Calls
        BY <2>1, InHook
      <3> DEFINE c == [call[t] EXCEPT !.pc = "claim", !.view = patch[call[t].file]]
      <3>3. c.pc = "claim"
        BY <3>2 DEF Loose!Calls
      <3> HIDE DEF c
      <3> QED
        BY <2>1, <3>1, <3>3, Elsewhere DEF c
    <2> QED
      BY <2>2, <2>3
  <1>4. ASSUME NEW t \in Threads, Loose!ClaimHandle(t)
        PROVE  Loose!PoolInv'
    <2>1. t \notin Loose!Within /\ UNCHANGED <<handles, openCount>> /\ call[t].pc = "claim"
      BY <1>4 DEF Loose!Within, Loose!ClaimHandle
    <2>2. CASE Loose!OverrideError(t) /\ UNCHANGED crossed
      BY <2>1, <2>2, GoesOn, Elsewhere
    <2>3. CASE ~(Loose!OverrideError(t) /\ UNCHANGED crossed)
      <3>1. /\ call' = [call EXCEPT ![t].pc = "find"] /\ ~(openCount >= OpenLimit) /\ ~Loose!MutexHeld
            /\ crossed' = (crossed \/ \E u \in Loose!Within : Loose!GamesOwn(u))
        BY <1>4, <2>3 DEF Loose!ClaimHandle
      <3>2. call' = [call EXCEPT ![t] = call'[t]] /\ call'[t].pc = "find"
        BY <2>1, <3>1, GoesOn
      <3>5. openCount < OpenLimit
        BY <3>1, RuntimeAssumption DEF Loose!TypeOK
      <3>3. \A u \in Loose!Within : Loose!GamesOwn(u)
        BY <3>1, InHook DEF Loose!MutexHeld, Loose!GamesOwn, Loose!Within, Loose!Calls
      <3>4. ~crossed' => ~crossed /\ Loose!Within = {}
        BY <3>1, <3>3 DEF Loose!TypeOK
      <3> QED
        BY <2>1, <3>2, <3>3, <3>4, <3>5, <1>0, Same, PoolMoves, Few DEF Loose!PoolInv
    <2> QED
      BY <2>2, <2>3
  <1>5. ASSUME NEW t \in Threads, Loose!CallOriginalPackage(t)
        PROVE  Loose!PoolInv'
    <2>1. t \notin Loose!Within /\ UNCHANGED <<handles, openCount>> /\ call[t].pc = "cpk"
      BY <1>5 DEF Loose!Within, Loose!CallOriginalPackage
    <2>2. CASE call[t].resource \notin Packaged \/ openCount >= OpenLimit
      <3>1. /\ call'[t].pc \notin {"find", "fill", "count", "closed"} /\ UNCHANGED crossed
            /\ call' = [call EXCEPT ![t] = call'[t]]
        BY <1>5, <2>2 DEF Loose!CallOriginalPackage, Loose!Idle
      <3> QED
        BY <2>1, <3>1, Elsewhere
    <2>3. CASE ~(call[t].resource \notin Packaged \/ openCount >= OpenLimit)
      <3>1. /\ call' = [call EXCEPT ![t].pc = "find", ![t].by = "game"]
            /\ crossed' = (crossed \/ Loose!Within # {})
        BY <1>5, <2>3 DEF Loose!CallOriginalPackage
      <3>2. call' = [call EXCEPT ![t] = call'[t]] /\ call'[t].pc = "find" /\ call'[t].by = "game"
        BY <2>1, <3>1, GoesOn
      <3>4. openCount < OpenLimit
        BY <2>3, RuntimeAssumption DEF Loose!TypeOK
      <3>3. ~crossed' => ~crossed /\ Loose!Within = {}
        BY <3>1 DEF Loose!TypeOK
      <3> QED
        BY <2>1, <3>2, <3>3, <3>4, <1>0, Same, PoolMoves, Few DEF Loose!PoolInv
    <2> QED
      BY <2>2, <2>3
  <1>6. ASSUME NEW t \in Threads, Loose!FindFreePackageHandleSlot(t)
        PROVE  Loose!PoolInv'
    <2>1. t \in Loose!Within /\ crossed' = crossed
      BY <1>6 DEF Loose!Within, Loose!FindFreePackageHandleSlot
    <2>2. /\ ~crossed => Loose!Within = {t}
          /\ (call[t].pc # "closed" /\ call[t].by = "hook")
               => \A u \in Loose!Within \ {t} : Loose!GamesOwn(u)
      BY <2>1 DEF Loose!PoolInv, Loose!GamesOwn

    <2>3. call[t].pc = "find" /\ UNCHANGED <<handles, openCount>>
      BY <1>6 DEF Loose!FindFreePackageHandleSlot
    <2>4. ASSUME NEW i \in 1..SlotCount, handles[i] = Loose!Free,
                 call' = [call EXCEPT ![t].pc = "fill", ![t].slot = i]
          PROVE  Loose!PoolInv'
      <3>1. /\ call' = [call EXCEPT ![t] = call'[t]]
            /\ call'[t].pc = "fill" /\ call'[t].slot = i /\ call'[t].by = call[t].by
        BY <2>3, <2>4, GoesOn
      <3>2. /\ handles'[call'[t].slot] = Loose!Free
            /\ ~crossed => openCount' = Loose!Cardinality(Loose!OpenSlots)' /\ openCount' < OpenLimit
                           /\ Loose!Cardinality(Loose!OpenSlots)' <= OpenLimit
        BY <2>1, <2>3, <2>4, <3>1, Same DEF Loose!PoolInv
      <3>3. ~(call'[t].pc \in {"count", "closed"}) /\ call'[t].pc \in {"find", "fill", "count", "closed"}
        BY <3>1
      <3>4. call'[t].by = "hook" => \A u \in Loose!Within \ {t} : Loose!GamesOwn(u)
        BY <2>2, <2>3, <3>1
      <3> QED
        BY <2>1, <2>2, <3>1, <3>2, <3>3, <3>4, <1>0, PoolMoves
    <2>5. ASSUME call' = [call EXCEPT ![t] = call'[t]], call'[t].pc \in {"idle", "cpk"}
          PROVE  Loose!PoolInv'
      BY <2>1, <2>2, <2>3, <2>5, <1>0, Same, PoolMoves DEF Loose!PoolInv
    <2>6. CASE Loose!OverrideError(t)
      BY <2>3, <2>5, <2>6, GoesOn
    <2> QED
      BY <1>6, <2>4, <2>5, <2>6 DEF Loose!FindFreePackageHandleSlot, Loose!Idle
  <1>7. ASSUME NEW t \in Threads, Loose!FillHandle(t)
        PROVE  Loose!PoolInv'
    <2>1. t \in Loose!Within /\ crossed' = crossed
      BY <1>7 DEF Loose!Within, Loose!FillHandle
    <2>2. /\ ~crossed => Loose!Within = {t}
          /\ (call[t].pc # "closed" /\ call[t].by = "hook")
               => \A u \in Loose!Within \ {t} : Loose!GamesOwn(u)
      BY <2>1 DEF Loose!PoolInv, Loose!GamesOwn

    <2>3. /\ call[t].pc = "fill" /\ call[t] \in Loose!Calls /\ openCount' = openCount
          /\ call' = [call EXCEPT ![t].pc = "count"]
          /\ handles' = [handles EXCEPT ![call[t].slot] = Loose!Handle(t)]
      BY <1>7, InHook DEF Loose!FillHandle
    <2>4. /\ call'[t].pc = "count" /\ call'[t].by = call[t].by /\ call[t].slot \in 1..SlotCount
          /\ call' = [call EXCEPT ![t] = call'[t]]
      <3>1. call[t].slot \in 0..SlotCount /\ call[t].slot # 0
        BY <2>3 DEF Loose!Calls, Loose!RouteInv
      <3> QED
        <4>1. call[t].slot \in 1..SlotCount
          BY <3>1, RuntimeAssumption
        <4> QED
          BY <2>3, <4>1, GoesOn
    <2>5. ~crossed => /\ openCount' + 1 = Loose!Cardinality(Loose!OpenSlots)'
                      /\ Loose!Cardinality(Loose!OpenSlots)' <= OpenLimit
      <3> SUFFICES ASSUME ~crossed PROVE /\ openCount' + 1 = Loose!Cardinality(Loose!OpenSlots)'
                                        /\ Loose!Cardinality(Loose!OpenSlots)' <= OpenLimit
        OBVIOUS
      <3>1. /\ openCount = Loose!Cardinality(Loose!OpenSlots) /\ openCount < OpenLimit
            /\ handles[call[t].slot] = Loose!Free
        BY <2>1, <2>3 DEF Loose!PoolInv
      <3>2. Loose!Cardinality(Loose!OpenSlots)' = Loose!Cardinality(Loose!OpenSlots) + 1
        BY <2>3, <2>4, <3>1, SlotFilled, HandleMade
      <3> QED
        BY <2>3, <3>1, <3>2, RuntimeAssumption DEF Loose!TypeOK
    <2> QED
      BY <2>1, <2>2, <2>3, <2>4, <2>5, <1>0, PoolMoves
  <1>8. ASSUME NEW t \in Threads, Loose!CountHandle(t)
        PROVE  Loose!PoolInv'
    <2>1. t \in Loose!Within /\ crossed' = crossed
      BY <1>8 DEF Loose!Within, Loose!CountHandle
    <2>2. /\ ~crossed => Loose!Within = {t}
          /\ (call[t].pc # "closed" /\ call[t].by = "hook")
               => \A u \in Loose!Within \ {t} : Loose!GamesOwn(u)
      BY <2>1 DEF Loose!PoolInv, Loose!GamesOwn

    <2>3. /\ call[t].pc = "count" /\ openCount' \in Loose!Counted(1) /\ handles' = handles
          /\ call' = [call EXCEPT ![t] = call'[t]] /\ call'[t].pc = "idle"
      BY <1>8 DEF Loose!CountHandle, Loose!Idle
    <2>4. ~crossed => openCount' = Loose!Cardinality(Loose!OpenSlots)
      BY <2>1, <2>3, CountedRight, RuntimeAssumption DEF Loose!PoolInv, Loose!TypeOK
    <2> QED
      BY <2>1, <2>2, <2>3, <2>4, <1>0, Same, PoolMoves DEF Loose!PoolInv
  <1>9. ASSUME NEW t \in Threads, Loose!LoadTextScript(t)
        PROVE  Loose!PoolInv'
    <2>1. t \notin Loose!Within /\ UNCHANGED <<handles, openCount, crossed>>
      BY <1>9 DEF Loose!Within, Loose!LoadTextScript, Loose!ScriptMissing, Loose!ScriptRead, Loose!ScriptRefused
    <2>2. /\ call' = [call EXCEPT ![t] = call'[t]]
          /\ call'[t].pc \notin {"find", "fill", "count", "closed"}
      BY <1>9 DEF Loose!LoadTextScript, Loose!ScriptMissing, Loose!ScriptRead, Loose!ScriptRefused, Loose!Idle
    <2> QED
      BY <2>1, <2>2, Elsewhere
  <1>10. ASSUME NEW t \in Threads, Loose!CallOriginalTextScript(t)
        PROVE  Loose!PoolInv'
    <2>1. t \notin Loose!Within /\ UNCHANGED <<handles, openCount, crossed>>
      BY <1>10 DEF Loose!Within, Loose!CallOriginalTextScript
    <2>2. /\ call' = [call EXCEPT ![t] = call'[t]]
          /\ call'[t].pc \notin {"find", "fill", "count", "closed"}
      BY <1>10 DEF Loose!CallOriginalTextScript, Loose!Idle
    <2> QED
      BY <2>1, <2>2, Elsewhere
  <1>11. ASSUME NEW t \in Threads, NEW i \in 1..SlotCount, Loose!Close(t, i)
        PROVE  Loose!PoolInv'
    <2>1. /\ t \notin Loose!Within /\ call' = [call EXCEPT ![t] = Loose!Closing]
          /\ handles[i] # Loose!Free /\ handles' = [handles EXCEPT ![i] = Loose!Free]
          /\ openCount' = openCount /\ crossed' = (crossed \/ Loose!Within # {})
      BY <1>11 DEF Loose!Within, Loose!Close
    <2>2. Loose!Cardinality(Loose!OpenSlots)' = Loose!Cardinality(Loose!OpenSlots) - 1
      BY <2>1, SlotFreed
    <2>3. ~crossed' => /\ openCount' = Loose!Cardinality(Loose!OpenSlots)' + 1 /\ openCount' <= OpenLimit
                       /\ Loose!Cardinality(Loose!OpenSlots)' <= OpenLimit
      <3>1. ~crossed' => ~crossed /\ Loose!Within = {}
        BY <2>1 DEF Loose!TypeOK
      <3>2. ~crossed' => /\ openCount = Loose!Cardinality(Loose!OpenSlots)
                         /\ Loose!Cardinality(Loose!OpenSlots) <= OpenLimit
        BY <3>1 DEF Loose!PoolInv
      <3> QED
        BY <2>1, <2>2, <3>2, Few, RuntimeAssumption
    <2>4. ~crossed' => ~crossed /\ Loose!Within = {}
      BY <2>1 DEF Loose!TypeOK
    <2>5. Loose!Closing.pc = "closed"
      BY DEF Loose!Closing
    <2> QED
      BY <2>1, <2>3, <2>4, <2>5, <1>0, PoolMoves
  <1>12. ASSUME NEW t \in Threads, Loose!CountClosed(t)
        PROVE  Loose!PoolInv'
    <2>1. t \in Loose!Within /\ crossed' = crossed
      BY <1>12 DEF Loose!Within, Loose!CountClosed
    <2>2. /\ ~crossed => Loose!Within = {t}
          /\ (call[t].pc # "closed" /\ call[t].by = "hook")
               => \A u \in Loose!Within \ {t} : Loose!GamesOwn(u)
      BY <2>1 DEF Loose!PoolInv, Loose!GamesOwn

    <2>3. /\ call[t].pc = "closed" /\ openCount' \in Loose!Counted(CountSize - 1) /\ handles' = handles
          /\ call' = [call EXCEPT ![t] = call'[t]] /\ call'[t].pc = "idle"
      BY <1>12 DEF Loose!CountClosed, Loose!Idle
    <2>4. ~crossed => openCount' = Loose!Cardinality(Loose!OpenSlots)
      BY <2>1, <2>3, CountedRight, RuntimeAssumption DEF Loose!PoolInv, Loose!TypeOK
    <2> QED
      BY <2>1, <2>2, <2>3, <2>4, <1>0, Same, PoolMoves DEF Loose!PoolInv
  <1>13. ASSUME NEW f \in Loose!Files, NEW content \in Loose!Contents, Loose!EditPatch(f, content)
        PROVE  Loose!PoolInv'
    <2>1. /\ \A t \in Threads : call[t].pc \notin {"idle", "closed"} => call[t] \in Loose!Calls
          /\ UNCHANGED <<handles, openCount, crossed>>
      BY <1>13, InHook DEF Loose!EditPatch
    <2>2. \A t \in Threads : call'[t] = call[t] \/ (call[t] \in Loose!Calls
                                                   /\ call'[t] = [call[t] EXCEPT !.edited = TRUE])
      BY <1>13, <2>1 DEF Loose!EditPatch
    <2>3. \A t \in Threads : /\ call'[t].pc = call[t].pc
                             /\ call[t].pc \in {"find", "fill", "count"}
                                  => call'[t].by = call[t].by /\ call'[t].slot = call[t].slot
      BY <2>2 DEF Loose!Calls
    <2>4. /\ Loose!Within' = Loose!Within
          /\ \A t \in Loose!Within : Loose!GamesOwn(t)' <=> Loose!GamesOwn(t)
      BY <2>3 DEF Loose!Within, Loose!GamesOwn
    <2> QED
      BY <2>1, <2>3, <2>4, Same DEF Loose!PoolInv, Loose!Within
  <1>14. ASSUME NEW m \in Loose!Modes, Loose!SetHookMode(m)
        PROVE  Loose!PoolInv'
    BY <1>14 DEF Loose!SetHookMode, Loose!PoolInv, Loose!Within, Loose!GamesOwn, Loose!OpenSlots
  <1>15. CASE UNCHANGED fileVars
    BY <1>15 DEF fileVars, Loose!PoolInv, Loose!Within, Loose!GamesOwn, Loose!OpenSlots
  <1> QED
    BY <1>1, <1>2, <1>3, <1>4, <1>5, <1>6, <1>7, <1>8,
       <1>9, <1>10, <1>11, <1>12, <1>13, <1>14, <1>15 DEF Loose!Next, Loose!Load

\* A compiled script in place of the package's stays whole.
LEMMA WholeStep == Loose!IInv /\ [Loose!Next]_fileVars => Loose!HandlesWhole'
  <1> SUFFICES ASSUME Loose!IInv, [Loose!Next]_fileVars PROVE Loose!HandlesWhole'
    OBVIOUS
  <1> USE DEF Loose!IInv, Loose!HandlesHold, Loose!HandlesWhole, Loose!OpenSlots, Loose!rest, Loose!world, Loose!pool
  <1>1. ASSUME NEW t \in Threads, NEW loader \in {"package", "text"}, NEW r \in Resources, Loose!Request(t, loader, r)
        PROVE  Loose!HandlesWhole'
    BY <1>1 DEF Loose!Request
  <1>2. ASSUME NEW t \in Threads, Loose!ValidateLoosePackageFile(t)
        PROVE  Loose!HandlesWhole'
    BY <1>2 DEF Loose!ValidateLoosePackageFile
  <1>3. ASSUME NEW t \in Threads, Loose!MapLooseFile(t)
        PROVE  Loose!HandlesWhole'
    BY <1>3 DEF Loose!MapLooseFile, Loose!OverrideError
  <1>4. ASSUME NEW t \in Threads, Loose!ClaimHandle(t)
        PROVE  Loose!HandlesWhole'
    BY <1>4 DEF Loose!ClaimHandle, Loose!OverrideError
  <1>5. ASSUME NEW t \in Threads, Loose!CallOriginalPackage(t)
        PROVE  Loose!HandlesWhole'
    BY <1>5 DEF Loose!CallOriginalPackage
  <1>6. ASSUME NEW t \in Threads, Loose!FindFreePackageHandleSlot(t)
        PROVE  Loose!HandlesWhole'
    BY <1>6 DEF Loose!FindFreePackageHandleSlot, Loose!OverrideError
  <1>7. ASSUME NEW t \in Threads, Loose!FillHandle(t)
        PROVE  Loose!HandlesWhole'
    <2>1. call[t].by # "game" => call[t].by = "hook" /\ call[t].file \in Loose!Files
      BY <1>7, InHook DEF Loose!FillHandle, Loose!Calls, Loose!RouteInv, Loose!Claiming
    <2>2. (Loose!Handle(t).source = "gamepatch" /\ Loose!Handle(t).ext = "csb" /\ ~Loose!Handle(t).edited)
            => Loose!Handle(t).content = "good"
      BY <1>7, <2>1 DEF Loose!FillHandle, Loose!Handle, Loose!ViewInv, Loose!Claiming
    <2> QED
      BY <1>7, <2>2 DEF Loose!FillHandle, Loose!HandleTypes
  <1>8. ASSUME NEW t \in Threads, Loose!CountHandle(t)
        PROVE  Loose!HandlesWhole'
    BY <1>8 DEF Loose!CountHandle
  <1>9. ASSUME NEW t \in Threads, Loose!LoadTextScript(t)
        PROVE  Loose!HandlesWhole'
    BY <1>9 DEF Loose!LoadTextScript, Loose!ScriptMissing, Loose!ScriptRead, Loose!ScriptRefused
  <1>10. ASSUME NEW t \in Threads, Loose!CallOriginalTextScript(t)
        PROVE  Loose!HandlesWhole'
    BY <1>10 DEF Loose!CallOriginalTextScript
  <1>11. ASSUME NEW t \in Threads, NEW i \in 1..SlotCount, Loose!Close(t, i)
        PROVE  Loose!HandlesWhole'
    BY <1>11 DEF Loose!Close, Loose!HandleTypes
  <1>12. ASSUME NEW t \in Threads, Loose!CountClosed(t)
        PROVE  Loose!HandlesWhole'
    BY <1>12 DEF Loose!CountClosed
  <1>13. ASSUME NEW f \in Loose!Files, NEW content \in Loose!Contents, Loose!EditPatch(f, content)
        PROVE  Loose!HandlesWhole'
    BY <1>13 DEF Loose!EditPatch
  <1>14. ASSUME NEW m \in Loose!Modes, Loose!SetHookMode(m)
        PROVE  Loose!HandlesWhole'
    BY <1>14 DEF Loose!SetHookMode
  <1>15. CASE UNCHANGED fileVars
    BY <1>15 DEF fileVars
  <1> QED
    BY <1>1, <1>2, <1>3, <1>4, <1>5, <1>6, <1>7, <1>8,
       <1>9, <1>10, <1>11, <1>12, <1>13, <1>14, <1>15 DEF Loose!Next, Loose!Load

\* A pool without a free slot is full.
LEMMA NoneFree ==
  ASSUME \A i \in 1..SlotCount : handles[i] # Loose!Free PROVE Loose!Full
  <1>1. Loose!OpenSlots = 1..SlotCount
    BY DEF Loose!OpenSlots
  <1>2. Cardinality(1..SlotCount) = SlotCount
    BY FS_Interval, RuntimeAssumption
  <1> QED
    BY <1>1, <1>2, CardinalityHere DEF Loose!Full

\* The load log tells the truth.
LEMMA LogStep == Loose!IInv /\ [Loose!Next]_fileVars => Loose!LogTellsTruth'
  <1> SUFFICES ASSUME Loose!IInv, [Loose!Next]_fileVars PROVE Loose!LogTellsTruth'
    OBVIOUS
  <1> USE DEF Loose!IInv, Loose!LogTellsTruth, Loose!TypeOK, Loose!CallTypes,
         Loose!Calls, Loose!RouteInv, Loose!Idle, Loose!Closing, Loose!Unknown, Loose!rest,
         Loose!world, Loose!pool, Loose!Answer, Loose!Continue
  <1>1. ASSUME NEW t \in Threads, NEW loader \in {"package", "text"}, NEW r \in Resources, Loose!Request(t, loader, r)
        PROVE  Loose!LogTellsTruth'
    BY <1>1 DEF Loose!Request
  <1>2. ASSUME NEW t \in Threads, Loose!ValidateLoosePackageFile(t)
        PROVE  Loose!LogTellsTruth'
    BY <1>2 DEF Loose!ValidateLoosePackageFile
  <1>3. ASSUME NEW t \in Threads, Loose!MapLooseFile(t)
        PROVE  Loose!LogTellsTruth'
    BY <1>3 DEF Loose!MapLooseFile, Loose!OverrideError
  <1>4. ASSUME NEW t \in Threads, Loose!ClaimHandle(t)
        PROVE  Loose!LogTellsTruth'
    BY <1>4 DEF Loose!ClaimHandle, Loose!OverrideError
  <1>5. ASSUME NEW t \in Threads, Loose!CallOriginalPackage(t)
        PROVE  Loose!LogTellsTruth'
    BY <1>5 DEF Loose!CallOriginalPackage
  <1>6. ASSUME NEW t \in Threads, Loose!FindFreePackageHandleSlot(t)
        PROVE  Loose!LogTellsTruth'
    BY <1>6 DEF Loose!FindFreePackageHandleSlot, Loose!OverrideError
  <1>7. ASSUME NEW t \in Threads, Loose!FillHandle(t)
        PROVE  Loose!LogTellsTruth'
    BY <1>7 DEF Loose!FillHandle
  <1>8. ASSUME NEW t \in Threads, Loose!CountHandle(t)
        PROVE  Loose!LogTellsTruth'
    BY <1>8 DEF Loose!CountHandle
  <1>9. ASSUME NEW t \in Threads, Loose!LoadTextScript(t)
        PROVE  Loose!LogTellsTruth'
    BY <1>9 DEF Loose!LoadTextScript, Loose!ScriptMissing, Loose!ScriptRead, Loose!ScriptRefused
  <1>10. ASSUME NEW t \in Threads, Loose!CallOriginalTextScript(t)
        PROVE  Loose!LogTellsTruth'
    BY <1>10 DEF Loose!CallOriginalTextScript
  <1>11. ASSUME NEW t \in Threads, NEW i \in 1..SlotCount, Loose!Close(t, i)
        PROVE  Loose!LogTellsTruth'
    BY <1>11 DEF Loose!Close
  <1>12. ASSUME NEW t \in Threads, Loose!CountClosed(t)
        PROVE  Loose!LogTellsTruth'
    BY <1>12 DEF Loose!CountClosed
  <1>13. ASSUME NEW f \in Loose!Files, NEW content \in Loose!Contents, Loose!EditPatch(f, content)
        PROVE  Loose!LogTellsTruth'
    BY <1>13 DEF Loose!EditPatch
  <1>14. ASSUME NEW m \in Loose!Modes, Loose!SetHookMode(m)
        PROVE  Loose!LogTellsTruth'
    BY <1>14 DEF Loose!SetHookMode
  <1>15. CASE UNCHANGED fileVars
    BY <1>15 DEF fileVars
  <1> QED
    BY <1>1, <1>2, <1>3, <1>4, <1>5, <1>6, <1>7, <1>8,
       <1>9, <1>10, <1>11, <1>12, <1>13, <1>14, <1>15 DEF Loose!Next, Loose!Load

\* The gamepatch directory hides nothing of the package.
LEMMA HideStep == Loose!IInv /\ [Loose!Next]_fileVars => Loose!PatchCannotHide'
  <1> SUFFICES ASSUME Loose!IInv, [Loose!Next]_fileVars PROVE Loose!PatchCannotHide'
    OBVIOUS
  <1> USE DEF Loose!IInv, Loose!PatchCannotHide, Loose!TypeOK, Loose!CallTypes,
         Loose!Calls, Loose!RouteInv, Loose!Idle, Loose!Closing, Loose!Unknown, Loose!rest,
         Loose!world, Loose!pool, Loose!Answer, Loose!Continue
  <1>1. ASSUME NEW t \in Threads, NEW loader \in {"package", "text"}, NEW r \in Resources, Loose!Request(t, loader, r)
        PROVE  Loose!PatchCannotHide'
    BY <1>1 DEF Loose!Request
  <1>2. ASSUME NEW t \in Threads, Loose!ValidateLoosePackageFile(t)
        PROVE  Loose!PatchCannotHide'
    BY <1>2 DEF Loose!ValidateLoosePackageFile
  <1>3. ASSUME NEW t \in Threads, Loose!MapLooseFile(t)
        PROVE  Loose!PatchCannotHide'
    BY <1>3 DEF Loose!MapLooseFile, Loose!OverrideError
  <1>4. ASSUME NEW t \in Threads, Loose!ClaimHandle(t)
        PROVE  Loose!PatchCannotHide'
    <2>1. CASE Loose!OverrideError(t) /\ answer' # Loose!Unknown
      <3>1. answer'.mode = "replace_strict" /\ answer'.event = "override_error"
        BY <2>1 DEF Loose!OverrideError
      <3> QED
        BY <3>1
    <2>2. CASE answer' = Loose!Unknown
      BY <2>2
    <2> QED
      BY <1>4, <2>1, <2>2 DEF Loose!ClaimHandle
  <1>5. ASSUME NEW t \in Threads, Loose!CallOriginalPackage(t)
        PROVE  Loose!PatchCannotHide'
    <2>1. CASE answer' = Loose!Unknown
      BY <2>1
    <2>2. CASE answer' # Loose!Unknown
      <3>1. /\ call[t].resource \notin Packaged \/ openCount >= OpenLimit
            /\ answer'.resource = call[t].resource /\ answer'.full = Loose!Full
        BY <1>5, <2>2 DEF Loose!CallOriginalPackage
      <3> QED
        BY <3>1 DEF Loose!Full
    <2> QED
      BY <2>1, <2>2
  <1>6. ASSUME NEW t \in Threads, Loose!FindFreePackageHandleSlot(t)
        PROVE  Loose!PatchCannotHide'
    <2>1. CASE Loose!OverrideError(t) /\ answer' # Loose!Unknown
      <3>1. answer'.mode = "replace_strict" /\ answer'.event = "override_error"
        BY <2>1 DEF Loose!OverrideError
      <3> QED
        BY <3>1
    <2>2. CASE answer' = Loose!Unknown
      BY <2>2
    <2>3. CASE ~Loose!OverrideError(t) /\ answer' # Loose!Unknown
      <3>1. (\A i \in 1..SlotCount : handles[i] # Loose!Free) /\ answer'.full = Loose!Full
        BY <1>6, <2>3 DEF Loose!FindFreePackageHandleSlot
      <3> QED
        BY <3>1, NoneFree
    <2> QED
      BY <2>1, <2>2, <2>3
  <1>7. ASSUME NEW t \in Threads, Loose!FillHandle(t)
        PROVE  Loose!PatchCannotHide'
    BY <1>7 DEF Loose!FillHandle
  <1>8. ASSUME NEW t \in Threads, Loose!CountHandle(t)
        PROVE  Loose!PatchCannotHide'
    BY <1>8 DEF Loose!CountHandle
  <1>9. ASSUME NEW t \in Threads, Loose!LoadTextScript(t)
        PROVE  Loose!PatchCannotHide'
    BY <1>9 DEF Loose!LoadTextScript, Loose!ScriptMissing, Loose!ScriptRead, Loose!ScriptRefused
  <1>10. ASSUME NEW t \in Threads, Loose!CallOriginalTextScript(t)
        PROVE  Loose!PatchCannotHide'
    BY <1>10 DEF Loose!CallOriginalTextScript
  <1>11. ASSUME NEW t \in Threads, NEW i \in 1..SlotCount, Loose!Close(t, i)
        PROVE  Loose!PatchCannotHide'
    BY <1>11 DEF Loose!Close
  <1>12. ASSUME NEW t \in Threads, Loose!CountClosed(t)
        PROVE  Loose!PatchCannotHide'
    BY <1>12 DEF Loose!CountClosed
  <1>13. ASSUME NEW f \in Loose!Files, NEW content \in Loose!Contents, Loose!EditPatch(f, content)
        PROVE  Loose!PatchCannotHide'
    BY <1>13 DEF Loose!EditPatch
  <1>14. ASSUME NEW m \in Loose!Modes, Loose!SetHookMode(m)
        PROVE  Loose!PatchCannotHide'
    BY <1>14 DEF Loose!SetHookMode
  <1>15. CASE UNCHANGED fileVars
    BY <1>15 DEF fileVars
  <1> QED
    BY <1>1, <1>2, <1>3, <1>4, <1>5, <1>6, <1>7, <1>8,
       <1>9, <1>10, <1>11, <1>12, <1>13, <1>14, <1>15 DEF Loose!Next, Loose!Load

\* A text script comes from the gamepatch directory or not at all.
LEMMA TextStep == Loose!IInv /\ [Loose!Next]_fileVars => Loose!TextOnlyFromPatch'
  <1> SUFFICES ASSUME Loose!IInv, [Loose!Next]_fileVars PROVE Loose!TextOnlyFromPatch'
    OBVIOUS
  <1> USE DEF Loose!IInv, Loose!TextOnlyFromPatch, Loose!TypeOK, Loose!CallTypes,
         Loose!Calls, Loose!RouteInv, Loose!Idle, Loose!Closing, Loose!Unknown, Loose!rest,
         Loose!world, Loose!pool, Loose!Answer, Loose!Continue
  <1>1. ASSUME NEW t \in Threads, NEW loader \in {"package", "text"}, NEW r \in Resources, Loose!Request(t, loader, r)
        PROVE  Loose!TextOnlyFromPatch'
    BY <1>1 DEF Loose!Request
  <1>2. ASSUME NEW t \in Threads, Loose!ValidateLoosePackageFile(t)
        PROVE  Loose!TextOnlyFromPatch'
    BY <1>2 DEF Loose!ValidateLoosePackageFile
  <1>3. ASSUME NEW t \in Threads, Loose!MapLooseFile(t)
        PROVE  Loose!TextOnlyFromPatch'
    BY <1>3 DEF Loose!MapLooseFile, Loose!OverrideError
  <1>4. ASSUME NEW t \in Threads, Loose!ClaimHandle(t)
        PROVE  Loose!TextOnlyFromPatch'
    BY <1>4 DEF Loose!ClaimHandle, Loose!OverrideError
  <1>5. ASSUME NEW t \in Threads, Loose!CallOriginalPackage(t)
        PROVE  Loose!TextOnlyFromPatch'
    BY <1>5 DEF Loose!CallOriginalPackage
  <1>6. ASSUME NEW t \in Threads, Loose!FindFreePackageHandleSlot(t)
        PROVE  Loose!TextOnlyFromPatch'
    BY <1>6 DEF Loose!FindFreePackageHandleSlot, Loose!OverrideError
  <1>7. ASSUME NEW t \in Threads, Loose!FillHandle(t)
        PROVE  Loose!TextOnlyFromPatch'
    BY <1>7 DEF Loose!FillHandle
  <1>8. ASSUME NEW t \in Threads, Loose!CountHandle(t)
        PROVE  Loose!TextOnlyFromPatch'
    BY <1>8 DEF Loose!CountHandle
  <1>9. ASSUME NEW t \in Threads, Loose!LoadTextScript(t)
        PROVE  Loose!TextOnlyFromPatch'
    BY <1>9 DEF Loose!LoadTextScript, Loose!ScriptMissing, Loose!ScriptRead, Loose!ScriptRefused
  <1>10. ASSUME NEW t \in Threads, Loose!CallOriginalTextScript(t)
        PROVE  Loose!TextOnlyFromPatch'
    BY <1>10 DEF Loose!CallOriginalTextScript
  <1>11. ASSUME NEW t \in Threads, NEW i \in 1..SlotCount, Loose!Close(t, i)
        PROVE  Loose!TextOnlyFromPatch'
    BY <1>11 DEF Loose!Close
  <1>12. ASSUME NEW t \in Threads, Loose!CountClosed(t)
        PROVE  Loose!TextOnlyFromPatch'
    BY <1>12 DEF Loose!CountClosed
  <1>13. ASSUME NEW f \in Loose!Files, NEW content \in Loose!Contents, Loose!EditPatch(f, content)
        PROVE  Loose!TextOnlyFromPatch'
    BY <1>13 DEF Loose!EditPatch
  <1>14. ASSUME NEW m \in Loose!Modes, Loose!SetHookMode(m)
        PROVE  Loose!TextOnlyFromPatch'
    BY <1>14 DEF Loose!SetHookMode
  <1>15. CASE UNCHANGED fileVars
    BY <1>15 DEF fileVars
  <1> QED
    BY <1>1, <1>2, <1>3, <1>4, <1>5, <1>6, <1>7, <1>8,
       <1>9, <1>10, <1>11, <1>12, <1>13, <1>14, <1>15 DEF Loose!Next, Loose!Load

\* Everything stays well typed.
LEMMA FileTypesStep == Loose!IInv /\ [Loose!Next]_fileVars => Loose!TypeOK'
  <1> SUFFICES ASSUME Loose!IInv, [Loose!Next]_fileVars PROVE Loose!TypeOK'
    OBVIOUS
  <1> USE RuntimeAssumption DEF Loose!IInv, Loose!TypeOK, Loose!Unknown, Loose!rest, Loose!world,
         Loose!pool, Loose!Answer, Loose!Continue
  <1>0. /\ \A t \in Threads : call'[t].pc \in {"idle", "validate", "map", "claim", "cpk", "find", "fill",
                                              "count", "closed", "script", "direct"}
        /\ DOMAIN handles' = 1..SlotCount
    BY CallTypesStep, HandleTypesStep
       DEF Loose!CallTypes, Loose!Calls, Loose!Idle, Loose!Closing, Loose!HandleTypes
  <1>1. ASSUME NEW t \in Threads, NEW loader \in {"package", "text"}, NEW r \in Resources, Loose!Request(t, loader, r)
        PROVE  Loose!TypeOK'
    BY <1>1, <1>0 DEF Loose!Request
  <1>2. ASSUME NEW t \in Threads, Loose!ValidateLoosePackageFile(t)
        PROVE  Loose!TypeOK'
    BY <1>2, <1>0 DEF Loose!ValidateLoosePackageFile
  <1>3. ASSUME NEW t \in Threads, Loose!MapLooseFile(t)
        PROVE  Loose!TypeOK'
    <2>1. answer'.source \in {"unknown", "none", "original", "gamepatch"}
      BY <1>3 DEF Loose!MapLooseFile, Loose!OverrideError
    <2>2. openCount' \in 0..(CountSize - 1) /\ crossed' \in BOOLEAN
      BY <1>3 DEF Loose!MapLooseFile, Loose!OverrideError
    <2> QED
      BY <1>3, <2>1, <2>2, <1>0 DEF Loose!MapLooseFile, Loose!OverrideError
  <1>4. ASSUME NEW t \in Threads, Loose!ClaimHandle(t)
        PROVE  Loose!TypeOK'
    <2>1. answer'.source \in {"unknown", "none", "original", "gamepatch"}
      BY <1>4 DEF Loose!ClaimHandle, Loose!OverrideError
    <2>2. openCount' \in 0..(CountSize - 1) /\ crossed' \in BOOLEAN
      BY <1>4 DEF Loose!ClaimHandle, Loose!OverrideError
    <2> QED
      BY <1>4, <2>1, <2>2, <1>0 DEF Loose!ClaimHandle, Loose!OverrideError
  <1>5. ASSUME NEW t \in Threads, Loose!CallOriginalPackage(t)
        PROVE  Loose!TypeOK'
    <2>1. answer'.source \in {"unknown", "none", "original", "gamepatch"}
      BY <1>5 DEF Loose!CallOriginalPackage
    <2>2. openCount' \in 0..(CountSize - 1) /\ crossed' \in BOOLEAN
      BY <1>5 DEF Loose!CallOriginalPackage
    <2> QED
      BY <1>5, <2>1, <2>2, <1>0 DEF Loose!CallOriginalPackage
  <1>6. ASSUME NEW t \in Threads, Loose!FindFreePackageHandleSlot(t)
        PROVE  Loose!TypeOK'
    <2>1. answer'.source \in {"unknown", "none", "original", "gamepatch"}
      BY <1>6 DEF Loose!FindFreePackageHandleSlot, Loose!OverrideError
    <2>2. openCount' \in 0..(CountSize - 1) /\ crossed' \in BOOLEAN
      BY <1>6 DEF Loose!FindFreePackageHandleSlot, Loose!OverrideError
    <2> QED
      BY <1>6, <2>1, <2>2, <1>0 DEF Loose!FindFreePackageHandleSlot, Loose!OverrideError
  <1>7. ASSUME NEW t \in Threads, Loose!FillHandle(t)
        PROVE  Loose!TypeOK'
    BY <1>7, <1>0 DEF Loose!FillHandle
  <1>8. ASSUME NEW t \in Threads, Loose!CountHandle(t)
        PROVE  Loose!TypeOK'
    <2>1. answer'.source \in {"unknown", "none", "original", "gamepatch"}
      BY <1>8 DEF Loose!CountHandle
    <2>2. \E n \in Int : openCount' = n % CountSize
      <3>1. PICK change \in {1, CountSize - 1}, k \in {CountSize - 1, 0, 1} :
              openCount' = (openCount + change + k) % CountSize
        BY <1>8 DEF Loose!CountHandle, Loose!Counted
      <3>2. openCount + change + k \in Int
        OBVIOUS
      <3> QED
        BY <3>1, <3>2
    <2>3. openCount' \in 0..(CountSize - 1)
      BY <2>2, RuntimeAssumption
    <2> QED
      BY <1>8, <2>1, <2>3, <1>0 DEF Loose!CountHandle
  <1>9. ASSUME NEW t \in Threads, Loose!LoadTextScript(t)
        PROVE  Loose!TypeOK'
    BY <1>9, <1>0 DEF Loose!LoadTextScript, Loose!ScriptMissing, Loose!ScriptRead, Loose!ScriptRefused
  <1>10. ASSUME NEW t \in Threads, Loose!CallOriginalTextScript(t)
        PROVE  Loose!TypeOK'
    BY <1>10, <1>0 DEF Loose!CallOriginalTextScript
  <1>11. ASSUME NEW t \in Threads, NEW i \in 1..SlotCount, Loose!Close(t, i)
        PROVE  Loose!TypeOK'
    <2>1. answer'.source \in {"unknown", "none", "original", "gamepatch"}
      BY <1>11 DEF Loose!Close
    <2>2. openCount' \in 0..(CountSize - 1) /\ crossed' \in BOOLEAN
      BY <1>11 DEF Loose!Close
    <2> QED
      BY <1>11, <2>1, <2>2, <1>0 DEF Loose!Close
  <1>12. ASSUME NEW t \in Threads, Loose!CountClosed(t)
        PROVE  Loose!TypeOK'
    <2>1. answer'.source \in {"unknown", "none", "original", "gamepatch"}
      BY <1>12 DEF Loose!CountClosed
    <2>2. \E n \in Int : openCount' = n % CountSize
      <3>1. PICK change \in {1, CountSize - 1}, k \in {CountSize - 1, 0, 1} :
              openCount' = (openCount + change + k) % CountSize
        BY <1>12 DEF Loose!CountClosed, Loose!Counted
      <3>2. openCount + change + k \in Int
        OBVIOUS
      <3> QED
        BY <3>1, <3>2
    <2>3. openCount' \in 0..(CountSize - 1)
      BY <2>2, RuntimeAssumption
    <2> QED
      BY <1>12, <2>1, <2>3, <1>0 DEF Loose!CountClosed
  <1>13. ASSUME NEW f \in Loose!Files, NEW content \in Loose!Contents, Loose!EditPatch(f, content)
        PROVE  Loose!TypeOK'
    BY <1>13, <1>0 DEF Loose!EditPatch
  <1>14. ASSUME NEW m \in Loose!Modes, Loose!SetHookMode(m)
        PROVE  Loose!TypeOK'
    BY <1>14, <1>0 DEF Loose!SetHookMode
  <1>15. CASE UNCHANGED fileVars
    BY <1>15 DEF fileVars
  <1> QED
    BY <1>1, <1>2, <1>3, <1>4, <1>5, <1>6, <1>7, <1>8,
       <1>9, <1>10, <1>11, <1>12, <1>13, <1>14, <1>15 DEF Loose!Next, Loose!Load

LEMMA FileInvariant == Spec => []Loose!IInv
  <1>1. Init => Loose!IInv
    <2> SUFFICES ASSUME Loose!Init PROVE Loose!IInv
      BY DEF Init
    <2> USE RuntimeAssumption DEF Loose!Init
    <2>1. Loose!OpenSlots = {} /\ openCount = Loose!Cardinality(Loose!OpenSlots) /\ Loose!Within = {}
      BY FS_EmptySet, CardinalityHere DEF Loose!OpenSlots, Loose!Within, Loose!Idle
    <2>2. Loose!TypeOK
      <3>1. patch \in [Loose!Files -> Loose!Contents]
        OBVIOUS
      <3>2. openCount \in 0..(CountSize - 1)
        OBVIOUS
      <3>3. mode \in Loose!Modes /\ DOMAIN handles = 1..SlotCount /\ crossed \in BOOLEAN
        BY DEF Loose!Modes
      <3>4. /\ \A t \in Threads : call[t].pc = "idle"
            /\ answer.source = "unknown"
        BY DEF Loose!Idle, Loose!Unknown
      <3>5. loads \in 0..MaxLoads /\ changes \in 0..MaxChanges
        OBVIOUS
      <3> QED
        BY <3>1, <3>2, <3>3, <3>4, <3>5 DEF Loose!TypeOK, Loose!Modes, Loose!Idle, Loose!Unknown
    <2>3. Loose!HandleTypes /\ Loose!CallTypes
      BY DEF Loose!HandleTypes, Loose!CallTypes, Loose!Handles
    <2>4. Loose!RouteInv /\ Loose!ViewInv
      BY DEF Loose!RouteInv, Loose!ViewInv, Loose!Claiming, Loose!Idle
    <2>5. Loose!LogTellsTruth /\ Loose!PatchCannotHide /\ Loose!TextOnlyFromPatch
      BY DEF Loose!LogTellsTruth, Loose!PatchCannotHide, Loose!TextOnlyFromPatch, Loose!Unknown
    <2>6. Loose!PoolInv /\ Loose!HandlesHold
      BY <2>1, CardinalityHere DEF Loose!PoolInv, Loose!HandlesHold, Loose!HandlesCounted, Loose!HandlesWhole
    <2> QED
      BY <2>2, <2>3, <2>4, <2>5, <2>6 DEF Loose!IInv
  <1>2. Loose!IInv /\ [Next]_vars => Loose!IInv'
    <2>1. [Next]_vars => [Loose!Next]_fileVars
      BY DEF Next, vars, fileVars, SettingsStep, WindowStep, RefsStep, PipeStep, MemoryStep, FilesStep, CrashStep
    <2>2. Loose!PoolInv' => Loose!HandlesCounted'
      BY DEF Loose!PoolInv, Loose!HandlesCounted
    <2> QED
      BY <2>1, <2>2, CallTypesStep, RouteStep, HandleTypesStep, PoolStep, WholeStep, ViewStep, LogStep,
         HideStep, TextStep, FileTypesStep
         DEF Loose!IInv, Loose!HandlesHold
  <1> QED
    BY <1>1, <1>2, PTL DEF Spec

\* Whatever the user puts into the gamepatch directory or edits there while the
\* game's threads load, and whatever mode the control client switches to: the
\* load log tells where a resource came from, nothing of the package is hidden,
\* a compiled script in place of another is whole, no text script comes from the
\* game's directory while the hook replaces, and, as long as the game's own code
\* has not been in the package's pool together with another thread, its handles
\* are counted and never more than it allows, however many threads claim some.
THEOREM GamepatchIsSafe == Spec => []PatchHolds
  <1>1. Loose!IInv => PatchHolds
    BY DEF Loose!IInv, PatchHolds
  <1> QED
    BY FileInvariant, <1>1, PTL

=============================================================================
