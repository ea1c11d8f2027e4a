----------------------------- MODULE MemoryDebug -----------------------------
(* The memory commands of the control client: the runtime's IPC thread looks   *)
(* up the region of an address, checks it, and reads or writes the game's      *)
(* memory while the game's own threads use it and change its protection.       *)
EXTENDS Integers, Sequences

CONSTANTS Regions,     \* [base, size, protect]: the regions of the address space
          Requests,    \* the commands sent: [op, space, addr, type, text, unsafe]
          ModuleBase, ImageBase,   \* where the game is loaded, and where IDA puts it
          AddressLimit,            \* addresses wrap at this one
          MaxRequests, MaxGameSteps   \* bounds of one behaviour

VARIABLES mem,      \* the bytes
          protect,  \* the protection of every region
          ipc,      \* the command in progress
          stored,   \* history: the scalar a write reported as stored, while it is there
          shown,    \* history: what the last read printed
          asked,    \* history: the protection the game last asked for
          overtaken, \* history: the game has changed the protection the command saw
          failed,   \* history: the regions a command failed to give their protection back
          lost,     \* history: those a command had changed when the game changed them
          requests, gameSteps

vars == <<mem, protect, ipc, stored, shown, asked, overtaken, failed, lost, requests, gameSteps>>
raceVars == <<overtaken, failed, lost>>
-----------------------------------------------------------------------------
Base == 4      \* a byte has the values 0..Base-1

Readable(p) == p \in {"ro", "rw", "xr", "xrw"}
Writable(p) == p \in {"rw", "xrw"}
Executable(p) == p \in {"x", "xr", "xrw"}

\* What a write makes of a protection.
Opened(p) == IF Executable(p) THEN "xrw" ELSE "rw"

RegionIds == DOMAIN Regions
End(r) == Regions[r].base + Regions[r].size
RegionOf(a) == CHOOSE r \in RegionIds : Regions[r].base <= a /\ a < End(r)
Addresses == 0..(AddressLimit - 1)

(* ResolveMemoryAddress: an IDA address moves with the module.                *)
Resolve(space, addr) ==
  IF space = "runtime_va" THEN addr ELSE (addr - ImageBase + ModuleBase) % AddressLimit

(* EncodeScalarValue and DecodeScalarValue, in bytes of the small Base: a     *)
(* hexadecimal text of a signed type may name the bit pattern.                *)
SizeOf(type) == IF type = "u8" THEN 1 ELSE 2
Modulus(type) == IF SizeOf(type) = 1 THEN Base ELSE Base * Base
Signed(type, v) == IF type = "i32" /\ v >= Modulus(type) \div 2 THEN v - Modulus(type) ELSE v
InRange(type, text) ==
  IF type = "i32" /\ ~text.hex
  THEN text.v >= -(Modulus(type) \div 2) /\ text.v < Modulus(type) \div 2
  ELSE text.v >= 0 /\ text.v < Modulus(type)
Encode(type, text) ==
  LET v == text.v % Modulus(type) IN
  IF SizeOf(type) = 1 THEN <<v>> ELSE <<v % Base, v \div Base>>
\* Mutant: the sign is lost.
DecodeUnsigned(type, bytes) ==
  IF SizeOf(type) = 1 THEN bytes[1] ELSE bytes[1] + Base * bytes[2]

Decode(type, bytes) ==
  Signed(type, IF SizeOf(type) = 1 THEN bytes[1] ELSE bytes[1] + Base * bytes[2])
-----------------------------------------------------------------------------
Idle == [pc |-> "idle"]
Nothing == [type |-> "none"]

Init == /\ mem = [a \in Addresses |-> 1]
        /\ protect = [r \in RegionIds |-> Regions[r].protect]
        /\ ipc = Idle
        /\ stored = Nothing /\ shown = Nothing
        /\ asked = protect
        /\ overtaken = FALSE /\ failed = {} /\ lost = {}
        /\ requests = 0 /\ gameSteps = 0

Range == ipc.addr..(ipc.addr + SizeOf(ipc.request.type) - 1)
Bytes(addr, type) == [k \in 1..SizeOf(type) |-> mem[addr + k - 1]]
BytesThere == Bytes(ipc.addr, ipc.request.type)

(* A trap: the pages are not what the query said any more.                    *)
ReadTraps == \E a \in Range : ~Readable(protect[RegionOf(a)])
WriteTraps == \E a \in Range : ~Writable(protect[RegionOf(a)])

Refuse == ipc' = Idle

\* A command holds the protection it took away.
Unrestored == ipc.pc = "restore" \/ (ipc.pc = "write" /\ "old" \in DOMAIN ipc)

(* A command of the command line goes through the pipe to the IPC thread.     *)
Begin(request) ==
  /\ ipc.pc = "idle" /\ requests < MaxRequests
  /\ requests' = requests + 1
  /\ ipc' = [pc |-> "query", request |-> request, addr |-> Resolve(request.space, request.addr)]
  /\ UNCHANGED <<mem, protect, stored, shown, asked, raceVars, gameSteps>>

HandleMemRead(request) == request.op = "read" /\ Begin(request)

(* The range of the type is known to the command line only, which refuses.    *)
HandleMemWrite(request) ==
  /\ request.op = "write" /\ InRange(request.type, request.text)
  /\ Begin(request)

\* Mutant: pages that can also be written are not taken for code.
ConsentForCode(p, request) == p = "xr" => request.unsafe

(* The check of WriteMemoryRegion on pages with code.                         *)
Consent(p, request) == Executable(p) => request.unsafe

(* VirtualQuery, ValidateMemoryRange and the checks of Read- and              *)
(* WriteMemoryRegion: what they learn of the protection is kept for later.    *)
QueryMemoryRegion ==
  LET r == RegionOf(ipc.addr)
      inside == ipc.addr + SizeOf(ipc.request.type) <= End(r)
      allowed == inside /\ Readable(protect[r]) /\ (ipc.request.op = "write" => Consent(protect[r], ipc.request))
  IN /\ ipc.pc = "query"
     /\ IF allowed
        THEN ipc' = [pc |-> IF ipc.request.op = "read" THEN "read" ELSE "before",
                     request |-> ipc.request, addr |-> ipc.addr, seen |-> protect[r]]
        ELSE Refuse
     /\ overtaken' = FALSE
     /\ UNCHANGED <<mem, protect, stored, shown, asked, failed, lost, requests, gameSteps>>

ReadBytes ==
  /\ ipc.pc = "read"
  /\ shown' = IF ReadTraps THEN shown
              ELSE [type |-> ipc.request.type, addr |-> ipc.addr,
                    value |-> Decode(ipc.request.type, BytesThere)]
  /\ ipc' = Idle
  /\ UNCHANGED <<mem, protect, stored, asked, raceVars, requests, gameSteps>>

ReadBefore ==
  /\ ipc.pc = "before"
  /\ IF ReadTraps THEN Refuse
     ELSE ipc' = [ipc EXCEPT !.pc = IF Executable(ipc.seen) \/ ~Writable(ipc.seen)
                                    THEN "protect" ELSE "write"]
  /\ UNCHANGED <<mem, protect, stored, shown, asked, raceVars, requests, gameSteps>>

ProtectForWrite ==
  LET r == RegionOf(ipc.addr) IN
  /\ ipc.pc = "protect"
  /\ \/ /\ protect' = [protect EXCEPT ![r] = Opened(ipc.seen)]
        /\ ipc' = [pc |-> "write", request |-> ipc.request, addr |-> ipc.addr,
                   seen |-> ipc.seen, old |-> protect[r]]
     \/ Refuse /\ UNCHANGED protect
  /\ UNCHANGED <<mem, stored, shown, asked, raceVars, requests, gameSteps>>

(* The copy, or the trap; the way back is the same.                           *)
WriteBytes ==
  /\ ipc.pc = "write"
  /\ LET wrote == ~WriteTraps IN
     /\ mem' = IF wrote
               THEN [a \in Addresses |-> IF a \in Range
                       THEN Encode(ipc.request.type, ipc.request.text)[a - ipc.addr + 1] ELSE mem[a]]
               ELSE mem
     /\ ipc' = [pc |-> IF "old" \in DOMAIN ipc THEN "restore" ELSE "verify", request |-> ipc.request,
                addr |-> ipc.addr, wrote |-> wrote, old |-> IF "old" \in DOMAIN ipc THEN ipc.old ELSE "none"]
     /\ stored' = IF wrote THEN Nothing ELSE stored
  /\ UNCHANGED <<protect, shown, asked, raceVars, requests, gameSteps>>

\* Mutant: only code gets its protection back.
RestoreCodeOnly ==
  /\ ipc.pc = "restore"
  /\ protect' = IF Executable(ipc.old) THEN [protect EXCEPT ![RegionOf(ipc.addr)] = ipc.old]
                 ELSE protect
  /\ ipc' = [ipc EXCEPT !.pc = "verify"]
  /\ UNCHANGED <<mem, stored, shown, asked, raceVars, requests, gameSteps>>

(* The second VirtualProtect: nobody looks whether it failed.                 *)
RestoreProtection ==
  LET r == RegionOf(ipc.addr) IN
  /\ ipc.pc = "restore"
  /\ \/ protect' = [protect EXCEPT ![r] = ipc.old] /\ UNCHANGED <<failed, lost>>
     \/ /\ UNCHANGED protect
        /\ IF overtaken THEN lost' = lost \union {r} /\ UNCHANGED failed
                        ELSE failed' = failed \union {r} /\ UNCHANGED lost
  /\ ipc' = [ipc EXCEPT !.pc = "verify"]
  /\ UNCHANGED <<mem, stored, shown, asked, overtaken, requests, gameSteps>>

(* Only bytes that read back as written are reported as written.              *)
VerifyWrite ==
  /\ ipc.pc = "verify"
  /\ stored' = IF ipc.wrote /\ ~ReadTraps
                    /\ BytesThere = Encode(ipc.request.type, ipc.request.text)
               THEN [type |-> ipc.request.type, addr |-> ipc.addr,
                     value |-> Signed(ipc.request.type, ipc.request.text.v)]
               ELSE stored
  /\ shown' = Nothing
  /\ ipc' = Idle
  /\ UNCHANGED <<mem, protect, asked, raceVars, requests, gameSteps>>

(* The game's threads: they write where they may, and change a protection.    *)
GameWrites(a) ==
  /\ gameSteps < MaxGameSteps /\ Writable(protect[RegionOf(a)]) /\ mem[a] # 0
  /\ gameSteps' = gameSteps + 1
  /\ mem' = [mem EXCEPT ![a] = 0]
  /\ stored' = Nothing /\ shown' = Nothing
  /\ UNCHANGED <<protect, ipc, asked, raceVars, requests>>

GameProtects(r, p) ==
  /\ gameSteps < MaxGameSteps /\ (protect[r] # p \/ asked[r] # p)
  /\ gameSteps' = gameSteps + 1
  /\ protect' = [protect EXCEPT ![r] = p]
  /\ asked' = [asked EXCEPT ![r] = p]
  /\ overtaken' = (overtaken \/ (ipc.pc # "idle" /\ r = RegionOf(ipc.addr)))
  /\ failed' = failed \ {r}
  /\ lost' = IF Unrestored /\ r = RegionOf(ipc.addr) THEN lost \union {r} ELSE lost \ {r}
  /\ UNCHANGED <<mem, ipc, stored, shown, requests>>

Next == \/ \E request \in Requests : HandleMemRead(request) \/ HandleMemWrite(request)
        \/ QueryMemoryRegion \/ ReadBytes \/ ReadBefore \/ ProtectForWrite
        \/ WriteBytes \/ RestoreProtection \/ VerifyWrite
        \/ \E a \in Addresses : GameWrites(a)
        \/ \E r \in RegionIds, p \in {"ro", "rw", "xr", "xrw", "none"} : GameProtects(r, p)

Spec == Init /\ [][Next]_vars
-----------------------------------------------------------------------------
Protections == {"none", "ro", "rw", "x", "xr", "xrw"}
Values == {Nothing} \union [type : {"u8", "u16", "i32"}, addr : Addresses, value : Int]

SpaceTypes == /\ mem \in [Addresses -> 0..(Base - 1)]
              /\ protect \in [RegionIds -> Protections] /\ asked \in [RegionIds -> Protections]
              /\ stored \in Values /\ shown \in Values
CountTypes == overtaken \in BOOLEAN /\ failed \subseteq RegionIds /\ lost \subseteq RegionIds
              /\ gameSteps \in 0..MaxGameSteps /\ requests \in 0..MaxRequests

(* What the IPC thread has of a command, at every place of it.                *)
IpcTypes ==
  \/ ipc = Idle
  \/ ipc \in [pc : {"query"}, request : Requests, addr : Addresses]
  \/ ipc \in [pc : {"read", "before", "protect", "write"}, request : Requests,
              addr : Addresses, seen : Protections]
  \/ ipc \in [pc : {"write"}, request : Requests, addr : Addresses,
              seen : Protections, old : Protections]
  \/ ipc \in [pc : {"restore", "verify"}, request : Requests, addr : Addresses,
              wrote : BOOLEAN, old : Protections]

TypeOK == SpaceTypes /\ CountTypes /\ IpcTypes

\* What is left of the game's wish where a command may have failed to restore it.
Left(r) == IF r \in failed THEN Opened(asked[r]) ELSE asked[r]

\* What can be executed, or what the game made so.
IsCode(r) == Executable(protect[r]) \/ (r \notin lost /\ Executable(asked[r]))

(* When a command is over, refused, trapped or done, every region has the     *)
(* protection the game gave it.  Where the second VirtualProtect failed it is *)
(* as open as the write needed it, until the game sets it anew, although the  *)
(* command may have reported success; nothing holds of a region the game      *)
(* changed while a command had its protection (memory_debug_runtime.cpp:      *)
(* 358-392).                                                                  *)
ProtectionRestored ==
  ipc.pc = "idle" => \A r \in RegionIds : r \in lost \/ protect[r] = Left(r)

(* A command changes code only if it says unsafe_code_write, also at the edge *)
(* of a region, by its last byte and after failed commands, unless the game   *)
(* changed the region after the check (memory_debug_runtime.cpp:156-178,      *)
(* 333-339).                                                                  *)
CodeNeedsConsent ==
  [][(ipc.pc = "write" /\ ipc'.pc # "write" /\ ~overtaken) =>
       \A a \in Addresses :
         (mem'[a] # mem[a] /\ IsCode(RegionOf(a))) => ipc.request.unsafe]_vars

(* A value reported as written is what a read of the same type and address    *)
(* prints until somebody writes there, with its sign and in its byte order    *)
(* (memory_debug.cpp:376-572, cli/main.cpp:1259-1405).                        *)
ReadBackValue ==
  (stored.type # "none" /\ shown.type = stored.type /\ shown.addr = stored.addr)
    => shown.value = stored.value
-----------------------------------------------------------------------------
(* The inductive invariant.                                                   *)

(* A command past its check stays inside its region, what it writes fits its  *)
(* type, and code takes consent.                                              *)
Checked(pc) == pc \notin {"idle", "query"}
CommandInv ==
  /\ ipc.pc # "idle" /\ ipc.request.op = "write" => InRange(ipc.request.type, ipc.request.text)
  /\ ipc.pc \in {"before", "protect", "write", "restore", "verify"} => ipc.request.op = "write"
  /\ Checked(ipc.pc) => ipc.addr + SizeOf(ipc.request.type) <= End(RegionOf(ipc.addr))
  /\ ipc.pc \in {"before", "protect", "write"} => Consent(ipc.seen, ipc.request)

(* What a command saw is there until it changes it, and what it holds is what *)
(* it took away, unless the game overtook it.                                 *)
SeenInv ==
  ~overtaken => LET now == protect[RegionOf(ipc.addr)] IN
    /\ (ipc.pc \in {"before", "protect", "write"} /\ ~Unrestored) => now = ipc.seen
    /\ (ipc.pc = "write" /\ Unrestored) => ipc.old = ipc.seen
    /\ Unrestored => now = Opened(ipc.old)

(* The protection a command took away is the one it holds, and no other       *)
(* region's differs from what is left of the game's wish.                     *)
ProtectInv ==
  \A r \in RegionIds : r \in lost \/
    (IF Unrestored /\ r = RegionOf(ipc.addr) THEN ipc.old ELSE protect[r]) = Left(r)

(* What was stored is still there, and so is what was printed, unless a write *)
(* that is not over yet went there.                                           *)
StillThere(v) == v # Nothing => Decode(v.type, Bytes(v.addr, v.type)) = v.value
ValueInv ==
  /\ StillThere(stored)
  /\ StillThere(shown) \/ (stored = Nothing /\ ipc.pc \in {"restore", "verify"})
  /\ \A v \in {stored, shown} : v # Nothing => v.addr + SizeOf(v.type) <= AddressLimit

IInv == TypeOK /\ CommandInv /\ SeenInv /\ ProtectInv /\ ValueInv
=============================================================================
