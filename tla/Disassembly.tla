---------------------------- MODULE Disassembly ----------------------------
(***************************************************************************)
(* What the decode loop and the architecture backends share                *)
(* (decompiler-core/src/traits.rs): the outcomes of disassemble_one, the   *)
(* allocator of temporaries (TempAllocator in ir-pcode/src/varnode.rs),    *)
(* the reading of integers from bytes and the arithmetic on addresses,     *)
(* which is that of i64 (a build with overflow checks panics where a sum   *)
(* leaves it, a build without them wraps around).                          *)
(***************************************************************************)
EXTENDS LiftedCode

CONSTANT AddressLimit   \* the addresses are those below: 2^64 in the code

ASSUME LimitAssumption ==
  /\ AddressLimit \in Nat \ {0}
  /\ Address = 0 .. AddressLimit - 1
  /\ ByteBits = 8

Octet == 0 .. 255

-----------------------------------------------------------------------------
(* Result<DisassemblyResult, DecodeError>.                                 *)
Decoded(instruction, length) ==
  [kind |-> "Decoded", instruction |-> instruction, length |-> length]
UnexpectedEnd == [kind |-> "UnexpectedEnd"]
InvalidOrUnsupported(byte) == [kind |-> "InvalidOrUnsupported", byte |-> byte]
UnsupportedAddressingMode(modrm) ==
  [kind |-> "UnsupportedAddressingMode", byte |-> modrm]

(* The temporary an allocator hands out when it has handed out next.       *)
Fresh(next, size) == Varnode("Unique", next, size)

-----------------------------------------------------------------------------
(* The integer in the size bytes (at most four) from position first on.    *)
LittleEndian(bytes, first, size) ==
  LET Digit(j) == IF j < size THEN bytes[first + j] * 256^j ELSE 0
  IN  Digit(0) + Digit(1) + Digit(2) + Digit(3)

AsSigned(n, size) == IF 2 * n < 256^size THEN n ELSE n - 256^size

(* address as i64.                                                         *)
SignedAddress(address) ==
  IF 2 * address < AddressLimit THEN address ELSE address - AddressLimit

FitsSigned(n) == -AddressLimit <= 2 * n /\ 2 * n < AddressLimit

(* A displacement from the end of the instruction at address.              *)
ResolveRel(address, length, rel) == (address + length + rel) % AddressLimit

(* One of the two sums that resolve it leaves i64.                         *)
RelOverflows(address, length, rel) ==
  \/ ~ FitsSigned(SignedAddress(address) + length)
  \/ ~ FitsSigned(SignedAddress(address) + length + rel)

=============================================================================
