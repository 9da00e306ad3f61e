------------------------------- MODULE Decode -------------------------------
(***************************************************************************)
(* process_function (cli/src/main.rs:85-148): the bytes of a function are  *)
(* decoded and lifted, one machine instruction behind the other, into the  *)
(* block that CfgBuilder starts from, up to the first return, the first    *)
(* instruction that cannot be decoded, or the end of the bytes.            *)
(***************************************************************************)
EXTENDS Disassembly

CONSTANTS
  Inputs,       \* the command lines: arch, bytes and base
  X86RegSize,   \* bytes of a register, on each architecture
  ArmRegSize,
  ArmFlagSize   \* bytes of the flags

ASSUME SizeAssumption == X86RegSize \in 1 .. 4 /\ {ArmRegSize, ArmFlagSize} \subseteq 1 .. 8

ASSUME InputAssumption ==
  \A input \in Inputs : input.bytes \in Seq(Octet) /\ input.base \in Address

VARIABLES
  arch,        \* --arch
  bytes,       \* --hex or --file
  base,        \* --base: where the bytes are loaded
  checks,      \* the program is built with overflow checks
  offset,      \* the bytes consumed
  block,       \* the instructions lifted so far
  next_temp,   \* the counter of the TempAllocator
  decoded,     \* the machine instructions, with their lengths
  progress     \* "decode", "done" or "panicked"

input == <<arch, bytes, base, checks>>
decoding == <<offset, block, next_temp, decoded, progress>>

X86Backend == INSTANCE X86 WITH RegSize <- X86RegSize
ArmBackend == INSTANCE Arm WITH RegSize <- ArmRegSize, FlagSize <- ArmFlagSize

-----------------------------------------------------------------------------
(* Any architecture but arm is taken to be x86.                            *)
DisassembleOne(remaining) ==
  IF arch = "arm" THEN ArmBackend!DecodeOne(remaining)
  ELSE X86Backend!DecodeOne(remaining)

Lift(instr, address, length, next) ==
  IF arch = "arm" THEN ArmBackend!Lift(instr, address)
  ELSE X86Backend!Lift(instr, address, length, next)

LiftOverflows(instr, address, length) ==
  IF arch = "arm" THEN ArmBackend!LiftOverflows(instr, address)
  ELSE X86Backend!LiftOverflows(instr, address, length)

Temps(instr) == IF arch = "arm" THEN 0 ELSE X86Backend!Temps(instr)

Returns(ops) == \E op \in Elements(ops) : op = Return

-----------------------------------------------------------------------------
Init ==
  /\ \E in \in Inputs : arch = in.arch /\ bytes = in.bytes /\ base = in.base
  /\ checks \in BOOLEAN
  /\ offset = 0 /\ next_temp = 0
  /\ block = <<>> /\ decoded = <<>>
  /\ progress = "decode"

Stop(how) ==
  /\ progress' = how
  /\ UNCHANGED <<input, offset, block, next_temp, decoded>>

Exhausted ==
  /\ progress = "decode" /\ offset >= Len(bytes)
  /\ Stop("done")

(* base + offset as u64 overflows.                                         *)
AddressOverflows ==
  /\ progress = "decode" /\ offset < Len(bytes)
  /\ checks /\ base + offset >= AddressLimit
  /\ Stop("panicked")

(* The turns of the loop that find an instruction's address.               *)
AtInstruction ==
  /\ progress = "decode" /\ offset < Len(bytes)
  /\ checks => base + offset < AddressLimit

Here == (base + offset) % AddressLimit
Disassembled == DisassembleOne(SubSeq(bytes, offset + 1, Len(bytes)))

(* A truncated or unsupported instruction ends the function.               *)
DecodeFails ==
  /\ AtInstruction
  /\ Disassembled.kind # "Decoded"
  /\ Stop("done")

(* The sum that resolves a displacement overflows.                         *)
LiftPanics ==
  /\ AtInstruction
  /\ Disassembled.kind = "Decoded"
  /\ checks /\ LiftOverflows(Disassembled.instruction, Here, Disassembled.length)
  /\ Stop("panicked")

(* Faults of DecodeInstruction: an allocator for each instruction; the     *)
(* return does not end the function.                                       *)
DecodeWithNewAllocator ==
  /\ AtInstruction
  /\ Disassembled.kind = "Decoded"
  /\ checks => ~ LiftOverflows(Disassembled.instruction, Here, Disassembled.length)
  /\ LET ops == Lift(Disassembled.instruction, Here, Disassembled.length, 0)
     IN  /\ block' = Append(block, Lifted(Here, ops))
         /\ progress' = IF Returns(ops) THEN "done" ELSE "decode"
  /\ decoded' = Append(decoded, [instruction |-> Disassembled.instruction,
                                 length |-> Disassembled.length])
  /\ offset' = offset + Disassembled.length
  /\ UNCHANGED <<input, next_temp>>

DecodePastReturn ==
  /\ AtInstruction
  /\ Disassembled.kind = "Decoded"
  /\ checks => ~ LiftOverflows(Disassembled.instruction, Here, Disassembled.length)
  /\ LET ops == Lift(Disassembled.instruction, Here, Disassembled.length, next_temp)
     IN  /\ block' = Append(block, Lifted(Here, ops))
         /\ progress' = "decode"
  /\ decoded' = Append(decoded, [instruction |-> Disassembled.instruction,
                                 length |-> Disassembled.length])
  /\ offset' = offset + Disassembled.length
  /\ next_temp' = next_temp + Temps(Disassembled.instruction)
  /\ UNCHANGED input

(* One instruction is decoded and lifted; a return ends the function.      *)
DecodeInstruction ==
  /\ AtInstruction
  /\ Disassembled.kind = "Decoded"
  /\ checks => ~ LiftOverflows(Disassembled.instruction, Here, Disassembled.length)
  /\ LET ops == Lift(Disassembled.instruction, Here, Disassembled.length, next_temp)
     IN  /\ block' = Append(block, Lifted(Here, ops))
         /\ progress' = IF Returns(ops) THEN "done" ELSE "decode"
  /\ decoded' = Append(decoded, [instruction |-> Disassembled.instruction,
                                 length |-> Disassembled.length])
  /\ offset' = offset + Disassembled.length
  /\ next_temp' = next_temp + Temps(Disassembled.instruction)
  /\ UNCHANGED input

Step ==
  \/ Exhausted \/ AddressOverflows \/ DecodeFails \/ LiftPanics
  \/ DecodeInstruction

Next == Step \/ (progress # "decode" /\ UNCHANGED <<input, decoding>>)

Spec == Init /\ [][Next]_<<input, decoding>>

-----------------------------------------------------------------------------
(* Properties.                                                             *)

(* Types of the variables.                                                 *)
TypeOK ==
  /\ bytes \in Seq(Octet) /\ base \in Address
  /\ offset \in 0 .. Len(bytes)
  /\ next_temp \in Nat
  /\ Len(block) = Len(decoded)
  /\ progress \in {"decode", "done", "panicked"}

(* Nothing has wrapped around the end of the address space.                *)
InOrder == base + offset <= AddressLimit

(* Each instruction begins where the one before it ends.                   *)
Contiguous ==
  /\ block # <<>> => block[1].address = base
  /\ \A j \in 1 .. Len(block) :
       (block[j].address + decoded[j].length) % AddressLimit =
         IF j < Len(block) THEN block[j + 1].address ELSE Here

(* Only the last instruction returns, and decoding has then stopped.       *)
ReturnIsLast ==
  \A j \in 1 .. Len(block) :
    Returns(block[j].ops) => j = Len(block) /\ progress = "done"

TempsOf(li) ==
  {op.dest.offset : op \in {o \in Elements(li.ops) :
                              o.op \in BinaryOps /\ o.dest.space = "Unique"}}

(* Scratch values never collide across instructions (traits.rs:93-95).     *)
TempsDistinct ==
  \A j, m \in 1 .. Len(block) :
    j # m => TempsOf(block[j]) \intersect TempsOf(block[m]) = {}

(* What the decode loop makes of any bytes is what CfgBuilder takes for    *)
(* granted: contiguous instructions with ascending addresses (unless they  *)
(* wrap around), at most one control transfer in each, no instruction      *)
(* behind a return, and temporaries of their own (main.rs:82-84, 123-138;  *)
(* traits.rs:86-95).                                                       *)
DecodedIsStream ==
  /\ Contiguous /\ ReturnIsLast /\ TempsDistinct
  /\ checks \/ InOrder => Stream(block)

=============================================================================
