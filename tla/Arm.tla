-------------------------------- MODULE Arm --------------------------------
(***************************************************************************)
(* The mock ARM backend (arch-arm): every instruction is a word of four    *)
(* bytes, little endian, with the opcode in the last one; the fields are   *)
(* taken from the other three.  Displacements count from the instruction   *)
(* itself.  A register is its number: the five bits of a field always name *)
(* one (registers.rs:22-42).                                               *)
(***************************************************************************)
EXTENDS Disassembly

CONSTANTS
  RegSize,    \* bytes of a register: 8 in the code
  FlagSize    \* bytes of the flags: 4 in the code

-----------------------------------------------------------------------------
(* ArmInstruction.                                                         *)
MovRegImm(dst, imm) == [op |-> "MovRegImm", dst |-> dst, imm |-> imm]
AddRegReg(dst, src1, src2) ==
  [op |-> "AddRegReg", dst |-> dst, src1 |-> src1, src2 |-> src2]
AddRegImm(dst, src, imm) ==
  [op |-> "AddRegImm", dst |-> dst, src |-> src, imm |-> imm]
CmpRegReg(lhs, rhs) == [op |-> "CmpRegReg", lhs |-> lhs, rhs |-> rhs]
Relative(op, rel) == [op |-> op, rel |-> rel]
Ret == [op |-> "Ret"]

-----------------------------------------------------------------------------
(* Decoding.                                                               *)
Field(word, low, width) == (word \div 2^low) % 2^width

Dst(word) == Field(word, 0, 5)
Src1(word) == Field(word, 5, 5)
Src2(word) == Field(word, 10, 5)

(* sign_extend_24, of the low three bytes of the word.                     *)
SignExtend24(low24) == AsSigned(low24, 3)

Instruction(opcode, low24) ==
  CASE opcode = \h10 -> MovRegImm(Dst(low24), Field(low24, 5, 16))
    [] opcode = \h11 -> AddRegReg(Dst(low24), Src1(low24), Src2(low24))
    [] opcode = \h12 -> AddRegImm(Dst(low24), Src1(low24), Field(low24, 10, 14))
    [] opcode = \h13 -> CmpRegReg(Dst(low24), Src1(low24))
    [] opcode = \h14 -> Relative("B", SignExtend24(low24))
    [] opcode = \h15 -> Relative("BL", SignExtend24(low24))
    [] opcode = \h16 -> Relative("BEQ", SignExtend24(low24))
    [] opcode = \h17 -> Relative("BNE", SignExtend24(low24))
    [] opcode = \h18 -> Ret

DecodeOne(bytes) ==
  IF Len(bytes) < 4 THEN UnexpectedEnd
  ELSE IF bytes[4] \notin \h10 .. \h18 THEN InvalidOrUnsupported(bytes[4])
  ELSE Decoded(Instruction(bytes[4], LittleEndian(bytes, 1, 3)), 4)

-----------------------------------------------------------------------------
(* Lifting.                                                                *)
Reg(r) == Register(r, RegSize)
Imm(n) == Constant(n, RegSize)
Flags == Register(1000, FlagSize)

IsRelative(instr) == instr.op \in {"B", "BL", "BEQ", "BNE"}

(* Lifter::lift allocates no temporaries; both conditional branches are    *)
(* taken when the flag is set.  The decoder never makes a CmpRegImm.       *)
Lift(instr, address) ==
  LET Target == Absolute(ResolveRel(address, 0, instr.rel))
  IN  CASE instr.op = "MovRegImm" -> <<Copy(Reg(instr.dst), Imm(instr.imm))>>
        [] instr.op = "AddRegReg" ->
             <<Binary("IntAdd", Reg(instr.dst), Reg(instr.src1), Reg(instr.src2))>>
        [] instr.op = "AddRegImm" ->
             <<Binary("IntAdd", Reg(instr.dst), Reg(instr.src), Imm(instr.imm))>>
        [] instr.op = "CmpRegReg" ->
             <<Binary("IntEqual", Flags, Reg(instr.lhs), Reg(instr.rhs))>>
        [] instr.op = "CmpRegImm" ->
             <<Binary("IntEqual", Flags, Reg(instr.lhs), Imm(instr.imm))>>
        [] instr.op = "B" -> <<Branch(Target)>>
        [] instr.op = "BL" -> <<Call(Target)>>
        [] instr.op \in {"BEQ", "BNE"} -> <<CBranch(Flags, Target)>>
        [] instr.op = "Ret" -> <<Return>>

LiftOverflows(instr, address) ==
  IsRelative(instr) /\ RelOverflows(address, 0, instr.rel)

=============================================================================
