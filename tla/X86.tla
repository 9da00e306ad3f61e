-------------------------------- MODULE X86 --------------------------------
(***************************************************************************)
(* The x86 backend (arch-x86): decode_one and the lift_* functions.        *)
(*                                                                         *)
(* A register is its number in the ModRM encoding (registers.rs:43-53).    *)
(* Registers, imm32 and rel32 have one width, which is a parameter.        *)
(***************************************************************************)
EXTENDS Disassembly

CONSTANT RegSize   \* bytes of a register: REG_SIZE, 4 in the code

-----------------------------------------------------------------------------
(* X86Instruction.  The left operand of a comparison is its dst.           *)
RegReg(op, dst, src) == [op |-> op, dst |-> dst, src |-> src]
RegImm(op, dst, imm) == [op |-> op, dst |-> dst, imm |-> imm]
Relative(op, rel) == [op |-> op, rel |-> rel]
Ret == [op |-> "Ret"]

-----------------------------------------------------------------------------
(* The opcodes, by what follows them.                                      *)
MovImm == \hB8 .. \hBF
RegisterForms == {\h89, \h8B, \h01, \h39}
Group1 == {\h81, \h83}
AccumulatorForms == {\h05, \h3D}
Rel8Forms == {\hEB, \h74, \h75}
Rel32Forms == {\hE9, \hE8}

Opcodes == MovImm \union RegisterForms \union Group1 \union AccumulatorForms
             \union Rel8Forms \union Rel32Forms \union {\hC3}

HasModRm(opcode) == opcode \in RegisterForms \union Group1

ImmSize(opcode) ==
  CASE opcode \in MovImm \union AccumulatorForms \union Rel32Forms \union {\h81} -> RegSize
    [] opcode \in Rel8Forms \union {\h83} -> 1
    [] OTHER -> 0

ModRmSize(opcode) == IF HasModRm(opcode) THEN 1 ELSE 0

Length(opcode) == 1 + ModRmSize(opcode) + ImmSize(opcode)

(* The fields of a ModRM byte.                                             *)
Mode(modrm) == modrm \div 64
RegField(modrm) == (modrm \div 8) % 8
RmField(modrm) == modrm % 8

(* Fault of Immediate: not sign-extended.                                  *)
ImmediateUnsigned(bytes) ==
  LittleEndian(bytes, 2 + ModRmSize(bytes[1]), ImmSize(bytes[1]))

(* The immediate or displacement: the bytes that come last.                *)
Immediate(bytes) ==
  AsSigned(LittleEndian(bytes, 2 + ModRmSize(bytes[1]), ImmSize(bytes[1])),
           ImmSize(bytes[1]))

Instruction(bytes) ==
  LET opcode == bytes[1]
      reg == RegField(bytes[2])
      rm == RmField(bytes[2])
      imm == Immediate(bytes)
  IN  CASE opcode \in MovImm -> RegImm("MovRegImm", opcode - \hB8, imm)
        [] opcode = \h89 -> RegReg("MovRegReg", rm, reg)
        [] opcode = \h8B -> RegReg("MovRegReg", reg, rm)
        [] opcode = \h01 -> RegReg("AddRegReg", rm, reg)
        [] opcode = \h39 -> RegReg("CmpRegReg", rm, reg)
        [] opcode = \h05 -> RegImm("AddRegImm", 0, imm)
        [] opcode = \h3D -> RegImm("CmpRegImm", 0, imm)
        [] opcode \in Group1 ->
             RegImm(IF reg = 0 THEN "AddRegImm" ELSE "CmpRegImm", rm, imm)
        [] opcode \in {\hEB, \hE9} -> Relative("Jmp", imm)
        [] opcode = \h74 -> Relative("Je", imm)
        [] opcode = \h75 -> Relative("Jne", imm)
        [] opcode = \hE8 -> Relative("Call", imm)
        [] opcode = \hC3 -> Ret

(* decode_one: only registers are addressed; of group 1, only ADD (/0) and *)
(* CMP (/7), which is found out once the immediate has been read.          *)
DecodeOne(bytes) ==
  IF bytes = <<>> THEN UnexpectedEnd
  ELSE LET opcode == bytes[1] IN
    IF opcode \notin Opcodes THEN InvalidOrUnsupported(opcode)
    ELSE IF HasModRm(opcode) /\ Len(bytes) = 1 THEN UnexpectedEnd
    ELSE IF HasModRm(opcode) /\ Mode(bytes[2]) # 3
      THEN UnsupportedAddressingMode(bytes[2])
    ELSE IF Len(bytes) < Length(opcode) THEN UnexpectedEnd
    ELSE IF opcode \in Group1 /\ RegField(bytes[2]) \notin {0, 7}
      THEN InvalidOrUnsupported(opcode)
    ELSE Decoded(Instruction(bytes), Length(opcode))

-----------------------------------------------------------------------------
(* Lifting.                                                                *)
Reg(r) == Register(r, RegSize)
Imm(n) == Constant(n % 256^RegSize, RegSize)
ZF == Register(1000, 1)

LiftMov(dst, src) == <<Copy(Reg(dst), src)>>

LiftAdd(dst, rhs) == <<Binary("IntAdd", Reg(dst), Reg(dst), rhs)>>

(* The zero flag is computed from the difference.                          *)
LiftCmp(lhs, rhs, next) ==
  LET diff == Fresh(next, RegSize)
  IN  << Binary("IntSub", diff, Reg(lhs), rhs),
         Binary("IntEqual", ZF, diff, Constant(0, RegSize)) >>

LiftJe(target) == <<CBranch(ZF, target)>>

LiftJne(target, next) ==
  LET not_zf == Fresh(next, 1)
  IN  << Binary("IntEqual", not_zf, ZF, Constant(0, 1)), CBranch(not_zf, target) >>

IsRelative(instr) == instr.op \in {"Jmp", "Je", "Jne", "Call"}

(* The temporaries that lifting allocates.                                 *)
Temps(instr) == IF instr.op \in {"CmpRegReg", "CmpRegImm", "Jne"} THEN 1 ELSE 0

(* Lifter::lift, when next temporaries have been allocated.                *)
Lift(instr, address, length, next) ==
  LET Target == Absolute(ResolveRel(address, length, instr.rel))
  IN  CASE instr.op = "MovRegReg" -> LiftMov(instr.dst, Reg(instr.src))
        [] instr.op = "MovRegImm" -> LiftMov(instr.dst, Imm(instr.imm))
        [] instr.op = "AddRegReg" -> LiftAdd(instr.dst, Reg(instr.src))
        [] instr.op = "AddRegImm" -> LiftAdd(instr.dst, Imm(instr.imm))
        [] instr.op = "CmpRegReg" -> LiftCmp(instr.dst, Reg(instr.src), next)
        [] instr.op = "CmpRegImm" -> LiftCmp(instr.dst, Imm(instr.imm), next)
        [] instr.op = "Jmp" -> <<Branch(Target)>>
        [] instr.op = "Je" -> LiftJe(Target)
        [] instr.op = "Jne" -> LiftJne(Target, next)
        [] instr.op = "Call" -> <<Call(Target)>>
        [] instr.op = "Ret" -> <<Return>>

LiftOverflows(instr, address, length) ==
  IsRelative(instr) /\ RelOverflows(address, length, instr.rel)

=============================================================================
