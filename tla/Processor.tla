----------------------------- MODULE Processor -----------------------------
(***************************************************************************)
(* The processors whose code is decompiled: what an assembly program does, *)
(* and how it is encoded.  Written from the architectures (the encodings   *)
(* are those the comments of the decoders give) and without the decoders   *)
(* and lifters, which are compared with it.                                *)
(*                                                                         *)
(* The x86 subset and the mock ARM instructions share one assembly         *)
(* language; form picks one of the encodings of an x86 instruction.  A     *)
(* jump names the index of the instruction it goes to.                     *)
(***************************************************************************)
EXTENDS Integers, Sequences, SequencesExt

R(n) == [reg |-> n]
I(n) == [imm |-> n]
IsRegister(operand) == "reg" \in DOMAIN operand

Mov(dst, src, form) == [op |-> "mov", dst |-> dst, src |-> src, form |-> form]
Add(dst, lhs, rhs, form) ==
  [op |-> "add", dst |-> dst, lhs |-> lhs, rhs |-> rhs, form |-> form]
Cmp(lhs, rhs, form) == [op |-> "cmp", lhs |-> lhs, rhs |-> rhs, form |-> form]
Jump(when, to, form) == [op |-> "jump", when |-> when, to |-> to, form |-> form]
CallTo(to) == [op |-> "call", to |-> to, form |-> "near"]
Ret == [op |-> "ret", form |-> ""]

-----------------------------------------------------------------------------
(* Encodings.  size is the width of an x86 register, immediate and long    *)
(* displacement, in bytes.                                                 *)

Bytes(n, size) == [j \in 1 .. size |-> ((n % 256^size) \div 256^(j - 1)) % 256]

ModRm(reg, rm) == 192 + 8 * reg + rm

(* The forms: "store" and "load" for the two directions of a move, "imm"   *)
(* and "imm8" for group 1, "acc" for the accumulator, "short" and "near".  *)
X86Length(instr, size) ==
  CASE instr.form \in {"store", "load", "short"} -> 2
    [] instr.form = "imm8" -> 3
    [] instr.form = "imm" -> 2 + size
    [] instr.form \in {"acc", "near"} -> 1 + size
    [] instr.form = "" -> 1

X86Group1(reg, rm, imm, form, size) ==
  IF form = "imm8" THEN <<\h83, ModRm(reg, rm)>> \o Bytes(imm, 1)
  ELSE <<\h81, ModRm(reg, rm)>> \o Bytes(imm, size)

(* disp: from the end of the instruction to the target.                    *)
X86Encode(instr, disp, size) ==
  LET form == instr.form
  IN  CASE instr.op = "mov" /\ form = "store" -> <<\h89, ModRm(instr.src.reg, instr.dst)>>
        [] instr.op = "mov" /\ form = "load" -> <<\h8B, ModRm(instr.dst, instr.src.reg)>>
        [] instr.op = "mov" /\ form = "acc" -> <<\hB8 + instr.dst>> \o Bytes(instr.src.imm, size)
        [] instr.op = "add" /\ form = "store" -> <<\h01, ModRm(instr.rhs.reg, instr.dst)>>
        [] instr.op = "add" /\ form = "acc" -> <<\h05>> \o Bytes(instr.rhs.imm, size)
        [] instr.op = "add" /\ form \in {"imm", "imm8"} ->
             X86Group1(0, instr.dst, instr.rhs.imm, form, size)
        [] instr.op = "cmp" /\ form = "store" -> <<\h39, ModRm(instr.rhs.reg, instr.lhs.reg)>>
        [] instr.op = "cmp" /\ form = "acc" -> <<\h3D>> \o Bytes(instr.rhs.imm, size)
        [] instr.op = "cmp" /\ form \in {"imm", "imm8"} ->
             X86Group1(7, instr.lhs.reg, instr.rhs.imm, form, size)
        [] instr.op = "jump" /\ form = "near" -> <<\hE9>> \o Bytes(disp, size)
        [] instr.op = "jump" /\ form = "short" ->
             << CASE instr.when = "always" -> \hEB
                  [] instr.when = "equal" -> \h74
                  [] instr.when = "unequal" -> \h75 >> \o Bytes(disp, 1)
        [] instr.op = "call" -> <<\hE8>> \o Bytes(disp, size)
        [] instr.op = "ret" -> <<\hC3>>

(* disp: from the start of the instruction to the target.                  *)
ArmEncode(instr, disp) ==
  CASE instr.op = "mov" -> Bytes(instr.dst + 32 * instr.src.imm, 3) \o <<\h10>>
    [] instr.op = "add" /\ IsRegister(instr.rhs) ->
         Bytes(instr.dst + 32 * instr.lhs.reg + 1024 * instr.rhs.reg, 3) \o <<\h11>>
    [] instr.op = "add" /\ ~ IsRegister(instr.rhs) ->
         Bytes(instr.dst + 32 * instr.lhs.reg + 1024 * instr.rhs.imm, 3) \o <<\h12>>
    [] instr.op = "cmp" -> Bytes(instr.lhs.reg + 32 * instr.rhs.reg, 3) \o <<\h13>>
    [] instr.op = "jump" ->
         Bytes(disp, 3) \o << CASE instr.when = "always" -> \h14
                                [] instr.when = "equal" -> \h16
                                [] instr.when = "unequal" -> \h17 >>
    [] instr.op = "call" -> Bytes(disp, 3) \o <<\h15>>
    [] instr.op = "ret" -> <<0, 0, 0, \h18>>

InstructionLength(arch, instr, size) ==
  IF arch = "arm" THEN 4 ELSE X86Length(instr, size)

(* Where instruction j of a program lies, from the start of the program.   *)
Offset(arch, program, j, size) ==
  FoldLeft(LAMBDA sum, m : sum + InstructionLength(arch, program[m], size), 0,
           [m \in 1 .. j - 1 |-> m])

(* A target one past the end is the byte behind the program, any other     *)
(* target that is no instruction lies far outside.                         *)
Displacement(arch, program, j, size) ==
  LET instr == program[j]
      here == Offset(arch, program, j, size)
      next == IF arch = "arm" THEN here ELSE here + X86Length(instr, size)
      target == IF instr.to \in 1 .. Len(program) + 1
                THEN Offset(arch, program, instr.to, size) ELSE instr.to
  IN  target - next

Encode(arch, program, size) ==
  FlattenSeq([j \in 1 .. Len(program) |->
    LET instr == program[j]
        disp == IF instr.op \in {"jump", "call"}
                THEN Displacement(arch, program, j, size) ELSE 0
    IN  IF arch = "arm" THEN ArmEncode(instr, disp) ELSE X86Encode(instr, disp, size)])

-----------------------------------------------------------------------------
(* Execution.  A machine has the index ip of its next instruction (0 when  *)
(* it has returned), its registers, its zero flag, and the registers and   *)
(* flag (ZFlag) whose values the program itself accounts for: known leaves *)
(* out what a callee may have overwritten and, as the lifters document it, *)
(* the flag after an addition that sets it on x86.                         *)

ZFlag == -1   \* stands for the flag among the register numbers

Operand(operand, m) == IF IsRegister(operand) THEN m.regs[operand.reg] ELSE operand.imm

IsKnown(operand, m) == IsRegister(operand) => operand.reg \in m.known

Learn(m, what, from) ==
  IF \A operand \in from : IsKnown(operand, m)
  THEN m.known \union {what} ELSE m.known \ {what}

Takes(when, z) ==
  CASE when = "always" -> TRUE
    [] when = "equal" -> z
    [] when = "unequal" -> ~ z

ExecuteMov(instr, m, limit) ==
  [m EXCEPT !.ip = @ + 1,
            !.regs[instr.dst] = Operand(instr.src, m) % limit,
            !.known = Learn(m, instr.dst, {instr.src})]

ExecuteAdd(instr, m, limit, sets_flag) ==
  LET sum == (Operand(instr.lhs, m) + Operand(instr.rhs, m)) % limit
  IN  [m EXCEPT !.ip = @ + 1,
                !.regs[instr.dst] = sum,
                !.z = IF sets_flag THEN sum = 0 ELSE @,
                !.known = Learn(m, instr.dst, {instr.lhs, instr.rhs})
                            \ (IF sets_flag THEN {ZFlag} ELSE {})]

ExecuteCmp(instr, m, limit) ==
  [m EXCEPT !.ip = @ + 1,
            !.z = Operand(instr.lhs, m) % limit = Operand(instr.rhs, m) % limit,
            !.known = Learn(m, ZFlag, {instr.lhs, instr.rhs})]

(* limit is the number of values of a register.                            *)
ExecuteInstruction(arch, instr, m, limit) ==
  CASE instr.op = "mov" -> ExecuteMov(instr, m, limit)
    [] instr.op = "add" -> ExecuteAdd(instr, m, limit, arch # "arm")
    [] instr.op = "cmp" -> ExecuteCmp(instr, m, limit)
    [] instr.op = "jump" ->
         [m EXCEPT !.ip = IF Takes(instr.when, m.z) THEN instr.to ELSE @ + 1]
    [] instr.op = "call" -> [m EXCEPT !.ip = @ + 1, !.known = {}]
    [] instr.op = "ret" -> [m EXCEPT !.ip = 0]

=============================================================================
