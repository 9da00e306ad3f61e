----------------------------- MODULE MCPipeline -----------------------------
(***************************************************************************)
(* Small programs of both architectures, loaded in the middle and at the   *)
(* ends of an address space of 128 bytes, and byte strings that are no     *)
(* programs.  Registers and long displacements have two bytes.             *)
(***************************************************************************)
EXTENDS Pipeline

MCAddress == 0 .. AddressLimit - 1
Bases == {0, 60, 116}

Source(arch_, program_) == [arch |-> arch_, program |-> program_]

R(n) == Cpu!R(n)
N(n) == Cpu!I(n)
MovImm(r, n) == Cpu!Mov(r, N(n), "acc")
Move(r, s, form) == Cpu!Mov(r, R(s), form)
AddImm(r, n, form) == Cpu!Add(r, R(r), N(n), form)
AddReg(r, s) == Cpu!Add(r, R(r), R(s), "store")
CmpImm(r, n, form) == Cpu!Cmp(R(r), N(n), form)
CmpReg(r, s) == Cpu!Cmp(R(r), R(s), "store")
Jump(when, to) == Cpu!Jump(when, to, "short")
Far(to) == Cpu!Jump("always", to, "near")
CallTo(to) == Cpu!CallTo(to)
Ret == Cpu!Ret

(* Straight lines, every encoding.                                         *)
X86Straight ==
  { <<MovImm(3, 70000), AddImm(3, -1, "imm8"), AddImm(3, 300, "imm"), Move(1, 3, "store"),
      Move(2, 1, "load"), AddReg(2, 3), Ret>>,
    <<AddImm(0, -2, "acc"), Move(1, 0, "store"), AddReg(1, 0)>>,
    <<MovImm(0, 1), CallTo(1), AddImm(0, 1, "imm"), MovImm(1, 2), Ret>> }

(* An if around n, which compares in one form and skips under when.        *)
X86If(compare, when) ==
  <<MovImm(1, 7), compare, Jump(when, 5), AddImm(1, 9, "imm8"), AddReg(1, 1), Ret>>

Compares ==
  { CmpImm(0, 5, "acc"), CmpImm(0, -3, "imm8"), CmpImm(3, 5, "imm"), CmpReg(0, 2) }

X86Branching ==
  {X86If(c, when) : c \in Compares, when \in {"equal", "unequal"}}
    \union
  { <<MovImm(1, 3), AddImm(1, -1, "imm8"), CmpImm(1, 0, "imm8"), Jump("unequal", 2), Ret>>,
    <<MovImm(1, 0), AddImm(1, 2, "imm"), CmpImm(1, 4, "imm"), Jump("equal", 6), Far(2), Ret>>,
    <<CmpReg(1, 0), Jump("always", 4), Ret, Jump("equal", 1), Ret>>,
    <<CmpImm(0, 5, "acc"), Jump("equal", 5), MovImm(1, 1), Ret, MovImm(1, 2)>>,
    <<Far(3), AddReg(0, 0), CmpReg(0, 0), Jump("unequal", 2), Jump("equal", 50)>>,
    <<Jump("always", 1)>> }

(* Two jumps, each to any instruction but the first.                       *)
X86Jumping ==
  {<<MovImm(1, 2), AddImm(1, -1, "imm8"), CmpImm(1, 0, "imm8"), Jump(w[1], t[1]),
     Move(3, 1, "load"), Jump(w[2], t[2]), AddReg(0, 3), Ret>>
   : w \in {"equal", "unequal"} \X {"always", "unequal"}, t \in {2, 5, 6, 7, 8} \X {2, 4, 5, 7}}

ArmAdd(r, s, operand) == Cpu!Add(r, R(s), operand, "")
ArmIf(when) ==
  <<MovImm(1, 7), CmpReg(0, 2), Jump(when, 5), ArmAdd(1, 1, N(9)), ArmAdd(1, 1, R(1)), Ret>>

ArmPrograms(when) ==
  { ArmIf(when),
    <<MovImm(1, 3), MovImm(4, 0), ArmAdd(1, 1, N(16383)), ArmAdd(1, 1, R(4)), CmpReg(1, 4),
      Jump(when, 3), Ret>>,
    <<CmpReg(0, 1), Jump(when, 4), Ret, CallTo(1), Far(1)>> }

Sources ==
  {Source("x86", p) : p \in X86Straight \union X86Branching}
    \union {Source("arm", p) : p \in ArmPrograms("equal")}

BneSources == {Source("arm", p) : p \in ArmPrograms("unequal")}

(* Bytes that end in the middle of an instruction, or are none.            *)
Rubbish ==
  { <<"x86", <<>> >>, <<"x86", <<\h90>> >>, <<"x86", <<\hB8, 1>> >>, <<"x86", <<\h01>> >>,
    <<"x86", <<\h01, 0>> >>, <<"x86", <<\h83, \hC0 + 8, 1>> >>, <<"x86", <<\hC3, \hC3>> >>,
    <<"x86", <<\h75, 254, \h81, \hF8, 1>> >>, <<"x86", <<\h74, 127, \hEB, 128>> >>,
    <<"x86", <<\hE8, 255, 127, \hE9, 0, 128>> >>,
    <<"arm", <<1, 2, 3>> >>, <<"arm", <<0, 0, 0, \h18, 0, 0, 0, \h18>> >>,
    <<"arm", <<0, 0, 128, \h14, 0, 0, 0, \h19>> >> }

InputsOf(sources, rubbish, bases) ==
  {[arch |-> s.arch, base |-> a, program |-> s.program,
    bytes |-> Cpu!Encode(s.arch, s.program, 2)] : s \in sources, a \in bases}
    \union {[arch |-> r[1], base |-> a, program |-> <<>>, bytes |-> r[2]]
              : r \in rubbish, a \in bases}

MCInputs ==
  InputsOf(Sources, Rubbish, Bases)
    \union InputsOf({Source("x86", p) : p \in X86Jumping}, {}, {0})
BneInputs == InputsOf(BneSources, {}, Bases)

=============================================================================
