---------------------------- MODULE DecodeProofs ----------------------------
(***************************************************************************)
(* What the decode loop makes of any bytes, at any base, on either         *)
(* architecture and in either build, is a stream as CfgBuilder takes it    *)
(* for granted; and what each backend makes of the encoding of one         *)
(* instruction does what the processor does, as does the C that is printed *)
(* for straight-line code.                                                 *)
(*                                                                         *)
(* The invariant says of every decoded instruction what the lemmas about   *)
(* the backends say of one: it is non-empty and lies within the bytes, it  *)
(* transfers control at most once, to addresses, and uses temporaries that *)
(* were allocated for it.                                                  *)
(*                                                                         *)
(* For the second part, an encoding is read back octet by octet, the       *)
(* instruction read denotes the one encoded, and the operations of an      *)
(* instruction leave in the Varnodes what it leaves in the registers.  The *)
(* printed statements mirror the operations, and an induction over the     *)
(* instructions does the rest.                                             *)
(***************************************************************************)
EXTENDS Decode, WordProofs, SequenceTheorems, TLAPS

-----------------------------------------------------------------------------
(* Arithmetic.                                                             *)

(* A sum of octets weighted by powers of 256, and its signed reading, are  *)
(* integers.                                                               *)
LEMMA LittleEndianInteger ==
  ASSUME NEW b \in Seq(Octet), NEW first \in Nat \ {0}, NEW size \in 0 .. 4,
         first + size <= Len(b) + 1
  PROVE  LittleEndian(b, first, size) \in Int
<1> DEFINE Digit(j) == IF j < size THEN b[first + j] * 256^j ELSE 0
<1>1. ASSUME NEW j \in 0 .. 3
      PROVE  Digit(j) \in Int
  <2>1. CASE j < size
    <3>1. first + j \in 1 .. Len(b)
      BY <2>1
    <3>2. b[first + j] \in Int
      <4>1. b[first + j] \in Octet
        BY <3>1
      <4>2. \A x \in Octet : x \in Int
        BY DEF Octet
      <4> QED
        BY <4>1, <4>2, Zenon
    <3>3. 256^j \in Int
      BY SMT
    <3>4. \A x, y \in Int : x * y \in Int
      OBVIOUS
    <3>5. b[first + j] * 256^j \in Int
      BY <3>2, <3>3, <3>4, Zenon
    <3> QED
      BY <2>1, <3>5, Zenon
  <2>2. CASE ~ (j < size)
    <3>1. 0 \in Int
      OBVIOUS
    <3> QED
      BY <2>2, <3>1, Zenon
  <2> QED
    BY <2>1, <2>2
<1>2. Digit(0) + Digit(1) + Digit(2) + Digit(3) \in Int
  <2> HIDE DEF Digit
  <2>1. Digit(0) \in Int /\ Digit(1) \in Int /\ Digit(2) \in Int /\ Digit(3) \in Int
    BY <1>1, SMT
  <2> QED
    BY <2>1, SMT
<1> QED
  BY <1>2 DEF LittleEndian

LEMMA SignedInteger ==
  ASSUME NEW n \in Int, NEW size \in Nat
  PROVE  AsSigned(n, size) \in Int
<1>1. 256^size \in Int
  BY SMT
<1> QED
  BY <1>1, SMT DEF AsSigned

(* Displacements resolve to addresses.                                     *)
LEMMA ResolvedIsAddress ==
  ASSUME NEW address \in Address, NEW length \in Int, NEW rel \in Int
  PROVE  ResolveRel(address, length, rel) \in Address
<1>1. address + length + rel \in Int
  BY LimitAssumption, SMT
<1>2. (address + length + rel) % AddressLimit \in 0 .. AddressLimit - 1
  BY <1>1, LimitAssumption, SMT
<1> QED
  BY <1>2, LimitAssumption DEF ResolveRel

(* A multiple of L smaller than L is zero.                                 *)
LEMMA SmallMultiple ==
  ASSUME NEW L \in Nat \ {0}, NEW d \in Int, -L < L * d, L * d < L
  PROVE  d = 0
<1>1. CASE d >= 1
  <2>1. L * d >= L * 1
    BY <1>1, Z3
  <2> QED
    BY <2>1
<1>2. CASE d <= -1
  <2>1. L * d <= L * (-1)
    BY <1>2, Z3
  <2> QED
    BY <2>1
<1> QED
  BY <1>1, <1>2

(* Division leaves one remainder.                                          *)
LEMMA RemainderUnique ==
  ASSUME NEW L \in Nat \ {0}, NEW q \in Int, NEW r \in 0 .. L - 1
  PROVE  (L * q + r) % L = r
<1> DEFINE x == L * q + r
           p == x \div L
           s == x % L
<1>1. x \in Int
  OBVIOUS
<1>2. p \in Int /\ s \in 0 .. L - 1 /\ x = L * p + s
  BY <1>1
<1>3. L * (p - q) = r - s
  BY <1>2
<1> HIDE DEF x, p, s
<1>4. p - q = 0
  BY <1>2, <1>3, SmallMultiple
<1>5. r = s
  BY <1>2, <1>3, <1>4
<1> QED
  BY <1>5 DEF s, x

(* Remainders may be taken before adding.                                  *)
LEMMA RemainderOfSum ==
  ASSUME NEW L \in Nat \ {0}, NEW a \in Nat, NEW n \in Nat
  PROVE  ((a % L) + n) % L = (a + n) % L
<1> DEFINE p == a \div L
           s == a % L
           q == (s + n) \div L
           r == (s + n) % L
<1>1. p \in Int /\ s \in 0 .. L - 1 /\ a = L * p + s
  OBVIOUS
<1>2. s + n \in Int
  BY <1>1
<1>3. q \in Int /\ r \in 0 .. L - 1 /\ s + n = L * q + r
  BY <1>2
<1> HIDE DEF p, q, r, s
<1>4. a + n = L * (p + q) + r
  BY <1>1, <1>3
<1>5. (L * (p + q) + r) % L = r
  <2>1. p + q \in Int
    BY <1>1, <1>3
  <2> QED
    BY <1>3, <2>1, RemainderUnique, Zenon
<1>6. (a + n) % L = r
  BY <1>4, <1>5, Zenon
<1> QED
  BY <1>6 DEF s, r

-----------------------------------------------------------------------------
(* What is asked of the lifting of one instruction.                        *)

IsSequence(s) == s \in Seq(Elements(s))

TargetsOK(ops) ==
  \A op \in Elements(ops) :
    /\ op.op = "CBranch" => op.target \in {Absolute(a) : a \in Address}
    /\ op.op = "Branch" => op.target \in {Indirect} \union {Absolute(a) : a \in Address}

OneControl(ops) ==
  \A j, m \in 1 .. Len(ops) : IsControl(ops[j]) /\ IsControl(ops[m]) => j = m

(* Its temporaries were allocated between low and high.                    *)
TempsBetween(ops, low, high) ==
  \A op \in Elements(ops) :
    op.op \in BinaryOps /\ op.dest.space = "Unique" => op.dest.offset \in low .. high - 1

LiftsWell(ops, low, high) ==
  IsSequence(ops) /\ TargetsOK(ops) /\ OneControl(ops) /\ TempsBetween(ops, low, high)

(* The lifts are sequences of one operation, or of two of which only the   *)
(* last may transfer control.                                              *)
OpOK(op, low, high) ==
  /\ op.op \in {"Branch", "CBranch"} => op.target \in {Absolute(a) : a \in Address}
  /\ op.op \in BinaryOps /\ op.dest.space = "Unique" => op.dest.offset \in low .. high - 1

LEMMA OneLiftsWell ==
  ASSUME NEW op, NEW low, NEW high, OpOK(op, low, high)
  PROVE  LiftsWell(<<op>>, low, high)
<1>1. Elements(<<op>>) = {op}
  BY DEF Elements
<1>0. IsSequence(<<op>>)
  BY <1>1 DEF IsSequence
<1>2. TargetsOK(<<op>>)
  BY <1>1 DEF TargetsOK, OpOK
<1>3. OneControl(<<op>>)
  BY DEF OneControl
<1>4. TempsBetween(<<op>>, low, high)
  BY <1>1 DEF TempsBetween, OpOK
<1> QED
  BY <1>0, <1>2, <1>3, <1>4 DEF LiftsWell

LEMMA TwoLiftWell ==
  ASSUME NEW o, NEW p, NEW low, NEW high,
         OpOK(o, low, high), OpOK(p, low, high), ~ IsControl(o)
  PROVE  LiftsWell(<<o, p>>, low, high)
<1>1. Elements(<<o, p>>) = {o, p}
  BY DEF Elements
<1>0. IsSequence(<<o, p>>)
  BY <1>1 DEF IsSequence
<1>2. TargetsOK(<<o, p>>)
  BY <1>1 DEF TargetsOK, OpOK
<1>3. OneControl(<<o, p>>)
  BY DEF OneControl
<1>4. TempsBetween(<<o, p>>, low, high)
  BY <1>1 DEF TempsBetween, OpOK
<1> QED
  BY <1>0, <1>2, <1>3, <1>4 DEF LiftsWell

-----------------------------------------------------------------------------
(* The backends lift well.                                                 *)

LEMMA X86LiftsWell ==
  ASSUME NEW instr, NEW address \in Address, NEW length \in Nat, NEW next \in Nat,
         instr.op \in {"MovRegReg", "MovRegImm", "AddRegReg", "AddRegImm", "CmpRegReg",
                       "CmpRegImm", "Jmp", "Je", "Jne", "Call", "Ret"},
         X86Backend!IsRelative(instr) => instr.rel \in Int
  PROVE  LiftsWell(X86Backend!Lift(instr, address, length, next),
                   next, next + X86Backend!Temps(instr))
<1> DEFINE high == next + X86Backend!Temps(instr)
           target == X86Backend!Absolute(X86Backend!ResolveRel(address, length, instr.rel))
           ops == X86Backend!Lift(instr, address, length, next)
<1>1. X86Backend!IsRelative(instr) => target \in {Absolute(a) : a \in Address}
  BY ResolvedIsAddress
  DEF X86Backend!ResolveRel, ResolveRel, X86Backend!Absolute, Absolute
<1>2. CASE instr.op = "MovRegReg"
  <2>1. ops = <<X86Backend!Copy(X86Backend!Reg(instr.dst), X86Backend!Reg(instr.src))>>
    BY <1>2 DEF X86Backend!Lift, X86Backend!LiftMov
  <2>2. OpOK(X86Backend!Copy(X86Backend!Reg(instr.dst), X86Backend!Reg(instr.src)), next, high)
    BY DEF OpOK, X86Backend!Copy, BinaryOps
  <2> QED
    BY <2>1, <2>2, OneLiftsWell
<1>3. CASE instr.op = "MovRegImm"
  <2>1. ops = <<X86Backend!Copy(X86Backend!Reg(instr.dst), X86Backend!Imm(instr.imm))>>
    BY <1>3 DEF X86Backend!Lift, X86Backend!LiftMov
  <2>2. OpOK(X86Backend!Copy(X86Backend!Reg(instr.dst), X86Backend!Imm(instr.imm)), next, high)
    BY DEF OpOK, X86Backend!Copy, BinaryOps
  <2> QED
    BY <2>1, <2>2, OneLiftsWell
<1>4. ASSUME NEW rhs, ops = X86Backend!LiftAdd(instr.dst, rhs)
      PROVE  LiftsWell(ops, next, high)
  <2> DEFINE op == X86Backend!Binary("IntAdd", X86Backend!Reg(instr.dst), X86Backend!Reg(instr.dst), rhs)
  <2>1. ops = <<op>>
    BY <1>4 DEF X86Backend!LiftAdd
  <2>2. OpOK(op, next, high)
    BY DEF OpOK, X86Backend!Binary, BinaryOps, X86Backend!Reg, X86Backend!Register, X86Backend!Varnode
  <2> QED
    BY <2>1, <2>2, OneLiftsWell
<1>5. CASE instr.op \in {"AddRegReg", "AddRegImm"}
  BY <1>4, <1>5 DEF X86Backend!Lift
<1>6. ASSUME NEW rhs, ops = X86Backend!LiftCmp(instr.dst, rhs, next),
             instr.op \in {"CmpRegReg", "CmpRegImm"}
      PROVE  LiftsWell(ops, next, high)
  <2> DEFINE diff == X86Backend!Fresh(next, X86RegSize)
             o == X86Backend!Binary("IntSub", diff, X86Backend!Reg(instr.dst), rhs)
             p == X86Backend!Binary("IntEqual", X86Backend!ZF, diff, X86Backend!Constant(0, X86RegSize))
  <2>1. ops = <<o, p>>
    BY <1>6 DEF X86Backend!LiftCmp
  <2>2. next \in next .. high - 1
    BY <1>6 DEF X86Backend!Temps
  <2>3. OpOK(o, next, high)
    BY <2>2 DEF OpOK, X86Backend!Binary, BinaryOps, X86Backend!Fresh, X86Backend!Varnode
  <2>4. OpOK(p, next, high)
    BY DEF OpOK, X86Backend!Binary, BinaryOps, X86Backend!ZF, X86Backend!Register, X86Backend!Varnode
  <2>5. ~ IsControl(o)
    BY DEF IsControl, X86Backend!Binary
  <2> QED
    BY <2>1, <2>3, <2>4, <2>5, TwoLiftWell
<1>7. CASE instr.op \in {"CmpRegReg", "CmpRegImm"}
  BY <1>6, <1>7 DEF X86Backend!Lift
<1>8. CASE instr.op = "Jne"
  <2> DEFINE not_zf == X86Backend!Fresh(next, 1)
             o == X86Backend!Binary("IntEqual", not_zf, X86Backend!ZF, X86Backend!Constant(0, 1))
             p == X86Backend!CBranch(not_zf, target)
  <2>1. ops = <<o, p>>
    BY <1>8 DEF X86Backend!Lift, X86Backend!LiftJne
  <2>2. next \in next .. high - 1
    BY <1>8 DEF X86Backend!Temps
  <2>3. OpOK(o, next, high)
    BY <2>2 DEF OpOK, X86Backend!Binary, BinaryOps, X86Backend!Fresh, X86Backend!Varnode
  <2>4. OpOK(p, next, high)
    BY <1>1, <1>8 DEF OpOK, X86Backend!CBranch, BinaryOps, X86Backend!IsRelative
  <2>5. ~ IsControl(o)
    BY DEF IsControl, X86Backend!Binary
  <2> QED
    BY <2>1, <2>3, <2>4, <2>5, TwoLiftWell
<1>9. CASE instr.op = "Je"
  <2>1. ops = <<X86Backend!CBranch(X86Backend!ZF, target)>>
    BY <1>9 DEF X86Backend!Lift, X86Backend!LiftJe
  <2>2. OpOK(X86Backend!CBranch(X86Backend!ZF, target), next, high)
    BY <1>1, <1>9 DEF OpOK, X86Backend!CBranch, BinaryOps, X86Backend!IsRelative
  <2> QED
    BY <2>1, <2>2, OneLiftsWell
<1>10. CASE instr.op = "Jmp"
  <2>1. ops = <<X86Backend!Branch(target)>>
    BY <1>10 DEF X86Backend!Lift
  <2>2. OpOK(X86Backend!Branch(target), next, high)
    BY <1>1, <1>10 DEF OpOK, X86Backend!Branch, BinaryOps, X86Backend!IsRelative
  <2> QED
    BY <2>1, <2>2, OneLiftsWell
<1>11. CASE instr.op = "Call"
  <2>1. ops = <<X86Backend!Call(target)>>
    BY <1>11 DEF X86Backend!Lift
  <2>2. OpOK(X86Backend!Call(target), next, high)
    BY DEF OpOK, X86Backend!Call, BinaryOps
  <2> QED
    BY <2>1, <2>2, OneLiftsWell
<1>12. CASE instr.op = "Ret"
  <2>1. ops = <<X86Backend!Return>>
    BY <1>12 DEF X86Backend!Lift
  <2>2. OpOK(X86Backend!Return, next, high)
    BY DEF OpOK, X86Backend!Return, BinaryOps
  <2> QED
    BY <2>1, <2>2, OneLiftsWell
<1> QED
  BY <1>2, <1>3, <1>5, <1>7, <1>8, <1>9, <1>10, <1>11, <1>12

LEMMA ArmLiftsWell ==
  ASSUME NEW instr, NEW address \in Address, NEW low, NEW high,
         instr.op \in {"MovRegImm", "AddRegReg", "AddRegImm", "CmpRegReg",
                       "B", "BL", "BEQ", "BNE", "Ret"},
         ArmBackend!IsRelative(instr) => instr.rel \in Int
  PROVE  LiftsWell(ArmBackend!Lift(instr, address), low, high)
<1> DEFINE target == ArmBackend!Absolute(ArmBackend!ResolveRel(address, 0, instr.rel))
           ops == ArmBackend!Lift(instr, address)
<1>1. ArmBackend!IsRelative(instr) => target \in {Absolute(a) : a \in Address}
  BY ResolvedIsAddress
  DEF ArmBackend!ResolveRel, ResolveRel, ArmBackend!Absolute, Absolute
<1>2. CASE instr.op = "MovRegImm"
  <2> DEFINE op == ArmBackend!Copy(ArmBackend!Reg(instr.dst), ArmBackend!Imm(instr.imm))
  <2>1. ops = <<op>>
    BY <1>2 DEF ArmBackend!Lift
  <2>2. OpOK(op, low, high)
    BY DEF OpOK, ArmBackend!Copy, BinaryOps
  <2> QED
    BY <2>1, <2>2, OneLiftsWell
<1>3. ASSUME NEW name, NEW number, NEW size, NEW lhs, NEW rhs,
             ops = <<ArmBackend!Binary(name, ArmBackend!Register(number, size), lhs, rhs)>>,
             name \in BinaryOps
      PROVE  LiftsWell(ops, low, high)
  <2>1. OpOK(ArmBackend!Binary(name, ArmBackend!Register(number, size), lhs, rhs), low, high)
    BY <1>3 DEF OpOK, ArmBackend!Binary, BinaryOps, ArmBackend!Register, ArmBackend!Varnode
  <2> QED
    BY <1>3, <2>1, OneLiftsWell
<1>4. CASE instr.op = "AddRegReg"
  <2>1. ops = <<ArmBackend!Binary("IntAdd", ArmBackend!Register(instr.dst, ArmRegSize), ArmBackend!Reg(instr.src1),
                       ArmBackend!Reg(instr.src2))>>
    BY <1>4 DEF ArmBackend!Lift, ArmBackend!Reg
  <2> QED
    BY <1>3, <2>1 DEF BinaryOps
<1>5. CASE instr.op = "AddRegImm"
  <2>1. ops = <<ArmBackend!Binary("IntAdd", ArmBackend!Register(instr.dst, ArmRegSize), ArmBackend!Reg(instr.src),
                       ArmBackend!Imm(instr.imm))>>
    BY <1>5 DEF ArmBackend!Lift, ArmBackend!Reg
  <2> QED
    BY <1>3, <2>1 DEF BinaryOps
<1>6. CASE instr.op = "CmpRegReg"
  <2>1. ops = <<ArmBackend!Binary("IntEqual", ArmBackend!Register(1000, ArmFlagSize), ArmBackend!Reg(instr.lhs),
                       ArmBackend!Reg(instr.rhs))>>
    BY <1>6 DEF ArmBackend!Lift, ArmBackend!Flags
  <2> QED
    BY <1>3, <2>1 DEF BinaryOps
<1>7. CASE instr.op = "B"
  <2>1. ops = <<ArmBackend!Branch(target)>>
    BY <1>7 DEF ArmBackend!Lift
  <2>2. OpOK(ArmBackend!Branch(target), low, high)
    BY <1>1, <1>7 DEF OpOK, ArmBackend!Branch, BinaryOps, ArmBackend!IsRelative
  <2> QED
    BY <2>1, <2>2, OneLiftsWell
<1>8. CASE instr.op = "BL"
  <2>1. ops = <<ArmBackend!Call(target)>>
    BY <1>8 DEF ArmBackend!Lift
  <2>2. OpOK(ArmBackend!Call(target), low, high)
    BY DEF OpOK, ArmBackend!Call, BinaryOps
  <2> QED
    BY <2>1, <2>2, OneLiftsWell
<1>9. CASE instr.op \in {"BEQ", "BNE"}
  <2>1. ops = <<ArmBackend!CBranch(ArmBackend!Flags, target)>>
    BY <1>9 DEF ArmBackend!Lift
  <2>2. OpOK(ArmBackend!CBranch(ArmBackend!Flags, target), low, high)
    BY <1>1, <1>9 DEF OpOK, ArmBackend!CBranch, BinaryOps, ArmBackend!IsRelative
  <2> QED
    BY <2>1, <2>2, OneLiftsWell
<1>10. CASE instr.op = "Ret"
  <2>1. ops = <<ArmBackend!Return>>
    BY <1>10 DEF ArmBackend!Lift
  <2>2. OpOK(ArmBackend!Return, low, high)
    BY DEF OpOK, ArmBackend!Return, BinaryOps
  <2> QED
    BY <2>1, <2>2, OneLiftsWell
<1> QED
  BY <1>2, <1>4, <1>5, <1>6, <1>7, <1>8, <1>9, <1>10

-----------------------------------------------------------------------------
(* What decodes is an instruction that lies within the bytes.              *)

(* The opcodes that move an immediate are no other opcodes.                *)
LEMMA MovImmIsNoOther ==
  ASSUME NEW x, x \in X86Backend!MovImm
  PROVE  /\ x \notin {\h89, \h8B, \h01, \h39, \h05, \h3D, \hEB, \hE9, \h74, \h75, \hE8, \hC3}
         /\ x \notin X86Backend!Group1
  BY DEF X86Backend!MovImm, X86Backend!Group1

(* The fields of a ModRM byte and of a word have three and five bits.       *)
LEMMA SecondByte ==
  ASSUME NEW s \in Seq(Octet), Len(s) >= 1, Len(s) # 1
  PROVE  s[2] \in Octet
<1>1. 2 \in 1 .. Len(s)
  OBVIOUS
<1> QED
  BY <1>1

LEMMA ThreeBits == \A x \in Octet : x % 8 \in 0 .. 7 /\ (x \div 8) % 8 \in 0 .. 7
<1>1. \A x \in Octet : x \in Int
  BY DEF Octet
<1>2. \A x \in Int : x \div 8 \in Int
  OBVIOUS
<1>3. \A x \in Int : x % 8 \in 0 .. 7
  OBVIOUS
<1> QED
  BY <1>1, <1>2, <1>3, Zenon

LEMMA FiveBits ==
  ASSUME NEW x \in Int
  PROVE  /\ (x \div 1) % 32 \in 0 .. 31
         /\ (x \div 32) % 32 \in 0 .. 31
         /\ (x \div 1024) % 32 \in 0 .. 31
<1>1. \A y \in Int : y % 32 \in 0 .. 31
  OBVIOUS
<1>2. x \div 1 \in Int /\ x \div 32 \in Int /\ x \div 1024 \in Int
  OBVIOUS
<1>3. (x \div 1) % 32 \in 0 .. 31
  BY <1>1, <1>2, Zenon
<1>4. (x \div 32) % 32 \in 0 .. 31
  BY <1>1, <1>2, Zenon
<1>5. (x \div 1024) % 32 \in 0 .. 31
  BY <1>1, <1>2
<1> QED
  BY <1>3, <1>4, <1>5

(* The registers an instruction names are numbers of an encoding.          *)
X86Registers(instr) ==
  /\ instr.op \in {"MovRegReg", "AddRegReg", "CmpRegReg", "MovRegImm", "AddRegImm", "CmpRegImm"}
       => instr.dst \in 0 .. 7
  /\ instr.op \in {"MovRegReg", "AddRegReg", "CmpRegReg"} => instr.src \in 0 .. 7

ArmRegisters(instr) ==
  /\ instr.op \in {"MovRegImm", "AddRegReg", "AddRegImm"} => instr.dst \in 0 .. 31
  /\ instr.op = "AddRegReg" => instr.src1 \in 0 .. 31 /\ instr.src2 \in 0 .. 31
  /\ instr.op = "AddRegImm" => instr.src \in 0 .. 31
  /\ instr.op = "CmpRegReg" => instr.lhs \in 0 .. 31 /\ instr.rhs \in 0 .. 31

LEMMA X86Decodes ==
  ASSUME NEW b \in Seq(Octet), X86Backend!DecodeOne(b).kind = "Decoded"
  PROVE  LET result == X86Backend!DecodeOne(b)
             instr == result.instruction
         IN  /\ result.length \in 1 .. Len(b)
             /\ instr.op \in {"MovRegReg", "MovRegImm", "AddRegReg", "AddRegImm", "CmpRegReg",
                              "CmpRegImm", "Jmp", "Je", "Jne", "Call", "Ret"}
             /\ X86Backend!IsRelative(instr) => instr.rel \in Int
             /\ X86Registers(instr)
<1> DEFINE opcode == b[1]
           result == X86Backend!DecodeOne(b)
           instr == X86Backend!Instruction(b)
           length == X86Backend!Length(opcode)
           imm == X86Backend!Immediate(b)
<1>1. /\ b # <<>> /\ opcode \in X86Backend!Opcodes
      /\ length <= Len(b)
      /\ result = X86Backend!Decoded(instr, length)
      /\ opcode \in X86Backend!Group1 => X86Backend!RegField(b[2]) \in {0, 7}
      /\ ~ (X86Backend!HasModRm(opcode) /\ Len(b) = 1)
  <2>1. b # <<>>
    BY DEF X86Backend!DecodeOne, X86Backend!UnexpectedEnd
  <2>2. opcode \in X86Backend!Opcodes
    BY <2>1 DEF X86Backend!DecodeOne, X86Backend!InvalidOrUnsupported
  <2>3. ~ (X86Backend!HasModRm(opcode) /\ Len(b) = 1)
    BY <2>1, <2>2 DEF X86Backend!DecodeOne, X86Backend!UnexpectedEnd
  <2>4. ~ (X86Backend!HasModRm(opcode) /\ X86Backend!Mode(b[2]) # 3)
    BY <2>1, <2>2, <2>3 DEF X86Backend!DecodeOne, X86Backend!UnsupportedAddressingMode
  <2>5. ~ (Len(b) < length)
    BY <2>1, <2>2, <2>3, <2>4 DEF X86Backend!DecodeOne, X86Backend!UnexpectedEnd
  <2>6. ~ (opcode \in X86Backend!Group1 /\ X86Backend!RegField(b[2]) \notin {0, 7})
    BY <2>1, <2>2, <2>3, <2>4, <2>5 DEF X86Backend!DecodeOne, X86Backend!InvalidOrUnsupported
  <2>7. result = X86Backend!Decoded(instr, length)
    BY <2>1, <2>2, <2>3, <2>4, <2>5, <2>6 DEF X86Backend!DecodeOne
  <2>8. length \in Int
    BY SizeAssumption DEF X86Backend!Length, X86Backend!ModRmSize, X86Backend!ImmSize
  <2> QED
    BY <2>1, <2>2, <2>3, <2>5, <2>6, <2>7, <2>8
<1>2. /\ X86Backend!ModRmSize(opcode) \in {0, 1}
      /\ X86Backend!ImmSize(opcode) \in 0 .. 4
  BY SizeAssumption DEF X86Backend!ModRmSize, X86Backend!ImmSize
<1>3. length \in 1 .. Len(b)
  BY <1>1, <1>2 DEF X86Backend!Length
<1>4. result.length = length /\ result.instruction = instr
  BY <1>1 DEF X86Backend!Decoded
<1>5. imm \in Int
  <2> DEFINE first == 2 + X86Backend!ModRmSize(opcode)
             size == X86Backend!ImmSize(opcode)
  <2>1. first \in Nat \ {0} /\ size \in 0 .. 4 /\ first + size <= Len(b) + 1
    BY <1>1, <1>2 DEF X86Backend!Length
  <2>2. LittleEndian(b, first, size) \in Int
    BY <2>1, LittleEndianInteger
  <2>3. AsSigned(LittleEndian(b, first, size), size) \in Int
    <3>1. size \in Nat
      BY <2>1
    <3> QED
      BY <2>2, <3>1, SignedInteger, Zenon
  <2>4. imm = AsSigned(LittleEndian(b, first, size), size)
    BY Zenon DEF X86Backend!Immediate, X86Backend!AsSigned, AsSigned,
                 X86Backend!LittleEndian, LittleEndian
  <2> QED
    BY <2>3, <2>4
<1>0. ASSUME X86Backend!HasModRm(opcode)
      PROVE  X86Backend!RegField(b[2]) \in 0 .. 7 /\ X86Backend!RmField(b[2]) \in 0 .. 7
  <2>1. Len(b) # 1 /\ Len(b) >= 1
    BY <1>0, <1>1, <1>3
  <2>2. b[2] \in Octet
    BY <2>1, SecondByte
  <2> QED
    BY <2>2, ThreeBits, Zenon DEF X86Backend!RegField, X86Backend!RmField
<1>6. /\ instr.op \in {"MovRegReg", "MovRegImm", "AddRegReg", "AddRegImm", "CmpRegReg",
                       "CmpRegImm", "Jmp", "Je", "Jne", "Call", "Ret"}
      /\ X86Backend!IsRelative(instr) => instr.rel \in Int
      /\ X86Registers(instr)
  <2>1. CASE opcode \in X86Backend!MovImm
    <3>1. instr = X86Backend!RegImm("MovRegImm", opcode - \hB8, imm)
      <4>1. /\ opcode \notin {\h89, \h8B, \h01, \h39, \h05, \h3D, \hEB, \hE9, \h74, \h75, \hE8, \hC3}
            /\ opcode \notin X86Backend!Group1
        BY <2>1, MovImmIsNoOther
      <4> QED
        BY <2>1, <4>1 DEF X86Backend!Instruction
    <3> QED
      BY <2>1, <3>1 DEF X86Backend!RegImm, X86Backend!IsRelative, X86Registers,
                        X86Backend!MovImm
  <2>2. CASE opcode \in X86Backend!RegisterForms
    <3>1. \E op \in {"MovRegReg", "AddRegReg", "CmpRegReg"}, x, y \in {X86Backend!RegField(b[2]), X86Backend!RmField(b[2])} :
            instr = X86Backend!RegReg(op, x, y)
      <4>1. CASE opcode = \h89
        <5>1. instr = X86Backend!RegReg("MovRegReg", X86Backend!RmField(b[2]), X86Backend!RegField(b[2]))
          BY <4>1 DEF X86Backend!Instruction, X86Backend!MovImm, X86Backend!Group1
        <5> QED
          BY <5>1
      <4>2. CASE opcode = \h8B
        <5>1. instr = X86Backend!RegReg("MovRegReg", X86Backend!RegField(b[2]), X86Backend!RmField(b[2]))
          BY <4>2 DEF X86Backend!Instruction, X86Backend!MovImm, X86Backend!Group1
        <5> QED
          BY <5>1
      <4>3. CASE opcode = \h01
        <5>1. instr = X86Backend!RegReg("AddRegReg", X86Backend!RmField(b[2]), X86Backend!RegField(b[2]))
          BY <4>3 DEF X86Backend!Instruction, X86Backend!MovImm, X86Backend!Group1
        <5> QED
          BY <5>1
      <4>4. CASE opcode = \h39
        <5>1. instr = X86Backend!RegReg("CmpRegReg", X86Backend!RmField(b[2]), X86Backend!RegField(b[2]))
          BY <4>4 DEF X86Backend!Instruction, X86Backend!MovImm, X86Backend!Group1
        <5> QED
          BY <5>1
      <4> QED
        BY <2>2, <4>1, <4>2, <4>3, <4>4 DEF X86Backend!RegisterForms
    <3> QED
      BY <1>0, <2>2, <3>1
      DEF X86Backend!RegReg, X86Backend!IsRelative, X86Registers, X86Backend!HasModRm
  <2>3. CASE opcode \in X86Backend!Group1
    <3>1. X86Backend!RmField(b[2]) \in 0 .. 7
      BY <1>0, <2>3 DEF X86Backend!HasModRm
    <3>2. \E op \in {"AddRegImm", "CmpRegImm"} :
            instr = X86Backend!RegImm(op, X86Backend!RmField(b[2]), imm)
      BY <2>3 DEF X86Backend!Group1, X86Backend!MovImm, X86Backend!Instruction
    <3> QED
      BY <3>1, <3>2 DEF X86Backend!RegImm, X86Backend!IsRelative, X86Registers
  <2>4. CASE opcode \in X86Backend!AccumulatorForms
    <3>1. \E op \in {"AddRegImm", "CmpRegImm"} : instr = X86Backend!RegImm(op, 0, imm)
      <4>1. CASE opcode = \h05
        <5>1. instr = X86Backend!RegImm("AddRegImm", 0, imm)
          BY <4>1 DEF X86Backend!Instruction, X86Backend!MovImm, X86Backend!Group1
        <5> QED
          BY <5>1
      <4>2. CASE opcode = \h3D
        <5>1. instr = X86Backend!RegImm("CmpRegImm", 0, imm)
          BY <4>2 DEF X86Backend!Instruction, X86Backend!MovImm, X86Backend!Group1
        <5> QED
          BY <5>1
      <4> QED
        BY <2>4, <4>1, <4>2 DEF X86Backend!AccumulatorForms
    <3> QED
      BY <3>1 DEF X86Backend!RegImm, X86Backend!IsRelative, X86Registers
  <2>5. CASE opcode \in X86Backend!Rel8Forms \union X86Backend!Rel32Forms
    <3>1. \E op \in {"Jmp", "Je", "Jne", "Call"} : instr = X86Backend!Relative(op, imm)
      <4>1. CASE opcode = \h74
        <5>1. instr = X86Backend!Relative("Je", imm)
          BY <4>1 DEF X86Backend!Instruction, X86Backend!MovImm, X86Backend!Group1
        <5> QED
          BY <5>1
      <4>2. CASE opcode = \h75
        <5>1. instr = X86Backend!Relative("Jne", imm)
          BY <4>2 DEF X86Backend!Instruction, X86Backend!MovImm, X86Backend!Group1
        <5> QED
          BY <5>1
      <4>3. CASE opcode = \hE8
        <5>1. instr = X86Backend!Relative("Call", imm)
          BY <4>3 DEF X86Backend!Instruction, X86Backend!MovImm, X86Backend!Group1
        <5> QED
          BY <5>1
      <4>4. CASE opcode = \hEB
        <5>1. instr = X86Backend!Relative("Jmp", imm)
          BY <4>4 DEF X86Backend!Instruction, X86Backend!MovImm, X86Backend!Group1
        <5> QED
          BY <5>1
      <4>5. CASE opcode = \hE9
        <5>1. instr = X86Backend!Relative("Jmp", imm)
          BY <4>5 DEF X86Backend!Instruction, X86Backend!MovImm, X86Backend!Group1
        <5> QED
          BY <5>1
      <4> QED
        BY <2>5, <4>1, <4>2, <4>3, <4>4, <4>5 DEF X86Backend!Rel8Forms, X86Backend!Rel32Forms
    <3> QED
      BY <1>5, <3>1 DEF X86Backend!Relative, X86Registers
  <2>6. CASE opcode = \hC3
    BY <2>6 DEF X86Backend!MovImm, X86Backend!Group1,
                X86Backend!Instruction, X86Backend!Ret, X86Backend!IsRelative, X86Registers
  <2> QED
    BY <1>1, <2>1, <2>2, <2>3, <2>4, <2>5, <2>6 DEF X86Backend!Opcodes
<1> QED
  BY <1>3, <1>4, <1>6

LEMMA ArmDecodes ==
  ASSUME NEW b \in Seq(Octet), ArmBackend!DecodeOne(b).kind = "Decoded"
  PROVE  LET result == ArmBackend!DecodeOne(b)
             instr == result.instruction
         IN  /\ result.length \in 1 .. Len(b)
             /\ instr.op \in {"MovRegImm", "AddRegReg", "AddRegImm", "CmpRegReg",
                              "B", "BL", "BEQ", "BNE", "Ret"}
             /\ ArmBackend!IsRelative(instr) => instr.rel \in Int
             /\ ArmRegisters(instr)
<1> DEFINE low24 == ArmBackend!LittleEndian(b, 1, 3)
           result == ArmBackend!DecodeOne(b)
           instr == ArmBackend!Instruction(b[4], low24)
<1>1. /\ Len(b) >= 4
      /\ b[4] \in \h10 .. \h18
      /\ result = ArmBackend!Decoded(instr, 4)
  BY DEF ArmBackend!DecodeOne, ArmBackend!UnexpectedEnd, ArmBackend!InvalidOrUnsupported
<1>2. result.length = 4 /\ result.instruction = instr
  BY <1>1 DEF ArmBackend!Decoded
<1>3. ArmBackend!SignExtend24(low24) \in Int
  <2>1. LittleEndian(b, 1, 3) \in Int
    BY <1>1, LittleEndianInteger
  <2>2. AsSigned(LittleEndian(b, 1, 3), 3) \in Int
    BY <2>1, SignedInteger
  <2> QED
    BY <2>2, Zenon DEF ArmBackend!SignExtend24, ArmBackend!AsSigned, AsSigned,
                       ArmBackend!LittleEndian, LittleEndian
<1>5. /\ ArmBackend!Dst(low24) \in 0 .. 31 /\ ArmBackend!Src1(low24) \in 0 .. 31
      /\ ArmBackend!Src2(low24) \in 0 .. 31
  <2>0. LittleEndian(b, 1, 3) \in Int
    BY <1>1, LittleEndianInteger
  <2>1. low24 \in Int
    BY <2>0, Zenon DEF ArmBackend!LittleEndian, LittleEndian
  <2> HIDE DEF low24
  <2>2. 2^0 = 1 /\ 2^5 = 32 /\ 2^10 = 1024
    OBVIOUS
  <2>5. /\ ArmBackend!Dst(low24) = (low24 \div 1) % 32
        /\ ArmBackend!Src1(low24) = (low24 \div 32) % 32
        /\ ArmBackend!Src2(low24) = (low24 \div 1024) % 32
    BY <2>2, Zenon DEF ArmBackend!Dst, ArmBackend!Src1, ArmBackend!Src2, ArmBackend!Field
  <2> QED
    BY <2>1, <2>5, FiveBits
<1>4. /\ instr.op \in {"MovRegImm", "AddRegReg", "AddRegImm", "CmpRegReg",
                       "B", "BL", "BEQ", "BNE", "Ret"}
      /\ ArmBackend!IsRelative(instr) => instr.rel \in Int
      /\ ArmRegisters(instr)
  <2> DEFINE rel == ArmBackend!SignExtend24(low24)
  <2> HIDE DEF low24, rel
  <2>1. ASSUME NEW op \in {"B", "BL", "BEQ", "BNE"}, instr = ArmBackend!Relative(op, rel)
        PROVE  instr.op = op /\ instr.rel \in Int /\ ArmRegisters(instr)
    <3>1. instr.op = op /\ instr.rel \in Int
      BY <1>3, <2>1 DEF ArmBackend!Relative, rel
    <3> HIDE DEF instr
    <3> QED
      BY <3>1 DEF ArmRegisters
  <2>2. CASE b[4] = \h10
    BY <1>5, <2>2 DEF ArmBackend!Instruction, ArmBackend!MovRegImm, ArmBackend!IsRelative,
                      ArmRegisters
  <2>3. CASE b[4] = \h11
    BY <1>5, <2>3 DEF ArmBackend!Instruction, ArmBackend!AddRegReg, ArmBackend!IsRelative,
                      ArmRegisters
  <2>4. CASE b[4] = \h12
    BY <1>5, <2>4 DEF ArmBackend!Instruction, ArmBackend!AddRegImm, ArmBackend!IsRelative,
                      ArmRegisters
  <2>5. CASE b[4] = \h13
    BY <1>5, <2>5 DEF ArmBackend!Instruction, ArmBackend!CmpRegReg, ArmBackend!IsRelative,
                      ArmRegisters
  <2>6. CASE b[4] = \h14
    <3>1. instr = ArmBackend!Relative("B", rel)
      BY <2>6 DEF ArmBackend!Instruction, rel
    <3> QED
      BY <2>1, <3>1
  <2>7. CASE b[4] = \h15
    <3>1. instr = ArmBackend!Relative("BL", rel)
      BY <2>7 DEF ArmBackend!Instruction, rel
    <3> QED
      BY <2>1, <3>1
  <2>8. CASE b[4] = \h16
    <3>1. instr = ArmBackend!Relative("BEQ", rel)
      BY <2>8 DEF ArmBackend!Instruction, rel
    <3> QED
      BY <2>1, <3>1
  <2>9. CASE b[4] = \h17
    <3>1. instr = ArmBackend!Relative("BNE", rel)
      BY <2>9 DEF ArmBackend!Instruction, rel
    <3> QED
      BY <2>1, <3>1
  <2>10. CASE b[4] = \h18
    BY <2>10 DEF ArmBackend!Instruction, ArmBackend!Ret, ArmBackend!IsRelative, ArmRegisters
  <2> QED
    BY <1>1, <2>2, <2>3, <2>4, <2>5, <2>6, <2>7, <2>8, <2>9, <2>10
<1> QED
  BY <1>1, <1>2, <1>4

(* Either way.                                                             *)
LEMMA DecodesAndLifts ==
  ASSUME NEW b \in Seq(Octet), DisassembleOne(b).kind = "Decoded",
         NEW address \in Address, NEW next \in Nat
  PROVE  LET result == DisassembleOne(b)
             instr == result.instruction
         IN  /\ result.length \in 1 .. Len(b)
             /\ Temps(instr) \in Nat
             /\ LiftsWell(Lift(instr, address, result.length, next), next, next + Temps(instr))
<1> DEFINE result == DisassembleOne(b)
           instr == result.instruction
<1>1. CASE arch = "arm"
  <2>1. result = ArmBackend!DecodeOne(b)
    BY <1>1 DEF DisassembleOne
  <2>2. result.length \in 1 .. Len(b)
    BY <2>1, ArmDecodes
  <2>3. LiftsWell(ArmBackend!Lift(instr, address), next, next + Temps(instr))
    BY <2>1, ArmDecodes, ArmLiftsWell
  <2> QED
    BY <1>1, <2>2, <2>3 DEF Lift, Temps
<1>2. CASE arch # "arm"
  <2>1. result = X86Backend!DecodeOne(b)
    BY <1>2 DEF DisassembleOne
  <2>2. result.length \in 1 .. Len(b)
    BY <2>1, X86Decodes
  <2>3. LiftsWell(X86Backend!Lift(instr, address, result.length, next),
                  next, next + X86Backend!Temps(instr))
    BY <2>1, <2>2, X86Decodes, X86LiftsWell
  <2>4. X86Backend!Temps(instr) \in Nat
    BY DEF X86Backend!Temps
  <2> QED
    BY <1>2, <2>2, <2>3, <2>4 DEF Lift, Temps
<1> QED
  BY <1>1, <1>2

-----------------------------------------------------------------------------
(* Appending to a sequence of anything.                                    *)

LEMMA AppendAnything ==
  ASSUME NEW s, IsSequence(s), NEW e
  PROVE  LET t == Append(s, e)
         IN  /\ IsSequence(t)
             /\ Len(s) \in Nat /\ Len(t) = Len(s) + 1
             /\ \A j \in 1 .. Len(s) : t[j] = s[j]
             /\ t[Len(t)] = e
<1> DEFINE S == Elements(s) \union {e}
           t == Append(s, e)
<1>1. s \in Seq(S)
  <2>1. s \in Seq(Elements(s))
    BY DEF IsSequence
  <2> QED
    BY <2>1
<1>2. e \in S
  OBVIOUS
<1> HIDE DEF S
<1>3. /\ t \in Seq(S) /\ Len(s) \in Nat /\ Len(t) = Len(s) + 1
      /\ \A j \in 1 .. Len(s) : t[j] = s[j]
      /\ t[Len(t)] = e
  BY <1>1, <1>2, AppendProperties, LenProperties
<1> HIDE DEF t
<1>4. t \in Seq(Elements(t))
  BY <1>3 DEF Elements
<1> QED
  BY <1>3, <1>4 DEF IsSequence, t

-----------------------------------------------------------------------------
(* The invariant.                                                          *)

AddressesOK ==
  /\ \A j \in 1 .. Len(block) : block[j].address \in Address
  /\ checks \/ InOrder =>
       /\ \A j \in 1 .. Len(block) : block[j].address < base + offset
       /\ \A j, m \in 1 .. Len(block) : j < m => block[j].address < block[m].address

AllLiftWell == \A j \in 1 .. Len(block) : LiftsWell(block[j].ops, 0, next_temp)

Inv ==
  /\ TypeOK
  /\ IsSequence(block) /\ IsSequence(decoded)
  /\ block = <<>> => offset = 0
  /\ Contiguous /\ ReturnIsLast /\ TempsDistinct
  /\ AddressesOK
  /\ AllLiftWell

(* The invariant says that what has been lifted is a stream.               *)
LEMMA InvIsStream == Inv => DecodedIsStream
<1> SUFFICES ASSUME Inv PROVE DecodedIsStream
  OBVIOUS
<1>1. SUFFICES ASSUME checks \/ InOrder PROVE Stream(block)
  BY DEF DecodedIsStream, Inv
<1>2. \A li \in Elements(block) : LiftedInstruction(li)
  BY DEF Inv, AddressesOK, AllLiftWell, LiftsWell, TargetsOK, Elements, LiftedInstruction
<1>3. \A j, m \in 1 .. Len(block) : j < m => block[j].address < block[m].address
  BY <1>1 DEF Inv, AddressesOK
<1>4. \A li \in Elements(block) :
        \A j, m \in 1 .. Len(li.ops) :
          IsControl(li.ops[j]) /\ IsControl(li.ops[m]) => j = m
  BY DEF Inv, AllLiftWell, LiftsWell, OneControl, Elements
<1> QED
  BY <1>2, <1>3, <1>4 DEF Stream

LEMMA InvInitially == Init => Inv
<1> SUFFICES ASSUME Init PROVE Inv
  OBVIOUS
<1>1. PICK in \in Inputs : bytes = in.bytes /\ base = in.base
  BY DEF Init
<1>2. bytes \in Seq(Octet) /\ base \in Address
  BY <1>1, InputAssumption
<1>3. /\ offset = 0 /\ next_temp = 0 /\ progress = "decode"
      /\ block = <<>> /\ decoded = <<>>
  BY DEF Init
<1>4. Len(block) = 0 /\ Len(decoded) = 0 /\ Len(bytes) \in Nat
  BY <1>2, <1>3
<1>5. TypeOK
  BY <1>2, <1>3, <1>4 DEF TypeOK
<1>6. IsSequence(block) /\ IsSequence(decoded)
  BY <1>3 DEF IsSequence
<1>7. Contiguous /\ ReturnIsLast /\ TempsDistinct /\ AddressesOK /\ AllLiftWell
  BY <1>3, <1>4 DEF Contiguous, ReturnIsLast, TempsDistinct, AddressesOK, AllLiftWell
<1> QED
  BY <1>3, <1>5, <1>6, <1>7 DEF Inv

(* Stopping, in whatever way, takes back nothing.                          *)
LEMMA InvWhenStopped ==
  ASSUME Inv, progress = "decode", NEW how \in {"done", "panicked"}, Stop(how)
  PROVE  Inv'
<1>1. /\ block' = block /\ decoded' = decoded /\ offset' = offset /\ next_temp' = next_temp
      /\ bytes' = bytes /\ base' = base /\ checks' = checks
      /\ progress' = how
  BY DEF Stop, input
<1>2. TypeOK'
  BY <1>1 DEF Inv, TypeOK
<1>3. IsSequence(block)' /\ IsSequence(decoded)' /\ (block = <<>> => offset = 0)'
  BY <1>1 DEF Inv, IsSequence, Elements
<1>4. Contiguous' /\ TempsDistinct'
  BY <1>1 DEF Inv, Contiguous, Here, TempsDistinct
<1>5. ReturnIsLast'
  BY <1>1 DEF Inv, ReturnIsLast
<1>6. AddressesOK' /\ AllLiftWell'
  BY <1>1 DEF Inv, AddressesOK, InOrder, AllLiftWell
<1> QED
  BY <1>2, <1>3, <1>4, <1>5, <1>6 DEF Inv

LEMMA InvAfterInstruction ==
  ASSUME Inv, DecodeInstruction
  PROVE  Inv'
<1> DEFINE length == Disassembled.length
           instr == Disassembled.instruction
           ops == Lift(instr, Here, length, next_temp)
           n == Len(block)
<1>1. /\ progress = "decode" /\ offset < Len(bytes)
      /\ checks => base + offset < AddressLimit
      /\ Disassembled.kind = "Decoded"
      /\ block' = Append(block, Lifted(Here, ops))
      /\ decoded' = Append(decoded, [instruction |-> instr, length |-> length])
      /\ progress' \in {"done", "decode"}
      /\ Returns(ops) => progress' = "done"
      /\ offset' = offset + length
      /\ next_temp' = next_temp + Temps(instr)
      /\ bytes' = bytes /\ base' = base /\ checks' = checks
  BY DEF DecodeInstruction, AtInstruction, input
<1>2. /\ bytes \in Seq(Octet) /\ Len(bytes) \in Nat /\ offset \in 0 .. Len(bytes)
      /\ base \in Nat /\ base < AddressLimit /\ AddressLimit \in Nat \ {0}
      /\ next_temp \in Nat
  BY LimitAssumption DEF Inv, TypeOK
<1>3. Here \in Address /\ (base + offset < AddressLimit => Here = base + offset)
  BY <1>2, LimitAssumption DEF Here
<1>4. /\ length \in 1 .. Len(bytes) - offset
      /\ Temps(instr) \in Nat
      /\ LiftsWell(ops, next_temp, next_temp + Temps(instr))
  <2> DEFINE remaining == SubSeq(bytes, offset + 1, Len(bytes))
  <2>1. remaining \in Seq(Octet) /\ Len(remaining) = Len(bytes) - offset
    <3>1. \A j \in offset + 1 .. Len(bytes) : bytes[j] \in Octet
      BY <1>2
    <3>2. offset + 1 \in Int /\ Len(bytes) \in Int /\ offset + 1 <= Len(bytes)
      BY <1>1, <1>2
    <3>3. Len(remaining) = Len(bytes) - (offset + 1) + 1
      BY <3>1, <3>2, SubSeqProperties
    <3>4. remaining \in Seq(Octet)
      BY <3>1, <3>2, SubSeqProperties
    <3> QED
      BY <1>2, <3>3, <3>4
  <2>2. Disassembled = DisassembleOne(remaining)
    BY DEF Disassembled
  <2> HIDE DEF remaining
  <2> QED
    BY <1>1, <1>2, <1>3, <2>1, <2>2, DecodesAndLifts
<1> HIDE DEF length, instr, ops
<1>5. /\ n \in Nat /\ Len(decoded) = n
      /\ IsSequence(block') /\ IsSequence(decoded')
      /\ Len(block') = n + 1 /\ Len(decoded') = n + 1
      /\ \A j \in 1 .. n : block'[j] = block[j] /\ decoded'[j] = decoded[j]
      /\ block'[n + 1] = Lifted(Here, ops)
      /\ decoded'[n + 1] = [instruction |-> instr, length |-> length]
  BY <1>1, AppendAnything DEF Inv, TypeOK
<1>6. /\ block'[n + 1].address = Here /\ block'[n + 1].ops = ops
      /\ decoded'[n + 1].length = length
  BY <1>5 DEF Lifted
<1>7. 1 .. Len(block') = 1 .. n \union {n + 1}
  BY <1>5
<1>8. TypeOK'
  BY <1>1, <1>2, <1>4, <1>5 DEF Inv, TypeOK
<1>9. (block = <<>> => offset = 0)'
  BY <1>5
<1>10. Contiguous'
  <2>1. (block[1].address = base)'
    <3>1. CASE n = 0
      <4>1. block = <<>>
        BY <1>5, <3>1 DEF Inv, IsSequence
      <4>2. Here = base
        BY <1>2, <1>3, <4>1 DEF Inv
      <4> QED
        BY <1>1, <1>6, <3>1, <4>2
    <3>2. CASE n # 0
      <4>1. block # <<>>
        BY <1>5, <3>2
      <4> QED
        BY <1>1, <1>5, <3>2, <4>1 DEF Inv, Contiguous
    <3> QED
      BY <3>1, <3>2
  <2>2. (Here + length) % AddressLimit = (base + offset + length) % AddressLimit
    <3>1. base + offset \in Nat /\ length \in Nat
      BY <1>2, <1>4
    <3> QED
      BY <1>2, <3>1, RemainderOfSum DEF Here
  <2>3. Here' = (base + offset + length) % AddressLimit
    <3>1. base + (offset + length) = base + offset + length
      BY <1>2, <1>4
    <3> QED
      BY <1>1, <3>1 DEF Here
  <2>4. ASSUME NEW j \in 1 .. Len(block')
        PROVE  (block'[j].address + decoded'[j].length) % AddressLimit =
                  IF j < Len(block') THEN block'[j + 1].address ELSE Here'
    <3>1. CASE j = n + 1
      BY <1>5, <1>6, <2>2, <2>3, <3>1
    <3>2. CASE j = n /\ j \in 1 .. n
      BY <1>5, <1>6, <3>2 DEF Inv, Contiguous
    <3>3. CASE j < n /\ j \in 1 .. n
      <4>1. j + 1 \in 1 .. n /\ j < Len(block')
        BY <1>5, <3>3
      <4> QED
        BY <1>5, <3>3, <4>1 DEF Inv, Contiguous
    <3> QED
      BY <1>5, <3>1, <3>2, <3>3
  <2> QED
    BY <2>1, <2>4 DEF Contiguous
<1>11. ReturnIsLast'
  <2>1. \A j \in 1 .. n : ~ Returns(block'[j].ops)
    BY <1>1, <1>5 DEF Inv, ReturnIsLast
  <2> QED
    BY <1>1, <1>5, <1>6, <1>7, <2>1 DEF ReturnIsLast
<1>12. AllLiftWell'
  <2>1. next_temp <= next_temp' /\ next_temp' \in Nat
    BY <1>1, <1>2, <1>4
  <2>2. ASSUME NEW j \in 1 .. n
        PROVE  LiftsWell(block'[j].ops, 0, next_temp')
    <3>1. LiftsWell(block[j].ops, 0, next_temp)
      BY DEF Inv, AllLiftWell
    <3> QED
      BY <1>2, <1>5, <2>1, <3>1 DEF LiftsWell, TempsBetween
  <2>3. LiftsWell(ops, 0, next_temp')
    BY <1>1, <1>2, <1>4, <2>1 DEF LiftsWell, TempsBetween
  <2> QED
    BY <1>6, <1>7, <2>2, <2>3 DEF AllLiftWell
<1>13. TempsDistinct'
  <2>1. TempsOf(block'[n + 1]) \intersect 0 .. next_temp - 1 = {}
    BY <1>2, <1>4, <1>6 DEF LiftsWell, TempsBetween, TempsOf
  <2>2. \A j \in 1 .. n : TempsOf(block'[j]) \subseteq 0 .. next_temp - 1
    BY <1>5 DEF Inv, AllLiftWell, LiftsWell, TempsBetween, TempsOf
  <2>3. \A j, m \in 1 .. n : j # m => TempsOf(block'[j]) \intersect TempsOf(block'[m]) = {}
    BY <1>5 DEF Inv, TempsDistinct
  <2> QED
    BY <1>7, <2>1, <2>2, <2>3 DEF TempsDistinct
<1>14. AddressesOK'
  <2>1. \A j \in 1 .. Len(block') : block'[j].address \in Address
    BY <1>3, <1>5, <1>6, <1>7 DEF Inv, AddressesOK
  <2>2. ASSUME (checks \/ InOrder)'
        PROVE  /\ \A j \in 1 .. Len(block') : block'[j].address < base' + offset'
               /\ \A j, m \in 1 .. Len(block') : j < m => block'[j].address < block'[m].address
    <3>1. base + offset < AddressLimit
      BY <1>1, <1>2, <1>4, <2>2 DEF InOrder
    <3>2. \A j \in 1 .. n : block[j].address < base + offset
      BY <1>2, <3>1 DEF Inv, AddressesOK, InOrder
    <3>3. \A j, m \in 1 .. n : j < m => block[j].address < block[m].address
      BY <1>2, <3>1 DEF Inv, AddressesOK, InOrder
    <3>4. Here = base + offset /\ Here < base' + offset'
      BY <1>1, <1>2, <1>3, <1>4, <3>1
    <3>5. \A j \in 1 .. n : block[j].address \in Nat
      BY LimitAssumption DEF Inv, AddressesOK
    <3>6. \A j \in 1 .. Len(block') : block'[j].address < base' + offset'
      <4>1. ASSUME NEW j \in 1 .. n PROVE block'[j].address < base' + offset'
        <5>1. block[j].address < base + offset /\ block[j].address \in Nat
          BY <3>2, <3>5
        <5>2. base + offset < base' + offset' /\ base' + offset' \in Nat
          BY <1>1, <1>2, <1>4
        <5>3. block'[j].address = block[j].address
          BY <1>5
        <5> QED
          BY <1>2, <5>1, <5>2, <5>3
      <4> QED
        BY <1>6, <1>7, <3>4, <4>1
    <3>7. ASSUME NEW j \in 1 .. Len(block'), NEW m \in 1 .. Len(block'), j < m
          PROVE  block'[j].address < block'[m].address
      <4>1. j \in 1 .. n
        BY <1>5, <3>7
      <4>2. CASE m \in 1 .. n
        BY <1>5, <3>3, <3>7, <4>1, <4>2
      <4>3. CASE m = n + 1
        BY <1>5, <1>6, <3>2, <3>4, <4>1, <4>3
      <4> QED
        BY <1>7, <4>2, <4>3
    <3> QED
      BY <3>6, <3>7
  <2> QED
    BY <2>1, <2>2 DEF AddressesOK
<1> QED
  BY <1>5, <1>8, <1>9, <1>10, <1>11, <1>12, <1>13, <1>14 DEF Inv, IsSequence, Elements

LEMMA InvPreserved == Inv /\ [Next]_<<input, decoding>> => Inv'
<1> SUFFICES ASSUME Inv, [Next]_<<input, decoding>> PROVE Inv'
  OBVIOUS
<1>1. CASE Exhausted
  BY <1>1, InvWhenStopped DEF Exhausted
<1>2. CASE AddressOverflows
  BY <1>2, InvWhenStopped DEF AddressOverflows
<1>3. CASE DecodeFails
  BY <1>3, InvWhenStopped DEF DecodeFails, AtInstruction
<1>4. CASE LiftPanics
  BY <1>4, InvWhenStopped DEF LiftPanics, AtInstruction
<1>5. CASE DecodeInstruction
  BY <1>5, InvAfterInstruction
<1>6. CASE UNCHANGED <<input, decoding>>
  <2>1. /\ block' = block /\ decoded' = decoded /\ offset' = offset /\ next_temp' = next_temp
        /\ bytes' = bytes /\ base' = base /\ checks' = checks
        /\ progress' = progress
    BY <1>6 DEF input, decoding
  <2> QED
    BY <2>1 DEF Inv, TypeOK, IsSequence, Elements, Contiguous, Here, ReturnIsLast,
                TempsDistinct, AddressesOK, InOrder, AllLiftWell
<1> QED
  BY <1>1, <1>2, <1>3, <1>4, <1>5, <1>6 DEF Next, Step

LEMMA InvAlways == Spec => []Inv
  BY InvInitially, InvPreserved, PTL DEF Spec

-----------------------------------------------------------------------------
(* The decode loop stays within its bytes and its temporaries are counted  *)
(* (main.rs:101-138).                                                      *)
THEOREM TypeCorrect == Spec => []TypeOK
<1>1. Inv => TypeOK
  BY DEF Inv
<1> QED
  BY <1>1, InvAlways, PTL

(* Whatever the bytes, the base, the architecture and the build, what has  *)
(* been lifted is a stream as CfgBuilder takes it for granted              *)
(* (main.rs:82-84, 123-138; traits.rs:86-95).                              *)
THEOREM AlwaysStream == Spec => []DecodedIsStream
  BY InvAlways, InvIsStream, PTL

Assembly == INSTANCE Processor

-----------------------------------------------------------------------------
(* Numbers in octets.                                                      *)

LEMMA PowersOf256 ==
  /\ 256^0 = 1 /\ 256^1 = 256 /\ 256^2 = 65536 /\ 256^3 = 16777216
  /\ 256^4 = 4294967296
  BY SMT

LEMMA OctetLimit ==
  ASSUME NEW size \in 1 .. 4
  PROVE  Limit(size) = 256^size /\ 256^size \in Nat /\ 256^size >= 256
<1>1. TwoTo[8] = 256
  <2>1. TwoTo[1] = 2
    <3>1. TwoTo[0 + 1] = 2 * TwoTo[0]
      BY TwoToUnfolds
    <3>2. QED
      BY <3>1, TwoToUnfolds
  <2>2. TwoTo[2] = 4
    <3>1. TwoTo[1 + 1] = TwoTo[1] * TwoTo[1]
      BY TwoToSum
    <3>2. QED
      BY <2>1, <3>1
  <2>3. TwoTo[4] = 16
    <3>1. TwoTo[2 + 2] = TwoTo[2] * TwoTo[2]
      BY TwoToSum
    <3>2. QED
      BY <2>2, <3>1
  <2>4. TwoTo[4 + 4] = TwoTo[4] * TwoTo[4]
    BY TwoToSum
  <2>5. QED
    BY <2>3, <2>4
<1>2. TwoTo[16] = 65536
  <2>1. TwoTo[8 + 8] = TwoTo[8] * TwoTo[8]
    BY TwoToSum
  <2>2. QED
    BY <1>1, <2>1, SMT
<1>3. TwoTo[24] = 16777216
  <2>1. TwoTo[16 + 8] = TwoTo[16] * TwoTo[8]
    BY TwoToSum
  <2>2. QED
    BY <1>1, <1>2, <2>1, SMT
<1>4. TwoTo[32] = 4294967296
  <2>1. TwoTo[24 + 8] = TwoTo[24] * TwoTo[8]
    BY TwoToSum
  <2>2. QED
    BY <1>1, <1>3, <2>1, SMT
<1>5. \/ size = 1 /\ size * ByteBits = 8
      \/ size = 2 /\ size * ByteBits = 16
      \/ size = 3 /\ size * ByteBits = 24
      \/ size = 4 /\ size * ByteBits = 32
  BY LimitAssumption, SMT
<1>6. CASE size = 1
  BY <1>1, <1>5, <1>6, PowersOf256, SMT DEF Limit
<1>7. CASE size = 2
  BY <1>2, <1>5, <1>7, PowersOf256, SMT DEF Limit
<1>8. CASE size = 3
  BY <1>3, <1>5, <1>8, PowersOf256, SMT DEF Limit
<1>9. CASE size = 4
  BY <1>4, <1>5, <1>9, PowersOf256, SMT DEF Limit
<1>10. QED
  BY <1>6, <1>7, <1>8, <1>9, SMT

(* The digits of a number to the base 256 make it up.                      *)
LEMMA Digits ==
  ASSUME NEW n \in Nat
  PROVE  /\ n < 256 => n % 256 = n
         /\ n < 65536 => (n % 256) + ((n \div 256) % 256) * 256 = n
         /\ n < 16777216 => (n % 256) + ((n \div 256) % 256) * 256 + ((n \div 65536) % 256) * 65536 = n
         /\ n < 4294967296 =>
              (n % 256) + ((n \div 256) % 256) * 256 + ((n \div 65536) % 256) * 65536
                + ((n \div 16777216) % 256) * 16777216 = n
  BY SMT

LEMMA LittleEndianOfBytes ==
  ASSUME NEW n \in Int, NEW size \in 1 .. 4, NEW b, NEW first \in Nat,
         \A j \in 1 .. size : b[first + j - 1] = Assembly!Bytes(n, size)[j]
  PROVE  LittleEndian(b, first, size) = n % 256^size
<1>1. PICK l \in Nat : l = 256^size /\ l >= 256
  BY OctetLimit
<1>2. PICK m \in Nat : m = n % 256^size /\ m < l
  BY <1>1
<1>3. ASSUME NEW j \in 0 .. size - 1
      PROVE  b[first + j] = (m \div 256^j) % 256
  <2>1. j + 1 \in 1 .. size /\ first + (j + 1) - 1 = first + j /\ (j + 1) - 1 = j
    BY SMT
  <2>2. Assembly!Bytes(n, size)[j + 1] = ((n % 256^size) \div 256^((j + 1) - 1)) % 256
    BY <2>1 DEF Assembly!Bytes
  <2>3. QED
    BY <1>2, <2>1, <2>2
<1>4. m \div 1 = m
  OBVIOUS
<1>5. CASE size = 1
  <2>1. b[first + 0] = m % 256
    BY <1>3, <1>4, <1>5, PowersOf256
  <2>2. QED
    BY <1>1, <1>2, <1>5, <2>1, Digits, PowersOf256, SMT DEF LittleEndian
<1>6. CASE size = 2
  <2>1. b[first + 0] = m % 256 /\ b[first + 1] = (m \div 256) % 256
    BY <1>3, <1>4, <1>6, PowersOf256
  <2>2. QED
    BY <1>1, <1>2, <1>6, <2>1, Digits, PowersOf256, SMT DEF LittleEndian
<1>7. CASE size = 3
  <2>1. /\ b[first + 0] = m % 256 /\ b[first + 1] = (m \div 256) % 256
        /\ b[first + 2] = (m \div 65536) % 256
    BY <1>3, <1>4, <1>7, PowersOf256
  <2>2. QED
    BY <1>1, <1>2, <1>7, <2>1, Digits, PowersOf256, SMT DEF LittleEndian
<1>8. CASE size = 4
  <2>1. /\ b[first + 0] = m % 256 /\ b[first + 1] = (m \div 256) % 256
        /\ b[first + 2] = (m \div 65536) % 256 /\ b[first + 3] = (m \div 16777216) % 256
    BY <1>3, <1>4, <1>8, PowersOf256
  <2>2. QED
    BY <1>1, <1>2, <1>8, <2>1, Digits, PowersOf256, SMT DEF LittleEndian
<1>9. QED
  BY <1>5, <1>6, <1>7, <1>8

(* Reading a number back with its sign.                                    *)
LEMMA SignedOfBytes ==
  ASSUME NEW n \in Int, NEW size \in 1 .. 4
  PROVE  LET s == AsSigned(n % 256^size, size)
         IN  /\ s \in Int /\ s % 256^size = n % 256^size
             /\ -(256^size) <= 2 * n /\ 2 * n < 256^size => s = n
<1>1. PICK l \in Nat \ {0} : l = 256^size
  <2>1. 256^size \in Nat \ {0}
    <3>1. 256^size \in Nat /\ 256^size >= 256
      BY OctetLimit
    <3>2. QED
      BY <3>1, SMT
  <2>2. QED
    BY <2>1
<1>2. PICK m \in 0 .. l - 1, q \in Int : m = n % l /\ n = l * q + m
  BY ModType
<1>3. PICK s : s = IF 2 * m < l THEN m ELSE m - l
  OBVIOUS
<1>4. s \in Int /\ s % l = m
  <2>1. CASE 2 * m < l
    BY <1>3, <2>1
  <2>2. CASE ~ (2 * m < l)
    <3>1. s = l * (-1) + m
      BY <1>3, <2>2
    <3>2. QED
      BY <1>3, <2>2, <3>1, ModUnique
  <2>3. QED
    BY <2>1, <2>2
<1>5. ASSUME -l <= 2 * n, 2 * n < l PROVE s = n
  <2>1. \/ 0 <= n /\ n < l
        \/ -l <= n /\ n < 0
    BY <1>5
  <2>2. CASE 0 <= n /\ n < l
    BY <1>2, <1>3, <1>5, <2>2
  <2>3. CASE -l <= n /\ n < 0
    <3>1. n % l = n + l
      BY <2>3
    <3>2. QED
      BY <1>2, <1>3, <1>5, <2>3, <3>1
  <2>4. QED
    BY <2>1, <2>2, <2>3
<1>6. AsSigned(n % 256^size, size) = s
  BY <1>1, <1>2, <1>3 DEF AsSigned
<1>7. QED
  BY <1>1, <1>2, <1>4, <1>5, <1>6

-----------------------------------------------------------------------------
(* What a processor does and what the operations do.                       *)

LEMMA RunsOne ==
  ASSUME NEW o, NEW r
  PROVE  Runs(<<o>>, r, Execute(o, r, 0))
<1> DEFINE path == [j \in 0 .. 1 |-> IF j = 0 THEN r ELSE Execute(o, r, 0)]
<1>1. DOMAIN path = 0 .. 1 /\ path[0] = r /\ path[1] = Execute(o, r, 0)
  OBVIOUS
<1> HIDE DEF path
<1>2. Len(<<o>>) = 1 /\ <<o>>[1] = o
  OBVIOUS
<1>3. ASSUME NEW j \in 1 .. 1 PROVE path[j] = Execute(<<o>>[j], path[j - 1], 0)
  <2>1. j = 1 /\ j - 1 = 0
    OBVIOUS
  <2>2. QED
    BY <1>1, <1>2, <2>1
<1>4. QED
  BY <1>1, <1>2, <1>3, Zenon DEF Runs

LEMMA RunsTwo ==
  ASSUME NEW o, NEW p, NEW r
  PROVE  Runs(<<o, p>>, r, Execute(p, Execute(o, r, 0), 0))
<1> DEFINE path == [j \in 0 .. 2 |->
                      IF j = 0 THEN r
                      ELSE IF j = 1 THEN Execute(o, r, 0)
                      ELSE Execute(p, Execute(o, r, 0), 0)]
<1>1. /\ DOMAIN path = 0 .. 2 /\ path[0] = r /\ path[1] = Execute(o, r, 0)
      /\ path[2] = Execute(p, Execute(o, r, 0), 0)
  OBVIOUS
<1> HIDE DEF path
<1>2. Len(<<o, p>>) = 2 /\ <<o, p>>[1] = o /\ <<o, p>>[2] = p
  OBVIOUS
<1>3. ASSUME NEW j \in 1 .. 2 PROVE path[j] = Execute(<<o, p>>[j], path[j - 1], 0)
  <2>1. (j = 1 /\ j - 1 = 0) \/ (j = 2 /\ j - 1 = 1)
    OBVIOUS
  <2>2. QED
    BY <1>1, <1>2, <2>1
<1>4. QED
  BY <1>1, <1>2, <1>3, Zenon DEF Runs

(* The Varnodes hold what the program accounts for.                        *)
Agrees(m, r, size, flag) ==
  /\ \A n \in m.known \ {Assembly!ZFlag} : r[Register(n, size)] = m.regs[n]
  /\ Assembly!ZFlag \in m.known => r[flag] = Truth(m.z)

Machines(names, size) ==
  [ip : Nat, regs : [names -> 0 .. Limit(size) - 1], z : BOOLEAN,
   known : SUBSET (names \union {Assembly!ZFlag})]

(* A register file of a size, and a flag that is none of its registers.    *)
RegisterFile(names, size, flag) ==
  /\ names \subseteq Nat /\ size \in Nat \ {0}
  /\ flag.size \in Nat \ {0} /\ flag.space = "Register" /\ \A n \in names : flag # Register(n, size)

(* The Varnodes that hold it.                                              *)
Storage(names, size, flag) == {flag} \union {Register(n, size) : n \in names}

(* A Varnode that stands for an operand.                                   *)
StandsFor(v, operand, names, size) ==
  \/ \E n \in names : operand = Assembly!R(n) /\ v = Register(n, size)
  \/ \E n \in Int : operand = Assembly!I(n) /\ v = Constant(n % Limit(size), size)

LEMMA OperandSize ==
  ASSUME NEW names, NEW size, NEW v, NEW operand, StandsFor(v, operand, names, size)
  PROVE  v.size = size /\ Bits(v) = size * ByteBits
  BY DEF StandsFor, Register, Constant, Varnode, Bits

LEMMA OperandValue ==
  ASSUME NEW names, NEW size, NEW flag, RegisterFile(names, size, flag),
         NEW m \in Machines(names, size), NEW r, Agrees(m, r, size, flag),
         NEW v, NEW operand, StandsFor(v, operand, names, size),
         Assembly!IsKnown(operand, m)
  PROVE  /\ Value(v, r) \in 0 .. Limit(size) - 1
         /\ Assembly!Operand(operand, m) \in Int
         /\ Value(v, r) = Assembly!Operand(operand, m) % Limit(size)
<1>1. PICK l \in Nat \ {0} : l = Limit(size)
  BY LimitType DEF RegisterFile
<1>2. CASE \E n \in names : operand = Assembly!R(n) /\ v = Register(n, size)
  <2>1. PICK n \in names : operand = Assembly!R(n) /\ v = Register(n, size)
    BY <1>2
  <2>2. "reg" \in DOMAIN operand /\ operand.reg = n
    BY <2>1 DEF Assembly!R
  <2>3. Assembly!IsRegister(operand) /\ n \in m.known /\ n # Assembly!ZFlag
    BY <2>2 DEF Assembly!IsKnown, Assembly!IsRegister, Assembly!ZFlag, RegisterFile
  <2>4. Assembly!Operand(operand, m) = m.regs[n]
    BY <2>2, <2>3 DEF Assembly!Operand
  <2>5. Value(v, r) = m.regs[n]
    BY <2>1, <2>3 DEF Value, Agrees, Register, Varnode
  <2>6. m.regs[n] \in 0 .. l - 1
    BY <1>1 DEF Machines
  <2>7. QED
    BY <1>1, <2>4, <2>5, <2>6
<1>3. CASE \E n \in Int : operand = Assembly!I(n) /\ v = Constant(n % Limit(size), size)
  <2>1. PICK n \in Int : operand = Assembly!I(n) /\ v = Constant(n % Limit(size), size)
    BY <1>3
  <2>2. "reg" \notin DOMAIN operand /\ operand.imm = n
    BY <2>1 DEF Assembly!I
  <2>3. Assembly!Operand(operand, m) = n
    BY <2>2 DEF Assembly!Operand, Assembly!IsRegister
  <2>4. Value(v, r) = n % l
    BY <1>1, <2>1 DEF Value, Constant, Varnode
  <2>5. QED
    BY <1>1, <2>3, <2>4
<1>4. QED
  BY <1>2, <1>3 DEF StandsFor

(* What is learned when a register or the flag is set from operands.       *)
LEMMA Learned ==
  ASSUME NEW m, NEW what, NEW from
  PROVE  /\ \A n : n # what => (n \in Assembly!Learn(m, what, from) => n \in m.known)
         /\ what \in Assembly!Learn(m, what, from) =>
              \A operand \in from : Assembly!IsKnown(operand, m)
  BY DEF Assembly!Learn

(* A register is set on both sides, to the same value if it is known.      *)
LEMMA SetRegister ==
  ASSUME NEW names, NEW size, NEW flag, RegisterFile(names, size, flag),
         NEW m \in Machines(names, size), NEW r, Agrees(m, r, size, flag),
         Storage(names, size, flag) \subseteq DOMAIN r, NEW dst \in names, NEW value, NEW result, NEW from,
         (\A operand \in from : Assembly!IsKnown(operand, m)) => value = result,
         NEW after, after.regs = [m.regs EXCEPT ![dst] = result],
         after.known \subseteq Assembly!Learn(m, dst, from),
         Assembly!ZFlag \in after.known => after.z = m.z
  PROVE  Agrees(after, [r EXCEPT ![Register(dst, size)] = value], size, flag)
<1>1. PICK s : s = [r EXCEPT ![Register(dst, size)] = value]
  OBVIOUS
<1>2. dst # Assembly!ZFlag /\ flag # Register(dst, size)
  BY DEF RegisterFile, Assembly!ZFlag
<1>3. ASSUME NEW n \in after.known \ {Assembly!ZFlag}
      PROVE  s[Register(n, size)] = after.regs[n]
  <2>1. CASE n = dst
    <3>1. \A operand \in from : Assembly!IsKnown(operand, m)
      BY <2>1, Learned
    <3>2. after.regs[dst] = result
      BY DEF Machines
    <3>3. QED
      BY <1>1, <2>1, <3>1, <3>2 DEF Storage
  <2>2. CASE n # dst
    <3>1. n \in m.known
      BY <2>2, Learned
    <3>2. Register(n, size) # Register(dst, size)
      BY <2>2 DEF Register, Varnode
    <3>3. s[Register(n, size)] = r[Register(n, size)] /\ after.regs[n] = m.regs[n]
      BY <1>1, <2>2, <3>2 DEF Machines
    <3>4. QED
      BY <3>1, <3>3 DEF Agrees
  <2>3. QED
    BY <2>1, <2>2
<1>4. ASSUME Assembly!ZFlag \in after.known PROVE s[flag] = Truth(after.z)
  <2>1. Assembly!ZFlag \in m.known
    BY <1>2, <1>4, Learned
  <2>2. s[flag] = r[flag]
    BY <1>1, <1>2 DEF Storage
  <2>3. QED
    BY <1>4, <2>1, <2>2 DEF Agrees
<1>5. QED
  BY <1>1, <1>3, <1>4 DEF Agrees

(* So is the flag; scratch Varnodes may be set on the way.                 *)
LEMMA SetFlag ==
  ASSUME NEW names, NEW size, NEW flag, RegisterFile(names, size, flag),
         NEW m \in Machines(names, size), NEW r, Agrees(m, r, size, flag),
         NEW s, \A n \in names : s[Register(n, size)] = r[Register(n, size)],
         NEW from, NEW after,
         (\A operand \in from : Assembly!IsKnown(operand, m)) =>
           s[flag] = Truth(after.z),
         after.regs = m.regs, after.known = Assembly!Learn(m, Assembly!ZFlag, from)
  PROVE  Agrees(after, s, size, flag)
<1>1. ASSUME NEW n \in after.known \ {Assembly!ZFlag}
      PROVE  s[Register(n, size)] = after.regs[n]
  <2>1. n \in m.known
    BY Learned
  <2>2. n \in names
    BY <2>1 DEF Machines
  <2>3. QED
    BY <2>1, <2>2 DEF Agrees
<1>2. ASSUME Assembly!ZFlag \in after.known PROVE s[flag] = Truth(after.z)
  BY <1>2, Learned
<1>3. QED
  BY <1>1, <1>2 DEF Agrees

(* Sums and differences of remainders.                                     *)
LEMMA ModSum ==
  ASSUME NEW l \in Nat \ {0}, NEW a \in Int, NEW c \in Int
  PROVE  ((a % l) + (c % l)) % l = (a + c) % l
<1>1. PICK p \in Int, x \in 0 .. l - 1 : x = a % l /\ a = l * p + x
  BY ModType
<1>2. PICK q \in Int, y \in 0 .. l - 1 : y = c % l /\ c = l * q + y
  BY ModType
<1>3. PICK o \in Int, z \in 0 .. l - 1 : z = (a + c) % l /\ a + c = l * o + z
  <2>1. a + c \in Int
    OBVIOUS
  <2>2. QED
    BY <2>1, ModType
<1>4. PICK d \in Int, e \in Int : e = x + y /\ d = o - p - q
  OBVIOUS
<1>5. l * d = l * o - l * p - l * q
  <2>1. l * (o - p - q) = l * o - l * p - l * q
    OBVIOUS
  <2>2. QED
    BY <1>4, <2>1
<1>6. e = l * d + z
  <2>1. PICK f \in Int, g \in Int, h \in Int, i \in Int :
          f = l * o /\ g = l * p /\ h = l * q /\ i = l * d
    OBVIOUS
  <2>2. i = f - g - h /\ a = g + x /\ c = h + y /\ a + c = f + z
    BY <1>1, <1>2, <1>3, <1>5, <2>1
  <2>3. e = i + z
    BY <1>4, <2>2
  <2>4. QED
    BY <2>1, <2>3
<1>7. e % l = z
  BY <1>6, ModUnique
<1>8. (a % l) + (c % l) = e
  BY <1>1, <1>2, <1>4, Zenon
<1>9. QED
  BY <1>3, <1>7, <1>8

LEMMA ModDifference ==
  ASSUME NEW l \in Nat \ {0}, NEW x \in 0 .. l - 1, NEW y \in 0 .. l - 1
  PROVE  (x - y) % l = 0 <=> x = y
<1>1. CASE x >= y
  BY <1>1
<1>2. CASE x < y
  BY <1>2
<1>3. QED
  BY <1>1, <1>2

-----------------------------------------------------------------------------
(* Moves, sums and comparisons.                                            *)

LEMMA MovMeans ==
  ASSUME NEW names, NEW size, NEW flag, RegisterFile(names, size, flag),
         NEW m \in Machines(names, size), NEW r, Agrees(m, r, size, flag),
         NEW instr, instr.dst \in names,
         Storage(names, size, flag) \subseteq DOMAIN r,
         NEW v, StandsFor(v, instr.src, names, size)
  PROVE  Agrees(Assembly!ExecuteMov(instr, m, Limit(size)),
                Execute(Copy(Register(instr.dst, size), v), r, 0), size, flag)
<1>1. PICK dst \in names : dst = instr.dst
  OBVIOUS
<1>2. PICK after : after = Assembly!ExecuteMov(instr, m, Limit(size))
  OBVIOUS
<1>3. /\ after.regs = [m.regs EXCEPT ![dst] = Assembly!Operand(instr.src, m) % Limit(size)]
      /\ after.known = Assembly!Learn(m, dst, {instr.src}) /\ after.z = m.z
  BY <1>1, <1>2 DEF Assembly!ExecuteMov, Machines
<1>4. (\A operand \in {instr.src} : Assembly!IsKnown(operand, m)) =>
        Value(v, r) = Assembly!Operand(instr.src, m) % Limit(size)
  BY OperandValue
<1>5. Execute(Copy(Register(dst, size), v), r, 0) = [r EXCEPT ![Register(dst, size)] = Value(v, r)]
  <2>1. PICK op : op = Copy(Register(dst, size), v)
    OBVIOUS
  <2>2. op.op = "Copy" /\ op.dest = Register(dst, size) /\ op.src = v
    BY <2>1 DEF Copy
  <2>3. QED
    BY <2>1, <2>2 DEF Execute, BinaryOps
<1>6. Agrees(after, [r EXCEPT ![Register(dst, size)] = Value(v, r)], size, flag)
  <2>1. PICK value, result :
          value = Value(v, r) /\ result = Assembly!Operand(instr.src, m) % Limit(size)
    OBVIOUS
  <2>2. /\ after.regs = [m.regs EXCEPT ![dst] = result]
        /\ after.known \subseteq Assembly!Learn(m, dst, {instr.src})
        /\ Assembly!ZFlag \in after.known => after.z = m.z
        /\ (\A operand \in {instr.src} : Assembly!IsKnown(operand, m)) => value = result
    BY <1>3, <1>4, <2>1
  <2>3. Agrees(after, [r EXCEPT ![Register(dst, size)] = value], size, flag)
    BY <2>2, SetRegister
  <2>4. QED
    BY <2>1, <2>3
<1>7. QED
  BY <1>1, <1>2, <1>5, <1>6

LEMMA AddMeans ==
  ASSUME NEW names, NEW size, NEW flag, RegisterFile(names, size, flag),
         NEW m \in Machines(names, size), NEW r, Agrees(m, r, size, flag),
         NEW instr, instr.dst \in names,
         Storage(names, size, flag) \subseteq DOMAIN r,
         NEW v, StandsFor(v, instr.lhs, names, size),
         NEW w, StandsFor(w, instr.rhs, names, size), NEW sets_flag \in BOOLEAN
  PROVE  Agrees(Assembly!ExecuteAdd(instr, m, Limit(size), sets_flag),
                Execute(Binary("IntAdd", Register(instr.dst, size), v, w), r, 0), size, flag)
<1>1. PICK dst \in names : dst = instr.dst
  OBVIOUS
<1>2. PICK l \in Nat \ {0} : l = Limit(size)
  BY LimitType DEF RegisterFile
<1>3. PICK after : after = Assembly!ExecuteAdd(instr, m, Limit(size), sets_flag)
  OBVIOUS
<1>4. PICK sum : sum = (Assembly!Operand(instr.lhs, m) + Assembly!Operand(instr.rhs, m)) % l
  OBVIOUS
<1>5. /\ after.regs = [m.regs EXCEPT ![dst] = sum]
      /\ after.known \subseteq Assembly!Learn(m, dst, {instr.lhs, instr.rhs})
      /\ Assembly!ZFlag \in after.known => after.z = m.z
  <2>1. CASE sets_flag
    BY <1>1, <1>2, <1>3, <1>4, <2>1 DEF Assembly!ExecuteAdd, Machines
  <2>2. CASE ~ sets_flag
    BY <1>1, <1>2, <1>3, <1>4, <2>2 DEF Assembly!ExecuteAdd, Machines
  <2>3. QED
    BY <2>1, <2>2
<1>6. PICK op : op = Binary("IntAdd", Register(dst, size), v, w)
  OBVIOUS
<1>7. op.op = "IntAdd" /\ op.dest = Register(dst, size) /\ op.lhs = v /\ op.rhs = w
  BY <1>6 DEF Binary
<1>8. TwoTo[Bits(op.dest)] = l
  BY <1>2, <1>7 DEF Bits, Register, Varnode, Limit
<1>9. Execute(op, r, 0) = [r EXCEPT ![Register(dst, size)] = (Value(v, r) + Value(w, r)) % l]
  <2>1. Result(op, Value(v, r), Value(w, r)) = (Value(v, r) + Value(w, r)) % l
    BY <1>7, <1>8 DEF Result
  <2>2. QED
    BY <1>7, <2>1 DEF Execute, BinaryOps
<1>10. ASSUME \A operand \in {instr.lhs, instr.rhs} : Assembly!IsKnown(operand, m)
       PROVE  (Value(v, r) + Value(w, r)) % l = sum
  <2>1. PICK a \in Int : a = Assembly!Operand(instr.lhs, m) /\ Value(v, r) = a % l
    BY <1>2, <1>10, OperandValue
  <2>2. PICK c \in Int : c = Assembly!Operand(instr.rhs, m) /\ Value(w, r) = c % l
    BY <1>2, <1>10, OperandValue
  <2>3. ((a % l) + (c % l)) % l = (a + c) % l
    BY ModSum
  <2>4. QED
    BY <1>4, <2>1, <2>2, <2>3, Zenon
<1>11. PICK value : value = (Value(v, r) + Value(w, r)) % l
  OBVIOUS
<1>12. Agrees(after, [r EXCEPT ![Register(dst, size)] = value], size, flag)
  <2>1. (\A operand \in {instr.lhs, instr.rhs} : Assembly!IsKnown(operand, m)) => value = sum
    BY <1>10, <1>11
  <2>2. QED
    BY <1>1, <1>5, <2>1, SetRegister
<1>13. QED
  BY <1>1, <1>3, <1>6, <1>9, <1>11, <1>12

(* Compared directly, as on the mock ARM.                                  *)
LEMMA CmpMeans ==
  ASSUME NEW names, NEW size, NEW flag, RegisterFile(names, size, flag),
         NEW m \in Machines(names, size), NEW r, Agrees(m, r, size, flag),
         Storage(names, size, flag) \subseteq DOMAIN r,
         NEW instr, NEW v, StandsFor(v, instr.lhs, names, size),
         NEW w, StandsFor(w, instr.rhs, names, size)
  PROVE  Agrees(Assembly!ExecuteCmp(instr, m, Limit(size)),
                Execute(Binary("IntEqual", flag, v, w), r, 0), size, flag)
<1>1. PICK l \in Nat \ {0} : l = Limit(size)
  BY LimitType DEF RegisterFile
<1>2. PICK after : after = Assembly!ExecuteCmp(instr, m, Limit(size))
  OBVIOUS
<1>3. PICK equal \in BOOLEAN :
        equal = (Assembly!Operand(instr.lhs, m) % l = Assembly!Operand(instr.rhs, m) % l)
  OBVIOUS
<1>4. /\ after.regs = m.regs /\ after.z = equal
      /\ after.known = Assembly!Learn(m, Assembly!ZFlag, {instr.lhs, instr.rhs})
  BY <1>1, <1>2, <1>3 DEF Assembly!ExecuteCmp, Machines
<1>5. PICK op : op = Binary("IntEqual", flag, v, w)
  OBVIOUS
<1>6. op.op = "IntEqual" /\ op.dest = flag /\ op.lhs = v /\ op.rhs = w
  BY <1>5 DEF Binary
<1>7. TwoTo[Bits(op.lhs)] = l
  BY <1>1, <1>6, OperandSize DEF Limit
<1>8. PICK s : s = Execute(op, r, 0)
  OBVIOUS
<1>9. s = [r EXCEPT ![flag] = Truth(Value(v, r) % l = Value(w, r) % l)]
  <2>1. Result(op, Value(v, r), Value(w, r)) = Truth(Value(v, r) % l = Value(w, r) % l)
    BY <1>6, <1>7 DEF Result
  <2>2. QED
    BY <1>6, <1>8, <2>1 DEF Execute, BinaryOps
<1>10. \A n \in names : s[Register(n, size)] = r[Register(n, size)]
  BY <1>9 DEF RegisterFile, Storage
<1>11. ASSUME \A operand \in {instr.lhs, instr.rhs} : Assembly!IsKnown(operand, m)
       PROVE  s[flag] = Truth(equal)
  <2>1. /\ Value(v, r) \in 0 .. l - 1
        /\ Value(v, r) = Assembly!Operand(instr.lhs, m) % l
    BY <1>1, <1>11, OperandValue
  <2>2. /\ Value(w, r) \in 0 .. l - 1
        /\ Value(w, r) = Assembly!Operand(instr.rhs, m) % l
    BY <1>1, <1>11, OperandValue
  <2>3. Value(v, r) % l = Value(v, r) /\ Value(w, r) % l = Value(w, r)
    BY <2>1, <2>2, ModSmall
  <2>4. s[flag] = Truth(Value(v, r) % l = Value(w, r) % l)
    BY <1>9 DEF Storage
  <2>5. QED
    BY <1>3, <2>1, <2>2, <2>3, <2>4 DEF Truth
<1>12. Agrees(after, s, size, flag)
  BY <1>4, <1>10, <1>11, SetFlag
<1>13. QED
  BY <1>2, <1>5, <1>8, <1>12

(* Compared by their difference, as on x86.                                *)
LEMMA CmpBySubMeans ==
  ASSUME NEW names, NEW size, NEW flag, RegisterFile(names, size, flag),
         NEW m \in Machines(names, size), NEW r, Agrees(m, r, size, flag),
         Storage(names, size, flag) \subseteq DOMAIN r,
         NEW instr, NEW v, StandsFor(v, instr.lhs, names, size),
         NEW w, StandsFor(w, instr.rhs, names, size),
         NEW diff, diff.space = "Unique", diff.size = size, diff \in DOMAIN r
  PROVE  Agrees(Assembly!ExecuteCmp(instr, m, Limit(size)),
                Execute(Binary("IntEqual", flag, diff, Constant(0, size)),
                        Execute(Binary("IntSub", diff, v, w), r, 0), 0), size, flag)
<1>1. PICK l \in Nat \ {0} : l = Limit(size)
  BY LimitType DEF RegisterFile
<1>2. PICK after : after = Assembly!ExecuteCmp(instr, m, Limit(size))
  OBVIOUS
<1>3. PICK equal \in BOOLEAN :
        equal = (Assembly!Operand(instr.lhs, m) % l = Assembly!Operand(instr.rhs, m) % l)
  OBVIOUS
<1>4. /\ after.regs = m.regs /\ after.z = equal
      /\ after.known = Assembly!Learn(m, Assembly!ZFlag, {instr.lhs, instr.rhs})
  BY <1>1, <1>2, <1>3 DEF Assembly!ExecuteCmp, Machines
<1>5. PICK sub, eq : /\ sub = Binary("IntSub", diff, v, w)
                     /\ eq = Binary("IntEqual", flag, diff, Constant(0, size))
  OBVIOUS
<1>6. /\ sub.op = "IntSub" /\ sub.dest = diff /\ sub.lhs = v /\ sub.rhs = w
      /\ eq.op = "IntEqual" /\ eq.dest = flag /\ eq.lhs = diff /\ eq.rhs = Constant(0, size)
  BY <1>5 DEF Binary
<1>7. TwoTo[Bits(diff)] = l
  BY <1>1 DEF Limit, Bits
<1>8. PICK q, s : q = Execute(sub, r, 0) /\ s = Execute(eq, q, 0)
  OBVIOUS
<1>9. q = [r EXCEPT ![diff] = (Value(v, r) - Value(w, r)) % l]
  <2>1. Result(sub, Value(v, r), Value(w, r)) = (Value(v, r) - Value(w, r)) % l
    BY <1>6, <1>7 DEF Result
  <2>2. QED
    BY <1>6, <1>8, <2>1 DEF Execute, BinaryOps
<1>10. s = [q EXCEPT ![flag] = Truth(q[diff] % l = 0 % l)]
  <2>1. Value(diff, q) = q[diff] /\ Value(Constant(0, size), q) = 0
    BY DEF Value, Constant, Varnode
  <2>2. Result(eq, q[diff], 0) = Truth(q[diff] % l = 0 % l)
    BY <1>6, <1>7 DEF Result
  <2>3. QED
    BY <1>6, <1>8, <2>1, <2>2 DEF Execute, BinaryOps
<1>11. \A n \in names : s[Register(n, size)] = r[Register(n, size)]
  <2>1. \A n \in names : Register(n, size) # diff /\ Register(n, size) # flag
    BY DEF RegisterFile, Register, Varnode
  <2>2. \A n \in names : q[Register(n, size)] = r[Register(n, size)]
    BY <1>9, <2>1 DEF Storage
  <2>3. DOMAIN q = DOMAIN r
    BY <1>9
  <2>4. QED
    BY <1>10, <2>1, <2>2, <2>3 DEF Storage
<1>12. ASSUME \A operand \in {instr.lhs, instr.rhs} : Assembly!IsKnown(operand, m)
       PROVE  s[flag] = Truth(equal)
  <2>1. PICK x \in 0 .. l - 1 : x = Value(v, r) /\ x = Assembly!Operand(instr.lhs, m) % l
    BY <1>1, <1>12, OperandValue
  <2>2. PICK y \in 0 .. l - 1 : y = Value(w, r) /\ y = Assembly!Operand(instr.rhs, m) % l
    BY <1>1, <1>12, OperandValue
  <2>3. PICK d \in 0 .. l - 1 : d = (x - y) % l
    OBVIOUS
  <2>4. q[diff] = d
    BY <1>9, <2>1, <2>2, <2>3
  <2>5. d % l = d /\ 0 % l = 0
    BY ModSmall
  <2>6. d = 0 <=> x = y
    BY <2>3, ModDifference
  <2>7. s[flag] = Truth(d % l = 0 % l)
    <3>1. flag \in DOMAIN q
      BY <1>9 DEF Storage
    <3>2. QED
      BY <1>10, <2>4, <3>1
  <2>8. QED
    BY <1>3, <2>1, <2>2, <2>5, <2>6, <2>7 DEF Truth
<1>13. Agrees(after, s, size, flag)
  BY <1>4, <1>11, <1>12, SetFlag
<1>14. QED
  BY <1>2, <1>5, <1>8, <1>13

-----------------------------------------------------------------------------
(* What the operations of an instruction do, and where control goes.       *)

(* The operations have somewhere to put what they define.                  *)
Stores(ops, r) == \A op \in Elements(ops) : Defines(op) => op.dest \in DOMAIN r

(* The targets that control is transferred to behind the operations.       *)
Jumps(ops, s) ==
  {op.target : op \in {o \in Elements(ops) :
                         \/ o.op = "Branch"
                         \/ o.op = "CBranch" /\ Value(o.condition, s) # 0}}

(* That of the instruction, unless it depends on a flag that the program   *)
(* does not account for; a call calls its target, and a return returns.    *)
Goes(ops, s, instr, m, target) ==
  /\ instr.op # "jump" => Jumps(ops, s) = {}
  /\ instr.op = "jump" /\ (instr.when = "always" \/ Assembly!ZFlag \in m.known) =>
       Jumps(ops, s) = IF Assembly!Takes(instr.when, m.z) THEN {Absolute(target)} ELSE {}
  /\ instr.op = "call" <=> Call(Absolute(target)) \in Elements(ops)
  /\ instr.op = "ret" <=> Returns(ops)

(* The operations do what the processor does, whatever its state.          *)
Does(ops, family, instr, names, size, flag, target) ==
  \A m \in Machines(names, size) : \A r :
    /\ Agrees(m, r, size, flag)
    /\ Storage(names, size, flag) \subseteq DOMAIN r /\ Stores(ops, r)
    => \E s : /\ Runs(ops, r, s)
              /\ Agrees(Assembly!ExecuteInstruction(family, instr, m, Limit(size)),
                        s, size, flag)
              /\ Goes(ops, s, instr, m, target)

LEMMA OneElement ==
  ASSUME NEW o
  PROVE  Elements(<<o>>) = {o}
  BY DEF Elements

LEMMA TwoElements ==
  ASSUME NEW o, NEW p
  PROVE  Elements(<<o, p>>) = {o, p}
<1>1. Len(<<o, p>>) = 2 /\ <<o, p>>[1] = o /\ <<o, p>>[2] = p
  OBVIOUS
<1>2. 1 .. 2 = {1, 2}
  OBVIOUS
<1>3. QED
  BY <1>1, <1>2 DEF Elements

(* Control goes on behind operations that do not transfer it.              *)
LEMMA GoesOn ==
  ASSUME NEW ops, \A o \in Elements(ops) : o.op \in BinaryOps \union {"Copy"},
         NEW instr, instr.op \in {"mov", "add", "cmp"}, NEW s, NEW m, NEW target
  PROVE  Goes(ops, s, instr, m, target)
<1>1. \A o \in Elements(ops) : o.op \notin {"Branch", "CBranch", "Call", "Return"}
  BY DEF BinaryOps
<1>2. Jumps(ops, s) = {}
  BY <1>1 DEF Jumps
<1>3. Call(Absolute(target)) \notin Elements(ops) /\ ~ Returns(ops)
  <2>1. Call(Absolute(target)).op = "Call" /\ Return.op = "Return"
    BY DEF Call, Return
  <2>2. QED
    BY <1>1, <2>1 DEF Returns
<1>4. QED
  BY <1>2, <1>3 DEF Goes

LEMMA MovDoes ==
  ASSUME NEW names, NEW size, NEW flag, RegisterFile(names, size, flag),
         NEW instr, instr.op = "mov", instr.dst \in names,
         NEW v, StandsFor(v, instr.src, names, size),
         NEW ops, ops = <<Copy(Register(instr.dst, size), v)>>, NEW family, NEW target
  PROVE  Does(ops, family, instr, names, size, flag, target)
<1> SUFFICES ASSUME NEW m \in Machines(names, size), NEW r, Agrees(m, r, size, flag),
                    Storage(names, size, flag) \subseteq DOMAIN r
             PROVE  \E s : /\ Runs(ops, r, s)
                           /\ Agrees(Assembly!ExecuteInstruction(family, instr, m, Limit(size)),
                                     s, size, flag)
                           /\ Goes(ops, s, instr, m, target)
  BY DEF Does
<1>1. PICK o : o = Copy(Register(instr.dst, size), v)
  OBVIOUS
<1>2. PICK s : s = Execute(o, r, 0)
  OBVIOUS
<1>3. Runs(ops, r, s)
  BY <1>1, <1>2, RunsOne
<1>4. Agrees(Assembly!ExecuteMov(instr, m, Limit(size)), s, size, flag)
  BY <1>1, <1>2, MovMeans
<1>5. Assembly!ExecuteInstruction(family, instr, m, Limit(size)) =
        Assembly!ExecuteMov(instr, m, Limit(size))
  BY DEF Assembly!ExecuteInstruction
<1>6. Goes(ops, s, instr, m, target)
  <2>1. o.op = "Copy" /\ Elements(ops) = {o}
    BY <1>1, OneElement DEF Copy
  <2>2. QED
    BY <2>1, GoesOn
<1>7. QED
  BY <1>3, <1>4, <1>5, <1>6

LEMMA AddDoes ==
  ASSUME NEW names, NEW size, NEW flag, RegisterFile(names, size, flag),
         NEW instr, instr.op = "add", instr.dst \in names,
         NEW v, StandsFor(v, instr.lhs, names, size),
         NEW w, StandsFor(w, instr.rhs, names, size),
         NEW ops, ops = <<Binary("IntAdd", Register(instr.dst, size), v, w)>>,
         NEW family, NEW target
  PROVE  Does(ops, family, instr, names, size, flag, target)
<1> SUFFICES ASSUME NEW m \in Machines(names, size), NEW r, Agrees(m, r, size, flag),
                    Storage(names, size, flag) \subseteq DOMAIN r
             PROVE  \E s : /\ Runs(ops, r, s)
                           /\ Agrees(Assembly!ExecuteInstruction(family, instr, m, Limit(size)),
                                     s, size, flag)
                           /\ Goes(ops, s, instr, m, target)
  BY DEF Does
<1>1. PICK o : o = Binary("IntAdd", Register(instr.dst, size), v, w)
  OBVIOUS
<1>2. PICK s : s = Execute(o, r, 0)
  OBVIOUS
<1>3. Runs(ops, r, s)
  BY <1>1, <1>2, RunsOne
<1>4. PICK sets_flag \in BOOLEAN : sets_flag = (family # "arm")
  OBVIOUS
<1>5. Agrees(Assembly!ExecuteAdd(instr, m, Limit(size), sets_flag), s, size, flag)
  BY <1>1, <1>2, AddMeans
<1>6. Assembly!ExecuteInstruction(family, instr, m, Limit(size)) =
        Assembly!ExecuteAdd(instr, m, Limit(size), sets_flag)
  BY <1>4, Zenon DEF Assembly!ExecuteInstruction
<1>7. Goes(ops, s, instr, m, target)
  <2>1. o.op = "IntAdd" /\ Elements(ops) = {o}
    BY <1>1, OneElement DEF Binary
  <2>2. QED
    BY <2>1, GoesOn DEF BinaryOps
<1>8. QED
  BY <1>3, <1>5, <1>6, <1>7

LEMMA CmpDoes ==
  ASSUME NEW names, NEW size, NEW flag, RegisterFile(names, size, flag),
         NEW instr, instr.op = "cmp",
         NEW v, StandsFor(v, instr.lhs, names, size),
         NEW w, StandsFor(w, instr.rhs, names, size),
         NEW ops, ops = <<Binary("IntEqual", flag, v, w)>>, NEW family, NEW target
  PROVE  Does(ops, family, instr, names, size, flag, target)
<1> SUFFICES ASSUME NEW m \in Machines(names, size), NEW r, Agrees(m, r, size, flag),
                    Storage(names, size, flag) \subseteq DOMAIN r
             PROVE  \E s : /\ Runs(ops, r, s)
                           /\ Agrees(Assembly!ExecuteInstruction(family, instr, m, Limit(size)),
                                     s, size, flag)
                           /\ Goes(ops, s, instr, m, target)
  BY DEF Does
<1>1. PICK o : o = Binary("IntEqual", flag, v, w)
  OBVIOUS
<1>2. PICK s : s = Execute(o, r, 0)
  OBVIOUS
<1>3. Runs(ops, r, s)
  BY <1>1, <1>2, RunsOne
<1>4. Agrees(Assembly!ExecuteCmp(instr, m, Limit(size)), s, size, flag)
  BY <1>1, <1>2, CmpMeans
<1>5. Assembly!ExecuteInstruction(family, instr, m, Limit(size)) =
        Assembly!ExecuteCmp(instr, m, Limit(size))
  BY DEF Assembly!ExecuteInstruction
<1>6. Goes(ops, s, instr, m, target)
  <2>1. o.op = "IntEqual" /\ Elements(ops) = {o}
    BY <1>1, OneElement DEF Binary
  <2>2. QED
    BY <2>1, GoesOn DEF BinaryOps
<1>7. QED
  BY <1>3, <1>4, <1>5, <1>6

LEMMA CmpBySubDoes ==
  ASSUME NEW names, NEW size, NEW flag, RegisterFile(names, size, flag),
         NEW instr, instr.op = "cmp",
         NEW v, StandsFor(v, instr.lhs, names, size),
         NEW w, StandsFor(w, instr.rhs, names, size),
         NEW diff, diff.space = "Unique", diff.size = size,
         NEW ops, ops = <<Binary("IntSub", diff, v, w),
                          Binary("IntEqual", flag, diff, Constant(0, size))>>,
         NEW family, NEW target
  PROVE  Does(ops, family, instr, names, size, flag, target)
<1> SUFFICES ASSUME NEW m \in Machines(names, size), NEW r, Agrees(m, r, size, flag),
                    Storage(names, size, flag) \subseteq DOMAIN r, Stores(ops, r)
             PROVE  \E s : /\ Runs(ops, r, s)
                           /\ Agrees(Assembly!ExecuteInstruction(family, instr, m, Limit(size)),
                                     s, size, flag)
                           /\ Goes(ops, s, instr, m, target)
  BY DEF Does
<1>1. PICK o, p : /\ o = Binary("IntSub", diff, v, w)
                  /\ p = Binary("IntEqual", flag, diff, Constant(0, size))
  OBVIOUS
<1>2. PICK s : s = Execute(p, Execute(o, r, 0), 0)
  OBVIOUS
<1>3. Runs(ops, r, s)
  BY <1>1, <1>2, RunsTwo
<1>4. /\ o.op = "IntSub" /\ o.dest = diff /\ p.op = "IntEqual" /\ Elements(ops) = {o, p}
  BY <1>1, TwoElements DEF Binary
<1>5. Agrees(Assembly!ExecuteCmp(instr, m, Limit(size)), s, size, flag)
  <2>1. diff \in DOMAIN r
    BY <1>4 DEF Stores, Defines, BinaryOps
  <2>2. QED
    BY <1>1, <1>2, <2>1, CmpBySubMeans
<1>6. Assembly!ExecuteInstruction(family, instr, m, Limit(size)) =
        Assembly!ExecuteCmp(instr, m, Limit(size))
  BY DEF Assembly!ExecuteInstruction
<1>7. Goes(ops, s, instr, m, target)
  BY <1>4, GoesOn DEF BinaryOps
<1>8. QED
  BY <1>3, <1>5, <1>6, <1>7

(* An operation that defines nothing leaves the Varnodes as they are.      *)
LEMMA RunsTransfer ==
  ASSUME NEW o, o.op \in {"Branch", "CBranch", "Call", "Return"}, NEW r
  PROVE  Runs(<<o>>, r, r)
<1>1. Execute(o, r, 0) = r
  BY DEF Execute, BinaryOps
<1>2. QED
  BY <1>1, RunsOne

(* The program accounts for as much after a jump, and for nothing after a  *)
(* call.                                                                   *)
LEMMA AgreesAfter ==
  ASSUME NEW instr, instr.op \in {"jump", "call", "ret"}, NEW family,
         NEW m, NEW limit, NEW size, NEW flag, NEW r, Agrees(m, r, size, flag),
         NEW names, m \in Machines(names, size)
  PROVE  Agrees(Assembly!ExecuteInstruction(family, instr, m, limit), r, size, flag)
<1>1. PICK after : after = Assembly!ExecuteInstruction(family, instr, m, limit)
  OBVIOUS
<1>2. after.regs = m.regs /\ after.z = m.z /\ after.known \subseteq m.known
  <2>1. CASE instr.op = "jump"
    BY <1>1, <2>1 DEF Assembly!ExecuteInstruction, Machines
  <2>2. CASE instr.op = "call"
    BY <1>1, <2>2 DEF Assembly!ExecuteInstruction, Machines
  <2>3. CASE instr.op = "ret"
    BY <1>1, <2>3 DEF Assembly!ExecuteInstruction, Machines
  <2>4. QED
    BY <2>1, <2>2, <2>3
<1>3. Agrees(after, r, size, flag)
  BY <1>2 DEF Agrees
<1>4. QED
  BY <1>1, <1>3

LEMMA BranchDoes ==
  ASSUME NEW names, NEW size, NEW flag,
         NEW instr, instr.op = "jump", instr.when = "always", NEW family, NEW target,
         NEW ops, ops = <<Branch(Absolute(target))>>
  PROVE  Does(ops, family, instr, names, size, flag, target)
<1> SUFFICES ASSUME NEW m \in Machines(names, size), NEW r, Agrees(m, r, size, flag)
             PROVE  \E s : /\ Runs(ops, r, s)
                           /\ Agrees(Assembly!ExecuteInstruction(family, instr, m, Limit(size)),
                                     s, size, flag)
                           /\ Goes(ops, s, instr, m, target)
  BY DEF Does
<1>1. PICK o : o = Branch(Absolute(target))
  OBVIOUS
<1>2. o.op = "Branch" /\ o.target = Absolute(target) /\ Elements(ops) = {o}
  BY <1>1, OneElement DEF Branch
<1>3. Runs(ops, r, r)
  BY <1>1, <1>2, RunsTransfer
<1>4. Agrees(Assembly!ExecuteInstruction(family, instr, m, Limit(size)), r, size, flag)
  BY AgreesAfter
<1>5. Goes(ops, r, instr, m, target)
  <2>1. Jumps(ops, r) = {Absolute(target)}
    BY <1>2 DEF Jumps
  <2>2. Assembly!Takes(instr.when, m.z)
    BY DEF Assembly!Takes
  <2>3. Call(Absolute(target)) \notin Elements(ops) /\ ~ Returns(ops)
    BY <1>2 DEF Call, Return, Returns
  <2>4. QED
    BY <2>1, <2>2, <2>3 DEF Goes
<1>6. QED
  BY <1>3, <1>4, <1>5

LEMMA CallDoes ==
  ASSUME NEW names, NEW size, NEW flag,
         NEW instr, instr.op = "call", NEW family, NEW target,
         NEW ops, ops = <<Call(Absolute(target))>>
  PROVE  Does(ops, family, instr, names, size, flag, target)
<1> SUFFICES ASSUME NEW m \in Machines(names, size), NEW r, Agrees(m, r, size, flag)
             PROVE  \E s : /\ Runs(ops, r, s)
                           /\ Agrees(Assembly!ExecuteInstruction(family, instr, m, Limit(size)),
                                     s, size, flag)
                           /\ Goes(ops, s, instr, m, target)
  BY DEF Does
<1>1. PICK o : o = Call(Absolute(target))
  OBVIOUS
<1>2. o.op = "Call" /\ Elements(ops) = {o}
  BY <1>1, OneElement DEF Call
<1>3. Runs(ops, r, r)
  BY <1>1, <1>2, RunsTransfer
<1>4. Agrees(Assembly!ExecuteInstruction(family, instr, m, Limit(size)), r, size, flag)
  BY AgreesAfter
<1>5. Goes(ops, r, instr, m, target)
  <2>1. Jumps(ops, r) = {}
    BY <1>2 DEF Jumps
  <2>2. Call(Absolute(target)) \in Elements(ops) /\ ~ Returns(ops)
    BY <1>1, <1>2 DEF Return, Returns
  <2>3. QED
    BY <2>1, <2>2 DEF Goes
<1>6. QED
  BY <1>3, <1>4, <1>5

LEMMA RetDoes ==
  ASSUME NEW names, NEW size, NEW flag,
         NEW instr, instr.op = "ret", NEW family, NEW target,
         NEW ops, ops = <<Return>>
  PROVE  Does(ops, family, instr, names, size, flag, target)
<1> SUFFICES ASSUME NEW m \in Machines(names, size), NEW r, Agrees(m, r, size, flag)
             PROVE  \E s : /\ Runs(ops, r, s)
                           /\ Agrees(Assembly!ExecuteInstruction(family, instr, m, Limit(size)),
                                     s, size, flag)
                           /\ Goes(ops, s, instr, m, target)
  BY DEF Does
<1>1. PICK o : o = Return
  OBVIOUS
<1>2. o.op = "Return" /\ Elements(ops) = {o}
  BY <1>1, OneElement DEF Return
<1>3. Runs(ops, r, r)
  BY <1>1, <1>2, RunsTransfer
<1>4. Agrees(Assembly!ExecuteInstruction(family, instr, m, Limit(size)), r, size, flag)
  BY AgreesAfter
<1>5. Goes(ops, r, instr, m, target)
  <2>1. Jumps(ops, r) = {}
    BY <1>2 DEF Jumps
  <2>2. Call(Absolute(target)) \notin Elements(ops) /\ Returns(ops)
    BY <1>1, <1>2 DEF Call, Returns
  <2>3. QED
    BY <2>1, <2>2 DEF Goes
<1>6. QED
  BY <1>3, <1>4, <1>5

LEMMA BranchEqualDoes ==
  ASSUME NEW names, NEW size, NEW flag, RegisterFile(names, size, flag),
         NEW instr, instr.op = "jump", instr.when = "equal", NEW family, NEW target,
         NEW ops, ops = <<CBranch(flag, Absolute(target))>>
  PROVE  Does(ops, family, instr, names, size, flag, target)
<1> SUFFICES ASSUME NEW m \in Machines(names, size), NEW r, Agrees(m, r, size, flag)
             PROVE  \E s : /\ Runs(ops, r, s)
                           /\ Agrees(Assembly!ExecuteInstruction(family, instr, m, Limit(size)),
                                     s, size, flag)
                           /\ Goes(ops, s, instr, m, target)
  BY DEF Does
<1>1. PICK o : o = CBranch(flag, Absolute(target))
  OBVIOUS
<1>2. /\ o.op = "CBranch" /\ o.target = Absolute(target) /\ o.condition = flag
      /\ Elements(ops) = {o}
  BY <1>1, OneElement DEF CBranch
<1>3. Runs(ops, r, r)
  BY <1>1, <1>2, RunsTransfer
<1>4. Agrees(Assembly!ExecuteInstruction(family, instr, m, Limit(size)), r, size, flag)
  BY AgreesAfter
<1>5. Goes(ops, r, instr, m, target)
  <2>1. Value(flag, r) = r[flag]
    BY DEF Value, RegisterFile
  <2>2. ASSUME Assembly!ZFlag \in m.known
        PROVE  Jumps(ops, r) = IF Assembly!Takes(instr.when, m.z) THEN {Absolute(target)} ELSE {}
    <3>1. r[flag] # 0 <=> m.z
      BY <2>2 DEF Agrees, Truth
    <3>2. Assembly!Takes(instr.when, m.z) <=> m.z
      BY DEF Assembly!Takes
    <3>3. QED
      BY <1>2, <2>1, <3>1, <3>2 DEF Jumps
  <2>3. Call(Absolute(target)) \notin Elements(ops) /\ ~ Returns(ops)
    BY <1>2 DEF Call, Return, Returns
  <2>4. QED
    BY <2>2, <2>3 DEF Goes
<1>6. QED
  BY <1>3, <1>4, <1>5

(* The flag is negated first.                                              *)
LEMMA BranchUnequalDoes ==
  ASSUME NEW names, NEW size, NEW flag, RegisterFile(names, size, flag),
         NEW instr, instr.op = "jump", instr.when = "unequal", NEW family, NEW target,
         NEW not, not.space = "Unique",
         NEW ops, ops = <<Binary("IntEqual", not, flag, Constant(0, flag.size)),
                          CBranch(not, Absolute(target))>>
  PROVE  Does(ops, family, instr, names, size, flag, target)
<1> SUFFICES ASSUME NEW m \in Machines(names, size), NEW r, Agrees(m, r, size, flag),
                    Storage(names, size, flag) \subseteq DOMAIN r, Stores(ops, r)
             PROVE  \E s : /\ Runs(ops, r, s)
                           /\ Agrees(Assembly!ExecuteInstruction(family, instr, m, Limit(size)),
                                     s, size, flag)
                           /\ Goes(ops, s, instr, m, target)
  BY DEF Does
<1>1. PICK o, p : /\ o = Binary("IntEqual", not, flag, Constant(0, flag.size))
                  /\ p = CBranch(not, Absolute(target))
  OBVIOUS
<1>2. /\ o.op = "IntEqual" /\ o.dest = not /\ o.lhs = flag /\ o.rhs = Constant(0, flag.size)
      /\ p.op = "CBranch" /\ p.condition = not /\ p.target = Absolute(target)
      /\ Elements(ops) = {o, p}
  BY <1>1, TwoElements DEF Binary, CBranch
<1>3. PICK x : x = Truth(r[flag] % Limit(flag.size) = 0 % Limit(flag.size))
  OBVIOUS
<1>4. PICK s : s = [r EXCEPT ![not] = x]
  OBVIOUS
<1>5. not \in DOMAIN r /\ s[not] = x
  <2>1. not \in DOMAIN r
    BY <1>2 DEF Stores, Defines, BinaryOps
  <2>2. QED
    BY <1>4, <2>1
<1>6. Execute(o, r, 0) = s /\ Execute(p, s, 0) = s
  <2>1. Value(flag, r) = r[flag] /\ Value(Constant(0, flag.size), r) = 0
    BY DEF Value, RegisterFile, Constant, Varnode
  <2>2. Result(o, r[flag], 0) = x
    BY <1>2, <1>3 DEF Result, Limit, Bits
  <2>3. Execute(o, r, 0) = [r EXCEPT ![o.dest] = Result(o, Value(o.lhs, r), Value(o.rhs, r))]
    BY <1>2 DEF Execute, BinaryOps
  <2>4. Execute(p, s, 0) = s
    BY <1>2 DEF Execute, BinaryOps
  <2>5. QED
    BY <1>2, <1>4, <2>1, <2>2, <2>3, <2>4
<1>7. Runs(ops, r, s)
  BY <1>1, <1>6, RunsTwo
<1>8. Agrees(Assembly!ExecuteInstruction(family, instr, m, Limit(size)), s, size, flag)
  <2>1. Agrees(m, s, size, flag)
    <3>1. flag # not /\ \A n : Register(n, size) # not
      BY DEF RegisterFile, Register, Varnode
    <3>2. s[flag] = r[flag]
      BY <1>4, <3>1 DEF Storage
    <3>3. ASSUME NEW n \in m.known \ {Assembly!ZFlag}
          PROVE  s[Register(n, size)] = r[Register(n, size)]
      <4>1. n \in names
        BY DEF Machines
      <4>2. Register(n, size) \in DOMAIN r
        BY <4>1 DEF Storage
      <4>3. QED
        BY <1>4, <3>1, <4>2
    <3>4. QED
      BY <3>2, <3>3 DEF Agrees
  <2>2. QED
    BY <2>1, AgreesAfter
<1>9. Goes(ops, s, instr, m, target)
  <2>1. Value(not, s) = x
    BY <1>5 DEF Value
  <2>2. ASSUME Assembly!ZFlag \in m.known
        PROVE  Jumps(ops, s) = IF Assembly!Takes(instr.when, m.z) THEN {Absolute(target)} ELSE {}
    <3>1. x # 0 <=> ~ m.z
      <4>1. PICK l \in Nat : l = Limit(flag.size) /\ l >= 2
        BY LimitType DEF RegisterFile
      <4>2. r[flag] = IF m.z THEN 1 ELSE 0
        BY <2>2 DEF Agrees, Truth
      <4>3. 0 % l = 0 /\ 1 % l = 1
        BY <4>1
      <4>4. QED
        BY <1>3, <4>1, <4>2, <4>3 DEF Truth
    <3>2. Assembly!Takes(instr.when, m.z) <=> ~ m.z
      BY DEF Assembly!Takes
    <3>3. QED
      BY <1>2, <2>1, <3>1, <3>2 DEF Jumps
  <2>3. Call(Absolute(target)) \notin Elements(ops) /\ ~ Returns(ops)
    BY <1>2 DEF Call, Return, Returns
  <2>4. QED
    BY <2>2, <2>3 DEF Goes
<1>10. QED
  BY <1>7, <1>8, <1>9

(* What an instruction is lifted to, on either architecture.               *)
LiftsTo(ops, instr, names, size, flag, target) ==
  \/ /\ instr.op = "mov" /\ instr.dst \in names
     /\ \E v : /\ StandsFor(v, instr.src, names, size)
               /\ ops = <<Copy(Register(instr.dst, size), v)>>
  \/ /\ instr.op = "add" /\ instr.dst \in names
     /\ \E v, w : /\ StandsFor(v, instr.lhs, names, size) /\ v.space = "Register"
                  /\ StandsFor(w, instr.rhs, names, size)
                  /\ ops = <<Binary("IntAdd", Register(instr.dst, size), v, w)>>
  \/ /\ instr.op = "cmp"
     /\ \E v, w : /\ StandsFor(v, instr.lhs, names, size) /\ v.space = "Register"
                  /\ StandsFor(w, instr.rhs, names, size)
                  /\ \/ ops = <<Binary("IntEqual", flag, v, w)>>
                     \/ \E diff : /\ diff.space = "Unique" /\ diff.size = size
                                  /\ ops = << Binary("IntSub", diff, v, w),
                                              Binary("IntEqual", flag, diff, Constant(0, size)) >>
  \/ /\ instr.op = "jump"
     /\ \/ instr.when = "always" /\ ops = <<Branch(Absolute(target))>>
        \/ instr.when = "equal" /\ ops = <<CBranch(flag, Absolute(target))>>
        \/ /\ instr.when = "unequal"
           /\ \E not : /\ not.space = "Unique"
                       /\ ops = << Binary("IntEqual", not, flag, Constant(0, flag.size)),
                                   CBranch(not, Absolute(target)) >>
  \/ instr.op = "call" /\ ops = <<Call(Absolute(target))>>
  \/ instr.op = "ret" /\ ops = <<Return>>

(* What is lifted does what the processor does.                            *)
LEMMA LiftedDoes ==
  ASSUME NEW names, NEW size, NEW flag, RegisterFile(names, size, flag),
         NEW ops, NEW instr, NEW target, LiftsTo(ops, instr, names, size, flag, target),
         NEW family
  PROVE  Does(ops, family, instr, names, size, flag, target)
<1>1. CASE instr.op = "mov"
  <2>1. PICK v : /\ StandsFor(v, instr.src, names, size) /\ instr.dst \in names
                 /\ ops = <<Copy(Register(instr.dst, size), v)>>
    BY <1>1 DEF LiftsTo
  <2>2. QED
    BY <1>1, <2>1, MovDoes
<1>2. CASE instr.op = "add"
  <2>1. PICK v, w : /\ StandsFor(v, instr.lhs, names, size) /\ StandsFor(w, instr.rhs, names, size)
                    /\ ops = <<Binary("IntAdd", Register(instr.dst, size), v, w)>>
                    /\ instr.dst \in names
    BY <1>2 DEF LiftsTo
  <2>2. QED
    BY <1>2, <2>1, AddDoes
<1>3. CASE instr.op = "cmp"
  <2>1. PICK v, w : /\ StandsFor(v, instr.lhs, names, size) /\ StandsFor(w, instr.rhs, names, size)
                    /\ \/ ops = <<Binary("IntEqual", flag, v, w)>>
                       \/ \E diff : /\ diff.space = "Unique" /\ diff.size = size
                                    /\ ops = << Binary("IntSub", diff, v, w),
                                                Binary("IntEqual", flag, diff, Constant(0, size)) >>
    BY <1>3 DEF LiftsTo
  <2>2. CASE ops = <<Binary("IntEqual", flag, v, w)>>
    BY <1>3, <2>1, <2>2, CmpDoes
  <2>3. CASE \E diff : /\ diff.space = "Unique" /\ diff.size = size
                       /\ ops = << Binary("IntSub", diff, v, w),
                                   Binary("IntEqual", flag, diff, Constant(0, size)) >>
    BY <1>3, <2>1, <2>3, CmpBySubDoes
  <2>4. QED
    BY <2>1, <2>2, <2>3
<1>4. CASE instr.op = "jump"
  <2>1. CASE instr.when = "always" /\ ops = <<Branch(Absolute(target))>>
    BY <1>4, <2>1, BranchDoes
  <2>2. CASE instr.when = "equal" /\ ops = <<CBranch(flag, Absolute(target))>>
    BY <1>4, <2>2, BranchEqualDoes
  <2>3. CASE /\ instr.when = "unequal"
             /\ \E not : /\ not.space = "Unique"
                         /\ ops = << Binary("IntEqual", not, flag, Constant(0, flag.size)),
                                     CBranch(not, Absolute(target)) >>
    BY <1>4, <2>3, BranchUnequalDoes
  <2>4. QED
    BY <1>4, <2>1, <2>2, <2>3 DEF LiftsTo
<1>5. CASE instr.op = "call"
  BY <1>5, CallDoes DEF LiftsTo
<1>6. CASE instr.op = "ret"
  BY <1>6, RetDoes DEF LiftsTo
<1>7. QED
  BY <1>1, <1>2, <1>3, <1>4, <1>5, <1>6 DEF LiftsTo

-----------------------------------------------------------------------------
(* What a processor does and what the printed C does.                      *)

(* The variables hold what the program accounts for.                       *)
InC(m, e, flag) ==
  /\ \A n \in m.known \ {Assembly!ZFlag} : e[<<"Register", n>>].value = m.regs[n]
  /\ Assembly!ZFlag \in m.known => e[VarName(flag)].value = Truth(m.z)

(* What the operations are printed as.                                     *)
Statements(ops) == {Statement(op, <<>>) : op \in Elements(ops)}

(* The targets that control is transferred to behind the statements.       *)
JumpsInC(ops, f) ==
  {st.target : st \in {t \in Statements(ops) :
                         \/ t.stmt = "Goto"
                         \/ t.stmt = "IfGoto" /\ EvaluateOperand(t.condition, f).value # 0}}

GoesInC(ops, f, instr, m, target) ==
  /\ instr.op # "jump" => JumpsInC(ops, f) = {}
  /\ instr.op = "jump" /\ (instr.when = "always" \/ Assembly!ZFlag \in m.known) =>
       JumpsInC(ops, f) = IF Assembly!Takes(instr.when, m.z) THEN {Absolute(target)} ELSE {}
  /\ instr.op = "call" <=> [stmt |-> "Call", target |-> Absolute(target)] \in Statements(ops)
  /\ instr.op = "ret" <=> [stmt |-> "Return"] \in Statements(ops)

(* The operations are those on the variables.                              *)
Covers(vars, ops, names, size, flag) ==
  /\ Storage(names, size, flag) \subseteq vars
  /\ \A op \in Elements(ops) : Defines(op) => op.dest \in vars

(* The statements do what the processor does, whatever its state.          *)
DoesInC(ops, family, instr, names, size, flag, target) ==
  \A m \in Machines(names, size) : \A e, vars :
    /\ InC(m, e, flag) /\ Declares(e, vars) /\ Covers(vars, ops, names, size, flag)
    => \E f : /\ RunsInC(ops, e, f) /\ Declares(f, vars)
              /\ InC(Assembly!ExecuteInstruction(family, instr, m, Limit(size)), f, flag)
              /\ GoesInC(ops, f, instr, m, target)

(* Of operations that are printable, the statements that are jumps, calls  *)
(* and returns are those the operations are.                               *)
LEMMA StatementKinds ==
  ASSUME NEW o, NEW vars, Printable(o, vars), NEW st, st = Statement(o, <<>>)
  PROVE  /\ st.stmt = "Goto" <=> o.op = "Branch"
         /\ st.stmt = "IfGoto" <=> o.op = "CBranch"
         /\ st.stmt = "Call" <=> o.op = "Call"
         /\ st.stmt = "Return" <=> o.op = "Return"
         /\ o.op = "Branch" => st.target = o.target
         /\ o.op = "CBranch" => st.target = o.target /\ st.condition = Operand(o.condition)
         /\ o.op = "Call" => st = [stmt |-> "Call", target |-> o.target]
         /\ o.op = "Return" => st = [stmt |-> "Return"]
<1>1. CASE o.op = "Branch"
  BY <1>1 DEF Statement, BinaryOps
<1>2. CASE o.op = "CBranch"
  BY <1>2 DEF Statement, BinaryOps
<1>3. CASE o.op = "Call"
  BY <1>3 DEF Statement, BinaryOps
<1>4. CASE o.op = "Return"
  BY <1>4 DEF Statement, BinaryOps
<1>5. CASE o.op \in BinaryOps \union {"Copy"}
  <2>1. st.stmt = "Assign"
    BY <1>5 DEF Statement, BinaryOps
  <2>2. QED
    BY <1>5, <2>1 DEF BinaryOps
<1>6. QED
  BY <1>1, <1>2, <1>3, <1>4, <1>5 DEF Printable

(* C jumps where the operations do.                                        *)
LEMMA JumpsAlike ==
  ASSUME NEW f, NEW s, Mirrors(f, s), NEW ops,
         \A o \in Elements(ops) : Printable(o, DOMAIN s)
  PROVE  JumpsInC(ops, f) = Jumps(ops, s)
<1>1. ASSUME NEW o \in Elements(ops), o.op = "CBranch"
      PROVE  EvaluateOperand(Operand(o.condition), f).value = Value(o.condition, s)
  <2>1. PICK v : v = o.condition /\ Readable(v, DOMAIN s)
    BY <1>1 DEF Printable, BinaryOps
  <2>2. PICK t, x : HasType(v) /\ Reads(v, f, x, t) /\ x = Value(v, s)
    BY <2>1, ReadsMirrored
  <2>3. EvaluateSide(Operand(v), f) = [type |-> t, value |-> x]
    BY <2>2, ReadOperand DEF HasType
  <2>4. PICK a : a = Operand(v)
    OBVIOUS
  <2>5. a.expr # "Cast"
    BY <2>4 DEF Operand, Literal, MemAt, Var
  <2>6. EvaluateOperand(a, f) = [type |-> t, value |-> x]
    BY <2>3, <2>4, <2>5 DEF EvaluateSide
  <2>7. QED
    BY <2>1, <2>2, <2>4, <2>6
<1>2. ASSUME NEW t PROVE t \in JumpsInC(ops, f) => t \in Jumps(ops, s)
  <2> SUFFICES ASSUME t \in JumpsInC(ops, f) PROVE t \in Jumps(ops, s)
    OBVIOUS
  <2>1. PICK o, st :
          /\ o \in Elements(ops) /\ st = Statement(o, <<>>) /\ t = st.target
          /\ \/ st.stmt = "Goto"
             \/ st.stmt = "IfGoto" /\ EvaluateOperand(st.condition, f).value # 0
    BY DEF JumpsInC, Statements
  <2>2. CASE o.op = "Branch"
    BY <2>1, <2>2, StatementKinds DEF Jumps
  <2>3. CASE o.op = "CBranch"
    <3>1. /\ st.stmt = "IfGoto" /\ st.target = o.target
          /\ st.condition = Operand(o.condition)
      BY <2>1, <2>3, StatementKinds
    <3>2. Value(o.condition, s) # 0
      BY <1>1, <2>1, <2>3, <3>1
    <3>3. QED
      BY <2>1, <2>3, <3>1, <3>2 DEF Jumps
  <2>4. o.op \in {"Branch", "CBranch"}
    BY <2>1, StatementKinds
  <2>5. QED
    BY <2>2, <2>3, <2>4
<1>3. ASSUME NEW t PROVE t \in Jumps(ops, s) => t \in JumpsInC(ops, f)
  <2> SUFFICES ASSUME t \in Jumps(ops, s) PROVE t \in JumpsInC(ops, f)
    OBVIOUS
  <2>1. PICK o \in Elements(ops) :
          t = o.target /\ (o.op = "Branch" \/ (o.op = "CBranch" /\ Value(o.condition, s) # 0))
    BY DEF Jumps
  <2>2. PICK st \in Statements(ops) : st = Statement(o, <<>>)
    BY DEF Statements
  <2>3. CASE o.op = "Branch"
    <3>1. st.stmt = "Goto" /\ st.target = t
      BY <2>1, <2>2, <2>3, StatementKinds
    <3>2. QED
      BY <3>1 DEF JumpsInC
  <2>4. CASE o.op = "CBranch"
    <3>1. /\ st.stmt = "IfGoto" /\ st.target = t
          /\ st.condition = Operand(o.condition)
      BY <2>1, <2>2, <2>4, StatementKinds
    <3>2. EvaluateOperand(st.condition, f).value # 0
      BY <1>1, <2>1, <2>4, <3>1
    <3>3. QED
      BY <3>1, <3>2 DEF JumpsInC
  <2>5. QED
    BY <2>1, <2>3, <2>4
<1>4. QED
  BY <1>2, <1>3

(* Statements go where the operations go.                                  *)
LEMMA GoesAlike ==
  ASSUME NEW f, NEW s, Mirrors(f, s), NEW ops,
         \A o \in Elements(ops) : Printable(o, DOMAIN s),
         \A o \in Elements(ops) : o.op = "Call" => o = Call(o.target),
         \A o \in Elements(ops) : o.op = "Return" => o = Return,
         NEW instr, NEW m, NEW target, Goes(ops, s, instr, m, target)
  PROVE  GoesInC(ops, f, instr, m, target)
<1>1. JumpsInC(ops, f) = Jumps(ops, s)
  BY JumpsAlike
<1>2. [stmt |-> "Call", target |-> Absolute(target)] \in Statements(ops)
        <=> Call(Absolute(target)) \in Elements(ops)
  <2>1. ASSUME [stmt |-> "Call", target |-> Absolute(target)] \in Statements(ops)
        PROVE  Call(Absolute(target)) \in Elements(ops)
    <3>1. PICK o, st :
            /\ o \in Elements(ops) /\ st = Statement(o, <<>>) /\ st = [stmt |-> "Call", target |-> Absolute(target)]
      BY <2>1 DEF Statements
    <3>2. st.stmt = "Call" /\ st.target = Absolute(target)
      BY <3>1
    <3>3. o.op = "Call" /\ st = [stmt |-> "Call", target |-> o.target]
      BY <3>1, <3>2, StatementKinds
    <3>4. o.target = Absolute(target)
      BY <3>2, <3>3
    <3>5. o = Call(o.target)
      BY <3>1, <3>3
    <3>6. QED
      BY <3>1, <3>4, <3>5
  <2>2. ASSUME Call(Absolute(target)) \in Elements(ops)
        PROVE  [stmt |-> "Call", target |-> Absolute(target)] \in Statements(ops)
    <3>1. PICK o \in Elements(ops) : o = Call(Absolute(target))
      BY <2>2
    <3>2. o.op = "Call" /\ o.target = Absolute(target)
      BY <3>1 DEF Call
    <3>3. Statement(o, <<>>) = [stmt |-> "Call", target |-> Absolute(target)]
      BY <3>2, StatementKinds
    <3>4. QED
      BY <3>3 DEF Statements
  <2>3. QED
    BY <2>1, <2>2
<1>3. [stmt |-> "Return"] \in Statements(ops) <=> Returns(ops)
  <2>1. ASSUME [stmt |-> "Return"] \in Statements(ops) PROVE Returns(ops)
    <3>1. PICK o, st : o \in Elements(ops) /\ st = Statement(o, <<>>) /\ st = [stmt |-> "Return"]
      BY <2>1 DEF Statements
    <3>2. st.stmt = "Return"
      BY <3>1
    <3>3. o.op = "Return"
      BY <3>1, <3>2, StatementKinds
    <3>4. o = Return
      BY <3>1, <3>3
    <3>5. QED
      BY <3>1, <3>4 DEF Returns
  <2>2. ASSUME Returns(ops) PROVE [stmt |-> "Return"] \in Statements(ops)
    <3>1. PICK o \in Elements(ops) : o.op = "Return"
      BY <2>2 DEF Returns, Return
    <3>2. Statement(o, <<>>) = [stmt |-> "Return"]
      BY <3>1, StatementKinds
    <3>3. QED
      BY <3>2 DEF Statements
  <2>3. QED
    BY <2>1, <2>2
<1>4. QED
  BY <1>1, <1>2, <1>3 DEF Goes, GoesInC

(* The instruction sets registers of the processor, from operands it has.  *)
IsOperand(operand, names) ==
  \/ \E n \in names : operand = Assembly!R(n)
  \/ \E n \in Int : operand = Assembly!I(n)

Operates(instr, names) ==
  \/ instr.op = "mov" /\ instr.dst \in names /\ IsOperand(instr.src, names)
  \/ /\ instr.op = "add" /\ instr.dst \in names
     /\ IsOperand(instr.lhs, names) /\ IsOperand(instr.rhs, names)
  \/ instr.op \in {"cmp", "jump", "call", "ret"}

LEMMA KnownStays ==
  ASSUME NEW names, NEW size, NEW m \in Machines(names, size), NEW family, NEW instr,
         Operates(instr, names), NEW limit
  PROVE  Assembly!ExecuteInstruction(family, instr, m, limit).known
           \subseteq names \union {Assembly!ZFlag}
<1>1. m.known \subseteq names \union {Assembly!ZFlag}
  BY DEF Machines
<1>2. \A what, from : Assembly!Learn(m, what, from) \subseteq m.known \union {what}
  BY DEF Assembly!Learn
<1>3. PICK after : after = Assembly!ExecuteInstruction(family, instr, m, limit)
  OBVIOUS
<1>4. CASE instr.op = "mov"
  <2>1. after.known = Assembly!Learn(m, instr.dst, {instr.src})
    BY <1>3, <1>4 DEF Assembly!ExecuteInstruction, Assembly!ExecuteMov, Machines
  <2>2. QED
    BY <1>1, <1>2, <1>3, <1>4, <2>1 DEF Operates
<1>5. CASE instr.op = "add"
  <2>1. after.known \subseteq Assembly!Learn(m, instr.dst, {instr.lhs, instr.rhs})
    BY <1>3, <1>5 DEF Assembly!ExecuteInstruction, Assembly!ExecuteAdd, Machines
  <2>2. QED
    BY <1>1, <1>2, <1>3, <1>5, <2>1 DEF Operates
<1>6. CASE instr.op = "cmp"
  <2>1. after.known = Assembly!Learn(m, Assembly!ZFlag, {instr.lhs, instr.rhs})
    BY <1>3, <1>6 DEF Assembly!ExecuteInstruction, Assembly!ExecuteCmp, Machines
  <2>2. QED
    BY <1>1, <1>2, <1>3, <2>1
<1>7. CASE instr.op = "jump"
  BY <1>1, <1>3, <1>7 DEF Assembly!ExecuteInstruction, Machines
<1>8. CASE instr.op = "call"
  BY <1>1, <1>3, <1>8 DEF Assembly!ExecuteInstruction, Machines
<1>9. CASE instr.op = "ret"
  BY <1>1, <1>3, <1>9 DEF Assembly!ExecuteInstruction, Machines
<1>10. QED
  BY <1>4, <1>5, <1>6, <1>7, <1>8, <1>9 DEF Operates

(* So does the machine.                                                    *)
LEMMA MachineStays ==
  ASSUME NEW names, NEW size \in Nat \ {0}, NEW m \in Machines(names, size), NEW family,
         NEW instr, Operates(instr, names), instr.op = "jump" => instr.to \in Nat
  PROVE  Assembly!ExecuteInstruction(family, instr, m, Limit(size)) \in Machines(names, size)
<1>1. PICK l \in Nat \ {0} : l = Limit(size)
  BY LimitType
<1>2. PICK after : after = Assembly!ExecuteInstruction(family, instr, m, l)
  OBVIOUS
<1>3. /\ m.ip \in Nat /\ m.regs \in [names -> 0 .. l - 1] /\ m.z \in BOOLEAN
      /\ m = [ip |-> m.ip, regs |-> m.regs, z |-> m.z, known |-> m.known]
  BY <1>1 DEF Machines
<1>4. after.known \subseteq names \union {Assembly!ZFlag}
  BY <1>2, KnownStays
<1>5. ASSUME NEW operand, IsOperand(operand, names) PROVE Assembly!Operand(operand, m) \in Int
  <2>1. CASE \E n \in names : operand = Assembly!R(n)
    <3>1. PICK n \in names : operand = Assembly!R(n)
      BY <2>1
    <3>2. "reg" \in DOMAIN operand /\ operand.reg = n
      BY <3>1 DEF Assembly!R
    <3>3. m.regs[n] \in Int
      BY <1>3
    <3>4. QED
      BY <3>2, <3>3 DEF Assembly!Operand, Assembly!IsRegister
  <2>2. CASE \E n \in Int : operand = Assembly!I(n)
    <3>1. PICK n \in Int : operand = Assembly!I(n)
      BY <2>2
    <3>2. "reg" \notin DOMAIN operand /\ operand.imm = n
      BY <3>1 DEF Assembly!I
    <3>3. QED
      BY <3>2 DEF Assembly!Operand, Assembly!IsRegister
  <2>3. QED
    BY <1>5, <2>1, <2>2 DEF IsOperand
<1>6. \A n \in Int : n % l \in 0 .. l - 1
  BY <1>1
<1>7. \A d \in names, n \in 0 .. l - 1 : [m.regs EXCEPT ![d] = n] \in [names -> 0 .. l - 1]
  BY <1>3
<1> DEFINE Is(n, g, b) == after = [ip |-> n, regs |-> g, z |-> b, known |-> after.known]
<1>8. ASSUME NEW n \in Nat, NEW g \in [names -> 0 .. l - 1], NEW b \in BOOLEAN, Is(n, g, b)
      PROVE  after \in Machines(names, size)
  BY <1>1, <1>4, <1>8 DEF Machines
<1>9. CASE instr.op = "mov"
  <2>1. PICK n : n = Assembly!Operand(instr.src, m) % l
    OBVIOUS
  <2>2. n \in 0 .. l - 1 /\ instr.dst \in names
    BY <1>5, <1>6, <1>9, <2>1 DEF Operates
  <2>3. after = [m EXCEPT !.ip = @ + 1, !.regs[instr.dst] = n,
                          !.known = Assembly!Learn(m, instr.dst, {instr.src})]
    BY <1>2, <1>9, <2>1 DEF Assembly!ExecuteInstruction, Assembly!ExecuteMov
  <2>4. after = [ip |-> m.ip + 1, regs |-> [m.regs EXCEPT ![instr.dst] = n], z |-> m.z,
                 known |-> after.known]
    BY <1>3, <2>3
  <2>5. QED
    BY <1>1, <1>2, <1>3, <1>4, <1>7, <2>2, <2>4 DEF Machines
<1>10. CASE instr.op = "add"
  <2>1. PICK n : n = (Assembly!Operand(instr.lhs, m) + Assembly!Operand(instr.rhs, m)) % l
    OBVIOUS
  <2>2. n \in 0 .. l - 1 /\ instr.dst \in names
    <3>1. PICK x \in Int, y \in Int :
            x = Assembly!Operand(instr.lhs, m) /\ y = Assembly!Operand(instr.rhs, m)
      BY <1>5, <1>10 DEF Operates
    <3>2. x + y \in Int
      OBVIOUS
    <3>3. QED
      BY <1>6, <1>10, <2>1, <3>1, <3>2 DEF Operates
  <2>3. PICK b \in BOOLEAN : b = IF family # "arm" THEN n = 0 ELSE m.z
    BY <1>3
  <2>4. \E k : after = [m EXCEPT !.ip = @ + 1, !.regs[instr.dst] = n, !.z = b, !.known = k]
    BY <1>2, <1>10, <2>1, <2>3 DEF Assembly!ExecuteInstruction, Assembly!ExecuteAdd
  <2>5. after = [ip |-> m.ip + 1, regs |-> [m.regs EXCEPT ![instr.dst] = n], z |-> b,
                 known |-> after.known]
    BY <1>3, <2>4
  <2>6. QED
    BY <1>1, <1>2, <1>3, <1>4, <1>7, <2>2, <2>3, <2>5 DEF Machines
<1>11. CASE instr.op = "cmp"
  <2>1. PICK b \in BOOLEAN :
          b = (Assembly!Operand(instr.lhs, m) % l = Assembly!Operand(instr.rhs, m) % l)
    OBVIOUS
  <2>2. \E k : after = [m EXCEPT !.ip = @ + 1, !.z = b, !.known = k]
    BY <1>2, <1>11, <2>1 DEF Assembly!ExecuteInstruction, Assembly!ExecuteCmp
  <2>3. after = [ip |-> m.ip + 1, regs |-> m.regs, z |-> b, known |-> after.known]
    BY <1>3, <2>2
  <2>4. Is(m.ip + 1, m.regs, b) /\ m.ip + 1 \in Nat
    BY <1>3, <2>3
  <2>5. QED
    BY <1>1, <1>2, <1>3, <1>8, <2>1, <2>4
<1>12. CASE instr.op = "jump"
  <2>1. PICK n \in Nat : n = IF Assembly!Takes(instr.when, m.z) THEN instr.to ELSE m.ip + 1
    BY <1>3, <1>12
  <2>2. after = [m EXCEPT !.ip = n]
    BY <1>2, <1>12, <2>1 DEF Assembly!ExecuteInstruction
  <2>3. after = [ip |-> n, regs |-> m.regs, z |-> m.z, known |-> after.known]
    BY <1>3, <2>2
  <2>4. QED
    BY <1>1, <1>2, <1>3, <1>4, <2>1, <2>3 DEF Machines
<1>13. CASE instr.op \in {"call", "ret"}
  <2>1. \E n \in Nat : \E k : after = [m EXCEPT !.ip = n, !.known = k]
    <3>1. CASE instr.op = "call"
      <4>1. after = [m EXCEPT !.ip = m.ip + 1, !.known = {}]
        BY <1>2, <3>1 DEF Assembly!ExecuteInstruction
      <4>2. m.ip + 1 \in Nat
        BY <1>3
      <4>3. QED
        BY <4>1, <4>2, Zenon
    <3>2. CASE instr.op = "ret"
      <4>1. after = [m EXCEPT !.ip = 0]
        BY <1>2, <3>2 DEF Assembly!ExecuteInstruction
      <4>2. after = [m EXCEPT !.ip = 0, !.known = m.known]
        BY <1>3, <4>1
      <4>3. QED
        BY <4>2
    <3>3. QED
      BY <1>13, <3>1, <3>2
  <2>2. PICK n, k : n \in Nat /\ after = [m EXCEPT !.ip = n, !.known = k]
    BY <2>1
  <2>3. after = [ip |-> n, regs |-> m.regs, z |-> m.z, known |-> after.known]
    BY <1>3, <2>2
  <2>4. Is(n, m.regs, m.z)
    BY <2>3
  <2>5. QED
    BY <1>1, <1>2, <1>3, <1>8, <2>2, <2>4
<1>14. QED
  BY <1>9, <1>10, <1>11, <1>12, <1>13 DEF Operates

(* Operations that do what the processor does are printed as C that does.  *)
LEMMA PrintedDoes ==
  ASSUME NEW names, NEW size, NEW flag, RegisterFile(names, size, flag),
         NEW ops, Len(ops) \in Nat, NEW family, NEW instr, NEW target,
         Does(ops, family, instr, names, size, flag, target),
         \A vars : Covers(vars, ops, names, size, flag)
                   /\ (\A v \in Storage(names, size, flag) : HasType(v)) =>
                     \A o \in Elements(ops) : Printable(o, vars),
         \A o \in Elements(ops) : o.op = "Call" => o = Call(o.target),
         \A o \in Elements(ops) : o.op = "Return" => o = Return,
         Operates(instr, names)
  PROVE  DoesInC(ops, family, instr, names, size, flag, target)
<1> SUFFICES ASSUME NEW m \in Machines(names, size), NEW e, NEW vars,
                    InC(m, e, flag), Declares(e, vars), Covers(vars, ops, names, size, flag)
             PROVE  \E f :
                      /\ RunsInC(ops, e, f) /\ Declares(f, vars)
                      /\ InC(Assembly!ExecuteInstruction(family, instr, m, Limit(size)), f, flag)
                      /\ GoesInC(ops, f, instr, m, target)
  BY DEF DoesInC
<1>1. PICK r : r = [v \in vars |-> e[VarName(v)].value]
  OBVIOUS
<1>2. DOMAIN r = vars /\ \A v \in vars : r[v] = e[VarName(v)].value
  BY <1>1
<1>3. Mirrors(e, r)
  BY <1>2 DEF Mirrors
<1>4. /\ flag \in vars /\ \A n \in names : Register(n, size) \in vars
      /\ \A n : VarName(Register(n, size)) = <<"Register", n>>
  BY DEF Covers, Storage, VarName, Register, Varnode
<1>5. ASSUME NEW machine, machine.known \subseteq names \union {Assembly!ZFlag}, NEW f, NEW s,
             DOMAIN s = vars, \A v \in vars : s[v] = f[VarName(v)].value
      PROVE  InC(machine, f, flag) <=> Agrees(machine, s, size, flag)
  <2>1. \A n \in machine.known \ {Assembly!ZFlag} :
          s[Register(n, size)] = f[<<"Register", n>>].value
    <3> TAKE n \in machine.known \ {Assembly!ZFlag}
    <3>1. n \in names
      BY <1>5
    <3>2. Register(n, size) \in vars /\ VarName(Register(n, size)) = <<"Register", n>>
      BY <1>4, <3>1
    <3>3. QED
      BY <1>5, <3>2
  <2>2. s[flag] = f[VarName(flag)].value
    BY <1>4, <1>5
  <2>3. QED
    BY <2>1, <2>2 DEF InC, Agrees
<1>6. m.known \subseteq names \union {Assembly!ZFlag}
  BY DEF Machines
<1>7. Agrees(m, r, size, flag)
  BY <1>2, <1>5, <1>6
<1>8. Stores(ops, r) /\ Storage(names, size, flag) \subseteq DOMAIN r
  BY <1>2 DEF Stores, Covers
<1>9. PICK after : after = Assembly!ExecuteInstruction(family, instr, m, Limit(size))
  OBVIOUS
<1>10. PICK s : /\ Runs(ops, r, s) /\ Agrees(after, s, size, flag)
                /\ Goes(ops, s, instr, m, target)
  BY <1>7, <1>8, <1>9 DEF Does
<1>11. \A o \in Elements(ops) : Printable(o, vars)
  <2>1. \A v \in Storage(names, size, flag) : HasType(v)
    BY DEF Covers, Declares
  <2>2. QED
    BY <2>1
<1>12. \A j \in 1 .. Len(ops) : Printable(ops[j], DOMAIN r)
  BY <1>2, <1>11 DEF Elements
<1>13. PICK f : RunsInC(ops, e, f) /\ Mirrors(f, s) /\ DOMAIN s = DOMAIN r
  BY <1>3, <1>10, <1>12, StatementsAreExact
<1>14. Declares(f, vars) /\ DOMAIN s = vars /\ \A v \in vars : s[v] = f[VarName(v)].value
  BY <1>2, <1>13 DEF Mirrors
<1>15. after.known \subseteq names \union {Assembly!ZFlag}
  BY <1>9, KnownStays
<1>16. InC(after, f, flag)
  BY <1>5, <1>10, <1>14, <1>15
<1>17. GoesInC(ops, f, instr, m, target)
  BY <1>10, <1>11, <1>13, <1>14, GoesAlike
<1>18. QED
  BY <1>9, <1>13, <1>14, <1>16, <1>17

LEMMA OperandReadable ==
  ASSUME NEW names, NEW size, NEW flag, RegisterFile(names, size, flag),
         NEW vars, Storage(names, size, flag) \subseteq vars,
         NEW v, NEW operand, StandsFor(v, operand, names, size),
         NEW u, HasType(u), u.size = size
  PROVE  Readable(v, vars) /\ v.size = size
<1>1. CASE \E n \in names : operand = Assembly!R(n) /\ v = Register(n, size)
  <2>1. v \in vars
    BY <1>1 DEF Storage
  <2>2. QED
    BY <2>1, OperandSize DEF Readable
<1>2. CASE \E n \in Int : operand = Assembly!I(n) /\ v = Constant(n % Limit(size), size)
  <2>1. PICK l \in Nat \ {0} : l = Limit(size)
    BY LimitType DEF RegisterFile
  <2>2. PICK k \in 0 .. l - 1 : v = Constant(k, size)
    BY <1>2, <2>1
  <2>3. v.space = "Constant" /\ v.offset = k /\ v.size = size
    BY <2>2 DEF Constant, Varnode
  <2>4. QED
    BY <2>1, <2>3 DEF Readable, HasType
<1>3. QED
  BY <1>1, <1>2 DEF StandsFor

(* The operations of an instruction can be printed.                        *)
LEMMA LiftedPrintable ==
  ASSUME NEW names, NEW size, NEW flag, RegisterFile(names, size, flag),
         NEW ops, NEW instr, NEW target, LiftsTo(ops, instr, names, size, flag, target),
         NEW vars, Covers(vars, ops, names, size, flag),
         \A v \in Storage(names, size, flag) : HasType(v)
  PROVE  \A o \in Elements(ops) : Printable(o, vars)
<1>1. /\ Storage(names, size, flag) \subseteq vars /\ flag \in vars /\ HasType(flag)
      /\ \A n \in names : /\ Register(n, size) \in vars /\ HasType(Register(n, size))
                          /\ Register(n, size).size = size
  BY DEF Covers, Storage, Register, Varnode
<1>2. ASSUME NEW v, NEW operand, StandsFor(v, operand, names, size), v.space = "Register"
      PROVE  v \in vars /\ HasType(v) /\ v.size = size
  <2>1. PICK n \in names : v = Register(n, size)
    BY <1>2 DEF StandsFor, Constant, Varnode
  <2>2. QED
    BY <1>1, <2>1
<1>3. \A o \in Elements(ops) : Defines(o) => o.dest \in vars
  BY DEF Covers
<1>4. ASSUME NEW u, HasType(u)
      PROVE  /\ Readable(Constant(0, u.size), vars)
             /\ Constant(0, u.size).size = u.size
  <2>1. Constant(0, u.size).size = u.size /\ Constant(0, u.size).space = "Constant"
        /\ Constant(0, u.size).offset = 0
    BY DEF Constant, Varnode
  <2>2. Limit(u.size) \in Nat \ {0}
    BY <1>4, LimitType DEF HasType
  <2>3. QED
    BY <1>4, <2>1, <2>2 DEF Readable, HasType
<1>5. CASE instr.op = "mov"
  <2>1. PICK v : /\ StandsFor(v, instr.src, names, size) /\ instr.dst \in names
                 /\ ops = <<Copy(Register(instr.dst, size), v)>>
    BY <1>5 DEF LiftsTo
  <2>2. PICK o : o = Copy(Register(instr.dst, size), v) /\ Elements(ops) = {o}
    BY <2>1, OneElement
  <2>3. o.op = "Copy" /\ o.dest = Register(instr.dst, size) /\ o.src = v
    BY <2>2 DEF Copy
  <2>4. Readable(v, vars) /\ v.size = size
    BY <1>1, <2>1, OperandReadable
  <2>5. Printable(o, vars)
    BY <1>1, <2>1, <2>3, <2>4 DEF Printable
  <2>6. QED
    BY <2>2, <2>5
<1>6. CASE instr.op = "add"
  <2>1. PICK v, w : /\ StandsFor(v, instr.lhs, names, size) /\ v.space = "Register"
                    /\ StandsFor(w, instr.rhs, names, size)
                    /\ ops = <<Binary("IntAdd", Register(instr.dst, size), v, w)>>
                    /\ instr.dst \in names
    BY <1>6 DEF LiftsTo
  <2>2. PICK o : o = Binary("IntAdd", Register(instr.dst, size), v, w) /\ Elements(ops) = {o}
    BY <2>1, OneElement
  <2>3. o.op = "IntAdd" /\ o.dest = Register(instr.dst, size) /\ o.lhs = v /\ o.rhs = w
    BY <2>2 DEF Binary
  <2>4. v \in vars /\ HasType(v) /\ v.size = size
    BY <1>2, <2>1
  <2>5. Readable(w, vars) /\ w.size = size
    BY <1>1, <2>1, <2>4, OperandReadable
  <2>6. Printable(o, vars)
    BY <1>1, <2>1, <2>3, <2>4, <2>5 DEF Printable, Readable, BinaryOps
  <2>7. QED
    BY <2>2, <2>6
<1>7. CASE instr.op = "cmp"
  <2>1. PICK v, w : /\ StandsFor(v, instr.lhs, names, size) /\ v.space = "Register"
                    /\ StandsFor(w, instr.rhs, names, size)
                    /\ \/ ops = <<Binary("IntEqual", flag, v, w)>>
                       \/ \E diff : /\ diff.space = "Unique" /\ diff.size = size
                                    /\ ops = << Binary("IntSub", diff, v, w),
                                                Binary("IntEqual", flag, diff, Constant(0, size)) >>
    BY <1>7 DEF LiftsTo
  <2>2. v \in vars /\ HasType(v) /\ v.size = size
    BY <1>2, <2>1
  <2>3. Readable(w, vars) /\ w.size = size
    BY <1>1, <2>1, <2>2, OperandReadable
  <2>4. CASE ops = <<Binary("IntEqual", flag, v, w)>>
    <3>1. PICK o : o = Binary("IntEqual", flag, v, w) /\ Elements(ops) = {o}
      BY <2>4, OneElement
    <3>2. o.op = "IntEqual" /\ o.dest = flag /\ o.lhs = v /\ o.rhs = w
      BY <3>1 DEF Binary
    <3>3. Printable(o, vars)
      BY <1>1, <2>1, <2>2, <2>3, <3>2 DEF Printable, Readable, BinaryOps
    <3>4. QED
      BY <3>1, <3>3
  <2>5. CASE \E diff : /\ diff.space = "Unique" /\ diff.size = size
                       /\ ops = << Binary("IntSub", diff, v, w),
                                   Binary("IntEqual", flag, diff, Constant(0, size)) >>
    <3>1. PICK diff : /\ diff.space = "Unique" /\ diff.size = size
                      /\ ops = << Binary("IntSub", diff, v, w),
                                  Binary("IntEqual", flag, diff, Constant(0, size)) >>
      BY <2>5
    <3>2. PICK c : c = Constant(0, size) /\ Readable(c, vars) /\ c.size = size
      BY <1>4, <2>2
    <3>3. PICK o, p : /\ o = Binary("IntSub", diff, v, w) /\ p = Binary("IntEqual", flag, diff, c)
                      /\ Elements(ops) = {o, p}
      BY <3>1, <3>2, TwoElements
    <3>4. /\ o.op = "IntSub" /\ o.dest = diff /\ o.lhs = v /\ o.rhs = w
          /\ p.op = "IntEqual" /\ p.dest = flag /\ p.lhs = diff /\ p.rhs = c
      BY <3>3 DEF Binary
    <3>5. diff \in vars
      BY <1>3, <3>3, <3>4 DEF Defines, BinaryOps
    <3>6. Printable(o, vars)
      BY <2>1, <2>2, <2>3, <3>1, <3>4, <3>5 DEF Printable, Readable, BinaryOps
    <3>7. Printable(p, vars)
      BY <1>1, <3>1, <3>2, <3>4, <3>5 DEF Printable, Readable, BinaryOps
    <3>8. QED
      BY <3>3, <3>6, <3>7
  <2>6. QED
    BY <2>1, <2>4, <2>5
<1>8. CASE instr.op = "jump"
  <2>1. CASE instr.when = "always" /\ ops = <<Branch(Absolute(target))>>
    <3>1. PICK o : o = Branch(Absolute(target)) /\ Elements(ops) = {o}
      BY <2>1, OneElement
    <3>2. QED
      BY <3>1 DEF Printable, Branch
  <2>2. CASE instr.when = "equal" /\ ops = <<CBranch(flag, Absolute(target))>>
    <3>1. PICK o : o = CBranch(flag, Absolute(target)) /\ Elements(ops) = {o}
      BY <2>2, OneElement
    <3>2. QED
      BY <1>1, <3>1 DEF Printable, CBranch, Readable
  <2>3. CASE /\ instr.when = "unequal"
             /\ \E not : /\ not.space = "Unique"
                         /\ ops = << Binary("IntEqual", not, flag, Constant(0, flag.size)),
                                     CBranch(not, Absolute(target)) >>
    <3>1. PICK not : /\ not.space = "Unique"
                     /\ ops = << Binary("IntEqual", not, flag, Constant(0, flag.size)),
                                 CBranch(not, Absolute(target)) >>
      BY <2>3
    <3>2. PICK c : c = Constant(0, flag.size) /\ Readable(c, vars) /\ c.size = flag.size
      BY <1>1, <1>4
    <3>3. PICK o, p : /\ o = Binary("IntEqual", not, flag, c) /\ p = CBranch(not, Absolute(target))
                      /\ Elements(ops) = {o, p}
      BY <3>1, <3>2, TwoElements
    <3>4. /\ o.op = "IntEqual" /\ o.dest = not /\ o.lhs = flag /\ o.rhs = c
          /\ p.op = "CBranch" /\ p.condition = not
      BY <3>3 DEF Binary, CBranch
    <3>5. not \in vars
      BY <1>3, <3>3, <3>4 DEF Defines, BinaryOps
    <3>6. flag.space = "Register"
      BY DEF RegisterFile
    <3>7. Printable(o, vars)
      BY <1>1, <3>2, <3>4, <3>5, <3>6 DEF Printable, Readable, BinaryOps
    <3>8. Printable(p, vars)
      BY <3>4, <3>5 DEF Printable, Readable
    <3>9. QED
      BY <3>3, <3>7, <3>8
  <2>4. QED
    BY <1>8, <2>1, <2>2, <2>3 DEF LiftsTo
<1>9. CASE instr.op = "call"
  <2>1. PICK o : o = Call(Absolute(target)) /\ Elements(ops) = {o}
    BY <1>9, OneElement DEF LiftsTo
  <2>2. QED
    BY <2>1 DEF Printable, Call
<1>10. CASE instr.op = "ret"
  <2>1. PICK o : o = Return /\ Elements(ops) = {o}
    BY <1>10, OneElement DEF LiftsTo
  <2>2. QED
    BY <2>1 DEF Printable, Return
<1>11. QED
  BY <1>5, <1>6, <1>7, <1>8, <1>9, <1>10 DEF LiftsTo

LEMMA LiftedEnds ==
  ASSUME NEW names, NEW size, NEW flag, NEW ops, NEW instr, NEW target,
         LiftsTo(ops, instr, names, size, flag, target)
  PROVE  /\ Len(ops) \in Nat
         /\ \A o \in Elements(ops) : o.op = "Call" => o = Call(o.target)
         /\ \A o \in Elements(ops) : o.op = "Return" => o = Return
<1>1. /\ \A u, v : Copy(u, v).op = "Copy"
      /\ \A name, u, v, w : Binary(name, u, v, w).op = name
      /\ \A u, t : CBranch(u, t).op = "CBranch"
      /\ \A t : Branch(t).op = "Branch"
      /\ \A t : Call(t).op = "Call" /\ Call(t).target = t
      /\ Return.op = "Return"
  BY DEF Copy, Binary, CBranch, Branch, Call, Return
<1>2. ASSUME NEW o, o.op \notin {"Call", "Return"} \/ o = Call(o.target) \/ o = Return,
             ops = <<o>>
      PROVE  /\ Len(ops) \in Nat
             /\ \A p \in Elements(ops) : p.op = "Call" => p = Call(p.target)
             /\ \A p \in Elements(ops) : p.op = "Return" => p = Return
  <2>1. Elements(ops) = {o} /\ Len(ops) = 1
    BY <1>2, OneElement
  <2>2. QED
    BY <1>1, <1>2, <2>1
<1>3. ASSUME NEW o, NEW q, o.op \notin {"Call", "Return"}, q.op \notin {"Call", "Return"},
             ops = <<o, q>>
      PROVE  /\ Len(ops) \in Nat
             /\ \A p \in Elements(ops) : p.op = "Call" => p = Call(p.target)
             /\ \A p \in Elements(ops) : p.op = "Return" => p = Return
  <2>1. Elements(ops) = {o, q} /\ Len(ops) = 2
    BY <1>3, TwoElements
  <2>2. QED
    BY <1>3, <2>1
<1>4. CASE instr.op = "mov"
  <2>1. PICK v : ops = <<Copy(Register(instr.dst, size), v)>>
    BY <1>4 DEF LiftsTo
  <2>2. PICK o : o = Copy(Register(instr.dst, size), v)
    OBVIOUS
  <2>3. o.op = "Copy" /\ ops = <<o>>
    BY <1>1, <2>1, <2>2
  <2>4. QED
    BY <1>2, <2>3
<1>5. CASE instr.op = "add"
  <2>1. PICK v, w : ops = <<Binary("IntAdd", Register(instr.dst, size), v, w)>>
    BY <1>5 DEF LiftsTo
  <2>2. PICK o : o = Binary("IntAdd", Register(instr.dst, size), v, w)
    OBVIOUS
  <2>3. o.op = "IntAdd" /\ ops = <<o>>
    BY <2>1, <2>2 DEF Binary
  <2>4. QED
    BY <1>2, <2>3
<1>6. CASE instr.op = "cmp"
  <2>1. PICK v, w : \/ ops = <<Binary("IntEqual", flag, v, w)>>
                    \/ \E diff : ops = << Binary("IntSub", diff, v, w),
                                          Binary("IntEqual", flag, diff, Constant(0, size)) >>
    BY <1>6 DEF LiftsTo
  <2>2. CASE ops = <<Binary("IntEqual", flag, v, w)>>
    <3>1. PICK o : o = Binary("IntEqual", flag, v, w)
      OBVIOUS
    <3>2. o.op = "IntEqual" /\ ops = <<o>>
      BY <2>2, <3>1 DEF Binary
    <3>3. QED
      BY <1>2, <3>2
  <2>3. CASE \E diff : ops = << Binary("IntSub", diff, v, w),
                                Binary("IntEqual", flag, diff, Constant(0, size)) >>
    <3>1. PICK diff : ops = << Binary("IntSub", diff, v, w),
                               Binary("IntEqual", flag, diff, Constant(0, size)) >>
      BY <2>3
    <3>2. PICK o, q : /\ o = Binary("IntSub", diff, v, w)
                      /\ q = Binary("IntEqual", flag, diff, Constant(0, size))
      OBVIOUS
    <3>3. o.op = "IntSub" /\ q.op = "IntEqual" /\ ops = <<o, q>>
      BY <3>1, <3>2 DEF Binary
    <3>4. QED
      BY <1>3, <3>3
  <2>4. QED
    BY <2>1, <2>2, <2>3
<1>7. CASE instr.op = "jump"
  <2>1. CASE ops = <<Branch(Absolute(target))>>
    <3>1. PICK o : o = Branch(Absolute(target))
      OBVIOUS
    <3>2. o.op = "Branch" /\ ops = <<o>>
      BY <1>1, <2>1, <3>1
    <3>3. QED
      BY <1>2, <3>2
  <2>2. CASE ops = <<CBranch(flag, Absolute(target))>>
    <3>1. PICK o : o = CBranch(flag, Absolute(target))
      OBVIOUS
    <3>2. o.op = "CBranch" /\ ops = <<o>>
      BY <1>1, <2>2, <3>1
    <3>3. QED
      BY <1>2, <3>2
  <2>3. CASE \E not : ops = << Binary("IntEqual", not, flag, Constant(0, flag.size)),
                               CBranch(not, Absolute(target)) >>
    <3>1. PICK not : ops = << Binary("IntEqual", not, flag, Constant(0, flag.size)),
                              CBranch(not, Absolute(target)) >>
      BY <2>3
    <3>2. PICK o, q : /\ o = Binary("IntEqual", not, flag, Constant(0, flag.size))
                      /\ q = CBranch(not, Absolute(target))
      OBVIOUS
    <3>3. o.op = "IntEqual" /\ q.op = "CBranch" /\ ops = <<o, q>>
      BY <1>1, <3>1, <3>2 DEF Binary
    <3>4. QED
      BY <1>3, <3>3
  <2>4. QED
    BY <1>7, <2>1, <2>2, <2>3 DEF LiftsTo
<1>8. CASE instr.op = "call"
  <2>1. PICK o : o = Call(Absolute(target)) /\ ops = <<o>>
    BY <1>8 DEF LiftsTo
  <2>2. o = Call(o.target)
    BY <1>1, <2>1
  <2>3. QED
    BY <1>2, <2>1, <2>2
<1>9. CASE instr.op = "ret"
  <2>1. PICK o : o = Return /\ ops = <<o>>
    BY <1>9 DEF LiftsTo
  <2>2. QED
    BY <1>2, <2>1
<1>10. QED
  BY <1>4, <1>5, <1>6, <1>7, <1>8, <1>9 DEF LiftsTo

(* It is printed as C that does what the processor does.                   *)
LEMMA LiftedInC ==
  ASSUME NEW names, NEW size, NEW flag, RegisterFile(names, size, flag),
         NEW ops, NEW instr, NEW target, LiftsTo(ops, instr, names, size, flag, target),
         NEW family
  PROVE  DoesInC(ops, family, instr, names, size, flag, target) /\ Operates(instr, names)
<1>1. Does(ops, family, instr, names, size, flag, target)
  BY LiftedDoes
<1>2. \A vars : Covers(vars, ops, names, size, flag)
                /\ (\A v \in Storage(names, size, flag) : HasType(v)) =>
                  \A o \in Elements(ops) : Printable(o, vars)
  BY LiftedPrintable
<1>3. \A v, operand : StandsFor(v, operand, names, size) => IsOperand(operand, names)
  BY DEF StandsFor, IsOperand
<1>4. Operates(instr, names)
  BY <1>3 DEF LiftsTo, Operates
<1>5. QED
  BY <1>1, <1>2, <1>4, LiftedEnds, PrintedDoes

-----------------------------------------------------------------------------
(* Instructions one after the other.                                       *)

(* The processor runs through the instructions, from one machine to the    *)
(* next.                                                                   *)
Executes(family, instrs, limit, m) ==
  /\ DOMAIN m = 0 .. Len(instrs)
  /\ \A j \in 1 .. Len(instrs) :
       m[j] = Assembly!ExecuteInstruction(family, instrs[j], m[j - 1], limit)

(* The variables after each instruction hold what the program accounts for *)
(* by then, and control goes where the processor goes.                     *)
Follows(code, instrs, targets, vars, flag, m, e) ==
  \A j \in 1 .. Len(instrs) :
    /\ RunsInC(code[j], e[j - 1], e[j]) /\ InC(m[j], e[j], flag)
    /\ Declares(e[j], vars)
    /\ GoesInC(code[j], e[j], instrs[j], m[j - 1], targets[j])

(* What C does for each instruction on its own it does for a run of them.  *)
THEOREM BlockIsExact ==
  ASSUME NEW names, NEW size, NEW flag, RegisterFile(names, size, flag), NEW family,
         NEW instrs, Len(instrs) \in Nat, NEW code, NEW targets, NEW vars,
         \A j \in 1 .. Len(instrs) :
           /\ DoesInC(code[j], family, instrs[j], names, size, flag, targets[j])
           /\ Operates(instrs[j], names) /\ (instrs[j].op = "jump" => instrs[j].to \in Nat)
           /\ Covers(vars, code[j], names, size, flag),
         NEW m, Executes(family, instrs, Limit(size), m), m[0] \in Machines(names, size),
         NEW first, Declares(first, vars), InC(m[0], first, flag)
  PROVE  \E e : e[0] = first /\ Follows(code, instrs, targets, vars, flag, m, e)
<1> DEFINE Moves(e, j) ==
             /\ RunsInC(code[j], e[j - 1], e[j]) /\ InC(m[j], e[j], flag)
             /\ Declares(e[j], vars)
             /\ GoesInC(code[j], e[j], instrs[j], m[j - 1], targets[j])
           Reaches(e, n) ==
             /\ DOMAIN e = 0 .. n /\ e[0] = first
             /\ \A j \in 1 .. n : Moves(e, j)
           Good(n) ==
             /\ m[n] \in Machines(names, size)
             /\ \E e : /\ Reaches(e, n) /\ Declares(e[n], vars)
                       /\ InC(m[n], e[n], flag)
           T == {n \in Nat : n <= Len(instrs) => Good(n)}
<1>1. 0 \in T
  <2>1. PICK e : e = [j \in 0 .. 0 |-> first]
    OBVIOUS
  <2>2. DOMAIN e = 0 .. 0 /\ e[0] = first /\ 1 .. 0 = {}
    BY <2>1
  <2>3. Reaches(e, 0)
    BY <2>2
  <2>4. QED
    BY <2>2, <2>3
<1>2. ASSUME NEW n \in Nat, n \in T PROVE n + 1 \in T
  <2> SUFFICES ASSUME n + 1 <= Len(instrs) PROVE Good(n + 1)
    <3> HIDE DEF Good
    <3>1. QED
      OBVIOUS
  <2>1. n <= Len(instrs) /\ n + 1 \in 1 .. Len(instrs) /\ (n + 1) - 1 = n
    OBVIOUS
  <2>2. PICK e : /\ m[n] \in Machines(names, size) /\ Reaches(e, n)
                 /\ Declares(e[n], vars) /\ InC(m[n], e[n], flag)
    BY <1>2, <2>1
  <2>3. PICK instr, ops, target :
          instr = instrs[n + 1] /\ ops = code[n + 1] /\ target = targets[n + 1]
    BY Zenon
  <2>4. /\ DoesInC(ops, family, instr, names, size, flag, target)
        /\ Operates(instr, names) /\ (instr.op = "jump" => instr.to \in Nat)
        /\ Covers(vars, ops, names, size, flag)
    BY <2>1, <2>3
  <2>5. m[n + 1] = Assembly!ExecuteInstruction(family, instr, m[n], Limit(size))
    BY <2>1, <2>3 DEF Executes
  <2>6. PICK f : /\ RunsInC(ops, e[n], f) /\ Declares(f, vars)
                 /\ InC(m[n + 1], f, flag) /\ GoesInC(ops, f, instr, m[n], target)
    BY <2>2, <2>4, <2>5 DEF DoesInC
  <2>7. m[n + 1] \in Machines(names, size)
    BY <2>2, <2>4, <2>5, MachineStays DEF RegisterFile
  <2>8. PICK g : g = [j \in 0 .. n + 1 |-> IF j = n + 1 THEN f ELSE e[j]]
    OBVIOUS
  <2>9. DOMAIN g = 0 .. n + 1 /\ g[n + 1] = f /\ \A j \in 0 .. n : g[j] = e[j]
    BY <2>8
  <2>10. g[0] = first
    BY <2>2, <2>9
  <2>11. ASSUME NEW j \in 1 .. n + 1 PROVE Moves(g, j)
    <3>1. CASE j = n + 1
      <4>1. g[j - 1] = e[n] /\ m[j - 1] = m[n]
        BY <2>9, <3>1
      <4>2. QED
        BY <2>3, <2>6, <2>9, <3>1, <4>1
    <3>2. CASE j # n + 1
      <4>1. j \in 1 .. n /\ j \in 0 .. n /\ j - 1 \in 0 .. n
        BY <3>2
      <4>2. g[j] = e[j] /\ g[j - 1] = e[j - 1]
        BY <2>9, <4>1
      <4>3. Moves(e, j)
        BY <2>2, <4>1
      <4>4. QED
        BY <4>2, <4>3
    <3>3. QED
      BY <3>1, <3>2
  <2>12. Reaches(g, n + 1)
    BY <2>9, <2>10, <2>11
  <2>13. QED
    BY <2>6, <2>7, <2>9, <2>12
<1>3. Len(instrs) \in T
  <2> HIDE DEF T
  <2>1. Nat \subseteq T
    BY <1>1, <1>2, Induction
  <2>2. QED
    BY <2>1
<1>4. PICK e : Reaches(e, Len(instrs))
  BY <1>3
<1>5. QED
  BY <1>4 DEF Follows

-----------------------------------------------------------------------------
(* The x86 backend.                                                        *)

Gpr == 0 .. 7

(* The operand is what a decoded instruction has as its second one.        *)
X86Source(d, operand, register, immediate) ==
  \/ d.op = register /\ d.src \in Gpr /\ operand = Assembly!R(d.src)
  \/ /\ d.op = immediate /\ d.imm \in Int
     /\ \E n \in Int : operand = Assembly!I(n) /\ d.imm % 256^X86RegSize = n % 256^X86RegSize

(* The decoded instruction is that of the assembly language.               *)
X86Denotes(d, instr, disp) ==
  \/ /\ instr.op = "mov" /\ d.dst \in Gpr /\ instr.dst = d.dst
     /\ X86Source(d, instr.src, "MovRegReg", "MovRegImm")
  \/ /\ instr.op = "add" /\ d.dst \in Gpr /\ instr.dst = d.dst
     /\ instr.lhs = Assembly!R(d.dst) /\ X86Source(d, instr.rhs, "AddRegReg", "AddRegImm")
  \/ /\ instr.op = "cmp" /\ d.dst \in Gpr /\ instr.lhs = Assembly!R(d.dst)
     /\ X86Source(d, instr.rhs, "CmpRegReg", "CmpRegImm")
  \/ /\ instr.op = "jump" /\ d.rel = disp
     /\ \/ instr.when = "always" /\ d.op = "Jmp"
        \/ instr.when = "equal" /\ d.op = "Je"
        \/ instr.when = "unequal" /\ d.op = "Jne"
  \/ instr.op = "call" /\ d.op = "Call" /\ d.rel = disp
  \/ instr.op = "ret" /\ d.op = "Ret"

LEMMA X86Terms ==
  /\ \A n : X86Backend!Reg(n) = Register(n, X86RegSize)
  /\ \A n : X86Backend!Imm(n) = Constant(n % 256^X86RegSize, X86RegSize)
  /\ \A n, size : X86Backend!Constant(n, size) = Constant(n, size)
  /\ \A n, size : X86Backend!Fresh(n, size) = Fresh(n, size)
  /\ X86Backend!ZF = Register(1000, 1)
  /\ \A v, w : X86Backend!Copy(v, w) = Copy(v, w)
  /\ \A op, u, v, w : X86Backend!Binary(op, u, v, w) = Binary(op, u, v, w)
  /\ \A v, t : X86Backend!CBranch(v, t) = CBranch(v, t)
  /\ \A t : X86Backend!Branch(t) = Branch(t) /\ X86Backend!Call(t) = Call(t)
  /\ X86Backend!Return = Return
  /\ \A a : X86Backend!Absolute(a) = Absolute(a)
<1>1. \A space, n, size : X86Backend!Varnode(space, n, size) = Varnode(space, n, size)
  BY DEF X86Backend!Varnode, Varnode
<1>2. QED
  BY <1>1, Zenon
  DEF X86Backend!Reg, X86Backend!Register, Register, X86Backend!Imm, X86Backend!Constant,
      Constant, X86Backend!Fresh, Fresh, X86Backend!ZF, X86Backend!Copy, Copy,
      X86Backend!Binary, Binary, X86Backend!CBranch, CBranch, X86Backend!Branch, Branch,
      X86Backend!Call, Call, X86Backend!Return, Return, X86Backend!Absolute, Absolute

LEMMA X86Registers8 ==
  /\ RegisterFile(Gpr, X86RegSize, X86Backend!ZF)
  /\ X86Backend!ZF.size = 1 /\ Limit(X86RegSize) = 256^X86RegSize
<1>1. X86RegSize \in 1 .. 4 /\ Limit(X86RegSize) = 256^X86RegSize
  BY SizeAssumption, OctetLimit
<1>2. X86Backend!ZF = Register(1000, 1)
  BY X86Terms
<1>3. \A n \in Gpr : n # 1000
  BY DEF Gpr
<1>4. \A n \in Gpr : Register(1000, 1) # Register(n, X86RegSize)
  BY <1>3 DEF Register, Varnode
<1>5. QED
  BY <1>1, <1>2, <1>4 DEF RegisterFile, Register, Varnode, Gpr

LEMMA X86SourceStands ==
  ASSUME NEW d, NEW operand, NEW register, NEW immediate, register # immediate,
         X86Source(d, operand, register, immediate)
  PROVE  \E v : /\ d.op = register => v = X86Backend!Reg(d.src)
                /\ d.op = immediate => v = X86Backend!Imm(d.imm)
                /\ StandsFor(v, operand, Gpr, X86RegSize)
<1>1. CASE d.op = register
  <2>1. StandsFor(X86Backend!Reg(d.src), operand, Gpr, X86RegSize)
    BY <1>1, X86Terms DEF X86Source, StandsFor
  <2>2. QED
    BY <1>1, <2>1
<1>2. CASE d.op = immediate
  <2>1. PICK n \in Int : operand = Assembly!I(n) /\ d.imm % 256^X86RegSize = n % 256^X86RegSize
    BY <1>2 DEF X86Source
  <2>2. X86Backend!Imm(d.imm) = Constant(n % Limit(X86RegSize), X86RegSize)
    BY <2>1, X86Terms, X86Registers8
  <2>3. StandsFor(X86Backend!Imm(d.imm), operand, Gpr, X86RegSize)
    BY <2>1, <2>2 DEF StandsFor
  <2>4. QED
    BY <1>2, <2>3
<1>3. QED
  BY <1>1, <1>2 DEF X86Source

(* What a decoded instruction is lifted to.                                *)
LEMMA X86LiftsTo ==
  ASSUME NEW d, NEW instr, NEW disp, X86Denotes(d, instr, disp),
         NEW address, NEW length, NEW number
  PROVE  LiftsTo(X86Backend!Lift(d, address, length, number), instr, Gpr, X86RegSize,
                 X86Backend!ZF, (address + length + disp) % AddressLimit)
<1>1. PICK ops : ops = X86Backend!Lift(d, address, length, number)
  OBVIOUS
<1>2. PICK target : target = (address + length + disp) % AddressLimit
  OBVIOUS
<1>3. PICK zf : zf = X86Backend!ZF /\ RegisterFile(Gpr, X86RegSize, zf) /\ zf.size = 1
  BY X86Registers8
<1>4. d.rel = disp => X86Backend!Absolute(X86Backend!ResolveRel(address, length, d.rel)) = Absolute(target)
  BY <1>2, X86Terms, Zenon DEF X86Backend!ResolveRel
<1>5. CASE instr.op = "mov"
  <2>1. /\ d.dst \in Gpr /\ instr.dst = d.dst
        /\ X86Source(d, instr.src, "MovRegReg", "MovRegImm")
    BY <1>5 DEF X86Denotes
  <2>2. PICK v : /\ d.op = "MovRegReg" => v = X86Backend!Reg(d.src)
                 /\ d.op = "MovRegImm" => v = X86Backend!Imm(d.imm)
                 /\ StandsFor(v, instr.src, Gpr, X86RegSize)
    BY <2>1, X86SourceStands
  <2>3. ops = <<Copy(Register(instr.dst, X86RegSize), v)>>
    <3>1. ops = X86Backend!LiftMov(d.dst, v)
      <4>1. CASE d.op = "MovRegReg"
        BY <1>1, <2>2, <4>1 DEF X86Backend!Lift
      <4>2. CASE d.op = "MovRegImm"
        BY <1>1, <2>2, <4>2 DEF X86Backend!Lift
      <4>3. QED
        BY <2>1, <4>1, <4>2 DEF X86Source
    <3>2. QED
      BY <2>1, <3>1, X86Terms DEF X86Backend!LiftMov
  <2>4. LiftsTo(ops, instr, Gpr, X86RegSize, zf, target)
    BY <1>3, <1>5, <2>1, <2>2, <2>3 DEF LiftsTo
  <2>5. QED
    BY <1>1, <1>2, <1>3, <2>4
<1>6. CASE instr.op = "add"
  <2>1. /\ d.dst \in Gpr /\ instr.dst = d.dst /\ instr.lhs = Assembly!R(d.dst)
        /\ X86Source(d, instr.rhs, "AddRegReg", "AddRegImm")
    BY <1>6 DEF X86Denotes
  <2>2. PICK w : /\ d.op = "AddRegReg" => w = X86Backend!Reg(d.src)
                 /\ d.op = "AddRegImm" => w = X86Backend!Imm(d.imm)
                 /\ StandsFor(w, instr.rhs, Gpr, X86RegSize)
    BY <2>1, X86SourceStands
  <2>3. PICK v : /\ v = Register(d.dst, X86RegSize) /\ v.space = "Register"
                 /\ StandsFor(v, instr.lhs, Gpr, X86RegSize)
    BY <2>1 DEF StandsFor, Register, Varnode
  <2>4. ops = <<Binary("IntAdd", Register(instr.dst, X86RegSize), v, w)>>
    <3>1. ops = X86Backend!LiftAdd(d.dst, w)
      <4>1. CASE d.op = "AddRegReg"
        BY <1>1, <2>2, <4>1 DEF X86Backend!Lift
      <4>2. CASE d.op = "AddRegImm"
        BY <1>1, <2>2, <4>2 DEF X86Backend!Lift
      <4>3. QED
        BY <2>1, <4>1, <4>2 DEF X86Source
    <3>2. QED
      BY <2>1, <2>3, <3>1, X86Terms DEF X86Backend!LiftAdd
  <2>5. LiftsTo(ops, instr, Gpr, X86RegSize, zf, target)
    BY <1>3, <1>6, <2>1, <2>2, <2>3, <2>4 DEF LiftsTo
  <2>6. QED
    BY <1>1, <1>2, <1>3, <2>5
<1>7. CASE instr.op = "cmp"
  <2>1. /\ d.dst \in Gpr /\ instr.lhs = Assembly!R(d.dst)
        /\ X86Source(d, instr.rhs, "CmpRegReg", "CmpRegImm")
    BY <1>7 DEF X86Denotes
  <2>2. PICK w : /\ d.op = "CmpRegReg" => w = X86Backend!Reg(d.src)
                 /\ d.op = "CmpRegImm" => w = X86Backend!Imm(d.imm)
                 /\ StandsFor(w, instr.rhs, Gpr, X86RegSize)
    BY <2>1, X86SourceStands
  <2>3. PICK v : /\ v = Register(d.dst, X86RegSize) /\ v.space = "Register"
                 /\ StandsFor(v, instr.lhs, Gpr, X86RegSize)
    BY <2>1 DEF StandsFor, Register, Varnode
  <2>4. PICK diff : /\ diff = Fresh(number, X86RegSize)
                    /\ diff.space = "Unique" /\ diff.size = X86RegSize
    <3>1. /\ Fresh(number, X86RegSize).space = "Unique"
          /\ Fresh(number, X86RegSize).size = X86RegSize
      BY DEF Fresh, Varnode
    <3>2. QED
      BY <3>1
  <2>5. ops = <<Binary("IntSub", diff, v, w),
                Binary("IntEqual", zf, diff, Constant(0, X86RegSize))>>
    <3>1. ops = X86Backend!LiftCmp(d.dst, w, number)
      <4>1. CASE d.op = "CmpRegReg"
        BY <1>1, <2>2, <4>1 DEF X86Backend!Lift
      <4>2. CASE d.op = "CmpRegImm"
        BY <1>1, <2>2, <4>2 DEF X86Backend!Lift
      <4>3. QED
        BY <2>1, <4>1, <4>2 DEF X86Source
    <3>2. QED
      BY <1>3, <2>3, <2>4, <3>1, X86Terms DEF X86Backend!LiftCmp
  <2>6. LiftsTo(ops, instr, Gpr, X86RegSize, zf, target)
    BY <1>3, <1>7, <2>2, <2>3, <2>4, <2>5 DEF LiftsTo
  <2>7. QED
    BY <1>1, <1>2, <1>3, <2>6
<1>8. CASE instr.op = "jump"
  <2>1. d.rel = disp
    BY <1>8 DEF X86Denotes
  <2>2. CASE instr.when = "always" /\ d.op = "Jmp"
    <3>1. ops = <<Branch(Absolute(target))>>
      BY <1>1, <1>4, <2>1, <2>2, X86Terms DEF X86Backend!Lift
    <3>2. LiftsTo(ops, instr, Gpr, X86RegSize, zf, target)
      BY <1>8, <2>2, <3>1 DEF LiftsTo
    <3>3. QED
      BY <1>1, <1>2, <1>3, <3>2
  <2>3. CASE instr.when = "equal" /\ d.op = "Je"
    <3>1. ops = <<CBranch(zf, Absolute(target))>>
      BY <1>1, <1>3, <1>4, <2>1, <2>3, X86Terms DEF X86Backend!Lift, X86Backend!LiftJe
    <3>2. LiftsTo(ops, instr, Gpr, X86RegSize, zf, target)
      BY <1>3, <1>8, <2>3, <3>1 DEF LiftsTo
    <3>3. QED
      BY <1>1, <1>2, <1>3, <3>2
  <2>4. CASE instr.when = "unequal" /\ d.op = "Jne"
    <3>1. PICK not : not = Fresh(number, 1) /\ not.space = "Unique"
      <4>1. Fresh(number, 1).space = "Unique"
        BY DEF Fresh, Varnode
      <4>2. QED
        BY <4>1
    <3>2. ops = <<Binary("IntEqual", not, zf, Constant(0, zf.size)),
                  CBranch(not, Absolute(target))>>
      <4>1. ops = X86Backend!LiftJne(Absolute(target), number)
        BY <1>1, <1>4, <2>1, <2>4 DEF X86Backend!Lift
      <4>2. QED
        BY <1>3, <3>1, <4>1, X86Terms DEF X86Backend!LiftJne
    <3>3. LiftsTo(ops, instr, Gpr, X86RegSize, zf, target)
      BY <1>3, <1>8, <2>4, <3>1, <3>2 DEF LiftsTo
    <3>4. QED
      BY <1>1, <1>2, <1>3, <3>3
  <2>5. QED
    BY <1>8, <2>2, <2>3, <2>4 DEF X86Denotes
<1>9. CASE instr.op = "call"
  <2>1. d.op = "Call" /\ d.rel = disp
    BY <1>9 DEF X86Denotes
  <2>2. ops = <<Call(Absolute(target))>>
    BY <1>1, <1>4, <2>1, X86Terms DEF X86Backend!Lift
  <2>3. LiftsTo(ops, instr, Gpr, X86RegSize, zf, target)
    BY <1>9, <2>2 DEF LiftsTo
  <2>4. QED
    BY <1>1, <1>2, <1>3, <2>3
<1>10. CASE instr.op = "ret"
  <2>1. d.op = "Ret"
    BY <1>10 DEF X86Denotes
  <2>2. ops = <<Return>>
    BY <1>1, <2>1, X86Terms DEF X86Backend!Lift
  <2>3. LiftsTo(ops, instr, Gpr, X86RegSize, zf, target)
    BY <1>10, <2>2 DEF LiftsTo
  <2>4. QED
    BY <1>1, <1>2, <1>3, <2>3
<1>11. QED
  BY <1>5, <1>6, <1>7, <1>8, <1>9, <1>10 DEF X86Denotes

-----------------------------------------------------------------------------
(* The bytes begin with an encoding.                                       *)
StartsWith(b, encoding) ==
  /\ b \in Seq(Octet) /\ Len(encoding) <= Len(b)
  /\ \A j \in 1 .. Len(encoding) : b[j] = encoding[j]

(* The number stands in the bytes from a position on.                      *)
BytesAt(b, first, n, size) ==
  \A j \in 1 .. size : b[first + j - 1] = Assembly!Bytes(n, size)[j]

LEMMA BytesAreOctets ==
  ASSUME NEW n \in Int, NEW size \in 1 .. 4
  PROVE  Assembly!Bytes(n, size) \in Seq(Int) /\ Len(Assembly!Bytes(n, size)) = size
<1>1. PICK l \in Nat \ {0} : l = 256^size
  <2>1. 256^size \in Nat \ {0}
    <3>1. 256^size \in Nat /\ 256^size >= 256
      BY OctetLimit
    <3>2. QED
      BY <3>1, SMT
  <2>2. QED
    BY <2>1
<1>2. ASSUME NEW j \in 1 .. size
      PROVE  ((n % 256^size) \div 256^(j - 1)) % 256 \in Int
  <2>1. PICK p \in Nat \ {0} : p = 256^(j - 1)
    <3>1. j - 1 \in {0, 1, 2, 3}
      OBVIOUS
    <3>2. \A p \in {1, 256, 65536, 16777216} : p \in Nat \ {0}
      OBVIOUS
    <3>3. 256^(j - 1) \in {1, 256, 65536, 16777216}
      <4>1. CASE j - 1 = 0
        BY <4>1, PowersOf256
      <4>2. CASE j - 1 = 1
        BY <4>2, PowersOf256
      <4>3. CASE j - 1 = 2
        BY <4>3, PowersOf256
      <4>4. CASE j - 1 = 3
        BY <4>4, PowersOf256
      <4>5. QED
        BY <3>1, <4>1, <4>2, <4>3, <4>4
    <3>4. QED
      BY <3>2, <3>3
  <2>2. \A x \in Int : (x \div p) % 256 \in Int
    OBVIOUS
  <2>3. n % l \in Int
    OBVIOUS
  <2>4. QED
    BY <1>1, <2>1, <2>2, <2>3, Zenon
<1>3. PICK f : f = [j \in 1 .. size |-> ((n % 256^size) \div 256^(j - 1)) % 256]
  OBVIOUS
<1>4. f \in [1 .. size -> Int]
  BY <1>2, <1>3, Zenon
<1>5. f \in Seq(Int) /\ Len(f) = size
  BY <1>4, SMT
<1>6. Assembly!Bytes(n, size) = f
  BY <1>3, Zenon DEF Assembly!Bytes
<1>7. QED
  BY <1>5, <1>6

LEMMA OneByte ==
  ASSUME NEW x, NEW b, StartsWith(b, <<x>>)
  PROVE  b \in Seq(Octet) /\ Len(b) >= 1 /\ b[1] = x
<1>1. Len(<<x>>) = 1 /\ <<x>>[1] = x /\ 1 \in 1 .. 1
  OBVIOUS
<1>2. QED
  BY <1>1 DEF StartsWith

LEMMA TwoBytes ==
  ASSUME NEW x, NEW y, NEW b, StartsWith(b, <<x, y>>)
  PROVE  b \in Seq(Octet) /\ Len(b) >= 2 /\ b[1] = x /\ b[2] = y
<1>1. Len(<<x, y>>) = 2 /\ <<x, y>>[1] = x /\ <<x, y>>[2] = y /\ 1 \in 1 .. 2 /\ 2 \in 1 .. 2
  OBVIOUS
<1>2. QED
  BY <1>1 DEF StartsWith

LEMMA OneThenBytes ==
  ASSUME NEW x \in Int, NEW n \in Int, NEW size \in 1 .. 4,
         NEW b, StartsWith(b, <<x>> \o Assembly!Bytes(n, size))
  PROVE  /\ b \in Seq(Octet) /\ Len(b) >= 1 + size /\ b[1] = x
         /\ BytesAt(b, 2, n, size)
<1>1. PICK t \in Seq(Int) : t = Assembly!Bytes(n, size) /\ Len(t) = size
  BY BytesAreOctets
<1>2. PICK s \in Seq(Int) : s = <<x>> /\ Len(s) = 1 /\ s[1] = x
  <2>1. <<x>> \in Seq(Int) /\ Len(<<x>>) = 1 /\ <<x>>[1] = x
    OBVIOUS
  <2>2. QED
    BY <2>1, Zenon
<1>3. /\ Len(s \o t) = 1 + size
      /\ \A j \in 1 .. 1 + size : (s \o t)[j] = IF j <= 1 THEN s[j] ELSE t[j - 1]
  BY <1>1, <1>2, ConcatProperties
<1>4. StartsWith(b, s \o t)
  BY <1>1, <1>2
<1>5. b \in Seq(Octet) /\ Len(b) >= 1 + size /\ \A j \in 1 .. 1 + size : b[j] = (s \o t)[j]
  BY <1>3, <1>4 DEF StartsWith
<1>6. b[1] = x
  <2>1. 1 \in 1 .. 1 + size
    OBVIOUS
  <2>2. QED
    BY <1>2, <1>3, <1>5, <2>1
<1>7. ASSUME NEW j \in 1 .. size PROVE b[2 + j - 1] = t[j]
  <2>1. /\ 2 + j - 1 \in 1 .. 1 + size /\ ~ (2 + j - 1 <= 1)
        /\ (2 + j - 1) - 1 = j
    OBVIOUS
  <2>2. QED
    BY <1>3, <1>5, <2>1
<1>8. BytesAt(b, 2, n, size)
  BY <1>1, <1>7, Zenon DEF BytesAt
<1>9. QED
  BY <1>5, <1>6, <1>8

LEMMA TwoThenBytes ==
  ASSUME NEW s, s \in Seq(Int), Len(s) = 2, NEW n \in Int, NEW size \in 1 .. 4,
         NEW b, StartsWith(b, s \o Assembly!Bytes(n, size))
  PROVE  /\ b \in Seq(Octet)
         /\ Len(b) >= 2 + size
         /\ b[1] = s[1]
         /\ b[2] = s[2]
         /\ BytesAt(b, 3, n, size)
<1>1. PICK t \in Seq(Int) : t = Assembly!Bytes(n, size) /\ Len(t) = size
  BY BytesAreOctets
<1>2. s \in Seq(Int) /\ Len(s) = 2
  OBVIOUS
<1>3. /\ Len(s \o t) = 2 + size
      /\ \A j \in 1 .. 2 + size : (s \o t)[j] = IF j <= 2 THEN s[j] ELSE t[j - 2]
  <2>1. /\ Len(s \o t) = Len(s) + Len(t)
        /\ \A j \in 1 .. Len(s) + Len(t) :
             (s \o t)[j] = IF j <= Len(s) THEN s[j] ELSE t[j - Len(s)]
    BY <1>1, <1>2, ConcatProperties
  <2>2. QED
    BY <1>1, <1>2, <2>1
<1>4. StartsWith(b, s \o t)
  BY <1>1, Zenon
<1>5. b \in Seq(Octet) /\ Len(b) >= 2 + size /\ \A j \in 1 .. 2 + size : b[j] = (s \o t)[j]
  BY <1>3, <1>4 DEF StartsWith
<1>6. b[1] = s[1] /\ b[2] = s[2]
  <2>1. 1 \in 1 .. 2 + size /\ 2 \in 1 .. 2 + size
    OBVIOUS
  <2>2. QED
    <3>1. 1 <= 2 /\ 2 <= 2
      OBVIOUS
    <3>2. (s \o t)[1] = s[1] /\ (s \o t)[2] = s[2]
      BY <1>3, <2>1, <3>1, Zenon
    <3>3. b[1] = (s \o t)[1] /\ b[2] = (s \o t)[2]
      BY <1>5, <2>1, Zenon
    <3>4. QED
      BY <3>2, <3>3, Zenon
<1>7. ASSUME NEW j \in 1 .. size PROVE b[3 + j - 1] = t[j]
  <2>1. /\ 3 + j - 1 \in 1 .. 2 + size /\ ~ (3 + j - 1 <= 2)
        /\ (3 + j - 1) - 2 = j
    OBVIOUS
  <2>2. QED
    BY <1>3, <1>5, <2>1
<1>8. BytesAt(b, 3, n, size)
  BY <1>1, <1>7, Zenon DEF BytesAt
<1>9. QED
  BY <1>5, <1>6, <1>8

(* What follows an opcode.                                                 *)
LEMMA X86Sizes ==
  /\ \A x \in X86Backend!RegisterForms :
       X86Backend!HasModRm(x) /\ X86Backend!ModRmSize(x) = 1 /\ X86Backend!ImmSize(x) = 0
  /\ /\ X86Backend!HasModRm(\h81) /\ X86Backend!ModRmSize(\h81) = 1
     /\ X86Backend!ImmSize(\h81) = X86RegSize
  /\ /\ X86Backend!HasModRm(\h83) /\ X86Backend!ModRmSize(\h83) = 1
     /\ X86Backend!ImmSize(\h83) = 1
  /\ \A x \in X86Backend!MovImm \union X86Backend!AccumulatorForms \union X86Backend!Rel32Forms :
       ~ X86Backend!HasModRm(x) /\ X86Backend!ModRmSize(x) = 0 /\ X86Backend!ImmSize(x) = X86RegSize
  /\ \A x \in X86Backend!Rel8Forms :
       ~ X86Backend!HasModRm(x) /\ X86Backend!ModRmSize(x) = 0 /\ X86Backend!ImmSize(x) = 1
  /\ ~ X86Backend!HasModRm(\hC3) /\ X86Backend!ModRmSize(\hC3) = 0 /\ X86Backend!ImmSize(\hC3) = 0
  BY DEF X86Backend!RegisterForms, X86Backend!HasModRm, X86Backend!ModRmSize, X86Backend!ImmSize,
         X86Backend!MovImm, X86Backend!AccumulatorForms, X86Backend!Rel32Forms,
         X86Backend!Rel8Forms, X86Backend!Group1

(* The bytes of an instruction of the subset decode.                       *)
LEMMA X86Reads ==
  ASSUME NEW b \in Seq(Octet), NEW x \in X86Backend!Opcodes, b[1] = x,
         NEW length \in Nat, length = 1 + X86Backend!ModRmSize(x) + X86Backend!ImmSize(x),
         1 <= length, length <= Len(b),
         X86Backend!HasModRm(x) => X86Backend!Mode(b[2]) = 3 /\ 2 <= Len(b),
         x \in X86Backend!Group1 => X86Backend!RegField(b[2]) \in {0, 7}
  PROVE  X86Backend!DecodeOne(b) = Decoded(X86Backend!Instruction(b), length)
<1>1. b # <<>> /\ ~ (X86Backend!HasModRm(x) /\ Len(b) = 1)
  OBVIOUS
<1>2. X86Backend!Length(x) = length /\ ~ (Len(b) < length)
  BY DEF X86Backend!Length
<1>3. ~ (X86Backend!HasModRm(x) /\ X86Backend!Mode(b[2]) # 3)
  OBVIOUS
<1>4. X86Backend!DecodeOne(b) = X86Backend!Decoded(X86Backend!Instruction(b), length)
  BY <1>1, <1>2, <1>3 DEF X86Backend!DecodeOne
<1>5. QED
  BY <1>4 DEF X86Backend!Decoded, Decoded

(* An immediate or displacement of size bytes reads as n.                  *)
ReadsAs(imm, n, size) ==
  /\ imm \in Int /\ imm % 256^size = n % 256^size
  /\ -(256^size) <= 2 * n /\ 2 * n < 256^size => imm = n

LEMMA LittleEndianAt ==
  ASSUME NEW n \in Int, NEW size \in 1 .. 4, NEW b, NEW first \in Nat,
         BytesAt(b, first, n, size)
  PROVE  LittleEndian(b, first, size) = n % 256^size
  BY LittleEndianOfBytes DEF BytesAt

LEMMA SignedOfLittleEndian ==
  ASSUME NEW n \in Int, NEW size \in 1 .. 4, NEW b, NEW first \in Nat,
         BytesAt(b, first, n, size)
  PROVE  ReadsAs(AsSigned(LittleEndian(b, first, size), size), n, size)
<1>1. LittleEndian(b, first, size) = n % 256^size
  BY LittleEndianAt
<1>2. ReadsAs(AsSigned(n % 256^size, size), n, size)
  BY SignedOfBytes, Zenon DEF ReadsAs
<1>3. QED
  BY <1>1, <1>2, Zenon

LEMMA X86ImmediateIs ==
  ASSUME NEW b, NEW size \in 1 .. 4, size = X86Backend!ImmSize(b[1]),
         NEW first \in Nat, first = 2 + X86Backend!ModRmSize(b[1]),
         NEW n \in Int, BytesAt(b, first, n, size)
  PROVE  ReadsAs(X86Backend!Immediate(b), n, size)
<1>1. X86Backend!Immediate(b) =
        AsSigned(LittleEndian(b, 2 + X86Backend!ModRmSize(b[1]), X86Backend!ImmSize(b[1])),
                 X86Backend!ImmSize(b[1]))
  BY Zenon DEF X86Backend!Immediate, X86Backend!AsSigned, AsSigned,
               X86Backend!LittleEndian, LittleEndian
<1>2. X86Backend!Immediate(b) = AsSigned(LittleEndian(b, first, size), size)
  BY <1>1, Zenon
<1>3. ReadsAs(AsSigned(LittleEndian(b, first, size), size), n, size)
  BY SignedOfLittleEndian
<1>4. QED
  BY <1>2, <1>3, Zenon

LEMMA ModRmFields ==
  ASSUME NEW reg \in Gpr, NEW rm \in Gpr
  PROVE  LET x == Assembly!ModRm(reg, rm)
         IN  /\ x \in Int /\ X86Backend!Mode(x) = 3
             /\ X86Backend!RegField(x) = reg /\ X86Backend!RmField(x) = rm
<1>1. PICK x \in Int : x = 192 + 8 * reg + rm /\ reg \in 0 .. 7 /\ rm \in 0 .. 7
  BY DEF Gpr
<1>2. x \div 64 = 3 /\ (x \div 8) % 8 = reg /\ x % 8 = rm
  BY <1>1
<1>3. Assembly!ModRm(reg, rm) = x
  BY <1>1 DEF Assembly!ModRm
<1>4. QED
  BY <1>2, <1>3 DEF X86Backend!Mode, X86Backend!RegField, X86Backend!RmField

LEMMA X86RegisterForm ==
  ASSUME NEW x \in {\h89, \h8B, \h01, \h39}, NEW reg \in Gpr, NEW rm \in Gpr,
         NEW b, StartsWith(b, <<x, Assembly!ModRm(reg, rm)>>)
  PROVE  X86Backend!DecodeOne(b) =
           Decoded(CASE x = \h89 -> X86Backend!RegReg("MovRegReg", rm, reg)
                     [] x = \h8B -> X86Backend!RegReg("MovRegReg", reg, rm)
                     [] x = \h01 -> X86Backend!RegReg("AddRegReg", rm, reg)
                     [] x = \h39 -> X86Backend!RegReg("CmpRegReg", rm, reg), 2)
<1>1. b \in Seq(Octet) /\ Len(b) >= 2 /\ b[1] = x /\ b[2] = Assembly!ModRm(reg, rm)
  BY TwoBytes
<1>2. /\ X86Backend!Mode(b[2]) = 3
      /\ X86Backend!RegField(b[2]) = reg /\ X86Backend!RmField(b[2]) = rm
  BY <1>1, ModRmFields
<1>3. X86Backend!DecodeOne(b) = Decoded(X86Backend!Instruction(b), 2)
  <2>1. x \in X86Backend!RegisterForms /\ x \in X86Backend!Opcodes /\ x \notin X86Backend!Group1
    BY DEF X86Backend!RegisterForms, X86Backend!Opcodes, X86Backend!Group1
  <2>2. X86Backend!ModRmSize(x) = 1 /\ X86Backend!ImmSize(x) = 0
    BY <2>1, X86Sizes
  <2>3. 2 = 1 + X86Backend!ModRmSize(x) + X86Backend!ImmSize(x) /\ 1 <= 2 /\ 2 \in Nat /\ 2 <= Len(b)
    BY <1>1, <2>2
  <2>4. QED
    BY <1>1, <1>2, <2>1, <2>3, X86Reads
<1>4. CASE x = \h89
  <2>1. X86Backend!Instruction(b) = X86Backend!RegReg("MovRegReg", rm, reg)
    BY <1>1, <1>2, <1>4 DEF X86Backend!Instruction, X86Backend!MovImm, X86Backend!Group1
  <2>2. QED
    BY <1>3, <1>4, <2>1
<1>5. CASE x = \h8B
  <2>1. X86Backend!Instruction(b) = X86Backend!RegReg("MovRegReg", reg, rm)
    BY <1>1, <1>2, <1>5 DEF X86Backend!Instruction, X86Backend!MovImm, X86Backend!Group1
  <2>2. QED
    BY <1>3, <1>5, <2>1
<1>6. CASE x = \h01
  <2>1. X86Backend!Instruction(b) = X86Backend!RegReg("AddRegReg", rm, reg)
    BY <1>1, <1>2, <1>6 DEF X86Backend!Instruction, X86Backend!MovImm, X86Backend!Group1
  <2>2. QED
    BY <1>3, <1>6, <2>1
<1>7. CASE x = \h39
  <2>1. X86Backend!Instruction(b) = X86Backend!RegReg("CmpRegReg", rm, reg)
    BY <1>1, <1>2, <1>7 DEF X86Backend!Instruction, X86Backend!MovImm, X86Backend!Group1
  <2>2. QED
    BY <1>3, <1>7, <2>1
<1>8. QED
  BY <1>4, <1>5, <1>6, <1>7

LEMMA X86Group1Form ==
  ASSUME NEW x \in {\h81, \h83}, NEW size \in 1 .. 4, size = X86Backend!ImmSize(x),
         NEW reg \in {0, 7}, NEW rm \in Gpr, NEW n \in Int,
         NEW b, StartsWith(b, <<x, Assembly!ModRm(reg, rm)>> \o Assembly!Bytes(n, size))
  PROVE  \E imm \in Int :
           /\ ReadsAs(imm, n, size)
           /\ X86Backend!DecodeOne(b) =
                Decoded(X86Backend!RegImm(IF reg = 0 THEN "AddRegImm" ELSE "CmpRegImm", rm, imm),
                        2 + size)
<1>1. PICK y \in Int : /\ y = Assembly!ModRm(reg, rm) /\ X86Backend!Mode(y) = 3
                       /\ X86Backend!RegField(y) = reg /\ X86Backend!RmField(y) = rm
  <2>1. reg \in Gpr
    BY DEF Gpr
  <2>2. QED
    BY <2>1, ModRmFields
<1>2. /\ b \in Seq(Octet) /\ Len(b) >= 2 + size /\ b[1] = x /\ b[2] = y
      /\ BytesAt(b, 3, n, size)
  <2>1. PICK s : s = <<x, y>> /\ s \in Seq(Int) /\ Len(s) = 2 /\ s[1] = x /\ s[2] = y
    <3>1. <<x, y>> \in Seq(Int) /\ Len(<<x, y>>) = 2 /\ <<x, y>>[1] = x /\ <<x, y>>[2] = y
      OBVIOUS
    <3>2. QED
      BY <3>1, Zenon
  <2>2. StartsWith(b, s \o Assembly!Bytes(n, size))
    BY <1>1, <2>1, Zenon
  <2>3. /\ b \in Seq(Octet) /\ Len(b) >= 2 + size /\ b[1] = s[1] /\ b[2] = s[2]
        /\ BytesAt(b, 3, n, size)
    <3>1. s \in Seq(Int) /\ Len(s) = 2 /\ n \in Int /\ size \in 1 .. 4
      BY <2>1
    <3>2. QED
      BY <2>2, <3>1, TwoThenBytes
  <2>4. QED
    BY <2>1, <2>3, Zenon
<1>3. PICK imm : imm = X86Backend!Immediate(b)
  OBVIOUS
<1>4. X86Backend!HasModRm(x) /\ X86Backend!ModRmSize(x) = 1
  BY X86Sizes
<1>5. ReadsAs(imm, n, size)
  <2>1. 3 \in Nat /\ 3 = 2 + X86Backend!ModRmSize(b[1]) /\ size = X86Backend!ImmSize(b[1])
    BY <1>2, <1>4
  <2>2. ReadsAs(X86Backend!Immediate(b), n, size)
    BY <1>2, <2>1, X86ImmediateIs
  <2>3. QED
    BY <1>3, <2>2
<1>6. X86Backend!DecodeOne(b) = Decoded(X86Backend!Instruction(b), 2 + size)
  <2>1. x \in X86Backend!Opcodes
    BY DEF X86Backend!Opcodes, X86Backend!Group1
  <2>2. 2 + size \in Nat /\ 1 <= 2 + size /\ 2 + size = 1 + X86Backend!ModRmSize(x) + X86Backend!ImmSize(x)
    BY <1>4
  <2>3. 2 <= Len(b) /\ 2 + size <= Len(b)
    BY <1>2
  <2>4. QED
    BY <1>1, <1>2, <1>4, <2>1, <2>2, <2>3, X86Reads
<1>7. X86Backend!Instruction(b) =
        X86Backend!RegImm(IF reg = 0 THEN "AddRegImm" ELSE "CmpRegImm", rm, imm)
  BY <1>1, <1>2, <1>3 DEF X86Backend!Instruction, X86Backend!MovImm, X86Backend!Group1
<1>8. imm \in Int
  BY <1>5 DEF ReadsAs
<1>9. QED
  BY <1>5, <1>6, <1>7, <1>8

(* The instruction of an opcode that only an immediate or displacement     *)
(* follows.                                                                *)
ByOpcode(x, imm) ==
  CASE x \in X86Backend!MovImm -> X86Backend!RegImm("MovRegImm", x - \hB8, imm)
    [] x = \h05 -> X86Backend!RegImm("AddRegImm", 0, imm)
    [] x = \h3D -> X86Backend!RegImm("CmpRegImm", 0, imm)
    [] x \in {\hEB, \hE9} -> X86Backend!Relative("Jmp", imm)
    [] x = \h74 -> X86Backend!Relative("Je", imm)
    [] x = \h75 -> X86Backend!Relative("Jne", imm)
    [] x = \hE8 -> X86Backend!Relative("Call", imm)

LEMMA X86ImmediateForm ==
  ASSUME NEW x \in X86Backend!MovImm \union X86Backend!AccumulatorForms
                     \union X86Backend!Rel32Forms \union X86Backend!Rel8Forms,
         NEW size \in 1 .. 4, size = X86Backend!ImmSize(x), NEW n \in Int,
         NEW b, StartsWith(b, <<x>> \o Assembly!Bytes(n, size))
  PROVE  \E imm \in Int :
           /\ ReadsAs(imm, n, size)
           /\ X86Backend!DecodeOne(b) =
                Decoded(ByOpcode(x, imm), 1 + size)
<1>1. x \in Int /\ x \notin X86Backend!Group1
  BY DEF X86Backend!MovImm, X86Backend!AccumulatorForms, X86Backend!Rel32Forms,
         X86Backend!Rel8Forms, X86Backend!Group1
<1>2. /\ b \in Seq(Octet) /\ Len(b) >= 1 + size /\ b[1] = x
      /\ BytesAt(b, 2, n, size)
  BY <1>1, OneThenBytes
<1>3. PICK imm : imm = X86Backend!Immediate(b)
  OBVIOUS
<1>4. ~ X86Backend!HasModRm(x) /\ X86Backend!ModRmSize(x) = 0
  BY X86Sizes
<1>5. ReadsAs(imm, n, size)
  <2>1. 2 \in Nat /\ 2 = 2 + X86Backend!ModRmSize(b[1]) /\ size = X86Backend!ImmSize(b[1])
    BY <1>2, <1>4
  <2>2. ReadsAs(X86Backend!Immediate(b), n, size)
    BY <1>2, <2>1, X86ImmediateIs
  <2>3. QED
    BY <1>3, <2>2
<1>6. X86Backend!DecodeOne(b) = Decoded(X86Backend!Instruction(b), 1 + size)
  <2>1. x \in X86Backend!Opcodes
    BY DEF X86Backend!Opcodes
  <2>2. 1 + size \in Nat /\ 1 <= 1 + size /\ 1 + size = 1 + X86Backend!ModRmSize(x) + X86Backend!ImmSize(x)
    BY <1>4
  <2>3. 1 + size <= Len(b)
    BY <1>2
  <2>4. QED
    BY <1>1, <1>2, <1>4, <2>1, <2>2, <2>3, X86Reads
<1>7. X86Backend!Instruction(b) = ByOpcode(x, imm)
  <2>1. CASE x \in X86Backend!MovImm
    <3>1. x \notin {\h89, \h8B, \h01, \h39, \h05, \h3D, \hEB, \hE9, \h74, \h75, \hE8, \hC3}
      BY <2>1, MovImmIsNoOther
    <3>2. QED
      BY <1>1, <1>2, <1>3, <2>1, <3>1 DEF ByOpcode, X86Backend!Instruction
  <2>2. CASE x = \h05
    BY <1>1, <1>2, <1>3, <2>2 DEF ByOpcode, X86Backend!Instruction, X86Backend!MovImm
  <2>3. CASE x = \h3D
    BY <1>1, <1>2, <1>3, <2>3 DEF ByOpcode, X86Backend!Instruction, X86Backend!MovImm
  <2>4. CASE x = \hEB
    BY <1>1, <1>2, <1>3, <2>4 DEF ByOpcode, X86Backend!Instruction, X86Backend!MovImm
  <2>5. CASE x = \hE9
    BY <1>1, <1>2, <1>3, <2>5 DEF ByOpcode, X86Backend!Instruction, X86Backend!MovImm
  <2>6. CASE x = \h74
    BY <1>1, <1>2, <1>3, <2>6 DEF ByOpcode, X86Backend!Instruction, X86Backend!MovImm
  <2>7. CASE x = \h75
    BY <1>1, <1>2, <1>3, <2>7 DEF ByOpcode, X86Backend!Instruction, X86Backend!MovImm
  <2>8. CASE x = \hE8
    BY <1>1, <1>2, <1>3, <2>8 DEF ByOpcode, X86Backend!Instruction, X86Backend!MovImm
  <2>9. QED
    BY <2>1, <2>2, <2>3, <2>4, <2>5, <2>6, <2>7, <2>8
    DEF X86Backend!AccumulatorForms, X86Backend!Rel32Forms, X86Backend!Rel8Forms
<1>8. imm \in Int
  BY <1>5 DEF ReadsAs
<1>9. QED
  BY <1>5, <1>6, <1>7, <1>8

(* The x86 instructions of the assembly language: the operands have the    *)
(* forms that an encoding is given for, and the jumps the reach.           *)
X86Instruction(instr, disp) ==
  \/ \E d, s \in Gpr :
       instr \in {Assembly!Mov(d, Assembly!R(s), "store"), Assembly!Mov(d, Assembly!R(s), "load"),
                 Assembly!Add(d, Assembly!R(d), Assembly!R(s), "store"),
                 Assembly!Cmp(Assembly!R(d), Assembly!R(s), "store")}
  \/ \E d \in Gpr, n \in Int :
       instr \in {Assembly!Mov(d, Assembly!I(n), "acc"),
                 Assembly!Add(d, Assembly!R(d), Assembly!I(n), "imm"),
                 Assembly!Cmp(Assembly!R(d), Assembly!I(n), "imm")}
  \/ \E d \in Gpr, n \in -128 .. 127 :
       instr \in {Assembly!Add(d, Assembly!R(d), Assembly!I(n), "imm8"),
                 Assembly!Cmp(Assembly!R(d), Assembly!I(n), "imm8")}
  \/ \E n \in Int :
       instr \in {Assembly!Add(0, Assembly!R(0), Assembly!I(n), "acc"),
                 Assembly!Cmp(Assembly!R(0), Assembly!I(n), "acc")}
  \/ /\ disp \in -128 .. 127
     /\ \E when \in {"always", "equal", "unequal"} : \E to : instr = Assembly!Jump(when, to, "short")
  \/ /\ disp \in Int /\ -(256^X86RegSize) <= 2 * disp /\ 2 * disp < 256^X86RegSize
     /\ \E to : instr \in {Assembly!Jump("always", to, "near"), Assembly!CallTo(to)}
  \/ instr = Assembly!Ret

(* The bytes decode to what the instruction is, with its length.           *)
X86DecodesTo(b, instr, disp) ==
  \E d : /\ X86Backend!DecodeOne(b) = Decoded(d, Assembly!X86Length(instr, X86RegSize))
         /\ X86Denotes(d, instr, disp)


LEMMA X86DecodesRegisters ==
  ASSUME NEW d \in Gpr, NEW s \in Gpr, NEW disp,
         NEW instr \in {Assembly!Mov(d, Assembly!R(s), "store"), Assembly!Mov(d, Assembly!R(s), "load"),
                       Assembly!Add(d, Assembly!R(d), Assembly!R(s), "store"),
                       Assembly!Cmp(Assembly!R(d), Assembly!R(s), "store")},
         NEW b, StartsWith(b, Assembly!X86Encode(instr, disp, X86RegSize))
  PROVE  X86DecodesTo(b, instr, disp)
<1>1. CASE instr = Assembly!Mov(d, Assembly!R(s), "store")
  <2>1. Assembly!X86Encode(instr, disp, X86RegSize) = <<\h89, Assembly!ModRm(s, d)>>
    BY <1>1 DEF Assembly!X86Encode, Assembly!Mov, Assembly!R
  <2>2. Assembly!X86Length(instr, X86RegSize) = 2
    BY <1>1 DEF Assembly!X86Length, Assembly!Mov
  <2>3. PICK e : e = X86Backend!RegReg("MovRegReg", d, s) /\ X86Backend!DecodeOne(b) = Decoded(e, 2)
    <3>1. StartsWith(b, <<\h89, Assembly!ModRm(s, d)>>)
      BY <2>1
    <3>2. QED
      BY <3>1, X86RegisterForm
  <2>4. X86Denotes(e, instr, disp)
    BY <1>1, <2>3 DEF X86Denotes, X86Source, X86Backend!RegReg, Assembly!Mov
  <2>5. QED
    BY <2>2, <2>3, <2>4 DEF X86DecodesTo
<1>2. CASE instr = Assembly!Mov(d, Assembly!R(s), "load")
  <2>1. Assembly!X86Encode(instr, disp, X86RegSize) = <<\h8B, Assembly!ModRm(d, s)>>
    BY <1>2 DEF Assembly!X86Encode, Assembly!Mov, Assembly!R
  <2>2. Assembly!X86Length(instr, X86RegSize) = 2
    BY <1>2 DEF Assembly!X86Length, Assembly!Mov
  <2>3. PICK e : e = X86Backend!RegReg("MovRegReg", d, s) /\ X86Backend!DecodeOne(b) = Decoded(e, 2)
    <3>1. StartsWith(b, <<\h8B, Assembly!ModRm(d, s)>>)
      BY <2>1
    <3>2. QED
      BY <3>1, X86RegisterForm
  <2>4. X86Denotes(e, instr, disp)
    BY <1>2, <2>3 DEF X86Denotes, X86Source, X86Backend!RegReg, Assembly!Mov
  <2>5. QED
    BY <2>2, <2>3, <2>4 DEF X86DecodesTo
<1>3. CASE instr = Assembly!Add(d, Assembly!R(d), Assembly!R(s), "store")
  <2>1. Assembly!X86Encode(instr, disp, X86RegSize) = <<\h01, Assembly!ModRm(s, d)>>
    BY <1>3 DEF Assembly!X86Encode, Assembly!Add, Assembly!R
  <2>2. Assembly!X86Length(instr, X86RegSize) = 2
    BY <1>3 DEF Assembly!X86Length, Assembly!Add
  <2>3. PICK e : e = X86Backend!RegReg("AddRegReg", d, s) /\ X86Backend!DecodeOne(b) = Decoded(e, 2)
    <3>1. StartsWith(b, <<\h01, Assembly!ModRm(s, d)>>)
      BY <2>1
    <3>2. QED
      BY <3>1, X86RegisterForm
  <2>4. X86Denotes(e, instr, disp)
    BY <1>3, <2>3 DEF X86Denotes, X86Source, X86Backend!RegReg, Assembly!Add
  <2>5. QED
    BY <2>2, <2>3, <2>4 DEF X86DecodesTo
<1>4. CASE instr = Assembly!Cmp(Assembly!R(d), Assembly!R(s), "store")
  <2>1. Assembly!X86Encode(instr, disp, X86RegSize) = <<\h39, Assembly!ModRm(s, d)>>
    BY <1>4 DEF Assembly!X86Encode, Assembly!Cmp, Assembly!R
  <2>2. Assembly!X86Length(instr, X86RegSize) = 2
    BY <1>4 DEF Assembly!X86Length, Assembly!Cmp
  <2>3. PICK e : e = X86Backend!RegReg("CmpRegReg", d, s) /\ X86Backend!DecodeOne(b) = Decoded(e, 2)
    <3>1. StartsWith(b, <<\h39, Assembly!ModRm(s, d)>>)
      BY <2>1
    <3>2. QED
      BY <3>1, X86RegisterForm
  <2>4. X86Denotes(e, instr, disp)
    BY <1>4, <2>3 DEF X86Denotes, X86Source, X86Backend!RegReg, Assembly!Cmp
  <2>5. QED
    BY <2>2, <2>3, <2>4 DEF X86DecodesTo
<1>5. QED
  BY <1>1, <1>2, <1>3, <1>4

(* The immediate that is read stands for the operand.                      *)
LEMMA ReadsAsOperand ==
  ASSUME NEW imm, NEW n \in Int, NEW size \in 1 .. 4, ReadsAs(imm, n, size),
         size = X86RegSize \/ (size = 1 /\ n \in -128 .. 127)
  PROVE  imm \in Int /\ imm % 256^X86RegSize = n % 256^X86RegSize
<1>1. CASE size = X86RegSize
  BY <1>1, Zenon DEF ReadsAs
<1>2. CASE size = 1 /\ n \in -128 .. 127
  <2>1. -(256^1) <= 2 * n /\ 2 * n < 256^1
    BY <1>2, PowersOf256
  <2>2. imm = n
    BY <1>2, <2>1, Zenon DEF ReadsAs
  <2>3. QED
    BY <2>2
<1>3. QED
  BY <1>1, <1>2

LEMMA X86DecodesGroup1 ==
  ASSUME NEW d \in Gpr, NEW n \in Int, NEW form \in {"imm", "imm8"},
         form = "imm8" => n \in -128 .. 127, NEW disp,
         NEW instr \in {Assembly!Add(d, Assembly!R(d), Assembly!I(n), form),
                       Assembly!Cmp(Assembly!R(d), Assembly!I(n), form)},
         NEW b, StartsWith(b, Assembly!X86Encode(instr, disp, X86RegSize))
  PROVE  X86DecodesTo(b, instr, disp)
<1>1. PICK x, size : /\ x = (IF form = "imm8" THEN \h83 ELSE \h81)
                     /\ size = (IF form = "imm8" THEN 1 ELSE X86RegSize)
  OBVIOUS
<1>2. size \in 1 .. 4 /\ (size = X86RegSize \/ (size = 1 /\ n \in -128 .. 127))
  BY <1>1, SizeAssumption
<1>3. x \in {\h81, \h83} /\ size = X86Backend!ImmSize(x)
  BY <1>1, X86Sizes
<1>4. ASSUME NEW reg \in {0, 7}, NEW op, op = (IF reg = 0 THEN "AddRegImm" ELSE "CmpRegImm"),
             StartsWith(b, <<x, Assembly!ModRm(reg, d)>> \o Assembly!Bytes(n, size))
      PROVE  \E e : /\ e = X86Backend!RegImm(op, d, e.imm)
                    /\ e.imm \in Int /\ e.imm % 256^X86RegSize = n % 256^X86RegSize
                    /\ X86Backend!DecodeOne(b) = Decoded(e, 2 + size)
  <2>1. PICK imm \in Int : /\ ReadsAs(imm, n, size)
                           /\ X86Backend!DecodeOne(b) = Decoded(X86Backend!RegImm(op, d, imm), 2 + size)
    BY <1>2, <1>3, <1>4, X86Group1Form
  <2>2. imm % 256^X86RegSize = n % 256^X86RegSize
    BY <1>2, <2>1, ReadsAsOperand
  <2>3. X86Backend!RegImm(op, d, imm).imm = imm
    BY DEF X86Backend!RegImm
  <2>4. QED
    BY <2>1, <2>2, <2>3, Zenon
<1>5. CASE instr = Assembly!Add(d, Assembly!R(d), Assembly!I(n), form)
  <2>1. Assembly!X86Encode(instr, disp, X86RegSize) = <<x, Assembly!ModRm(0, d)>> \o Assembly!Bytes(n, size)
    <3>1. Assembly!X86Encode(instr, disp, X86RegSize) = Assembly!X86Group1(0, d, n, form, X86RegSize)
      BY <1>5 DEF Assembly!X86Encode, Assembly!Add, Assembly!R, Assembly!I
    <3>2. QED
      BY <1>1, <3>1, Zenon DEF Assembly!X86Group1
  <2>2. Assembly!X86Length(instr, X86RegSize) = 2 + size
    <3>1. instr.form = form
      BY <1>5 DEF Assembly!Add
    <3>2. CASE form = "imm8"
      BY <1>1, <3>1, <3>2 DEF Assembly!X86Length
    <3>3. CASE form = "imm"
      BY <1>1, <3>1, <3>3 DEF Assembly!X86Length
    <3>4. QED
      BY <3>2, <3>3
  <2>3. PICK e : /\ e = X86Backend!RegImm("AddRegImm", d, e.imm)
                 /\ e.imm \in Int /\ e.imm % 256^X86RegSize = n % 256^X86RegSize
                 /\ X86Backend!DecodeOne(b) = Decoded(e, 2 + size)
    <3>1. StartsWith(b, <<x, Assembly!ModRm(0, d)>> \o Assembly!Bytes(n, size))
      BY <2>1
    <3>2. 0 \in {0, 7} /\ "AddRegImm" = (IF 0 = 0 THEN "AddRegImm" ELSE "CmpRegImm")
      OBVIOUS
    <3>3. QED
      BY <1>4, <3>1, <3>2
  <2>4. e.op = "AddRegImm" /\ e.dst = d
    BY <2>3 DEF X86Backend!RegImm
  <2>5. X86Denotes(e, instr, disp)
    <3>1. instr.op = "add" /\ instr.lhs = Assembly!R(d) /\ instr.rhs = Assembly!I(n) /\ instr.dst = d
      BY <1>5 DEF Assembly!Add
    <3>2. X86Source(e, instr.rhs, "AddRegReg", "AddRegImm")
      BY <2>3, <2>4, <3>1, Zenon DEF X86Source
    <3>3. QED
      BY <2>4, <3>1, <3>2, Zenon DEF X86Denotes
  <2>6. QED
    BY <2>2, <2>3, <2>5 DEF X86DecodesTo
<1>6. CASE instr = Assembly!Cmp(Assembly!R(d), Assembly!I(n), form)
  <2>1. Assembly!X86Encode(instr, disp, X86RegSize) = <<x, Assembly!ModRm(7, d)>> \o Assembly!Bytes(n, size)
    <3>1. Assembly!X86Encode(instr, disp, X86RegSize) = Assembly!X86Group1(7, d, n, form, X86RegSize)
      BY <1>6 DEF Assembly!X86Encode, Assembly!Cmp, Assembly!R, Assembly!I
    <3>2. QED
      BY <1>1, <3>1, Zenon DEF Assembly!X86Group1
  <2>2. Assembly!X86Length(instr, X86RegSize) = 2 + size
    <3>1. instr.form = form
      BY <1>6 DEF Assembly!Cmp
    <3>2. CASE form = "imm8"
      BY <1>1, <3>1, <3>2 DEF Assembly!X86Length
    <3>3. CASE form = "imm"
      BY <1>1, <3>1, <3>3 DEF Assembly!X86Length
    <3>4. QED
      BY <3>2, <3>3
  <2>3. PICK e : /\ e = X86Backend!RegImm("CmpRegImm", d, e.imm)
                 /\ e.imm \in Int /\ e.imm % 256^X86RegSize = n % 256^X86RegSize
                 /\ X86Backend!DecodeOne(b) = Decoded(e, 2 + size)
    <3>1. StartsWith(b, <<x, Assembly!ModRm(7, d)>> \o Assembly!Bytes(n, size))
      BY <2>1
    <3>2. 7 \in {0, 7} /\ "CmpRegImm" = (IF 7 = 0 THEN "AddRegImm" ELSE "CmpRegImm")
      OBVIOUS
    <3>3. QED
      BY <1>4, <3>1, <3>2
  <2>4. e.op = "CmpRegImm" /\ e.dst = d
    BY <2>3 DEF X86Backend!RegImm
  <2>5. X86Denotes(e, instr, disp)
    <3>1. instr.op = "cmp" /\ instr.lhs = Assembly!R(d) /\ instr.rhs = Assembly!I(n)
      BY <1>6 DEF Assembly!Cmp
    <3>2. X86Source(e, instr.rhs, "CmpRegReg", "CmpRegImm")
      BY <2>3, <2>4, <3>1, Zenon DEF X86Source
    <3>3. QED
      BY <2>4, <3>1, <3>2, Zenon DEF X86Denotes
  <2>6. QED
    BY <2>2, <2>3, <2>5 DEF X86DecodesTo
<1>7. QED
  BY <1>5, <1>6

(* Moves of an immediate operand and the short forms for the accumulator.  *)
LEMMA X86DecodesImmediates ==
  ASSUME NEW d \in Gpr, NEW n \in Int, NEW disp,
         NEW instr,
         \/ instr = Assembly!Mov(d, Assembly!I(n), "acc")
         \/ d = 0 /\ instr \in {Assembly!Add(0, Assembly!R(0), Assembly!I(n), "acc"),
                                Assembly!Cmp(Assembly!R(0), Assembly!I(n), "acc")},
         NEW b, StartsWith(b, Assembly!X86Encode(instr, disp, X86RegSize))
  PROVE  X86DecodesTo(b, instr, disp)
<1>1. X86RegSize \in 1 .. 4
  BY SizeAssumption
<1>2. CASE instr = Assembly!Mov(d, Assembly!I(n), "acc")
  <2>1. Assembly!X86Encode(instr, disp, X86RegSize) = <<\hB8 + d>> \o Assembly!Bytes(n, X86RegSize)
    BY <1>2 DEF Assembly!X86Encode, Assembly!Mov, Assembly!R, Assembly!I
  <2>2. Assembly!X86Length(instr, X86RegSize) = 1 + X86RegSize
    BY <1>2 DEF Assembly!X86Length, Assembly!Mov
  <2>3. PICK imm \in Int :
          /\ ReadsAs(imm, n, X86RegSize)
          /\ X86Backend!DecodeOne(b) = Decoded(X86Backend!RegImm("MovRegImm", d, imm), 1 + X86RegSize)
    <3>1. PICK x : x = \hB8 + d /\ StartsWith(b, <<x>> \o Assembly!Bytes(n, X86RegSize))
      BY <2>1, Zenon
    <3>2. /\ x \in X86Backend!MovImm \union X86Backend!AccumulatorForms
                     \union X86Backend!Rel32Forms \union X86Backend!Rel8Forms
          /\ X86RegSize = X86Backend!ImmSize(x)
      <4>1. x \in X86Backend!MovImm \union X86Backend!AccumulatorForms
        BY <3>1 DEF X86Backend!MovImm, X86Backend!AccumulatorForms, Gpr
      <4>2. QED
        BY <4>1, X86Sizes
    <3>3. PICK imm \in Int :
            /\ ReadsAs(imm, n, X86RegSize)
            /\ X86Backend!DecodeOne(b) = Decoded(ByOpcode(x, imm), 1 + X86RegSize)
      <4>1. StartsWith(b, <<x>> \o Assembly!Bytes(n, X86RegSize))
        BY <3>1
      <4>2. QED
        BY <1>1, <3>2, <4>1, X86ImmediateForm
    <3>4. QED
      BY <3>1, <3>3 DEF ByOpcode, X86Backend!MovImm, Gpr
  <2>4. PICK e : e = X86Backend!RegImm("MovRegImm", d, imm)
    OBVIOUS
  <2>5. e.op = "MovRegImm" /\ e.dst = d /\ e.imm = imm
    BY <2>4 DEF X86Backend!RegImm
  <2>6. X86Denotes(e, instr, disp)
    <3>1. instr.op = "mov" /\ instr.dst = d /\ instr.src = Assembly!I(n)
      BY <1>2 DEF Assembly!Mov
    <3>2. imm % 256^X86RegSize = n % 256^X86RegSize
      BY <1>1, <2>3, ReadsAsOperand
    <3>3. X86Source(e, instr.src, "MovRegReg", "MovRegImm")
      BY <2>3, <2>5, <3>1, <3>2, Zenon DEF X86Source
    <3>4. d \in Gpr
      BY DEF Gpr
    <3>5. QED
      BY <2>5, <3>1, <3>3, <3>4, Zenon DEF X86Denotes
  <2>7. QED
    BY <2>2, <2>3, <2>4, <2>6 DEF X86DecodesTo
<1>3. CASE instr = Assembly!Add(0, Assembly!R(0), Assembly!I(n), "acc")
  <2>1. Assembly!X86Encode(instr, disp, X86RegSize) = <<\h05>> \o Assembly!Bytes(n, X86RegSize)
    BY <1>3 DEF Assembly!X86Encode, Assembly!Add, Assembly!R, Assembly!I
  <2>2. Assembly!X86Length(instr, X86RegSize) = 1 + X86RegSize
    BY <1>3 DEF Assembly!X86Length, Assembly!Add
  <2>3. PICK imm \in Int :
          /\ ReadsAs(imm, n, X86RegSize)
          /\ X86Backend!DecodeOne(b) = Decoded(X86Backend!RegImm("AddRegImm", 0, imm), 1 + X86RegSize)
    <3>1. PICK x : x = \h05 /\ StartsWith(b, <<x>> \o Assembly!Bytes(n, X86RegSize))
      BY <2>1, Zenon
    <3>2. /\ x \in X86Backend!MovImm \union X86Backend!AccumulatorForms
                     \union X86Backend!Rel32Forms \union X86Backend!Rel8Forms
          /\ X86RegSize = X86Backend!ImmSize(x)
      <4>1. x \in X86Backend!MovImm \union X86Backend!AccumulatorForms
        BY <3>1 DEF X86Backend!MovImm, X86Backend!AccumulatorForms, Gpr
      <4>2. QED
        BY <4>1, X86Sizes
    <3>3. PICK imm \in Int :
            /\ ReadsAs(imm, n, X86RegSize)
            /\ X86Backend!DecodeOne(b) = Decoded(ByOpcode(x, imm), 1 + X86RegSize)
      <4>1. StartsWith(b, <<x>> \o Assembly!Bytes(n, X86RegSize))
        BY <3>1
      <4>2. QED
        BY <1>1, <3>2, <4>1, X86ImmediateForm
    <3>4. QED
      BY <3>1, <3>3 DEF ByOpcode, X86Backend!MovImm, Gpr
  <2>4. PICK e : e = X86Backend!RegImm("AddRegImm", 0, imm)
    OBVIOUS
  <2>5. e.op = "AddRegImm" /\ e.dst = 0 /\ e.imm = imm
    BY <2>4 DEF X86Backend!RegImm
  <2>6. X86Denotes(e, instr, disp)
    <3>1. instr.op = "add" /\ instr.dst = 0 /\ instr.lhs = Assembly!R(0) /\ instr.rhs = Assembly!I(n)
      BY <1>3 DEF Assembly!Add
    <3>2. imm % 256^X86RegSize = n % 256^X86RegSize
      BY <1>1, <2>3, ReadsAsOperand
    <3>3. X86Source(e, instr.rhs, "AddRegReg", "AddRegImm")
      BY <2>3, <2>5, <3>1, <3>2, Zenon DEF X86Source
    <3>4. 0 \in Gpr
      BY DEF Gpr
    <3>5. QED
      BY <2>5, <3>1, <3>3, <3>4, Zenon DEF X86Denotes
  <2>7. QED
    BY <2>2, <2>3, <2>4, <2>6 DEF X86DecodesTo
<1>4. CASE instr = Assembly!Cmp(Assembly!R(0), Assembly!I(n), "acc")
  <2>1. Assembly!X86Encode(instr, disp, X86RegSize) = <<\h3D>> \o Assembly!Bytes(n, X86RegSize)
    BY <1>4 DEF Assembly!X86Encode, Assembly!Cmp, Assembly!R, Assembly!I
  <2>2. Assembly!X86Length(instr, X86RegSize) = 1 + X86RegSize
    BY <1>4 DEF Assembly!X86Length, Assembly!Cmp
  <2>3. PICK imm \in Int :
          /\ ReadsAs(imm, n, X86RegSize)
          /\ X86Backend!DecodeOne(b) = Decoded(X86Backend!RegImm("CmpRegImm", 0, imm), 1 + X86RegSize)
    <3>1. PICK x : x = \h3D /\ StartsWith(b, <<x>> \o Assembly!Bytes(n, X86RegSize))
      BY <2>1, Zenon
    <3>2. /\ x \in X86Backend!MovImm \union X86Backend!AccumulatorForms
                     \union X86Backend!Rel32Forms \union X86Backend!Rel8Forms
          /\ X86RegSize = X86Backend!ImmSize(x)
      <4>1. x \in X86Backend!MovImm \union X86Backend!AccumulatorForms
        BY <3>1 DEF X86Backend!MovImm, X86Backend!AccumulatorForms, Gpr
      <4>2. QED
        BY <4>1, X86Sizes
    <3>3. PICK imm \in Int :
            /\ ReadsAs(imm, n, X86RegSize)
            /\ X86Backend!DecodeOne(b) = Decoded(ByOpcode(x, imm), 1 + X86RegSize)
      <4>1. StartsWith(b, <<x>> \o Assembly!Bytes(n, X86RegSize))
        BY <3>1
      <4>2. QED
        BY <1>1, <3>2, <4>1, X86ImmediateForm
    <3>4. QED
      BY <3>1, <3>3 DEF ByOpcode, X86Backend!MovImm, Gpr
  <2>4. PICK e : e = X86Backend!RegImm("CmpRegImm", 0, imm)
    OBVIOUS
  <2>5. e.op = "CmpRegImm" /\ e.dst = 0 /\ e.imm = imm
    BY <2>4 DEF X86Backend!RegImm
  <2>6. X86Denotes(e, instr, disp)
    <3>1. instr.op = "cmp" /\ instr.lhs = Assembly!R(0) /\ instr.rhs = Assembly!I(n)
      BY <1>4 DEF Assembly!Cmp
    <3>2. imm % 256^X86RegSize = n % 256^X86RegSize
      BY <1>1, <2>3, ReadsAsOperand
    <3>3. X86Source(e, instr.rhs, "CmpRegReg", "CmpRegImm")
      BY <2>3, <2>5, <3>1, <3>2, Zenon DEF X86Source
    <3>4. 0 \in Gpr
      BY DEF Gpr
    <3>5. QED
      BY <2>5, <3>1, <3>3, <3>4, Zenon DEF X86Denotes
  <2>7. QED
    BY <2>2, <2>3, <2>4, <2>6 DEF X86DecodesTo
<1>5. QED
  BY <1>2, <1>3, <1>4

(* Jumps and calls.                                                        *)
LEMMA X86DecodesTransfers ==
  ASSUME NEW instr, NEW disp \in Int, NEW x, NEW size \in 1 .. 4, NEW op,
         \/ instr.op = "jump" /\ \/ instr.when = "always" /\ op = "Jmp"
                                 \/ instr.when = "equal" /\ op = "Je"
                                 \/ instr.when = "unequal" /\ op = "Jne"
         \/ instr.op = "call" /\ op = "Call",
         \/ x \in X86Backend!Rel8Forms /\ size = 1
         \/ x \in X86Backend!Rel32Forms /\ size = X86RegSize,
         \A imm : ByOpcode(x, imm) = X86Backend!Relative(op, imm),
         -(256^size) <= 2 * disp /\ 2 * disp < 256^size,
         NEW b, StartsWith(b, <<x>> \o Assembly!Bytes(disp, size)),
         Assembly!X86Length(instr, X86RegSize) = 1 + size
  PROVE  X86DecodesTo(b, instr, disp)
<1>1. /\ x \in X86Backend!MovImm \union X86Backend!AccumulatorForms
                \union X86Backend!Rel32Forms \union X86Backend!Rel8Forms
      /\ size = X86Backend!ImmSize(x)
  BY X86Sizes
<1>2. PICK imm \in Int :
        /\ ReadsAs(imm, disp, size)
        /\ X86Backend!DecodeOne(b) = Decoded(ByOpcode(x, imm), 1 + size)
  BY <1>1, X86ImmediateForm
<1>3. imm = disp
  BY <1>2, Zenon DEF ReadsAs
<1>4. PICK e : e = X86Backend!Relative(op, disp)
  OBVIOUS
<1>5. e.op = op /\ e.rel = disp
  BY <1>4 DEF X86Backend!Relative
<1>6. X86Denotes(e, instr, disp)
  BY <1>5 DEF X86Denotes
<1>7. X86Backend!DecodeOne(b) = Decoded(e, Assembly!X86Length(instr, X86RegSize))
  BY <1>2, <1>3, <1>4
<1>8. QED
  BY <1>6, <1>7 DEF X86DecodesTo

LEMMA X86DecodesShort ==
  ASSUME NEW disp \in -128 .. 127, NEW when \in {"always", "equal", "unequal"}, NEW to,
         NEW instr, instr = Assembly!Jump(when, to, "short"),
         NEW b, StartsWith(b, Assembly!X86Encode(instr, disp, X86RegSize))
  PROVE  X86DecodesTo(b, instr, disp)
<1>1. /\ instr.op = "jump" /\ instr.when = when /\ Assembly!X86Length(instr, X86RegSize) = 1 + 1
  BY DEF Assembly!Jump, Assembly!X86Length
<1>2. /\ disp \in Int /\ 1 \in 1 .. 4
      /\ -(256^1) <= 2 * disp /\ 2 * disp < 256^1
  BY PowersOf256
<1>3. PICK x : x = CASE when = "always" -> \hEB
                     [] when = "equal" -> \h74
                     [] when = "unequal" -> \h75
  OBVIOUS
<1>4. Assembly!X86Encode(instr, disp, X86RegSize) = <<x>> \o Assembly!Bytes(disp, 1)
  BY <1>1, <1>3 DEF Assembly!X86Encode, Assembly!Jump
<1>5. StartsWith(b, <<x>> \o Assembly!Bytes(disp, 1))
  BY <1>4
<1>6. CASE when = "always"
  <2>1. x = \hEB
    BY <1>3, <1>6
  <2>2. x \in X86Backend!Rel8Forms /\ \A imm : ByOpcode(x, imm) = X86Backend!Relative("Jmp", imm)
    BY <2>1 DEF X86Backend!Rel8Forms, ByOpcode, X86Backend!MovImm
  <2>3. QED
    BY <1>1, <1>2, <1>5, <1>6, <2>2, X86DecodesTransfers
<1>7. CASE when = "equal"
  <2>1. x = \h74
    BY <1>3, <1>7
  <2>2. x \in X86Backend!Rel8Forms /\ \A imm : ByOpcode(x, imm) = X86Backend!Relative("Je", imm)
    BY <2>1 DEF X86Backend!Rel8Forms, ByOpcode, X86Backend!MovImm
  <2>3. QED
    BY <1>1, <1>2, <1>5, <1>7, <2>2, X86DecodesTransfers
<1>8. CASE when = "unequal"
  <2>1. x = \h75
    BY <1>3, <1>8
  <2>2. x \in X86Backend!Rel8Forms /\ \A imm : ByOpcode(x, imm) = X86Backend!Relative("Jne", imm)
    BY <2>1 DEF X86Backend!Rel8Forms, ByOpcode, X86Backend!MovImm
  <2>3. QED
    BY <1>1, <1>2, <1>5, <1>8, <2>2, X86DecodesTransfers
<1>9. QED
  BY <1>6, <1>7, <1>8

LEMMA X86DecodesNear ==
  ASSUME NEW disp \in Int, -(256^X86RegSize) <= 2 * disp, 2 * disp < 256^X86RegSize, NEW to,
         NEW instr \in {Assembly!Jump("always", to, "near"), Assembly!CallTo(to)},
         NEW b, StartsWith(b, Assembly!X86Encode(instr, disp, X86RegSize))
  PROVE  X86DecodesTo(b, instr, disp)
<1>1. X86RegSize \in 1 .. 4
  BY SizeAssumption
<1>2. CASE instr = Assembly!Jump("always", to, "near")
  <2>1. instr.op = "jump" /\ instr.when = "always" /\ Assembly!X86Length(instr, X86RegSize) = 1 + X86RegSize
    BY <1>2 DEF Assembly!Jump, Assembly!X86Length
  <2>2. Assembly!X86Encode(instr, disp, X86RegSize) = <<\hE9>> \o Assembly!Bytes(disp, X86RegSize)
    BY <1>2 DEF Assembly!X86Encode, Assembly!Jump
  <2>3. \hE9 \in X86Backend!Rel32Forms /\ \A imm : ByOpcode(\hE9, imm) = X86Backend!Relative("Jmp", imm)
    BY DEF X86Backend!Rel32Forms, ByOpcode, X86Backend!MovImm
  <2>4. PICK x : /\ x \in X86Backend!Rel32Forms
                 /\ \A imm : ByOpcode(x, imm) = X86Backend!Relative("Jmp", imm)
                 /\ StartsWith(b, <<x>> \o Assembly!Bytes(disp, X86RegSize))
    BY <2>2, <2>3, Zenon
  <2>5. QED
    BY <1>1, <2>1, <2>4, X86DecodesTransfers
<1>3. CASE instr = Assembly!CallTo(to)
  <2>1. instr.op = "call" /\ Assembly!X86Length(instr, X86RegSize) = 1 + X86RegSize
    BY <1>3 DEF Assembly!CallTo, Assembly!X86Length
  <2>2. Assembly!X86Encode(instr, disp, X86RegSize) = <<\hE8>> \o Assembly!Bytes(disp, X86RegSize)
    BY <1>3 DEF Assembly!X86Encode, Assembly!CallTo
  <2>3. \hE8 \in X86Backend!Rel32Forms /\ \A imm : ByOpcode(\hE8, imm) = X86Backend!Relative("Call", imm)
    BY DEF X86Backend!Rel32Forms, ByOpcode, X86Backend!MovImm
  <2>4. PICK x : /\ x \in X86Backend!Rel32Forms
                 /\ \A imm : ByOpcode(x, imm) = X86Backend!Relative("Call", imm)
                 /\ StartsWith(b, <<x>> \o Assembly!Bytes(disp, X86RegSize))
    BY <2>2, <2>3, Zenon
  <2>5. QED
    BY <1>1, <2>1, <2>4, X86DecodesTransfers
<1>4. QED
  BY <1>2, <1>3

LEMMA X86DecodesRet ==
  ASSUME NEW disp, NEW instr, instr = Assembly!Ret,
         NEW b, StartsWith(b, Assembly!X86Encode(instr, disp, X86RegSize))
  PROVE  X86DecodesTo(b, instr, disp)
<1>1. instr.op = "ret" /\ Assembly!X86Length(instr, X86RegSize) = 1
  BY DEF Assembly!Ret, Assembly!X86Length
<1>2. Assembly!X86Encode(instr, disp, X86RegSize) = <<\hC3>>
  BY DEF Assembly!X86Encode, Assembly!Ret
<1>3. PICK x : x = \hC3 /\ StartsWith(b, <<x>>)
  BY <1>2, Zenon
<1>4. b \in Seq(Octet) /\ Len(b) >= 1 /\ b[1] = x
  BY <1>3, OneByte
<1>5. X86Backend!DecodeOne(b) = Decoded(X86Backend!Instruction(b), 1)
  <2>1. /\ x \in X86Backend!Opcodes /\ x \notin X86Backend!Group1
        /\ ~ X86Backend!HasModRm(x) /\ 1 = 1 + X86Backend!ModRmSize(x) + X86Backend!ImmSize(x)
    BY <1>3, X86Sizes DEF X86Backend!Opcodes, X86Backend!Group1
  <2>2. 1 \in Nat /\ 1 <= 1
    OBVIOUS
  <2>3. QED
    BY <1>4, <2>1, <2>2, X86Reads
<1>6. X86Backend!Instruction(b) = X86Backend!Ret
  BY <1>3, <1>4 DEF X86Backend!Instruction, X86Backend!MovImm, X86Backend!Group1
<1>7. X86Denotes(X86Backend!Ret, instr, disp)
  BY <1>1 DEF X86Denotes, X86Backend!Ret
<1>8. QED
  BY <1>1, <1>5, <1>6, <1>7 DEF X86DecodesTo

(* The operations that the bytes at an address become, when number         *)
(* temporaries have been allocated, and the target of an instruction there *)
(* that is disp away.                                                      *)
X86Ops(b, address, number) ==
  LET result == X86Backend!DecodeOne(b)
  IN  X86Backend!Lift(result.instruction, address, result.length, number)

X86Target(instr, disp, address) ==
  (address + Assembly!X86Length(instr, X86RegSize) + disp) % AddressLimit

LEMMA X86Lifts ==
  ASSUME NEW instr, NEW disp \in Int, X86Instruction(instr, disp),
         NEW b, StartsWith(b, Assembly!X86Encode(instr, disp, X86RegSize)),
         NEW address \in Address, NEW number \in Nat
  PROVE  /\ X86Backend!DecodeOne(b).kind = "Decoded"
         /\ X86Backend!DecodeOne(b).length = Assembly!X86Length(instr, X86RegSize)
         /\ LiftsTo(X86Ops(b, address, number), instr, Gpr, X86RegSize, X86Backend!ZF,
                    X86Target(instr, disp, address))
<1>1. X86DecodesTo(b, instr, disp)
  <2>1. \A n \in -128 .. 127 : n \in Int
    OBVIOUS
  <2>2. CASE \E d, s \in Gpr :
               instr \in {Assembly!Mov(d, Assembly!R(s), "store"), Assembly!Mov(d, Assembly!R(s), "load"),
                         Assembly!Add(d, Assembly!R(d), Assembly!R(s), "store"),
                         Assembly!Cmp(Assembly!R(d), Assembly!R(s), "store")}
    BY <2>2, X86DecodesRegisters, Zenon
  <2>3. CASE \E d \in Gpr, n \in Int :
               instr \in {Assembly!Mov(d, Assembly!I(n), "acc"),
                         Assembly!Add(d, Assembly!R(d), Assembly!I(n), "imm"),
                         Assembly!Cmp(Assembly!R(d), Assembly!I(n), "imm")}
    <3>1. PICK d \in Gpr, n \in Int :
               instr \in {Assembly!Mov(d, Assembly!I(n), "acc"),
                         Assembly!Add(d, Assembly!R(d), Assembly!I(n), "imm"),
                         Assembly!Cmp(Assembly!R(d), Assembly!I(n), "imm")}
      BY <2>3, Zenon
    <3>2. CASE instr = Assembly!Mov(d, Assembly!I(n), "acc")
      BY <3>2, X86DecodesImmediates
    <3>3. CASE instr \in {Assembly!Add(d, Assembly!R(d), Assembly!I(n), "imm"),
                         Assembly!Cmp(Assembly!R(d), Assembly!I(n), "imm")}
      <4>1. PICK form \in {"imm", "imm8"} : form = "imm"
        OBVIOUS
      <4>2. form = "imm8" => n \in -128 .. 127
        BY <4>1
      <4>3. instr \in {Assembly!Add(d, Assembly!R(d), Assembly!I(n), form),
                      Assembly!Cmp(Assembly!R(d), Assembly!I(n), form)}
        BY <3>3, <4>1
      <4>4. QED
        BY <4>2, <4>3, X86DecodesGroup1, Zenon
    <3>4. QED
      BY <3>1, <3>2, <3>3, Zenon
  <2>4. CASE \E d \in Gpr, n \in -128 .. 127 :
               instr \in {Assembly!Add(d, Assembly!R(d), Assembly!I(n), "imm8"),
                         Assembly!Cmp(Assembly!R(d), Assembly!I(n), "imm8")}
    <3>1. PICK d \in Gpr, n \in -128 .. 127 :
               instr \in {Assembly!Add(d, Assembly!R(d), Assembly!I(n), "imm8"),
                         Assembly!Cmp(Assembly!R(d), Assembly!I(n), "imm8")}
      BY <2>4, Zenon
    <3>2. PICK form \in {"imm", "imm8"} : form = "imm8"
      OBVIOUS
    <3>3. n \in Int /\ (form = "imm8" => n \in -128 .. 127)
      OBVIOUS
    <3>4. instr \in {Assembly!Add(d, Assembly!R(d), Assembly!I(n), form),
                    Assembly!Cmp(Assembly!R(d), Assembly!I(n), form)}
      BY <3>1, <3>2
    <3>5. QED
      BY <3>3, <3>4, X86DecodesGroup1, Zenon
  <2>5. CASE \E n \in Int :
               instr \in {Assembly!Add(0, Assembly!R(0), Assembly!I(n), "acc"),
                         Assembly!Cmp(Assembly!R(0), Assembly!I(n), "acc")}
    <3>1. PICK d \in Gpr : d = 0
      BY DEF Gpr
    <3>2. QED
      BY <2>5, <3>1, X86DecodesImmediates
  <2>6. CASE /\ disp \in -128 .. 127
             /\ \E when \in {"always", "equal", "unequal"} : \E to :
                  instr = Assembly!Jump(when, to, "short")
    BY <2>6, X86DecodesShort, Zenon
  <2>7. CASE /\ disp \in Int /\ -(256^X86RegSize) <= 2 * disp /\ 2 * disp < 256^X86RegSize
             /\ \E to : instr \in {Assembly!Jump("always", to, "near"), Assembly!CallTo(to)}
    BY <2>7, X86DecodesNear, Zenon
  <2>8. CASE instr = Assembly!Ret
    BY <2>8, X86DecodesRet
  <2>9. QED
    BY <2>2, <2>3, <2>4, <2>5, <2>6, <2>7, <2>8, Zenon DEF X86Instruction
<1>2. PICK length : length = Assembly!X86Length(instr, X86RegSize)
  OBVIOUS
<1>3. PICK d : X86Backend!DecodeOne(b) = Decoded(d, length) /\ X86Denotes(d, instr, disp)
  BY <1>1, <1>2 DEF X86DecodesTo
<1>4. PICK result : result = X86Backend!DecodeOne(b)
  OBVIOUS
<1>5. result.kind = "Decoded" /\ result.length = length /\ result.instruction = d
  BY <1>3, <1>4 DEF Decoded
<1>6. X86Ops(b, address, number) = X86Backend!Lift(d, address, length, number)
  BY <1>4, <1>5 DEF X86Ops
<1>7. LiftsTo(X86Backend!Lift(d, address, length, number), instr, Gpr, X86RegSize,
              X86Backend!ZF, (address + length + disp) % AddressLimit)
  BY <1>3, X86LiftsTo
<1>8. QED
  BY <1>2, <1>4, <1>5, <1>6, <1>7, Zenon DEF X86Target

(* What the backend makes of the encoding of an x86 instruction, whatever  *)
(* follows it: the instruction's length, and operations that do what the   *)
(* processor does, in every state of the processor: they leave in each     *)
(* register, and in the flag, the value the program accounts for there,    *)
(* and control goes where the processor goes                               *)
(* (arch-x86/src/decoder.rs:54-189, arch-x86/src/lifter.rs:21-108).        *)
THEOREM X86LiftMeans ==
  ASSUME NEW instr, NEW disp \in Int, X86Instruction(instr, disp),
         NEW b, StartsWith(b, Assembly!X86Encode(instr, disp, X86RegSize)),
         NEW address \in Address, NEW number \in Nat
  PROVE  /\ X86Backend!DecodeOne(b).kind = "Decoded"
         /\ X86Backend!DecodeOne(b).length = Assembly!X86Length(instr, X86RegSize)
         /\ Does(X86Ops(b, address, number), "x86", instr, Gpr, X86RegSize, X86Backend!ZF,
                 X86Target(instr, disp, address))
  BY X86Lifts, X86Registers8, LiftedDoes

(* The C that is printed for straight-line code, from the bytes of its     *)
(* instructions, does what the processor does: when the variables hold     *)
(* what the program accounts for, they do so after each instruction, and   *)
(* control goes where the processor goes.  Every variable must have the    *)
(* unsigned type of its size, and a value                                  *)
(* (arch-x86/src/lifter.rs:21-108, output-c/src/lib.rs:155-252).           *)
THEOREM X86CodeMeans ==
  ASSUME NEW instrs, Len(instrs) \in Nat, NEW disp, NEW at, NEW address, NEW number,
         \A j \in 1 .. Len(instrs) :
           /\ disp[j] \in Int /\ X86Instruction(instrs[j], disp[j])
           /\ instrs[j].op = "jump" => instrs[j].to \in Nat
           /\ StartsWith(at[j], Assembly!X86Encode(instrs[j], disp[j], X86RegSize))
           /\ address[j] \in Address /\ number[j] \in Nat,
         NEW vars,
         \A j \in 1 .. Len(instrs) :
           Covers(vars, X86Ops(at[j], address[j], number[j]), Gpr, X86RegSize, X86Backend!ZF),
         NEW m, Executes("x86", instrs, Limit(X86RegSize), m), m[0] \in Machines(Gpr, X86RegSize),
         NEW first, Declares(first, vars), InC(m[0], first, X86Backend!ZF)
  PROVE  \E e : /\ e[0] = first
               /\ Follows([j \in 1 .. Len(instrs) |-> X86Ops(at[j], address[j], number[j])],
                          instrs,
                          [j \in 1 .. Len(instrs) |-> X86Target(instrs[j], disp[j], address[j])],
                          vars, X86Backend!ZF, m, e)
<1>1. PICK code : code = [j \in 1 .. Len(instrs) |-> X86Ops(at[j], address[j], number[j])]
  OBVIOUS
<1>2. PICK targets :
        targets = [j \in 1 .. Len(instrs) |-> X86Target(instrs[j], disp[j], address[j])]
  OBVIOUS
<1>3. ASSUME NEW j \in 1 .. Len(instrs)
      PROVE  /\ DoesInC(code[j], "x86", instrs[j], Gpr, X86RegSize, X86Backend!ZF, targets[j])
             /\ Operates(instrs[j], Gpr) /\ (instrs[j].op = "jump" => instrs[j].to \in Nat)
             /\ Covers(vars, code[j], Gpr, X86RegSize, X86Backend!ZF)
  <2>1. PICK ops, target : /\ ops = X86Ops(at[j], address[j], number[j]) /\ ops = code[j]
                           /\ target = X86Target(instrs[j], disp[j], address[j])
                           /\ target = targets[j]
    BY <1>1, <1>2
  <2>2. LiftsTo(ops, instrs[j], Gpr, X86RegSize, X86Backend!ZF, target)
    <3>1. /\ disp[j] \in Int /\ X86Instruction(instrs[j], disp[j])
          /\ StartsWith(at[j], Assembly!X86Encode(instrs[j], disp[j], X86RegSize))
          /\ address[j] \in Address /\ number[j] \in Nat
      OBVIOUS
    <3>2. LiftsTo(X86Ops(at[j], address[j], number[j]), instrs[j], Gpr, X86RegSize,
                  X86Backend!ZF, X86Target(instrs[j], disp[j], address[j]))
      BY <3>1, X86Lifts, Zenon
    <3>3. QED
      BY <2>1, <3>2
  <2>3. /\ DoesInC(ops, "x86", instrs[j], Gpr, X86RegSize, X86Backend!ZF, target)
        /\ Operates(instrs[j], Gpr)
    BY <2>2, X86Registers8, LiftedInC
  <2>4. QED
    BY <2>1, <2>3
<1>4. \E e : e[0] = first /\ Follows(code, instrs, targets, vars, X86Backend!ZF, m, e)
  BY <1>3, X86Registers8, BlockIsExact
<1>5. QED
  BY <1>1, <1>2, <1>4

-----------------------------------------------------------------------------
(* The mock ARM backend.                                                   *)

ArmGpr == 0 .. 31

(* The decoded instruction is that of the assembly language.  A jump on    *)
(* "unequal" is left out: the backend lifts BNE as it lifts BEQ.           *)
ArmDenotes(d, instr, disp) ==
  \/ /\ instr.op = "mov" /\ d.op = "MovRegImm" /\ d.dst \in ArmGpr /\ instr.dst = d.dst
     /\ d.imm \in 0 .. Limit(ArmRegSize) - 1 /\ instr.src = Assembly!I(d.imm)
  \/ /\ instr.op = "add" /\ d.op = "AddRegReg" /\ d.dst \in ArmGpr /\ instr.dst = d.dst
     /\ d.src1 \in ArmGpr /\ instr.lhs = Assembly!R(d.src1)
     /\ d.src2 \in ArmGpr /\ instr.rhs = Assembly!R(d.src2)
  \/ /\ instr.op = "add" /\ d.op = "AddRegImm" /\ d.dst \in ArmGpr /\ instr.dst = d.dst
     /\ d.src \in ArmGpr /\ instr.lhs = Assembly!R(d.src)
     /\ d.imm \in 0 .. Limit(ArmRegSize) - 1 /\ instr.rhs = Assembly!I(d.imm)
  \/ /\ instr.op = "cmp" /\ d.op = "CmpRegReg"
     /\ d.lhs \in ArmGpr /\ instr.lhs = Assembly!R(d.lhs)
     /\ d.rhs \in ArmGpr /\ instr.rhs = Assembly!R(d.rhs)
  \/ /\ instr.op = "jump" /\ d.rel = disp
     /\ \/ instr.when = "always" /\ d.op = "B"
        \/ instr.when = "equal" /\ d.op = "BEQ"
  \/ instr.op = "call" /\ d.op = "BL" /\ d.rel = disp
  \/ instr.op = "ret" /\ d.op = "Ret"

LEMMA ArmTerms ==
  /\ \A n : ArmBackend!Reg(n) = Register(n, ArmRegSize)
  /\ \A n : ArmBackend!Imm(n) = Constant(n, ArmRegSize)
  /\ ArmBackend!Flags = Register(1000, ArmFlagSize)
  /\ \A v, w : ArmBackend!Copy(v, w) = Copy(v, w)
  /\ \A op, u, v, w : ArmBackend!Binary(op, u, v, w) = Binary(op, u, v, w)
  /\ \A v, t : ArmBackend!CBranch(v, t) = CBranch(v, t)
  /\ \A t : ArmBackend!Branch(t) = Branch(t) /\ ArmBackend!Call(t) = Call(t)
  /\ ArmBackend!Return = Return
  /\ \A a : ArmBackend!Absolute(a) = Absolute(a)
<1>1. \A space, n, size : ArmBackend!Varnode(space, n, size) = Varnode(space, n, size)
  BY DEF ArmBackend!Varnode, Varnode
<1>2. QED
  BY <1>1, Zenon
  DEF ArmBackend!Reg, ArmBackend!Register, Register, ArmBackend!Imm, ArmBackend!Constant,
      Constant, ArmBackend!Flags, ArmBackend!Copy, Copy,
      ArmBackend!Binary, Binary, ArmBackend!CBranch, CBranch, ArmBackend!Branch, Branch,
      ArmBackend!Call, Call, ArmBackend!Return, Return, ArmBackend!Absolute, Absolute

LEMMA ArmRegisters32 == RegisterFile(ArmGpr, ArmRegSize, ArmBackend!Flags)
<1>1. ArmRegSize \in Nat \ {0} /\ ArmFlagSize \in Nat \ {0}
  BY SizeAssumption
<1>2. ArmBackend!Flags = Register(1000, ArmFlagSize)
  BY ArmTerms
<1>3. \A n \in ArmGpr : n # 1000
  BY DEF ArmGpr
<1>4. \A n \in ArmGpr : Register(1000, ArmFlagSize) # Register(n, ArmRegSize)
  BY <1>3 DEF Register, Varnode
<1>5. QED
  BY <1>1, <1>2, <1>4 DEF RegisterFile, Register, Varnode, ArmGpr

LEMMA ArmImmediateStands ==
  ASSUME NEW n \in 0 .. Limit(ArmRegSize) - 1
  PROVE  StandsFor(ArmBackend!Imm(n), Assembly!I(n), ArmGpr, ArmRegSize)
<1>1. PICK l \in Nat \ {0} : l = Limit(ArmRegSize)
  BY LimitType, ArmRegisters32 DEF RegisterFile
<1>2. n \in Int /\ n % l = n
  BY <1>1
<1>3. ArmBackend!Imm(n) = Constant(n % Limit(ArmRegSize), ArmRegSize)
  BY <1>1, <1>2, ArmTerms
<1>4. QED
  BY <1>2, <1>3 DEF StandsFor

(* What a decoded instruction is lifted to.                                *)
LEMMA ArmLiftsTo ==
  ASSUME NEW d, NEW instr, NEW disp \in Int, ArmDenotes(d, instr, disp), NEW address \in Address
  PROVE  LiftsTo(ArmBackend!Lift(d, address), instr, ArmGpr, ArmRegSize,
                 ArmBackend!Flags, (address + disp) % AddressLimit)
<1>1. PICK ops : ops = ArmBackend!Lift(d, address)
  OBVIOUS
<1>2. PICK target : target = (address + disp) % AddressLimit
  OBVIOUS
<1>3. PICK flags : flags = ArmBackend!Flags /\ RegisterFile(ArmGpr, ArmRegSize, flags)
  BY ArmRegisters32
<1>4. d.rel = disp => ArmBackend!Absolute(ArmBackend!ResolveRel(address, 0, d.rel)) = Absolute(target)
  <2>1. address + 0 + disp = address + disp
    BY AddressAssumption
  <2>2. QED
    BY <1>2, <2>1, ArmTerms, Zenon DEF ArmBackend!ResolveRel
<1>5. \A n \in ArmGpr : StandsFor(Register(n, ArmRegSize), Assembly!R(n), ArmGpr, ArmRegSize)
  BY Zenon DEF StandsFor
<1>6. CASE instr.op = "mov"
  <2>1. /\ d.op = "MovRegImm" /\ d.dst \in ArmGpr /\ instr.dst = d.dst
        /\ d.imm \in 0 .. Limit(ArmRegSize) - 1 /\ instr.src = Assembly!I(d.imm)
    BY <1>6 DEF ArmDenotes
  <2>2. PICK v : v = ArmBackend!Imm(d.imm) /\ StandsFor(v, instr.src, ArmGpr, ArmRegSize)
    BY <2>1, ArmImmediateStands
  <2>3. ops = <<Copy(Register(instr.dst, ArmRegSize), v)>>
    BY <1>1, <2>1, <2>2, ArmTerms DEF ArmBackend!Lift
  <2>4. LiftsTo(ops, instr, ArmGpr, ArmRegSize, flags, target)
    BY <1>3, <1>6, <2>1, <2>2, <2>3 DEF LiftsTo
  <2>5. QED
    BY <1>1, <1>2, <1>3, <2>4
<1>7. CASE instr.op = "add"
  <2>1. CASE d.op = "AddRegReg"
    <3>1. /\ d.dst \in ArmGpr /\ instr.dst = d.dst
          /\ d.src1 \in ArmGpr /\ instr.lhs = Assembly!R(d.src1)
          /\ d.src2 \in ArmGpr /\ instr.rhs = Assembly!R(d.src2)
      BY <1>7, <2>1 DEF ArmDenotes
    <3>2. PICK v : /\ v = Register(d.src1, ArmRegSize) /\ v.space = "Register"
                   /\ StandsFor(v, instr.lhs, ArmGpr, ArmRegSize)
      BY <1>5, <3>1 DEF Register, Varnode
    <3>3. PICK w : w = Register(d.src2, ArmRegSize) /\ StandsFor(w, instr.rhs, ArmGpr, ArmRegSize)
      BY <1>5, <3>1
    <3>4. ops = <<Binary("IntAdd", Register(instr.dst, ArmRegSize), v, w)>>
      BY <1>1, <2>1, <3>1, <3>2, <3>3, ArmTerms DEF ArmBackend!Lift
    <3>5. LiftsTo(ops, instr, ArmGpr, ArmRegSize, flags, target)
      BY <1>3, <1>7, <3>1, <3>2, <3>3, <3>4 DEF LiftsTo
    <3>6. QED
      BY <1>1, <1>2, <1>3, <3>5
  <2>2. CASE d.op = "AddRegImm"
    <3>1. /\ d.dst \in ArmGpr /\ instr.dst = d.dst
          /\ d.src \in ArmGpr /\ instr.lhs = Assembly!R(d.src)
          /\ d.imm \in 0 .. Limit(ArmRegSize) - 1 /\ instr.rhs = Assembly!I(d.imm)
      BY <1>7, <2>2 DEF ArmDenotes
    <3>2. PICK v : /\ v = Register(d.src, ArmRegSize) /\ v.space = "Register"
                   /\ StandsFor(v, instr.lhs, ArmGpr, ArmRegSize)
      BY <1>5, <3>1 DEF Register, Varnode
    <3>3. PICK w : w = ArmBackend!Imm(d.imm) /\ StandsFor(w, instr.rhs, ArmGpr, ArmRegSize)
      BY <3>1, ArmImmediateStands
    <3>4. ops = <<Binary("IntAdd", Register(instr.dst, ArmRegSize), v, w)>>
      BY <1>1, <2>2, <3>1, <3>2, <3>3, ArmTerms DEF ArmBackend!Lift
    <3>5. LiftsTo(ops, instr, ArmGpr, ArmRegSize, flags, target)
      BY <1>3, <1>7, <3>1, <3>2, <3>3, <3>4 DEF LiftsTo
    <3>6. QED
      BY <1>1, <1>2, <1>3, <3>5
  <2>3. QED
    BY <1>7, <2>1, <2>2 DEF ArmDenotes
<1>8. CASE instr.op = "cmp"
  <2>1. /\ d.op = "CmpRegReg"
        /\ d.lhs \in ArmGpr /\ instr.lhs = Assembly!R(d.lhs)
        /\ d.rhs \in ArmGpr /\ instr.rhs = Assembly!R(d.rhs)
    BY <1>8 DEF ArmDenotes
  <2>2. PICK v : /\ v = Register(d.lhs, ArmRegSize) /\ v.space = "Register"
                 /\ StandsFor(v, instr.lhs, ArmGpr, ArmRegSize)
    BY <1>5, <2>1 DEF Register, Varnode
  <2>3. PICK w : w = Register(d.rhs, ArmRegSize) /\ StandsFor(w, instr.rhs, ArmGpr, ArmRegSize)
    BY <1>5, <2>1
  <2>4. ops = <<Binary("IntEqual", flags, v, w)>>
    BY <1>1, <1>3, <2>1, <2>2, <2>3, ArmTerms DEF ArmBackend!Lift
  <2>5. LiftsTo(ops, instr, ArmGpr, ArmRegSize, flags, target)
    BY <1>3, <1>8, <2>2, <2>3, <2>4 DEF LiftsTo
  <2>6. QED
    BY <1>1, <1>2, <1>3, <2>5
<1>9. CASE instr.op = "jump"
  <2>1. d.rel = disp
    BY <1>9 DEF ArmDenotes
  <2>2. CASE instr.when = "always" /\ d.op = "B"
    <3>1. ops = <<Branch(Absolute(target))>>
      BY <1>1, <1>4, <2>1, <2>2, ArmTerms DEF ArmBackend!Lift
    <3>2. LiftsTo(ops, instr, ArmGpr, ArmRegSize, flags, target)
      BY <1>9, <2>2, <3>1 DEF LiftsTo
    <3>3. QED
      BY <1>1, <1>2, <1>3, <3>2
  <2>3. CASE instr.when = "equal" /\ d.op = "BEQ"
    <3>1. ops = <<CBranch(flags, Absolute(target))>>
      BY <1>1, <1>3, <1>4, <2>1, <2>3, ArmTerms DEF ArmBackend!Lift
    <3>2. LiftsTo(ops, instr, ArmGpr, ArmRegSize, flags, target)
      BY <1>3, <1>9, <2>3, <3>1 DEF LiftsTo
    <3>3. QED
      BY <1>1, <1>2, <1>3, <3>2
  <2>4. QED
    BY <1>9, <2>2, <2>3 DEF ArmDenotes
<1>10. CASE instr.op = "call"
  <2>1. d.op = "BL" /\ d.rel = disp
    BY <1>10 DEF ArmDenotes
  <2>2. ops = <<Call(Absolute(target))>>
    BY <1>1, <1>4, <2>1, ArmTerms DEF ArmBackend!Lift
  <2>3. LiftsTo(ops, instr, ArmGpr, ArmRegSize, flags, target)
    BY <1>10, <2>2 DEF LiftsTo
  <2>4. QED
    BY <1>1, <1>2, <1>3, <2>3
<1>11. CASE instr.op = "ret"
  <2>1. d.op = "Ret"
    BY <1>11 DEF ArmDenotes
  <2>2. ops = <<Return>>
    BY <1>1, <2>1, ArmTerms DEF ArmBackend!Lift
  <2>3. LiftsTo(ops, instr, ArmGpr, ArmRegSize, flags, target)
    BY <1>11, <2>2 DEF LiftsTo
  <2>4. QED
    BY <1>1, <1>2, <1>3, <2>3
<1>12. QED
  BY <1>6, <1>7, <1>8, <1>9, <1>10, <1>11 DEF ArmDenotes

LEMMA BytesThenOne ==
  ASSUME NEW n \in Int, NEW size \in 1 .. 4, NEW x \in Int,
         NEW b, StartsWith(b, Assembly!Bytes(n, size) \o <<x>>)
  PROVE  b \in Seq(Octet) /\ Len(b) >= size + 1 /\ b[size + 1] = x /\ BytesAt(b, 1, n, size)
<1>1. PICK t \in Seq(Int) : t = Assembly!Bytes(n, size) /\ Len(t) = size
  BY BytesAreOctets
<1>2. PICK s \in Seq(Int) : s = <<x>> /\ Len(s) = 1 /\ s[1] = x
  <2>1. <<x>> \in Seq(Int) /\ Len(<<x>>) = 1 /\ <<x>>[1] = x
    OBVIOUS
  <2>2. QED
    BY <2>1, Zenon
<1>3. /\ Len(t \o s) = size + 1
      /\ \A j \in 1 .. size + 1 : (t \o s)[j] = IF j <= size THEN t[j] ELSE s[j - size]
  BY <1>1, <1>2, ConcatProperties
<1>4. StartsWith(b, t \o s)
  BY <1>1, <1>2, Zenon
<1>5. /\ b \in Seq(Octet) /\ Len(b) >= size + 1
      /\ \A j \in 1 .. size + 1 : b[j] = (t \o s)[j]
  BY <1>3, <1>4 DEF StartsWith
<1>6. b[size + 1] = x
  <2>1. size + 1 \in 1 .. size + 1 /\ ~ (size + 1 <= size) /\ (size + 1) - size = 1
    OBVIOUS
  <2>2. QED
    BY <1>2, <1>3, <1>5, <2>1
<1>7. ASSUME NEW j \in 1 .. size PROVE b[1 + j - 1] = t[j]
  <2>1. 1 + j - 1 = j /\ j \in 1 .. size + 1 /\ j <= size
    OBVIOUS
  <2>2. b[j] = t[j]
    BY <1>3, <1>5, <2>1
  <2>3. QED
    BY <2>1, <2>2, Zenon
<1>8. BytesAt(b, 1, n, size)
  BY <1>1, <1>7, Zenon DEF BytesAt
<1>9. QED
  BY <1>5, <1>6, <1>8

LEMMA ArmReads ==
  ASSUME NEW x \in \h10 .. \h18, NEW n \in Int, NEW b,
         StartsWith(b, Assembly!Bytes(n, 3) \o <<x>>)
  PROVE  ArmBackend!DecodeOne(b) = Decoded(ArmBackend!Instruction(x, n % 256^3), 4)
<1>1. b \in Seq(Octet) /\ Len(b) >= 4 /\ b[4] = x /\ BytesAt(b, 1, n, 3)
  <2>1. PICK size \in 1 .. 4 : size = 3
    OBVIOUS
  <2>2. x \in Int /\ StartsWith(b, Assembly!Bytes(n, size) \o <<x>>) /\ size + 1 = 4
    BY <2>1
  <2>3. b \in Seq(Octet) /\ Len(b) >= size + 1 /\ b[size + 1] = x /\ BytesAt(b, 1, n, size)
    BY <2>2, BytesThenOne
  <2>4. QED
    BY <2>1, <2>2, <2>3
<1>2. LittleEndian(b, 1, 3) = n % 256^3
  <2>1. 3 \in 1 .. 4 /\ 1 \in Nat
    OBVIOUS
  <2>2. QED
    BY <1>1, <2>1, LittleEndianAt, Zenon
<1>3. ArmBackend!LittleEndian(b, 1, 3) = LittleEndian(b, 1, 3)
  BY Zenon DEF ArmBackend!LittleEndian, LittleEndian
<1>4. ArmBackend!DecodeOne(b) = ArmBackend!Decoded(ArmBackend!Instruction(x, LittleEndian(b, 1, 3)), 4)
  BY <1>1, <1>3 DEF ArmBackend!DecodeOne
<1>5. QED
  BY <1>2, <1>4 DEF ArmBackend!Decoded, Decoded

LEMMA FieldsOfTwo ==
  ASSUME NEW d \in Nat, d < 32, NEW imm \in Nat, imm < 65536
  PROVE  LET word == (d + 32 * imm) % 256^3
         IN  word \in Int /\ (word \div 1) % 32 = d /\ (word \div 32) % 65536 = imm
<1>1. PICK word : word = d + 32 * imm
  OBVIOUS
<1>2. word \in Nat /\ word < 16777216 /\ word \div 1 = word
  BY <1>1, SMT
<1>3. word % 256^3 = word
  BY <1>2, PowersOf256, SMT
<1>4. word % 32 = d
  BY <1>1, SMT
<1>5. word \div 32 = imm
  BY <1>1, SMT
<1>6. imm % 65536 = imm
  BY SMT
<1>7. QED
  BY <1>1, <1>2, <1>3, <1>4, <1>5, <1>6, SMT

LEMMA FieldsOfThree ==
  ASSUME NEW d \in Nat, d < 32, NEW s \in Nat, s < 32, NEW imm \in Nat, imm < 16384
  PROVE  LET word == (d + 32 * s + 1024 * imm) % 256^3
         IN  /\ word \in Int /\ (word \div 1) % 32 = d /\ (word \div 32) % 32 = s
             /\ (word \div 1024) % 16384 = imm /\ (imm < 32 => (word \div 1024) % 32 = imm)
<1>1. PICK word : word = d + 32 * s + 1024 * imm
  OBVIOUS
<1>2. word \in Nat /\ word < 16777216 /\ word \div 1 = word
  BY <1>1, SMT
<1>3. word % 256^3 = word
  BY <1>2, PowersOf256, SMT
<1>4. word % 32 = d
  BY <1>1, SMT
<1>5. word \div 32 = s + 32 * imm
  BY <1>1, SMT
<1>6. (s + 32 * imm) % 32 = s
  BY SMT
<1>7. word \div 1024 = imm
  BY <1>1, SMT
<1>8. imm % 16384 = imm /\ (imm < 32 => imm % 32 = imm)
  BY SMT
<1>9. QED
  BY <1>1, <1>2, <1>3, <1>4, <1>5, <1>6, <1>7, <1>8, SMT

(* The mock ARM instructions of the assembly language: the immediates have *)
(* the width of their fields, and the jumps the reach.  A jump on          *)
(* "unequal" is left out: the backend lifts BNE as it lifts BEQ.           *)
ArmInstruction(instr, disp) ==
  \/ \E d \in ArmGpr, n \in Nat : \E form :
       n < 65536 /\ n < Limit(ArmRegSize) /\ instr = Assembly!Mov(d, Assembly!I(n), form)
  \/ \E d, s, t \in ArmGpr : \E form :
       instr = Assembly!Add(d, Assembly!R(s), Assembly!R(t), form)
  \/ \E d, s \in ArmGpr, n \in Nat : \E form :
       /\ n < 16384 /\ n < Limit(ArmRegSize)
       /\ instr = Assembly!Add(d, Assembly!R(s), Assembly!I(n), form)
  \/ \E s, t \in ArmGpr : \E form : instr = Assembly!Cmp(Assembly!R(s), Assembly!R(t), form)
  \/ /\ disp \in Int /\ -(256^3) <= 2 * disp /\ 2 * disp < 256^3
     /\ \E to, form : instr \in {Assembly!Jump("always", to, form), Assembly!Jump("equal", to, form),
                                Assembly!CallTo(to)}
  \/ instr = Assembly!Ret

(* The bytes decode to what the instruction is, with its length.           *)
ArmDecodesTo(b, instr, disp) ==
  \E d : /\ ArmBackend!DecodeOne(b) = Decoded(d, 4)
         /\ ArmDenotes(d, instr, disp)

LEMMA TwoPowers == 2^0 = 1 /\ 2^5 = 32 /\ 2^10 = 1024 /\ 2^14 = 16384 /\ 2^16 = 65536
BY SMT

LEMMA BelowLimit ==
  ASSUME NEW n \in Nat, n < Limit(ArmRegSize)
  PROVE  n \in 0 .. Limit(ArmRegSize) - 1
<1>1. Limit(ArmRegSize) \in Nat \ {0}
  BY LimitType, ArmRegisters32 DEF RegisterFile
<1>2. QED
  BY <1>1

LEMMA ArmDecodesMov ==
  ASSUME NEW d \in ArmGpr, NEW n \in Nat, n < 65536, n < Limit(ArmRegSize), NEW form, NEW disp,
         NEW instr, instr = Assembly!Mov(d, Assembly!I(n), form),
         NEW b, StartsWith(b, Assembly!ArmEncode(instr, disp))
  PROVE  ArmDecodesTo(b, instr, disp)
<1>1. d \in Nat /\ d < 32
  BY DEF ArmGpr
<1>2. Assembly!ArmEncode(instr, disp) = Assembly!Bytes(d + 32 * n, 3) \o <<\h10>>
  BY DEF Assembly!ArmEncode, Assembly!Mov, Assembly!I
<1>3. ArmBackend!DecodeOne(b) = Decoded(ArmBackend!Instruction(\h10, (d + 32 * n) % 256^3), 4)
  <2>1. \h10 \in \h10 .. \h18 /\ d + 32 * n \in Int
    BY <1>1
  <2>2. QED
    BY <1>2, <2>1, ArmReads
<1>4. PICK word : word = (d + 32 * n) % 256^3
  OBVIOUS
<1>5. word \in Int /\ (word \div 1) % 32 = d /\ (word \div 32) % 65536 = n
  BY <1>1, <1>4, FieldsOfTwo, SMT
<1>6. ArmBackend!Instruction(\h10, word) = ArmBackend!MovRegImm(d, n)
  <2>1. ArmBackend!Dst(word) = d /\ ArmBackend!Field(word, 5, 16) = n
    BY <1>5, TwoPowers DEF ArmBackend!Dst, ArmBackend!Src1, ArmBackend!Src2, ArmBackend!Field
  <2>2. QED
    BY <2>1 DEF ArmBackend!Instruction
<1>7. ArmDenotes(ArmBackend!MovRegImm(d, n), instr, disp)
  <2>1. n \in 0 .. Limit(ArmRegSize) - 1
    BY BelowLimit
  <2>2. QED
    BY <2>1 DEF ArmDenotes, ArmBackend!MovRegImm, Assembly!Mov
<1>8. QED
  BY <1>3, <1>4, <1>6, <1>7 DEF ArmDecodesTo

LEMMA ArmDecodesAddRegister ==
  ASSUME NEW d \in ArmGpr, NEW s \in ArmGpr, NEW t \in ArmGpr, NEW form, NEW disp,
         NEW instr, instr = Assembly!Add(d, Assembly!R(s), Assembly!R(t), form),
         NEW b, StartsWith(b, Assembly!ArmEncode(instr, disp))
  PROVE  ArmDecodesTo(b, instr, disp)
<1>1. /\ d \in Nat /\ d < 32 /\ s \in Nat /\ s < 32 /\ t \in Nat /\ t < 32 /\ t < 16384
  BY DEF ArmGpr
<1>2. Assembly!ArmEncode(instr, disp) = Assembly!Bytes(d + 32 * s + 1024 * t, 3) \o <<\h11>>
  <2>1. /\ instr.op = "add" /\ instr.dst = d /\ instr.lhs = Assembly!R(s)
        /\ instr.rhs = Assembly!R(t)
    BY DEF Assembly!Add
  <2>2. Assembly!R(s).reg = s /\ Assembly!R(t).reg = t
    BY DEF Assembly!R
  <2>3. Assembly!IsRegister(Assembly!R(t))
    BY DEF Assembly!R, Assembly!IsRegister
  <2>4. Assembly!IsRegister(instr.rhs) /\ instr.lhs.reg = s /\ instr.rhs.reg = t
    BY <2>1, <2>2, <2>3, Zenon
  <2>5. QED
    BY <2>1, <2>4 DEF Assembly!ArmEncode
<1>3. ArmBackend!DecodeOne(b) =
        Decoded(ArmBackend!Instruction(\h11, (d + 32 * s + 1024 * t) % 256^3), 4)
  <2>1. \h11 \in \h10 .. \h18 /\ d + 32 * s + 1024 * t \in Int
    BY <1>1
  <2>2. QED
    BY <1>2, <2>1, ArmReads
<1>4. PICK word : word = (d + 32 * s + 1024 * t) % 256^3
  OBVIOUS
<1>5. /\ word \in Int /\ (word \div 1) % 32 = d /\ (word \div 32) % 32 = s
      /\ (word \div 1024) % 32 = t
  BY <1>1, <1>4, FieldsOfThree, SMT
<1>6. ArmBackend!Instruction(\h11, word) = ArmBackend!AddRegReg(d, s, t)
  <2>1. ArmBackend!Dst(word) = d /\ ArmBackend!Src1(word) = s /\ ArmBackend!Src2(word) = t
    BY <1>5, TwoPowers DEF ArmBackend!Dst, ArmBackend!Src1, ArmBackend!Src2, ArmBackend!Field
  <2>2. QED
    BY <2>1 DEF ArmBackend!Instruction
<1>7. ArmDenotes(ArmBackend!AddRegReg(d, s, t), instr, disp)
  BY DEF ArmDenotes, ArmBackend!AddRegReg, Assembly!Add
<1>8. QED
  BY <1>3, <1>4, <1>6, <1>7 DEF ArmDecodesTo

LEMMA ArmDecodesAddImmediate ==
  ASSUME NEW d \in ArmGpr, NEW s \in ArmGpr, NEW n \in Nat, n < 16384, n < Limit(ArmRegSize),
         NEW form, NEW disp,
         NEW instr, instr = Assembly!Add(d, Assembly!R(s), Assembly!I(n), form),
         NEW b, StartsWith(b, Assembly!ArmEncode(instr, disp))
  PROVE  ArmDecodesTo(b, instr, disp)
<1>1. d \in Nat /\ d < 32 /\ s \in Nat /\ s < 32
  BY DEF ArmGpr
<1>2. Assembly!ArmEncode(instr, disp) = Assembly!Bytes(d + 32 * s + 1024 * n, 3) \o <<\h12>>
  BY DEF Assembly!ArmEncode, Assembly!Add, Assembly!R, Assembly!I, Assembly!IsRegister
<1>3. ArmBackend!DecodeOne(b) =
        Decoded(ArmBackend!Instruction(\h12, (d + 32 * s + 1024 * n) % 256^3), 4)
  <2>1. \h12 \in \h10 .. \h18 /\ d + 32 * s + 1024 * n \in Int
    BY <1>1
  <2>2. QED
    BY <1>2, <2>1, ArmReads
<1>4. PICK word : word = (d + 32 * s + 1024 * n) % 256^3
  OBVIOUS
<1>5. /\ word \in Int /\ (word \div 1) % 32 = d /\ (word \div 32) % 32 = s
      /\ (word \div 1024) % 16384 = n
  BY <1>1, <1>4, FieldsOfThree, SMT
<1>6. ArmBackend!Instruction(\h12, word) = ArmBackend!AddRegImm(d, s, n)
  <2>1. ArmBackend!Dst(word) = d /\ ArmBackend!Src1(word) = s /\ ArmBackend!Field(word, 10, 14) = n
    BY <1>5, TwoPowers DEF ArmBackend!Dst, ArmBackend!Src1, ArmBackend!Src2, ArmBackend!Field
  <2>2. QED
    BY <2>1 DEF ArmBackend!Instruction
<1>7. ArmDenotes(ArmBackend!AddRegImm(d, s, n), instr, disp)
  <2>1. n \in 0 .. Limit(ArmRegSize) - 1
    BY BelowLimit
  <2>2. QED
    BY <2>1 DEF ArmDenotes, ArmBackend!AddRegImm, Assembly!Add
<1>8. QED
  BY <1>3, <1>4, <1>6, <1>7 DEF ArmDecodesTo

LEMMA ArmDecodesCmp ==
  ASSUME NEW s \in ArmGpr, NEW t \in ArmGpr, NEW form, NEW disp,
         NEW instr, instr = Assembly!Cmp(Assembly!R(s), Assembly!R(t), form),
         NEW b, StartsWith(b, Assembly!ArmEncode(instr, disp))
  PROVE  ArmDecodesTo(b, instr, disp)
<1>1. s \in Nat /\ s < 32 /\ t \in Nat /\ t < 32 /\ t < 65536
  BY DEF ArmGpr
<1>2. Assembly!ArmEncode(instr, disp) = Assembly!Bytes(s + 32 * t, 3) \o <<\h13>>
  BY DEF Assembly!ArmEncode, Assembly!Cmp, Assembly!R
<1>3. ArmBackend!DecodeOne(b) = Decoded(ArmBackend!Instruction(\h13, (s + 32 * t) % 256^3), 4)
  <2>1. \h13 \in \h10 .. \h18 /\ s + 32 * t \in Int
    BY <1>1
  <2>2. QED
    BY <1>2, <2>1, ArmReads
<1>4. PICK word : word = (s + 32 * t) % 256^3
  OBVIOUS
<1>5. word \in Int /\ (word \div 1) % 32 = s /\ (word \div 32) % 32 = t
  <2>1. word \in Int /\ (word \div 1) % 32 = s /\ (word \div 32) % 65536 = t
    BY <1>1, <1>4, FieldsOfTwo, SMT
  <2>2. (word \div 32) % 32 = t
    BY <1>1, <2>1, SMT
  <2>3. QED
    BY <2>1, <2>2, SMT
<1>6. ArmBackend!Instruction(\h13, word) = ArmBackend!CmpRegReg(s, t)
  <2>1. ArmBackend!Dst(word) = s /\ ArmBackend!Src1(word) = t
    BY <1>5, TwoPowers DEF ArmBackend!Dst, ArmBackend!Src1, ArmBackend!Src2, ArmBackend!Field
  <2>2. QED
    BY <2>1 DEF ArmBackend!Instruction
<1>7. ArmDenotes(ArmBackend!CmpRegReg(s, t), instr, disp)
  BY DEF ArmDenotes, ArmBackend!CmpRegReg, Assembly!Cmp
<1>8. QED
  BY <1>3, <1>4, <1>6, <1>7 DEF ArmDecodesTo

(* Branches and calls.                                                     *)
LEMMA ArmDecodesTransfer ==
  ASSUME NEW disp \in Int, -(256^3) <= 2 * disp, 2 * disp < 256^3, NEW to, NEW form,
         NEW instr \in {Assembly!Jump("always", to, form), Assembly!Jump("equal", to, form),
                       Assembly!CallTo(to)},
         NEW b, StartsWith(b, Assembly!ArmEncode(instr, disp))
  PROVE  ArmDecodesTo(b, instr, disp)
<1>1. ArmBackend!SignExtend24(disp % 256^3) = disp
  <2>1. 3 \in 1 .. 4
    OBVIOUS
  <2>2. ReadsAs(AsSigned(disp % 256^3, 3), disp, 3)
    BY <2>1, SignedOfBytes, Zenon DEF ReadsAs
  <2>3. AsSigned(disp % 256^3, 3) = disp
    BY <2>2, Zenon DEF ReadsAs
  <2>4. QED
    BY <2>3, Zenon DEF ArmBackend!SignExtend24, ArmBackend!AsSigned, AsSigned
<1>2. ASSUME NEW x \in \h14 .. \h16, NEW op,
             Assembly!ArmEncode(instr, disp) = Assembly!Bytes(disp, 3) \o <<x>>,
             \A m : ArmBackend!Instruction(x, m) = ArmBackend!Relative(op, ArmBackend!SignExtend24(m))
      PROVE  ArmBackend!DecodeOne(b) = Decoded(ArmBackend!Relative(op, disp), 4)
  <2>1. x \in \h10 .. \h18 /\ StartsWith(b, Assembly!Bytes(disp, 3) \o <<x>>)
    BY <1>2
  <2>2. ArmBackend!DecodeOne(b) = Decoded(ArmBackend!Instruction(x, disp % 256^3), 4)
    BY <2>1, ArmReads
  <2>3. ArmBackend!Instruction(x, disp % 256^3) = ArmBackend!Relative(op, disp)
    BY <1>1, <1>2, Zenon
  <2>4. QED
    BY <2>2, <2>3, Zenon
<1>3. CASE instr = Assembly!Jump("always", to, form)
  <2>1. instr.op = "jump" /\ instr.when = "always"
    BY <1>3 DEF Assembly!Jump
  <2>2. Assembly!ArmEncode(instr, disp) = Assembly!Bytes(disp, 3) \o <<\h14>>
    BY <1>3 DEF Assembly!ArmEncode, Assembly!Jump
  <2>3. /\ \h14 \in \h14 .. \h16
        /\ \A m : ArmBackend!Instruction(\h14, m) =
                   ArmBackend!Relative("B", ArmBackend!SignExtend24(m))
    BY DEF ArmBackend!Instruction
  <2>4. PICK e : e = ArmBackend!Relative("B", disp) /\ ArmBackend!DecodeOne(b) = Decoded(e, 4)
    BY <1>2, <2>2, <2>3
  <2>5. ArmDenotes(e, instr, disp)
    BY <2>1, <2>4 DEF ArmDenotes, ArmBackend!Relative
  <2>6. QED
    BY <2>4, <2>5 DEF ArmDecodesTo
<1>4. CASE instr = Assembly!Jump("equal", to, form)
  <2>1. instr.op = "jump" /\ instr.when = "equal"
    BY <1>4 DEF Assembly!Jump
  <2>2. Assembly!ArmEncode(instr, disp) = Assembly!Bytes(disp, 3) \o <<\h16>>
    BY <1>4 DEF Assembly!ArmEncode, Assembly!Jump
  <2>3. /\ \h16 \in \h14 .. \h16
        /\ \A m : ArmBackend!Instruction(\h16, m) =
                   ArmBackend!Relative("BEQ", ArmBackend!SignExtend24(m))
    BY DEF ArmBackend!Instruction
  <2>4. PICK e : e = ArmBackend!Relative("BEQ", disp) /\ ArmBackend!DecodeOne(b) = Decoded(e, 4)
    BY <1>2, <2>2, <2>3
  <2>5. ArmDenotes(e, instr, disp)
    BY <2>1, <2>4 DEF ArmDenotes, ArmBackend!Relative
  <2>6. QED
    BY <2>4, <2>5 DEF ArmDecodesTo
<1>5. CASE instr = Assembly!CallTo(to)
  <2>1. instr.op = "call"
    BY <1>5 DEF Assembly!CallTo
  <2>2. Assembly!ArmEncode(instr, disp) = Assembly!Bytes(disp, 3) \o <<\h15>>
    BY <1>5 DEF Assembly!ArmEncode, Assembly!CallTo
  <2>3. /\ \h15 \in \h14 .. \h16
        /\ \A m : ArmBackend!Instruction(\h15, m) =
                   ArmBackend!Relative("BL", ArmBackend!SignExtend24(m))
    BY DEF ArmBackend!Instruction
  <2>4. PICK e : e = ArmBackend!Relative("BL", disp) /\ ArmBackend!DecodeOne(b) = Decoded(e, 4)
    BY <1>2, <2>2, <2>3
  <2>5. ArmDenotes(e, instr, disp)
    BY <2>1, <2>4 DEF ArmDenotes, ArmBackend!Relative
  <2>6. QED
    BY <2>4, <2>5 DEF ArmDecodesTo
<1>6. QED
  BY <1>3, <1>4, <1>5

LEMMA ArmDecodesRet ==
  ASSUME NEW disp, NEW instr, instr = Assembly!Ret,
         NEW b, StartsWith(b, Assembly!ArmEncode(instr, disp))
  PROVE  ArmDecodesTo(b, instr, disp)
<1>1. instr.op = "ret"
  BY DEF Assembly!Ret
<1>2. Assembly!ArmEncode(instr, disp) = <<0, 0, 0, \h18>>
  BY DEF Assembly!ArmEncode, Assembly!Ret
<1>3. b \in Seq(Octet) /\ Len(b) >= 4 /\ b[4] = \h18
  <2>1. Len(<<0, 0, 0, \h18>>) = 4 /\ <<0, 0, 0, \h18>>[4] = \h18 /\ 4 \in 1 .. 4
    OBVIOUS
  <2>2. QED
    BY <1>2, <2>1 DEF StartsWith
<1>4. ArmBackend!DecodeOne(b) = Decoded(ArmBackend!Ret, 4)
  BY <1>3 DEF ArmBackend!DecodeOne, ArmBackend!Instruction, ArmBackend!Decoded, Decoded
<1>5. ArmDenotes(ArmBackend!Ret, instr, disp)
  BY <1>1 DEF ArmDenotes, ArmBackend!Ret
<1>6. QED
  BY <1>4, <1>5 DEF ArmDecodesTo

ArmOps(b, address) == ArmBackend!Lift(ArmBackend!DecodeOne(b).instruction, address)

ArmTarget(disp, address) == (address + disp) % AddressLimit

LEMMA ArmLifts ==
  ASSUME NEW instr, NEW disp \in Int, ArmInstruction(instr, disp),
         NEW b, StartsWith(b, Assembly!ArmEncode(instr, disp)), NEW address \in Address
  PROVE  /\ ArmBackend!DecodeOne(b).kind = "Decoded" /\ ArmBackend!DecodeOne(b).length = 4
         /\ LiftsTo(ArmOps(b, address), instr, ArmGpr, ArmRegSize, ArmBackend!Flags,
                    ArmTarget(disp, address))
<1>1. ArmDecodesTo(b, instr, disp)
  <2>1. CASE \E d \in ArmGpr, n \in Nat : \E form :
               n < 65536 /\ n < Limit(ArmRegSize) /\ instr = Assembly!Mov(d, Assembly!I(n), form)
    BY <2>1, ArmDecodesMov
  <2>2. CASE \E d, s, t \in ArmGpr : \E form :
               instr = Assembly!Add(d, Assembly!R(s), Assembly!R(t), form)
    BY <2>2, ArmDecodesAddRegister
  <2>3. CASE \E d, s \in ArmGpr, n \in Nat : \E form :
               /\ n < 16384 /\ n < Limit(ArmRegSize)
               /\ instr = Assembly!Add(d, Assembly!R(s), Assembly!I(n), form)
    BY <2>3, ArmDecodesAddImmediate
  <2>4. CASE \E s, t \in ArmGpr : \E form : instr = Assembly!Cmp(Assembly!R(s), Assembly!R(t), form)
    BY <2>4, ArmDecodesCmp
  <2>5. CASE /\ disp \in Int /\ -(256^3) <= 2 * disp /\ 2 * disp < 256^3
             /\ \E to, form : instr \in {Assembly!Jump("always", to, form),
                                        Assembly!Jump("equal", to, form), Assembly!CallTo(to)}
    BY <2>5, ArmDecodesTransfer, Zenon
  <2>6. CASE instr = Assembly!Ret
    BY <2>6, ArmDecodesRet
  <2>7. QED
    BY <2>1, <2>2, <2>3, <2>4, <2>5, <2>6, SMT DEF ArmInstruction
<1>2. PICK d : ArmBackend!DecodeOne(b) = Decoded(d, 4) /\ ArmDenotes(d, instr, disp)
  BY <1>1 DEF ArmDecodesTo
<1>3. PICK result : result = ArmBackend!DecodeOne(b)
  OBVIOUS
<1>4. result.kind = "Decoded" /\ result.length = 4 /\ result.instruction = d
  BY <1>2, <1>3 DEF Decoded
<1>5. ArmOps(b, address) = ArmBackend!Lift(d, address)
  BY <1>3, <1>4 DEF ArmOps
<1>6. LiftsTo(ArmBackend!Lift(d, address), instr, ArmGpr, ArmRegSize, ArmBackend!Flags,
              (address + disp) % AddressLimit)
  BY <1>2, ArmLiftsTo
<1>7. QED
  BY <1>3, <1>4, <1>5, <1>6, Zenon DEF ArmTarget

(* The same for the mock ARM instructions, but for the BNE                 *)
(* (arch-arm/src/decoder.rs:76-113, arch-arm/src/lifter.rs:37-76).           *)
THEOREM ArmLiftMeans ==
  ASSUME NEW instr, NEW disp \in Int, ArmInstruction(instr, disp),
         NEW b, StartsWith(b, Assembly!ArmEncode(instr, disp)), NEW address \in Address
  PROVE  /\ ArmBackend!DecodeOne(b).kind = "Decoded" /\ ArmBackend!DecodeOne(b).length = 4
         /\ Does(ArmOps(b, address), "arm", instr, ArmGpr, ArmRegSize, ArmBackend!Flags,
                 ArmTarget(disp, address))
  BY ArmLifts, ArmRegisters32, LiftedDoes

(* So does the C that is printed for straight-line mock ARM code           *)
(* (arch-arm/src/lifter.rs:37-76, output-c/src/lib.rs:155-252).            *)
THEOREM ArmCodeMeans ==
  ASSUME NEW instrs, Len(instrs) \in Nat, NEW disp, NEW at, NEW address,
         \A j \in 1 .. Len(instrs) :
           /\ disp[j] \in Int /\ ArmInstruction(instrs[j], disp[j])
           /\ instrs[j].op = "jump" => instrs[j].to \in Nat
           /\ StartsWith(at[j], Assembly!ArmEncode(instrs[j], disp[j]))
           /\ address[j] \in Address,
         NEW vars,
         \A j \in 1 .. Len(instrs) :
           Covers(vars, ArmOps(at[j], address[j]), ArmGpr, ArmRegSize, ArmBackend!Flags),
         NEW m, Executes("arm", instrs, Limit(ArmRegSize), m),
         m[0] \in Machines(ArmGpr, ArmRegSize),
         NEW first, Declares(first, vars), InC(m[0], first, ArmBackend!Flags)
  PROVE  \E e : /\ e[0] = first
               /\ Follows([j \in 1 .. Len(instrs) |-> ArmOps(at[j], address[j])], instrs,
                          [j \in 1 .. Len(instrs) |-> ArmTarget(disp[j], address[j])],
                          vars, ArmBackend!Flags, m, e)
<1>1. PICK code : code = [j \in 1 .. Len(instrs) |-> ArmOps(at[j], address[j])]
  OBVIOUS
<1>2. PICK targets : targets = [j \in 1 .. Len(instrs) |-> ArmTarget(disp[j], address[j])]
  OBVIOUS
<1>3. ASSUME NEW j \in 1 .. Len(instrs)
      PROVE  /\ DoesInC(code[j], "arm", instrs[j], ArmGpr, ArmRegSize, ArmBackend!Flags,
                        targets[j])
             /\ Operates(instrs[j], ArmGpr) /\ (instrs[j].op = "jump" => instrs[j].to \in Nat)
             /\ Covers(vars, code[j], ArmGpr, ArmRegSize, ArmBackend!Flags)
  <2>1. PICK ops, target : /\ ops = ArmOps(at[j], address[j]) /\ ops = code[j]
                           /\ target = ArmTarget(disp[j], address[j]) /\ target = targets[j]
    BY <1>1, <1>2
  <2>2. LiftsTo(ops, instrs[j], ArmGpr, ArmRegSize, ArmBackend!Flags, target)
    BY <2>1, ArmLifts
  <2>3. /\ DoesInC(ops, "arm", instrs[j], ArmGpr, ArmRegSize, ArmBackend!Flags, target)
        /\ Operates(instrs[j], ArmGpr)
    BY <2>2, ArmRegisters32, LiftedInC
  <2>4. QED
    BY <2>1, <2>3
<1>4. \E e : e[0] = first /\ Follows(code, instrs, targets, vars, ArmBackend!Flags, m, e)
  BY <1>3, ArmRegisters32, BlockIsExact
<1>5. QED
  BY <1>1, <1>2, <1>4

=============================================================================
