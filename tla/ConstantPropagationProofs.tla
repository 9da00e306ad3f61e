---------------------- MODULE ConstantPropagationProofs ----------------------
(***************************************************************************)
(* Proofs about the constant propagation pass, for every lifted function:  *)
(* any number of blocks, any control flow graph, any bodies, registers of  *)
(* any width.                                                              *)
(*                                                                         *)
(* The facts the pass rewrites for are those of the walks of the blocks    *)
(* from the solution of the dataflow equations (WalkInv), which the        *)
(* theorems about the dataflow engine provide (SolverInv).  A machine that *)
(* runs the original function next to one that runs the rewritten function *)
(* finds every claim about a register the function has assigned true, so   *)
(* that what is substituted and folded is what the registers hold          *)
(* (RunInv).  A second pass finds the solution the first one found: the    *)
(* old solution solves the equations of the rewritten function, whose      *)
(* instructions claim no more than the original ones above it, and both    *)
(* solutions are the greatest (SecondPassInv).                             *)
(***************************************************************************)
EXTENDS ConstantPropagation, WordArithmetic, WordProofs, SequenceTheorems, TLAPS

-----------------------------------------------------------------------------
(* Words: what the folder computes is what the machine computes.           *)

LEMMA WidthType ==
  ASSUME NEW vn, FitsWord(vn)
  PROVE  Bits(vn) \in 1 .. WordBits
<1>1. \A x, y \in Nat \ {0} : x * y \in Nat \ {0}
  OBVIOUS
<1>2. QED
  BY <1>1, ByteAssumption, WordAssumption DEF FitsWord, Bits

LEMMA ValuesFitWord ==
  ASSUME NEW vn, FitsWord(vn)
  PROVE  Values(vn) \subseteq Word /\ {0, 1} \subseteq Values(vn)
<1>1. Bits(vn) \in Nat \ {0} /\ Bits(vn) <= WordBits
  BY WidthType
<1>2. TwoTo[Bits(vn)] <= TwoTo[WordBits]
  BY <1>1, TwoToMonotone, WordAssumption
<1>3. TwoTo[Bits(vn)] \in Nat /\ TwoTo[WordBits] \in Nat /\ TwoTo[Bits(vn)] >= 2
  BY <1>1, TwoToType, WordAssumption
<1>4. QED
  BY <1>2, <1>3 DEF Values, Word

LEMMA MaskIsMod ==
  ASSUME NEW vn, FitsWord(vn), NEW x \in Word
  PROVE  Mask(x, vn.size) = x % TwoTo[Bits(vn)]
<1>1. Bits(vn) \in Nat \ {0} /\ Bits(vn) <= WordBits /\ WordBits \in Nat
  BY WidthType, WordAssumption
<1>2. Mask(x, vn.size) = IF Bits(vn) >= WordBits THEN x ELSE x % TwoTo[Bits(vn)]
  BY <1>1 DEF Mask, Bits
<1>3. CASE Bits(vn) < WordBits
  BY <1>1, <1>2, <1>3
<1>4. CASE Bits(vn) = WordBits
  <2>1. TwoTo[WordBits] \in Nat \ {0} /\ x \in 0 .. TwoTo[WordBits] - 1
    BY <1>1, TwoToUnfolds DEF Word
  <2>2. x % TwoTo[WordBits] = x
    BY <2>1, ModSmall
  <2>3. QED
    BY <1>1, <1>2, <1>4, <2>2
<1>5. QED
  BY <1>1, <1>3, <1>4

(* Sums and differences: the wrapped word is masked to the destination.    *)
LEMMA MaskedWord ==
  ASSUME NEW vn, FitsWord(vn), NEW x \in Int
  PROVE  /\ Mask(x % TwoTo[WordBits], vn.size) = x % TwoTo[Bits(vn)]
         /\ x % TwoTo[Bits(vn)] \in Values(vn)
<1>1. Bits(vn) \in Nat /\ Bits(vn) <= WordBits /\ WordBits \in Nat
  BY WidthType, WordAssumption
<1>2. TwoTo[WordBits] \in Nat \ {0} /\ TwoTo[Bits(vn)] \in Nat \ {0}
  BY <1>1, TwoToUnfolds
<1>3. x % TwoTo[WordBits] \in Word
  BY <1>2, ModType DEF Word
<1>4. QED
  BY <1>1, <1>2, <1>3, MaskIsMod, ModTwoTo, ModType DEF Values

LEMMA SignedIsInteger ==
  ASSUME NEW vn, FitsWord(vn), NEW x \in Values(vn)
  PROVE  Signed(x, vn.size) = AsInteger(x, Bits(vn)) /\ AsInteger(x, Bits(vn)) \in Int
<1>1. PICK n \in Nat \ {0} : n = Bits(vn) /\ n <= WordBits
  BY WidthType
<1>2. x \in 0 .. TwoTo[n] - 1 /\ x % TwoTo[n] = x
  <2>1. x \in 0 .. TwoTo[n] - 1 /\ TwoTo[n] \in Nat \ {0}
    BY <1>1, TwoToType DEF Values
  <2>2. QED
    BY <2>1, ModSmall
<1>3. Signed(x, vn.size) = IF x >= TwoTo[n - 1] THEN x - TwoTo[n] ELSE x
  <2>1. vn.size * ByteBits = n
    BY <1>1 DEF Bits
  <2>2. (IF n = 0 \/ n >= WordBits THEN WordBits ELSE n) = n
    BY <1>1, WordAssumption
  <2>3. QED
    BY <1>2, <2>1, <2>2 DEF Signed
<1>4. QED
  BY <1>1, <1>2, <1>3, IntegerIs

(* Folding computes what the machine computes, and a value that fits the   *)
(* destination, for every operation and every width.                       *)
THEOREM FoldingAgrees ==
  ASSUME NEW op, op.op \in BinaryOps, FitsWord(op.dest), FitsWord(op.lhs),
         op.lhs.size = op.rhs.size,
         NEW x \in Values(op.lhs), NEW y \in Values(op.rhs)
  PROVE  Compute(op, x, y) = Result(op, x, y) /\ Compute(op, x, y) \in Values(op.dest)
<1>1. FitsWord(op.rhs) /\ Bits(op.rhs) = Bits(op.lhs) /\ Values(op.rhs) = Values(op.lhs)
  BY DEF FitsWord, Bits, Values
<1>2. x \in Word /\ y \in Word /\ x \in Int /\ y \in Int /\ {0, 1} \subseteq Values(op.dest)
  BY <1>1, ValuesFitWord DEF Values
<1>3. /\ Mask(x, op.lhs.size) = x % TwoTo[Bits(op.lhs)]
      /\ Mask(y, op.lhs.size) = y % TwoTo[Bits(op.lhs)]
  BY <1>2, MaskIsMod
<1>4. /\ Signed(x, op.lhs.size) = AsInteger(x, Bits(op.lhs))
      /\ Signed(y, op.lhs.size) = AsInteger(y, Bits(op.lhs))
      /\ AsInteger(x, Bits(op.lhs)) \in Int /\ AsInteger(y, Bits(op.lhs)) \in Int
  BY <1>1, SignedIsInteger
<1>5. \A p \in BOOLEAN : Bool(p) = Truth(p) /\ Bool(p) \in Values(op.dest)
  BY <1>2 DEF Bool, Truth
<1>6. CASE op.op = "IntAdd"
  <2>1. x + y \in Int
    BY <1>2
  <2>2. QED
    BY <1>6, <2>1, MaskedWord DEF Compute, Result
<1>7. CASE op.op = "IntSub"
  <2>1. x - y \in Int
    BY <1>2
  <2>2. QED
    BY <1>7, <2>1, MaskedWord DEF Compute, Result
<1>8. CASE op.op = "IntEqual"
  BY <1>3, <1>5, <1>8 DEF Compute, Result
<1>9. CASE op.op = "IntNotEqual"
  BY <1>3, <1>5, <1>9 DEF Compute, Result
<1>10. CASE op.op = "IntSless"
  <2>1. /\ Compute(op, x, y) = Bool(AsInteger(x, Bits(op.lhs)) < AsInteger(y, Bits(op.lhs)))
        /\ Result(op, x, y) = Truth(AsInteger(x, Bits(op.lhs)) < AsInteger(y, Bits(op.lhs)))
    BY <1>4, <1>10 DEF Compute, Result
  <2>2. QED
    BY <1>2, <2>1 DEF Bool, Truth
<1>11. CASE op.op = "IntSlessEqual"
  <2>1. /\ Compute(op, x, y) = Bool(AsInteger(x, Bits(op.lhs)) <= AsInteger(y, Bits(op.lhs)))
        /\ Result(op, x, y) = Truth(AsInteger(x, Bits(op.lhs)) <= AsInteger(y, Bits(op.lhs)))
    BY <1>4, <1>11 DEF Compute, Result
  <2>2. QED
    BY <1>2, <2>1 DEF Bool, Truth
<1>12. QED
  BY <1>6, <1>7, <1>8, <1>9, <1>10, <1>11, BinaryCases

-----------------------------------------------------------------------------
(* Every operation on every pair of operands.                              *)

(* The operands fit the operation.                                         *)
OperandsFit ==
  /\ operation \in Operations
  /\ left \in Values(operation.lhs) /\ right \in Values(operation.rhs)

LEMMA OperationFields ==
  ASSUME NEW op \in Operations
  PROVE  \E size \in Sizes :
           /\ op.op \in BinaryOps
           /\ op.dest = Register(0, IF op.op \in {"IntAdd", "IntSub"} THEN size ELSE 1)
           /\ op.lhs = Register(1, size) /\ op.rhs = Register(2, size)
           /\ FitsWord(op.dest) /\ FitsWord(op.lhs) /\ FitsWord(op.rhs)
           /\ op.lhs.size = size /\ op.rhs.size = size
           /\ op.dest.size = IF op.op \in {"IntAdd", "IntSub"} THEN size ELSE 1
<1>1. PICK name \in BinaryOps, size \in Sizes :
        op = Operation(name, size, IF name \in {"IntAdd", "IntSub"} THEN size ELSE 1)
  BY DEF Operations, BinaryOps
<1>2. PICK d : d = IF name \in {"IntAdd", "IntSub"} THEN size ELSE 1
  OBVIOUS
<1>3. /\ op.op = name /\ op.dest = Register(0, d) /\ op.lhs = Register(1, size)
      /\ op.rhs = Register(2, size)
  BY <1>1, <1>2 DEF Operation, Binary
<1>4. /\ op.dest.size = d /\ op.lhs.size = size /\ op.rhs.size = size
      /\ Bits(op.dest) = d * ByteBits /\ Bits(op.lhs) = size * ByteBits
      /\ Bits(op.rhs) = size * ByteBits
  BY <1>3 DEF Register, Varnode, Bits
<1>5. size \in Nat \ {0} /\ size * ByteBits <= WordBits
  BY SizesAssumption
<1>6. d \in Nat \ {0} /\ d * ByteBits <= WordBits
  <2>1. \A m, n \in Nat \ {0} : 1 * n <= m * n
    OBVIOUS
  <2>2. 1 * ByteBits <= size * ByteBits /\ ByteBits \in Nat
    BY <1>5, <2>1, ByteAssumption
  <2>3. 1 * ByteBits <= WordBits
    <3>1. PICK p \in Nat : p = 1 * ByteBits
      BY <2>2
    <3>2. PICK q \in Nat : q = size * ByteBits
      BY <1>5, LimitType
    <3>3. QED
      BY <1>5, <2>2, <3>1, <3>2, WordAssumption
  <2>4. QED
    BY <1>2, <1>5, <2>3
<1>7. FitsWord(op.dest) /\ FitsWord(op.lhs) /\ FitsWord(op.rhs)
  BY <1>4, <1>5, <1>6 DEF FitsWord
<1>8. QED
  BY <1>2, <1>3, <1>4, <1>7

LEMMA OperandsAlwaysFit == ArithmeticSpec => []OperandsFit
<1>1. ArithmeticInit => OperandsFit
  <2> SUFFICES ASSUME ArithmeticInit PROVE OperandsFit
    OBVIOUS
  <2>1. FitsWord(operation.lhs) /\ FitsWord(operation.rhs)
    BY OperationFields DEF ArithmeticInit
  <2>2. QED
    BY <2>1, ValuesFitWord DEF ArithmeticInit, OperandsFit
<1>2. OperandsFit /\ [ArithmeticNext]_<<operation, operands>> => OperandsFit'
  <2> SUFFICES ASSUME OperandsFit, [ArithmeticNext]_<<operation, operands>> PROVE OperandsFit'
    OBVIOUS
  <2>1. CASE UNCHANGED <<operation, operands>>
    BY <2>1 DEF OperandsFit, operands
  <2>2. ASSUME left + 1 \in Values(operation.lhs), left' = left + 1, right' = right,
               UNCHANGED operation
        PROVE  OperandsFit'
    BY <2>2 DEF OperandsFit
  <2>3. ASSUME right' = (right + 1) % TwoTo[Bits(operation.rhs)], left' = left,
               UNCHANGED operation
        PROVE  OperandsFit'
    <3>1. FitsWord(operation.rhs)
      BY OperationFields DEF OperandsFit
    <3>2. right + 1 \in Int
      BY <3>1, ValuesFitWord DEF OperandsFit, Values
    <3>3. (right + 1) % TwoTo[Bits(operation.rhs)] \in Values(operation.rhs)
      BY <3>1, <3>2, MaskedWord
    <3>4. QED
      BY <2>3, <3>3 DEF OperandsFit
  <2>4. QED
    BY <2>1, <2>2, <2>3 DEF ArithmeticNext
<1>3. QED
  BY <1>1, <1>2, PTL DEF ArithmeticSpec

(* Folding is exact in every state: the folder's masking, wrap-around and  *)
(* sign extension are those of the machine                                 *)
(* (constant_propagation.rs:103-127).                                      *)
THEOREM FoldsExactly == ArithmeticSpec => []FoldingIsExact
<1>1. OperandsFit => FoldingIsExact
  <2> SUFFICES ASSUME OperandsFit PROVE FoldingIsExact
    OBVIOUS
  <2>1. /\ operation.op \in BinaryOps /\ FitsWord(operation.dest) /\ FitsWord(operation.lhs)
        /\ operation.lhs.size = operation.rhs.size
    BY OperationFields DEF OperandsFit
  <2>2. Compute(operation, left, right) = Result(operation, left, right)
    BY <2>1, FoldingAgrees DEF OperandsFit
  <2>3. EvalBinop(operation, Const(left), Const(right)) = Const(Compute(operation, left, right))
    BY DEF EvalBinop, Const
  <2>4. QED
    BY <2>2, <2>3 DEF FoldingIsExact
<1>2. QED
  BY <1>1, OperandsAlwaysFit, PTL

(* The declarations of three registers give each its size.                 *)
LEMMA VariablesHold ==
  ASSUME OperandsFit, operation.lhs.size = StdSize(operation.lhs.size)
  PROVE  /\ VarName(operation.dest) \in DOMAIN Variables
         /\ Variables[VarName(operation.dest)].type = UnsignedInt(operation.dest.size)
         /\ Variables[VarName(operation.lhs)] =
              [type |-> UnsignedInt(operation.lhs.size), value |-> left]
         /\ Variables[VarName(operation.rhs)] =
              [type |-> UnsignedInt(operation.rhs.size), value |-> right]
<1>1. PICK o \in Operations : o = operation
  BY DEF OperandsFit
<1>2. PICK d : d = IF o.op \in {"IntAdd", "IntSub"} THEN o.lhs.size ELSE 1
  OBVIOUS
<1>3. PICK size \in Sizes :
        /\ o.op \in BinaryOps
        /\ o.dest = Register(0, d) /\ o.lhs = Register(1, size) /\ o.rhs = Register(2, size)
        /\ o.dest.size = d /\ o.lhs.size = size /\ o.rhs.size = size
        /\ FitsWord(o.lhs) /\ FitsWord(o.rhs)
  BY <1>2, OperationFields
<1>4. PICK declared : declared = Declarations({o, Copy(o.lhs, o.rhs), Copy(o.rhs, o.lhs)}, <<>>)
  OBVIOUS
<1>5. declared = {[of |-> v, name |-> VarName(v), type |-> UnsignedType(v.size)]
                  : v \in {o.dest, o.lhs, o.rhs}}
  <2>1. PICK ops : ops = {o, Copy(o.lhs, o.rhs), Copy(o.rhs, o.lhs)}
    OBVIOUS
  <2>2. \A p \in ops : HasDest(p) /\ p.dest \in {o.dest, o.lhs, o.rhs}
    BY <1>3, <2>1 DEF HasDest, Copy
  <2>3. \A v \in {o.dest, o.lhs, o.rhs} : v.space \in {"Register", "Unique"}
    BY <1>3 DEF Register, Varnode
  <2>4. \A v \in {o.dest, o.lhs, o.rhs} : \E p \in ops : p.dest = v
    BY <2>1 DEF Copy
  <2>5. {p.dest : p \in {q \in ops : HasDest(q) /\ q.dest.space \in {"Register", "Unique"}}} =
          {o.dest, o.lhs, o.rhs}
    BY <2>2, <2>3, <2>4
  <2>6. DOMAIN <<>> = {}
    OBVIOUS
  <2>7. QED
    BY <1>4, <2>1, <2>5, <2>6 DEF Declarations
<1>6. /\ VarName(o.dest) # VarName(o.lhs) /\ VarName(o.dest) # VarName(o.rhs)
      /\ VarName(o.lhs) # VarName(o.rhs)
  BY <1>3 DEF Register, Varnode, VarName
<1>7. ASSUME NEW v \in {o.dest, o.lhs, o.rhs}
      PROVE  TypeOfName(declared, VarName(v)) = UnsignedType(v.size)
  <2>1. PICK e : e = [of |-> v, name |-> VarName(v), type |-> UnsignedType(v.size)]
    OBVIOUS
  <2>2. e \in declared /\ e.name = VarName(v) /\ e.type = UnsignedType(v.size)
    BY <1>5, <2>1
  <2>3. \A c \in declared : c.name = VarName(v) => c = e
    BY <1>5, <1>6, <2>1
  <2>4. (CHOOSE c \in declared : c.name = VarName(v)) = e
    BY <2>2, <2>3
  <2>5. QED
    BY <2>2, <2>4 DEF TypeOfName
<1>8. UnsignedType(d) = UnsignedInt(d) /\ UnsignedType(size) = UnsignedInt(size)
  <2>1. d = StdSize(d) /\ size = StdSize(size)
    BY <1>1, <1>2, <1>3 DEF StdSize
  <2>2. QED
    BY <2>1 DEF UnsignedType, UnsignedInt
<1>9. {e.name : e \in declared} = {VarName(o.dest), VarName(o.lhs), VarName(o.rhs)}
  <2>1. \A e \in declared : e.name \in {VarName(o.dest), VarName(o.lhs), VarName(o.rhs)}
    BY <1>5
  <2>2. ASSUME NEW v \in {o.dest, o.lhs, o.rhs} PROVE \E e \in declared : e.name = VarName(v)
    <3>1. PICK e : e = [of |-> v, name |-> VarName(v), type |-> UnsignedType(v.size)]
      OBVIOUS
    <3>2. e \in declared /\ e.name = VarName(v)
      BY <1>5, <3>1
    <3>3. QED
      BY <3>2
  <2>3. QED
    BY <2>1, <2>2
<1>10. /\ Variables[VarName(o.dest)] = TypedValue(0, TypeOfName(declared, VarName(o.dest)))
       /\ Variables[VarName(o.lhs)] = TypedValue(left, TypeOfName(declared, VarName(o.lhs)))
       /\ Variables[VarName(o.rhs)] = TypedValue(right, TypeOfName(declared, VarName(o.rhs)))
       /\ DOMAIN Variables = {VarName(o.dest), VarName(o.lhs), VarName(o.rhs)}
  <2> DEFINE Declared ==
        Declarations({operation, Copy(operation.lhs, operation.rhs),
                      Copy(operation.rhs, operation.lhs)}, <<>>)
             TypeOf(v) == TypeOfName(Declared, VarName(v))
  <2>1. Variables = [name \in {e.name : e \in Declared} |->
           CASE name = VarName(operation.dest) -> TypedValue(0, TypeOf(operation.dest))
             [] name = VarName(operation.lhs) -> TypedValue(left, TypeOf(operation.lhs))
             [] name = VarName(operation.rhs) -> TypedValue(right, TypeOf(operation.rhs))]
    BY DEF Variables
  <2>2. Declared = declared
    BY <1>1, <1>4
  <2>3. \A v : TypeOf(v) = TypeOfName(declared, VarName(v))
    BY <2>2
  <2> HIDE DEF Declared, TypeOf
  <2>4. QED
    BY <1>1, <1>6, <1>9, <2>1, <2>2, <2>3
<1>11. ASSUME NEW v, v.size \in Nat \ {0}, NEW n \in Values(v)
       PROVE  TypedValue(n, UnsignedInt(v.size)) = [type |-> UnsignedInt(v.size), value |-> n]
  <2>1. n \in 0 .. Limit(v.size) - 1 /\ Limit(v.size) \in Nat
    BY <1>11, LimitType DEF Values, Bits, Limit
  <2>2. n \in Int /\ 0 <= n /\ n < Limit(v.size)
    BY <2>1
  <2>3. QED
    BY <1>11, <2>2, InRangeIntro, TypedValueKeeps
<1>12. /\ o.lhs.size \in Nat \ {0} /\ o.rhs.size \in Nat \ {0}
       /\ left \in Values(o.lhs) /\ right \in Values(o.rhs)
  BY <1>1, <1>3 DEF OperandsFit, FitsWord
<1>13. Variables[VarName(o.dest)].type = UnsignedInt(o.dest.size)
  BY <1>3, <1>7, <1>8, <1>10 DEF TypedValue
<1>14. /\ Variables[VarName(o.lhs)] = [type |-> UnsignedInt(o.lhs.size), value |-> left]
       /\ Variables[VarName(o.rhs)] = [type |-> UnsignedInt(o.rhs.size), value |-> right]
  <2>1. TypeOfName(declared, VarName(o.lhs)) = UnsignedInt(o.lhs.size)
    BY <1>3, <1>7, <1>8
  <2>2. TypeOfName(declared, VarName(o.rhs)) = UnsignedInt(o.rhs.size)
    BY <1>3, <1>7, <1>8
  <2>3. QED
    BY <1>10, <1>11, <1>12, <2>1, <2>2
<1>15. QED
  BY <1>1, <1>10, <1>13, <1>14

(* What is printed for an operation is exact in every state, with both     *)
(* operands registers and with either of them a literal                    *)
(* (output-c/src/lib.rs:155-252).                                          *)
THEOREM PrintsExactly == ArithmeticSpec => []PrintedIsExact
<1>1. OperandsFit => PrintedIsExact
  <2> SUFFICES ASSUME OperandsFit, operation.lhs.size = StdSize(operation.lhs.size),
                      NEW form \in Forms
               PROVE  RunStatement(Statement(form, <<>>), Variables)
                        [VarName(operation.dest)].value = Result(operation, left, right)
    BY DEF PrintedIsExact
  <2>1. PICK o \in Operations : o = operation
    BY DEF OperandsFit
  <2>2. PICK size \in Sizes :
          /\ o.op \in BinaryOps /\ o.lhs = Register(1, size) /\ o.rhs = Register(2, size)
          /\ FitsWord(o.lhs) /\ o.lhs.size = size /\ o.rhs.size = size
          /\ o.dest.size = IF o.op \in {"IntAdd", "IntSub"} THEN size ELSE 1
    BY OperationFields
  <2>3. /\ size \in Nat \ {0} /\ size = StdSize(size) /\ size <= LongSize
        /\ size * ByteBits <= WordBits
    BY <2>1, <2>2, SizesAssumption
  <2>4. /\ form.op = o.op /\ form.dest = o.dest
        /\ \/ form.lhs = o.lhs /\ form.rhs = o.rhs
           \/ form.lhs = Constant(left, size) /\ form.rhs = o.rhs
           \/ form.lhs = o.lhs /\ form.rhs = Constant(right, size)
    <3>1. PICK name, x, y, z : o = [op |-> name, dest |-> x, lhs |-> y, rhs |-> z]
      BY <2>1 DEF Operations, Operation, Binary
    <3>2. \/ form = o \/ form = [o EXCEPT !.lhs = Constant(left, size)]
          \/ form = [o EXCEPT !.rhs = Constant(right, size)]
      BY <2>1, <2>2 DEF Forms
    <3>3. QED
      BY <3>1, <3>2
  <2>5. /\ \A n : Constant(n, size).space = "Constant" /\ Constant(n, size).offset = n
                  /\ Constant(n, size).size = size /\ Bits(Constant(n, size)) = size * ByteBits
        /\ o.lhs.space = "Register" /\ o.rhs.space = "Register"
    BY <2>2 DEF Constant, Register, Varnode, Bits
  <2>6. /\ form.lhs.size = size /\ form.rhs.size = size /\ FitsWord(form.lhs)
        /\ form.lhs.space # "Constant" \/ form.rhs.space # "Constant"
    BY <2>2, <2>3, <2>4, <2>5 DEF FitsWord
  <2>7. left \in 0 .. Limit(size) - 1 /\ right \in 0 .. Limit(size) - 1
    BY <2>1, <2>2 DEF OperandsFit, Values, Bits, Limit
  <2>8. PICK t : Reads(form.lhs, Variables, left, t)
    <3>1. CASE form.lhs = o.lhs
      BY <2>1, <2>2, <2>5, <2>7, <3>1, VariablesHold DEF Reads
    <3>2. CASE form.lhs = Constant(left, size)
      BY <2>5, <2>7, <3>2 DEF Reads
    <3>3. QED
      BY <2>4, <3>1, <3>2
  <2>9. PICK u : Reads(form.rhs, Variables, right, u)
    <3>1. CASE form.rhs = o.rhs
      BY <2>1, <2>2, <2>5, <2>7, <3>1, VariablesHold DEF Reads
    <3>2. CASE form.rhs = Constant(right, size)
      BY <2>5, <2>7, <3>2 DEF Reads
    <3>3. QED
      BY <2>4, <3>1, <3>2
  <2>10. RunStatement(Statement(form, <<>>), Variables)[VarName(form.dest)].value =
           Result(form, left, right)
    <3>1. /\ VarName(form.dest) \in DOMAIN Variables
          /\ Variables[VarName(form.dest)].type = UnsignedInt(form.dest.size)
      BY <2>1, <2>4, VariablesHold
    <3>2. /\ form.dest.size \in Nat \ {0}
          /\ form.op \in {"IntAdd", "IntSub"} => form.dest.size = form.lhs.size
      BY <2>2, <2>3, <2>4, <2>6
    <3>3. form.lhs.size = StdSize(form.lhs.size) /\ form.lhs.size <= LongSize
      BY <2>3, <2>6
    <3>4. /\ form.op \in BinaryOps /\ form.lhs.size \in Nat \ {0}
          /\ form.rhs.size = form.lhs.size
          /\ form.lhs.space # "Constant" \/ form.rhs.space # "Constant"
      BY <2>2, <2>3, <2>4, <2>6
    <3>5. QED
      BY <2>8, <2>9, <3>1, <3>2, <3>3, <3>4, StatementIsExact, Zenon
  <2>11. Bits(form.lhs) = Bits(o.lhs)
    BY <2>2, <2>6 DEF Bits
  <2>12. Result(form, left, right) = Result(o, left, right)
    BY <2>4, <2>11 DEF Result
  <2>13. QED
    BY <2>1, <2>4, <2>10, <2>12
<1>2. QED
  BY <1>1, OperandsAlwaysFit, PTL

-----------------------------------------------------------------------------
(* Values.                                                                 *)

LEMMA MergeValueType ==
  ASSUME NEW a \in ConstValue, NEW c \in ConstValue
  PROVE  MergeValue(a, c) \in ConstValue
  BY DEF MergeValue, ConstValue

(* The documented laws of merge hold of single values.                     *)
LEMMA MergeValueLaws ==
  ASSUME NEW a \in ConstValue, NEW c \in ConstValue, NEW d \in ConstValue
  PROVE  /\ MergeValue(a, c) = MergeValue(c, a)
         /\ MergeValue(a, a) = a
         /\ MergeValue(a, MergeValue(c, d)) = MergeValue(MergeValue(a, c), d)
<1>1. TopValue # NotConstant
  BY DEF TopValue, NotConstant
<1>2. QED
  BY <1>1 DEF MergeValue

LEMMA MergeValueBelowBoth ==
  ASSUME NEW a, NEW c
  PROVE  BelowValue(MergeValue(a, c), a) /\ BelowValue(MergeValue(a, c), c)
<1>1. TopValue # NotConstant
  BY DEF TopValue, NotConstant
<1>2. QED
  BY <1>1 DEF MergeValue, BelowValue

LEMMA MergeValueGreatest ==
  ASSUME NEW a, NEW c, NEW l, BelowValue(l, a), BelowValue(l, c)
  PROVE  BelowValue(l, MergeValue(a, c))
<1>1. TopValue # NotConstant
  BY DEF TopValue, NotConstant
<1>2. QED
  BY <1>1 DEF MergeValue, BelowValue

LEMMA BelowValueReflexive ==
  ASSUME NEW a
  PROVE  BelowValue(a, a) /\ BelowValue(a, TopValue)
  BY DEF BelowValue

LEMMA BelowValueTransitive ==
  ASSUME NEW a, NEW c, NEW d, BelowValue(a, c), BelowValue(c, d)
  PROVE  BelowValue(a, d)
<1>1. TopValue # NotConstant
  BY DEF TopValue, NotConstant
<1>2. QED
  BY <1>1 DEF BelowValue

-----------------------------------------------------------------------------
(* States.                                                                 *)

LEMMA StateElements ==
  ASSUME NEW s \in ConstState
  PROVE  /\ DOMAIN s \subseteq Tracked
         /\ s = [vn \in DOMAIN s |-> s[vn]]
         /\ \A vn \in DOMAIN s : s[vn] \in ConstValue
  BY DEF ConstState

LEMMA StateIntro ==
  ASSUME NEW D \in SUBSET Tracked, NEW s \in [D -> ConstValue]
  PROVE  s \in ConstState
  BY DEF ConstState

LEMMA TopStateIsTop ==
  /\ TopState \in ConstState
  /\ \A vn \in Tracked : Get(TopState, vn) = TopValue
<1>1. TopState = [vn \in {} |-> TopValue]
  BY DEF TopState
<1>2. TopState \in [{} -> ConstValue]
  BY <1>1
<1>3. QED
  BY <1>1, <1>2, StateIntro, TrackedAssumption DEF Get

LEMMA GetType ==
  ASSUME NEW s \in ConstState, NEW vn \in Tracked
  PROVE  Get(s, vn) \in ConstValue
  BY StateElements, TrackedAssumption DEF Get, ConstValue

(* Reading the join of two states is joining what is read: the entries     *)
(* left out are exactly those that read as Top.                            *)
LEMMA GetMerge ==
  ASSUME NEW s \in ConstState, NEW t \in ConstState, NEW vn \in Tracked
  PROVE  Get(MergeState(s, t), vn) = MergeValue(Get(s, vn), Get(t, vn))
<1> DEFINE Merged(v) == MergeValue(Get(s, v), Get(t, v))
           D == {v \in DOMAIN s \union DOMAIN t : Merged(v) # TopValue}
<1>1. MergeState(s, t) = [v \in D |-> Merged(v)]
  BY DEF MergeState
<1>2. vn.space # "Constant"
  BY TrackedAssumption
<1>3. CASE vn \in D
  BY <1>1, <1>2, <1>3 DEF Get
<1>4. CASE vn \notin D
  <2>1. Get(MergeState(s, t), vn) = TopValue
    BY <1>1, <1>2, <1>4 DEF Get
  <2>2. Merged(vn) = TopValue
    <3>1. CASE vn \in DOMAIN s \union DOMAIN t
      BY <1>4, <3>1
    <3>2. CASE vn \notin DOMAIN s \union DOMAIN t
      BY <1>2, <3>2 DEF Get, MergeValue
    <3>3. QED
      BY <3>1, <3>2
  <2>3. QED
    BY <2>1, <2>2
<1>5. QED
  BY <1>3, <1>4

LEMMA MergeStateType ==
  ASSUME NEW s \in ConstState, NEW t \in ConstState
  PROVE  MergeState(s, t) \in ConstState
<1> DEFINE Merged(v) == MergeValue(Get(s, v), Get(t, v))
           D == {v \in DOMAIN s \union DOMAIN t : Merged(v) # TopValue}
<1>1. MergeState(s, t) = [v \in D |-> Merged(v)]
  BY DEF MergeState
<1>2. D \in SUBSET Tracked
  BY StateElements
<1>3. \A v \in D : Merged(v) \in ConstValue
  BY <1>2, GetType, MergeValueType
<1>4. MergeState(s, t) \in [D -> ConstValue]
  BY <1>1, <1>3
<1>5. QED
  BY <1>2, <1>4, StateIntro

(* ConstState satisfies LatticeAssumption of module Dataflow: merge yields *)
(* the greatest state below both, the empty map is above every state       *)
(* (dataflow.rs:27-31, constant_propagation.rs:80-101).                    *)
THEOREM ConstStateIsLattice ==
  /\ TopState \in ConstState
  /\ \A s \in ConstState : BelowState(s, s) /\ BelowState(s, TopState)
  /\ \A s, t, u \in ConstState :
       BelowState(s, t) /\ BelowState(t, u) => BelowState(s, u)
  /\ \A s, t \in ConstState :
       /\ MergeState(s, t) \in ConstState
       /\ BelowState(MergeState(s, t), s)
       /\ BelowState(MergeState(s, t), t)
       /\ \A l \in ConstState :
            BelowState(l, s) /\ BelowState(l, t) => BelowState(l, MergeState(s, t))
<1>1. \A s \in ConstState : BelowState(s, s) /\ BelowState(s, TopState)
  BY TopStateIsTop, BelowValueReflexive DEF BelowState
<1>2. ASSUME NEW s \in ConstState, NEW t \in ConstState, NEW u \in ConstState,
             BelowState(s, t), BelowState(t, u)
      PROVE  BelowState(s, u)
  <2> SUFFICES ASSUME NEW vn \in Tracked
               PROVE  BelowValue(Get(s, vn), Get(u, vn))
    BY DEF BelowState
  <2>1. BelowValue(Get(s, vn), Get(t, vn)) /\ BelowValue(Get(t, vn), Get(u, vn))
    BY <1>2 DEF BelowState
  <2>2. QED
    BY <2>1, BelowValueTransitive
<1>3. ASSUME NEW s \in ConstState, NEW t \in ConstState
      PROVE  /\ BelowState(MergeState(s, t), s)
             /\ BelowState(MergeState(s, t), t)
             /\ \A l \in ConstState :
                  BelowState(l, s) /\ BelowState(l, t)
                    => BelowState(l, MergeState(s, t))
  <2>1. ASSUME NEW vn \in Tracked
        PROVE  /\ BelowValue(Get(MergeState(s, t), vn), Get(s, vn))
               /\ BelowValue(Get(MergeState(s, t), vn), Get(t, vn))
    BY GetMerge, MergeValueBelowBoth
  <2>2. ASSUME NEW l \in ConstState, BelowState(l, s), BelowState(l, t)
        PROVE  BelowState(l, MergeState(s, t))
    <3> SUFFICES ASSUME NEW vn \in Tracked
                 PROVE  BelowValue(Get(l, vn), Get(MergeState(s, t), vn))
      BY DEF BelowState
    <3>1. BelowValue(Get(l, vn), Get(s, vn)) /\ BelowValue(Get(l, vn), Get(t, vn))
      BY <2>2 DEF BelowState
    <3>2. QED
      BY <3>1, GetMerge, MergeValueGreatest
  <2>3. QED
    BY <2>1, <2>2 DEF BelowState
<1>4. QED
  BY <1>1, <1>2, <1>3, TopStateIsTop, MergeStateType

-----------------------------------------------------------------------------
(* The transfer function.                                                  *)

LEMMA GetSet ==
  ASSUME NEW s, NEW dest, dest.space # "Constant", NEW value, NEW vn
  PROVE  Get(Set(s, dest, value), vn) = IF vn = dest THEN value ELSE Get(s, vn)
  BY DEF Get, Set

(* Literals read the same in every state; a better informed state reads    *)
(* below everywhere.                                                       *)
LEMMA GetMonotone ==
  ASSUME NEW s \in ConstState, NEW t \in ConstState, BelowState(s, t), NEW vn,
         vn.space = "Constant" \/ vn \in Tracked
  PROVE  BelowValue(Get(s, vn), Get(t, vn))
<1>1. CASE vn.space = "Constant"
  BY <1>1, BelowValueReflexive DEF Get
<1>2. CASE vn \in Tracked
  BY <1>2 DEF BelowState
<1>3. QED
  BY <1>1, <1>2

(* More information about the operands never gives less about the result.  *)
LEMMA EvalBinopMonotone ==
  ASSUME NEW op,
         NEW a1 \in ConstValue, NEW b1 \in ConstValue,
         NEW a2 \in ConstValue, NEW b2 \in ConstValue,
         BelowValue(a1, a2), BelowValue(b1, b2)
  PROVE  BelowValue(EvalBinop(op, a1, b1), EvalBinop(op, a2, b2))
<1> DEFINE f(x, y) == Const(Compute(op, x, y))
<1>0. /\ TopValue.kind = "Top" /\ NotConstant.kind = "NotConstant"
      /\ \A c : Const(c).kind = "Const" /\ Const(c).value = c
  BY DEF TopValue, NotConstant, Const
<1>1. \A a, c : EvalBinop(op, a, c) =
        IF a.kind = "Const" /\ c.kind = "Const" THEN f(a.value, c.value)
        ELSE IF NotConstant \in {a, c} THEN NotConstant
        ELSE TopValue
  BY DEF EvalBinop
<1> HIDE DEF f
<1>2. /\ a2 = TopValue \/ a1 = NotConstant \/ a1 = a2
      /\ b2 = TopValue \/ b1 = NotConstant \/ b1 = b2
  BY DEF BelowValue
<1>3. CASE a2 = TopValue \/ b2 = TopValue
  <2>1. EvalBinop(op, a2, b2) \in {TopValue, NotConstant}
    BY <1>0, <1>1, <1>3
  <2>2. EvalBinop(op, a2, b2) = NotConstant => a1 = NotConstant \/ b1 = NotConstant
    BY <1>0, <1>1, <1>2, <1>3
  <2>3. a1 = NotConstant \/ b1 = NotConstant => EvalBinop(op, a1, b1) = NotConstant
    BY <1>0, <1>1
  <2>4. QED
    BY <2>1, <2>2, <2>3 DEF BelowValue
<1>4. CASE a1 = NotConstant \/ b1 = NotConstant
  BY <1>0, <1>1, <1>4 DEF BelowValue
<1>5. CASE a1 = a2 /\ b1 = b2
  BY <1>5 DEF BelowValue
<1>6. QED
  BY <1>2, <1>3, <1>4, <1>5

LEMMA SetMonotone ==
  ASSUME NEW s \in ConstState, NEW t \in ConstState, BelowState(s, t),
         NEW dest \in Tracked, NEW v, NEW w, BelowValue(v, w)
  PROVE  BelowState(Set(s, dest, v), Set(t, dest, w))
  BY GetSet, TrackedAssumption DEF BelowState

LEMMA OperandType ==
  ASSUME NEW s \in ConstState, NEW vn, IsOperand(vn)
  PROVE  Get(s, vn) \in ConstValue
<1>1. CASE vn \in Tracked
  BY <1>1, GetType
<1>2. CASE vn \notin Tracked
  BY <1>2, ValuesFitWord DEF IsOperand, Get, ConstValue
<1>3. QED
  BY <1>1, <1>2

(* A better informed state before an instruction is a better informed      *)
(* state after it: the transfer function is monotone, as the solver's      *)
(* termination and precision require (constant_propagation.rs:147-220).    *)
THEOREM TransferIsMonotone ==
  ASSUME NEW op, LiftedOp(op),
         NEW s \in ConstState, NEW t \in ConstState, BelowState(s, t)
  PROVE  BelowState(TransferInstruction(op, s), TransferInstruction(op, t))
<1>1. CASE op.op = "Copy"
  <2>1. BelowValue(Get(s, op.src), Get(t, op.src))
    BY <1>1, GetMonotone DEF LiftedOp, IsOperand
  <2>2. \A u : TransferInstruction(op, u) = Set(u, op.dest, Get(u, op.src))
    BY <1>1 DEF TransferInstruction, BinaryOps
  <2>3. QED
    BY <1>1, <2>1, <2>2, SetMonotone DEF LiftedOp
<1>2. CASE op.op \in BinaryOps
  <2>1. /\ IsOperand(op.lhs) /\ IsOperand(op.rhs) /\ op.dest \in Tracked
    BY <1>2 DEF LiftedOp
  <2>2. /\ Get(s, op.lhs) \in ConstValue /\ Get(s, op.rhs) \in ConstValue
        /\ Get(t, op.lhs) \in ConstValue /\ Get(t, op.rhs) \in ConstValue
    BY <2>1, OperandType
  <2>3. /\ BelowValue(Get(s, op.lhs), Get(t, op.lhs))
        /\ BelowValue(Get(s, op.rhs), Get(t, op.rhs))
    BY <2>1, GetMonotone DEF IsOperand
  <2>4. BelowValue(EvalBinop(op, Get(s, op.lhs), Get(s, op.rhs)),
                   EvalBinop(op, Get(t, op.lhs), Get(t, op.rhs)))
    BY <2>2, <2>3, EvalBinopMonotone
  <2>5. \A u : TransferInstruction(op, u) =
                 Set(u, op.dest, EvalBinop(op, Get(u, op.lhs), Get(u, op.rhs)))
    BY <1>2 DEF TransferInstruction, BinaryOps
  <2>6. QED
    BY <2>1, <2>4, <2>5, SetMonotone
<1>3. CASE op.op = "Load"
  <2>1. \A u : TransferInstruction(op, u) = Set(u, op.dest, NotConstant)
    BY <1>3 DEF TransferInstruction, BinaryOps
  <2>2. QED
    BY <1>3, <2>1, SetMonotone, BelowValueReflexive DEF LiftedOp
<1>4. CASE op.op \notin {"Copy", "Load"} \union BinaryOps
  <2>1. \A u : TransferInstruction(op, u) = u
    BY <1>4 DEF TransferInstruction, LiftedOp
  <2>2. QED
    BY <2>1
<1>5. QED
  BY <1>1, <1>2, <1>3, <1>4

-----------------------------------------------------------------------------
(* States of values that fit.                                              *)

(* What a state may say of a Varnode: its constants fit the Varnode.       *)
Holdable(vn) == {TopValue, NotConstant} \union {Const(c) : c \in Values(vn)}

FittingState == {s \in ConstState : \A vn \in DOMAIN s : s[vn] \in Holdable(vn)}

LEMMA HoldableValues ==
  /\ \A vn, v : v \in Holdable(vn) =>
       \/ v = TopValue \/ v = NotConstant
       \/ \E c \in Values(vn) : v = Const(c)
  /\ \A c : Const(c).kind = "Const" /\ Const(c).value = c
  /\ TopValue.kind = "Top" /\ NotConstant.kind = "NotConstant"
  /\ \A c : Const(c) # TopValue /\ Const(c) # NotConstant
  /\ TopValue # NotConstant
  BY DEF Holdable, Const, TopValue, NotConstant

LEMMA HoldableSize ==
  ASSUME NEW vn, NEW wn, vn.size = wn.size
  PROVE  Values(vn) = Values(wn) /\ Holdable(vn) = Holdable(wn)
  BY DEF Holdable, Values, Bits

LEMMA HoldableIsValue ==
  ASSUME NEW vn, FitsWord(vn)
  PROVE  Holdable(vn) \subseteq ConstValue
  BY ValuesFitWord DEF Holdable, ConstValue

LEMMA OperandFits ==
  ASSUME NEW vn, IsOperand(vn)
  PROVE  FitsWord(vn)
  BY WidthAssumption DEF IsOperand

LEMMA FittingGet ==
  ASSUME NEW s \in FittingState, NEW vn, IsOperand(vn)
  PROVE  Get(s, vn) \in Holdable(vn)
<1>1. CASE vn \in Tracked
  BY <1>1, TrackedAssumption DEF FittingState, Get, Holdable
<1>2. CASE vn \notin Tracked
  BY <1>2 DEF IsOperand, Get, Holdable
<1>3. QED
  BY <1>1, <1>2

LEMMA FittingSet ==
  ASSUME NEW s \in FittingState, NEW dest \in Tracked, NEW v \in Holdable(dest)
  PROVE  Set(s, dest, v) \in FittingState
<1> DEFINE D == DOMAIN s \union {dest}
           t == [vn \in D |-> IF vn = dest THEN v ELSE s[vn]]
<1>1. s \in ConstState /\ \A vn \in DOMAIN s : s[vn] \in Holdable(vn)
  BY DEF FittingState
<1>2. D \in SUBSET Tracked
  BY <1>1, StateElements
<1>3. v \in ConstValue
  BY HoldableIsValue, WidthAssumption
<1>4. t \in [D -> ConstValue]
  BY <1>1, <1>3, StateElements
<1>5. t \in ConstState
  BY <1>2, <1>4, StateIntro
<1>6. \A vn \in DOMAIN t : t[vn] \in Holdable(vn)
  BY <1>1
<1>7. t \in FittingState
  BY <1>5, <1>6 DEF FittingState
<1>8. Set(s, dest, v) = t
  BY DEF Set
<1>9. QED
  BY <1>7, <1>8

LEMMA MergeFits ==
  ASSUME NEW s \in FittingState, NEW t \in FittingState
  PROVE  MergeState(s, t) \in FittingState
<1>1. s \in ConstState /\ t \in ConstState
  BY DEF FittingState
<1>2. MergeState(s, t) \in ConstState
  BY <1>1, MergeStateType
<1>3. ASSUME NEW vn \in DOMAIN MergeState(s, t)
      PROVE  MergeState(s, t)[vn] \in Holdable(vn)
  <2>1. vn \in Tracked /\ vn.space # "Constant"
    BY <1>2, StateElements, TrackedAssumption
  <2>2. MergeState(s, t)[vn] = Get(MergeState(s, t), vn)
    BY <2>1 DEF Get
  <2>3. MergeState(s, t)[vn] = MergeValue(Get(s, vn), Get(t, vn))
    BY <1>1, <2>1, <2>2, GetMerge
  <2>4. Get(s, vn) \in Holdable(vn) /\ Get(t, vn) \in Holdable(vn)
    BY <2>1, FittingGet DEF IsOperand
  <2>5. NotConstant \in Holdable(vn)
    BY DEF Holdable
  <2>6. QED
    BY <2>3, <2>4, <2>5 DEF MergeValue
<1>4. QED
  BY <1>2, <1>3 DEF FittingState

LEMMA EvalFits ==
  ASSUME NEW op, op.op \in BinaryOps, LiftedOp(op),
         NEW a \in Holdable(op.lhs), NEW c \in Holdable(op.rhs)
  PROVE  EvalBinop(op, a, c) \in Holdable(op.dest)
<1>1. /\ FitsWord(op.dest) /\ FitsWord(op.lhs) /\ op.lhs.size = op.rhs.size
  BY OperandFits, WidthAssumption DEF LiftedOp
<1>2. {TopValue, NotConstant} \subseteq Holdable(op.dest)
  BY DEF Holdable
<1>3. CASE a.kind = "Const" /\ c.kind = "Const"
  <2>1. a.value \in Values(op.lhs) /\ c.value \in Values(op.rhs)
    BY <1>3, HoldableValues
  <2>2. Compute(op, a.value, c.value) \in Values(op.dest)
    BY <1>1, <2>1, FoldingAgrees
  <2>3. QED
    BY <1>3, <2>2 DEF EvalBinop, Holdable
<1>4. CASE ~ (a.kind = "Const" /\ c.kind = "Const")
  BY <1>2, <1>4 DEF EvalBinop
<1>5. QED
  BY <1>3, <1>4

(* One instruction keeps a state a state of values that fit: sums are      *)
(* masked to their destination (constant_propagation.rs:103-112).          *)
LEMMA TransferFits ==
  ASSUME NEW op, LiftedOp(op), NEW s \in FittingState
  PROVE  TransferInstruction(op, s) \in FittingState
<1>1. CASE op.op = "Copy"
  <2>1. Get(s, op.src) \in Holdable(op.dest) /\ op.dest \in Tracked
    BY <1>1, FittingGet, HoldableSize DEF LiftedOp
  <2>2. TransferInstruction(op, s) = Set(s, op.dest, Get(s, op.src))
    BY <1>1 DEF TransferInstruction, BinaryOps
  <2>3. QED
    BY <2>1, <2>2, FittingSet
<1>2. CASE op.op \in BinaryOps
  <2>1. IsOperand(op.lhs) /\ IsOperand(op.rhs) /\ op.dest \in Tracked
    BY <1>2 DEF LiftedOp
  <2>2. Get(s, op.lhs) \in Holdable(op.lhs) /\ Get(s, op.rhs) \in Holdable(op.rhs)
    BY <2>1, FittingGet
  <2>3. EvalBinop(op, Get(s, op.lhs), Get(s, op.rhs)) \in Holdable(op.dest)
    BY <1>2, <2>2, EvalFits
  <2>4. TransferInstruction(op, s)
          = Set(s, op.dest, EvalBinop(op, Get(s, op.lhs), Get(s, op.rhs)))
    BY <1>2 DEF TransferInstruction, BinaryOps
  <2>5. QED
    BY <2>1, <2>3, <2>4, FittingSet
<1>3. CASE op.op = "Load"
  <2>1. NotConstant \in Holdable(op.dest) /\ op.dest \in Tracked
    BY <1>3 DEF LiftedOp, Holdable
  <2>2. TransferInstruction(op, s) = Set(s, op.dest, NotConstant)
    BY <1>3 DEF TransferInstruction, BinaryOps
  <2>3. QED
    BY <2>1, <2>2, FittingSet
<1>4. CASE op.op \notin {"Copy", "Load"} \union BinaryOps
  BY <1>4 DEF TransferInstruction, LiftedOp
<1>5. QED
  BY <1>1, <1>2, <1>3, <1>4

(* The states of values that fit are a lattice of their own.               *)
LEMMA FittingStateIsLattice ==
  /\ TopState \in FittingState
  /\ \A s \in FittingState : BelowState(s, s) /\ BelowState(s, TopState)
  /\ \A s, t, u \in FittingState :
       BelowState(s, t) /\ BelowState(t, u) => BelowState(s, u)
  /\ \A s, t \in FittingState :
       /\ MergeState(s, t) \in FittingState
       /\ BelowState(MergeState(s, t), s)
       /\ BelowState(MergeState(s, t), t)
       /\ \A l \in FittingState :
            BelowState(l, s) /\ BelowState(l, t) => BelowState(l, MergeState(s, t))
<1>1. FittingState \subseteq ConstState
  BY DEF FittingState
<1>2. TopState \in FittingState
  <2>1. DOMAIN TopState = {}
    BY DEF TopState
  <2>2. QED
    BY <2>1, TopStateIsTop DEF FittingState
<1>3. QED
  BY <1>1, <1>2, MergeFits, ConstStateIsLattice

-----------------------------------------------------------------------------
(* The walk over a body.                                                   *)

LiftedBody(ops) ==
  Len(ops) \in Nat /\ \A j \in 1 .. Len(ops) : LiftedOp(ops[j])

(* The states of a walk are those of values that fit, each the transfer of *)
(* the one before it.                                                      *)
LEMMA WalkUnfolds ==
  ASSUME NEW ops, LiftedBody(ops), NEW s \in FittingState
  PROVE  /\ Walk(ops, s)[0] = s
         /\ \A j \in 0 .. Len(ops) : Walk(ops, s)[j] \in FittingState
         /\ \A j \in 1 .. Len(ops) :
              Walk(ops, s)[j] = TransferInstruction(ops[j], Walk(ops, s)[j - 1])
<1> DEFINE L == Len(ops)
           Step(m, t) == IF m < L THEN TransferInstruction(ops[m + 1], t) ELSE t
           F == [p \in Nat \X FittingState |-> Step(p[1], p[2])]
           Walking(w) == w = [n \in 0 .. L |->
                                IF n = 0 THEN s ELSE TransferInstruction(ops[n], w[n - 1])]
<1>1. L \in Nat
  BY DEF LiftedBody
<1>2. F \in [Nat \X FittingState -> FittingState]
  <2>1. ASSUME NEW m \in Nat, NEW t \in FittingState PROVE Step(m, t) \in FittingState
    <3>1. CASE m < L
      <4>1. m + 1 \in 1 .. L
        BY <1>1, <3>1
      <4>2. QED
        BY <3>1, <4>1, TransferFits DEF LiftedBody
    <3>2. QED
      BY <3>1
  <2> HIDE DEF Step
  <2>2. QED
    BY <2>1
<1>3. PICK f \in [Nat -> FittingState] :
        f[0] = s /\ \A m \in Nat : f[m + 1] = F[<<m, f[m]>>]
  <2> HIDE DEF F
  <2>1. QED
    BY <1>2, Iteration, SMTT(30) DEF Iterable
<1>4. ASSUME NEW n \in 1 .. L PROVE f[n] = TransferInstruction(ops[n], f[n - 1])
  <2>1. n - 1 \in Nat /\ (n - 1) + 1 = n /\ n - 1 < L
    BY <1>1
  <2>2. f[(n - 1) + 1] = F[<<n - 1, f[n - 1]>>]
    BY <1>3, <2>1
  <2>3. F[<<n - 1, f[n - 1]>>] = Step(n - 1, f[n - 1])
    BY <1>3, <2>1
  <2>4. QED
    BY <2>1, <2>2, <2>3
<1> DEFINE g == [n \in 0 .. L |-> f[n]]
<1>5. Walking(g)
  <2>1. ASSUME NEW n \in 0 .. L
        PROVE  f[n] = IF n = 0 THEN s ELSE TransferInstruction(ops[n], g[n - 1])
    <3>1. CASE n = 0
      BY <1>3, <3>1
    <3>2. CASE n # 0
      <4>1. n \in 1 .. L /\ n - 1 \in 0 .. L
        BY <1>1, <3>2
      <4>2. QED
        BY <1>4, <3>2, <4>1
    <3>3. QED
      BY <3>1, <3>2
  <2>2. QED
    BY <2>1
<1>6. Walking(Walk(ops, s))
  <2>1. Walk(ops, s) = CHOOSE w : Walking(w)
    BY DEF Walk
  <2> HIDE DEF Walking
  <2>2. QED
    BY <1>5, <2>1, Zenon
<1> DEFINE w == Walk(ops, s)
<1> HIDE DEF w
<1>7. /\ w[0] = s
      /\ \A n \in 1 .. L : w[n] = TransferInstruction(ops[n], w[n - 1])
  <2>1. w = [n \in 0 .. L |-> IF n = 0 THEN s ELSE TransferInstruction(ops[n], w[n - 1])]
    BY <1>6 DEF w
  <2>2. 0 \in 0 .. L /\ \A n \in 1 .. L : n \in 0 .. L /\ n # 0
    BY <1>1
  <2>3. QED
    BY <2>1, <2>2
<1>8. \A j \in 0 .. L : w[j] \in FittingState
  <2> DEFINE T == {n \in Nat : n <= L => w[n] \in FittingState}
  <2>1. 0 \in T
    BY <1>7
  <2>2. ASSUME NEW n \in Nat, n \in T PROVE n + 1 \in T
    <3> SUFFICES ASSUME n + 1 <= L PROVE w[n + 1] \in FittingState
      OBVIOUS
    <3>1. n + 1 \in 1 .. L /\ (n + 1) - 1 = n /\ w[n] \in FittingState
      BY <1>1, <2>2
    <3>2. w[n + 1] = TransferInstruction(ops[n + 1], w[n]) /\ LiftedOp(ops[n + 1])
      BY <1>7, <3>1 DEF LiftedBody
    <3>3. QED
      BY <3>1, <3>2, TransferFits
  <2>3. Nat \subseteq T
    <3> HIDE DEF T
    <3>1. QED
      BY <2>1, <2>2, Induction
  <2>4. QED
    BY <1>1, <2>3
<1>9. QED
  BY <1>7, <1>8 DEF w

(* A better informed state before a body is a better informed state after  *)
(* it, and at every place within it.                                       *)
LEMMA WalkIsMonotone ==
  ASSUME NEW ops, LiftedBody(ops), NEW s \in FittingState, NEW t \in FittingState,
         BelowState(s, t), NEW j \in 0 .. Len(ops)
  PROVE  BelowState(Walk(ops, s)[j], Walk(ops, t)[j])
<1> DEFINE T == {n \in Nat : n <= Len(ops) => BelowState(Walk(ops, s)[n], Walk(ops, t)[n])}
<1>1. Len(ops) \in Nat
  BY DEF LiftedBody
<1>2. 0 \in T
  BY WalkUnfolds
<1>3. ASSUME NEW n \in Nat, n \in T PROVE n + 1 \in T
  <2> SUFFICES ASSUME n + 1 <= Len(ops)
               PROVE  BelowState(Walk(ops, s)[n + 1], Walk(ops, t)[n + 1])
    OBVIOUS
  <2>1. /\ n + 1 \in 1 .. Len(ops) /\ (n + 1) - 1 = n /\ n \in 0 .. Len(ops)
        /\ BelowState(Walk(ops, s)[n], Walk(ops, t)[n])
    BY <1>1, <1>3
  <2>2. /\ Walk(ops, s)[n] \in FittingState /\ Walk(ops, t)[n] \in FittingState
        /\ Walk(ops, s)[n + 1] = TransferInstruction(ops[n + 1], Walk(ops, s)[n])
        /\ Walk(ops, t)[n + 1] = TransferInstruction(ops[n + 1], Walk(ops, t)[n])
    BY <2>1, WalkUnfolds
  <2>3. LiftedOp(ops[n + 1])
    BY <2>1 DEF LiftedBody
  <2>4. QED
    BY <2>1, <2>2, <2>3, TransferIsMonotone DEF FittingState
<1>4. Nat \subseteq T
  <2> HIDE DEF T
  <2>1. QED
    BY <1>2, <1>3, Induction
<1>5. QED
  BY <1>1, <1>4

(* What module Dataflow assumes of the transfer functions.                 *)
THEOREM BlockTransferIsMonotone ==
  ASSUME NEW ops, LiftedBody(ops)
  PROVE  /\ \A s \in FittingState : TransferBlock(ops, s) \in FittingState
         /\ \A s, t \in FittingState :
              BelowState(s, t)
                => BelowState(TransferBlock(ops, s), TransferBlock(ops, t))
<1>1. Len(ops) \in 0 .. Len(ops)
  BY DEF LiftedBody
<1>2. QED
  BY <1>1, WalkUnfolds, WalkIsMonotone DEF TransferBlock


-----------------------------------------------------------------------------
(* Rewriting one instruction.                                              *)

LEMMA KnownValue ==
  ASSUME NEW s \in FittingState, NEW vn, Known(vn, s)
  PROVE  Get(s, vn) = Const(Get(s, vn).value)
<1>1. CASE vn.space = "Constant"
  BY <1>1, HoldableValues DEF Get
<1>2. CASE vn.space # "Constant" /\ vn \in DOMAIN s
  <2>1. Get(s, vn) \in Holdable(vn)
    BY <1>2 DEF Get, FittingState
  <2>2. QED
    BY <2>1, HoldableValues DEF Known
<1>3. CASE vn.space # "Constant" /\ vn \notin DOMAIN s
  BY <1>3, HoldableValues DEF Get, Known
<1>4. QED
  BY <1>1, <1>2, <1>3

LEMMA LiteralReads ==
  ASSUME NEW c, NEW size, NEW s
  PROVE  /\ Get(s, Constant(c, size)) = Const(c)
         /\ Constant(c, size).space = "Constant"
         /\ Constant(c, size).offset = c
         /\ Constant(c, size).size = size
  BY DEF Get, Constant, Varnode

(* An operand reads the same in the state it was replaced in.              *)
LEMMA SubstituteReads ==
  ASSUME NEW s \in FittingState, NEW vn
  PROVE  Get(s, Substitute(vn, s)) = Get(s, vn)
<1>1. CASE vn.space # "Constant" /\ Known(vn, s)
  <2>1. Substitute(vn, s) = Constant(Get(s, vn).value, vn.size)
    BY <1>1 DEF Substitute
  <2>2. QED
    BY <1>1, <2>1, KnownValue, LiteralReads
<1>2. CASE ~ (vn.space # "Constant" /\ Known(vn, s))
  BY <1>2 DEF Substitute
<1>3. QED
  BY <1>1, <1>2

LEMMA LiteralIsOperand ==
  ASSUME NEW vn, FitsWord(vn), NEW c \in Values(vn)
  PROVE  IsOperand(Constant(c, vn.size)) /\ FitsWord(Constant(c, vn.size))
<1> DEFINE l == Constant(c, vn.size)
<1>1. l.space = "Constant" /\ l.offset = c /\ l.size = vn.size
  BY LiteralReads
<1> HIDE DEF l
<1>2. FitsWord(l) /\ Values(l) = Values(vn)
  BY <1>1, HoldableSize DEF FitsWord, Bits
<1>3. QED
  BY <1>1, <1>2 DEF IsOperand, l

LEMMA SubstituteFits ==
  ASSUME NEW s \in FittingState, NEW vn, IsOperand(vn)
  PROVE  IsOperand(Substitute(vn, s)) /\ Substitute(vn, s).size = vn.size
<1>1. CASE vn.space # "Constant" /\ Known(vn, s)
  <2>1. Substitute(vn, s) = Constant(Get(s, vn).value, vn.size)
    BY <1>1 DEF Substitute
  <2>2. Get(s, vn).value \in Values(vn)
    BY <1>1, FittingGet, HoldableValues DEF Known
  <2>3. FitsWord(vn)
    BY OperandFits
  <2>4. QED
    BY <2>1, <2>2, <2>3, LiteralIsOperand, LiteralReads
<1>2. CASE ~ (vn.space # "Constant" /\ Known(vn, s))
  BY <1>2 DEF Substitute
<1>3. QED
  BY <1>1, <1>2

LEMMA InstructionFields ==
  /\ \A d, x : Copy(d, x).op = "Copy" /\ Copy(d, x).dest = d /\ Copy(d, x).src = x
  /\ \A d, x : Load(d, x).op = "Load" /\ Load(d, x).dest = d
  /\ \A x, y : Store(x, y).op = "Store"
  /\ \A x, y : CBranch(x, y).op = "CBranch" /\ CBranch(x, y).condition = x
  /\ \A o, d, x, y : /\ Binary(o, d, x, y).op = o /\ Binary(o, d, x, y).dest = d
                     /\ Binary(o, d, x, y).lhs = x /\ Binary(o, d, x, y).rhs = y
  /\ \A op : op.op \in {"Copy", "Load", "Store", "CBranch", "Phi"} => op.op \notin BinaryOps
  BY DEF Copy, Load, Store, CBranch, Binary, BinaryOps

(* The operation is folded: both operands are known.                       *)
Folds(op, s) == op.op \in BinaryOps /\ Known(op.lhs, s) /\ Known(op.rhs, s)

LEMMA RewriteCases ==
  ASSUME NEW op, NEW s
  PROVE  /\ op.op = "Copy" =>
              SubstituteAndFold(op, s) = Copy(op.dest, Substitute(op.src, s))
         /\ op.op = "Load" =>
              SubstituteAndFold(op, s) = Load(op.dest, Substitute(op.addr, s))
         /\ op.op = "Store" =>
              SubstituteAndFold(op, s) = Store(Substitute(op.addr, s), Substitute(op.src, s))
         /\ op.op = "CBranch" =>
              SubstituteAndFold(op, s) = CBranch(Substitute(op.condition, s), op.target)
         /\ Folds(op, s) => SubstituteAndFold(op, s) = Fold(op, s)
         /\ op.op \in BinaryOps /\ ~ Folds(op, s) =>
              SubstituteAndFold(op, s)
                = Binary(op.op, op.dest, Substitute(op.lhs, s), Substitute(op.rhs, s))
         /\ op.op \notin {"Copy", "Load", "Store", "CBranch", "Phi"} \union BinaryOps =>
              SubstituteAndFold(op, s) = op
<1>1. op.op \in BinaryOps => op.op \notin {"Copy", "Load", "Store", "CBranch", "Phi"}
  BY DEF BinaryOps
<1>2. QED
  BY <1>1 DEF SubstituteAndFold, Folds

(* A lifted instruction is rewritten to one.                               *)
LEMMA RewriteIsLifted ==
  ASSUME NEW op, LiftedOp(op), NEW s \in FittingState
  PROVE  LiftedOp(SubstituteAndFold(op, s))
<1> DEFINE new == SubstituteAndFold(op, s)
<1>1. CASE op.op = "Copy"
  <2>1. new = Copy(op.dest, Substitute(op.src, s))
    BY <1>1, RewriteCases
  <2>2. op.dest \in Tracked /\ IsOperand(op.src) /\ op.src.size = op.dest.size
    BY <1>1 DEF LiftedOp
  <2>3. IsOperand(Substitute(op.src, s)) /\ Substitute(op.src, s).size = op.dest.size
    BY <2>2, SubstituteFits
  <2> HIDE DEF new
  <2>4. new.op = "Copy" /\ new.dest = op.dest /\ new.src = Substitute(op.src, s)
    BY <2>1, InstructionFields
  <2>5. LiftedOp(new)
    BY <2>2, <2>3, <2>4, InstructionFields DEF LiftedOp
  <2>6. QED
    BY <2>5 DEF new
<1>2. CASE Folds(op, s)
  <2>1. /\ op.dest \in Tracked /\ IsOperand(op.lhs) /\ IsOperand(op.rhs)
        /\ op.lhs.size = op.rhs.size /\ op.op \in BinaryOps
    BY <1>2 DEF LiftedOp, Folds
  <2>2. /\ Get(s, op.lhs).value \in Values(op.lhs) /\ Get(s, op.rhs).value \in Values(op.rhs)
    BY <1>2, <2>1, FittingGet, HoldableValues DEF Known, Folds
  <2>3. FitsWord(op.dest) /\ FitsWord(op.lhs)
    BY <2>1, OperandFits, WidthAssumption
  <2> DEFINE c == Compute(op, Get(s, op.lhs).value, Get(s, op.rhs).value)
  <2>4. c \in Values(op.dest)
    BY <2>1, <2>2, <2>3, FoldingAgrees
  <2>5. new = Copy(op.dest, Constant(c, op.dest.size))
    BY <1>2, RewriteCases DEF Fold
  <2> HIDE DEF new, c
  <2>6. /\ new.op = "Copy" /\ new.dest = op.dest /\ new.src = Constant(c, op.dest.size)
    BY <2>5, InstructionFields
  <2>7. IsOperand(Constant(c, op.dest.size)) /\ Constant(c, op.dest.size).size = op.dest.size
    BY <2>3, <2>4, LiteralIsOperand, LiteralReads
  <2>8. LiftedOp(new)
    BY <2>1, <2>6, <2>7, InstructionFields DEF LiftedOp
  <2>9. QED
    BY <2>8 DEF new
<1>3. CASE op.op \in BinaryOps /\ ~ Folds(op, s)
  <2>1. /\ op.dest \in Tracked /\ IsOperand(op.lhs) /\ IsOperand(op.rhs)
        /\ op.lhs.size = op.rhs.size
    BY <1>3 DEF LiftedOp
  <2>2. /\ IsOperand(Substitute(op.lhs, s)) /\ IsOperand(Substitute(op.rhs, s))
        /\ Substitute(op.lhs, s).size = Substitute(op.rhs, s).size
    BY <2>1, SubstituteFits
  <2>3. new = Binary(op.op, op.dest, Substitute(op.lhs, s), Substitute(op.rhs, s))
    BY <1>3, RewriteCases
  <2> HIDE DEF new
  <2>4. /\ new.op = op.op /\ new.dest = op.dest
        /\ new.lhs = Substitute(op.lhs, s) /\ new.rhs = Substitute(op.rhs, s)
    BY <2>3, InstructionFields
  <2>5. LiftedOp(new)
    BY <1>3, <2>1, <2>2, <2>4, InstructionFields DEF LiftedOp
  <2>6. QED
    BY <2>5 DEF new
<1>4. CASE op.op = "Load"
  <2>1. new = Load(op.dest, Substitute(op.addr, s))
    BY <1>4, RewriteCases
  <2>2. op.dest \in Tracked
    BY <1>4 DEF LiftedOp
  <2> HIDE DEF new
  <2>3. new.op = "Load" /\ new.dest = op.dest
    BY <2>1, InstructionFields
  <2>4. LiftedOp(new)
    BY <2>2, <2>3, InstructionFields DEF LiftedOp
  <2>5. QED
    BY <2>4 DEF new
<1>5. CASE op.op \in {"Store", "CBranch"}
  <2>1. new.op = op.op
    BY <1>5, RewriteCases, InstructionFields
  <2> HIDE DEF new
  <2>2. LiftedOp(new)
    BY <1>5, <2>1, InstructionFields DEF LiftedOp
  <2>3. QED
    BY <2>2 DEF new
<1>6. CASE op.op \notin {"Copy", "Load", "Store", "CBranch", "Phi"} \union BinaryOps
  BY <1>6, RewriteCases
<1>7. op.op # "Phi"
  BY DEF LiftedOp
<1>8. QED
  BY <1>1, <1>2, <1>3, <1>4, <1>5, <1>6, <1>7

LEMMA TransferCases ==
  ASSUME NEW op, NEW s
  PROVE  /\ op.op = "Copy" =>
              TransferInstruction(op, s) = Set(s, op.dest, Get(s, op.src))
         /\ op.op \in BinaryOps =>
              TransferInstruction(op, s)
                = Set(s, op.dest, EvalBinop(op, Get(s, op.lhs), Get(s, op.rhs)))
         /\ op.op = "Load" => TransferInstruction(op, s) = Set(s, op.dest, NotConstant)
         /\ op.op \notin {"Copy", "Load", "Phi"} \union BinaryOps =>
              TransferInstruction(op, s) = s
<1>1. op.op \in BinaryOps => op.op \notin {"Copy", "Load", "Phi"}
  BY DEF BinaryOps
<1>2. QED
  BY <1>1 DEF TransferInstruction

(* What was rewritten has the effect of the original on the state it was   *)
(* rewritten for (constant_propagation.rs:259-262).                        *)
LEMMA RewriteTransfers ==
  ASSUME NEW op, LiftedOp(op), NEW s \in FittingState
  PROVE  TransferInstruction(SubstituteAndFold(op, s), s) = TransferInstruction(op, s)
<1> DEFINE new == SubstituteAndFold(op, s)
<1>1. CASE op.op = "Copy"
  <2>1. new = Copy(op.dest, Substitute(op.src, s))
    BY <1>1, RewriteCases
  <2> HIDE DEF new
  <2>2. new.op = "Copy" /\ new.dest = op.dest /\ new.src = Substitute(op.src, s)
    BY <2>1, InstructionFields
  <2>3. TransferInstruction(new, s) = TransferInstruction(op, s)
    BY <1>1, <2>2, TransferCases, SubstituteReads
  <2>4. QED
    BY <2>3 DEF new
<1>2. CASE Folds(op, s)
  <2> DEFINE c == Compute(op, Get(s, op.lhs).value, Get(s, op.rhs).value)
  <2>1. new = Copy(op.dest, Constant(c, op.dest.size))
    BY <1>2, RewriteCases DEF Fold
  <2>2. EvalBinop(op, Get(s, op.lhs), Get(s, op.rhs)) = Const(c)
    BY <1>2 DEF Folds, Known, EvalBinop
  <2> HIDE DEF new, c
  <2>3. new.op = "Copy" /\ new.dest = op.dest /\ new.src = Constant(c, op.dest.size)
    BY <2>1, InstructionFields
  <2>4. Get(s, Constant(c, op.dest.size)) = Const(c)
    BY LiteralReads
  <2>5. TransferInstruction(new, s) = TransferInstruction(op, s)
    BY <1>2, <2>2, <2>3, <2>4, TransferCases DEF Folds
  <2>6. QED
    BY <2>5 DEF new
<1>3. CASE op.op \in BinaryOps /\ ~ Folds(op, s)
  <2>1. new = Binary(op.op, op.dest, Substitute(op.lhs, s), Substitute(op.rhs, s))
    BY <1>3, RewriteCases
  <2> HIDE DEF new
  <2>2. /\ new.op = op.op /\ new.dest = op.dest
        /\ new.lhs = Substitute(op.lhs, s) /\ new.rhs = Substitute(op.rhs, s)
    BY <2>1, InstructionFields
  <2>3. /\ Get(s, new.lhs) = Get(s, op.lhs) /\ Get(s, new.rhs) = Get(s, op.rhs)
    BY <2>2, SubstituteReads
  <2>4. \A x, y : Compute(new, x, y) = Compute(op, x, y)
    <3>1. IsOperand(op.lhs)
      BY <1>3 DEF LiftedOp
    <3>2. new.lhs.size = op.lhs.size
      BY <2>2, <3>1, SubstituteFits
    <3>3. QED
      BY <2>2, <3>2 DEF Compute
  <2>5. EvalBinop(new, Get(s, new.lhs), Get(s, new.rhs))
          = EvalBinop(op, Get(s, op.lhs), Get(s, op.rhs))
    BY <2>3, <2>4 DEF EvalBinop
  <2>6. TransferInstruction(new, s) = TransferInstruction(op, s)
    BY <1>3, <2>2, <2>5, TransferCases
  <2>7. QED
    BY <2>6 DEF new
<1>4. CASE op.op = "Load"
  <2>1. new = Load(op.dest, Substitute(op.addr, s))
    BY <1>4, RewriteCases
  <2> HIDE DEF new
  <2>2. new.op = "Load" /\ new.dest = op.dest
    BY <2>1, InstructionFields
  <2>3. TransferInstruction(new, s) = TransferInstruction(op, s)
    BY <1>4, <2>2, TransferCases
  <2>4. QED
    BY <2>3 DEF new
<1>5. CASE op.op \in {"Store", "CBranch"}
  <2>1. new.op = op.op
    BY <1>5, RewriteCases, InstructionFields
  <2> HIDE DEF new
  <2>2. TransferInstruction(new, s) = TransferInstruction(op, s)
    BY <1>5, <2>1, TransferCases, InstructionFields
  <2>3. QED
    BY <2>2 DEF new
<1>6. CASE op.op \notin {"Copy", "Load", "Store", "CBranch", "Phi"} \union BinaryOps
  BY <1>6, RewriteCases
<1>7. op.op # "Phi"
  BY DEF LiftedOp
<1>8. QED
  BY <1>1, <1>2, <1>3, <1>4, <1>5, <1>6, <1>7

-----------------------------------------------------------------------------
(* Running one instruction.                                                *)

Registers == {r \in [Tracked -> Word] : \A vn \in Tracked : r[vn] \in Values(vn)}

(* What s says of the registers in A is what r holds, or nothing.          *)
Claims(s, A, r) == \A vn \in A : Get(s, vn) \in {NotConstant, Const(r[vn])}

Agree(A, r1, r2) == \A vn \in A : r1[vn] = r2[vn]

(* The machines, running the original and the rewritten function, after    *)
(* instructions that have assigned A.                                      *)
Consistent(s, A, r1, r2) ==
  /\ A \in SUBSET Tracked /\ r1 \in Registers /\ r2 \in Registers
  /\ Claims(s, A, r1)
  /\ Agree(A, r1, r2)

(* The registers that hold results of the function after op.               *)
AssignedAfter(op, A) ==
  IF ~ Defines(op) THEN A
  ELSE IF Uses(op) \subseteq A THEN A \union {op.dest}
  ELSE A \ {op.dest}

(* op leaves x in its destination.                                         *)
Write(r, dest, x) == [r EXCEPT ![dest] = x]

LEMMA WriteReads ==
  ASSUME NEW r \in Registers, NEW dest \in Tracked, NEW x \in Values(dest)
  PROVE  /\ Write(r, dest, x) \in Registers
         /\ \A vn \in Tracked : Write(r, dest, x)[vn] = IF vn = dest THEN x ELSE r[vn]
<1>1. r \in [Tracked -> Word] /\ \A vn \in Tracked : r[vn] \in Values(vn)
  BY DEF Registers
<1>2. x \in Word
  BY ValuesFitWord, WidthAssumption
<1>3. Write(r, dest, x) \in [Tracked -> Word]
  BY <1>1, <1>2 DEF Write
<1>4. \A vn \in Tracked : Write(r, dest, x)[vn] = IF vn = dest THEN x ELSE r[vn]
  BY <1>1 DEF Write
<1>5. QED
  BY <1>1, <1>3, <1>4 DEF Registers

LEMMA ExecuteCases ==
  ASSUME NEW op, NEW r, NEW l
  PROVE  /\ op.op = "Copy" => Execute(op, r, l) = Write(r, op.dest, Value(op.src, r))
         /\ op.op \in BinaryOps =>
              Execute(op, r, l)
                = Write(r, op.dest, Result(op, Value(op.lhs, r), Value(op.rhs, r)))
         /\ op.op = "Load" => Execute(op, r, l) = Write(r, op.dest, l)
         /\ op.op \notin {"Copy", "Load"} \union BinaryOps => Execute(op, r, l) = r
<1>1. op.op \in BinaryOps => op.op \notin {"Copy", "Load"}
  BY DEF BinaryOps
<1>2. QED
  BY <1>1 DEF Execute, Write

LEMMA ValueFits ==
  ASSUME NEW r \in Registers, NEW vn, IsOperand(vn)
  PROVE  Value(vn, r) \in Values(vn)
  BY TrackedAssumption DEF Registers, IsOperand, Value

(* A claim about the operands is a claim about what they hold.             *)
LEMMA ClaimOfOperand ==
  ASSUME NEW s, NEW A, NEW r, Claims(s, A, r), NEW vn,
         vn.space = "Constant" \/ vn \in A
  PROVE  Get(s, vn) \in {NotConstant, Const(Value(vn, r))}
<1>1. CASE vn.space = "Constant"
  BY <1>1 DEF Get, Value
<1>2. CASE vn.space # "Constant"
  BY <1>2 DEF Claims, Value
<1>3. QED
  BY <1>1, <1>2

(* An operand that has been replaced still holds what it held.             *)
LEMMA SubstituteHolds ==
  ASSUME NEW s \in FittingState, NEW A, NEW r1, NEW r2, Claims(s, A, r1),
         Agree(A, r1, r2), NEW vn, vn.space = "Constant" \/ vn \in A
  PROVE  Value(Substitute(vn, s), r2) = Value(vn, r1)
<1>1. CASE vn.space # "Constant" /\ Known(vn, s)
  <2>1. Substitute(vn, s) = Constant(Get(s, vn).value, vn.size)
    BY <1>1 DEF Substitute
  <2>2. Value(Substitute(vn, s), r2) = Get(s, vn).value
    BY <2>1, LiteralReads DEF Value
  <2>3. Get(s, vn) = Const(Value(vn, r1))
    BY <1>1, ClaimOfOperand, HoldableValues DEF Known
  <2>4. QED
    BY <2>2, <2>3, HoldableValues
<1>2. CASE vn.space = "Constant"
  BY <1>2 DEF Substitute, Value
<1>3. CASE vn.space # "Constant" /\ ~ Known(vn, s)
  BY <1>3 DEF Substitute, Value, Agree
<1>4. QED
  BY <1>1, <1>2, <1>3

(* One instruction of both machines: op writes x in one, y in the other.   *)
LEMMA WriteAgrees ==
  ASSUME NEW s \in FittingState, NEW A, NEW r1, NEW r2, Consistent(s, A, r1, r2),
         NEW dest \in Tracked, NEW v, NEW x \in Values(dest), NEW y \in Values(dest),
         NEW B, B \in {A \union {dest}, A \ {dest}},
         dest \in B => x = y /\ v \in {NotConstant, Const(x)}
  PROVE  Consistent(Set(s, dest, v), B, Write(r1, dest, x), Write(r2, dest, y))
<1>0. /\ A \in SUBSET Tracked /\ B \in SUBSET Tracked
      /\ r1 \in Registers /\ r2 \in Registers
      /\ Claims(s, A, r1) /\ Agree(A, r1, r2)
  BY DEF Consistent
<1>1. dest.space # "Constant"
  BY TrackedAssumption
<1>2. ASSUME NEW vn \in B, vn # dest
      PROVE  /\ Get(Set(s, dest, v), vn) \in {NotConstant, Const(Write(r1, dest, x)[vn])}
             /\ Write(r1, dest, x)[vn] = Write(r2, dest, y)[vn]
  <2>1. vn \in A /\ vn \in Tracked
    BY <1>0, <1>2
  <2>2. Write(r1, dest, x)[vn] = r1[vn] /\ Write(r2, dest, y)[vn] = r2[vn]
    BY <1>0, <1>2, <2>1, WriteReads
  <2>3. Get(Set(s, dest, v), vn) = Get(s, vn)
    BY <1>1, <1>2, GetSet
  <2>4. QED
    BY <1>0, <2>1, <2>2, <2>3 DEF Claims, Agree
<1>3. ASSUME dest \in B
      PROVE  /\ Get(Set(s, dest, v), dest) \in {NotConstant, Const(Write(r1, dest, x)[dest])}
             /\ Write(r1, dest, x)[dest] = Write(r2, dest, y)[dest]
  <2>1. Write(r1, dest, x)[dest] = x /\ Write(r2, dest, y)[dest] = y
    BY <1>0, WriteReads
  <2>2. Get(Set(s, dest, v), dest) = v
    BY <1>1, GetSet
  <2>3. QED
    BY <1>3, <2>1, <2>2
<1>4. Write(r1, dest, x) \in Registers /\ Write(r2, dest, y) \in Registers
  BY <1>0, WriteReads
<1>5. QED
  BY <1>0, <1>2, <1>3, <1>4 DEF Claims, Agree, Consistent

LEMMA UsesCases ==
  ASSUME NEW op
  PROVE  /\ op.op = "Copy" => Defines(op) /\ Uses(op) = {op.src} \ {vn \in {op.src} : vn.space = "Constant"}
         /\ op.op \in BinaryOps =>
              /\ Defines(op)
              /\ Uses(op) = {op.lhs, op.rhs} \ {vn \in {op.lhs, op.rhs} : vn.space = "Constant"}
         /\ op.op = "Load" => Defines(op) /\ Uses(op) = {}
         /\ op.op \notin {"Copy", "Load"} \union BinaryOps => ~ Defines(op)
<1>1. op.op \in BinaryOps => op.op \notin {"Copy", "Load"}
  BY DEF BinaryOps
<1>2. QED
  BY <1>1 DEF Uses, Defines

(* One instruction and its rewriting, executed side by side, leave what    *)
(* the analysis says afterwards true and the machines in agreement.        *)
LEMMA StepAgrees ==
  ASSUME NEW op, LiftedOp(op), NEW s \in FittingState,
         NEW A, NEW r1, NEW r2, Consistent(s, A, r1, r2),
         NEW l \in IF op.op = "Load" THEN Values(op.dest) ELSE {0}
  PROVE  Consistent(TransferInstruction(op, s), AssignedAfter(op, A),
                    Execute(op, r1, l), Execute(SubstituteAndFold(op, s), r2, l))
<1> DEFINE new == SubstituteAndFold(op, s)
           B == AssignedAfter(op, A)
           e1 == Execute(op, r1, l)
           e2 == Execute(new, r2, l)
           t == TransferInstruction(op, s)
           Goal == Consistent(t, B, e1, e2)
<1>a. /\ A \in SUBSET Tracked /\ r1 \in Registers /\ r2 \in Registers
      /\ Claims(s, A, r1) /\ Agree(A, r1, r2)
  BY DEF Consistent
<1>d. op.op \in {"Copy", "Load"} \union BinaryOps =>
        /\ op.dest \in Tracked /\ FitsWord(op.dest)
        /\ B \in {A \union {op.dest}, A \ {op.dest}}
        /\ op.dest \in B => Uses(op) \subseteq A
  BY WidthAssumption, UsesCases DEF LiftedOp, AssignedAfter
<1>1. ASSUME NEW v, NEW x, NEW y,
             op.op \in {"Copy", "Load"} \union BinaryOps,
             t = Set(s, op.dest, v),
             e1 = Write(r1, op.dest, x), e2 = Write(r2, op.dest, y),
             x \in Values(op.dest), y \in Values(op.dest),
             Uses(op) \subseteq A => x = y /\ v \in {NotConstant, Const(x)}
      PROVE  Goal
  <2> HIDE DEF B, e1, e2, t, new
  <2>1. op.dest \in B => x = y /\ v \in {NotConstant, Const(x)}
    BY <1>1, <1>d
  <2>2. Consistent(Set(s, op.dest, v), B, Write(r1, op.dest, x), Write(r2, op.dest, y))
    BY <1>1, <1>d, <2>1, WriteAgrees
  <2>3. QED
    BY <1>1, <2>2
<1>2. ASSUME op.op = "Copy"
      PROVE  Goal
  <2>1. /\ op.dest \in Tracked /\ IsOperand(op.src) /\ op.src.size = op.dest.size
    BY <1>2 DEF LiftedOp
  <2> DEFINE sub == Substitute(op.src, s)
  <2>2. IsOperand(sub) /\ sub.size = op.src.size
    BY <2>1, SubstituteFits
  <2>3. /\ Value(op.src, r1) \in Values(op.dest) /\ Value(sub, r2) \in Values(op.dest)
    BY <1>a, <2>1, <2>2, ValueFits, HoldableSize
  <2>4. new = Copy(op.dest, sub) /\ t = Set(s, op.dest, Get(s, op.src))
        /\ e1 = Write(r1, op.dest, Value(op.src, r1))
    BY <1>2, RewriteCases, TransferCases, ExecuteCases
  <2>5. new.op = "Copy" /\ new.dest = op.dest /\ new.src = sub
    BY <2>4, InstructionFields
  <2>6. e2 = Write(r2, op.dest, Value(sub, r2))
    BY <2>5, ExecuteCases
  <2>7. ASSUME Uses(op) \subseteq A
        PROVE  /\ Value(op.src, r1) = Value(sub, r2)
               /\ Get(s, op.src) \in {NotConstant, Const(Value(op.src, r1))}
    <3>1. op.src.space = "Constant" \/ op.src \in A
      BY <1>2, <2>7, UsesCases
    <3>2. QED
      BY <1>a, <3>1, SubstituteHolds, ClaimOfOperand
  <2> HIDE DEF sub, t, e1, e2, B, new, Goal
  <2>8. QED
    BY <1>1, <1>2, <2>3, <2>4, <2>6, <2>7
<1>3. ASSUME op.op \in BinaryOps
      PROVE  Goal
  <2>1. /\ op.dest \in Tracked /\ IsOperand(op.lhs) /\ IsOperand(op.rhs)
        /\ op.lhs.size = op.rhs.size /\ FitsWord(op.dest) /\ FitsWord(op.lhs)
    BY <1>3, OperandFits, WidthAssumption DEF LiftedOp
  <2> DEFINE x == Result(op, Value(op.lhs, r1), Value(op.rhs, r1))
             v == EvalBinop(op, Get(s, op.lhs), Get(s, op.rhs))
  <2>2. Value(op.lhs, r1) \in Values(op.lhs) /\ Value(op.rhs, r1) \in Values(op.rhs)
    BY <1>a, <2>1, ValueFits
  <2>3. x \in Values(op.dest)
        /\ x = Compute(op, Value(op.lhs, r1), Value(op.rhs, r1))
    BY <1>3, <2>1, <2>2, FoldingAgrees
  <2>4. t = Set(s, op.dest, v) /\ e1 = Write(r1, op.dest, x)
    BY <1>3, TransferCases, ExecuteCases
  <2>5. ASSUME Uses(op) \subseteq A
        PROVE  /\ op.lhs.space = "Constant" \/ op.lhs \in A
               /\ op.rhs.space = "Constant" \/ op.rhs \in A
               /\ v \in {NotConstant, Const(x)}
               /\ Folds(op, s) => v = Const(x)
    <3>1. /\ op.lhs.space = "Constant" \/ op.lhs \in A
          /\ op.rhs.space = "Constant" \/ op.rhs \in A
      BY <1>3, <2>5, UsesCases
    <3>2. /\ Get(s, op.lhs) \in {NotConstant, Const(Value(op.lhs, r1))}
          /\ Get(s, op.rhs) \in {NotConstant, Const(Value(op.rhs, r1))}
      BY <1>a, <3>1, ClaimOfOperand
    <3> HIDE DEF x
    <3>3. QED
      BY <2>3, <3>1, <3>2, HoldableValues DEF EvalBinop, Folds, Known
  <2>6. CASE Folds(op, s)
    <3> DEFINE c == Compute(op, Get(s, op.lhs).value, Get(s, op.rhs).value)
    <3>1. new = Copy(op.dest, Constant(c, op.dest.size))
      BY <2>6, RewriteCases DEF Fold
    <3>2. v = Const(c)
      BY <2>6 DEF Folds, Known, EvalBinop
    <3>3. Get(s, op.lhs).value \in Values(op.lhs) /\ Get(s, op.rhs).value \in Values(op.rhs)
      BY <2>1, <2>6, FittingGet, HoldableValues DEF Known, Folds
    <3>4. c \in Values(op.dest)
      BY <1>3, <2>1, <3>3, FoldingAgrees
    <3> HIDE DEF c, x, v
    <3>5. new.op = "Copy" /\ new.dest = op.dest /\ new.src = Constant(c, op.dest.size)
      BY <3>1, InstructionFields
    <3>6. e2 = Write(r2, op.dest, c)
      BY <3>5, ExecuteCases, LiteralReads DEF Value
    <3>7. Uses(op) \subseteq A => x = c /\ v \in {NotConstant, Const(x)}
      BY <2>5, <2>6, <3>2, HoldableValues
    <3> HIDE DEF t, e1, e2, B, new, Goal
    <3>8. QED
      BY <1>1, <1>3, <2>3, <2>4, <3>4, <3>6, <3>7
  <2>7. CASE ~ Folds(op, s)
    <3> DEFINE lsub == Substitute(op.lhs, s)
               rsub == Substitute(op.rhs, s)
               y == Result(op, Value(lsub, r2), Value(rsub, r2))
    <3>1. new = Binary(op.op, op.dest, lsub, rsub)
      BY <1>3, <2>7, RewriteCases
    <3>2. /\ IsOperand(lsub) /\ lsub.size = op.lhs.size
          /\ IsOperand(rsub) /\ rsub.size = op.rhs.size
      BY <2>1, SubstituteFits
    <3>3. Value(lsub, r2) \in Values(op.lhs) /\ Value(rsub, r2) \in Values(op.rhs)
      BY <1>a, <3>2, ValueFits, HoldableSize
    <3>4. y \in Values(op.dest)
      BY <1>3, <2>1, <3>3, FoldingAgrees
    <3>5. Uses(op) \subseteq A => x = y
      BY <1>a, <2>5, SubstituteHolds
    <3> HIDE DEF lsub, rsub, x, v
    <3>6. /\ new.op = op.op /\ new.dest = op.dest /\ new.lhs = lsub /\ new.rhs = rsub
      BY <3>1, InstructionFields
    <3>7. Result(new, Value(lsub, r2), Value(rsub, r2)) = y
      BY <3>2, <3>6 DEF Result, Bits
    <3>8. e2 = Write(r2, op.dest, y)
      BY <1>3, <3>6, <3>7, ExecuteCases
    <3> HIDE DEF t, e1, e2, B, new, Goal, y
    <3>9. QED
      BY <1>1, <1>3, <2>3, <2>4, <2>5, <3>4, <3>5, <3>8
  <2>8. QED
    BY <2>6, <2>7
<1>4. ASSUME op.op = "Load"
      PROVE  Goal
  <2>1. new = Load(op.dest, Substitute(op.addr, s)) /\ t = Set(s, op.dest, NotConstant)
        /\ e1 = Write(r1, op.dest, l) /\ l \in Values(op.dest)
    BY <1>4, RewriteCases, TransferCases, ExecuteCases
  <2>2. new.op = "Load" /\ new.dest = op.dest
    BY <2>1, InstructionFields
  <2>3. e2 = Write(r2, op.dest, l)
    BY <2>2, ExecuteCases
  <2> HIDE DEF t, e1, e2, B, new, Goal
  <2>4. QED
    BY <1>1, <1>4, <2>1, <2>3
<1>5. ASSUME op.op \notin {"Copy", "Load"} \union BinaryOps
      PROVE  Goal
  <2>1. new.op = op.op
    <3>1. CASE op.op \in {"Store", "CBranch"}
      BY <3>1, RewriteCases, InstructionFields
    <3>2. CASE op.op \notin {"Store", "CBranch"}
      BY <1>5, <3>2, RewriteCases DEF LiftedOp
    <3>3. QED
      BY <3>1, <3>2
  <2>2. e1 = r1 /\ e2 = r2 /\ t = s
    BY <1>5, <2>1, ExecuteCases, TransferCases DEF LiftedOp
  <2>3. B = A
    BY <1>5, UsesCases DEF AssignedAfter
  <2>4. QED
    BY <2>2, <2>3
<1>6. Goal
  BY <1>2, <1>3, <1>4, <1>5
<1>7. QED
  BY <1>6

-----------------------------------------------------------------------------
(* The solver.                                                             *)

(* The instructions of lifted code and of code that has been rewritten.    *)
Rewrites(I) == {SubstituteAndFold(op, s) : op \in I, s \in FittingState}

Reachable == Instructions \union Rewrites(Instructions)

(* The theorems about the dataflow engine, for the lattice of states whose *)
(* constants fit their registers.                                          *)
SolverProofs ==
  INSTANCE DataflowProofs
    WITH State <- FittingState, Top <- TopState, Merge <- MergeState,
         Transfer <- TransferBlock, Below <- BelowState, Code <- Seq(Reachable)

LEMMA ReachableIsLifted == \A op \in Reachable : LiftedOp(op)
<1>1. \A op \in Instructions : LiftedOp(op)
  BY CodeAssumption
<1>2. \A op \in Instructions, s \in FittingState : LiftedOp(SubstituteAndFold(op, s))
  BY <1>1, RewriteIsLifted
<1>3. QED
  BY <1>1, <1>2 DEF Reachable, Rewrites

LEMMA BodyIsLifted ==
  ASSUME NEW ops \in Seq(Reachable)
  PROVE  LiftedBody(ops)
  BY ReachableIsLifted DEF LiftedBody

LEMMA CodeIsReachable == Code \subseteq Seq(Reachable)
<1>1. Instructions \subseteq Reachable
  BY DEF Reachable
<1>2. Seq(Instructions) \subseteq Seq(Reachable)
  BY <1>1
<1>3. QED
  BY <1>2, CodeAssumption

LEMMA SolverN == SolverProofs!NAssumption
  BY NAssumption DEF SolverProofs!NAssumption

LEMMA SolverGraph == SolverProofs!GraphAssumption
  BY GraphAssumption DEF SolverProofs!GraphAssumption, Solver!GraphAssumption,
                         SolverProofs!Block, Solver!Block

LEMMA SolverLattice == SolverProofs!LatticeAssumption
  BY FittingStateIsLattice DEF SolverProofs!LatticeAssumption

LEMMA SolverTransfer == SolverProofs!TransferAssumption
  BY BodyIsLifted, BlockTransferIsMonotone DEF SolverProofs!TransferAssumption

SolverInv ==
  /\ SolverProofs!Parameters
  /\ SolverProofs!TypeOK
  /\ SolverProofs!QueueMatchesSet
  /\ SolverProofs!LoopInv
  /\ SolverProofs!SolvedUnlessPending
  /\ SolverProofs!AboveEverySolution

LEMMA SolverStarts == SolverProofs!Init => SolverInv
<1>1. SolverProofs!Init => SolverProofs!Parameters
  BY DEF SolverProofs!Init, SolverProofs!Parameters
<1>2. QED
  BY <1>1, SolverN, SolverGraph, SolverLattice, SolverTransfer,
     SolverProofs!TypeInit, SolverProofs!QueueInit, SolverProofs!LoopInit,
     SolverProofs!SolvedInit, SolverProofs!SolutionInit DEF SolverInv

(* RunAgain leaves a fresh solver behind.                                  *)
LEMMA SolverRestarts == SolverProofs!Init' => SolverInv'
<1>1. QED
  BY SolverStarts, PTL

LEMMA SolverSteps ==
  ASSUME SolverInv, Solver!Step
  PROVE  SolverInv'
<1>1. SolverProofs!Next
  BY DEF SolverProofs!Next, SolverProofs!Step, SolverProofs!PopFront,
         SolverProofs!MergePredecessor, SolverProofs!VisitChanged,
         SolverProofs!VisitUnchanged, SolverProofs!Visit,
         SolverProofs!PushSuccessor, SolverProofs!EndPush,
         Solver!Step, Solver!PopFront, Solver!MergePredecessor,
         Solver!VisitChanged, Solver!VisitUnchanged, Solver!Visit,
         Solver!PushSuccessor, Solver!EndPush
<1>2. SolverProofs!Parameters'
  <2>1. graph' = graph /\ code' = code
    BY DEF Solver!Step, Solver!PopFront, Solver!MergePredecessor,
           Solver!VisitChanged, Solver!VisitUnchanged, Solver!Visit,
           Solver!PushSuccessor, Solver!EndPush
  <2>2. QED
    BY <2>1 DEF SolverInv, SolverProofs!Parameters
<1>3. SolverProofs!TypeOK'
  BY <1>1, SolverN, SolverGraph, SolverLattice, SolverTransfer,
     SolverProofs!TypeStep DEF SolverInv
<1>4. SolverProofs!QueueMatchesSet'
  BY <1>1, SolverN, SolverGraph, SolverLattice, SolverTransfer,
     SolverProofs!QueueStep DEF SolverInv
<1>5. SolverProofs!LoopInv'
  BY <1>1, SolverN, SolverGraph, SolverLattice, SolverTransfer,
     SolverProofs!LoopStep DEF SolverInv
<1>6. SolverProofs!SolvedUnlessPending'
  BY <1>1, SolverN, SolverGraph, SolverLattice, SolverTransfer,
     SolverProofs!SolvedStep DEF SolverInv
<1>7. SolverProofs!AboveEverySolution'
  BY <1>1, SolverN, SolverGraph, SolverLattice, SolverTransfer,
     SolverProofs!SolutionStep DEF SolverInv
<1>8. QED
  BY <1>2, <1>3, <1>4, <1>5, <1>6, <1>7 DEF SolverInv

(* Nothing of the solver has changed.                                      *)
LEMMA SolverKept ==
  ASSUME SolverInv, UNCHANGED solving
  PROVE  SolverInv'
<1>1. UNCHANGED SolverProofs!vars
  BY DEF solving, SolverProofs!vars
<1>2. SolverProofs!Parameters'
  BY DEF solving, SolverInv, SolverProofs!Parameters
<1>3. QED
  BY <1>1, <1>2, SolverN, SolverGraph, SolverLattice, SolverTransfer,
     SolverProofs!TypeStep, SolverProofs!QueueStep, SolverProofs!LoopStep,
     SolverProofs!SolvedStep, SolverProofs!SolutionStep DEF SolverInv

(* What the solver returns is a solution, and no solution claims more.     *)
LEMMA SolverSolves ==
  ASSUME SolverInv, Solver!Done
  PROVE  /\ SolverProofs!Abstract!Fixpoint(graph, code, block_in, block_out)
         /\ SolverProofs!AboveEverySolution
<1>1. SolverProofs!Done
  BY DEF Solver!Done, SolverProofs!Done
<1>2. QED
  BY <1>1, SolverN, SolverGraph, SolverLattice, SolverTransfer,
     SolverProofs!DoneIsFixpoint DEF SolverInv

LEMMA SolverTypes ==
  ASSUME SolverInv
  PROVE  /\ graph \in Graphs
         /\ code \in [Block -> Seq(Reachable)]
         /\ block_in \in [Block -> FittingState]
         /\ block_out \in [Block -> FittingState]
         /\ graph.successors \in [Block -> Seq(Block)]
         /\ graph.predecessors \in [Block -> Seq(Block)]
         /\ \A c \in Block : LiftedBody(code[c])
<1>1. /\ graph \in Graphs
      /\ code \in [Block -> Seq(Reachable)]
      /\ block_in \in [Block -> FittingState]
      /\ block_out \in [Block -> FittingState]
      /\ graph.successors \in [Block -> Seq(Block)]
      /\ graph.predecessors \in [Block -> Seq(Block)]
  BY DEF SolverInv, SolverProofs!Parameters, SolverProofs!TypeOK,
         SolverProofs!Block, Block
<1>2. QED
  BY <1>1, BodyIsLifted

-----------------------------------------------------------------------------
(* The invariant.                                                          *)

(* The state before instruction j of block c: what the solver says of the  *)
(* start of the block, walked through the instructions before j.           *)
StateAt(c, j) == Walk(code[c], block_in[c])[j - 1]

RewrittenAt(c, j) == SubstituteAndFold(code[c][j], StateAt(c, j))

(* The instructions of block c that the walk has left behind.              *)
VisitedIn(c) ==
  IF phase = "run" \/ c < b THEN Len(code[c])
  ELSE IF c = b THEN i - 1
  ELSE 0

(* What is recorded of block c.                                            *)
Recorded(c) ==
  /\ Len(facts[c]) = VisitedIn(c) /\ Len(folded[c]) = VisitedIn(c)
  /\ \A j \in 1 .. VisitedIn(c) :
       facts[c][j] = StateAt(c, j) /\ folded[c][j] = RewrittenAt(c, j)

ControlInv ==
  /\ phase \in {"solve", "rewrite", "run"}
  /\ pass \in {1, 2}
  /\ b \in 1 .. N + 1
  /\ phase # "solve" => Solver!Done
  /\ pass = 1 => code \in [Block -> Code]
  /\ state \in FittingState
  /\ facts \in [Block -> Seq(FittingState)]
  /\ folded \in [Block -> Seq(Rewrites(Reachable))]
  /\ \A c \in Block : Len(folded[c]) = Len(facts[c])
  /\ before \in Registers /\ after \in Registers /\ assigned \in SUBSET Tracked
  /\ phase # "run" => assigned = {}

(* The running state and all that has been recorded are those of the walks *)
(* of the blocks visited so far.                                           *)
WalkInv ==
  phase # "solve" =>
    /\ b \in Block => i \in 1 .. Len(code[b]) + 1
    /\ b \in Block /\ phase = "rewrite" => state = StateAt(b, i)
    /\ \A c \in Block : Recorded(c)

(* Between two instructions the machines agree, and the analysis claims    *)
(* what is true.                                                           *)
RunInv ==
  phase = "run" =>
    /\ pass = 1 /\ b \in Block
    /\ Consistent(StateAt(b, i), assigned, before, after)

Inv == SolverInv /\ ControlInv /\ WalkInv /\ RunInv

LEMMA StatesOfWalk ==
  ASSUME SolverInv, NEW c \in Block
  PROVE  /\ Len(code[c]) \in Nat
         /\ StateAt(c, 1) = block_in[c]
         /\ \A j \in 1 .. Len(code[c]) + 1 : StateAt(c, j) \in FittingState
         /\ \A j \in 1 .. Len(code[c]) :
              /\ code[c][j] \in Reachable /\ LiftedOp(code[c][j])
              /\ StateAt(c, j + 1) = TransferInstruction(code[c][j], StateAt(c, j))
         /\ StateAt(c, Len(code[c]) + 1) = TransferBlock(code[c], block_in[c])
<1>1. /\ code[c] \in Seq(Reachable) /\ block_in[c] \in FittingState
      /\ LiftedBody(code[c])
  BY SolverTypes
<1>2. Len(code[c]) \in Nat /\ \A j \in 1 .. Len(code[c]) : code[c][j] \in Reachable
  BY <1>1
<1> DEFINE w == Walk(code[c], block_in[c])
           L == Len(code[c])
<1>3. /\ w[0] = block_in[c]
      /\ \A j \in 0 .. L : w[j] \in FittingState
      /\ \A j \in 1 .. L : w[j] = TransferInstruction(code[c][j], w[j - 1])
  BY <1>1, WalkUnfolds
<1>4. \A j : StateAt(c, j) = w[j - 1]
  BY DEF StateAt
<1>5. TransferBlock(code[c], block_in[c]) = w[L]
  BY DEF TransferBlock
<1> HIDE DEF w
<1>6. \A j \in 1 .. L + 1 : j - 1 \in 0 .. L
  BY <1>2
<1>7. \A j \in 1 .. L : j \in 1 .. L + 1 /\ (j + 1) - 1 = j
  BY <1>2
<1>8. (L + 1) - 1 = L /\ 1 - 1 = 0
  BY <1>2
<1> HIDE DEF L
<1>9. /\ \A j \in 1 .. L + 1 : StateAt(c, j) \in FittingState
      /\ StateAt(c, 1) = block_in[c] /\ StateAt(c, L + 1) = w[L]
  BY <1>3, <1>4, <1>6, <1>8
<1>10. \A j \in 1 .. L : StateAt(c, j + 1) = TransferInstruction(code[c][j], StateAt(c, j))
  BY <1>3, <1>4, <1>7
<1>11. \A j \in 1 .. L : code[c][j] \in Reachable /\ LiftedOp(code[c][j])
  BY <1>2, ReachableIsLifted DEF L
<1>12. QED
  BY <1>2, <1>5, <1>9, <1>10, <1>11 DEF L

LEMMA RegistersExist == [vn \in Tracked |-> 0] \in Registers
<1>1. \A vn \in Tracked : 0 \in Values(vn) /\ 0 \in Word
  <2>1. ASSUME NEW vn \in Tracked PROVE 0 \in Values(vn)
    <3>1. Bits(vn) \in Nat
      BY WidthAssumption, ByteAssumption DEF FitsWord, Bits
    <3>2. TwoTo[Bits(vn)] \in Nat \ {0}
      BY <3>1, TwoToType
    <3>3. QED
      BY <3>2 DEF Values
  <2>2. QED
    BY <2>1, ValuesFitWord, WidthAssumption
<1>2. QED
  BY <1>1 DEF Registers

LEMMA InvInit == Init => Inv
<1> SUFFICES ASSUME Init PROVE Inv
  OBVIOUS
<1>1. SolverProofs!Init
  BY CodeIsReachable DEF Init, Solver!Init, SolverProofs!Init, Solver!Block, SolverProofs!Block
<1>2. SolverInv
  BY <1>1, SolverStarts
<1>3. ControlInv
  <2>1. code \in [Block -> Code] /\ b \in 1 .. N + 1
    BY NAssumption DEF Init, Solver!Init, Solver!Block, Block
  <2>2. TopState \in FittingState
    BY FittingStateIsLattice
  <2>3. facts = NoFacts /\ folded = NoFacts
    BY DEF Init
  <2>4. /\ facts \in [Block -> Seq(FittingState)]
        /\ folded \in [Block -> Seq(Rewrites(Reachable))]
        /\ \A c \in Block : Len(folded[c]) = Len(facts[c])
    BY <2>3 DEF NoFacts
  <2>5. before \in Registers /\ after \in Registers /\ assigned = {}
    BY RegistersExist DEF Init
  <2>6. QED
    BY <2>1, <2>2, <2>4, <2>5 DEF Init, ControlInv
<1>4. QED
  BY <1>2, <1>3 DEF Init, Inv, WalkInv, RunInv

LEMMA InvSolve ==
  ASSUME Inv, Solve
  PROVE  Inv'
<1>1. SolverInv'
  BY SolverSteps DEF Inv, Solve
<1>2. code' = code
  BY DEF Solve, Solver!Step, Solver!PopFront, Solver!MergePredecessor,
         Solver!VisitChanged, Solver!VisitUnchanged, Solver!Visit,
         Solver!PushSuccessor, Solver!EndPush
<1>3. QED
  BY <1>1, <1>2 DEF Inv, Solve, ControlInv, WalkInv, RunInv, walking, running

(* Outside of Solve and RunAgain the walks stay what they are.             *)
LEMMA WalksKept ==
  ASSUME UNCHANGED solving
  PROVE  /\ \A c, j : StateAt(c, j)' = StateAt(c, j) /\ RewrittenAt(c, j)' = RewrittenAt(c, j)
         /\ code' = code /\ block_in' = block_in /\ block_out' = block_out
         /\ graph' = graph
         /\ Solver!Done' = Solver!Done
BY DEF solving, StateAt, RewrittenAt, Solver!Done

-----------------------------------------------------------------------------
(* The steps of the pass preserve the invariant.                           *)

LEMMA InvStartRewrite ==
  ASSUME Inv, StartRewrite
  PROVE  Inv'
<1>1. /\ UNCHANGED <<solving, pass, running>> /\ phase = "solve" /\ phase' = "rewrite"
      /\ b' = 1 /\ i' = 1 /\ state' = block_in[1]
      /\ facts' = NoFacts /\ folded' = NoFacts /\ Solver!Done
  BY DEF StartRewrite
<1>2. SolverInv'
  BY <1>1, SolverKept DEF Inv
<1>3. 1 \in Block /\ N \in Nat
  BY NAssumption DEF Block
<1>4. /\ Len(code[1]) \in Nat /\ StateAt(1, 1) = block_in[1]
      /\ block_in[1] \in FittingState
  BY <1>3, StatesOfWalk, SolverTypes DEF Inv
<1>5. ControlInv'
  <2>1. /\ facts' \in [Block -> Seq(FittingState)]
        /\ folded' \in [Block -> Seq(Rewrites(Reachable))]
        /\ \A c \in Block : Len(folded'[c]) = Len(facts'[c])
    BY <1>1 DEF NoFacts
  <2>2. b' \in 1 .. N + 1
    BY <1>1, NAssumption
  <2>3. QED
    BY <1>1, <1>4, <2>1, <2>2, WalksKept DEF Inv, ControlInv, running
<1>6. WalkInv'
  <2>1. \A c \in Block : VisitedIn(c)' = 0
    BY <1>1, NAssumption DEF VisitedIn, Block
  <2>2. \A c \in Block : Len(facts'[c]) = 0 /\ Len(folded'[c]) = 0
    BY <1>1 DEF NoFacts
  <2>3. \A c \in Block : Recorded(c)'
    BY <2>1, <2>2 DEF Recorded
  <2>4. i' \in 1 .. Len(code'[b']) + 1 /\ state' = StateAt(b, i)'
    <3>1. StateAt(b, i)' = StateAt(1, 1)
      BY <1>1, WalksKept DEF StateAt
    <3>2. QED
      BY <1>1, <1>4, <3>1, WalksKept
  <2>5. QED
    BY <2>3, <2>4 DEF WalkInv
<1>7. QED
  BY <1>1, <1>2, <1>5, <1>6 DEF Inv, RunInv

LEMMA InvRewriteInstruction ==
  ASSUME Inv, RewriteInstruction
  PROVE  Inv'
<1> DEFINE op == code[b][i]
           new == SubstituteAndFold(op, state)
<1>1. /\ UNCHANGED solving /\ phase' = phase /\ pass' = pass /\ b' = b /\ i' = i + 1
      /\ UNCHANGED running
      /\ phase = "rewrite" /\ b <= N /\ i <= Len(code[b])
      /\ folded' = [folded EXCEPT ![b] = Append(@, new)]
      /\ facts' = [facts EXCEPT ![b] = Append(@, state)]
      /\ state' = TransferInstruction(op, state)
  BY DEF RewriteInstruction
<1>2. SolverInv'
  BY <1>1, SolverKept DEF Inv
<1>3. b \in Block
  BY <1>1, NAssumption DEF Inv, ControlInv, Block
<1>4. /\ i \in 1 .. Len(code[b]) /\ i \in Nat
      /\ Len(code[b]) \in Nat
      /\ state = StateAt(b, i) /\ Recorded(b)
  BY <1>1, <1>3, StatesOfWalk DEF Inv, WalkInv
<1>5. /\ LiftedOp(op) /\ op \in Reachable /\ state \in FittingState
      /\ StateAt(b, i + 1) = TransferInstruction(op, state)
  BY <1>3, <1>4, StatesOfWalk DEF Inv, ControlInv
<1>6. new \in Rewrites(Reachable) /\ new = RewrittenAt(b, i)
  BY <1>4, <1>5 DEF Rewrites, RewrittenAt
<1>7. state' \in FittingState
  BY <1>1, <1>5, TransferFits
<1> HIDE DEF new
<1>8. VisitedIn(b) = i - 1 /\ Len(facts[b]) = i - 1 /\ Len(folded[b]) = i - 1
  BY <1>1, <1>3, <1>4, NAssumption DEF VisitedIn, Recorded, Block
<1>9. facts[b] \in Seq(FittingState) /\ folded[b] \in Seq(Rewrites(Reachable))
  BY <1>3 DEF Inv, ControlInv
<1>10. /\ Append(facts[b], state) \in Seq(FittingState)
       /\ Len(Append(facts[b], state)) = i
       /\ Append(facts[b], state)[i] = state
       /\ \A j \in 1 .. i - 1 : Append(facts[b], state)[j] = facts[b][j]
  BY <1>4, <1>5, <1>8, <1>9
<1>11. /\ Append(folded[b], new) \in Seq(Rewrites(Reachable))
       /\ Len(Append(folded[b], new)) = i
       /\ Append(folded[b], new)[i] = new
       /\ \A j \in 1 .. i - 1 : Append(folded[b], new)[j] = folded[b][j]
  BY <1>4, <1>6, <1>8, <1>9
<1>12. /\ facts \in [Block -> Seq(FittingState)]
       /\ folded \in [Block -> Seq(Rewrites(Reachable))]
  BY DEF Inv, ControlInv
<1>13. /\ facts' \in [Block -> Seq(FittingState)]
       /\ folded' \in [Block -> Seq(Rewrites(Reachable))]
       /\ facts'[b] = Append(facts[b], state) /\ folded'[b] = Append(folded[b], new)
       /\ \A c \in Block : c # b => facts'[c] = facts[c] /\ folded'[c] = folded[c]
  BY <1>1, <1>3, <1>10, <1>11, <1>12
<1>14. ControlInv'
  <2>1. \A c \in Block : Len(folded'[c]) = Len(facts'[c])
    BY <1>10, <1>11, <1>13 DEF Inv, ControlInv
  <2>2. QED
    BY <1>1, <1>7, <1>13, <2>1, WalksKept DEF Inv, ControlInv, running
<1>15. WalkInv'
  <2>1. VisitedIn(b)' = i
    BY <1>1, <1>3, <1>4, NAssumption DEF VisitedIn, Block
  <2>2. \A c \in Block : c # b => VisitedIn(c)' = VisitedIn(c)
    BY <1>1, WalksKept DEF VisitedIn
  <2>3. ASSUME NEW c \in Block, c # b
        PROVE  Recorded(c)'
    <3>1. Recorded(c)
      BY <1>1 DEF Inv, WalkInv
    <3>2. QED
      BY <1>1, <1>13, <2>2, <2>3, <3>1, WalksKept DEF Recorded
  <2>4. ASSUME NEW j \in 1 .. i
        PROVE  facts'[b][j] = StateAt(b, j) /\ folded'[b][j] = RewrittenAt(b, j)
    <3>1. CASE j = i
      BY <1>4, <1>6, <1>10, <1>11, <1>13, <3>1
    <3>2. CASE j # i
      <4>1. j \in 1 .. i - 1
        BY <1>4, <3>2
      <4>2. facts[b][j] = StateAt(b, j) /\ folded[b][j] = RewrittenAt(b, j)
        BY <1>4, <1>8, <4>1 DEF Recorded
      <4>3. QED
        BY <1>10, <1>11, <1>13, <4>1, <4>2
    <3>3. QED
      BY <3>1, <3>2
  <2>5. Recorded(b)'
    <3>1. \A j : StateAt(b, j)' = StateAt(b, j) /\ RewrittenAt(b, j)' = RewrittenAt(b, j)
      BY <1>1, WalksKept DEF StateAt, RewrittenAt
    <3>2. QED
      BY <1>1, <1>10, <1>11, <1>13, <2>1, <2>4, <3>1 DEF Recorded
  <2>6. \A c \in Block : Recorded(c)'
    <3>1. ASSUME NEW c \in Block, c = b
          PROVE  Recorded(c)'
      <4>1. /\ facts'[c] = facts'[b'] /\ folded'[c] = folded'[b']
            /\ VisitedIn(c)' = VisitedIn(b)'
            /\ \A j : StateAt(c, j)' = StateAt(b, j)' /\ RewrittenAt(c, j)' = RewrittenAt(b, j)'
        BY <1>1, <3>1 DEF VisitedIn, StateAt, RewrittenAt
      <4>2. QED
        BY <2>5, <4>1 DEF Recorded
    <3>2. QED
      BY <2>3, <3>1
  <2>7. i' \in 1 .. Len(code'[b']) + 1
    BY <1>1, <1>4, WalksKept
  <2>8. state' = StateAt(b, i)'
    <3>1. StateAt(b, i)' = StateAt(b, i + 1)
      BY <1>1, WalksKept DEF StateAt
    <3>2. QED
      BY <1>1, <1>5, <3>1
  <2>9. QED
    BY <2>6, <2>7, <2>8 DEF WalkInv
<1>16. QED
  BY <1>1, <1>2, <1>14, <1>15 DEF Inv, RunInv

LEMMA InvNextBlock ==
  ASSUME Inv, NextBlock
  PROVE  Inv'
<1>1. /\ UNCHANGED solving /\ phase' = phase /\ pass' = pass /\ b' = b + 1 /\ i' = 1
      /\ facts' = facts /\ folded' = folded /\ UNCHANGED running
      /\ phase = "rewrite" /\ b <= N /\ i > Len(code[b])
      /\ state' = IF b < N THEN block_in[b + 1] ELSE state
  BY DEF NextBlock
<1>2. SolverInv'
  BY <1>1, SolverKept DEF Inv
<1>3. b \in Block /\ b \in Nat /\ N \in Nat
  BY <1>1, NAssumption DEF Inv, ControlInv, Block
<1>4. b < N => b + 1 \in Block
  BY <1>3 DEF Block
<1>5. state' \in FittingState
  BY <1>1, <1>4, SolverTypes DEF Inv, ControlInv
<1>6. ControlInv'
  <2>1. b' \in 1 .. N + 1
    BY <1>1, <1>3
  <2>2. QED
    BY <1>1, <1>5, <2>1, WalksKept DEF Inv, ControlInv, running
<1>7. WalkInv'
  <2>1. i = Len(code[b]) + 1
    BY <1>1, <1>3, StatesOfWalk DEF Inv, WalkInv
  <2>2. \A c \in Block : VisitedIn(c)' = VisitedIn(c)
    <3>1. Len(code[b]) \in Nat
      BY <1>3, StatesOfWalk DEF Inv
    <3> SUFFICES ASSUME NEW c \in Block PROVE VisitedIn(c)' = VisitedIn(c)
      OBVIOUS
    <3>2. c \in Nat
      BY <1>3 DEF Block
    <3>3. CASE c < b
      BY <1>1, <1>3, <3>2, <3>3, WalksKept DEF VisitedIn
    <3>4. CASE c = b
      BY <1>1, <1>3, <2>1, <3>1, <3>2, <3>4, WalksKept DEF VisitedIn
    <3>5. CASE c > b
      BY <1>1, <1>3, <3>2, <3>5, WalksKept DEF VisitedIn
    <3>6. QED
      BY <1>3, <3>2, <3>3, <3>4, <3>5
  <2>3. \A c \in Block : Recorded(c)'
    <3> SUFFICES ASSUME NEW c \in Block PROVE Recorded(c)'
      OBVIOUS
    <3>1. Recorded(c)
      BY <1>1 DEF Inv, WalkInv
    <3>2. QED
      BY <1>1, <2>2, <3>1, WalksKept DEF Recorded
  <2>4. ASSUME b' \in Block
        PROVE  i' \in 1 .. Len(code'[b']) + 1 /\ state' = StateAt(b, i)'
    <3>1. b < N /\ b + 1 \in Block
      BY <1>1, <1>3, <2>4 DEF Block
    <3>2. /\ Len(code[b + 1]) \in Nat /\ StateAt(b + 1, 1) = block_in[b + 1]
      BY <3>1, StatesOfWalk DEF Inv
    <3>3. StateAt(b, i)' = StateAt(b + 1, 1)
      BY <1>1, WalksKept DEF StateAt
    <3>4. QED
      BY <1>1, <3>1, <3>2, <3>3, WalksKept
  <2>5. QED
    BY <2>3, <2>4 DEF WalkInv
<1>8. QED
  BY <1>1, <1>2, <1>6, <1>7 DEF Inv, RunInv

LEMMA InvFinished ==
  ASSUME Inv, UNCHANGED vars
  PROVE  Inv'
<1>1. UNCHANGED solving /\ UNCHANGED <<phase, pass, walking, running>>
  BY DEF vars
<1>2. SolverInv'
  BY <1>1, SolverKept DEF Inv
<1>3. ControlInv'
  BY <1>1, WalksKept DEF Inv, ControlInv, walking, running
<1>4. \A c : VisitedIn(c)' = VisitedIn(c)
  BY <1>1, WalksKept DEF VisitedIn, walking
<1>5. \A c : Recorded(c)' = Recorded(c)
  BY <1>1, <1>4, WalksKept DEF Recorded, walking
<1>6. StateAt(b, i)' = StateAt(b, i)
  BY <1>1, WalksKept DEF StateAt, walking
<1>7. QED
  BY <1>1, <1>2, <1>3, <1>5, <1>6, WalksKept DEF Inv, WalkInv, RunInv, walking, running

(* The walk has visited every block.                                       *)
LEMMA AllRecorded ==
  ASSUME Inv, Rewritten
  PROVE  \A c \in Block :
           /\ VisitedIn(c) = Len(code[c])
           /\ Len(facts[c]) = Len(code[c]) /\ Len(folded[c]) = Len(code[c])
           /\ \A j \in 1 .. Len(code[c]) :
                facts[c][j] = StateAt(c, j) /\ folded[c][j] = RewrittenAt(c, j)
<1>1. phase = "rewrite" /\ b > N
  BY DEF Rewritten
<1>2. b = N + 1 /\ N \in Nat
  BY <1>1, NAssumption DEF Inv, ControlInv
<1> SUFFICES ASSUME NEW c \in Block
             PROVE  /\ VisitedIn(c) = Len(code[c])
                    /\ Len(facts[c]) = Len(code[c]) /\ Len(folded[c]) = Len(code[c])
                    /\ \A j \in 1 .. Len(code[c]) :
                         facts[c][j] = StateAt(c, j) /\ folded[c][j] = RewrittenAt(c, j)
  OBVIOUS
<1>3. VisitedIn(c) = Len(code[c])
  BY <1>2 DEF VisitedIn, Block
<1>4. Recorded(c)
  BY <1>1 DEF Inv, WalkInv
<1>5. QED
  BY <1>3, <1>4 DEF Recorded

LEMMA InvRunAgain ==
  ASSUME Inv, RunAgain
  PROVE  Inv'
<1>1. /\ Rewritten /\ pass = 1 /\ pass' = 2 /\ phase' = "solve"
      /\ code' = folded
      /\ queue' = [j \in 1 .. N |-> j] /\ queued' = Block
      /\ block_in' = [c \in Block |-> TopState]
      /\ block_out' = [c \in Block |-> TopState]
      /\ pc' = "pop" /\ addr' = 1 /\ acc' = TopState /\ k' = 1
      /\ UNCHANGED <<graph, walking, running>>
  BY DEF RunAgain
<1>2. ASSUME NEW c \in Block
      PROVE  folded[c] \in Seq(Reachable)
  <2>1. folded[c] \in Seq(Rewrites(Reachable))
    BY <1>2 DEF Inv, ControlInv
  <2>2. ASSUME NEW j \in 1 .. Len(folded[c])
        PROVE  folded[c][j] \in Reachable
    <3>1. j \in 1 .. Len(code[c]) /\ folded[c][j] = RewrittenAt(c, j)
      BY <1>1, <1>2, <2>2, AllRecorded
    <3>2. code[c] \in Code /\ j \in DOMAIN code[c]
      <4>1. code[c] \in Code
        BY <1>1, <1>2 DEF Inv, ControlInv
      <4>2. code[c] \in Seq(Instructions)
        BY <4>1, CodeAssumption
      <4>3. QED
        BY <3>1, <4>1, <4>2
    <3>3. code[c][j] \in Instructions
      BY <3>2 DEF Instructions
    <3>4. StateAt(c, j) \in FittingState
      <4>1. Len(code[c]) \in Nat /\ \A n \in 1 .. Len(code[c]) + 1 : StateAt(c, n) \in FittingState
        BY <1>2, StatesOfWalk DEF Inv
      <4>2. j \in 1 .. Len(code[c]) + 1
        BY <3>1, <4>1
      <4>3. QED
        BY <4>1, <4>2
    <3>5. QED
      BY <3>1, <3>3, <3>4 DEF Reachable, Rewrites, RewrittenAt
  <2>3. QED
    BY <2>1, <2>2, SeqDef
<1>3. code' \in [Block -> Seq(Reachable)]
  BY <1>1, <1>2 DEF Inv, ControlInv
<1>4. SolverProofs!Init'
  <2>1. graph' \in Graphs
    BY <1>1, SolverTypes DEF Inv
  <2>2. QED
    BY <1>1, <1>3, <2>1 DEF SolverProofs!Init, SolverProofs!Block, Block
<1>5. SolverInv'
  BY <1>4, SolverRestarts
<1>6. ControlInv'
  BY <1>1 DEF Inv, ControlInv, Rewritten, walking, running
<1>7. QED
  BY <1>1, <1>5, <1>6 DEF Inv, WalkInv, RunInv

-----------------------------------------------------------------------------
(* The steps of the runs preserve it.                                      *)

(* What is claimed of no register is true.                                 *)
LEMMA InvStartRun ==
  ASSUME Inv, StartRun
  PROVE  Inv'
<1>1. /\ Rewritten /\ pass = 1 /\ pass' = pass /\ phase' = "run" /\ b' = 1 /\ i' = 1
      /\ before' \in Registers /\ after' = before'
      /\ UNCHANGED <<solving, state, facts, folded, assigned>>
  BY DEF StartRun, Registers
<1>2. SolverInv' /\ UNCHANGED solving
  BY <1>1, SolverKept DEF Inv
<1>3. 1 \in Block /\ 1 \in 1 .. N + 1
  BY NAssumption DEF Block
<1>4. phase = "rewrite" /\ assigned = {}
  BY <1>1 DEF Rewritten, Inv, ControlInv
<1>5. ControlInv'
  BY <1>1, <1>2, <1>3, <1>4, WalksKept DEF Inv, ControlInv
<1>6. WalkInv'
  <2>1. ASSUME NEW c \in Block
        PROVE  Recorded(c)'
    <3>1. VisitedIn(c)' = Len(code[c])
      BY <1>1, <1>2, WalksKept DEF VisitedIn
    <3>2. QED
      BY <1>1, <1>2, <2>1, <3>1, AllRecorded, WalksKept DEF Recorded
  <2>2. i' \in 1 .. Len(code'[b']) + 1
    BY <1>1, <1>2, <1>3, StatesOfWalk, WalksKept DEF Inv
  <2>3. QED
    BY <1>1, <2>1, <2>2 DEF WalkInv
<1>7. RunInv'
  <2>1. Consistent(StateAt(b, i), assigned, before, after)'
    BY <1>1, <1>4 DEF Consistent, Claims, Agree
  <2>2. QED
    BY <1>1, <1>3, <2>1 DEF RunInv
<1>8. QED
  BY <1>2, <1>5, <1>6, <1>7 DEF Inv

LEMMA InvRunInstruction ==
  ASSUME Inv, RunInstruction
  PROVE  Inv'
<1> DEFINE op == code[b][i]
<1>1. /\ UNCHANGED <<solving, phase, pass, b, state, facts, folded>>
      /\ phase = "run" /\ i <= Len(code[b]) /\ i' = i + 1
      /\ assigned' = AssignedAfter(op, assigned)
  BY DEF RunInstruction, AssignedAfter
<1>2. PICK l \in (IF op.op = "Load" THEN Values(op.dest) ELSE {0}) :
        before' = Execute(op, before, l) /\ after' = Execute(folded[b][i], after, l)
  BY DEF RunInstruction
<1>3. SolverInv' /\ UNCHANGED solving
  BY <1>1, SolverKept DEF Inv
<1>4. b \in Block /\ Consistent(StateAt(b, i), assigned, before, after)
  BY <1>1 DEF Inv, RunInv
<1>5. i \in 1 .. Len(code[b]) /\ Len(code[b]) \in Nat /\ i \in Nat
  BY <1>1, <1>4, StatesOfWalk DEF Inv, WalkInv
<1>6. /\ LiftedOp(op) /\ StateAt(b, i) \in FittingState
      /\ StateAt(b, i + 1) = TransferInstruction(op, StateAt(b, i))
  BY <1>4, <1>5, StatesOfWalk DEF Inv
<1>7. folded[b][i] = SubstituteAndFold(op, StateAt(b, i))
  <2>1. VisitedIn(b) = Len(code[b]) /\ Recorded(b)
    BY <1>1, <1>4 DEF VisitedIn, Inv, WalkInv
  <2>2. QED
    BY <1>5, <2>1 DEF Recorded, RewrittenAt
<1> HIDE DEF op
<1>8. Consistent(StateAt(b, i + 1), assigned', before', after')
  BY <1>1, <1>2, <1>4, <1>6, <1>7, StepAgrees
<1>9. Consistent(StateAt(b, i), assigned, before, after)'
  <2>1. StateAt(b, i)' = StateAt(b, i + 1)
    BY <1>1, <1>3, WalksKept DEF StateAt
  <2>2. QED
    BY <1>8, <2>1 DEF Consistent, Claims, Agree
<1>10. before' \in Registers /\ after' \in Registers /\ assigned' \in SUBSET Tracked
  BY <1>8 DEF Consistent
<1>11. ControlInv'
  BY <1>1, <1>3, <1>10, WalksKept DEF Inv, ControlInv
<1>12. WalkInv'
  <2>1. ASSUME NEW c \in Block
        PROVE  Recorded(c)'
    <3>1. VisitedIn(c)' = VisitedIn(c) /\ Recorded(c)
      BY <1>1, <1>3, WalksKept DEF VisitedIn, Inv, WalkInv
    <3>2. QED
      BY <1>1, <1>3, <3>1, WalksKept DEF Recorded
  <2>2. i' \in 1 .. Len(code'[b']) + 1
    BY <1>1, <1>3, <1>5, WalksKept
  <2>3. QED
    BY <1>1, <2>1, <2>2 DEF WalkInv
<1>13. QED
  BY <1>1, <1>3, <1>4, <1>9, <1>11, <1>12 DEF Inv, RunInv

(* Along an edge the analysis forgets claims but makes none: IN of the     *)
(* successor is below OUT of the block.                                    *)
LEMMA ClaimsGoDown ==
  ASSUME NEW s, NEW t, BelowState(t, s), NEW A, NEW r1, NEW r2, Consistent(s, A, r1, r2)
  PROVE  Consistent(t, A, r1, r2)
<1>1. A \in SUBSET Tracked /\ Claims(s, A, r1)
  BY DEF Consistent
<1>2. ASSUME NEW vn \in A
      PROVE  Get(t, vn) \in {NotConstant, Const(r1[vn])}
  <2>1. BelowValue(Get(t, vn), Get(s, vn))
    BY <1>1, <1>2 DEF BelowState
  <2>2. Get(s, vn) \in {NotConstant, Const(r1[vn])}
    BY <1>1, <1>2 DEF Claims
  <2>3. QED
    BY <2>1, <2>2, HoldableValues DEF BelowValue
<1>3. QED
  BY <1>2 DEF Consistent, Claims

LEMMA InvRunEdge ==
  ASSUME Inv, RunEdge
  PROVE  Inv'
<1>1. /\ UNCHANGED <<solving, phase, pass, state, facts, folded, running>>
      /\ phase = "run" /\ i > Len(code[b]) /\ i' = 1
  BY DEF RunEdge
<1>2. PICK j \in 1 .. Len(graph.successors[b]) : b' = graph.successors[b][j]
  BY DEF RunEdge
<1>3. SolverInv' /\ UNCHANGED solving /\ Solver!Done
  BY <1>1, SolverKept DEF Inv, ControlInv
<1>4. b \in Block /\ Consistent(StateAt(b, i), assigned, before, after)
  BY <1>1 DEF Inv, RunInv
<1>5. graph.successors[b] \in Seq(Block) /\ b' \in Block
  <2>1. graph.successors[b] \in Seq(Block)
    BY <1>4, SolverTypes DEF Inv
  <2>2. QED
    BY <1>2, <2>1
<1>6. i = Len(code[b]) + 1 /\ Len(code[b']) \in Nat
  BY <1>1, <1>4, <1>5, StatesOfWalk DEF Inv, WalkInv
<1>7. BelowState(block_in[b'], block_out[b])
  <2>1. SolverProofs!Abstract!Fixpoint(graph, code, block_in, block_out)
    BY <1>3, SolverSolves DEF Inv
  <2>2. \A s \in SolverProofs!Abstract!Incoming(graph, block_out, b') :
          BelowState(block_in[b'], s)
    BY <1>5, <2>1 DEF SolverProofs!Abstract!Fixpoint, SolverProofs!Abstract!Solved,
                      SolverProofs!Abstract!IsMeet, SolverProofs!Abstract!Block, Block
  <2>3. \E n \in 1 .. Len(graph.predecessors[b']) : graph.predecessors[b'][n] = b
    <3>1. graph \in Graphs
      BY SolverTypes DEF Inv
    <3>2. \A x, y \in Block :
            (\E n \in 1 .. Len(graph.successors[x]) : graph.successors[x][n] = y)
              => \E n \in 1 .. Len(graph.predecessors[y]) : graph.predecessors[y][n] = x
      BY <3>1, GraphAssumption, ZenonT(60) DEF Solver!GraphAssumption, Solver!Block, Block
    <3>3. QED
      BY <1>2, <1>4, <1>5, <3>2
  <2>4. QED
    BY <2>2, <2>3 DEF SolverProofs!Abstract!Incoming
<1>8. StateAt(b, i) = block_out[b]
  <2>1. StateAt(b, i) = TransferBlock(code[b], block_in[b])
    BY <1>4, <1>6, StatesOfWalk DEF Inv
  <2>2. SolverProofs!Abstract!Fixpoint(graph, code, block_in, block_out)
    BY <1>3, SolverSolves DEF Inv
  <2>3. QED
    BY <1>4, <2>1, <2>2 DEF SolverProofs!Abstract!Fixpoint,
         SolverProofs!Abstract!Solved, SolverProofs!Abstract!Block, Block
<1>9. Consistent(StateAt(b, i), assigned, before, after)'
  <2>1. StateAt(b, i)' = block_in[b']
    <3>1. StateAt(b', 1) = block_in[b']
      BY <1>5, StatesOfWalk DEF Inv
    <3>2. QED
      BY <1>1, <1>3, <3>1, WalksKept DEF StateAt
  <2>2. Consistent(block_in[b'], assigned, before, after)
    BY <1>4, <1>7, <1>8, ClaimsGoDown
  <2>3. QED
    BY <1>1, <2>1, <2>2 DEF Consistent, Claims, Agree, running
<1>10. ControlInv'
  <2>1. b' \in 1 .. N + 1
    BY <1>5, NAssumption DEF Block
  <2>2. QED
    BY <1>1, <1>3, <2>1, WalksKept DEF Inv, ControlInv, running
<1>11. WalkInv'
  <2>1. ASSUME NEW c \in Block
        PROVE  Recorded(c)'
    <3>1. VisitedIn(c)' = VisitedIn(c) /\ Recorded(c)
      BY <1>1, <1>3, WalksKept DEF VisitedIn, Inv, WalkInv
    <3>2. QED
      BY <1>1, <1>3, <3>1, WalksKept DEF Recorded
  <2>2. i' \in 1 .. Len(code'[b']) + 1
    BY <1>1, <1>3, <1>6, WalksKept
  <2>3. QED
    BY <1>1, <2>1, <2>2 DEF WalkInv
<1>12. RunInv'
  BY <1>1, <1>5, <1>9 DEF Inv, RunInv
<1>13. QED
  BY <1>3, <1>10, <1>11, <1>12 DEF Inv

THEOREM InvCorrect == Spec => []Inv
<1>1. Inv /\ [Next]_vars => Inv'
  BY InvSolve, InvStartRewrite, InvRewriteInstruction, InvNextBlock, InvRunAgain,
     InvStartRun, InvRunInstruction, InvRunEdge, InvFinished
     DEF Next, Finished
<1>2. QED
  BY <1>1, InvInit, PTL DEF Spec

-----------------------------------------------------------------------------
(* The properties.                                                         *)

(* Every variable keeps its type.                                          *)
THEOREM TypeCorrect == Spec => []TypeOK
<1>1. Inv => TypeOK
  <2> SUFFICES ASSUME Inv PROVE TypeOK
    OBVIOUS
  <2>1. ControlInv /\ SolverInv
    BY DEF Inv
  <2>2. FittingState \subseteq ConstState
    BY DEF FittingState
  <2>3. pass = 1 => Solver!TypeOK
    <3> SUFFICES ASSUME pass = 1 PROVE Solver!TypeOK
      OBVIOUS
    <3>1. SolverProofs!TypeOK
      BY <2>1 DEF SolverInv
    <3>2. code \in [Block -> Code]
      BY <2>1 DEF ControlInv
    <3>3. block_in \in [Block -> ConstState] /\ block_out \in [Block -> ConstState]
          /\ acc \in ConstState
      BY <2>2, <3>1 DEF SolverProofs!TypeOK, SolverProofs!Block, Block
    <3>4. QED
      BY <3>1, <3>2, <3>3 DEF SolverProofs!TypeOK, Solver!TypeOK,
                              SolverProofs!Block, Solver!Block, Block
  <2>4. QED
    BY <2>1, <2>2, <2>3 DEF ControlInv, TypeOK, Registers
<1>2. QED
  BY <1>1, InvCorrect, PTL

(* The walk of a block ends in the OUT the solver computed for it.         *)
THEOREM WalkEndsInOutAlways == Spec => []WalkEndsInOut
<1>1. Inv => WalkEndsInOut
  <2> SUFFICES ASSUME Inv, phase = "rewrite", b <= N, i > Len(code[b])
               PROVE  state = block_out[b]
    BY DEF WalkEndsInOut
  <2>1. b \in Block
    BY NAssumption DEF Inv, ControlInv, Block
  <2>2. i = Len(code[b]) + 1 /\ state = StateAt(b, i)
    BY <2>1, StatesOfWalk DEF Inv, WalkInv
  <2>3. state = TransferBlock(code[b], block_in[b])
    BY <2>1, <2>2, StatesOfWalk DEF Inv
  <2>4. SolverProofs!Abstract!Fixpoint(graph, code, block_in, block_out)
    BY SolverSolves DEF Inv, ControlInv
  <2>5. QED
    BY <2>1, <2>3, <2>4 DEF SolverProofs!Abstract!Fixpoint,
         SolverProofs!Abstract!Solved, SolverProofs!Abstract!Block, Block
<1>2. QED
  BY <1>1, InvCorrect, PTL

(* What was rewritten has the effect of the original on the state it was   *)
(* rewritten for, in both passes.                                          *)
THEOREM RewritingKeepsTransfer == Spec => []RewriteKeepsTransfer
<1>1. Inv => RewriteKeepsTransfer
  <2> SUFFICES ASSUME Inv, phase = "rewrite", NEW c \in Block, NEW j \in DOMAIN folded[c]
               PROVE  TransferInstruction(folded[c][j], facts[c][j])
                        = TransferInstruction(code[c][j], facts[c][j])
    BY DEF RewriteKeepsTransfer
  <2>1. Recorded(c) /\ folded[c] \in Seq(Rewrites(Reachable))
    BY DEF Inv, WalkInv, ControlInv
  <2>2. j \in 1 .. VisitedIn(c)
    BY <2>1 DEF Recorded
  <2>3. Len(code[c]) \in Nat /\ j \in 1 .. Len(code[c])
    <3>1. Len(code[c]) \in Nat
      BY StatesOfWalk DEF Inv
    <3>2. b \in 1 .. N + 1
      BY DEF Inv, ControlInv
    <3>3. CASE c < b
      BY <2>2, <3>1, <3>3 DEF VisitedIn
    <3>4. CASE ~ (c < b) /\ c = b
      <4>1. i \in 1 .. Len(code[b]) + 1
        BY <3>4 DEF Inv, WalkInv
      <4>2. QED
        BY <2>2, <3>1, <3>4, <4>1 DEF VisitedIn
    <3>5. CASE ~ (c < b) /\ c # b
      BY <2>2, <3>5 DEF VisitedIn
    <3>6. QED
      BY <3>1, <3>3, <3>4, <3>5
  <2>4. LiftedOp(code[c][j]) /\ StateAt(c, j) \in FittingState
    <3>1. j \in 1 .. Len(code[c]) + 1
      BY <2>3
    <3>2. QED
      BY <2>3, <3>1, StatesOfWalk DEF Inv
  <2>5. facts[c][j] = StateAt(c, j) /\ folded[c][j] = SubstituteAndFold(code[c][j], StateAt(c, j))
    BY <2>1, <2>2 DEF Recorded, RewrittenAt
  <2>6. QED
    BY <2>4, <2>5, RewriteTransfers
<1>2. QED
  BY <1>1, InvCorrect, PTL

(* The instruction the machines are about to execute, and its rewriting.   *)
LEMMA Executing ==
  ASSUME Inv, AtInstruction
  PROVE  /\ b \in Block /\ LiftedOp(code[b][i]) /\ StateAt(b, i) \in FittingState
         /\ facts[b][i] = StateAt(b, i)
         /\ folded[b][i] = SubstituteAndFold(code[b][i], StateAt(b, i))
         /\ Consistent(StateAt(b, i), assigned, before, after)
<1>1. phase = "run" /\ i <= Len(code[b])
  BY DEF AtInstruction
<1>2. b \in Block /\ Consistent(StateAt(b, i), assigned, before, after)
  BY <1>1 DEF Inv, RunInv
<1>3. i \in 1 .. Len(code[b]) /\ i \in 1 .. Len(code[b]) + 1
  BY <1>1, <1>2, StatesOfWalk DEF Inv, WalkInv
<1>4. VisitedIn(b) = Len(code[b]) /\ Recorded(b)
  BY <1>1, <1>2 DEF VisitedIn, Inv, WalkInv
<1>5. QED
  BY <1>2, <1>3, <1>4, StatesOfWalk DEF Inv, Recorded, RewrittenAt

(* What the analysis says of a register the function has assigned is true  *)
(* on every path, for every graph and every lifted body.                   *)
THEOREM AssignedClaimsAlwaysHold == Spec => []AssignedClaimsHold
<1>1. Inv => AssignedClaimsHold
  BY Executing DEF AssignedClaimsHold, Consistent, Claims
<1>2. QED
  BY <1>1, InvCorrect, PTL

(* The operands an instruction acts through hold the same in the machine   *)
(* that executes its rewriting.                                            *)
LEMMA ObservedAgree ==
  ASSUME NEW op, LiftedOp(op), NEW s \in FittingState,
         NEW A, NEW r1, NEW r2, Consistent(s, A, r1, r2)
  PROVE  LET seen == Observed(op)
             seen_after == Observed(SubstituteAndFold(op, s))
         IN  /\ Len(seen_after) = Len(seen)
             /\ \A j \in 1 .. Len(seen) :
                  seen[j] \in A \/ seen[j].space = "Constant"
                    => Value(seen_after[j], r2) = Value(seen[j], r1)
<1> DEFINE new == SubstituteAndFold(op, s)
           Same(vn) == vn \in A \/ vn.space = "Constant"
                         => Value(Substitute(vn, s), r2) = Value(vn, r1)
<1>1. \A vn : Same(vn)
  BY SubstituteHolds DEF Consistent
<1>2. CASE op.op = "CBranch"
  <2>1. Observed(op) = <<op.condition>> /\ new = CBranch(Substitute(op.condition, s), op.target)
    BY <1>2, RewriteCases DEF Observed
  <2>2. Observed(new) = <<Substitute(op.condition, s)>>
    BY <2>1 DEF Observed, CBranch
  <2> HIDE DEF new
  <2>3. QED
    BY <1>1, <2>1, <2>2 DEF new
<1>3. CASE op.op = "Load"
  <2>1. Observed(op) = <<op.addr>> /\ new = Load(op.dest, Substitute(op.addr, s))
    BY <1>3, RewriteCases DEF Observed
  <2>2. Observed(new) = <<Substitute(op.addr, s)>>
    BY <2>1 DEF Observed, Load
  <2> HIDE DEF new
  <2>3. QED
    BY <1>1, <2>1, <2>2 DEF new
<1>4. CASE op.op = "Store"
  <2>1. Observed(op) = <<op.addr, op.src>>
        /\ new = Store(Substitute(op.addr, s), Substitute(op.src, s))
    BY <1>4, RewriteCases DEF Observed
  <2>2. Observed(new) = <<Substitute(op.addr, s), Substitute(op.src, s)>>
    BY <2>1 DEF Observed, Store
  <2> HIDE DEF new
  <2>3. QED
    BY <1>1, <2>1, <2>2 DEF new
<1>5. CASE op.op \notin {"CBranch", "Load", "Store"}
  <2>1. new.op \notin {"CBranch", "Load", "Store"}
    <3>1. CASE op.op = "Copy" \/ Folds(op, s)
      <4>1. new.op = "Copy"
        BY <3>1, RewriteCases, InstructionFields DEF Fold
      <4>2. QED
        BY <4>1
    <3>2. CASE op.op \in BinaryOps /\ ~ Folds(op, s)
      <4>1. new.op = op.op
        BY <3>2, RewriteCases, InstructionFields
      <4>2. QED
        BY <1>5, <4>1
    <3>3. CASE op.op \notin {"Copy", "Load", "Store", "CBranch", "Phi"} \union BinaryOps
      <4>1. new = op
        BY <3>3, RewriteCases
      <4>2. QED
        BY <1>5, <4>1
    <3>4. op.op # "Phi"
      BY DEF LiftedOp
    <3>5. QED
      BY <1>5, <3>1, <3>2, <3>3, <3>4
  <2>2. Observed(op) = <<>> /\ Observed(new) = <<>>
    BY <1>5, <2>1 DEF Observed
  <2>3. QED
    BY <2>2
<1>6. QED
  BY <1>2, <1>3, <1>4, <1>5

(* The rewritten function computes what the original computed.             *)
THEOREM BehaviourIsKept == Spec => []SameBehaviour
<1>1. Inv => SameBehaviour
  <2> SUFFICES ASSUME Inv, phase = "run" PROVE SameBehaviour
    BY DEF SameBehaviour
  <2>1. \A vn \in assigned : before[vn] = after[vn]
    BY DEF Inv, RunInv, Consistent, Agree
  <2>2. ASSUME AtInstruction
        PROVE  LET seen == Observed(code[b][i])
                   seen_after == Observed(folded[b][i])
               IN  /\ Len(seen_after) = Len(seen)
                   /\ \A j \in 1 .. Len(seen) :
                        seen[j] \in assigned \/ seen[j].space = "Constant"
                          => Value(seen_after[j], after) = Value(seen[j], before)
    BY <2>2, Executing, ObservedAgree
  <2>3. QED
    BY <2>1, <2>2 DEF SameBehaviour
<1>2. QED
  BY <1>1, InvCorrect, PTL

-----------------------------------------------------------------------------
(* The second pass.                                                        *)

(* Replacing operands by what w knows of them gives an instruction that    *)
(* claims no more than the original above w.                               *)
LEMMA SubstituteDescends ==
  ASSUME NEW w \in FittingState, NEW s \in FittingState, BelowState(w, s),
         NEW vn, IsOperand(vn)
  PROVE  BelowValue(Get(s, Substitute(vn, w)), Get(s, vn))
<1>1. CASE vn.space # "Constant" /\ Known(vn, w)
  <2>1. Get(s, Substitute(vn, w)) = Get(w, vn)
    BY <1>1, KnownValue, LiteralReads DEF Substitute
  <2>2. vn \in Tracked
    BY <1>1 DEF IsOperand
  <2>3. QED
    BY <2>1, <2>2 DEF BelowState
<1>2. CASE ~ (vn.space # "Constant" /\ Known(vn, w))
  BY <1>2 DEF Substitute, BelowValue
<1>3. QED
  BY <1>1, <1>2

LEMMA RewriteDescends ==
  ASSUME NEW op, LiftedOp(op), NEW w \in FittingState, NEW s \in FittingState,
         BelowState(w, s)
  PROVE  BelowState(TransferInstruction(SubstituteAndFold(op, w), s),
                    TransferInstruction(op, s))
<1> DEFINE new == SubstituteAndFold(op, w)
           Goal == BelowState(TransferInstruction(new, s), TransferInstruction(op, s))
<1>s. s \in ConstState /\ BelowState(s, s)
  BY FittingStateIsLattice DEF FittingState
<1>1. ASSUME op.op = "Copy"
      PROVE  Goal
  <2>1. op.dest \in Tracked /\ IsOperand(op.src)
    BY <1>1 DEF LiftedOp
  <2>2. new = Copy(op.dest, Substitute(op.src, w))
    BY <1>1, RewriteCases
  <2> HIDE DEF new
  <2>3. new.op = "Copy" /\ new.dest = op.dest /\ new.src = Substitute(op.src, w)
    BY <2>2, InstructionFields
  <2>4. BelowValue(Get(s, new.src), Get(s, op.src))
    BY <2>1, <2>3, SubstituteDescends
  <2>5. /\ TransferInstruction(new, s) = Set(s, op.dest, Get(s, new.src))
        /\ TransferInstruction(op, s) = Set(s, op.dest, Get(s, op.src))
    BY <1>1, <2>3, TransferCases
  <2>6. QED
    BY <1>s, <2>1, <2>4, <2>5, SetMonotone
<1>2. ASSUME Folds(op, w)
      PROVE  Goal
  <2> DEFINE l == Get(w, op.lhs)
             r == Get(w, op.rhs)
             c == Compute(op, l.value, r.value)
             e == EvalBinop(op, Get(s, op.lhs), Get(s, op.rhs))
  <2>1. /\ op.dest \in Tracked /\ IsOperand(op.lhs) /\ IsOperand(op.rhs)
        /\ op.op \in BinaryOps
    BY <1>2 DEF LiftedOp, Folds
  <2>2. new = Copy(op.dest, Constant(c, op.dest.size))
    BY <1>2, RewriteCases DEF Fold
  <2>3. /\ BelowValue(l, Get(s, op.lhs)) /\ BelowValue(r, Get(s, op.rhs))
        /\ l = Const(l.value) /\ r = Const(r.value)
    <3>1. w \in ConstState
      BY DEF FittingState
    <3>2. QED
      BY <1>2, <1>s, <2>1, <3>1, GetMonotone, KnownValue DEF IsOperand, Folds
  <2>4. BelowValue(Const(c), e)
    <3> HIDE DEF l, r
    <3>1. Get(s, op.lhs) \in {TopValue, l} /\ Get(s, op.rhs) \in {TopValue, r}
      BY <2>3, HoldableValues DEF BelowValue
    <3>2. CASE Get(s, op.lhs) = l /\ Get(s, op.rhs) = r
      BY <2>3, <3>2, HoldableValues DEF EvalBinop, BelowValue
    <3>3. CASE Get(s, op.lhs) = TopValue \/ Get(s, op.rhs) = TopValue
      BY <2>3, <3>1, <3>3, HoldableValues DEF EvalBinop, BelowValue
    <3>4. QED
      BY <3>1, <3>2, <3>3
  <2> HIDE DEF new, c
  <2>5. /\ new.op = "Copy" /\ new.dest = op.dest /\ new.src = Constant(c, op.dest.size)
    BY <2>2, InstructionFields
  <2>6. /\ TransferInstruction(new, s) = Set(s, op.dest, Const(c))
        /\ TransferInstruction(op, s) = Set(s, op.dest, e)
    BY <2>1, <2>5, TransferCases, LiteralReads
  <2>7. QED
    BY <1>s, <2>1, <2>4, <2>6, SetMonotone
<1>3. ASSUME op.op \in BinaryOps, ~ Folds(op, w)
      PROVE  Goal
  <2> DEFINE lsub == Substitute(op.lhs, w)
             rsub == Substitute(op.rhs, w)
  <2>1. op.dest \in Tracked /\ IsOperand(op.lhs) /\ IsOperand(op.rhs)
    BY <1>3 DEF LiftedOp
  <2>2. new = Binary(op.op, op.dest, lsub, rsub)
    BY <1>3, RewriteCases
  <2>3. IsOperand(lsub) /\ IsOperand(rsub) /\ lsub.size = op.lhs.size
    BY <2>1, SubstituteFits
  <2>4. /\ BelowValue(Get(s, lsub), Get(s, op.lhs))
        /\ BelowValue(Get(s, rsub), Get(s, op.rhs))
    BY <2>1, SubstituteDescends
  <2> HIDE DEF new, lsub, rsub
  <2>5. new.op = op.op /\ new.dest = op.dest /\ new.lhs = lsub /\ new.rhs = rsub
    BY <2>2, InstructionFields
  <2>6. \A x, y : EvalBinop(new, x, y) = EvalBinop(op, x, y)
    BY <2>3, <2>5 DEF EvalBinop, Compute
  <2>7. BelowValue(EvalBinop(op, Get(s, lsub), Get(s, rsub)),
                   EvalBinop(op, Get(s, op.lhs), Get(s, op.rhs)))
    BY <1>s, <2>1, <2>3, <2>4, OperandType, EvalBinopMonotone
  <2>8. /\ TransferInstruction(new, s)
             = Set(s, op.dest, EvalBinop(op, Get(s, lsub), Get(s, rsub)))
        /\ TransferInstruction(op, s)
             = Set(s, op.dest, EvalBinop(op, Get(s, op.lhs), Get(s, op.rhs)))
    BY <1>3, <2>5, <2>6, TransferCases
  <2>9. QED
    BY <1>s, <2>1, <2>7, <2>8, SetMonotone
<1>4. ASSUME op.op \notin {"Copy"} \union BinaryOps
      PROVE  Goal
  <2>1. TransferInstruction(new, s) = TransferInstruction(op, s)
    <3>1. CASE op.op = "Load"
      <4>1. new = Load(op.dest, Substitute(op.addr, w))
        BY <3>1, RewriteCases
      <4> HIDE DEF new
      <4>2. new.op = "Load" /\ new.dest = op.dest
        BY <4>1, InstructionFields
      <4>3. QED
        BY <3>1, <4>2, TransferCases
    <3>2. CASE op.op \in {"Store", "CBranch"}
      <4>1. new.op = op.op
        BY <3>2, RewriteCases, InstructionFields
      <4> HIDE DEF new
      <4>2. QED
        BY <3>2, <4>1, TransferCases, InstructionFields
    <3>3. CASE op.op \notin {"Copy", "Load", "Store", "CBranch", "Phi"} \union BinaryOps
      BY <3>3, RewriteCases
    <3>4. op.op # "Phi"
      BY DEF LiftedOp
    <3>5. QED
      BY <1>4, <3>1, <3>2, <3>3, <3>4
  <2>2. TransferInstruction(op, s) \in FittingState
    BY TransferFits
  <2>3. QED
    BY <2>1, <2>2, FittingStateIsLattice
<1>5. QED
  BY <1>1, <1>2, <1>3, <1>4

(* new is old rewritten for the states of the walk from w.                 *)
RewrittenFor(new, old, w) ==
  /\ LiftedBody(old) /\ LiftedBody(new) /\ Len(new) = Len(old) /\ w \in FittingState
  /\ \A j \in 1 .. Len(old) :
       new[j] = SubstituteAndFold(old[j], Walk(old, w)[j - 1])

(* From w the rewritten body walks through the states of the original.     *)
LEMMA SameWalk ==
  ASSUME NEW new, NEW old, NEW w, RewrittenFor(new, old, w), NEW j \in 0 .. Len(old)
  PROVE  Walk(new, w)[j] = Walk(old, w)[j]
<1>0. /\ LiftedBody(old) /\ LiftedBody(new) /\ Len(new) = Len(old) /\ w \in FittingState
      /\ \A n \in 1 .. Len(old) : new[n] = SubstituteAndFold(old[n], Walk(old, w)[n - 1])
      /\ Len(old) \in Nat
  BY DEF RewrittenFor, LiftedBody
<1> DEFINE T == {n \in Nat : n <= Len(old) => Walk(new, w)[n] = Walk(old, w)[n]}
<1>1. 0 \in T
  BY <1>0, WalkUnfolds
<1>2. ASSUME NEW n \in Nat, n \in T PROVE n + 1 \in T
  <2> SUFFICES ASSUME n + 1 <= Len(old) PROVE Walk(new, w)[n + 1] = Walk(old, w)[n + 1]
    OBVIOUS
  <2>1. n + 1 \in 1 .. Len(old) /\ (n + 1) - 1 = n /\ n \in 0 .. Len(old)
        /\ Walk(new, w)[n] = Walk(old, w)[n]
    BY <1>0, <1>2
  <2>2. /\ Walk(old, w)[n] \in FittingState
        /\ Walk(old, w)[n + 1] = TransferInstruction(old[n + 1], Walk(old, w)[n])
        /\ Walk(new, w)[n + 1] = TransferInstruction(new[n + 1], Walk(new, w)[n])
    BY <1>0, <2>1, WalkUnfolds
  <2>3. LiftedOp(old[n + 1]) /\ new[n + 1] = SubstituteAndFold(old[n + 1], Walk(old, w)[n])
    BY <1>0, <2>1 DEF LiftedBody
  <2>4. QED
    BY <2>1, <2>2, <2>3, RewriteTransfers
<1>3. Nat \subseteq T
  <2> HIDE DEF T
  <2>1. QED
    BY <1>1, <1>2, Induction
<1>4. QED
  BY <1>0, <1>3

(* Above w the rewritten body claims no more than the original.            *)
LEMMA WalkDescends ==
  ASSUME NEW new, NEW old, NEW w, RewrittenFor(new, old, w),
         NEW s \in FittingState, BelowState(w, s), NEW j \in 0 .. Len(old)
  PROVE  BelowState(Walk(new, s)[j], Walk(old, s)[j])
<1>0. /\ LiftedBody(old) /\ LiftedBody(new) /\ Len(new) = Len(old) /\ w \in FittingState
      /\ \A n \in 1 .. Len(old) : new[n] = SubstituteAndFold(old[n], Walk(old, w)[n - 1])
      /\ Len(old) \in Nat
  BY DEF RewrittenFor, LiftedBody
<1> DEFINE T == {n \in Nat : n <= Len(old) => BelowState(Walk(new, s)[n], Walk(old, s)[n])}
<1>1. 0 \in T
  BY <1>0, WalkUnfolds, FittingStateIsLattice
<1>2. ASSUME NEW n \in Nat, n \in T PROVE n + 1 \in T
  <2> SUFFICES ASSUME n + 1 <= Len(old)
               PROVE  BelowState(Walk(new, s)[n + 1], Walk(old, s)[n + 1])
    OBVIOUS
  <2> DEFINE o == old[n + 1]
             q == new[n + 1]
             x == Walk(new, s)[n]
             y == Walk(old, s)[n]
             z == Walk(old, w)[n]
  <2>1. /\ n + 1 \in 1 .. Len(old) /\ (n + 1) - 1 = n /\ n \in 0 .. Len(old)
        /\ BelowState(x, y)
    BY <1>0, <1>2
  <2>2. /\ x \in FittingState /\ y \in FittingState /\ z \in FittingState
        /\ Walk(old, s)[n + 1] = TransferInstruction(o, y)
        /\ Walk(new, s)[n + 1] = TransferInstruction(q, x)
    BY <1>0, <2>1, WalkUnfolds
  <2>3. LiftedOp(o) /\ LiftedOp(q) /\ q = SubstituteAndFold(o, z)
    BY <1>0, <2>1 DEF LiftedBody
  <2>4. BelowState(z, x)
    <3>1. BelowState(Walk(new, w)[n], Walk(new, s)[n])
      BY <1>0, <2>1, WalkIsMonotone
    <3>2. QED
      BY <2>1, <3>1, SameWalk
  <2> HIDE DEF o, q, x, y, z
  <2>5. BelowState(TransferInstruction(q, x), TransferInstruction(o, x))
    BY <2>2, <2>3, <2>4, RewriteDescends
  <2>6. BelowState(TransferInstruction(o, x), TransferInstruction(o, y))
    BY <2>1, <2>2, <2>3, TransferIsMonotone DEF FittingState
  <2>7. /\ TransferInstruction(q, x) \in FittingState
        /\ TransferInstruction(o, x) \in FittingState
        /\ TransferInstruction(o, y) \in FittingState
    BY <2>2, <2>3, TransferFits
  <2>8. QED
    BY <2>2, <2>5, <2>6, <2>7, FittingStateIsLattice
<1>3. Nat \subseteq T
  <2> HIDE DEF T
  <2>1. QED
    BY <1>1, <1>2, Induction
<1>4. QED
  BY <1>0, <1>3

-----------------------------------------------------------------------------
(* Rewriting twice for states that say the same.                           *)
Alike(s, t) == \A vn : Get(s, vn) = Get(t, vn)

LEMMA BelowBothWays ==
  ASSUME NEW s \in FittingState, NEW t \in FittingState, BelowState(s, t), BelowState(t, s)
  PROVE  Alike(s, t)
<1> SUFFICES ASSUME NEW vn PROVE Get(s, vn) = Get(t, vn)
  BY DEF Alike
<1>1. CASE vn.space = "Constant"
  BY <1>1 DEF Get
<1>2. CASE vn \in Tracked
  <2>1. BelowValue(Get(s, vn), Get(t, vn)) /\ BelowValue(Get(t, vn), Get(s, vn))
    BY <1>2 DEF BelowState
  <2>2. QED
    BY <2>1, HoldableValues DEF BelowValue
<1>3. CASE vn.space # "Constant" /\ vn \notin Tracked
  <2>1. DOMAIN s \subseteq Tracked /\ DOMAIN t \subseteq Tracked
    BY StateElements DEF FittingState
  <2>2. QED
    BY <1>3, <2>1 DEF Get
<1>4. QED
  BY <1>1, <1>2, <1>3

LEMMA SubstituteAgain ==
  ASSUME NEW w \in FittingState, NEW t, Alike(w, t), NEW vn
  PROVE  Substitute(Substitute(vn, w), t) = Substitute(vn, w)
<1>1. CASE vn.space # "Constant" /\ Known(vn, w)
  BY <1>1, LiteralReads DEF Substitute
<1>2. CASE ~ (vn.space # "Constant" /\ Known(vn, w))
  BY <1>2 DEF Substitute, Known, Alike
<1>3. QED
  BY <1>1, <1>2

LEMMA RewriteAgain ==
  ASSUME NEW op, LiftedOp(op), NEW w \in FittingState, NEW t, Alike(w, t)
  PROVE  SubstituteAndFold(SubstituteAndFold(op, w), t) = SubstituteAndFold(op, w)
<1> DEFINE new == SubstituteAndFold(op, w)
           Goal == SubstituteAndFold(new, t) = new
<1>1. ASSUME op.op = "Copy"
      PROVE  Goal
  <2>1. new = Copy(op.dest, Substitute(op.src, w))
    BY <1>1, RewriteCases
  <2> HIDE DEF new
  <2>2. new.op = "Copy" /\ new.dest = op.dest /\ new.src = Substitute(op.src, w)
    BY <2>1, InstructionFields
  <2>3. SubstituteAndFold(new, t) = Copy(op.dest, Substitute(Substitute(op.src, w), t))
    BY <2>2, RewriteCases
  <2>4. QED
    BY <2>1, <2>3, SubstituteAgain
<1>2. ASSUME Folds(op, w)
      PROVE  Goal
  <2> DEFINE c == Compute(op, Get(w, op.lhs).value, Get(w, op.rhs).value)
             x == Constant(c, op.dest.size)
  <2>1. new = Copy(op.dest, x)
    BY <1>2, RewriteCases DEF Fold
  <2>2. Substitute(x, t) = x
    BY LiteralReads DEF Substitute
  <2> HIDE DEF new, x
  <2>3. new.op = "Copy" /\ new.dest = op.dest /\ new.src = x
    BY <2>1, InstructionFields
  <2>4. SubstituteAndFold(new, t) = Copy(op.dest, Substitute(x, t))
    BY <2>3, RewriteCases
  <2>5. QED
    BY <2>1, <2>2, <2>4
<1>3. ASSUME op.op \in BinaryOps, ~ Folds(op, w)
      PROVE  Goal
  <2> DEFINE lsub == Substitute(op.lhs, w)
             rsub == Substitute(op.rhs, w)
  <2>1. new = Binary(op.op, op.dest, lsub, rsub)
    BY <1>3, RewriteCases
  <2>2. Substitute(lsub, t) = lsub /\ Substitute(rsub, t) = rsub
    BY SubstituteAgain
  <2>3. /\ Known(lsub, t) <=> Known(op.lhs, w)
        /\ Known(rsub, t) <=> Known(op.rhs, w)
    BY SubstituteReads DEF Known, Alike
  <2> HIDE DEF new, lsub, rsub
  <2>4. new.op = op.op /\ new.dest = op.dest /\ new.lhs = lsub /\ new.rhs = rsub
    BY <2>1, InstructionFields
  <2>5. ~ Folds(new, t)
    BY <1>3, <2>3, <2>4 DEF Folds
  <2>6. SubstituteAndFold(new, t)
          = Binary(new.op, new.dest, Substitute(new.lhs, t), Substitute(new.rhs, t))
    BY <1>3, <2>4, <2>5, RewriteCases
  <2>7. QED
    BY <2>1, <2>2, <2>4, <2>6
<1>4. ASSUME op.op = "Load"
      PROVE  Goal
  <2>1. SubstituteAndFold(op, w) = Load(op.dest, Substitute(op.addr, w))
    BY <1>4, RewriteCases
  <2>2. \A d, x : SubstituteAndFold(Load(d, x), t) = Load(d, Substitute(x, t))
    BY RewriteCases DEF Load
  <2>3. QED
    BY <2>1, <2>2, SubstituteAgain
<1>5. ASSUME op.op = "Store"
      PROVE  Goal
  <2>1. SubstituteAndFold(op, w) = Store(Substitute(op.addr, w), Substitute(op.src, w))
    BY <1>5, RewriteCases
  <2>2. \A x, y : SubstituteAndFold(Store(x, y), t) = Store(Substitute(x, t), Substitute(y, t))
    BY RewriteCases DEF Store
  <2>3. QED
    BY <2>1, <2>2, SubstituteAgain
<1>6. ASSUME op.op = "CBranch"
      PROVE  Goal
  <2>1. SubstituteAndFold(op, w) = CBranch(Substitute(op.condition, w), op.target)
    BY <1>6, RewriteCases
  <2>2. \A x, y : SubstituteAndFold(CBranch(x, y), t) = CBranch(Substitute(x, t), y)
    BY RewriteCases DEF CBranch
  <2>3. QED
    BY <2>1, <2>2, SubstituteAgain
<1>7. ASSUME op.op \notin {"Copy", "Load", "Store", "CBranch", "Phi"} \union BinaryOps
      PROVE  Goal
  BY <1>7, RewriteCases
<1>8. op.op # "Phi"
  BY DEF LiftedOp
<1>9. QED
  BY <1>1, <1>2, <1>3, <1>4, <1>5, <1>6, <1>7, <1>8

-----------------------------------------------------------------------------
(* in and out solve the equations of the bodies in old, and no solution    *)
(* claims more than out.                                                   *)
Solution(g, old, out) ==
  \A c \in Block :
    \E in \in FittingState :
      /\ \A s \in SolverProofs!Abstract!Incoming(g, out, c) : BelowState(in, s)
      /\ BelowState(out[c], TransferBlock(old[c], in))

GreatestSolution(g, old, in, out) ==
  /\ SolverProofs!Abstract!Fixpoint(g, old, in, out)
  /\ \A X \in [Block -> FittingState] :
       Solution(g, old, X) => \A c \in Block : BelowState(X[c], out[c])

(* The function the first pass was given, and what it found out about it.  *)
FirstPass(g, bodies, old, in, out) ==
  /\ old \in [Block -> Seq(Reachable)]
  /\ in \in [Block -> FittingState] /\ out \in [Block -> FittingState]
  /\ GreatestSolution(g, old, in, out)
  /\ \A c \in Block : RewrittenFor(bodies[c], old[c], in[c])

SecondPassInv == pass = 2 => \E old, in, out : FirstPass(graph, code, old, in, out)

LEMMA SolverIsGreatest ==
  ASSUME SolverInv, Solver!Done
  PROVE  GreatestSolution(graph, code, block_in, block_out)
<1>1. /\ SolverProofs!Abstract!Fixpoint(graph, code, block_in, block_out)
      /\ SolverProofs!AboveEverySolution
  BY SolverSolves
<1>2. SolverProofs!Block = Block
  BY DEF SolverProofs!Block, Block
<1>3. ASSUME NEW X \in [Block -> FittingState], Solution(graph, code, X)
      PROVE  \A c \in Block : BelowState(X[c], block_out[c])
  <2>1. SolverProofs!IsSolution(X)
    BY <1>2, <1>3 DEF Solution, SolverProofs!IsSolution
  <2>2. QED
    BY <1>1, <1>2, <1>3, <2>1 DEF SolverProofs!AboveEverySolution
<1>4. QED
  BY <1>1, <1>3 DEF GreatestSolution

LEMMA SecondPassStarts ==
  ASSUME Inv, RunAgain
  PROVE  SecondPassInv'
<1>1. Rewritten /\ pass = 1 /\ code' = folded /\ graph' = graph
  BY DEF RunAgain
<1>2. SolverInv /\ Solver!Done
  BY <1>1 DEF Inv, ControlInv, Rewritten
<1>3. GreatestSolution(graph, code, block_in, block_out)
  BY <1>2, SolverIsGreatest
<1>5. ASSUME NEW c \in Block
      PROVE  RewrittenFor(code'[c], code[c], block_in[c])
  <2>1. /\ LiftedBody(code[c]) /\ block_in[c] \in FittingState
    BY <1>2, SolverTypes
  <2>2. code'[c] \in Seq(Reachable)
    BY InvRunAgain DEF Inv, SolverInv, SolverProofs!Parameters, SolverProofs!Block, Block
  <2>3. /\ Len(folded[c]) = Len(code[c])
        /\ \A j \in 1 .. Len(code[c]) : folded[c][j] = RewrittenAt(c, j)
    BY <1>1, AllRecorded
  <2>4. QED
    BY <1>1, <2>1, <2>2, <2>3, BodyIsLifted DEF RewrittenFor, RewrittenAt, StateAt
<1>6. \E old, in, out : FirstPass(graph', code', old, in, out)
  <2>1. /\ code \in [Block -> Seq(Reachable)]
        /\ block_in \in [Block -> FittingState] /\ block_out \in [Block -> FittingState]
    BY <1>2, SolverTypes
  <2>2. FirstPass(graph', code', code, block_in, block_out)
    BY <1>1, <1>3, <1>5, <2>1 DEF FirstPass
  <2>3. \E old, in, out : FirstPass(graph', code', old, in, out)
    BY <2>2
  <2>4. QED
    BY <2>3
<1>7. QED
  BY <1>6 DEF SecondPassInv

LEMMA SecondPassGoesOn ==
  ASSUME SecondPassInv, UNCHANGED <<graph, code, pass>>
  PROVE  SecondPassInv'
<1> SUFFICES ASSUME pass = 2 PROVE \E old, in, out : FirstPass(graph', code', old, in, out)
  BY DEF SecondPassInv
<1>1. PICK old, in, out : FirstPass(graph, code, old, in, out)
  BY DEF SecondPassInv
<1>2. FirstPass(graph', code', old, in, out)
  BY <1>1
<1>3. QED
  BY <1>2

LEMMA SecondPassInvariant == Spec => []SecondPassInv
<1>1. Init => SecondPassInv
  BY DEF Init, SecondPassInv
<1>2. Inv /\ SecondPassInv /\ [Next]_vars => SecondPassInv'
  <2> SUFFICES ASSUME Inv, SecondPassInv, [Next]_vars PROVE SecondPassInv'
    OBVIOUS
  <2>1. CASE RunAgain
    BY <2>1, SecondPassStarts
  <2>2. CASE ~ RunAgain
    <3>1. UNCHANGED <<graph, code, pass>>
      BY <2>2 DEF Next, Solve, Solver!Step, Solver!PopFront, Solver!MergePredecessor,
         Solver!VisitChanged, Solver!VisitUnchanged, Solver!Visit,
         Solver!PushSuccessor, Solver!EndPush, StartRewrite, RewriteInstruction,
         NextBlock, StartRun, RunInstruction, RunEdge, Finished, vars, solving
    <3>2. QED
      BY <3>1, SecondPassGoesOn
  <2>3. QED
    BY <2>1, <2>2
<1>3. QED
  BY <1>1, <1>2, InvCorrect, PTL DEF Spec

(* A meet of more is more.                                                 *)
LEMMA MeetMonotone ==
  ASSUME NEW in, NEW out, NEW in2, NEW out2, NEW c \in Block,
         out \in [Block -> FittingState], out2 \in [Block -> FittingState],
         graph.predecessors[c] \in Seq(Block),
         SolverProofs!Abstract!IsMeet(in, SolverProofs!Abstract!Incoming(graph, out, c)),
         SolverProofs!Abstract!IsMeet(in2, SolverProofs!Abstract!Incoming(graph, out2, c)),
         \A d \in Block : BelowState(out[d], out2[d])
  PROVE  BelowState(in, in2)
<1>1. in \in FittingState
  BY DEF SolverProofs!Abstract!IsMeet
<1>2. ASSUME NEW s \in SolverProofs!Abstract!Incoming(graph, out2, c)
      PROVE  BelowState(in, s)
  <2>1. PICK n \in 1 .. Len(graph.predecessors[c]) : s = out2[graph.predecessors[c][n]]
    BY DEF SolverProofs!Abstract!Incoming
  <2>2. PICK p \in Block : p = graph.predecessors[c][n]
    BY <2>1
  <2>3. out[p] \in SolverProofs!Abstract!Incoming(graph, out, c)
    BY <2>1, <2>2 DEF SolverProofs!Abstract!Incoming
  <2>4. BelowState(in, out[p]) /\ BelowState(out[p], out2[p])
    BY <2>3 DEF SolverProofs!Abstract!IsMeet
  <2>5. out[p] \in FittingState /\ out2[p] \in FittingState
    OBVIOUS
  <2>6. QED
    BY <1>1, <2>1, <2>2, <2>4, <2>5, FittingStateIsLattice
<1>3. QED
  BY <1>1, <1>2 DEF SolverProofs!Abstract!IsMeet

(* The second pass finds the solution the first pass found: the old one    *)
(* solves the new equations, and the new one, of instructions that claim   *)
(* no more, the old equations.                                             *)
LEMMA SameSolution ==
  ASSUME Inv, Solver!Done, NEW old, NEW in, NEW out, FirstPass(graph, code, old, in, out),
         NEW c \in Block
  PROVE  BelowState(in[c], block_in[c]) /\ BelowState(block_in[c], in[c])
<1>0. SolverInv /\ \A d \in Block : graph.predecessors[d] \in Seq(Block)
  BY SolverTypes DEF Inv
<1>1. GreatestSolution(graph, code, block_in, block_out) /\ GreatestSolution(graph, old, in, out)
  BY <1>0, SolverIsGreatest DEF FirstPass
<1>2. /\ in \in [Block -> FittingState] /\ out \in [Block -> FittingState]
      /\ block_in \in [Block -> FittingState] /\ block_out \in [Block -> FittingState]
      /\ \A d \in Block : RewrittenFor(code[d], old[d], in[d])
      /\ \A d \in Block : LiftedBody(code[d])
  BY <1>0, SolverTypes DEF FirstPass
<1>3. \A d \in Block :
        /\ SolverProofs!Abstract!IsMeet(in[d], SolverProofs!Abstract!Incoming(graph, out, d))
        /\ out[d] = TransferBlock(old[d], in[d])
        /\ SolverProofs!Abstract!IsMeet(block_in[d],
             SolverProofs!Abstract!Incoming(graph, block_out, d))
        /\ block_out[d] = TransferBlock(code[d], block_in[d])
  BY <1>1 DEF GreatestSolution, SolverProofs!Abstract!Fixpoint,
              SolverProofs!Abstract!Solved, SolverProofs!Abstract!Block, Block
<1>4. \A d \in Block : TransferBlock(code[d], in[d]) = TransferBlock(old[d], in[d])
  <2> SUFFICES ASSUME NEW d \in Block
               PROVE  TransferBlock(code[d], in[d]) = TransferBlock(old[d], in[d])
    OBVIOUS
  <2>1. RewrittenFor(code[d], old[d], in[d])
    BY <1>2
  <2>2. Len(old[d]) \in 0 .. Len(old[d]) /\ Len(code[d]) = Len(old[d])
    BY <2>1 DEF RewrittenFor, LiftedBody
  <2>3. QED
    BY <2>1, <2>2, SameWalk DEF TransferBlock
<1>5. \A d \in Block : BelowState(out[d], block_out[d])
  <2>1. Solution(graph, code, out)
    <3> SUFFICES ASSUME NEW d \in Block
                 PROVE  /\ \A s \in SolverProofs!Abstract!Incoming(graph, out, d) :
                             BelowState(in[d], s)
                        /\ BelowState(out[d], TransferBlock(code[d], in[d]))
      BY <1>2 DEF Solution
    <3>1. out[d] = TransferBlock(code[d], in[d]) /\ out[d] \in FittingState
      BY <1>2, <1>3, <1>4
    <3>2. BelowState(out[d], TransferBlock(code[d], in[d]))
      BY <3>1, FittingStateIsLattice
    <3>3. QED
      BY <1>3, <3>2 DEF SolverProofs!Abstract!IsMeet
  <2>2. QED
    BY <1>1, <1>2, <2>1 DEF GreatestSolution
<1>6. \A d \in Block : BelowState(in[d], block_in[d])
  BY <1>0, <1>2, <1>3, <1>5, MeetMonotone
<1>7. \A d \in Block : BelowState(block_out[d], out[d])
  <2>1. Solution(graph, old, block_out)
    <3> SUFFICES ASSUME NEW d \in Block
                 PROVE  /\ \A s \in SolverProofs!Abstract!Incoming(graph, block_out, d) :
                             BelowState(block_in[d], s)
                        /\ BelowState(block_out[d], TransferBlock(old[d], block_in[d]))
      BY <1>2 DEF Solution
    <3>1. RewrittenFor(code[d], old[d], in[d]) /\ BelowState(in[d], block_in[d])
          /\ block_in[d] \in FittingState
      BY <1>2, <1>6
    <3>2. Len(old[d]) \in 0 .. Len(old[d]) /\ Len(code[d]) = Len(old[d])
      BY <3>1 DEF RewrittenFor, LiftedBody
    <3>3. BelowState(TransferBlock(code[d], block_in[d]), TransferBlock(old[d], block_in[d]))
      BY <3>1, <3>2, WalkDescends DEF TransferBlock
    <3>4. QED
      BY <1>3, <3>3 DEF SolverProofs!Abstract!IsMeet
  <2>2. QED
    BY <1>1, <1>2, <2>1 DEF GreatestSolution
<1>8. \A d \in Block : BelowState(block_in[d], in[d])
  BY <1>0, <1>2, <1>3, <1>7, MeetMonotone
<1>9. QED
  BY <1>6, <1>8

(* A second pass over the rewritten function changes nothing.              *)
THEOREM SecondPassChangesNothing == Spec => []SecondPassIdle
<1>1. Inv /\ SecondPassInv => SecondPassIdle
  <2> SUFFICES ASSUME Inv, SecondPassInv, Rewritten, pass = 2 PROVE folded = code
    BY DEF SecondPassIdle
  <2>1. PICK old, in, out : FirstPass(graph, code, old, in, out)
    BY DEF SecondPassInv
  <2>2. Solver!Done
    BY DEF Inv, ControlInv, Rewritten
  <2>3. ASSUME NEW c \in Block, NEW j \in 1 .. Len(code[c])
        PROVE  folded[c][j] = code[c][j]
    <3> DEFINE w == Walk(old[c], in[c])[j - 1]
               t == Walk(code[c], block_in[c])[j - 1]
    <3>1. /\ RewrittenFor(code[c], old[c], in[c])
          /\ in[c] \in FittingState /\ block_in[c] \in FittingState
          /\ LiftedBody(code[c]) /\ LiftedBody(old[c]) /\ Len(code[c]) = Len(old[c])
      BY <2>1, SolverTypes DEF FirstPass, Inv, RewrittenFor
    <3>2. BelowState(in[c], block_in[c]) /\ BelowState(block_in[c], in[c])
      BY <2>1, <2>2, SameSolution
    <3>3. j - 1 \in 0 .. Len(code[c]) /\ j - 1 \in 0 .. Len(old[c]) /\ j \in 1 .. Len(old[c])
      BY <3>1 DEF LiftedBody
    <3>4. /\ BelowState(Walk(code[c], in[c])[j - 1], t)
          /\ BelowState(t, Walk(code[c], in[c])[j - 1])
      BY <3>1, <3>2, <3>3, WalkIsMonotone
    <3>5. Walk(code[c], in[c])[j - 1] = w
      BY <3>1, <3>3, SameWalk
    <3>6. w \in FittingState /\ t \in FittingState
      BY <3>1, <3>3, WalkUnfolds
    <3>7. LiftedOp(old[c][j]) /\ code[c][j] = SubstituteAndFold(old[c][j], w)
      BY <3>1, <3>3 DEF RewrittenFor, LiftedBody
    <3>8. folded[c][j] = SubstituteAndFold(code[c][j], t)
      BY AllRecorded DEF RewrittenAt, StateAt
    <3> HIDE DEF w, t
    <3>9. Alike(w, t)
      BY <3>4, <3>5, <3>6, BelowBothWays
    <3>10. QED
      BY <3>6, <3>7, <3>8, <3>9, RewriteAgain
  <2>4. /\ folded \in [Block -> Seq(Rewrites(Reachable))]
        /\ code \in [Block -> Seq(Reachable)]
    BY SolverTypes DEF Inv, ControlInv
  <2>5. ASSUME NEW c \in Block
        PROVE  folded[c] = code[c]
    <3>1. Len(folded[c]) = Len(code[c])
      BY AllRecorded
    <3>2. folded[c] \in Seq(Rewrites(Reachable)) /\ code[c] \in Seq(Reachable)
      BY <2>4
    <3>3. QED
      BY <2>3, <3>1, <3>2
  <2>6. QED
    BY <2>4, <2>5
<1>2. QED
  BY <1>1, InvCorrect, SecondPassInvariant, PTL

-----------------------------------------------------------------------------
(* What the structurer reads off the operations of a block.                *)

Lifting == INSTANCE LiftedCode WITH Address <- Nat

EndKept ==
  phase # "solve" /\ (phase = "rewrite" => b > N) =>
    \A c \in Block :
      Lifting!Ending(Lifting!Elements(folded[c])) = Lifting!Ending(Lifting!Elements(code[c]))

(* Rewriting makes and ends no transfer of control, and keeps its target.  *)
LEMMA RewriteKeepsControl ==
  ASSUME NEW op, LiftedOp(op), NEW s
  PROVE  /\ SubstituteAndFold(op, s).op \in {"CBranch", "Branch", "Return"}
              <=> op.op \in {"CBranch", "Branch", "Return"}
         /\ op.op \in {"CBranch", "Branch", "Return"} => SubstituteAndFold(op, s).op = op.op
         /\ op.op \in {"CBranch", "Branch"} =>
              SubstituteAndFold(op, s).target = op.target
<1> DEFINE new == SubstituteAndFold(op, s)
<1>1. CASE op.op \in {"Copy", "Load", "Store"}
  <2>1. new.op = op.op
    BY <1>1, RewriteCases, InstructionFields
  <2> QED
    BY <1>1, <2>1
<1>2. CASE op.op \in BinaryOps
  <2>1. CASE Folds(op, s)
    <3>1. new = Fold(op, s)
      BY <1>2, <2>1, RewriteCases
    <3>2. new.op = "Copy"
      BY <3>1, InstructionFields DEF Fold
    <3> HIDE DEF new
    <3>3. op.op \notin {"CBranch", "Branch", "Return"}
      BY <1>2 DEF BinaryOps
    <3>4. new.op \notin {"CBranch", "Branch", "Return"}
      BY <3>2
    <3> QED
      BY <3>3, <3>4 DEF new
  <2>2. CASE ~ Folds(op, s)
    <3>1. new = Binary(op.op, op.dest, Substitute(op.lhs, s), Substitute(op.rhs, s))
      BY <1>2, <2>2, RewriteCases
    <3>2. new.op = op.op
      BY <3>1, InstructionFields
    <3>3. op.op \notin {"CBranch", "Branch", "Return"}
      BY <1>2 DEF BinaryOps
    <3> QED
      BY <3>2, <3>3
  <2> QED
    BY <2>1, <2>2
<1>3. CASE op.op = "CBranch"
  <2>1. new = CBranch(Substitute(op.condition, s), op.target)
    BY <1>3, RewriteCases
  <2>2. new.op = "CBranch" /\ new.target = op.target
    BY <2>1 DEF CBranch
  <2> QED
    BY <1>3, <2>2
<1>4. CASE op.op \notin {"Copy", "Load", "Store", "CBranch", "Phi"} \union BinaryOps
  <2>1. new = op
    BY <1>4, RewriteCases
  <2> QED
    BY <2>1
<1>5. op.op # "Phi"
  BY DEF LiftedOp
<1> QED
  BY <1>1, <1>2, <1>3, <1>4, <1>5

(* The end depends on nothing else.                                        *)
LEMMA EndOfOps ==
  ASSUME NEW n \in Nat, NEW s, NEW t, Len(s) = n, Len(t) = n,
         \A j \in 1 .. n :
           /\ t[j].op \in {"CBranch", "Branch", "Return"} <=> s[j].op \in {"CBranch", "Branch", "Return"}
           /\ s[j].op \in {"CBranch", "Branch", "Return"} => t[j].op = s[j].op
           /\ s[j].op \in {"CBranch", "Branch"} => t[j].target = s[j].target
  PROVE  Lifting!Ending(Lifting!Elements(t)) = Lifting!Ending(Lifting!Elements(s))
<1> DEFINE S == Lifting!Elements(s)
           T == Lifting!Elements(t)
<1>1. \A name \in {"CBranch", "Branch", "Return"} : \A j \in 1 .. n :
        t[j].op = name <=> s[j].op = name
  OBVIOUS
<1>2. ASSUME NEW name \in {"CBranch", "Branch", "Return"}
      PROVE  Lifting!Named(T, name) = {} <=> Lifting!Named(S, name) = {}
  BY <1>1 DEF Lifting!Named, Lifting!Elements
<1>3. ASSUME NEW name \in {"CBranch", "Branch"}
      PROVE  Lifting!AbsoluteTargets(Lifting!Named(T, name))
               = Lifting!AbsoluteTargets(Lifting!Named(S, name))
  <2>1. \A a : a \in Lifting!AbsoluteTargets(Lifting!Named(S, name)) <=>
               \E j \in 1 .. n : s[j].op = name /\ s[j].target.kind = "Absolute"
                                 /\ a = s[j].target.address
    BY DEF Lifting!Named, Lifting!AbsoluteTargets, Lifting!Elements
  <2>2. \A a : a \in Lifting!AbsoluteTargets(Lifting!Named(T, name)) <=>
               \E j \in 1 .. n : t[j].op = name /\ t[j].target.kind = "Absolute"
                                 /\ a = t[j].target.address
    BY DEF Lifting!Named, Lifting!AbsoluteTargets, Lifting!Elements
  <2>3. \A j \in 1 .. n : s[j].op = name => t[j].target = s[j].target
    OBVIOUS
  <2>4. \A j \in 1 .. n : t[j].op = name <=> s[j].op = name
    BY <1>1
  <2> HIDE DEF S, T
  <2>5. \A a : a \in Lifting!AbsoluteTargets(Lifting!Named(T, name)) <=>
               a \in Lifting!AbsoluteTargets(Lifting!Named(S, name))
    BY <2>1, <2>2, <2>3, <2>4
  <2> QED
    BY <2>5, Zenon DEF Lifting!AbsoluteTargets
<1> HIDE DEF S, T
<1> QED
  BY <1>2, <1>3 DEF Lifting!Ending, S, T

(* The pass leaves the end of every block as it was, the kind and the      *)
(* target, so that the edges are still those the instructions take and     *)
(* the structurer reads the same graph off the rewritten function          *)
(* (constant_propagation.rs:333-337).                                      *)
THEOREM EndsAreKept == Spec => []EndKept
<1>1. Inv => EndKept
  <2> SUFFICES ASSUME Inv, phase # "solve", phase = "rewrite" => b > N, NEW c \in Block
               PROVE  Lifting!Ending(Lifting!Elements(folded[c]))
                        = Lifting!Ending(Lifting!Elements(code[c]))
    BY DEF EndKept
  <2>1. Recorded(c)
    BY DEF Inv, WalkInv
  <2>2. VisitedIn(c) = Len(code[c])
    BY NAssumption DEF VisitedIn, Inv, ControlInv, Block
  <2>3. PICK n \in Nat : n = Len(code[c])
    BY StatesOfWalk DEF Inv
  <2>4. \A j \in 1 .. n : LiftedOp(code[c][j])
    BY <2>3, StatesOfWalk DEF Inv
  <2>5. \A j \in 1 .. n : folded[c][j] = SubstituteAndFold(code[c][j], StateAt(c, j))
    BY <2>1, <2>2, <2>3 DEF Recorded, RewrittenAt
  <2>6. ASSUME NEW j \in 1 .. n
        PROVE  /\ folded[c][j].op \in {"CBranch", "Branch", "Return"}
                    <=> code[c][j].op \in {"CBranch", "Branch", "Return"}
               /\ code[c][j].op \in {"CBranch", "Branch", "Return"} =>
                    folded[c][j].op = code[c][j].op
               /\ code[c][j].op \in {"CBranch", "Branch"} =>
                    folded[c][j].target = code[c][j].target
    BY <2>4, <2>5, RewriteKeepsControl
  <2>7. Len(folded[c]) = n
    BY <2>1, <2>2, <2>3 DEF Recorded
  <2> QED
    BY <2>3, <2>6, <2>7, EndOfOps
<1>2. QED
  BY <1>1, InvCorrect, PTL

=============================================================================
