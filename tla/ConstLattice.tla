---------------------------- MODULE ConstLattice ----------------------------
(***************************************************************************)
(* The lattice and the transfer functions of constant propagation          *)
(* (analysis-passes/src/constant_propagation.rs): what the analysis knows  *)
(* of every Varnode, how two states join, and what one instruction does to *)
(* a state.                                                                *)
(*                                                                         *)
(* Machine words are parameters so that wrap-around, masking and sign      *)
(* extension are reached by small numbers: the code's ByteBits is 8 and    *)
(* its WordBits 64.                                                        *)
(***************************************************************************)
EXTENDS Integers, Sequences, Functions, PCode

CONSTANTS
  Tracked,   \* the Varnodes that instructions may define
  WordBits   \* bits of the u64 every value is held in

ASSUME WordAssumption == WordBits \in Nat \ {0}
ASSUME TrackedAssumption == \A vn \in Tracked : vn.space # "Constant"

(* At least a byte, at most a u64.                                         *)
FitsWord(vn) == vn.size \in Nat \ {0} /\ Bits(vn) <= WordBits

ASSUME WidthAssumption == \A vn \in Tracked : FitsWord(vn)

Word == 0 .. TwoTo[WordBits] - 1

-----------------------------------------------------------------------------
(* ConstValue.                                                             *)
TopValue == [kind |-> "Top"]
Const(c) == [kind |-> "Const", value |-> c]
NotConstant == [kind |-> "NotConstant"]

ConstValue == {TopValue, NotConstant} \union {Const(c) : c \in Word}

(* Fault of MergeValue: the first constant wins.                           *)
MergeFirst(a, b) == IF a = TopValue THEN b ELSE a

MergeValue(a, b) ==
  IF a = TopValue THEN b
  ELSE IF b = TopValue THEN a
  ELSE IF a = b THEN a
  ELSE NotConstant

(* The diagram of the module's documentation: Top above every constant,    *)
(* NotConstant below.                                                      *)
BelowValue(a, b) == b = TopValue \/ a = NotConstant \/ a = b

-----------------------------------------------------------------------------
(* ConstState: a map from the Varnodes with an entry to their values.      *)
ConstState == UNION {[D -> ConstValue] : D \in SUBSET Tracked}

TopState == <<>>

Get(state, vn) ==
  IF vn.space = "Constant" THEN Const(vn.offset)
  ELSE IF vn \in DOMAIN state THEN state[vn]
  ELSE TopValue

(* HashMap::insert: an explicit Top is an entry like any other.            *)
Set(state, vn, value) ==
  [v \in DOMAIN state \union {vn} |-> IF v = vn THEN value ELSE state[v]]

(* The join of two states leaves out the entries that are Top.             *)
MergeState(s, t) ==
  LET Merged(vn) == MergeValue(Get(s, vn), Get(t, vn))
  IN  [vn \in {v \in DOMAIN s \union DOMAIN t : Merged(v) # TopValue}
         |-> Merged(vn)]

BelowState(s, t) ==
  \A vn \in Tracked : BelowValue(Get(s, vn), Get(t, vn))

-----------------------------------------------------------------------------
(* Fault of Mask: nothing is masked.                                       *)
MaskNothing(value, size) == value

(* Arithmetic on u64 values that stand for size bytes.                     *)
Mask(value, size) ==
  LET bits == size * ByteBits
  IN  IF bits = 0 \/ bits >= WordBits THEN value ELSE value % TwoTo[bits]

(* Fault of Signed: the least integer is taken for a positive one.         *)
SignedOffByOne(value, size) ==
  LET bits == size * ByteBits
      width == IF bits = 0 \/ bits >= WordBits THEN WordBits ELSE bits
      x == value % TwoTo[width]
  IN  IF x > TwoTo[width - 1] THEN x - TwoTo[width] ELSE x

Signed(value, size) ==
  LET bits == size * ByteBits
      width == IF bits = 0 \/ bits >= WordBits THEN WordBits ELSE bits
      x == value % TwoTo[width]
  IN  IF x >= TwoTo[width - 1] THEN x - TwoTo[width] ELSE x

Bool(b) == IF b THEN 1 ELSE 0

(* What a two-operand instruction computes: sums and differences are taken *)
(* at the width of the destination, comparisons at that of the left        *)
(* operand.                                                                *)
Compute(op, a, b) ==
  CASE op.op = "IntAdd"        -> Mask((a + b) % TwoTo[WordBits], op.dest.size)
    [] op.op = "IntSub"        -> Mask((a - b) % TwoTo[WordBits], op.dest.size)
    [] op.op = "IntEqual"      -> Bool(Mask(a, op.lhs.size) = Mask(b, op.lhs.size))
    [] op.op = "IntNotEqual"   -> Bool(Mask(a, op.lhs.size) # Mask(b, op.lhs.size))
    [] op.op = "IntSless"      -> Bool(Signed(a, op.lhs.size) < Signed(b, op.lhs.size))
    [] op.op = "IntSlessEqual" -> Bool(Signed(a, op.lhs.size) <= Signed(b, op.lhs.size))

(* Fault of EvalBinop: the analysis does not follow the folding.           *)
EvalNothing(op, a, b) ==
  IF TopValue \in {a, b} THEN TopValue ELSE NotConstant

EvalBinop(op, a, b) ==
  IF a.kind = "Const" /\ b.kind = "Const" THEN Const(Compute(op, a.value, b.value))
  ELSE IF NotConstant \in {a, b} THEN NotConstant
  ELSE TopValue

-----------------------------------------------------------------------------
(* The instructions the lifters produce: literals fit their size, both     *)
(* operands of an operation have one size, a copy keeps it, and there are  *)
(* no phi nodes.                                                           *)
IsOperand(vn) ==
  \/ vn \in Tracked
  \/ vn.space = "Constant" /\ FitsWord(vn) /\ vn.offset \in Values(vn)

LiftedOp(op) ==
  /\ op.op \in {"Copy", "Load"} \union BinaryOps => op.dest \in Tracked
  /\ op.op = "Copy" => IsOperand(op.src) /\ op.src.size = op.dest.size
  /\ op.op \in BinaryOps =>
       IsOperand(op.lhs) /\ IsOperand(op.rhs) /\ op.lhs.size = op.rhs.size
  /\ op.op # "Phi"

-----------------------------------------------------------------------------
(* transfer_instruction, and transfer_block: the instructions of a body in *)
(* program order.                                                          *)
TransferInstruction(op, state) ==
  CASE op.op = "Copy" -> Set(state, op.dest, Get(state, op.src))
    [] op.op \in BinaryOps ->
         Set(state, op.dest, EvalBinop(op, Get(state, op.lhs), Get(state, op.rhs)))
    [] op.op = "Load" -> Set(state, op.dest, NotConstant)
    [] op.op = "Phi" ->
         Set(state, op.dest,
             FoldFunction(MergeValue, TopValue, [j \in DOMAIN op.srcs |-> Get(state, op.srcs[j])]))
    [] OTHER -> state

(* The state before the first instruction, after it, ..., after the last.  *)
Walk(ops, state) ==
  LET walk[n \in 0 .. Len(ops)] ==
        IF n = 0 THEN state ELSE TransferInstruction(ops[n], walk[n - 1])
  IN  walk

TransferBlock(ops, state) == Walk(ops, state)[Len(ops)]

=============================================================================
