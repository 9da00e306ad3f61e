------------------------------ MODULE Machine ------------------------------
(***************************************************************************)
(* The machine the instructions of the intermediate representation         *)
(* describe (the meaning each variant of enum Instruction documents).  It  *)
(* is written from those meanings and not from any analysis: sums and      *)
(* differences are taken modulo the width of the destination, comparisons  *)
(* compare the integers their operands denote.  What a pass claims or      *)
(* rewrites is compared with it.                                           *)
(***************************************************************************)
EXTENDS PCode

(* A literal denotes itself, any other Varnode what its storage holds.     *)
Value(vn, r) == IF vn.space = "Constant" THEN vn.offset ELSE r[vn]

(* The signed integer v denotes in two's complement.                       *)
AsInteger(v, bits) ==
  LET half == TwoTo[bits - 1]
      modulus == TwoTo[bits]
  IN  CHOOSE n \in -half .. half - 1 : n % modulus = v % modulus

Truth(p) == IF p THEN 1 ELSE 0

Result(op, x, y) ==
  LET bits == Bits(op.lhs)
  IN  CASE op.op = "IntAdd"        -> (x + y) % TwoTo[Bits(op.dest)]
        [] op.op = "IntSub"        -> (x - y) % TwoTo[Bits(op.dest)]
        [] op.op = "IntEqual"      -> Truth(x % TwoTo[bits] = y % TwoTo[bits])
        [] op.op = "IntNotEqual"   -> Truth(x % TwoTo[bits] # y % TwoTo[bits])
        [] op.op = "IntSless"      -> Truth(AsInteger(x, bits) < AsInteger(y, bits))
        [] op.op = "IntSlessEqual" -> Truth(AsInteger(x, bits) <= AsInteger(y, bits))

(* Registers after op, when the memory it reads holds loaded.              *)
Execute(op, r, loaded) ==
  CASE op.op = "Copy" -> [r EXCEPT ![op.dest] = Value(op.src, r)]
    [] op.op = "Load" -> [r EXCEPT ![op.dest] = loaded]
    [] op.op \in BinaryOps ->
         [r EXCEPT ![op.dest] = Result(op, Value(op.lhs, r), Value(op.rhs, r))]
    [] OTHER -> r

Defines(op) == op.op \in BinaryOps \union {"Copy", "Load"}

(* The registers the defined value depends on.                             *)
Uses(op) ==
  {vn \in (CASE op.op \in BinaryOps -> {op.lhs, op.rhs}
             [] op.op = "Copy" -> {op.src}
             [] OTHER -> {}) : vn.space # "Constant"}

=============================================================================
