--------------------------- MODULE WordArithmetic ---------------------------
(***************************************************************************)
(* Arithmetic on words, for every operation, every width up to the word    *)
(* and every pair of values: the constant folder's, and that of the C the  *)
(* operation is printed as, against the machine.                           *)
(***************************************************************************)
EXTENDS ConstLattice, Machine, COutput

CONSTANT Sizes   \* the operand sizes, in bytes

(* A value is held in a u64; C's widest type has the widest of the sizes   *)
(* that it has a type for.                                                 *)
ASSUME SizesAssumption ==
  \A size \in Sizes :
    /\ size \in Nat \ {0} /\ size * ByteBits <= WordBits
    /\ size = StdSize(size) => size <= LongSize

VARIABLES operation, left, right

operands == <<left, right>>

(* Both operands have the size of the left one; a comparison may have a    *)
(* destination of another size.                                            *)
Operation(name, size, dest_size) ==
  Binary(name, Register(0, dest_size), Register(1, size), Register(2, size))

Operations ==
  {Operation(name, size, size) : name \in {"IntAdd", "IntSub"}, size \in Sizes}
    \union {Operation(name, size, 1) : name \in BinaryOps \ {"IntAdd", "IntSub"},
                                       size \in Sizes}

ArithmeticInit == operation \in Operations /\ left = 0 /\ right = 0

(* Another left or right operand.                                          *)
ArithmeticNext ==
  /\ \/ left + 1 \in Values(operation.lhs) /\ left' = left + 1 /\ right' = right
     \/ right' = (right + 1) % TwoTo[Bits(operation.rhs)] /\ left' = left
  /\ UNCHANGED operation

ArithmeticSpec == ArithmeticInit /\ [][ArithmeticNext]_<<operation, operands>>

(* Folding computes what the machine computes: wrap-around, masking to the *)
(* width of the operands and sign extension are those of the machine, at   *)
(* the widths below the word and at the word itself                        *)
(* (constant_propagation.rs:103-127).                                      *)
FoldingIsExact ==
  EvalBinop(operation, Const(left), Const(right)) = Const(Result(operation, left, right))

-----------------------------------------------------------------------------
(* The operation with an operand replaced by a literal, as constant        *)
(* propagation leaves it.                                                  *)
Forms ==
  {operation, [operation EXCEPT !.lhs = Constant(left, @.size)],
   [operation EXCEPT !.rhs = Constant(right, @.size)]}

(* The variables, with the types they are declared with.                   *)
Variables ==
  LET o == operation
      declared == Declarations({o, Copy(o.lhs, o.rhs), Copy(o.rhs, o.lhs)}, <<>>)
      Holds(v, n) == TypedValue(n, TypeOfName(declared, VarName(v)))
  IN  [name \in {d.name : d \in declared} |->
         CASE name = VarName(o.dest) -> Holds(o.dest, 0)
           [] name = VarName(o.lhs) -> Holds(o.lhs, left)
           [] name = VarName(o.rhs) -> Holds(o.rhs, right)]

(* C's integer promotions, the types of its literals, the conversions of   *)
(* mixed operands and the casts of signed comparisons leave the printed    *)
(* statement assigning what the operation means, at every size that C has  *)
(* a type for (output-c/src/lib.rs:155-252).                               *)
PrintedIsExact ==
  operation.lhs.size = StdSize(operation.lhs.size) =>
    \A form \in Forms :
      RunStatement(Statement(form, <<>>), Variables)[VarName(operation.dest)].value =
        Result(operation, left, right)

=============================================================================
