------------------------------ MODULE COutput ------------------------------
(***************************************************************************)
(* The C that output-c prints: the declarations and the statement of an    *)
(* operation, as the trees a C compiler would read from the text, and what *)
(* they mean in C.                                                         *)
(***************************************************************************)
EXTENDS PCode, Sequences

CONSTANTS
  IntSize,    \* bytes of the C type int: 4 on the usual targets
  LongSize    \* bytes of the widest integer type, and of a pointer: 8

(* An int holds 1.                                                         *)
ASSUME CTypeAssumption ==
  /\ IntSize \in Nat \ {0} /\ IntSize * ByteBits >= 2
  /\ LongSize \in Nat /\ IntSize <= LongSize

-----------------------------------------------------------------------------
(* Types: how many pointers, to an integer of which size and sign.         *)
CType(pointers, size, signed) ==
  [pointers |-> pointers, size |-> size, signed |-> signed]

(* Odd sizes get the widest type.                                          *)
StdSize(size) == IF size \in {1, 2, 4, 8} THEN size ELSE 8

UnsignedType(size) == CType(0, StdSize(size), FALSE)
SignedType(size) == CType(0, StdSize(size), TRUE)

(* Type inference makes no type but pointers to unsigned integers.         *)
FormatType(type) == CType(type.pointers, StdSize(type.size), FALSE)

Pointee(type) == [type EXCEPT !.pointers = @ - 1]

-----------------------------------------------------------------------------
(* Expressions.  A variable is named by its register or temporary: the     *)
(* size of the Varnode is no part of the name.                             *)
VarName(v) == <<v.space, v.offset>>

Var(name) == [expr |-> "Var", name |-> name]
Literal(n) == [expr |-> "Literal", value |-> n]
MemAt(address) == [expr |-> "MemAt", address |-> address]
Cast(type, e) == [expr |-> "Cast", type |-> type, of |-> e]
Infix(operator, lhs, rhs) ==
  [expr |-> "Infix", operator |-> operator, lhs |-> lhs, rhs |-> rhs]
Deref(type, address) == [expr |-> "Deref", type |-> type, address |-> address]

Operand(v) ==
  CASE v.space = "Constant" -> Literal(v.offset)
    [] v.space = "Memory" -> MemAt(v.offset)
    [] OTHER -> Var(VarName(v))

Operator ==
  [IntAdd |-> "+", IntSub |-> "-", IntEqual |-> "==", IntNotEqual |-> "!=",
   IntSless |-> "<", IntSlessEqual |-> "<="]

(* What is read or written through an address: what it is a pointer to, if *)
(* it has been typed, and otherwise what the operation moves.              *)
AccessType(address, moved, types) ==
  IF address \in DOMAIN types /\ types[address].pointers > 0
  THEN Pointee(FormatType(types[address])) ELSE UnsignedType(moved.size)

(* Fault of Expression: signed comparisons compare what is declared.       *)
ExpressionUncast(op, types) ==
  CASE op.op = "Copy" -> Operand(op.src)
    [] op.op = "Load" -> Deref(AccessType(op.addr, op.dest, types), Operand(op.addr))
    [] op.op \in BinaryOps -> Infix(Operator[op.op], Operand(op.lhs), Operand(op.rhs))

(* The right side of the assignment an operation becomes.                  *)
Expression(op, types) ==
  CASE op.op = "Copy" -> Operand(op.src)
    [] op.op = "Load" -> Deref(AccessType(op.addr, op.dest, types), Operand(op.addr))
    [] op.op \in {"IntSless", "IntSlessEqual"} ->
         LET type == SignedType(op.lhs.size)
         IN  Infix(Operator[op.op], Cast(type, Operand(op.lhs)), Cast(type, Operand(op.rhs)))
    [] op.op \in BinaryOps \ {"IntSless", "IntSlessEqual"} ->
         Infix(Operator[op.op], Operand(op.lhs), Operand(op.rhs))

(* statement.  A Phi is printed as a comment, a Nop not at all.            *)
Statement(op, types) ==
  CASE op.op \in BinaryOps \union {"Copy", "Load"} ->
         [stmt |-> "Assign", name |-> VarName(op.dest), value |-> Expression(op, types)]
    [] op.op = "Store" ->
         [stmt |-> "Put", type |-> AccessType(op.addr, op.src, types),
          address |-> Operand(op.addr), value |-> Operand(op.src)]
    [] op.op = "Branch" -> [stmt |-> "Goto", target |-> op.target]
    [] op.op = "CBranch" ->
         [stmt |-> "IfGoto", condition |-> Operand(op.condition), target |-> op.target]
    [] op.op = "Call" -> [stmt |-> "Call", target |-> op.target]
    [] op.op = "Return" -> [stmt |-> "Return"]
    [] op.op \in {"Phi", "Nop"} -> [stmt |-> "None"]

-----------------------------------------------------------------------------
(* Declarations.                                                           *)

(* op_dest                                                                 *)
HasDest(op) == op.op \in BinaryOps \union {"Copy", "Load", "Phi"}

(* One for every Varnode among the registers and temporaries that are      *)
(* assigned.                                                               *)
Declarations(ops, types) ==
  {[of |-> v, name |-> VarName(v),
    type |-> IF v \in DOMAIN types THEN FormatType(types[v]) ELSE UnsignedType(v.size)]
   : v \in {op.dest : op \in {o \in ops : HasDest(o) /\ o.dest.space \in {"Register", "Unique"}}}}

TypeOfName(declarations, name) ==
  (CHOOSE d \in declarations : d.name = name).type

-----------------------------------------------------------------------------
(* The meaning of expressions in C.  A typed value is [type, value].       *)

IntType == CType(0, IntSize, TRUE)
LongType == CType(0, LongSize, TRUE)

IsPointerType(type) == type.pointers > 0
SizeOf(type) == IF IsPointerType(type) THEN LongSize ELSE type.size

(* n, converted to a type.                                                 *)
Convert(n, type) ==
  LET limit == TwoTo[SizeOf(type) * ByteBits]
      m == n % limit
  IN  IF type.signed /\ ~ IsPointerType(type) /\ 2 * m >= limit THEN m - limit ELSE m

TypedValue(n, type) == [type |-> type, value |-> Convert(n, type)]

(* A decimal literal has the first of these types that holds it.           *)
LiteralType(n) ==
  IF 2 * n < TwoTo[IntSize * ByteBits] THEN IntType
  ELSE IF 2 * n < TwoTo[LongSize * ByteBits] THEN LongType
  ELSE CType(0, LongSize, FALSE)

(* The usual arithmetic conversions.                                       *)
Promoted(type) == IF type.size < IntSize THEN IntType ELSE type

CommonType(s, t) ==
  LET p == Promoted(s)
      q == Promoted(t)
  IN  IF p.size > q.size THEN p
      ELSE IF q.size > p.size THEN q
      ELSE CType(0, p.size, p.signed /\ q.signed)

(* A number added to a pointer counts what it points to.                   *)
Scale(type) == IF IsPointerType(type) THEN SizeOf(Pointee(type)) ELSE 1

Arithmetic(operator, l, r) ==
  LET type == IF IsPointerType(l.type) THEN l.type
              ELSE IF IsPointerType(r.type) THEN r.type
              ELSE CommonType(l.type, r.type)
      x == l.value * Scale(r.type)
      y == r.value * Scale(l.type)
  IN  CASE operator = "+" -> TypedValue(x + y, type)
        [] operator = "-" /\ IsPointerType(l.type) /\ IsPointerType(r.type) ->
             TypedValue((l.value - r.value) \div Scale(l.type), LongType)
        [] operator = "-" /\ ~ (IsPointerType(l.type) /\ IsPointerType(r.type)) ->
             TypedValue(x - y, type)

Compared(operator, l, r) ==
  LET type == IF IsPointerType(l.type) THEN l.type
              ELSE IF IsPointerType(r.type) THEN r.type
              ELSE CommonType(l.type, r.type)
      x == Convert(l.value, type)
      y == Convert(r.value, type)
      holds == CASE operator = "==" -> x = y
                 [] operator = "!=" -> x # y
                 [] operator = "<" -> x < y
                 [] operator = "<=" -> x <= y
  IN  TypedValue(IF holds THEN 1 ELSE 0, IntType)

(* The value of an expression that reads no memory, when env holds the     *)
(* typed values of the variables.  Of operands, casts of operands and      *)
(* binary operations on both, none is nested deeper.                       *)
EvaluateOperand(e, env) ==
  CASE e.expr = "Var" -> env[e.name]
    [] e.expr = "Literal" -> TypedValue(e.value, LiteralType(e.value))

EvaluateSide(e, env) ==
  IF e.expr = "Cast" THEN TypedValue(EvaluateOperand(e.of, env).value, e.type)
  ELSE EvaluateOperand(e, env)

Evaluate(e, env) ==
  IF e.expr # "Infix" THEN EvaluateSide(e, env)
  ELSE LET l == EvaluateSide(e.lhs, env)
           r == EvaluateSide(e.rhs, env)
       IN  IF e.operator \in {"+", "-"} THEN Arithmetic(e.operator, l, r)
           ELSE Compared(e.operator, l, r)

(* The variables after a statement: an assignment converts to the type of  *)
(* the variable.  A call leaves them alone.                                *)
RunStatement(s, env) ==
  IF s.stmt = "Assign"
  THEN [env EXCEPT ![s.name] = TypedValue(Evaluate(s.value, env).value, @.type)]
  ELSE env

=============================================================================
