-------------------------- MODULE MCTypeInference --------------------------
(***************************************************************************)
(* Every function of up to four operations of a menu over three registers  *)
(* and a constant: loads and stores through registers that are themselves  *)
(* loaded, copied and added to, in every order.                            *)
(***************************************************************************)
EXTENDS TypeInference, COutput

p == Register(0, 2)
q == Register(1, 2)
x == Register(2, 1)
c == Constant(1, 2)

MCVarnodes == {p, q, x, c}

Menu ==
  { Load(x, p), Load(q, p), Load(x, q), Load(x, c), Store(q, p),
    Binary("IntAdd", q, p, c), Binary("IntSub", x, c, q), Binary("IntEqual", x, p, q),
    Copy(x, p), Copy(p, q), Phi(x, <<q, p>>), Phi(p, <<c, x>>) }

MCPrograms == UNION {[1 .. n -> Menu] : n \in 0 .. 4}

-----------------------------------------------------------------------------
(* The values of the variables of the function, as they are declared: each *)
(* holds n.                                                                *)
Variables(n) ==
  LET declared == Declarations({code[j] : j \in 1 .. Len(code)}, types)
      Declared(v) == IF \E d \in declared : d.of = v THEN TypeOfName(declared, VarName(v))
                     ELSE UnsignedType(v.size)
  IN  [name \in {VarName(v) : v \in Place} |->
         TypedValue(n, Declared(CHOOSE v \in Place : VarName(v) = name))]

ValueOf(v, n) == IF v.space = "Constant" THEN v.offset ELSE n

(* With the types that were inferred, a sum is printed as one that adds    *)
(* its operands (instruction.rs:49, "dest = lhs + rhs").                   *)
SumsAsDocumented ==
  Done =>
    \A j \in 1 .. Len(code) : \A n \in 0 .. 3 :
      LET op == code[j]
          after == RunStatement(Statement(op, types), Variables(n))
      IN  op.op = "IntAdd" =>
            after[VarName(op.dest)].value % 2^Bits(op.dest)
              = ValueOf(op.lhs, n) + ValueOf(op.rhs, n)

=============================================================================
