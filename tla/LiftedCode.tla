----------------------------- MODULE LiftedCode -----------------------------
(***************************************************************************)
(* The stream of lifted machine instructions (LiftedInstruction in         *)
(* decompiler-core/src/types.rs) that passes from the decode loop to       *)
(* CfgBuilder: each has an address and the operations it was lifted to.    *)
(***************************************************************************)
EXTENDS PCode, Sequences

CONSTANT Address   \* addresses of instructions and of branch targets

ASSUME AddressAssumption == Address \subseteq Nat

Lifted(address, ops) == [address |-> address, ops |-> ops]

Elements(s) == {s[j] : j \in 1 .. Len(s)}

IsControl(op) == op.op \in {"Branch", "CBranch", "Return"}

(* A jump can be to a computed address, a conditional one has a target.    *)
LiftedInstruction(li) ==
  /\ li.address \in Address
  /\ \A op \in Elements(li.ops) :
       /\ op.op = "CBranch" => op.target \in {Absolute(a) : a \in Address}
       /\ op.op = "Branch" => op.target \in {Indirect} \union {Absolute(a) : a \in Address}

(* What CfgBuilder is given: the decoder walks the bytes forwards, one     *)
(* instruction after the other (cli/src/main.rs:101-138), and the lifters  *)
(* end a machine instruction with at most one control transfer.            *)
Stream(s) ==
  /\ \A li \in Elements(s) : LiftedInstruction(li)
  /\ \A j, m \in 1 .. Len(s) : j < m => s[j].address < s[m].address
  /\ \A li \in Elements(s) :
       \A j, m \in 1 .. Len(li.ops) :
         IsControl(li.ops[j]) /\ IsControl(li.ops[m]) => j = m

-----------------------------------------------------------------------------
(* What the structurer reads off the operations of a block: the kind of    *)
(* its end, and the address it names, if any.                              *)

Named(ops, name) == {op \in ops : op.op = name}

AbsoluteTargets(ops) ==
  {op.target.address : op \in {o \in ops : o.target.kind = "Absolute"}}

Ending(ops) ==
  LET conditional == Named(ops, "CBranch")
      jump == AbsoluteTargets(Named(ops, "Branch"))
      To(kind, targets) ==
        [kind |-> kind, target |-> IF targets = {} THEN 0 ELSE CHOOSE a \in targets : TRUE]
  IN  IF conditional # {} THEN To("cbranch", AbsoluteTargets(conditional))
      ELSE IF jump # {} THEN To("branch", jump)
      ELSE IF Named(ops, "Return") # {} THEN To("return", {})
      ELSE To("fall", {})

=============================================================================
