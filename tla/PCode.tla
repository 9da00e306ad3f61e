------------------------------- MODULE PCode -------------------------------
(***************************************************************************)
(* The intermediate representation every pass reads and rewrites           *)
(* (crates ir-pcode and decompiler-core): Varnodes, branch targets and the *)
(* tagged union of P-code instructions.                                    *)
(*                                                                         *)
(* A Varnode is its (space, offset, size) triple: the display name carries *)
(* no weight in equality or hashing (varnode.rs:79-111), so it is left     *)
(* out and TLA+ equality of the records is Varnode equality.               *)
(***************************************************************************)
EXTENDS Integers

CONSTANT ByteBits   \* bits of a byte: 8 in the code, smaller in the checks

ASSUME ByteAssumption == ByteBits \in Nat \ {0}

Space == {"Register", "Memory", "Constant", "Unique"}

Varnode(space, offset, size) ==
  [space |-> space, offset |-> offset, size |-> size]

Bits(vn) == vn.size * ByteBits

(* The powers of two, which bound the values of a width.                   *)
TwoTo[n \in Nat] == IF n = 0 THEN 1 ELSE 2 * TwoTo[n - 1]

(* The values a Varnode can hold.                                          *)
Values(vn) == 0 .. TwoTo[Bits(vn)] - 1

Constant(value, size) == Varnode("Constant", value, size)
Register(id, size) == Varnode("Register", id, size)

-----------------------------------------------------------------------------
(* Where control transfers to: an absolute address or an unresolved        *)
(* indirect branch.                                                        *)
Absolute(address) == [kind |-> "Absolute", address |-> address]
Indirect == [kind |-> "Indirect"]

-----------------------------------------------------------------------------
(* The instructions.  The six two-operand arithmetic and comparison        *)
(* operations share their fields and are told apart by op.                 *)
BinaryOps == {"IntAdd", "IntSub", "IntEqual", "IntNotEqual",
              "IntSless", "IntSlessEqual"}

Copy(dest, src) == [op |-> "Copy", dest |-> dest, src |-> src]
Load(dest, addr) == [op |-> "Load", dest |-> dest, addr |-> addr]
Store(addr, src) == [op |-> "Store", addr |-> addr, src |-> src]
Binary(op, dest, lhs, rhs) ==
  [op |-> op, dest |-> dest, lhs |-> lhs, rhs |-> rhs]
Phi(dest, srcs) == [op |-> "Phi", dest |-> dest, srcs |-> srcs]
Branch(target) == [op |-> "Branch", target |-> target]
CBranch(condition, target) ==
  [op |-> "CBranch", condition |-> condition, target |-> target]
Call(target) == [op |-> "Call", target |-> target]
Return == [op |-> "Return"]
Nop == [op |-> "Nop"]

=============================================================================
