--------------------------- MODULE TypeInference ---------------------------
(***************************************************************************)
(* Type inference (analysis-passes/src/type_inference.rs): the operations  *)
(* of a function are scanned in order, each giving a type to at most one   *)
(* Varnode that has none, and scanned again until a scan gives no type.    *)
(*                                                                         *)
(* Blocks and machine instructions only order the scan, so a function is   *)
(* the sequence of its operations.  The pass makes no type but pointers to *)
(* (pointers to ...) unsigned primitives: a type is the number of pointers *)
(* and the size of the primitive.  The entries taken out of the function   *)
(* at the start of a scan are put back at its end, so they stay where they *)
(* are here.  The variable scans is no part of the code: it counts what    *)
(* ScanBound bounds.                                                       *)
(***************************************************************************)
EXTENDS PCode, Sequences

CONSTANTS
  Varnodes,   \* the Varnodes operations can name
  Programs    \* the functions: sequences of operations

(* An operation never writes to a constant.                                *)
Place == {v \in Varnodes : v.space # "Constant"}

WellFormed(op) ==
  /\ op.op \in {"Load", "Store"} => op.addr \in Varnodes
  /\ op.op \in {"Load", "IntAdd", "IntSub", "Copy", "Phi"} => op.dest \in Place
  /\ op.op \in {"Store", "Copy"} => op.src \in Varnodes
  /\ op.op \in {"IntAdd", "IntSub"} => op.lhs \in Varnodes /\ op.rhs \in Varnodes
  /\ op.op = "Phi" => op.srcs \in Seq(Varnodes)

ASSUME VarnodeAssumption == \A v \in Varnodes : v.size \in Nat

ASSUME ProgramAssumption ==
  \A c \in Programs : /\ Len(c) \in Nat
                      /\ \A j \in 1 .. Len(c) : WellFormed(c[j])

VARIABLES
  code,      \* the operations of the function; never changes
  types,     \* Function::types, from Varnode to type
  changed,   \* this scan has inferred something
  k,         \* the next operation of the scan
  pc,        \* "scan" or "done"
  scans      \* the scans begun

vars == <<code, types, changed, k, pc, scans>>

-----------------------------------------------------------------------------
(* Types, and what the map says of a Varnode.                              *)

Primitive(size) == [pointers |-> 0, size |-> size]
PointerTo(t) == [t EXCEPT !.pointers = @ + 1]

Typed(v) == v \in DOMAIN types
IsPointer(v) == Typed(v) /\ types[v].pointers > 0
TypeOrPrimitive(v) == IF Typed(v) THEN types[v] ELSE Primitive(v.size)

(* What a load or a store moves to or from its address.                    *)
Accessed(op) == IF op.op = "Load" THEN op.dest ELSE op.src

(* What an operation can add to the map as it stands.                      *)

(* Fault of AccessInfers: constants are typed too.                         *)
AccessInfersConstants(op) == op.op \in {"Load", "Store"} /\ ~ Typed(op.addr)

AccessInfers(op) ==
  op.op \in {"Load", "Store"} /\ ~ Typed(op.addr) /\ op.addr.space # "Constant"

ArithmeticInfers(op) ==
  /\ op.op \in {"IntAdd", "IntSub"}
  /\ IsPointer(op.lhs) \/ IsPointer(op.rhs)
  /\ ~ Typed(op.dest)

(* Fault of CopyInfers: the destination may have a type already.           *)
CopyInfersAgain(op) == op.op = "Copy" /\ Typed(op.src)

CopyInfers(op) == op.op = "Copy" /\ Typed(op.src) /\ ~ Typed(op.dest)

PhiInfers(op) ==
  /\ op.op = "Phi"
  /\ \E m \in 1 .. Len(op.srcs) : Typed(op.srcs[m])
  /\ ~ Typed(op.dest)

Infers(op) == AccessInfers(op) \/ ArithmeticInfers(op) \/ CopyInfers(op) \/ PhiInfers(op)

-----------------------------------------------------------------------------
(* The scan.                                                               *)

Init ==
  /\ code \in Programs
  /\ types = [v \in {} |-> Primitive(0)]
  /\ changed = FALSE
  /\ k = 1
  /\ pc = "scan"
  /\ scans = 1

Insert(v, t) ==
  /\ types' = [u \in DOMAIN types \union {v} |-> IF u = v THEN t ELSE types[u]]
  /\ changed' = TRUE
  /\ k' = k + 1
  /\ UNCHANGED <<code, pc, scans>>

Scanning == pc = "scan" /\ k <= Len(code)

(* Fault of InferAccess: what is accessed is typed with its address.       *)
InferAccessBoth ==
  /\ Scanning
  /\ AccessInfers(code[k])
  /\ LET op == code[k]
         t  == TypeOrPrimitive(Accessed(op))
     IN  types' = [u \in DOMAIN types \union {op.addr, Accessed(op)} |->
                     IF u = op.addr THEN PointerTo(t)
                     ELSE IF u = Accessed(op) THEN t ELSE types[u]]
  /\ changed' = TRUE
  /\ k' = k + 1
  /\ UNCHANGED <<code, pc, scans>>

(* An address points to what is loaded from it or stored at it, as far as  *)
(* that has a type now.                                                    *)
InferAccess ==
  /\ Scanning
  /\ AccessInfers(code[k])
  /\ Insert(code[k].addr, PointerTo(TypeOrPrimitive(Accessed(code[k]))))

(* A sum or difference is a pointer if an operand is, the left one first.  *)
InferArithmetic ==
  /\ Scanning
  /\ ArithmeticInfers(code[k])
  /\ LET op == code[k]
     IN  Insert(op.dest, IF IsPointer(op.lhs) THEN types[op.lhs] ELSE types[op.rhs])

InferCopy ==
  /\ Scanning
  /\ CopyInfers(code[k])
  /\ Insert(code[k].dest, types[code[k].src])

(* The first source that has a type decides.                               *)
InferPhi ==
  /\ Scanning
  /\ PhiInfers(code[k])
  /\ LET srcs == code[k].srcs
     IN  \E m \in 1 .. Len(srcs) :
           /\ Typed(srcs[m]) /\ \A l \in 1 .. m - 1 : ~ Typed(srcs[l])
           /\ Insert(code[k].dest, types[srcs[m]])

(* Faults of InferNothing: what earlier operations of the scan changed is  *)
(* forgotten; having nothing to infer counts as a change.                  *)
InferNothingForgetting ==
  /\ Scanning
  /\ ~ Infers(code[k])
  /\ changed' = FALSE
  /\ k' = k + 1
  /\ UNCHANGED <<code, types, pc, scans>>

InferNothingChanged ==
  /\ Scanning
  /\ ~ Infers(code[k])
  /\ changed' = TRUE
  /\ k' = k + 1
  /\ UNCHANGED <<code, types, pc, scans>>

InferNothing ==
  /\ Scanning
  /\ ~ Infers(code[k])
  /\ k' = k + 1
  /\ UNCHANGED <<code, types, changed, pc, scans>>

ScanAgain ==
  /\ pc = "scan" /\ k > Len(code)
  /\ changed
  /\ changed' = FALSE
  /\ k' = 1
  /\ scans' = scans + 1
  /\ UNCHANGED <<code, types, pc>>

Finish ==
  /\ pc = "scan" /\ k > Len(code)
  /\ ~ changed
  /\ pc' = "done"
  /\ UNCHANGED <<code, types, changed, k, scans>>

Done == pc = "done"

Step ==
  \/ InferAccess \/ InferArithmetic \/ InferCopy \/ InferPhi \/ InferNothing
  \/ ScanAgain \/ Finish

Next == Step \/ (Done /\ UNCHANGED vars)

Spec == Init /\ [][Next]_vars

-----------------------------------------------------------------------------
(* Properties.                                                             *)

(* Types of the variables: only places are typed, and only with pointers.  *)
TypeOK ==
  /\ DOMAIN types \subseteq Place
  /\ types \in [DOMAIN types -> [pointers : Nat \ {0}, size : Nat]]
  /\ changed \in BOOLEAN
  /\ k \in 1 .. Len(code) + 1
  /\ pc \in {"scan", "done"}
  /\ scans \in Nat \ {0}

(* The Varnodes whose type an operation passes on to its destination.      *)
Sources(op) ==
  CASE op.op \in {"IntAdd", "IntSub"} -> {op.lhs, op.rhs}
    [] op.op = "Copy" -> {op.src}
    [] op.op = "Phi" -> {op.srcs[m] : m \in 1 .. Len(op.srcs)}
    [] OTHER -> {}

(* S holds every address that is accessed, and with a Varnode whatever its *)
(* type is passed on to.                                                   *)
Closed(S) ==
  \A j \in 1 .. Len(code) :
    /\ code[j].op \in {"Load", "Store"} /\ code[j].addr.space # "Constant" => code[j].addr \in S
    /\ Sources(code[j]) \intersect S # {} => code[j].dest \in S

(* The pass ends only when no operation has anything to add: an address or *)
(* a destination left without a type is one that nothing says anything     *)
(* about, though each scan reads the map while it is being written         *)
(* (type_inference.rs:17-35, "until a fixed point is reached").            *)
ClosedWhenDone == Done => Closed(DOMAIN types)

(* A Varnode is typed only if it must be: every set closed under the rules *)
(* holds it.  With ClosedWhenDone, which Varnodes have a type in the end   *)
(* depends neither on the order of the blocks nor on the scans, and no     *)
(* type is conjured up by operations that justify each other               *)
(* (type_inference.rs:39-100).                                             *)
OnlyForced == \A S \in SUBSET Varnodes : Closed(S) => DOMAIN types \subseteq S

(* op asks for type t of v, by the types its operands have now.           *)
Supports(op, v, t) ==
  \/ /\ op.op \in {"Load", "Store"} /\ op.addr = v
     /\ t \in {PointerTo(Primitive(Accessed(op).size)),
               PointerTo(TypeOrPrimitive(Accessed(op)))}
  \/ /\ \E u \in Sources(op) : Typed(u) /\ t = types[u]
     /\ op.dest = v

(* Every entry is still what some operation of the function asks for: an   *)
(* entry that was copied is never left behind by a change of the one it    *)
(* was copied from (type_inference.rs:45, 50-97: an entry is written only  *)
(* where there is none).                                                   *)
TypesSupported ==
  \A v \in DOMAIN types : \E j \in 1 .. Len(code) : Supports(code[j], v, types[v])

(* The pass terminates: it scans at most once for each operation and once  *)
(* more, whatever the operations feed to each other (type_inference.rs:20).*)
ScanBound == scans <= Len(code) + 1

=============================================================================
