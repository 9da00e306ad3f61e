----------------------------- MODULE MCDataflow -----------------------------
(***************************************************************************)
(* The dataflow engine running constant propagation of one register over   *)
(* every control flow graph of N blocks that connect_edges can produce.    *)
(***************************************************************************)
EXTENDS Dataflow, ConstLattice

(* The ascending sequence of a set of blocks.                              *)
Ascending(S) == SelectSeq([i \in 1 .. N |-> i], LAMBDA b : b \in S)

(* The successor sets connect_edges can give block b: none (a return, an   *)
(* unresolved jump), one target, or a target and the fallthrough.          *)
Successors(b) ==
  {{}} \union {{t} : t \in Block}
       \union (IF b < N THEN {{t, b + 1} : t \in Block} ELSE {})

Edges == {s \in [Block -> SUBSET Block] : \A b \in Block : s[b] \in Successors(b)}

MCGraphs ==
  { [successors   |-> [a \in Block |-> Ascending(s[a])],
     predecessors |-> [b \in Block |-> Ascending({a \in Block : b \in s[a]})]]
    : s \in Edges }

x == Register(0, 1)
MCTracked == {x}

(* Bodies: x := 1, x := x + 1 and x := an unwritten register (an explicit  *)
(* Top).                                                                   *)
SetOne == <<Copy(x, Constant(1, 1))>>
Increment == <<Binary("IntAdd", x, x, Constant(1, 1))>>
CopyUnwritten == <<Copy(x, Register(1, 1))>>

MCCode == {SetOne, Increment, CopyUnwritten}

-----------------------------------------------------------------------------
(* The analysis as tables, so that each entry is computed once.            *)
MCState == ConstState
MCTop == TopState
MergeTable == [p \in MCState \X MCState |-> MergeState(p[1], p[2])]
TransferTable ==
  [p \in MCCode \X MCState |-> TransferBlock(p[1], p[2])]
BelowTable == [p \in MCState \X MCState |-> BelowState(p[1], p[2])]
MCMerge(a, b) == MergeTable[a, b]
MCTransfer(c, s) == TransferTable[c, s]
MCBelow(a, b) == BelowTable[a, b]

=============================================================================
