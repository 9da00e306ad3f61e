-------------------------------- MODULE Cfg --------------------------------
(***************************************************************************)
(* Control flow graph construction (analysis-passes/src/cfg.rs): the flat  *)
(* stream of lifted instructions is split into basic blocks at its         *)
(* leaders, and each block is connected to the blocks its last instruction *)
(* can transfer control to.                                                *)
(*                                                                         *)
(* Every loop of the builder takes one step per element.  A block's        *)
(* instructions are the indices, in the stream, of the instructions cloned *)
(* into it; the sorted, duplicate-free address lists successors and        *)
(* predecessors are sets.                                                  *)
(***************************************************************************)
EXTENDS LiftedCode

CONSTANT Streams   \* the streams a decoder can produce

ASSUME StreamAssumption == \A s \in Streams : s \in Seq(Elements(s)) /\ Stream(s)

VARIABLES
  flat,          \* the instructions of the function, in program order
  pc,            \* "leaders", "split", "edges", "reverse" or "done"
  i,             \* the next instruction (leaders, split) or block (edges,
                 \* reverse)
  leaders,       \* the addresses that start a block
  blocks,        \* the blocks: start_address and instructions
  successors,    \* of each block connected so far, block start addresses
  predecessors,  \* of each block, block start addresses
  index          \* Function::block_index, from address to block

vars == <<flat, pc, i, leaders, blocks, successors, predecessors, index>>

-----------------------------------------------------------------------------
(* What the builder reads off an instruction.                              *)

(* The absolute addresses it branches to.                                  *)
Targets(li) ==
  {op.target.address : op \in
     {o \in Elements(li.ops) : /\ o.op \in {"Branch", "CBranch"}
                               /\ o.target.kind = "Absolute"}}

(* It ends its block; a call does not.                                     *)
IsTerminator(li) == \E op \in Elements(li.ops) : IsControl(op)

(* Fault of FallsThrough: a conditional branch does not fall through.      *)
FallsThroughUnlessControl(li) == ~ IsTerminator(li)

(* Control can go on to the instruction that follows.                      *)
FallsThrough(li) ==
  ~ IsTerminator(li) \/ \E op \in Elements(li.ops) : op.op = "CBranch"

Starts == {blocks[b].start_address : b \in 1 .. Len(blocks)}

Last(block) == flat[block.instructions[Len(block.instructions)]]

(* The edges out of block b, to the blocks that exist.                     *)
EdgesOf(b) ==
  (Targets(Last(blocks[b])) \intersect Starts)
    \union (IF FallsThrough(Last(blocks[b])) /\ b < Len(blocks)
            THEN {blocks[b + 1].start_address} ELSE {})

(* The address of each block, to its position; the last block wins.        *)
IndexOf(bs) ==
  [a \in {bs[b].start_address : b \in 1 .. Len(bs)} |->
     CHOOSE b \in 1 .. Len(bs) :
       /\ bs[b].start_address = a
       /\ \A c \in 1 .. Len(bs) : bs[c].start_address = a => c <= b]

-----------------------------------------------------------------------------
(* The builder.                                                            *)

NoIndex == [a \in {} |-> 0]

(* A function without instructions is left without blocks; otherwise the   *)
(* entry, which is where decoding began, is the first leader.              *)
Init ==
  /\ flat \in Streams
  /\ pc = IF flat = <<>> THEN "done" ELSE "leaders"
  /\ i = 1
  /\ leaders = IF flat = <<>> THEN {} ELSE {flat[1].address}
  /\ blocks = <<>>
  /\ successors = <<>>
  /\ predecessors = <<>>
  /\ index = NoIndex

(* Faults of FindLeader: branch targets are no leaders; the byte after a   *)
(* terminator is taken for the next instruction.                           *)
FindLeaderWithoutTargets ==
  /\ pc = "leaders"
  /\ i <= Len(flat)
  /\ leaders' = leaders \union (IF IsTerminator(flat[i]) /\ i < Len(flat)
                                THEN {flat[i + 1].address} ELSE {})
  /\ i' = i + 1
  /\ UNCHANGED <<flat, pc, blocks, successors, predecessors, index>>

FindLeaderAtNextByte ==
  /\ pc = "leaders"
  /\ i <= Len(flat)
  /\ leaders' = leaders \union Targets(flat[i])
                  \union (IF IsTerminator(flat[i]) THEN {flat[i].address + 1} ELSE {})
  /\ i' = i + 1
  /\ UNCHANGED <<flat, pc, blocks, successors, predecessors, index>>

(* A branch target is a leader, and so is whatever follows a terminator.   *)
FindLeader ==
  /\ pc = "leaders"
  /\ i <= Len(flat)
  /\ leaders' = leaders \union Targets(flat[i])
                  \union (IF IsTerminator(flat[i]) /\ i < Len(flat)
                          THEN {flat[i + 1].address} ELSE {})
  /\ i' = i + 1
  /\ UNCHANGED <<flat, pc, blocks, successors, predecessors, index>>

EndLeaders ==
  /\ pc = "leaders"
  /\ i > Len(flat)
  /\ pc' = "split"
  /\ i' = 1
  /\ UNCHANGED <<flat, leaders, blocks, successors, predecessors, index>>

(* Fault of OpenBlock: the leader is not put into its block.               *)
OpenEmptyBlock ==
  /\ pc = "split"
  /\ i <= Len(flat)
  /\ flat[i].address \in leaders \/ blocks = <<>>
  /\ blocks' = Append(blocks, [start_address |-> flat[i].address, instructions |-> <<>>])
  /\ i' = i + 1
  /\ UNCHANGED <<flat, pc, leaders, successors, predecessors, index>>

(* The next instruction opens a block, or joins the block that is open.    *)
OpenBlock ==
  /\ pc = "split"
  /\ i <= Len(flat)
  /\ flat[i].address \in leaders \/ blocks = <<>>
  /\ blocks' = Append(blocks, [start_address |-> flat[i].address,
                               instructions |-> <<i>>])
  /\ i' = i + 1
  /\ UNCHANGED <<flat, pc, leaders, successors, predecessors, index>>

ExtendBlock ==
  /\ pc = "split"
  /\ i <= Len(flat)
  /\ flat[i].address \notin leaders /\ blocks # <<>>
  /\ blocks' = [blocks EXCEPT ![Len(blocks)].instructions = Append(@, i)]
  /\ i' = i + 1
  /\ UNCHANGED <<flat, pc, leaders, successors, predecessors, index>>

EndSplit ==
  /\ pc = "split"
  /\ i > Len(flat)
  /\ pc' = "edges"
  /\ i' = 1
  /\ UNCHANGED <<flat, leaders, blocks, successors, predecessors, index>>

(* Examine the terminator of the next block.                               *)
ConnectBlock ==
  /\ pc = "edges"
  /\ i <= Len(blocks)
  /\ successors' = Append(successors, EdgesOf(i))
  /\ i' = i + 1
  /\ UNCHANGED <<flat, pc, leaders, blocks, predecessors, index>>

EndEdges ==
  /\ pc = "edges"
  /\ i > Len(blocks)
  /\ pc' = "reverse"
  /\ i' = 1
  /\ predecessors' = [b \in 1 .. Len(blocks) |-> {}]
  /\ UNCHANGED <<flat, leaders, blocks, successors, index>>

(* Fault of ReverseEdges: the last predecessor replaces the others.        *)
ReverseLastEdge ==
  /\ pc = "reverse"
  /\ i <= Len(blocks)
  /\ predecessors' =
       [b \in 1 .. Len(blocks) |->
          IF blocks[b].start_address \in successors[i]
          THEN {blocks[i].start_address} ELSE predecessors[b]]
  /\ i' = i + 1
  /\ UNCHANGED <<flat, pc, leaders, blocks, successors, index>>

(* The next block is a predecessor of each of its successors.              *)
ReverseEdges ==
  /\ pc = "reverse"
  /\ i <= Len(blocks)
  /\ predecessors' =
       [b \in 1 .. Len(blocks) |->
          IF blocks[b].start_address \in successors[i]
          THEN predecessors[b] \union {blocks[i].start_address}
          ELSE predecessors[b]]
  /\ i' = i + 1
  /\ UNCHANGED <<flat, pc, leaders, blocks, successors, index>>

(* Fault of Install: the index is not rebuilt.                             *)
InstallStaleIndex ==
  /\ pc = "reverse"
  /\ i > Len(blocks)
  /\ pc' = "done"
  /\ UNCHANGED <<flat, i, leaders, blocks, successors, predecessors, index>>

(* The graph is complete: it becomes the function's, and the index is      *)
(* rebuilt from it.                                                        *)
Install ==
  /\ pc = "reverse"
  /\ i > Len(blocks)
  /\ pc' = "done"
  /\ index' = IndexOf(blocks)
  /\ UNCHANGED <<flat, i, leaders, blocks, successors, predecessors>>

Step ==
  \/ FindLeader \/ EndLeaders
  \/ OpenBlock \/ ExtendBlock \/ EndSplit
  \/ ConnectBlock \/ EndEdges
  \/ ReverseEdges \/ Install

Done == pc = "done"

Next == Step \/ (Done /\ UNCHANGED vars)

Spec == Init /\ [][Next]_vars

-----------------------------------------------------------------------------
(* Properties.                                                             *)

Blocks == 1 .. Len(blocks)
Positions(b) == 1 .. Len(blocks[b].instructions)

(* Types of the variables.                                                 *)
TypeOK ==
  /\ pc \in {"leaders", "split", "edges", "reverse", "done"}
  /\ i \in Nat \ {0}
  /\ leaders \subseteq Address
  /\ blocks \in Seq([start_address : Address, instructions : Seq(1 .. Len(flat))])
  /\ successors \in Seq(SUBSET Address)
  /\ predecessors \in Seq(SUBSET Address)

(* The blocks, one after the other, are the stream up to the instruction   *)
(* being split: nothing is lost, duplicated or moved, no block is empty,   *)
(* and each is named by its first instruction (cfg.rs:115-130,             *)
(* "preserving program order").                                            *)
Partition ==
  /\ \A b \in Blocks :
       /\ blocks[b].instructions # <<>>
       /\ blocks[b].start_address = flat[blocks[b].instructions[1]].address
       /\ \A j \in Positions(b) :
            blocks[b].instructions[j] = blocks[b].instructions[1] + j - 1
  /\ blocks # <<>> => blocks[1].instructions[1] = 1
  /\ \A b \in Blocks :
       blocks[b].instructions[1] + Len(blocks[b].instructions) =
         IF b < Len(blocks) THEN blocks[b + 1].instructions[1]
         ELSE IF pc = "split" THEN i ELSE Len(flat) + 1
  /\ pc \notin {"leaders", "split"} => (blocks = <<>> <=> flat = <<>>)

(* Control enters a block only at its first instruction and leaves it only *)
(* at its last: no branch of the function, before or after the block in    *)
(* the stream, targets the inside of a block, and no terminator stands     *)
(* before its end (types.rs:19, "a straight-line sequence of lifted        *)
(* instructions with a single entry").                                     *)
StraightLine ==
  \A b \in Blocks : \A j \in Positions(b) :
    LET m == blocks[b].instructions[j]
    IN  /\ j > 1 => \A li \in Elements(flat) : flat[m].address \notin Targets(li)
        /\ j < Len(blocks[b].instructions) => ~ IsTerminator(flat[m])

(* Instruction m can be executed right after instruction j of the stream.  *)
Flows(j, m) ==
  \/ \E op \in Elements(flat[j].ops) :
       op.op \in {"Branch", "CBranch"} /\ op.target = Absolute(flat[m].address)
  \/ m = j + 1 /\ \A op \in Elements(flat[j].ops) : op.op \notin {"Branch", "Return"}

(* The edges of the finished graph are exactly the transfers of control    *)
(* between instructions: from the last instruction of a block to the first *)
(* of another, never one too many and none missing, including branches to  *)
(* addresses where no instruction starts, to the branch's own block and to *)
(* the next one (cfg.rs:132-191, types.rs:33-35).                          *)
EdgesAreFlow ==
  pc \in {"reverse", "done"} =>
    \A b, c \in Blocks :
      LET last == blocks[b].instructions[Len(blocks[b].instructions)]
      IN  blocks[c].start_address \in successors[b]
            <=> Flows(last, blocks[c].instructions[1])

(* An edge leads to a block of the function, and predecessors are the      *)
(* reverse of successors (types.rs:33-38, "kept symmetric with             *)
(* successors"): what the dataflow engine takes for granted.               *)
Symmetric ==
  Done =>
    /\ \A b \in Blocks : successors[b] \union predecessors[b] \subseteq Starts
    /\ \A b, c \in Blocks :
         blocks[c].start_address \in successors[b]
           <=> blocks[b].start_address \in predecessors[c]

(* block_at finds, for every edge, the block it leads to and no other      *)
(* (types.rs:112-124); block_index is never stale.                         *)
IndexAgrees ==
  Done =>
    /\ DOMAIN index = Starts
    /\ \A b \in Blocks : index[blocks[b].start_address] = b

=============================================================================
