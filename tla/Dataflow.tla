------------------------------ MODULE Dataflow ------------------------------
(***************************************************************************)
(* The forward dataflow engine (analysis-passes/src/dataflow.rs):          *)
(* solve_forward, a FIFO worklist over the blocks of a function that       *)
(* recomputes a block's IN from its predecessors' OUT, its OUT from its    *)
(* IN, and queues its successors when its OUT changed.                     *)
(*                                                                         *)
(* The lattice and the transfer functions are parameters, as they are of   *)
(* the Rust function.  CfgBuilder leaves the blocks in ascending address   *)
(* order (module Cfg), so a block is named here by its rank in that order. *)
(*                                                                         *)
(* The two inner loops (over predecessors, over successors) take one step  *)
(* per element, so that what each pass of a loop preserves can be stated   *)
(* and proved; nothing else runs between two steps, the engine being       *)
(* sequential.                                                             *)
(***************************************************************************)
EXTENDS Naturals, Sequences

CONSTANTS
  N,               \* number of blocks of the function
  Graphs,          \* the control flow graphs: records with successors and
                   \* predecessors, a sequence of blocks for each block
  Code,            \* the bodies a block can have
  State,           \* the abstract states of the analysis
  Top,             \* Lattice::top, "no information yet"
  Merge(_, _),     \* Lattice::merge
  Transfer(_, _),  \* transfer_block: OUT of a body for a given IN
  Below(_, _)      \* Below(a, b): a holds at most the precision of b ("down
                   \* the lattice"); a preorder: two representations of one
                   \* value may be below each other

Block == 1 .. N

ASSUME NAssumption == N \in Nat

(* Predecessors are the reverse of successors: "Kept symmetric with        *)
(* successors by whatever pass populates them" (types.rs:36-38).           *)
ASSUME GraphAssumption ==
  \A g \in Graphs :
    /\ g.successors \in [Block -> Seq(Block)]
    /\ g.predecessors \in [Block -> Seq(Block)]
    /\ \A a, b \in Block :
         (\E i \in 1 .. Len(g.successors[a]) : g.successors[a][i] = b)
           <=> (\E i \in 1 .. Len(g.predecessors[b]) : g.predecessors[b][i] = a)

(* The laws the documentation of trait Lattice asks of an implementation   *)
(* (dataflow.rs:27-31), stated for the order merge induces: it yields the  *)
(* greatest state below both, and Top is above every state.                *)
ASSUME LatticeAssumption ==
  /\ Top \in State
  /\ \A a \in State : Below(a, a) /\ Below(a, Top)
  /\ \A a, b, c \in State : Below(a, b) /\ Below(b, c) => Below(a, c)
  /\ \A a, b \in State :
       /\ Merge(a, b) \in State
       /\ Below(Merge(a, b), a)
       /\ Below(Merge(a, b), b)
       /\ \A l \in State : Below(l, a) /\ Below(l, b) => Below(l, Merge(a, b))

(* The transfer functions are monotone, the standing requirement of the    *)
(* monotone framework the module names (dataflow.rs:1-4).                  *)
ASSUME TransferAssumption ==
  \A c \in Code :
    /\ \A s \in State : Transfer(c, s) \in State
    /\ \A s, t \in State : Below(s, t) => Below(Transfer(c, s), Transfer(c, t))

VARIABLES
  graph,      \* successors and predecessors; never changes
  code,       \* the body of each block; never changes
  queue,      \* the worklist, first element popped first
  queued,     \* the blocks in the worklist
  block_in,   \* IN of each block; Top until the block is first visited
  block_out,  \* OUT of each block
  pc,         \* "pop", "merge" (the predecessor loop) or "push" (successors)
  addr,       \* the block being processed
  acc,        \* the merge of the predecessors visited so far
  k           \* index of the next predecessor or successor

vars == <<graph, code, queue, queued, block_in, block_out, pc, addr, acc, k>>

Init ==
  /\ graph \in Graphs
  /\ code \in [Block -> Code]
  /\ queue = [i \in 1 .. N |-> i]
  /\ queued = Block
  /\ block_in = [b \in Block |-> Top]
  /\ block_out = [b \in Block |-> Top]
  /\ pc = "pop"
  /\ addr = 1
  /\ acc = Top
  /\ k = 1

(* Faults of PopFront: the index starts at zero, the accumulator is not    *)
(* reset.                                                                  *)
PopFrontFromZero ==
  /\ pc = "pop"
  /\ queue # <<>>
  /\ addr' = Head(queue)
  /\ queue' = Tail(queue)
  /\ queued' = queued \ {Head(queue)}
  /\ acc' = Top
  /\ k' = 0
  /\ pc' = "merge"
  /\ UNCHANGED <<graph, code, block_in, block_out>>

PopFrontKeepingAcc ==
  /\ pc = "pop"
  /\ queue # <<>>
  /\ addr' = Head(queue)
  /\ queue' = Tail(queue)
  /\ queued' = queued \ {Head(queue)}
  /\ k' = 1
  /\ pc' = "merge"
  /\ UNCHANGED <<graph, code, block_in, block_out, acc>>

(* Take the next block off the worklist and start merging its predecessors.*)
(* A block without predecessors keeps acc = Top.                           *)
PopFront ==
  /\ pc = "pop"
  /\ queue # <<>>
  /\ addr' = Head(queue)
  /\ queue' = Tail(queue)
  /\ queued' = queued \ {Head(queue)}
  /\ acc' = Top
  /\ k' = 1
  /\ pc' = "merge"
  /\ UNCHANGED <<graph, code, block_in, block_out>>

(* Faults of MergePredecessor: only the first predecessor counts; those    *)
(* that wait to be visited again are left out.                             *)
MergeFirstOnly ==
  /\ pc = "merge"
  /\ k <= Len(graph.predecessors[addr])
  /\ acc' = IF k = 1 THEN block_out[graph.predecessors[addr][k]] ELSE acc
  /\ k' = k + 1
  /\ UNCHANGED <<graph, code, queue, queued, block_in, block_out, pc, addr>>

MergeSettledOnly ==
  /\ pc = "merge"
  /\ k <= Len(graph.predecessors[addr])
  /\ LET pred == graph.predecessors[addr][k]
     IN  acc' = IF pred \in queued THEN acc ELSE Merge(acc, block_out[pred])
  /\ k' = k + 1
  /\ UNCHANGED <<graph, code, queue, queued, block_in, block_out, pc, addr>>

(* One predecessor of merge_predecessor_states: the first one is taken as  *)
(* it is, the others are merged into the accumulator.                      *)
MergePredecessor ==
  /\ pc = "merge"
  /\ k <= Len(graph.predecessors[addr])
  /\ LET pred_out == block_out[graph.predecessors[addr][k]]
     IN  acc' = IF k = 1 THEN pred_out ELSE Merge(acc, pred_out)
  /\ k' = k + 1
  /\ UNCHANGED <<graph, code, queue, queued, block_in, block_out, pc, addr>>

(* All predecessors are merged: record IN and compute OUT.                 *)
Visit(out_state) ==
  /\ pc = "merge"
  /\ k > Len(graph.predecessors[addr])
  /\ out_state = Transfer(code[addr], acc)
  /\ block_in' = [block_in EXCEPT ![addr] = acc]
  /\ UNCHANGED <<graph, code, queue, queued, addr, acc>>

(* OUT changed: store it and go on to queue the successors.                *)
VisitChanged ==
  LET out_state == Transfer(code[addr], acc)
  IN  /\ Visit(out_state)
      /\ block_out[addr] # out_state
      /\ block_out' = [block_out EXCEPT ![addr] = out_state]
      /\ k' = 1
      /\ pc' = "push"

(* Fault of VisitUnchanged: the successors are queued all the same.        *)
VisitUnchangedPushing ==
  LET out_state == Transfer(code[addr], acc)
  IN  /\ Visit(out_state)
      /\ block_out[addr] = out_state
      /\ k' = 1
      /\ pc' = "push"
      /\ UNCHANGED block_out

(* OUT is what it was: nothing downstream has to be recomputed.            *)
VisitUnchanged ==
  LET out_state == Transfer(code[addr], acc)
  IN  /\ Visit(out_state)
      /\ block_out[addr] = out_state
      /\ pc' = "pop"
      /\ UNCHANGED <<block_out, k>>

(* Faults of PushSuccessor: a waiting block is queued again; a block that  *)
(* is its own successor is not queued.                                     *)
PushSuccessorAlways ==
  /\ pc = "push"
  /\ k <= Len(graph.successors[addr])
  /\ queue' = Append(queue, graph.successors[addr][k])
  /\ queued' = queued \union {graph.successors[addr][k]}
  /\ k' = k + 1
  /\ UNCHANGED <<graph, code, block_in, block_out, pc, addr, acc>>

PushSuccessorButSelf ==
  /\ pc = "push"
  /\ k <= Len(graph.successors[addr])
  /\ LET succ == graph.successors[addr][k]
     IN  /\ queue' = IF succ \in queued \union {addr} THEN queue ELSE Append(queue, succ)
         /\ queued' = queued \union ({succ} \ {addr})
  /\ k' = k + 1
  /\ UNCHANGED <<graph, code, block_in, block_out, pc, addr, acc>>

(* Queue one successor, unless it is in the worklist already.              *)
PushSuccessor ==
  /\ pc = "push"
  /\ k <= Len(graph.successors[addr])
  /\ LET succ == graph.successors[addr][k]
     IN  /\ queue' = IF succ \in queued THEN queue ELSE Append(queue, succ)
         /\ queued' = queued \union {succ}
  /\ k' = k + 1
  /\ UNCHANGED <<graph, code, block_in, block_out, pc, addr, acc>>

EndPush ==
  /\ pc = "push"
  /\ k > Len(graph.successors[addr])
  /\ pc' = "pop"
  /\ UNCHANGED <<graph, code, queue, queued, block_in, block_out, addr, acc, k>>

Done == pc = "pop" /\ queue = <<>>

(* The loop has ended and the result has been returned.                    *)
Returned == Done /\ UNCHANGED vars

Step ==
  \/ PopFront
  \/ MergePredecessor
  \/ VisitChanged
  \/ VisitUnchanged
  \/ PushSuccessor
  \/ EndPush

Next == Step \/ Returned

Spec == Init /\ [][Next]_vars

(* The engine is an ordinary loop: it takes its next step.                 *)
FairSpec == Spec /\ WF_vars(Step)

-----------------------------------------------------------------------------
(* Properties.                                                             *)

Elements(s) == {s[i] : i \in 1 .. Len(s)}

Abstract == INSTANCE ChaoticIteration WITH done <- Done

(* Types of the variables.                                                 *)
TypeOK ==
  /\ graph.successors \in [Block -> Seq(Block)]
  /\ graph.predecessors \in [Block -> Seq(Block)]
  /\ code \in [Block -> Code]
  /\ queue \in Seq(Block)
  /\ queued \in SUBSET Block
  /\ block_in \in [Block -> State]
  /\ block_out \in [Block -> State]
  /\ pc \in {"pop", "merge", "push"}
  /\ addr \in Nat
  /\ (pc # "pop") => addr \in Block
  /\ acc \in State
  /\ k \in Nat \ {0}

(* The set queued and the deque queue, updated separately at three places, *)
(* always agree, and no block waits twice: a block that left the set while *)
(* still in the deque would be solved twice, one that stayed in the set    *)
(* after it was popped would never be queued again (dataflow.rs:86-109).   *)
QueueMatchesSet ==
  /\ queued = Elements(queue)
  /\ \A i, j \in 1 .. Len(queue) : queue[i] = queue[j] => i = j

(* b is to be recomputed: it waits, it is being merged, or it is one of    *)
(* the successors the running loop has still to queue.                     *)
Pending(b) ==
  \/ b \in queued
  \/ pc = "merge" /\ b = addr
  \/ pc = "push" /\ \E i \in k .. Len(graph.successors[addr]) :
                       graph.successors[addr][i] = b

(* A block that is not waiting satisfies its equations for the OUT states  *)
(* of this very moment: no change of a predecessor after its last visit    *)
(* has been lost, whatever the order of visits, in loops and self-loops    *)
(* (dataflow.rs:103-111).                                                  *)
SolvedUnlessPending ==
  \A b \in Block :
    Pending(b) \/ Abstract!Solved(graph, code, block_in, block_out, b)

(* When solve_forward returns, the result is a solution of the equations   *)
(* of every block (dataflow.rs:65-68, "until nothing changes").            *)
FixpointWhenDone ==
  Done => Abstract!Fixpoint(graph, code, block_in, block_out)

(* X solves the dataflow equations, or claims less than they give.         *)
IsSolution(X) ==
  \A b \in Block :
    \E in \in State :
      /\ \A s \in Abstract!Incoming(graph, X, b) : Below(in, s)
      /\ Below(X[b], Transfer(code[b], in))

(* OUT is at or above every solution: no solution of the equations claims  *)
(* more.                                                                   *)
AboveEverySolution ==
  \A X \in [Block -> State] :
    IsSolution(X) => \A b \in Block : Below(X[b], block_out[b])

(* What solve_forward returns is the greatest solution: visiting blocks    *)
(* before their predecessors, and in the order the worklist happens to     *)
(* have, costs no precision (dataflow.rs:86-111).                          *)
GreatestWhenDone == Done => AboveEverySolution

(* No step moves an OUT state up the lattice (dataflow.rs:27-31: "can only *)
(* move a value down the lattice, never back up"): what makes the          *)
(* iteration end.                                                          *)
OnlyDescends ==
  [][\A b \in Block : Below(block_out'[b], block_out[b])]_vars

(* The worklist algorithm implements the iteration of the abstract         *)
(* specification: each visit of a block is one application of its          *)
(* equations to the OUT states of that moment, and it stops only at a      *)
(* fixpoint.                                                               *)
Refinement == Abstract!Spec

(* solve_forward returns (dataflow.rs:27-31: "guaranteed to terminate").   *)
Termination == <>Done

=============================================================================
