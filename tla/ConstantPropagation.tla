------------------------- MODULE ConstantPropagation -------------------------
(***************************************************************************)
(* The constant propagation pass (constant_propagation.rs): solve the      *)
(* dataflow equations of the const lattice, then walk every block and      *)
(* replace operands that are known constants, folding an instruction whose *)
(* two operands are known into a copy of its result.                       *)
(*                                                                         *)
(* The pass is followed by a run of the function it has rewritten, next to *)
(* a run of the function as it was: what the analysis claims is compared   *)
(* with the values a machine really computes along every path of the       *)
(* control flow graph.                                                     *)
(***************************************************************************)
EXTENDS ConstLattice, Machine

CONSTANTS
  N,       \* number of blocks
  Graphs,  \* control flow graphs, as in module Dataflow
  Code     \* bodies: sequences of instructions

VARIABLES
  graph, code, queue, queued, block_in, block_out, pc, addr, acc, k,
           \* the solver (module Dataflow)
  phase,   \* "solve", "rewrite", "run"
  pass,    \* how many times the pass has been started
  b,       \* the block being rewritten, N + 1 when all are
  i,       \* the instruction being rewritten
  state,   \* the running state of the walk, before instruction i of block b
  facts,   \* the state before each instruction visited (instruction_states)
  folded,  \* the rewritten bodies
  before,  \* registers of the machine running the original function
  after,   \* registers of the machine running the rewritten function
  assigned \* registers whose value comes from instructions of the function only

Solver == INSTANCE Dataflow
            WITH State <- ConstState, Top <- TopState, Merge <- MergeState,
                 Transfer <- TransferBlock, Below <- BelowState

Block == 1 .. N

(* The pass leaves a function without blocks alone, and lifted code        *)
(* consists of lifted instructions.                                        *)
Instructions == UNION {{c[j] : j \in DOMAIN c} : c \in Code}

ASSUME NAssumption == N \in Nat \ {0}
ASSUME GraphAssumption == Solver!GraphAssumption
ASSUME CodeAssumption ==
  Code \subseteq Seq(Instructions) /\ \A op \in Instructions : LiftedOp(op)

solving == <<graph, code, queue, queued, block_in, block_out, pc, addr, acc, k>>
walking == <<b, i, state, facts, folded>>
running == <<before, after, assigned>>
vars == <<solving, phase, pass, walking, running>>

-----------------------------------------------------------------------------
(* Rewriting one instruction.                                              *)

Known(vn, s) == Get(s, vn).kind = "Const"

(* Only uses are substituted, never a definition.                          *)
Substitute(vn, s) ==
  IF vn.space # "Constant" /\ Known(vn, s)
  THEN Constant(Get(s, vn).value, vn.size)
  ELSE vn

(* Fault of Fold: the operands are swapped.                                *)
FoldSwapped(op, s) ==
  Copy(op.dest,
       Constant(Compute(op, Get(s, op.rhs).value, Get(s, op.lhs).value),
                op.dest.size))

Fold(op, s) ==
  Copy(op.dest,
       Constant(Compute(op, Get(s, op.lhs).value, Get(s, op.rhs).value),
                op.dest.size))

SubstituteAndFold(op, s) ==
  CASE op.op = "Copy"  -> Copy(op.dest, Substitute(op.src, s))
    [] op.op = "Load"  -> Load(op.dest, Substitute(op.addr, s))
    [] op.op = "Store" -> Store(Substitute(op.addr, s), Substitute(op.src, s))
    [] op.op \in BinaryOps /\ Known(op.lhs, s) /\ Known(op.rhs, s) -> Fold(op, s)
    [] op.op \in BinaryOps /\ ~ (Known(op.lhs, s) /\ Known(op.rhs, s)) ->
         Binary(op.op, op.dest, Substitute(op.lhs, s), Substitute(op.rhs, s))
    [] op.op = "CBranch" -> CBranch(Substitute(op.condition, s), op.target)
    [] op.op = "Phi" ->
         Phi(op.dest, [j \in DOMAIN op.srcs |-> Substitute(op.srcs[j], s)])
    [] OTHER -> op

-----------------------------------------------------------------------------
(* The pass.                                                               *)

NoFacts == [c \in Block |-> <<>>]

Init ==
  /\ Solver!Init
  /\ phase = "solve"
  /\ pass = 1
  /\ b = 1 /\ i = 1 /\ state = TopState
  /\ facts = NoFacts /\ folded = NoFacts
  /\ before = [vn \in Tracked |-> 0]
  /\ after = before
  /\ assigned = {}

Solve ==
  /\ phase = "solve"
  /\ Solver!Step
  /\ UNCHANGED <<phase, pass, walking, running>>

(* The solver has returned: start the walk at the first block.             *)
StartRewrite ==
  /\ phase = "solve"
  /\ Solver!Done
  /\ phase' = "rewrite"
  /\ b' = 1 /\ i' = 1
  /\ state' = block_in[1]
  /\ facts' = NoFacts /\ folded' = NoFacts
  /\ UNCHANGED <<solving, pass, running>>

(* Fault of RewriteInstruction: the state is advanced before the           *)
(* instruction is rewritten.                                               *)
AdvanceThenRewrite ==
  /\ phase = "rewrite"
  /\ b <= N /\ i <= Len(code[b])
  /\ state' = TransferInstruction(code[b][i], state)
  /\ folded' = [folded EXCEPT ![b] = Append(@, SubstituteAndFold(code[b][i], state'))]
  /\ facts' = [facts EXCEPT ![b] = Append(@, state')]
  /\ i' = i + 1
  /\ UNCHANGED <<solving, phase, pass, b, running>>

(* One instruction: rewrite it for the running state, then advance the     *)
(* state with the original instruction.                                    *)
RewriteInstruction ==
  /\ phase = "rewrite"
  /\ b <= N /\ i <= Len(code[b])
  /\ LET op == code[b][i]
     IN  /\ folded' = [folded EXCEPT ![b] = Append(@, SubstituteAndFold(op, state))]
         /\ facts' = [facts EXCEPT ![b] = Append(@, state)]
         /\ state' = TransferInstruction(op, state)
  /\ i' = i + 1
  /\ UNCHANGED <<solving, phase, pass, b, running>>

(* Fault of NextBlock: the running state is carried into the next block.   *)
NextBlockCarryingState ==
  /\ phase = "rewrite"
  /\ b <= N /\ i > Len(code[b])
  /\ b' = b + 1 /\ i' = 1
  /\ UNCHANGED <<solving, phase, pass, state, facts, folded, running>>

(* The next block starts from its own IN.                                  *)
NextBlock ==
  /\ phase = "rewrite"
  /\ b <= N /\ i > Len(code[b])
  /\ b' = b + 1 /\ i' = 1
  /\ state' = IF b < N THEN block_in[b + 1] ELSE state
  /\ UNCHANGED <<solving, phase, pass, facts, folded, running>>

Rewritten == phase = "rewrite" /\ b > N

(* The function is taken through the pass a second time.                   *)
RunAgain ==
  /\ Rewritten /\ pass = 1
  /\ pass' = 2
  /\ phase' = "solve"
  /\ code' = folded
  /\ queue' = [j \in 1 .. N |-> j] /\ queued' = Block
  /\ block_in' = [c \in Block |-> TopState]
  /\ block_out' = [c \in Block |-> TopState]
  /\ pc' = "pop" /\ addr' = 1 /\ acc' = TopState /\ k' = 1
  /\ UNCHANGED <<graph, walking, running>>

-----------------------------------------------------------------------------
(* Running the function (module Machine).                                  *)

(* Both machines start at the first block, with the same unknown contents  *)
(* of the registers.                                                       *)
StartRun ==
  /\ Rewritten
  /\ pass = 1
  /\ phase' = "run"
  /\ b' = 1 /\ i' = 1
  /\ before' \in {r \in [Tracked -> Word] : \A vn \in Tracked : r[vn] \in Values(vn)}
  /\ after' = before'
  /\ UNCHANGED <<solving, pass, state, facts, folded, assigned>>

(* Both machines execute the instruction at the same place; a load finds   *)
(* any value that fits the destination.                                    *)
RunInstruction ==
  /\ phase = "run"
  /\ i <= Len(code[b])
  /\ LET op == code[b][i]
     IN  /\ \E loaded \in (IF op.op = "Load" THEN Values(op.dest) ELSE {0}) :
              /\ before' = Execute(op, before, loaded)
              /\ after' = Execute(folded[b][i], after, loaded)
         /\ assigned' =
              IF ~ Defines(op) THEN assigned
              ELSE IF Uses(op) \subseteq assigned THEN assigned \union {op.dest}
              ELSE assigned \ {op.dest}
  /\ i' = i + 1
  /\ UNCHANGED <<solving, phase, pass, b, state, facts, folded>>

(* Control goes along any edge of the graph.                               *)
RunEdge ==
  /\ phase = "run"
  /\ i > Len(code[b])
  /\ \E j \in 1 .. Len(graph.successors[b]) : b' = graph.successors[b][j]
  /\ i' = 1
  /\ UNCHANGED <<solving, phase, pass, state, facts, folded, running>>

(* The function has returned, or the second pass has.                      *)
Finished ==
  /\ \/ phase = "run" /\ i > Len(code[b]) /\ Len(graph.successors[b]) = 0
     \/ Rewritten /\ pass = 2
  /\ UNCHANGED vars

Next ==
  \/ Solve \/ StartRewrite \/ RewriteInstruction \/ NextBlock
  \/ RunAgain \/ StartRun \/ RunInstruction \/ RunEdge \/ Finished

Spec == Init /\ [][Next]_vars

-----------------------------------------------------------------------------
(* Properties.                                                             *)

TypeOK ==
  /\ pass = 1 => Solver!TypeOK
  /\ phase \in {"solve", "rewrite", "run"}
  /\ pass \in {1, 2}
  /\ b \in 1 .. N + 1
  /\ state \in ConstState
  /\ \A c \in Block : Len(folded[c]) = Len(facts[c])
  /\ \A vn \in Tracked : before[vn] \in Values(vn) /\ after[vn] \in Values(vn)
  /\ assigned \subseteq Tracked

AtInstruction == phase = "run" /\ i <= Len(code[b])

(* On every path the machine can take, what the analysis says of a         *)
(* register that the function has assigned is true: it is the value the    *)
(* register holds, or "not a constant", never another constant and never   *)
(* "no information" (constant_propagation.rs:1-21).                        *)
AssignedClaimsHold ==
  AtInstruction =>
    \A vn \in assigned :
      Get(facts[b][i], vn) \in {NotConstant, Const(before[vn])}

(* The same of every register, assigned by the function or not: "which     *)
(* Varnodes are provably a single known constant"                          *)
(* (constant_propagation.rs:3-4).                                          *)
ClaimsHold ==
  AtInstruction =>
    \A vn \in Tracked :
      Known(vn, facts[b][i]) => Get(facts[b][i], vn) = Const(before[vn])

(* The operands through which an instruction acts on more than registers:  *)
(* what it branches on, where it reads and where and what it writes.       *)
Observed(op) ==
  CASE op.op = "CBranch" -> <<op.condition>>
    [] op.op = "Load"    -> <<op.addr>>
    [] op.op = "Store"   -> <<op.addr, op.src>>
    [] OTHER             -> <<>>

(* Substituting and folding leave the function computing what it computed: *)
(* the assigned registers of both machines agree at every step of every    *)
(* path, and so do the condition every branch tests, the address of every  *)
(* access and the value of every store (constant_propagation.rs:246-268).  *)
SameBehaviour ==
  phase = "run" =>
    /\ \A vn \in assigned : before[vn] = after[vn]
    /\ AtInstruction =>
         LET seen == Observed(code[b][i])
             seen_after == Observed(folded[b][i])
         IN  /\ Len(seen_after) = Len(seen)
             /\ \A j \in 1 .. Len(seen) :
                  seen[j] \in assigned \/ seen[j].space = "Constant"
                    => Value(seen_after[j], after) = Value(seen[j], before)

(* "Advance the running state using the original op -- semantically        *)
(* identical to using the rewritten one" (constant_propagation.rs:259-262):*)
(* whatever was rewritten has the same effect on the state it was          *)
(* rewritten for.                                                          *)
RewriteKeepsTransfer ==
  phase = "rewrite" =>
    \A c \in Block : \A j \in DOMAIN folded[c] :
      TransferInstruction(folded[c][j], facts[c][j])
        = TransferInstruction(code[c][j], facts[c][j])

(* The walk of a block, instruction by instruction, ends in the OUT the    *)
(* solver computed for it: the facts used for rewriting belong to the      *)
(* solution (dataflow.rs:117-139).                                         *)
WalkEndsInOut ==
  phase = "rewrite" /\ b <= N /\ i > Len(code[b]) => state = block_out[b]

(* Propagating a second time finds nothing the first pass left behind:     *)
(* what has been folded gives no new constants.                            *)
SecondPassIdle == Rewritten /\ pass = 2 => folded = code

=============================================================================
