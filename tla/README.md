# A TLA+ model of decompiler-plus-plus

decompiler-plus-plus is a small multi-architecture decompiler written as a Rust
workspace. It decodes machine code, lifts it into a P-code-like intermediate
representation, runs analysis passes over that representation and prints C-like
pseudocode. This directory models the program from its bytes to the meaning of
the printed C in TLA+, checks it with TLC on small instances and proves its
central algorithms with TLAPS.

## 1. Inventory

The program is sequential: no threads, callbacks, messages, files that are
written or state that survives a run. What is hard in it are fixpoint iteration,
graph algorithms over arbitrary control flow graphs, derived data that must be
kept in step (an index, a queue and its set, predecessors and successors, a tree
that copies instructions), arithmetic at the ends of a width, and stages that
each assume what an earlier stage left behind.

| Component | State | Operations | Correct when |
|---|---|---|---|
| `ir-pcode` | Varnodes, instructions (values); the counter of an allocator | constructors, `TempAllocator::fresh` | equality and hashing agree; temporaries are unique in a function |
| `decompiler-core` | `Function`: blocks, types, tree, address index | `rebuild_index`, `block_at` | the index finds the block of every address |
| `arch-x86`, `arch-arm` | none | `disassemble_one`, `lift` | the lifted instructions mean what the machine instruction means |
| `cli` | decode offset, the block being filled | `process_function`, `run_phase2` | instructions are decoded one behind the other, once each; each stage gets what it assumes |
| `analysis-passes/pass` | list of passes | `run` | passes run in the declared order |
| `analysis-passes/cfg` | leaders, blocks, edges | `build` | blocks partition the stream, edges are exactly the flow of control |
| `analysis-passes/dataflow` | worklist and its set, IN and OUT states | `solve_forward`, `instruction_states` | no update is lost, it ends, at the greatest fixpoint |
| `analysis-passes/constant_propagation` | abstract state per point, rewritten instructions | `merge`, `transfer_instruction`, `rewrite` | claims hold on every path; the rewritten function behaves the same |
| `analysis-passes/type_inference` | the type map, what the scan changed | `infer_op` to a fixpoint | it ends; exactly the Varnodes that must be pointers are typed; types stay justified |
| `analysis-passes/structurer` | DFS stack and sets, visited, regions, tree | `find_back_edges`, `structure_region` | every loop is cut; every reachable block is emitted, once; control flows as before |
| `output-c` | declarations seen | `generate` | every name is declared once and means one Varnode; a statement means what its operation means |

The stages communicate only through the `Function` they edit in place:
`process_function` fills one block, then run `CfgBuilder`, `ConstantPropagation`,
`TypeInference`, `Structurer` (`cli/src/main.rs:165-172`) and the C printer. The
CFG's blocks and symmetric edges are what the solver iterates over, the solver's
IN states are what the rewrite walks from, the successors and the index are what
the structurer descends, and the tree's copies of the instructions are what is
printed. The hazards of each part, with their lines and the properties that
watch them, are listed in `PROJECT.json`.

## 2. Modules

```
PCode ---------------- the instructions
 |- LiftedCode ------- the stream from the decode loop to CfgBuilder
 |   |- Disassembly -- X86, Arm --- Decode         (the decode loop)
 |   \- Cfg ---------- CfgRebuild
 |- Machine ---------- what they compute (the reference)
 |- ConstLattice ----- the abstract states and their transfer functions
 |    \- ConstantPropagation  (composes ConstLattice, Machine and Dataflow)
 |- TypeInference
 |- COutput ---------- the C they are printed as, and its meaning
 \- WordArithmetic     (composes ConstLattice, Machine and COutput)
ChaoticIteration       (what the solver promises)
 \- Dataflow           (the worklist solver; implements ChaoticIteration)
BackEdges ------------ Structurer -- StructuredFlow
Processor ------------ what the machine instructions do (the reference)
Pipeline               (composes Decode, Cfg, ConstantPropagation, TypeInference,
                        StructuredFlow, COutput and Processor)
```

* **PCode** (`ir-pcode`): Varnodes are `(space, offset, size)` records, since the
  name carries no weight in equality; instructions are tagged records. The width
  of a byte is a constant.
* **LiftedCode** (`types.rs`): the `LiftedInstruction` stream, and `Stream`, what
  `CfgBuilder` takes for granted about it.
* **Disassembly** (`traits.rs`, `varnode.rs`): the results of `disassemble_one`,
  the allocator of temporaries, reading integers from bytes, and sums of
  addresses, which leave the address space (the code then panics, or wraps, with
  the build) or do not.
* **X86**, **Arm** (`arch-x86`, `arch-arm`): the opcode tables, `decode_one` and
  `lift` of every instruction. Register numbers stand for register names and the
  width of a register, which is the width of imm32 and rel32, is a constant.
* **Decode** (`process_function`): one action for each outcome of the loop's body.
* **Processor** is external: an assembler and an interpreter for the two machines,
  written from the architectures and from the encodings the comments of the
  decoders give, without the decoders and lifters, which are compared with it.
  A machine also knows which of its registers the program accounts for (`known`):
  a call ends that, as does reading an unknown register.
* **ChaoticIteration** states what `solve_forward` promises without a worklist:
  blocks are recomputed in any order and the iteration stops only at a fixpoint.
* **Dataflow** (`dataflow.rs`) is the solver, over an abstract lattice given by
  constants and the laws the `Lattice` documentation asks for. The loops over
  predecessors and successors take a step per element. A block is named by its
  rank in address order, the order `CfgBuilder` leaves the blocks in.
* **ConstLattice** (`constant_propagation.rs`) is the lattice, `get`/`set`,
  `merge` (which drops Top entries, where `set` stores them), the arithmetic on
  words of `WordBits` bits and the transfer functions.
* **Machine** executes instructions as the `Instruction` enum documents them. It
  is written without reference to any pass; claims are compared with it.
* **ConstantPropagation** composes the three: it solves, rewrites instruction by
  instruction as `rewrite` does, and then either runs the original and the
  rewritten function side by side, on the same unknown registers and memory and
  along any path of the graph, or takes the result through the pass again.
  `facts` is what `instruction_states` returns; `assigned` is the set of
  registers whose value depends on nothing the function was entered with.
* **Cfg** (`cfg.rs`): one action per turn of each loop of `find_leaders`,
  `split_at_leaders` and `connect_edges`, and the installation of the result. A
  sorted list without duplicates is a set. **CfgRebuild** calls `build` again.
* **TypeInference** (`type_inference.rs`): one action per rule of `infer_op`, over
  the operations of the function in the order of the scan. The pass makes only
  pointers to primitives, so a type is a number of pointers and a size. `scans`
  counts the scans for `ScanBound` and is no part of the code.
* **BackEdges** (`structurer.rs`): the recursion of `dfs_back_edges` as a stack
  of calls, each with the successors it has yet to examine.
* **Structurer**: `structure_region` as a stack of regions. The tree leaves out
  the straight-line instructions, which come with the label of their block.
  `Option<u64>` is a set of at most one address; `unwrap_or(0)` is 0.
* **StructuredFlow** gives the tree its meaning (where control goes from each
  label) and compares it with the function's. A *scope* is a sequence of
  statements with the place where control goes on behind it; the transfers of a
  tree are those of its scopes, which are collected level by level.
* **COutput** (`output-c`): the declarations, and the statement of an operation,
  as the expression trees a C compiler reads from the text; the second half,
  external, is what these mean in C: promotions, the usual arithmetic
  conversions, the types of literals, pointer arithmetic.
* **WordArithmetic** enumerates every operation on every pair of operands, for the
  comparison of the folder's arithmetic and of the printed C with the machine's.
* **Pipeline** (`process_function`, `run_phase2`, `pass.rs`, `generate`): the
  stages one after the other. A pass takes the steps of its own module, which is
  instantiated over the function as the pass before it has left it; starting and
  ending it translate between the shared `Function` and the module's variables.
  When the C is printed, the machine code (on `Processor`) and the C (statements
  by `COutput`, flow by `StructuredFlow`) run side by side, a basic block at a
  time. `MCPipeline` assembles the programs.

Some modules hold, beside a definition, *faults*: the same definition with a
plausible mistake (a dropped update, a swapped order, a missing reset). No
specification uses them. Each property of a passing run is paired in
`PROJECT.json` with a fault that violates it when it takes the place of the
definition: a property that no mistake could violate would say nothing.

## 3. Runs

| Run | Instance | Shows |
|---|---|---|
| `dataflow` | all graphs of 3 blocks `connect_edges` can produce, 3 bodies, 1-bit register | the queue and its set agree; a block that is not waiting is solved; OUT only descends; the result is the greatest solution; the solver implements `ChaoticIteration`; it terminates |
| `constant_propagation` | 4 graphs of 3 blocks (if, loop, loop to the entry, irreducible loop), 8 bodies, 2-bit registers in 3-bit words | claims about assigned registers hold on every path; the rewritten function computes the same: registers, branch conditions, load addresses, store addresses and values; the walk ends in the solver's OUT; rewriting keeps the transfer; a second pass is idle |
| `arithmetic` | every pair of values of operands of 1, 2, 3, 4 and 8 bits in 8-bit words | folding is the machine's arithmetic, at and below the word; so is the C that is printed, with variables or literals as operands |
| `cfg` | all streams of up to 3 instructions and streams of 4 of fewer kinds, one instruction two addresses long, each built twice | partition, straight lines, exact edges, symmetry, index; building twice is building once |
| `structurer` | all functions of 4 blocks, branches in, back and out | recorded edges close loops, every loop is cut, the search is complete; the descent ends; every reachable block of a function with plain loops is visited, every visited block emitted exactly once; flow is kept (below) |
| `type_inference` | all functions of up to 4 operations of a menu of 12, 3 registers and a constant | it ends closed under its rules, within one scan per operation and one; types nothing else; every type stays supported |
| `pipeline` | 100 programs and 13 byte strings that are none (below) | the decoded stream is what `CfgBuilder` assumes; every pass is handed what it assumes; the printed tree is current; names are unambiguous; the C does what the machine code does |
| `unassigned_registers` | as `constant_propagation` | violated, see section 5 |
| `lost_edge` | all functions of 3 blocks | violated |
| `dangling_goto` | functions of 6 blocks, conditionals and jumps in turn (`MCDanglingGoto`) | violated |
| `scaled_sums` | as `type_inference` | violated |
| `arm_bne` | the ARM programs with B.NE | violated |

**Bounds.** Three blocks hold a join, a loop with an exit, a self-loop, a loop to
the entry and a loop with two entries; four hold a conditional in the body of
another and loops that cross. Blocks have zero, one or two successors because
the builder produces no others. Words of three bits with registers of two and
flags of one make masks narrower than the word matter, as 32-bit registers in
`u64` do; the width equal to the word is in `arithmetic`. Four instructions
allow branches back, forward, to themselves, to the next instruction, into the
middle of an instruction and out of the function. Four operations allow a chain
of types that runs against the order of the scan, which is what makes it scan
again, up to the bound that `ScanBound` states; both sizes of Varnode and the
constant as an address are in the menu.

**The pipeline's programs.** An address space of 128 bytes with programs at its
start, in its middle and at its end makes sums of addresses leave it on both
sides; `checks` chooses a build with or without overflow checks. Registers and
long displacements have two bytes, immediates of 300 and 70000 take both of them
and more, -1 and -3 are sign-extended. Every kind of opcode occurs, every encoding of a
`mov`, `add` and `cmp`, jumps of both widths forwards, backwards, to the
instruction itself, behind the program and far away, and two jumps in all
arrangements after each other. `MaxBlocks` bounds the blocks, which no program of
the run exceeds; `MaxTurns` bounds the blocks executed (loops of the programs end
or repeat before). The registers that only the caller sets begin with one of two
values. The comparison is of the registers the program accounts for: after a call,
which is documented to define nothing, the program accounts for none, and an x86
`add` leaves the flag unaccounted for, which the lifter documents. A function
that the structurer gives another flow (`FlowKept`, see `lost_edge`) is not
executed. A register that is only read is not declared by `generate`; it is
taken for a parameter.

**Fairness.** `Dataflow!FairSpec` and `StructureSpec` assume weak fairness of the
whole step: the code is an ordinary loop that takes its next step. No single
action needs fairness of its own.

**Deadlock** is checked in every run: the specifications stutter explicitly once
the algorithm has returned, so a stop anywhere else would be reported.

**`PartedFlowKept`** says for which functions the tree is right. `structure_region`
loses an edge when a region ends at a block emitted elsewhere. This never happens
in a function each of whose conditionals *parts* its sides: the sides are
different, and each enters a block with no other way in, except a side that is
the only back edge out of the conditional. Joins are then reached only by jumps
and falls, which emit a goto. Every other function may lose edges; run
`lost_edge` shows one. Four blocks hold every such shape once; that it is so for functions of every size
is `PartedFunctionsKeepFlow` in `StructurerProofs`.

**`ReachableVisited`** says for which functions no block is lost: those with *plain
loops* (`PlainLoops`), in which no conditional leads back up the search on both
sides and no block falls through to one above it. The smallest functions that lose a
block have six blocks (with `N = 5` TLC finds none) and a conditional with two back
edges. A function that loses a block behind a fall back has seven: 1 branches to 7
on a condition; 2 to 6; 3 to 5 on a condition; 4 to 3; 5 falls to 6; 6 branches to 4;
7 to 3; block 4 is lost. Four blocks show neither, which is why the property is
proved (`StructurerProofs`) for functions of every size and the run `dangling_goto`
has six.

## 4. Proofs

All theorems hold for every value of the constants that satisfies the named
assumptions; TLC evaluates the assumptions on its instances.

* **DecodeProofs.** `TypeCorrect` and `AlwaysStream`, for every input and every
  width of the registers: what the decode loop makes of any bytes, on either
  architecture, is a stream as `CfgBuilder` takes it for granted (`LiftedCode!Stream`),
  contiguous, with a return only at its end, and with temporaries that never
  collide. The invariant carries that the temporaries of the block are below the
  allocator's counter and that every lifted address lies in the address space;
  each instruction consumes at least a byte, so addresses ascend unless they
  wrap, which a build with checks excludes. The lemmas go through both backends
  instruction by instruction (`X86LiftsWell`, `ArmLiftsWell`): one transfer of
  control at most, targets in the address space, fresh temporaries only.
  `X86LiftMeans` and `ArmLiftMeans` say that the backends are right about each instruction.
  Bytes that begin with the encoding of an instruction (`Processor`) decode with its
  length, and the operations it is lifted to, run by `Machine` from Varnodes that hold
  what the processor's registers do, leave in each register and in the flag what the
  processor leaves there, as far as the program accounts for it (`Agrees`), and transfer
  control to where the processor goes, or not at all when it goes on (`Goes`). This is for
  every encoding the x86 decoder takes, any address and any width of the registers up to
  four bytes; a displacement is one that its field holds. It has three parts. A number
  stored octet by octet reads back with its sign (`LittleEndianAt`, `SignedOfBytes`), and
  the fields of a ModRM byte or an ARM word separate again (`ModRmFields`, `FieldsOfThree`).
  The instruction read then *denotes* the one encoded (`X86Denotes`, `ArmDenotes`). And an
  operation on Varnodes that hold the processor's operands sets what the processor sets
  (`MovMeans`, `AddMeans`, `CmpMeans`), for x86 with the flag computed from a difference
  (`CmpBySubMeans`: a difference modulo the width is zero only for equal operands) and its
  negation in a temporary (`BranchUnequalDoes`). Left out of `ArmInstruction` are B.NE,
  for which the claim is false (`arm_bne`), and immediates wider than their fields.
  `X86CodeMeans` and `ArmCodeMeans` go on to the C, for straight-line code of any length:
  when the variables hold what the program accounts for, the statements printed for the
  lifted operations leave them so after each instruction, and jump, call and return where
  the processor does (`Follows`). What is lifted has one of a few shapes on both
  architectures (`LiftsTo`), each is printable (`LiftedPrintable`), the statements mirror the
  operations (`StatementsAreExact`), and `BlockIsExact` is the induction over the
  instructions. The hypothesis is that every variable has the unsigned type of its
  Varnode's size, a name of its own and a value (`Declares`): `DeclaredOnce`
  says of a whole function that names are its Varnodes' own, a register that is only read
  counts as a parameter, and the run `scaled_sums` shows what a pointer type would do to a
  sum. The passes between lifting
  and printing are not part of it.
* **CfgProofs.** `TypeCorrect`, `BlocksPartition`, `BlocksAreStraight`,
  `EdgesCorrect`, `EdgesSymmetric`, `IndexCorrect`, for every set of streams as
  `DecodeProofs` shows them to be (`StreamAssumption`). The
  inductive invariant follows the phases: the leaders found so far contain every
  target and successor of a terminator seen; the blocks split so far partition
  the prefix and break exactly at leaders; the edges connected so far are the
  flow; the predecessors collected so far are the reverse of the edges of the
  blocks visited.
  `BuildingTwiceIsBuildingOnce` and `SecondBuildIsSound` are about `CfgRebuild`: the
  finished graph is a function of the stream (a leader is the entry, a target or
  what follows a terminator, and nothing else; there is only one way to cut a
  stream at its leaders), and draining the finished blocks gives back the stream.
  `StructurerIsServed` composes the builder with the structurer: the finished graph,
  read as `structure_region` reads it, is a function as `Structurer` assumes it
  (`FlowAssumption`), including that the edge a conditional takes when it does not
  branch goes to the block behind it. That conditional branches are absolute, which
  this needs, is what the lifters make of them (`arch-x86/src/lifter.rs:83-100`;
  proved in `DecodeProofs`, `LiftedInstruction`).
* **DataflowProofs.** For every `N`, graph, lattice and monotone transfer
  function (`NAssumption`, `GraphAssumption`, `LatticeAssumption`,
  `TransferAssumption`): `TypeCorrect`, `QueueCorrect`, `WorklistCorrect`,
  `ResultIsFixpoint`, `Descends`, `ResultIsGreatest`, `Implements`.
  `SolvedUnlessPending` is not inductive: it needs that, in the merge loop, the
  accumulator is the meet of the predecessors visited so far, and that, in the
  push loop, a block outside the worklist whose predecessor has just changed is
  among the successors still to be queued. Descent needs that OUT is below what
  the transfer function gave for a larger IN, hence the order on IN and OUT of
  two consecutive visits. `AboveEverySolution` is an induction over the visits: a
  solution is below the meet of OUT states above it, and the transfer function
  is monotone. The refinement maps a visit to `Recompute` and all else to
  stuttering.
* **WordProofs** has the numbers of a width: powers of two, remainders, conversions.
  `StatementIsExact`: the C statement that is printed for an operation assigns what the
  operation means, whatever the widths of `int` and of C's widest integer type, in every
  environment whose variables hold values of their types. The argument is
  that the common type of two operands, at least one of them a variable, holds the
  values of both and is no narrower than the variable (`CommonTypeHolds`): comparisons
  then compare the values themselves, and a sum or difference is changed by a multiple
  of a power of two that the width of the destination divides (`ConvertTwice`). Casts
  to a signed type yield the integers that signed comparisons are about
  (`CastIsInteger`). Both operands being literals is excluded, for their common type may
  be wider or narrower than theirs; folding leaves no such operation. Powers of two come
  from a recursive function, so that facts about them are inductions over sets of
  numbers. `StatementsAreExact` is the induction from one operation to a sequence of
  them: its statements in turn leave in the variables what the operations leave in the
  Varnodes (`Mirrors`).
* **ConstantPropagationProofs.** Constant propagation satisfies the solver's assumptions:
  `ConstStateIsLattice` and `TransferIsMonotone`, for every set of Varnodes and
  every width. `Below` is the preorder that disregards whether a Top is stored.
  `FoldingAgrees` and `FoldsExactly`: for every word width, operand width that fits it
  and pair of values, the constant folder computes what the machine does. `PrintsExactly`:
  so does the printed C, by `StatementIsExact`, with the declarations that `generate` makes
  (`CTypeAssumption`, `SizesAssumption`: an operand with a type of its own width is no
  wider than the widest one).
  Of the pass itself: `TypeCorrect`, `AssignedClaimsAlwaysHold`, `BehaviourIsKept`,
  `RewritingKeepsTransfer`, `WalkEndsInOutAlways`, `SecondPassChangesNothing`, and
  `EndsAreKept` (rewriting keeps the transfers of control), for every number of
  blocks, graph, body and width. Four parts make the invariant: the solver's own
  (`SolverInv`, from `DataflowProofs`, whose assumptions are discharged for this
  lattice: the constants of a state fit their registers, or the arithmetic would not
  be the machine's); where the pass stands (`ControlInv`); the facts recorded are
  the walks through the blocks from the solution (`WalkInv`); and the two runs
  side by side agree on assigned registers, whose facts are true of them
  (`RunInv`). A run takes an edge of the graph: the OUT of the block is what the
  walk ends in, and the IN of the next one is below it, because the solution is a
  fixpoint. The second pass solves the same equations, since rewriting keeps
  every transfer function, and the greatest solution is unique.
  The assumptions are `NAssumption` (a function without blocks is left alone),
  `GraphAssumption` (which `EdgesSymmetric` states of the builder's graphs),
  `CodeAssumption` (no lifter makes a Phi; the operands of an operation have one
  size, a copy keeps it, and literals fit theirs: x86 registers and immediates are
  of 4 bytes, its flag of 1; ARM registers and immediates of 8, its flag of 4) and
  `WidthAssumption` (no register is wider than the word).
* **TypeInferenceProofs.** `TypeCorrect`, `EndsClosed`, `TypesNothingElse`,
  `StaysSupported`, `ScansBounded`, for every set of Varnodes and every function of
  well-formed operations (`ProgramAssumption`). The invariant adds that, while a
  scan has changed nothing, the operations behind it have nothing to add, and
  that each scan but the running one has added an entry; the bound follows
  because each entry has an operation of its own, hence an injection of the
  entries into the operations. Termination is thus proved up to fairness: every
  scan is finite and there are finitely many. `EndsClosed` and `TypesNothingElse`
  together say that the set of typed Varnodes is the least one the rules allow.
* **StructurerProofs.** First the search: `TypeCorrect`, `StackCorrect`, `NoFalsePositive`,
  `NoLoopMissed`, `SearchReachesAll`, for every function. `NoLoopMissed` rests on
  the classic argument without ghost finishing times: the blocks finished form a
  set closed under edges into finished or stacked blocks, and no loop of
  unrecorded edges lies within it, because the block that finished last would
  have had its edge examined while its target was on the stack.
  Then the descent: `RegionsCorrect`, `ReachableStructured`, `EveryBlockEmittedOnce` and
  `PartedFunctionsKeepFlow`, for every function with the edges `connect_edges` makes (`FlowAssumption`). The search's invariant is
  extended by what the recorded edges mean for the descent: edges that are not
  recorded lead from the entry to every block seen, and from the target of each
  recorded edge to its source (`TreeLeads`). In the descent every block that a
  visited block leads to has been visited or is *owed* by a region that is about to
  go there (`Owed`), and the conditionals that wait lie on a path of unrecorded edges
  (`OnPath`). A body hands what it owes at its stop address to its caller. The caller
  pays, unless it waits at a back edge and ends with a goto; then the path through
  it, to the block that leads to the stop address and back along the back edge
  would be a loop without a back edge (`NoPathBack`, from `NoLoopMissed`). At the end
  nothing is owed, so the visited blocks are closed under unrecorded edges. Without
  plain loops the invariant fails where a region goes on along a recorded edge.
  `EveryBlockEmittedOnce` (`EmittedOnce`): the labels of the trees under construction,
  counted over all regions that wait, are the visited blocks, once each; a region
  that starts at a visited block emits a goto and no label.
  `PartedFunctionsKeepFlow` (`PartedFlowKept`): every body under construction sends
  control, from each label in it, where the function does, if control at its end
  goes on at the block its region is about to take. When a body is closed, its end
  must therefore meet the block its caller goes on with. For the sides of a
  conditional that parts them this holds because nobody else takes the block a
  side enters (the side is its only way in), so the block is still there when the
  region that waits for it resumes; the exit of a loop likewise, because its true
  side is the recorded edge.
* **PipelineProofs.** The stages in one program, for every input of either backend:
  `PassesGetStream`, `TreeIsCurrent`, `PassesHandOver`, `NamesDeclaredOnce`.
  `OrderInv` says which pass runs on what, and `EveryEdit` lists all that a step of
  the program can do to the function; `TreeIsCurrent` follows, because the structurer runs
  last. `HandInv` is what a pass may count on. While blocks are built it is
  `BuildInv` of `CfgProofs` over the drained function, which is the decoded stream
  (`AlwaysStream`). While blocks are rewritten it says that the operations folded so
  far are, one by one, operations that transfer control and name Varnodes as the original does
  (`KeepsControl`), so that regrouping them by instruction moves no terminator.
  Between passes it is `GraphOK`: index, edges and predecessors are those of the
  instructions as they are now, and the blocks drained give the addresses decoded.
  `NamesInv` follows the Varnodes from the backends to the declarations: a number of
  a register has one size, a temporary has a number of its own, and neither folding nor building
  makes a Varnode. `PassesHandOver` and `NamesDeclaredOnce` have the precondition
  `checks \/ InOrder`: in a build without overflow checks, a program that runs over the
  end of the address space is not in ascending order, and one that fills it has two
  instructions at one address. `TreeIsCurrent` has none. TLC checks both
  properties on programs that wrap, too, where they hold.

**Only model-checked.** Termination: liveness under fairness is outside what the
prover handles. `RunsAlike`, that the C does what the machine code does: both are
executed a block at a time by folds over operations, decoders and the trees of the
structurer, so that the statement for every program is an induction over all of
them; what is proved of its parts is that decoding, lifting and printing are exact for
straight-line code of any length, and that folding, rewriting and the flow of the tree are,
each for one operation, function or label.

## 5. Where code and documentation disagree

* `unassigned_registers`: `merge` treats "no information" as neutral, so a
  register that only one of two joining paths assigns, or that a loop back to
  the entry assigns, is claimed (and substituted) as that path's constant, though
  the analysis is documented to find what is *provably* a single constant. For
  registers the function itself assigns on every path the claims are right
  (`AssignedClaimsHold`).
* `lost_edge`: unstructured targets do not always "fall back to `Goto`"; see
  `PartedFlowKept` above. The commonest shape is two conditionals that branch to
  one target (`if (a || b)`): the second gets an empty body.
* `dangling_goto`: a block can be missing from the tree. When a conditional's true
  side leads back up the search, the descent goes on at its false side without asking
  whether that leads back too, and the body it is in ends at the stop address of a
  conditional that waits at the same back edge, which emits a goto and nothing
  else. The goto has no label and the block's instructions are gone. (A second jump
  to an address outside the function becomes a goto without a label as well, in
  functions of three blocks.)
* `scaled_sums`: a variable that type inference makes a pointer is declared as
  one, and a sum with it is printed as plain `lhs + rhs`, which C scales.
* `arm_bne`: the mock ARM's B.NE is lifted like its B.EQ.

Smaller ones, seen while modelling and shown by no run of their own: the README
gives `je` and `jne` rel8 and rel32 forms, the decoder has only rel8 (the rel32
forms are two-byte opcodes); the bytes of the ARM demo in `cli/src/main.rs` are not
all what the comments beside them say (`cmp x0, 8` is a register comparison in
the decoder); the ARM flag is a Varnode of four bytes; a state with a stored Top
merged with itself loses the entry, against the laws in `Lattice` (they hold up to
the representation, which is what the proofs use); an address is typed once, by
what its destination's type is at that moment, so that `q = *p; x = *q` makes `p`
point to an integer though `q` is a pointer.

## 6. What is not modelled, and the plan

All stages that change the function are modelled. Not modelled, because nothing in
it keeps state or decides anything a property here is about: the layout of the
printed text (`Display`, indentation, comments, `sanitize_ident`), `print_summary`,
the parsing of arguments, of hex strings and of files, `Variable` and the
`DataType`s no pass makes (structures, arrays, functions). A call has no effect on
registers, which the code documents; what a callee does is outside it.

Left: that the C runs as the machine code does (`RunsAlike`) is checked and not proved.
Each stage is proved to be exact (`X86LiftMeans`, `ArmLiftMeans`, `BehaviourIsKept`,
`PartedFunctionsKeepFlow`, `StatementIsExact`), and lifting and printing together for
straight-line code (`X86CodeMeans`, `ArmCodeMeans`); what is missing is the induction over
the blocks of a run that puts the passes and the tree between them. The analyses' own results
(`AssignedClaimsHold`, `TypesNothingElse`, `EveryBlockEmittedOnce`) are proved of the passes
on any function that meets their assumptions, and `StructurerIsServed` discharges those of
the structurer; to discharge the assumptions of the other passes within `Pipeline` is the
other step that is left.
