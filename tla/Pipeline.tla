------------------------------ MODULE Pipeline ------------------------------
(***************************************************************************)
(* The whole program (process_function and run_phase2 in cli/src/main.rs,  *)
(* PassManager::run in pass.rs, generate in output-c): bytes are decoded   *)
(* and lifted, the passes edit the function one after the other, and the   *)
(* tree and the instructions they leave are printed as C.                  *)
(*                                                                         *)
(* A pass runs the steps of its own module on the function as the pass     *)
(* before it has left it.  In the end the machine code and the printed C   *)
(* are executed side by side, a basic block at a time.                     *)
(***************************************************************************)
EXTENDS Decode, COutput, SequencesExt

CONSTANTS
  WordBits,     \* bits of a u64
  MaxBlocks,    \* bound: blocks of a function
  MaxTurns,     \* bound: blocks executed
  RunValues     \* what registers hold when the function is entered

VARIABLES
  program,   \* the assembly that was encoded; empty for arbitrary bytes
  function,  \* Function
  next_pass, \* the pass to run next, or running; 0 while decoding
  working,   \* a pass is running
  pc, i, k, phase,  \* shared by the passes
  leaders, blocks, successors, predecessors, index,   \* CfgBuilder
  queue, queued, block_in, block_out, addr, acc, b, state, facts, folded,
             \* ConstantPropagation
  types, changed, scans,                              \* TypeInference
  calls, seen, in_stack, back_edges, regions, visited, ast,   \* Structurer
  machine,   \* the processor executing program (module Processor)
  env,       \* the variables of the C function
  at,        \* the block whose statements C executes next, if any
  turn       \* the blocks executed, -1 before and MaxTurns after

shared == <<pc, i, k, phase>>
building == <<leaders, blocks, successors, predecessors, index>>
propagating == <<queue, queued, block_in, block_out, addr, acc, b, state, facts, folded>>
inferring == <<types, changed, scans>>
structuring == <<calls, seen, in_stack, back_edges, regions, visited, ast>>
running == <<machine, env, at, turn>>
decoder == <<input, decoding, program>>
vars == <<decoder, function, next_pass, working, shared, building, propagating,
          inferring, structuring, running>>

(* The order of run_phase2, and its fault: the tree is recovered first.    *)
PassesStructurerEarly ==
  <<"CfgBuilder", "Structurer", "ConstantPropagation", "TypeInference">>

Passes == <<"CfgBuilder", "ConstantPropagation", "TypeInference", "Structurer">>

-----------------------------------------------------------------------------
(* The function, as each pass sees it.                                     *)

Drained(bs) == FlattenSeq([n \in DOMAIN bs |-> bs[n].instructions])
OpsOf(instructions) == FlattenSeq([j \in DOMAIN instructions |-> instructions[j].ops])
Bodies == [n \in DOMAIN function.blocks |-> OpsOf(function.blocks[n].instructions)]
Ops == FlattenSeq(Bodies)
Starts == {function.blocks[n].start_address : n \in DOMAIN function.blocks}

(* The positions of the blocks at some addresses, by address.              *)
Positions(addresses) ==
  LET sorted == SetToSortSeq(addresses, LAMBDA x, y : x < y)
  IN  [j \in DOMAIN sorted |-> function.index[sorted[j]]]

Graph ==
  [successors   |-> [n \in DOMAIN function.blocks |-> Positions(function.blocks[n].successors)],
   predecessors |-> [n \in DOMAIN function.blocks |-> Positions(function.blocks[n].predecessors)]]

ControlFlow ==
  [entry |-> function.entry,
   blocks |-> [a \in Starts |->
     LET n == function.index[a]
         end == Ending(Elements(Bodies[n]))
     IN  [kind |-> end.kind, target |-> end.target,
          successors |-> function.blocks[n].successors]]]

(* What the tree repeats of the instructions: those of a block that        *)
(* transfer no control, and the condition of its last one.                 *)
Straight(body) == SelectSeq(body, LAMBDA op : ~ IsControl(op))
Conditions(body) == {op.condition : op \in Named(Elements(body), "CBranch")}

Printed ==
  [a \in Starts |->
     LET body == Bodies[function.index[a]]
     IN  [ops |-> Straight(body), condition |-> Conditions(body)]]

Builder == INSTANCE Cfg WITH flat <- Drained(function.blocks), Streams <- {}

Propagation(n) ==
  INSTANCE ConstantPropagation
    WITH N <- n, Tracked <- {}, Graphs <- {}, Code <- {},
         graph <- Graph, code <- Bodies, pass <- 1,
         before <- <<>>, after <- <<>>, assigned <- {}

Inference == INSTANCE TypeInference WITH code <- Ops, Varnodes <- {}, Programs <- {}

Structuring == INSTANCE StructuredFlow WITH fn <- ControlFlow, Functions <- {}

Cpu == INSTANCE Processor

-----------------------------------------------------------------------------
(* The initial states.  Variables of a pass that has not begun hold values *)
(* that nothing reads.                                                     *)

NoFunction ==
  [entry |-> 0, blocks |-> <<>>, index |-> <<>>, types |-> <<>>, ast |-> {}]

PipelineInit ==
  /\ Init
  /\ program \in {in.program : in \in {c \in Inputs : c.arch = arch /\ c.bytes = bytes
                                                         /\ c.base = base}}
  /\ function = NoFunction /\ next_pass = 0 /\ working = FALSE
  /\ pc = "" /\ i = 1 /\ k = 1 /\ phase = ""
  /\ leaders = {} /\ blocks = <<>> /\ successors = <<>> /\ predecessors = <<>>
  /\ index = <<>>
  /\ queue = <<>> /\ queued = {} /\ block_in = <<>> /\ block_out = <<>>
  /\ addr = 1 /\ acc = <<>> /\ b = 1 /\ state = <<>> /\ facts = <<>> /\ folded = <<>>
  /\ types = <<>> /\ changed = FALSE /\ scans = 0
  /\ calls = <<>> /\ seen = {} /\ in_stack = {} /\ back_edges = {}
  /\ regions = <<>> /\ visited = {} /\ ast = <<>>
  /\ machine = <<>> /\ env = <<>> /\ at = {} /\ turn = -1

DecodeStep ==
  /\ progress = "decode" /\ Step
  /\ UNCHANGED <<program, function, next_pass, working, shared, building, propagating,
                 inferring, structuring, running>>

(* The function that process_function returns has one block and no index.  *)
ReturnFunction ==
  /\ progress = "done" /\ next_pass = 0
  /\ next_pass' = 1
  /\ function' = [NoFunction EXCEPT !.entry = base,
                    !.blocks = <<[start_address |-> base, instructions |-> block,
                                  successors |-> {}, predecessors |-> {}]>>]
  /\ UNCHANGED <<decoder, working, shared, building, propagating, inferring,
                 structuring, running>>

-----------------------------------------------------------------------------
(* A pass starts, takes its steps and ends.                                *)

AtPass(name) == next_pass \in DOMAIN Passes /\ Passes[next_pass] = name

Starting(name) ==
  /\ AtPass(name) /\ ~ working
  /\ working' = TRUE
  /\ UNCHANGED <<decoder, function, next_pass, running>>

Working(name) ==
  /\ AtPass(name) /\ working
  /\ UNCHANGED <<decoder, function, next_pass, working, running>>

LeavePass(name, f) ==
  /\ AtPass(name)
  /\ working' = FALSE
  /\ next_pass' = next_pass + 1
  /\ function' = f
  /\ UNCHANGED <<decoder, shared, building, propagating, inferring, structuring, running>>

(* A function without blocks is left as it is, or gets an empty tree.      *)
PassOverNothing ==
  /\ ~ working /\ function.blocks = <<>>
  /\ \/ LeavePass("ConstantPropagation", function)
     \/ LeavePass("Structurer", [function EXCEPT !.ast = {[tree |-> <<>>, code |-> <<>>]}])

StartBuild ==
  /\ Starting("CfgBuilder")
  /\ LET flat == Drained(function.blocks)
     IN  /\ pc' = IF flat = <<>> THEN "done" ELSE "leaders"
         /\ leaders' = IF flat = <<>> THEN {} ELSE {function.entry, flat[1].address}
  /\ i' = 1
  /\ blocks' = <<>> /\ successors' = <<>> /\ predecessors' = <<>>
  /\ index' = function.index
  /\ UNCHANGED <<k, phase, propagating, inferring, structuring>>

Build ==
  /\ Working("CfgBuilder")
  /\ Builder!Step
  /\ UNCHANGED <<k, phase, propagating, inferring, structuring>>

(* The old blocks were drained; without instructions there are no new ones.*)
BuiltBlocks ==
  LET flat == Drained(function.blocks)
  IN  [n \in DOMAIN blocks |->
         [start_address |-> blocks[n].start_address,
          instructions |-> [j \in DOMAIN blocks[n].instructions |->
                              flat[blocks[n].instructions[j]]],
          successors |-> successors[n], predecessors |-> predecessors[n]]]

EndBuild ==
  /\ working /\ Builder!Done
  /\ LeavePass("CfgBuilder", [function EXCEPT !.blocks = BuiltBlocks, !.index = index])

StartPropagation ==
  /\ function.blocks # <<>>
  /\ Starting("ConstantPropagation")
  /\ LET all == DOMAIN function.blocks
     IN  /\ queue' = [n \in all |-> n] /\ queued' = all
         /\ block_in' = [n \in all |-> <<>>] /\ block_out' = [n \in all |-> <<>>]
         /\ facts' = [n \in all |-> <<>>] /\ folded' = [n \in all |-> <<>>]
  /\ pc' = "pop" /\ addr' = 1 /\ acc' = <<>> /\ k' = 1
  /\ phase' = "solve" /\ b' = 1 /\ i' = 1 /\ state' = <<>>
  /\ UNCHANGED <<building, inferring, structuring>>

Propagate ==
  /\ Working("ConstantPropagation")
  /\ \E n \in 1 .. MaxBlocks :
       /\ n = Len(function.blocks)
       /\ \/ Propagation(n)!Solve \/ Propagation(n)!StartRewrite
          \/ Propagation(n)!RewriteInstruction \/ Propagation(n)!NextBlock
  /\ UNCHANGED <<building, inferring, structuring>>

(* Fault of Regroup: everything becomes part of the first instruction.     *)
RegroupInFirst(instructions, ops) ==
  [j \in DOMAIN instructions |->
     Lifted(instructions[j].address, IF j = 1 THEN ops ELSE <<>>)]

(* The rewritten operations, each in the machine instruction it was in.    *)
Regroup(instructions, ops) ==
  LET Before(j) == Len(OpsOf(SubSeq(instructions, 1, j)))
  IN  [j \in DOMAIN instructions |->
         Lifted(instructions[j].address, SubSeq(ops, Before(j - 1) + 1, Before(j)))]

RewrittenBlocks ==
  [n \in DOMAIN function.blocks |->
     [function.blocks[n] EXCEPT !.instructions = Regroup(@, folded[n])]]

EndPropagation ==
  /\ working /\ phase = "rewrite" /\ b > Len(function.blocks)
  /\ LeavePass("ConstantPropagation", [function EXCEPT !.blocks = RewrittenBlocks])

StartInference ==
  /\ Starting("TypeInference")
  /\ types' = function.types /\ changed' = FALSE /\ scans' = 1
  /\ k' = 1 /\ pc' = "scan"
  /\ UNCHANGED <<i, phase, building, propagating, structuring>>

Infer ==
  /\ Working("TypeInference")
  /\ Inference!Step
  /\ UNCHANGED <<i, phase, building, propagating, structuring>>

EndInference ==
  /\ working /\ Inference!Done
  /\ LeavePass("TypeInference", [function EXCEPT !.types = types])

StartStructuring ==
  /\ function.blocks # <<>>
  /\ Starting("Structurer")
  /\ calls' = <<Structuring!Call(function.entry)>>
  /\ seen' = {function.entry} /\ in_stack' = {function.entry} /\ back_edges' = {}
  /\ phase' = "search" /\ regions' = <<>> /\ visited' = {} /\ ast' = <<>>
  /\ UNCHANGED <<pc, i, k, building, propagating, inferring>>

Structure ==
  /\ Working("Structurer")
  /\ Structuring!Step
  /\ UNCHANGED <<pc, i, k, building, propagating, inferring>>

EndStructuring ==
  /\ working /\ phase = "done"
  /\ LeavePass("Structurer", [function EXCEPT !.ast = {[tree |-> ast, code |-> Printed]}])

PassesDone == next_pass > Len(Passes)

-----------------------------------------------------------------------------
(* Running the machine code and the C.                                     *)

RegisterSize == IF arch = "arm" THEN ArmRegSize ELSE X86RegSize

Tree == CHOOSE t \in function.ast : TRUE

DeclaredNow == Declarations(Elements(Ops), function.types)

(* Registers, by number, that the program names and that it assigns.       *)
Assigned == {instr.dst : instr \in {p \in Elements(program) : p.op \in {"mov", "add"}}}

Operands(instr) ==
  CASE instr.op = "mov" -> {instr.src}
    [] instr.op \in {"add", "cmp"} -> {instr.lhs, instr.rhs}
    [] OTHER -> {}

Read == {o.reg : o \in {x \in UNION {Operands(instr) : instr \in Elements(program)} :
                          Cpu!IsRegister(x)}}

(* A variable is declared by the C function or, if it is never assigned,   *)
(* is a parameter in all but name: it holds what the register does.        *)
InitialEnv(regs) ==
  [name \in {d.name : d \in DeclaredNow} \union {<<"Register", r>> : r \in Read} |->
     IF \E d \in DeclaredNow : d.name = name
     THEN TypedValue(0, TypeOfName(DeclaredNow, name))
     ELSE TypedValue(regs[name[2]], UnsignedType(RegisterSize))]

(* The tree does not keep the flow of control of every function (module    *)
(* StructuredFlow): of the others there is nothing to compare.             *)
Comparable == program # <<>> /\ Structuring!FlowKept

StartRun ==
  /\ PassesDone /\ turn = -1
  /\ Comparable
  /\ turn' = 0
  /\ at' = {function.entry}
  /\ \E regs \in [Assigned \union Read -> RunValues] :
       /\ machine' = [ip |-> 1, regs |-> regs, z |-> FALSE, known |-> Read \ Assigned]
       /\ env' = InitialEnv(regs)
  /\ UNCHANGED <<decoder, function, next_pass, working, shared, building, propagating,
                 inferring, structuring>>

Listed(m) == m.ip \in DOMAIN block

(* The processor executes the instructions of the block, C its statements; *)
(* then C goes where the tree goes under the value of the condition.  The  *)
(* comparison ends when control leaves the instructions that were decoded, *)
(* or depends on what a callee has done.                                   *)
RunBlock ==
  /\ turn \in 0 .. MaxTurns - 1
  /\ \E a \in at :
       LET printed == Tree.code[a]
           length == Len(function.blocks[function.index[a]].instructions)
           m == FoldLeft(LAMBDA x, j : Cpu!ExecuteInstruction(arch, program[x.ip], x,
                                                              256^RegisterSize),
                         machine, [j \in 1 .. length |-> j])
           e == FoldLeft(LAMBDA x, op : RunStatement(Statement(op, function.types), x),
                         env, printed.ops)
           outcome == \E c \in printed.condition : Evaluate(Operand(c), e).value # 0
       IN  /\ machine' = m /\ env' = e
           /\ \E t \in Structuring!Transfers(Tree.tree, {}) :
                t[1] = a /\ t[2] = outcome /\ at' = t[3]
           /\ turn' = IF (m.ip = 0 \/ Listed(m)) /\ (printed.condition = {} \/ Cpu!ZFlag \in m.known)
                      THEN turn + 1 ELSE MaxTurns
  /\ UNCHANGED <<decoder, function, next_pass, working, shared, building, propagating,
                 inferring, structuring>>

Ended ==
  /\ \/ progress = "panicked"
     \/ PassesDone /\ turn = -1 /\ ~ Comparable
     \/ turn \in 0 .. MaxTurns - 1 /\ at = {}
     \/ turn = MaxTurns
  /\ UNCHANGED vars

PipelineNext ==
  \/ DecodeStep \/ ReturnFunction \/ PassOverNothing
  \/ StartBuild \/ Build \/ EndBuild
  \/ StartPropagation \/ Propagate \/ EndPropagation
  \/ StartInference \/ Infer \/ EndInference
  \/ StartStructuring \/ Structure \/ EndStructuring
  \/ StartRun \/ RunBlock \/ Ended

PipelineSpec == PipelineInit /\ [][PipelineNext]_vars
-----------------------------------------------------------------------------
(* Properties.                                                             *)

BetweenPasses == next_pass > 1 /\ ~ working

(* Instruction n of the function is followed by instruction m: the edges   *)
(* of the graph, read off the instructions as they are now.                *)
Leads(n, m) ==
  LET instructions == function.blocks[n].instructions
      last == instructions[Len(instructions)]
  IN  \/ function.blocks[m].start_address \in Builder!Targets(last)
      \/ m = n + 1 /\ Builder!FallsThrough(last)

(* What each pass takes for granted it is handed, by whichever pass came   *)
(* before: the index finds every block, the entry is one, edges lead both  *)
(* ways and are those the instructions take, though the instructions have  *)
(* been rewritten since the edges were connected; and the instructions are *)
(* still the decoded ones, in order (types.rs:29-39 and 70-100, "must be   *)
(* kept in sync"; pass.rs:1-8).                                            *)
HandsOver ==
  BetweenPasses =>
    LET bs == function.blocks
        all == DOMAIN bs
    IN  /\ bs # <<>> => function.entry \in Starts
        /\ DOMAIN function.index = Starts
        /\ \A n \in all : function.index[bs[n].start_address] = n
        /\ \A n, m \in all :
             /\ bs[m].start_address \in bs[n].successors <=> Leads(n, m)
             /\ bs[n].start_address \in bs[m].predecessors <=> Leads(n, m)
        /\ [j \in DOMAIN Drained(bs) |-> Drained(bs)[j].address]
             = [j \in DOMAIN block |-> block[j].address]

(* The tree is printed long after it was recovered, with copies of the     *)
(* instructions it was recovered from: these are what the last pass has    *)
(* left, so that no rewrite is lost and no condition stale                 *)
(* (output-c/src/lib.rs:32-36, types.rs:79-81).                            *)
AstIsCurrent ==
  PassesDone => \A t \in function.ast : t.code = Printed

(* The Varnodes whose names an operation is printed with.                  *)
UsedIn(op) ==
  CASE op.op \in BinaryOps -> {op.lhs, op.rhs}
    [] op.op = "Copy" -> {op.src}
    [] op.op = "CBranch" -> {op.condition}
    [] OTHER -> {}

(* Each name is declared once, and every use of a name means the Varnode   *)
(* it was declared for, although the size of a Varnode is no part of its   *)
(* name (output-c/src/lib.rs:91-113, 175-192).                             *)
DeclaredOnce ==
  PassesDone =>
    /\ \A d, e \in DeclaredNow : d.name = e.name => d = e
    /\ \A op \in Elements(Ops) :
         \A v \in {u \in UsedIn(op) : u.space # "Constant"} :
           \A d \in DeclaredNow : d.name = VarName(v) => d.of = v

(* The C does what the machine code does: whatever the encoding of an      *)
(* instruction, its address, the direction of a branch and what the passes *)
(* have made of it, the registers whose values the program accounts for    *)
(* agree after every basic block, and both go to the same one.  B.NE of    *)
(* the mock ARM is left out, see RunsBneAlike                              *)
(* (arch-x86/src/decoder.rs:54-189, arch-x86/src/lifter.rs:21-108,         *)
(* arch-arm/src/lifter.rs:37-76).                                          *)
SameState ==
  /\ \A r \in machine.known \ {Cpu!ZFlag} : env[<<"Register", r>>].value = machine.regs[r]
  /\ turn < MaxTurns => at = IF machine.ip = 0 THEN {} ELSE {block[machine.ip].address}

HasBne ==
  arch = "arm" /\ \E instr \in Elements(program) : instr.op = "jump" /\ instr.when = "unequal"

RunsAlike == turn >= 0 /\ ~ HasBne => SameState

(* The same of programs with B.NE: the decoder's table has B.EQ and B.NE   *)
(* as different instructions (arch-arm/src/decoder.rs:18-19).              *)
RunsBneAlike == turn >= 0 /\ HasBne => SameState

=============================================================================
