---------------------------- MODULE PipelineProofs ----------------------------
(***************************************************************************)
(* Proofs about the program as a whole, for every input: what the passes   *)
(* find is what the decode loop and the passes before have left.           *)
(*                                                                         *)
(* OrderInv says which pass runs on what; EveryEdit lists what a step can  *)
(* do to the function.  HandInv is what the graph depends on within a      *)
(* pass: BuildInv of CfgProofs while blocks are built, Folding while they  *)
(* are rewritten, and between two passes GraphOK, which is what HandsOver  *)
(* asks for.  NamesInv follows the Varnodes that are printed by name from  *)
(* the backends to the declarations.                                       *)
(***************************************************************************)
EXTENDS Pipeline, DecodeProofs

Building ==
  INSTANCE CfgProofs
    WITH flat <- Drained(function.blocks), Streams <- {}, builds <- 1, built <- <<>>

-----------------------------------------------------------------------------
(* The decode loop, as a part of the program.                              *)

(* The decode loop's invariant holds throughout, as no pass touches its    *)
(* state.                                                                  *)
LEMMA DecodesFirst == PipelineInit => Init
  BY DEF PipelineInit

LEMMA OnlyDecodeStepDecodes ==
  ASSUME [PipelineNext]_vars
  PROVE  DecodeStep \/ UNCHANGED <<input, decoding>>
<1>1. CASE UNCHANGED vars
  BY <1>1 DEF vars, decoder
<1>2. ASSUME NEW f, NEW name, LeavePass(name, f)
      PROVE  UNCHANGED <<input, decoding>>
  BY <1>2 DEF LeavePass, decoder
<1>3. ASSUME NEW name, Starting(name) \/ Working(name)
      PROVE  UNCHANGED <<input, decoding>>
  BY <1>3 DEF Starting, Working, decoder
<1>4. CASE PassOverNothing \/ EndBuild \/ EndPropagation \/ EndInference \/ EndStructuring
  BY <1>2, <1>4 DEF PassOverNothing, EndBuild, EndPropagation, EndInference, EndStructuring
<1>5. CASE StartBuild \/ Build \/ StartPropagation \/ Propagate
  BY <1>3, <1>5 DEF StartBuild, Build, StartPropagation, Propagate
<1>6. CASE StartInference \/ Infer \/ StartStructuring \/ Structure
  BY <1>3, <1>6 DEF StartInference, Infer, StartStructuring, Structure
<1>7. CASE ReturnFunction \/ StartRun \/ RunBlock \/ Ended
  BY <1>7 DEF ReturnFunction, StartRun, RunBlock, Ended, vars, decoder
<1>8. QED
  BY <1>1, <1>4, <1>5, <1>6, <1>7 DEF PipelineNext

LEMMA DecodesThroughout ==
  ASSUME [PipelineNext]_vars
  PROVE  [Next]_<<input, decoding>>
  BY OnlyDecodeStepDecodes DEF DecodeStep, Next

LEMMA DecodeInvariant == PipelineSpec => []Inv
<1>1. PipelineInit => Inv
  BY DecodesFirst, InvInitially
<1>2. Inv /\ [PipelineNext]_vars => Inv'
  BY DecodesThroughout, InvPreserved
<1>3. QED
  BY <1>1, <1>2, PTL DEF PipelineSpec

(* What the passes are handed by the decode loop, in the whole program and *)
(* for any bytes, is what CfgBuilder takes for granted: contiguous         *)
(* instructions with ascending addresses (unless they wrap around), at     *)
(* most one control transfer in each, no instruction behind a return, and  *)
(* temporaries of their own (main.rs:82-84, 123-138; traits.rs:86-95).     *)
THEOREM PassesGetStream == PipelineSpec => []DecodedIsStream
  BY DecodeInvariant, InvIsStream, PTL

-----------------------------------------------------------------------------
(* The order of the passes.                                                *)

(* The function changes only when it is returned or a pass ends.           *)
LEMMA FunctionChanges ==
  ASSUME [PipelineNext]_vars
  PROVE  \/ UNCHANGED <<function, next_pass>>
         \/ ReturnFunction \/ PassOverNothing
         \/ EndBuild \/ EndPropagation \/ EndInference \/ EndStructuring
<1>1. CASE UNCHANGED vars
  BY <1>1 DEF vars
<1>3. ASSUME NEW name, Starting(name) \/ Working(name)
      PROVE  UNCHANGED <<function, next_pass>>
  BY <1>3 DEF Starting, Working
<1>5. CASE StartBuild \/ Build \/ StartPropagation \/ Propagate
  BY <1>3, <1>5 DEF StartBuild, Build, StartPropagation, Propagate
<1>6. CASE StartInference \/ Infer \/ StartStructuring \/ Structure
  BY <1>3, <1>6 DEF StartInference, Infer, StartStructuring, Structure
<1>7. CASE DecodeStep \/ StartRun \/ RunBlock \/ Ended
  BY <1>7 DEF DecodeStep, StartRun, RunBlock, Ended, vars
<1>8. QED
  BY <1>1, <1>5, <1>6, <1>7 DEF PipelineNext

(* A function, field by field, and what updating fields leaves of it.      *)
Fields(e, bs, ind, ts, tr) ==
  [entry |-> e, blocks |-> bs, index |-> ind, types |-> ts, ast |-> tr]

LEMMA FieldsEqual ==
  ASSUME NEW f, NEW e, NEW bs, NEW ind, NEW ts, NEW tr,
         f = Fields(e, bs, ind, ts, tr)
  PROVE  /\ f.entry = e /\ f.blocks = bs /\ f.index = ind /\ f.types = ts /\ f.ast = tr
         /\ f = Fields(f.entry, f.blocks, f.index, f.types, f.ast)
  BY DEF Fields

LEMMA FieldsAre ==
  ASSUME NEW e, NEW bs, NEW ind, NEW ts, NEW tr
  PROVE  /\ Fields(e, bs, ind, ts, tr).entry = e
         /\ Fields(e, bs, ind, ts, tr).blocks = bs
         /\ Fields(e, bs, ind, ts, tr).index = ind
         /\ Fields(e, bs, ind, ts, tr).types = ts
         /\ Fields(e, bs, ind, ts, tr).ast = tr
  BY DEF Fields

(* The block that process_function returns.                                *)
FirstBlock ==
  [start_address |-> base, instructions |-> block, successors |-> {}, predecessors |-> {}]

OrderInv ==
  /\ next_pass \in 0 .. 5
  /\ \E e, bs, ind, ts, tr : function = Fields(e, bs, ind, ts, tr)
  /\ next_pass = 0 => function.ast = {} /\ ~ working
  /\ next_pass <= 4 => function.ast = {}
  /\ next_pass > 0 => progress = "done" /\ function.entry = base
  /\ next_pass = 1 => function.blocks = <<FirstBlock>> /\ function.index = <<>>

LEMMA PassNumbers ==
  ASSUME next_pass \in 0 .. 5
  PROVE  /\ AtPass("CfgBuilder") <=> next_pass = 1
         /\ AtPass("ConstantPropagation") <=> next_pass = 2
         /\ AtPass("TypeInference") <=> next_pass = 3
         /\ AtPass("Structurer") <=> next_pass = 4
         /\ PassesDone <=> next_pass = 5
  BY DEF AtPass, Passes, PassesDone

LEMMA OrderInitially == PipelineInit => OrderInv
<1> SUFFICES ASSUME PipelineInit PROVE OrderInv
  OBVIOUS
<1>1. function = Fields(0, <<>>, <<>>, <<>>, {}) /\ next_pass = 0 /\ ~ working
  BY DEF PipelineInit, NoFunction, Fields
<1>2. function.ast = {}
  BY <1>1, FieldsEqual
<1> QED
  BY <1>1, <1>2 DEF OrderInv

(* What a step that leaves a pass does to the function.                    *)
(* The steps that leave a pass, by what they make of the function.         *)
Edits(from, e, bs, ind, ts, tr) ==
  /\ next_pass = from /\ next_pass' = from + 1 /\ working' = FALSE
  /\ UNCHANGED <<input, decoding>>
  /\ function' = Fields(e, bs, ind, ts, tr)

Returned ==
  /\ progress = "done" /\ next_pass = 0 /\ next_pass' = 1 /\ working' = working
  /\ UNCHANGED <<input, decoding>>
  /\ function' = Fields(base, <<FirstBlock>>, <<>>, <<>>, {})

Built ==
  /\ working /\ Builder!Done
  /\ Edits(1, function.entry, BuiltBlocks, index, function.types, function.ast)

Rewritten ==
  /\ working /\ phase = "rewrite" /\ b > Len(function.blocks)
  /\ Edits(2, function.entry, RewrittenBlocks, function.index, function.types, function.ast)

Skipped ==
  /\ function.blocks = <<>>
  /\ Edits(2, function.entry, function.blocks, function.index, function.types, function.ast)

Typed ==
  Edits(3, function.entry, function.blocks, function.index, types, function.ast)

Recovered ==
  \E tr : /\ \A t \in tr : t.code = Printed
          /\ Edits(4, function.entry, function.blocks, function.index, function.types, tr)

LEMMA ReturnMeans == ASSUME ReturnFunction PROVE Returned
<1> DEFINE g == [NoFunction EXCEPT !.entry = base]
<1>1. g = [entry |-> base, blocks |-> <<>>, index |-> <<>>, types |-> <<>>, ast |-> {}]
  BY DEF NoFunction
<1>2. function' = [g EXCEPT !.blocks = <<FirstBlock>>]
  BY DEF ReturnFunction, FirstBlock
<1> HIDE DEF g
<1>3. \A x : [g EXCEPT !.blocks = x] =
               [entry |-> base, blocks |-> x, index |-> <<>>, types |-> <<>>, ast |-> {}]
  BY <1>1
<1>4. function' = Fields(base, <<FirstBlock>>, <<>>, <<>>, {})
  BY <1>2, <1>3, Zenon DEF Fields
<1> QED
  BY <1>4, Zenon DEF ReturnFunction, Returned, decoder

LEMMA LeavingEdits ==
  ASSUME OrderInv, NEW from \in 1 .. 4, NEW f, LeavePass(Passes[from], f),
         NEW e, NEW bs, NEW ind, NEW ts, NEW tr, f = Fields(e, bs, ind, ts, tr)
  PROVE  Edits(from, e, bs, ind, ts, tr)
<1>1. /\ AtPass(Passes[from]) /\ next_pass' = next_pass + 1 /\ function' = f /\ ~ working'
      /\ UNCHANGED <<input, decoding>> /\ working' = FALSE
  BY DEF LeavePass, decoder
<1>2. next_pass = from
  BY <1>1, PassNumbers DEF OrderInv, Passes
<1> QED
  BY <1>1, <1>2 DEF Edits

LEMMA FunctionIs ==
  ASSUME OrderInv
  PROVE  function =
           Fields(function.entry, function.blocks, function.index, function.types, function.ast)
  BY FieldsEqual DEF OrderInv

LEMMA FunctionUpdated ==
  ASSUME OrderInv, NEW x
  PROVE  /\ [function EXCEPT !.blocks = x] =
               Fields(function.entry, x, function.index, function.types, function.ast)
         /\ [function EXCEPT !.types = x] =
               Fields(function.entry, function.blocks, function.index, x, function.ast)
         /\ [function EXCEPT !.ast = x] =
               Fields(function.entry, function.blocks, function.index, function.types, x)
<1>1. function = [entry |-> function.entry, blocks |-> function.blocks,
                  index |-> function.index, types |-> function.types, ast |-> function.ast]
  BY FunctionIs, Zenon DEF Fields
<1>2. [function EXCEPT !.blocks = x] =
        [entry |-> function.entry, blocks |-> x, index |-> function.index,
         types |-> function.types, ast |-> function.ast]
  BY <1>1
<1>3. [function EXCEPT !.types = x] =
        [entry |-> function.entry, blocks |-> function.blocks, index |-> function.index,
         types |-> x, ast |-> function.ast]
  BY <1>1
<1>4. [function EXCEPT !.ast = x] =
        [entry |-> function.entry, blocks |-> function.blocks, index |-> function.index,
         types |-> function.types, ast |-> x]
  BY <1>1
<1> QED
  BY <1>2, <1>3, <1>4, Zenon DEF Fields

LEMMA PassNames ==
  /\ Passes[1] = "CfgBuilder" /\ Passes[2] = "ConstantPropagation"
  /\ Passes[3] = "TypeInference" /\ Passes[4] = "Structurer"
  BY DEF Passes

LEMMA BuildMeans == ASSUME OrderInv, EndBuild PROVE Built
<1> DEFINE g == [function EXCEPT !.blocks = BuiltBlocks]
<1>1. function = [entry |-> function.entry, blocks |-> function.blocks,
                  index |-> function.index, types |-> function.types, ast |-> function.ast]
  BY FunctionIs, Zenon DEF Fields
<1>2. g = [entry |-> function.entry, blocks |-> BuiltBlocks,
           index |-> function.index, types |-> function.types, ast |-> function.ast]
  <2>1. \A x : [function EXCEPT !.blocks = x] =
                 [entry |-> function.entry, blocks |-> x, index |-> function.index,
                  types |-> function.types, ast |-> function.ast]
    BY <1>1
  <2> QED
    BY <2>1, Zenon
<1>3. LeavePass("CfgBuilder", [g EXCEPT !.index = index]) /\ working /\ Builder!Done
  BY DEF EndBuild
<1> HIDE DEF g
<1>4. [g EXCEPT !.index = index] =
        Fields(function.entry, BuiltBlocks, index, function.types, function.ast)
  <2>1. \A x : [g EXCEPT !.index = x] =
                 [entry |-> function.entry, blocks |-> BuiltBlocks, index |-> x,
                  types |-> function.types, ast |-> function.ast]
    BY <1>2
  <2> QED
    BY <2>1, Zenon DEF Fields
<1>5. 1 \in 1 .. 4
  OBVIOUS
<1>6. Edits(1, function.entry, BuiltBlocks, index, function.types, function.ast)
  BY <1>3, <1>4, <1>5, PassNames, LeavingEdits, Zenon
<1> QED
  BY <1>3, <1>6, Zenon DEF Built

LEMMA RewriteMeans == ASSUME OrderInv, EndPropagation PROVE Rewritten
<1>1. \A x : [function EXCEPT !.blocks = x] =
               Fields(function.entry, x, function.index, function.types, function.ast)
  BY FunctionUpdated, Zenon
<1>2. LeavePass("ConstantPropagation", [function EXCEPT !.blocks = RewrittenBlocks])
  BY DEF EndPropagation
<1>3. 2 \in 1 .. 4
  OBVIOUS
<1>4. Edits(2, function.entry, RewrittenBlocks, function.index, function.types, function.ast)
  BY <1>1, <1>2, <1>3, PassNames, LeavingEdits, Zenon
<1> QED
  BY <1>4, Zenon DEF Rewritten, EndPropagation

LEMMA TypingMeans == ASSUME OrderInv, EndInference PROVE Typed
<1>1. [function EXCEPT !.types = types] =
        Fields(function.entry, function.blocks, function.index, types, function.ast)
  BY FunctionUpdated, Zenon
<1>2. LeavePass("TypeInference", [function EXCEPT !.types = types])
  BY DEF EndInference
<1>3. 3 \in 1 .. 4
  OBVIOUS
<1> QED
  BY <1>1, <1>2, <1>3, PassNames, LeavingEdits, Zenon DEF Typed

LEMMA RecoveryMeans == ASSUME OrderInv, EndStructuring PROVE Recovered
<1> DEFINE tr == {[tree |-> ast, code |-> Printed]}
<1>1. [function EXCEPT !.ast = tr] =
        Fields(function.entry, function.blocks, function.index, function.types, tr)
  BY FunctionUpdated, Zenon
<1>2. LeavePass("Structurer", [function EXCEPT !.ast = tr])
  BY DEF EndStructuring
<1>3. 4 \in 1 .. 4
  OBVIOUS
<1>4. \A t \in tr : t.code = Printed
  OBVIOUS
<1> HIDE DEF tr
<1>5. Edits(4, function.entry, function.blocks, function.index, function.types, tr)
  BY <1>1, <1>2, <1>3, <1>4, PassNames, LeavingEdits, Zenon
<1> QED
  BY <1>4, <1>5, Zenon DEF Recovered

(* Without blocks there is nothing to print.                               *)
LEMMA NothingPrinted == function.blocks = <<>> => Printed = <<>>
  BY DEF Printed, Starts

LEMMA SkipMeans == ASSUME OrderInv, PassOverNothing PROVE Skipped \/ Recovered
<1>1. CASE LeavePass("ConstantPropagation", function)
  <2>1. 2 \in 1 .. 4
    OBVIOUS
  <2> QED
    BY <1>1, <2>1, FunctionIs, PassNames, LeavingEdits, Zenon DEF PassOverNothing, Skipped
<1>2. CASE LeavePass("Structurer", [function EXCEPT !.ast = {[tree |-> <<>>, code |-> <<>>]}])
  <2> DEFINE tr == {[tree |-> <<>>, code |-> <<>>]}
  <2>1. [function EXCEPT !.ast = tr] =
          Fields(function.entry, function.blocks, function.index, function.types, tr)
    BY FunctionUpdated, Zenon
  <2>2. \A t \in tr : t.code = Printed
    BY NothingPrinted DEF PassOverNothing
  <2>3. 4 \in 1 .. 4
    OBVIOUS
  <2> HIDE DEF tr
  <2>4. LeavePass("Structurer", [function EXCEPT !.ast = tr])
    BY <1>2 DEF tr
  <2>5. Edits(4, function.entry, function.blocks, function.index, function.types, tr)
    BY <2>1, <2>2, <2>3, <2>4, PassNames, LeavingEdits, Zenon
  <2> QED
    BY <2>2, <2>5, Zenon DEF Recovered
<1> QED
  BY <1>1, <1>2 DEF PassOverNothing

LEMMA EveryEdit ==
  ASSUME OrderInv, [PipelineNext]_vars
  PROVE  \/ UNCHANGED <<function, next_pass>>
         \/ Returned \/ Built \/ Rewritten \/ Skipped \/ Typed \/ Recovered
  BY FunctionChanges, ReturnMeans, BuildMeans, RewriteMeans, TypingMeans, RecoveryMeans,
     SkipMeans, Zenon

(* A pass works only while it is its turn.                                 *)
LEMMA WorksInTurn ==
  ASSUME [PipelineNext]_vars, next_pass = 0, ~ working
  PROVE  ~ working'
<1>0. ASSUME NEW name PROVE ~ AtPass(name)
  BY DEF AtPass, Passes
<1>1. CASE UNCHANGED vars
  BY <1>1 DEF vars
<1>2. ASSUME NEW f, NEW name PROVE ~ LeavePass(name, f)
  BY <1>0 DEF LeavePass
<1>3. ASSUME NEW name PROVE ~ (Starting(name) \/ Working(name))
  BY <1>0 DEF Starting, Working
<1>4. CASE PassOverNothing \/ EndBuild \/ EndPropagation \/ EndInference \/ EndStructuring
  BY <1>2, <1>4 DEF PassOverNothing, EndBuild, EndPropagation, EndInference, EndStructuring
<1>5. CASE StartBuild \/ Build \/ StartPropagation \/ Propagate
  BY <1>3, <1>5 DEF StartBuild, Build, StartPropagation, Propagate
<1>6. CASE StartInference \/ Infer \/ StartStructuring \/ Structure
  BY <1>3, <1>6 DEF StartInference, Infer, StartStructuring, Structure
<1>7. CASE DecodeStep \/ ReturnFunction \/ StartRun \/ RunBlock \/ Ended
  BY <1>7 DEF DecodeStep, ReturnFunction, StartRun, RunBlock, Ended, vars
<1>8. QED
  BY <1>1, <1>4, <1>5, <1>6, <1>7 DEF PipelineNext

(* Once decoding is done it stays done.                                    *)
LEMMA DecodingStaysDone ==
  ASSUME [PipelineNext]_vars, progress = "done"
  PROVE  UNCHANGED <<input, decoding>>
  BY OnlyDecodeStepDecodes DEF DecodeStep

LEMMA OrderStep ==
  ASSUME OrderInv, [PipelineNext]_vars
  PROVE  OrderInv'
<1>1. CASE UNCHANGED <<function, next_pass>>
  <2>1. next_pass > 0 => UNCHANGED <<input, decoding>>
    BY DecodingStaysDone DEF OrderInv
  <2>2. next_pass > 0 => block' = block /\ base' = base /\ progress' = progress
    BY <2>1 DEF input, decoding
  <2>3. next_pass = 0 => ~ working'
    BY WorksInTurn DEF OrderInv
  <2>4. FirstBlock' = [start_address |-> base', instructions |-> block', successors |-> {},
                       predecessors |-> {}]
    BY DEF FirstBlock
  <2>5. next_pass > 0 => FirstBlock' = FirstBlock
    BY <2>2, <2>4 DEF FirstBlock
  <2> QED
    BY <1>1, <2>2, <2>3, <2>5 DEF OrderInv
<1>2. CASE Returned
  <2>1. /\ function' = Fields(base, <<FirstBlock>>, <<>>, <<>>, {}) /\ next_pass' = 1
        /\ progress' = "done" /\ base' = base /\ block' = block
    BY <1>2 DEF Returned, input, decoding
  <2>2. /\ function'.entry = base' /\ function'.blocks = <<FirstBlock>>
        /\ function'.index = <<>> /\ function'.ast = {}
    BY <2>1, FieldsAre
  <2>3. FirstBlock' = FirstBlock
    BY <2>1 DEF FirstBlock
  <2> QED
    BY <2>1, <2>2, <2>3 DEF OrderInv
<1>3. ASSUME NEW from \in 1 .. 4, NEW e, NEW bs, NEW ind, NEW ts, NEW tr,
             Edits(from, e, bs, ind, ts, tr), e = function.entry,
             from <= 3 => tr = function.ast
      PROVE  OrderInv'
  <2>1. /\ function' = Fields(e, bs, ind, ts, tr) /\ next_pass = from /\ next_pass' = from + 1
        /\ progress' = progress /\ base' = base
    BY <1>3 DEF Edits, input, decoding
  <2>2. function'.entry = e /\ function'.ast = tr
    BY <2>1, FieldsAre
  <2>3. from <= 3 => function'.ast = {}
    BY <1>3, <2>1, <2>2 DEF OrderInv
  <2>4. next_pass' \in 2 .. 5 /\ (next_pass' <= 4 => from <= 3)
    BY <2>1
  <2>5. progress' = "done" /\ function'.entry = base'
    BY <1>3, <2>1, <2>2 DEF OrderInv
  <2>6. \E ee, bb, ii, tt, aa : function' = Fields(ee, bb, ii, tt, aa)
    BY <2>1
  <2> QED
    BY <2>3, <2>4, <2>5, <2>6 DEF OrderInv
<1>4. CASE Built \/ Rewritten \/ Skipped \/ Typed \/ Recovered
  BY <1>3, <1>4 DEF Built, Rewritten, Skipped, Typed, Recovered
<1> QED
  BY <1>1, <1>2, <1>4, EveryEdit

-----------------------------------------------------------------------------
(* The tree and the instructions.                                          *)

(* Printed, of any blocks.                                                 *)
PrintedFrom(bs, ind) ==
  [a \in {bs[n].start_address : n \in DOMAIN bs} |->
     LET body == [n \in DOMAIN bs |-> OpsOf(bs[n].instructions)][ind[a]]
     IN  [ops |-> Straight(body), condition |-> Conditions(body)]]

LEMMA PrintedDepends == Printed = PrintedFrom(function.blocks, function.index)
  BY Zenon DEF Printed, PrintedFrom, Starts, Bodies

(* The tree is set by the step that ends the last pass, with what is       *)
(* printed then; nothing changes the function afterwards.                  *)
LEMMA CurrentStep ==
  ASSUME OrderInv, OrderInv', AstIsCurrent, [PipelineNext]_vars
  PROVE  AstIsCurrent'
<1> SUFFICES ASSUME PassesDone' PROVE (\A t \in function.ast : t.code = Printed)'
  BY DEF AstIsCurrent
<1>1. next_pass' = 5
  BY DEF OrderInv, PassesDone, Passes
<1>2. Printed' = PrintedFrom(function'.blocks, function'.index)
  BY Zenon DEF Printed, PrintedFrom, Starts, Bodies
<1>3. CASE UNCHANGED <<function, next_pass>>
  <2>1. PassesDone
    BY <1>3 DEF PassesDone
  <2>2. Printed' = Printed
    BY <1>2, <1>3, PrintedDepends
  <2> QED
    BY <1>3, <2>1, <2>2 DEF AstIsCurrent
<1>4. CASE Recovered
  <2>1. PICK tr : /\ \A t \in tr : t.code = Printed
                  /\ Edits(4, function.entry, function.blocks, function.index, function.types, tr)
    BY <1>4 DEF Recovered
  <2>2. function'.blocks = function.blocks /\ function'.index = function.index /\ function'.ast = tr
    BY <2>1, FieldsAre DEF Edits
  <2>3. Printed' = Printed
    BY <1>2, <2>2, PrintedDepends
  <2> QED
    BY <2>1, <2>2, <2>3
<1>5. ~ (Returned \/ Built \/ Rewritten \/ Skipped \/ Typed)
  BY <1>1 DEF Returned, Built, Rewritten, Skipped, Typed, Edits
<1> QED
  BY <1>3, <1>4, <1>5, EveryEdit

(* What is printed with the tree is what the last pass has left, for every *)
(* input and whatever the passes do: no rewrite is lost and no condition   *)
(* is stale, because the tree is recovered last                            *)
(* (output-c/src/lib.rs:32-36, types.rs:79-81).                            *)
THEOREM TreeIsCurrent == PipelineSpec => []AstIsCurrent
<1>1. PipelineInit => OrderInv /\ AstIsCurrent
  <2>1. PipelineInit => next_pass = 0
    BY DEF PipelineInit
  <2> QED
    BY <2>1, OrderInitially DEF AstIsCurrent, PassesDone, Passes
<1>2. OrderInv /\ AstIsCurrent /\ [PipelineNext]_vars => (OrderInv /\ AstIsCurrent)'
  BY OrderStep, CurrentStep
<1> QED
  BY <1>1, <1>2, PTL DEF PipelineSpec

-----------------------------------------------------------------------------
(* Flattened sequences.                                                    *)

(* What CfgProofs proves is used of the blocks of the function.            *)
LEMMA BuildingBytes == Building!ByteAssumption
  BY ByteAssumption DEF Building!ByteAssumption

LEMMA BuildingAddress == Building!AddressAssumption
  BY AddressAssumption DEF Building!AddressAssumption

LEMMA BuildingStream == Building!StreamAssumption
  BY DEF Building!StreamAssumption

LEMMA InductionUpTo ==
  ASSUME NEW n \in Nat, NEW T, n > 0 => 1 \in T,
         \A m \in 1 .. n : m < n /\ m \in T => m + 1 \in T
  PROVE  1 .. n \subseteq T
  BY BuildingBytes, BuildingAddress, BuildingStream, Building!InductionUpTo

LEMMA ConcatMeans ==
  ASSUME NEW S, NEW p \in Seq(S), NEW q \in Seq(S)
  PROVE  p \o q = [j \in 1 .. Len(p) + Len(q) |->
                     IF j <= Len(p) THEN p[j] ELSE q[j - Len(p)]]
  BY BuildingBytes, BuildingAddress, BuildingStream, Building!ConcatMeans

(* FlattenSeq is defined by recursion; its partial results UpTo are        *)
(* related one by one, by induction over positions.                        *)
LEMMA FlattenMeans ==
  ASSUME NEW s, Len(s) \in Nat \ {0}, NEW g,
         g = [m \in 1 .. Len(s) |-> IF m = 1 THEN s[m] ELSE g[m - 1] \o s[m]]
  PROVE  FlattenSeq(s) = g[Len(s)]
<1>1. FlattenSeq(s) = Building!Seqs!FlattenSeq(s)
  BY DEF FlattenSeq, Building!Seqs!FlattenSeq
<1> QED
  BY BuildingBytes, BuildingAddress, BuildingStream, <1>1, Building!FlattenMeans

(* g holds what the first y sequences of s are flattened to.               *)
Flattens(g, s, y) ==
  g = [m \in 1 .. y |-> IF m = 1 THEN s[m] ELSE g[m - 1] \o s[m]]

LEMMA FlattensExist ==
  ASSUME NEW n \in Nat, NEW s
  PROVE  \E g : Flattens(g, s, n)
<1> DEFINE T == {y \in 1 .. n : \E g : Flattens(g, s, y)}
<1>1. Flattens(<<s[1]>>, s, 1)
  BY DEF Flattens
<1>2. ASSUME NEW y \in 1 .. n, y < n, y \in T
      PROVE  y + 1 \in T
  <2>1. PICK g : Flattens(g, s, y)
    BY <1>2
  <2> DEFINE h == [m \in 1 .. y + 1 |-> IF m <= y THEN g[m] ELSE g[y] \o s[m]]
  <2>2. ASSUME NEW m \in 1 .. y + 1
        PROVE  h[m] = IF m = 1 THEN s[m] ELSE h[m - 1] \o s[m]
    <3>1. CASE m <= y
      <4>1. m \in 1 .. y /\ (m # 1 => m - 1 \in 1 .. y + 1 /\ m - 1 <= y)
        BY <3>1
      <4>2. h[m] = g[m] /\ (m # 1 => h[m - 1] = g[m - 1])
        BY <4>1, <3>1
      <4> QED
        BY <2>1, <4>1, <4>2 DEF Flattens
    <3>2. CASE m > y
      <4>1. m \in Int /\ m - 1 = y /\ y \in 1 .. y + 1 /\ m # 1 /\ y <= y /\ ~ (m <= y)
        BY <3>2
      <4>2. h[m] = g[y] \o s[m] /\ h[y] = g[y]
        BY <4>1
      <4> HIDE DEF h
      <4> QED
        BY <4>1, <4>2
    <3> QED
      BY <3>1, <3>2
  <2>3. Flattens(h, s, y + 1)
    <3>1. h = [m \in 1 .. y + 1 |-> h[m]]
      OBVIOUS
    <3> HIDE DEF h
    <3> QED
      BY <2>2, <3>1 DEF Flattens
  <2>4. y + 1 \in 1 .. n
    BY <1>2
  <2> QED
    BY <2>3, <2>4
<1>3. n > 0 => 1 \in T
  <2>1. n > 0 => 1 \in 1 .. n
    OBVIOUS
  <2> QED
    BY <1>1, <2>1
<1>4. 1 .. n \subseteq T
  <2> HIDE DEF T
  <2> QED
    BY <1>2, <1>3, InductionUpTo
<1>5. CASE n = 0
  <2>1. Flattens(<<>>, s, 0)
    BY DEF Flattens
  <2> QED
    BY <1>5, <2>1
<1>6. CASE n > 0
  <2>1. n \in 1 .. n
    BY <1>6
  <2> QED
    BY <1>4, <2>1
<1> QED
  BY <1>5, <1>6

(* The first m sequences of s, flattened.                                  *)
UpTo(s, m) == FlattenSeq(SubSeq(s, 1, m))

LEMMA UpToMeans ==
  ASSUME NEW S, NEW s \in Seq(Seq(S)), NEW g, Flattens(g, s, Len(s)), NEW m \in 1 .. Len(s)
  PROVE  UpTo(s, m) = g[m]
<1> DEFINE t == SubSeq(s, 1, m)
           h == [y \in 1 .. m |-> g[y]]
<1>1. /\ Len(s) \in Nat /\ t \in Seq(Seq(S)) /\ Len(t) = m /\ m \in Nat \ {0}
      /\ \A y \in 1 .. m : t[y] = s[y]
  OBVIOUS
<1>2. ASSUME NEW y \in 1 .. m
      PROVE  h[y] = IF y = 1 THEN t[y] ELSE h[y - 1] \o t[y]
  <2>1. y \in 1 .. Len(s) /\ (y # 1 => y - 1 \in 1 .. m)
    BY <1>1
  <2>2. h[y] = g[y] /\ (y # 1 => h[y - 1] = g[y - 1]) /\ t[y] = s[y]
    BY <1>1, <2>1
  <2>3. g[y] = IF y = 1 THEN s[y] ELSE g[y - 1] \o s[y]
    BY <2>1 DEF Flattens
  <2> HIDE DEF h, t
  <2> QED
    BY <2>2, <2>3
<1>3. h = [y \in 1 .. m |-> h[y]]
  OBVIOUS
<1>4. m \in 1 .. m
  BY <1>1
<1>5. h[m] = g[m]
  BY <1>4
<1> HIDE DEF h, t
<1>6. h = [y \in 1 .. Len(t) |-> IF y = 1 THEN t[y] ELSE h[y - 1] \o t[y]]
  BY <1>1, <1>2, <1>3
<1>7. FlattenSeq(t) = h[Len(t)]
  BY <1>1, <1>6, FlattenMeans
<1> QED
  BY <1>1, <1>5, <1>7 DEF UpTo, t

LEMMA UpToGrows ==
  ASSUME NEW S, NEW s \in Seq(Seq(S))
  PROVE  /\ UpTo(s, 0) = <<>> /\ UpTo(s, Len(s)) = FlattenSeq(s)
         /\ \A m \in 0 .. Len(s) : UpTo(s, m) \in Seq(S)
         /\ \A m \in 1 .. Len(s) : UpTo(s, m) = UpTo(s, m - 1) \o s[m]
<1> DEFINE n == Len(s)
<1>0. n \in Nat /\ \A m \in 1 .. n : s[m] \in Seq(S)
  OBVIOUS
<1>1. PICK g : Flattens(g, s, n)
  BY <1>0, FlattensExist
<1>2. \A m \in 1 .. n : UpTo(s, m) = g[m]
  BY <1>1, UpToMeans
<1>3. UpTo(s, 0) = <<>>
  <2>1. SubSeq(s, 1, 0) = <<>>
    OBVIOUS
  <2>2. Len(<<>>) = 0
    OBVIOUS
  <2> QED
    BY <2>1, <2>2 DEF UpTo, FlattenSeq
<1>4. SubSeq(s, 1, n) = s
  OBVIOUS
<1>5. ASSUME NEW m \in 1 .. n
      PROVE  UpTo(s, m) = UpTo(s, m - 1) \o s[m]
  <2>1. g[m] = IF m = 1 THEN s[m] ELSE g[m - 1] \o s[m]
    BY <1>1 DEF Flattens
  <2>2. CASE m = 1
    <3>1. <<>> \o s[1] = s[1]
      BY <1>0, <2>2
    <3> QED
      BY <1>2, <1>3, <2>1, <2>2, <3>1
  <2>3. CASE m # 1
    <3>1. m - 1 \in 1 .. n
      BY <1>0, <2>3
    <3> QED
      BY <1>2, <2>1, <2>3, <3>1
  <2> QED
    BY <2>2, <2>3
<1>6. ASSUME NEW m \in 0 .. n PROVE UpTo(s, m) \in Seq(S)
  <2> DEFINE T == {y \in 1 .. n : UpTo(s, y) \in Seq(S)}
  <2>1. <<>> \in Seq(S)
    OBVIOUS
  <2>2. ASSUME NEW y \in 1 .. n, UpTo(s, y - 1) \in Seq(S)
        PROVE  UpTo(s, y) \in Seq(S)
    <3>1. \A p, q \in Seq(S) : p \o q \in Seq(S)
      OBVIOUS
    <3> QED
      BY <1>0, <1>5, <2>2, <3>1
  <2>3. n > 0 => 1 \in T
    <3>1. n > 0 => 1 \in 1 .. n /\ 1 - 1 = 0
      BY <1>0
    <3>2. n > 0 => UpTo(s, 1 - 1) \in Seq(S)
      BY <1>3, <2>1, <3>1, Zenon
    <3> QED
      BY <2>2, <3>1, <3>2
  <2>4. \A y \in 1 .. n : y < n /\ y \in T => y + 1 \in T
    <3>1. \A y \in 1 .. n : y < n => y + 1 \in 1 .. n /\ (y + 1) - 1 = y
      BY <1>0
    <3> QED
      BY <2>2, <3>1
  <2>5. 1 .. n \subseteq T
    <3> HIDE DEF T, n
    <3> QED
      BY <1>0, <2>3, <2>4, InductionUpTo
  <2>6. m = 0 \/ m \in 1 .. n
    BY <1>0
  <2> QED
    BY <1>3, <2>1, <2>5, <2>6
<1> QED
  BY <1>3, <1>4, <1>5, <1>6 DEF UpTo

LEMMA ConcatPlaces ==
  ASSUME NEW S, NEW p \in Seq(S), NEW q \in Seq(S)
  PROVE  /\ p \o q \in Seq(S) /\ Len(p) \in Nat /\ Len(q) \in Nat
         /\ Len(p \o q) = Len(p) + Len(q)
         /\ \A x \in 1 .. Len(p) : (p \o q)[x] = p[x]
         /\ \A x \in 1 .. Len(q) : (p \o q)[Len(p) + x] = q[x]
  OBVIOUS

(* r is p and behind it q.                                                 *)
Joins(r, p, q) ==
  /\ Len(p) \in Nat /\ Len(q) \in Nat /\ Len(r) = Len(p) + Len(q)
  /\ \A x \in 1 .. Len(p) : r[x] = p[x]
  /\ \A x \in 1 .. Len(q) : r[Len(p) + x] = q[x]

LEMMA ConcatJoins ==
  ASSUME NEW S, NEW p \in Seq(S), NEW q \in Seq(S)
  PROVE  Joins(p \o q, p, q)
  BY ConcatPlaces DEF Joins

(* What has been flattened stays where it is.                              *)
LEMMA UpToStays ==
  ASSUME NEW S, NEW s \in Seq(Seq(S)), NEW m \in 1 .. Len(s)
  PROVE  /\ Len(UpTo(s, m)) <= Len(FlattenSeq(s))
         /\ \A x \in 1 .. Len(UpTo(s, m)) : FlattenSeq(s)[x] = UpTo(s, m)[x]
<1> DEFINE n == Len(s)
           Kept(y) == /\ Len(UpTo(s, m)) <= Len(UpTo(s, y))
                      /\ \A x \in 1 .. Len(UpTo(s, m)) : UpTo(s, y)[x] = UpTo(s, m)[x]
           T == {y \in 1 .. n : y >= m => Kept(y)}
<1>0. /\ n \in Nat /\ m \in 1 .. n
      /\ \A y \in 1 .. n : s[y] \in Seq(S) /\ y \in 0 .. n
  OBVIOUS
<1>1. \A y \in 1 .. n : UpTo(s, y) \in Seq(S) /\ Len(UpTo(s, y)) \in Nat
  <2>1. \A y \in 1 .. n : UpTo(s, y) \in Seq(S)
    BY <1>0, UpToGrows
  <2>2. \A p \in Seq(S) : Len(p) \in Nat
    OBVIOUS
  <2> QED
    BY <2>1, <2>2
<1>2. Kept(m)
  BY <1>1
<1>3. ASSUME NEW y \in 1 .. n, y < n, y \in T
      PROVE  y + 1 \in T
  <2>0. y + 1 \in 1 .. n /\ (y + 1) - 1 = y
    BY <1>0, <1>3
  <2>1. CASE y + 1 < m
    BY <1>0, <2>0, <2>1
  <2>2. CASE y + 1 = m
    BY <1>2, <2>0, <2>2
  <2>3. ASSUME y >= m PROVE Kept(y + 1)
    <3> DEFINE u == UpTo(s, y)
               w == UpTo(s, y + 1)
    <3>1. Kept(y)
      BY <1>3, <2>3
    <3>2. w = u \o s[y + 1]
      BY <2>0, UpToGrows
    <3>3. /\ Len(w) = Len(u) + Len(s[y + 1]) /\ Len(u) \in Nat /\ Len(s[y + 1]) \in Nat
          /\ \A x \in 1 .. Len(u) : w[x] = u[x]
      <4>1. u \in Seq(S) /\ s[y + 1] \in Seq(S)
        BY <1>0, <1>1, <2>0
      <4> HIDE DEF u, w
      <4> QED
        BY <3>2, <4>1, ConcatPlaces
    <3>4. Len(UpTo(s, m)) \in Nat
      BY <1>0, <1>1
    <3>5. Len(UpTo(s, m)) <= Len(u) /\ \A x \in 1 .. Len(UpTo(s, m)) : u[x] = UpTo(s, m)[x]
      BY <3>1
    <3> HIDE DEF u, w
    <3>6. \A x \in 1 .. Len(UpTo(s, m)) : x \in 1 .. Len(u)
      BY <3>3, <3>4, <3>5
    <3>7. Len(UpTo(s, m)) <= Len(w) /\ \A x \in 1 .. Len(UpTo(s, m)) : w[x] = UpTo(s, m)[x]
      BY <3>3, <3>4, <3>5, <3>6
    <3> QED
      BY <3>7 DEF w
  <2>4. y + 1 < m \/ y + 1 = m \/ y >= m
    BY <1>0
  <2> HIDE DEF Kept
  <2> QED
    BY <2>0, <2>1, <2>2, <2>3, <2>4
<1>4. 1 .. n \subseteq T
  <2>1. n > 0 => 1 \in T
    <3>1. CASE m = 1
      BY <1>0, <1>2, <3>1
    <3>2. CASE m # 1
      BY <1>0, <3>2
    <3> QED
      BY <3>1, <3>2
  <2> HIDE DEF T, n
  <2> QED
    BY <1>0, <1>3, <2>1, InductionUpTo
<1>5. Kept(n)
  <2>1. n \in 1 .. n /\ n >= m
    BY <1>0
  <2> QED
    BY <1>4, <2>1
<1>6. UpTo(s, n) = FlattenSeq(s)
  BY UpToGrows
<1> QED
  BY <1>5, <1>6

(* Where the m-th sequence is found in the flattened one.                  *)
LEMMA FlattenPlaces ==
  ASSUME NEW S, NEW s \in Seq(Seq(S)), NEW m \in 1 .. Len(s)
  PROVE  /\ Len(UpTo(s, m - 1)) \in Nat /\ Len(s[m]) \in Nat
         /\ Len(UpTo(s, m)) = Len(UpTo(s, m - 1)) + Len(s[m])
         /\ Len(UpTo(s, m)) <= Len(FlattenSeq(s))
         /\ \A x \in 1 .. Len(s[m]) : FlattenSeq(s)[Len(UpTo(s, m - 1)) + x] = s[m][x]
<1> DEFINE u == UpTo(s, m - 1)
           w == UpTo(s, m)
<1>1. m - 1 \in 0 .. Len(s) /\ s[m] \in Seq(S)
  OBVIOUS
<1>2. u \in Seq(S) /\ w = u \o s[m]
  BY <1>1, UpToGrows
<1>3. Len(w) <= Len(FlattenSeq(s)) /\ \A x \in 1 .. Len(w) : FlattenSeq(s)[x] = w[x]
  BY UpToStays
<1> HIDE DEF u, w
<1>4. /\ Len(u) \in Nat /\ Len(s[m]) \in Nat /\ Len(w) = Len(u) + Len(s[m])
      /\ \A x \in 1 .. Len(s[m]) : w[Len(u) + x] = s[m][x]
  BY <1>1, <1>2, ConcatPlaces
<1>5. \A x \in 1 .. Len(s[m]) : Len(u) + x \in 1 .. Len(w)
  BY <1>4
<1> QED
  BY <1>3, <1>4, <1>5 DEF u, w

(* Sequences of instructions with the same addresses.                      *)
SameAddresses(p, q) ==
  Len(p) = Len(q) /\ \A x \in 1 .. Len(p) : p[x].address = q[x].address

LEMMA JoinsSameAddresses ==
  ASSUME NEW p, NEW q, NEW u, NEW v, NEW r, NEW t, Joins(r, p, u), Joins(t, q, v),
         SameAddresses(p, q), SameAddresses(u, v)
  PROVE  SameAddresses(r, t)
<1>1. /\ Len(p) \in Nat /\ Len(u) \in Nat /\ Len(q) = Len(p) /\ Len(v) = Len(u)
      /\ Len(r) = Len(p) + Len(u) /\ Len(t) = Len(p) + Len(u)
  BY DEF Joins, SameAddresses
<1>2. \A x \in 1 .. Len(p) : r[x] = p[x] /\ t[x] = q[x] /\ p[x].address = q[x].address
  BY <1>1 DEF Joins, SameAddresses
<1>3. \A x \in 1 .. Len(u) : /\ r[Len(p) + x] = u[x] /\ t[Len(p) + x] = v[x]
                            /\ u[x].address = v[x].address
  BY <1>1 DEF Joins, SameAddresses
<1>4. ASSUME NEW x \in 1 .. Len(p) + Len(u)
      PROVE  x \in 1 .. Len(p) \/ \E y \in 1 .. Len(u) : x = Len(p) + y
  <2>1. x \in 1 .. Len(p) \/ (x - Len(p) \in 1 .. Len(u) /\ x = Len(p) + (x - Len(p)))
    BY <1>1
  <2> QED
    BY <2>1
<1>5. ASSUME NEW x \in 1 .. Len(p) + Len(u) PROVE r[x].address = t[x].address
  <2>1. CASE x \in 1 .. Len(p)
    BY <1>2, <2>1
  <2>2. CASE \E y \in 1 .. Len(u) : x = Len(p) + y
    BY <1>3, <2>2
  <2> QED
    BY <1>4, <2>1, <2>2
<1> QED
  BY <1>1, <1>5 DEF SameAddresses

LEMMA FlattenSameAddresses ==
  ASSUME NEW S, NEW s \in Seq(Seq(S)), NEW t \in Seq(Seq(S)), Len(s) = Len(t),
         \A m \in 1 .. Len(s) : SameAddresses(s[m], t[m])
  PROVE  SameAddresses(FlattenSeq(s), FlattenSeq(t))
<1> DEFINE n == Len(s)
           T == {m \in 1 .. n : SameAddresses(UpTo(s, m), UpTo(t, m))}
<1>0. /\ n \in Nat /\ Len(t) = n
      /\ \A m \in 1 .. n : s[m] \in Seq(S) /\ t[m] \in Seq(S) /\ m - 1 \in 0 .. n
  OBVIOUS
<1>1. ASSUME NEW m \in 1 .. n, SameAddresses(UpTo(s, m - 1), UpTo(t, m - 1))
      PROVE  SameAddresses(UpTo(s, m), UpTo(t, m))
  <2> DEFINE p == UpTo(s, m - 1)
             q == UpTo(t, m - 1)
  <2>1. /\ p \in Seq(S) /\ q \in Seq(S)
        /\ UpTo(s, m) = p \o s[m] /\ UpTo(t, m) = q \o t[m]
    BY <1>0, UpToGrows
  <2>2. SameAddresses(p, q) /\ SameAddresses(s[m], t[m])
    BY <1>1
  <2> HIDE DEF p, q, n
  <2>3. /\ s[m] \in Seq(S) /\ t[m] \in Seq(S)
    BY <1>0
  <2> DEFINE u == s[m]
             v == t[m]
  <2>4. /\ u \in Seq(S) /\ v \in Seq(S) /\ SameAddresses(u, v)
    BY <2>2, <2>3
  <2> HIDE DEF u, v
  <2>5. SameAddresses(p \o u, q \o v)
    <3>1. Joins(p \o u, p, u) /\ Joins(q \o v, q, v)
      BY <2>1, <2>4, ConcatJoins, Zenon
    <3> QED
      BY <2>2, <2>4, <3>1, JoinsSameAddresses
  <2> QED
    BY <2>1, <2>5 DEF u, v
<1>2. SameAddresses(UpTo(s, 0), UpTo(t, 0))
  BY UpToGrows DEF SameAddresses
<1>3. n > 0 => 1 \in T
  <2>1. n > 0 => 1 \in 1 .. n /\ 1 - 1 = 0
    BY <1>0
  <2>2. SameAddresses(UpTo(s, 1 - 1), UpTo(t, 1 - 1))
    BY <1>2
  <2> QED
    BY <1>1, <2>1, <2>2
<1>4. ASSUME NEW m \in 1 .. n, m < n, m \in T PROVE m + 1 \in T
  <2>1. m + 1 \in 1 .. n /\ (m + 1) - 1 = m
    BY <1>0, <1>4
  <2> QED
    BY <1>1, <1>4, <2>1
<1>5. 1 .. n \subseteq T
  <2> HIDE DEF T, n
  <2> QED
    BY <1>0, <1>3, <1>4, InductionUpTo
<1>6. SameAddresses(UpTo(s, n), UpTo(t, n))
  <2>1. n = 0 \/ n \in 1 .. n
    BY <1>0
  <2> QED
    BY <1>2, <1>5, <2>1
<1> QED
  BY <1>0, <1>6, UpToGrows

-----------------------------------------------------------------------------
(* The names of Varnodes.  The backends give every register number one     *)
(* size, and every temporary a number of its own, so that in the lifted    *)
(* instructions a name, which leaves out the size, means one Varnode.      *)

(* The Varnodes of an operation that are printed with a name.              *)
Names(op) ==
  {v \in UsedIn(op) \union (IF HasDest(op) THEN {op.dest} ELSE {}) : v.space # "Constant"}

(* The size of a register depends on its number alone.                     *)
RegisterOf(n) ==
  Register(n, IF arch = "arm" THEN (IF n = 1000 THEN ArmFlagSize ELSE ArmRegSize)
              ELSE IF n = 1000 THEN 1 ELSE X86RegSize)

IsRegister(v) == v.space = "Register" /\ v = RegisterOf(v.offset)

(* A constant, a register, or the one temporary of an instruction.         *)
NameOK(v, next, high, size) ==
  \/ v.space = "Constant"
  \/ IsRegister(v)
  \/ v = Varnode("Unique", next, size) /\ next < high

NamesOK(op, next, high, size) == \A v \in Names(op) : NameOK(v, next, high, size)

LiftNames(ops, next, high, size) ==
  \A op \in Elements(ops) : NamesOK(op, next, high, size)

(* The names of each operation, from those of its operands.                *)
LEMMA CopyNames ==
  ASSUME NEW next, NEW high, NEW size, NEW d, NEW s,
         NameOK(d, next, high, size), NameOK(s, next, high, size)
  PROVE  NamesOK(Copy(d, s), next, high, size)
<1>1. UsedIn(Copy(d, s)) = {s} /\ Copy(d, s).dest = d
  BY DEF UsedIn, Copy, BinaryOps
<1> QED
  BY <1>1 DEF NamesOK, Names

LEMMA BinaryNames ==
  ASSUME NEW next, NEW high, NEW size, NEW name \in BinaryOps, NEW d, NEW l, NEW r,
         NameOK(d, next, high, size), NameOK(l, next, high, size), NameOK(r, next, high, size)
  PROVE  NamesOK(Binary(name, d, l, r), next, high, size)
<1>1. UsedIn(Binary(name, d, l, r)) = {l, r} /\ Binary(name, d, l, r).dest = d
  BY DEF UsedIn, Binary, BinaryOps
<1> QED
  BY <1>1 DEF NamesOK, Names

LEMMA CBranchNames ==
  ASSUME NEW next, NEW high, NEW size, NEW c, NEW t, NameOK(c, next, high, size)
  PROVE  NamesOK(CBranch(c, t), next, high, size)
<1>1. UsedIn(CBranch(c, t)) = {c} /\ ~ HasDest(CBranch(c, t))
  BY DEF UsedIn, CBranch, BinaryOps, HasDest
<1> QED
  BY <1>1 DEF NamesOK, Names

LEMMA NoNames ==
  ASSUME NEW next, NEW high, NEW size, NEW op, op.op \in {"Branch", "Call", "Return"}
  PROVE  NamesOK(op, next, high, size)
<1>1. UsedIn(op) = {} /\ ~ HasDest(op)
  BY DEF UsedIn, BinaryOps, HasDest
<1> QED
  BY <1>1 DEF NamesOK, Names

LEMMA OneOp ==
  ASSUME NEW next, NEW high, NEW size, NEW op, NamesOK(op, next, high, size)
  PROVE  LiftNames(<<op>>, next, high, size)
  BY DEF LiftNames, Elements

LEMMA TwoOps ==
  ASSUME NEW next, NEW high, NEW size, NEW o, NEW p,
         NamesOK(o, next, high, size), NamesOK(p, next, high, size)
  PROVE  LiftNames(<<o, p>>, next, high, size)
<1>1. Elements(<<o, p>>) = {o, p}
  BY DEF Elements
<1> QED
  BY <1>1 DEF LiftNames

LEMMA SameOps ==
  /\ \A d, s : X86Backend!Copy(d, s) = Copy(d, s) /\ ArmBackend!Copy(d, s) = Copy(d, s)
  /\ \A n, d, l, r : /\ X86Backend!Binary(n, d, l, r) = Binary(n, d, l, r)
                     /\ ArmBackend!Binary(n, d, l, r) = Binary(n, d, l, r)
  /\ \A c, t : X86Backend!CBranch(c, t) = CBranch(c, t) /\ ArmBackend!CBranch(c, t) = CBranch(c, t)
  BY Zenon DEF X86Backend!Copy, ArmBackend!Copy, Copy, X86Backend!Binary, ArmBackend!Binary, Binary,
     X86Backend!CBranch, ArmBackend!CBranch, CBranch

LEMMA X86Operands ==
  ASSUME arch # "arm", NEW next, NEW high, NEW size
  PROVE  /\ \A r \in 0 .. 7 : NameOK(X86Backend!Reg(r), next, high, size)
         /\ NameOK(X86Backend!ZF, next, high, size)
         /\ \A n : NameOK(X86Backend!Imm(n), next, high, size)
         /\ \A n, s : NameOK(X86Backend!Constant(n, s), next, high, size)
         /\ next < high => NameOK(X86Backend!Fresh(next, size), next, high, size)
<1>1. \A r \in 0 .. 7 : r # 1000
  OBVIOUS
<1>2. \A r \in 0 .. 7 : IsRegister(X86Backend!Reg(r))
  BY <1>1 DEF IsRegister, RegisterOf, Register, Varnode, X86Backend!Reg, X86Backend!Register,
     X86Backend!Varnode
<1>3. IsRegister(X86Backend!ZF)
  BY DEF IsRegister, RegisterOf, Register, Varnode, X86Backend!ZF, X86Backend!Register,
     X86Backend!Varnode
<1> QED
  BY <1>2, <1>3 DEF NameOK, Varnode, X86Backend!Imm, X86Backend!Constant, X86Backend!Fresh,
     X86Backend!Varnode

LEMMA ArmOperands ==
  ASSUME arch = "arm", NEW next, NEW high, NEW size
  PROVE  /\ \A r \in 0 .. 31 : NameOK(ArmBackend!Reg(r), next, high, size)
         /\ NameOK(ArmBackend!Flags, next, high, size)
         /\ \A n : NameOK(ArmBackend!Imm(n), next, high, size)
<1>1. \A r \in 0 .. 31 : r # 1000
  OBVIOUS
<1>2. \A r \in 0 .. 31 : IsRegister(ArmBackend!Reg(r))
  BY <1>1 DEF IsRegister, RegisterOf, Register, Varnode, ArmBackend!Reg, ArmBackend!Register,
     ArmBackend!Varnode
<1>3. IsRegister(ArmBackend!Flags)
  BY DEF IsRegister, RegisterOf, Register, Varnode, ArmBackend!Flags, ArmBackend!Register,
     ArmBackend!Varnode
<1> QED
  BY <1>2, <1>3 DEF NameOK, ArmBackend!Imm, ArmBackend!Constant, ArmBackend!Varnode

LEMMA X86Names ==
  ASSUME arch # "arm", NEW instr, NEW address, NEW length, NEW next \in Nat,
         instr.op \in {"MovRegReg", "MovRegImm", "AddRegReg", "AddRegImm", "CmpRegReg",
                       "CmpRegImm", "Jmp", "Je", "Jne", "Call", "Ret"},
         X86Registers(instr)
  PROVE  \E size : LiftNames(X86Backend!Lift(instr, address, length, next),
                             next, next + X86Backend!Temps(instr), size)
<1> DEFINE high == next + X86Backend!Temps(instr)
           target == X86Backend!Absolute(X86Backend!ResolveRel(address, length, instr.rel))
           ops == X86Backend!Lift(instr, address, length, next)
           OK(v) == NameOK(v, next, high, X86RegSize)
           dst == X86Backend!Reg(instr.dst)
           src == X86Backend!Reg(instr.src)
<1>0. /\ "IntAdd" \in BinaryOps /\ "IntSub" \in BinaryOps /\ "IntEqual" \in BinaryOps
  BY DEF BinaryOps
<1>1. /\ instr.op \in {"MovRegReg", "AddRegReg", "CmpRegReg", "MovRegImm", "AddRegImm",
                       "CmpRegImm"} => OK(dst)
      /\ instr.op \in {"MovRegReg", "AddRegReg", "CmpRegReg"} => OK(src)
      /\ OK(X86Backend!ZF)
      /\ OK(X86Backend!Imm(instr.imm))
      /\ OK(X86Backend!Constant(0, X86RegSize))
      /\ next < high => OK(X86Backend!Fresh(next, X86RegSize))
  BY X86Operands, Zenon DEF X86Registers
<1>2. ASSUME NEW s, ops = X86Backend!LiftMov(instr.dst, s), OK(dst), OK(s)
      PROVE  LiftNames(ops, next, high, X86RegSize)
  <2>1. ops = <<Copy(dst, s)>>
    BY <1>2, SameOps DEF X86Backend!LiftMov
  <2> QED
    BY <1>2, <2>1, CopyNames, OneOp, Zenon
<1>3. ASSUME NEW s, ops = X86Backend!LiftAdd(instr.dst, s), OK(dst), OK(s)
      PROVE  LiftNames(ops, next, high, X86RegSize)
  <2>1. ops = <<Binary("IntAdd", dst, dst, s)>>
    BY <1>3, SameOps DEF X86Backend!LiftAdd
  <2> QED
    BY <1>0, <1>3, <2>1, BinaryNames, OneOp, Zenon
<1>4. ASSUME NEW s, ops = X86Backend!LiftCmp(instr.dst, s, next), OK(dst), OK(s), next < high
      PROVE  LiftNames(ops, next, high, X86RegSize)
  <2> DEFINE diff == X86Backend!Fresh(next, X86RegSize)
             zero == X86Backend!Constant(0, X86RegSize)
             o == Binary("IntSub", diff, dst, s)
             p == Binary("IntEqual", X86Backend!ZF, diff, zero)
  <2>1. ops = <<o, p>>
    BY <1>4, SameOps DEF X86Backend!LiftCmp
  <2>2. OK(diff) /\ OK(zero) /\ OK(X86Backend!ZF)
    BY <1>1, <1>4
  <2> HIDE DEF diff, zero
  <2>3. NamesOK(o, next, high, X86RegSize)
    BY <1>0, <1>4, <2>2, BinaryNames, Zenon
  <2>4. NamesOK(p, next, high, X86RegSize)
    BY <1>0, <1>4, <2>2, BinaryNames, Zenon
  <2> QED
    BY <2>1, <2>3, <2>4, TwoOps, Zenon
<1>5. CASE instr.op \in {"MovRegReg", "MovRegImm"}
  <2>1. \/ ops = X86Backend!LiftMov(instr.dst, src) /\ OK(src)
        \/ ops = X86Backend!LiftMov(instr.dst, X86Backend!Imm(instr.imm))
    BY <1>1, <1>5 DEF X86Backend!Lift
  <2>2. OK(dst) /\ OK(X86Backend!Imm(instr.imm))
    BY <1>1, <1>5
  <2> HIDE DEF OK, ops, src, dst, high
  <2>3. LiftNames(ops, next, high, X86RegSize)
    BY <1>2, <2>1, <2>2, Zenon
  <2> QED
    BY <2>3 DEF ops, high
<1>6. CASE instr.op \in {"AddRegReg", "AddRegImm"}
  <2>1. \/ ops = X86Backend!LiftAdd(instr.dst, src) /\ OK(src)
        \/ ops = X86Backend!LiftAdd(instr.dst, X86Backend!Imm(instr.imm))
    BY <1>1, <1>6 DEF X86Backend!Lift
  <2>2. OK(dst) /\ OK(X86Backend!Imm(instr.imm))
    BY <1>1, <1>6
  <2> HIDE DEF OK, ops, src, dst, high
  <2>3. LiftNames(ops, next, high, X86RegSize)
    BY <1>3, <2>1, <2>2, Zenon
  <2> QED
    BY <2>3 DEF ops, high
<1>7. CASE instr.op \in {"CmpRegReg", "CmpRegImm"}
  <2>1. \/ ops = X86Backend!LiftCmp(instr.dst, src, next) /\ OK(src)
        \/ ops = X86Backend!LiftCmp(instr.dst, X86Backend!Imm(instr.imm), next)
    BY <1>1, <1>7 DEF X86Backend!Lift
  <2>2. OK(dst) /\ OK(X86Backend!Imm(instr.imm))
    BY <1>1, <1>7
  <2>3. next < high
    BY <1>7 DEF X86Backend!Temps
  <2> HIDE DEF OK, ops, src, dst, high
  <2>4. LiftNames(ops, next, high, X86RegSize)
    BY <1>4, <2>1, <2>2, <2>3, Zenon
  <2> QED
    BY <2>4 DEF ops, high
<1>8. CASE instr.op = "Jne"
  <2> DEFINE not_zf == X86Backend!Fresh(next, 1)
             zero == X86Backend!Constant(0, 1)
             o == Binary("IntEqual", not_zf, X86Backend!ZF, zero)
             p == CBranch(not_zf, target)
  <2>1. ops = <<o, p>>
    BY <1>8, SameOps DEF X86Backend!Lift, X86Backend!LiftJne
  <2>2. next < high
    BY <1>8 DEF X86Backend!Temps
  <2>3. /\ NameOK(not_zf, next, high, 1) /\ NameOK(zero, next, high, 1)
        /\ NameOK(X86Backend!ZF, next, high, 1)
    BY <2>2, X86Operands, Zenon
  <2> HIDE DEF not_zf, zero, target
  <2>4. NamesOK(o, next, high, 1)
    BY <1>0, <2>3, BinaryNames, Zenon
  <2>5. NamesOK(p, next, high, 1)
    BY <2>3, CBranchNames, Zenon
  <2> QED
    BY <2>1, <2>4, <2>5, TwoOps, Zenon
<1>9. CASE instr.op = "Je"
  <2>1. ops = <<CBranch(X86Backend!ZF, target)>>
    BY <1>9, SameOps DEF X86Backend!Lift, X86Backend!LiftJe
  <2> QED
    BY <1>1, <2>1, CBranchNames, OneOp, Zenon
<1>10. CASE instr.op \in {"Jmp", "Call", "Ret"}
  <2>1. PICK op : ops = <<op>> /\ op.op \in {"Branch", "Call", "Return"}
    BY <1>10 DEF X86Backend!Lift, X86Backend!Branch, X86Backend!Call, X86Backend!Return
  <2>2. NamesOK(op, next, high, 1)
    BY <2>1, NoNames
  <2>3. LiftNames(ops, next, high, 1)
    BY <2>1, <2>2, OneOp, Zenon
  <2> QED
    BY <2>3, Zenon
<1> QED
  BY <1>5, <1>6, <1>7, <1>8, <1>9, <1>10

LEMMA ArmNames ==
  ASSUME arch = "arm", NEW instr, NEW address, NEW next, NEW high, NEW size,
         instr.op \in {"MovRegImm", "AddRegReg", "AddRegImm", "CmpRegReg",
                       "B", "BL", "BEQ", "BNE", "Ret"},
         ArmRegisters(instr)
  PROVE  LiftNames(ArmBackend!Lift(instr, address), next, high, size)
<1> DEFINE target == ArmBackend!Absolute(ArmBackend!ResolveRel(address, 0, instr.rel))
           ops == ArmBackend!Lift(instr, address)
           OK(v) == NameOK(v, next, high, size)
           Reg(r) == ArmBackend!Reg(r)
           imm == ArmBackend!Imm(instr.imm)
<1>0. "IntAdd" \in BinaryOps /\ "IntEqual" \in BinaryOps
  BY DEF BinaryOps
<1>1. /\ \A r \in 0 .. 31 : OK(Reg(r))
      /\ OK(ArmBackend!Flags) /\ OK(imm)
  BY ArmOperands, Zenon
<1>2. CASE instr.op = "MovRegImm"
  <2>1. ops = <<Copy(Reg(instr.dst), imm)>>
    BY <1>2, SameOps DEF ArmBackend!Lift
  <2>2. OK(Reg(instr.dst))
    BY <1>1, <1>2, Zenon DEF ArmRegisters
  <2>3. NamesOK(Copy(Reg(instr.dst), imm), next, high, size)
    BY <1>1, <2>2, CopyNames, Zenon
  <2> QED
    BY <2>1, <2>3, OneOp, Zenon
<1>4. CASE instr.op = "AddRegReg"
  <2>1. ops = <<Binary("IntAdd", Reg(instr.dst), Reg(instr.src1), Reg(instr.src2))>>
    BY <1>4, SameOps DEF ArmBackend!Lift
  <2>2. OK(Reg(instr.dst)) /\ OK(Reg(instr.src1)) /\ OK(Reg(instr.src2))
    BY <1>1, <1>4, Zenon DEF ArmRegisters
  <2>3. NamesOK(Binary("IntAdd", Reg(instr.dst), Reg(instr.src1), Reg(instr.src2)), next, high, size)
    BY <1>0, <2>2, BinaryNames, Zenon
  <2> QED
    BY <2>1, <2>3, OneOp, Zenon
<1>5. CASE instr.op = "AddRegImm"
  <2>1. ops = <<Binary("IntAdd", Reg(instr.dst), Reg(instr.src), imm)>>
    BY <1>5, SameOps DEF ArmBackend!Lift
  <2>2. OK(Reg(instr.dst)) /\ OK(Reg(instr.src)) /\ OK(imm)
    BY <1>1, <1>5, Zenon DEF ArmRegisters
  <2>3. NamesOK(Binary("IntAdd", Reg(instr.dst), Reg(instr.src), imm), next, high, size)
    BY <1>0, <2>2, BinaryNames, Zenon
  <2> QED
    BY <2>1, <2>3, OneOp, Zenon
<1>6. CASE instr.op = "CmpRegReg"
  <2>1. ops = <<Binary("IntEqual", ArmBackend!Flags, Reg(instr.lhs), Reg(instr.rhs))>>
    BY <1>6, SameOps DEF ArmBackend!Lift
  <2>2. OK(ArmBackend!Flags) /\ OK(Reg(instr.lhs)) /\ OK(Reg(instr.rhs))
    BY <1>1, <1>6, Zenon DEF ArmRegisters
  <2>3. NamesOK(Binary("IntEqual", ArmBackend!Flags, Reg(instr.lhs), Reg(instr.rhs)), next, high, size)
    BY <1>0, <2>2, BinaryNames, Zenon
  <2> QED
    BY <2>1, <2>3, OneOp, Zenon
<1>7. CASE instr.op \in {"BEQ", "BNE"}
  <2>1. ops = <<CBranch(ArmBackend!Flags, target)>>
    BY <1>7, SameOps DEF ArmBackend!Lift
  <2>2. NamesOK(CBranch(ArmBackend!Flags, target), next, high, size)
    BY <1>1, CBranchNames, Zenon
  <2> QED
    BY <2>1, <2>2, OneOp, Zenon
<1>8. CASE instr.op \in {"B", "BL", "Ret"}
  <2>1. PICK op : ops = <<op>> /\ op.op \in {"Branch", "Call", "Return"}
    BY <1>8 DEF ArmBackend!Lift, ArmBackend!Branch, ArmBackend!Call, ArmBackend!Return
  <2>2. NamesOK(op, next, high, size)
    BY <2>1, NoNames
  <2> QED
    BY <2>1, <2>2, OneOp, Zenon
<1> QED
  BY <1>2, <1>4, <1>5, <1>6, <1>7, <1>8

(* The names in whatever is lifted are those of registers and of the       *)
(* temporary that the instruction takes.                                   *)
LEMMA LiftedNames ==
  ASSUME NEW bs \in Seq(Octet), DisassembleOne(bs).kind = "Decoded",
         NEW address, NEW next \in Nat
  PROVE  LET result == DisassembleOne(bs)
             instr == result.instruction
         IN  \E size : LiftNames(Lift(instr, address, result.length, next),
                                 next, next + Temps(instr), size)
<1> DEFINE result == DisassembleOne(bs)
           instr == result.instruction
<1>1. CASE arch = "arm"
  <2>1. result = ArmBackend!DecodeOne(bs)
    BY <1>1 DEF DisassembleOne
  <2>2. LiftNames(ArmBackend!Lift(instr, address), next, next + Temps(instr), 0)
    BY <1>1, <2>1, ArmDecodes, ArmNames
  <2>3. Lift(instr, address, result.length, next) = ArmBackend!Lift(instr, address)
    BY <1>1 DEF Lift
  <2> QED
    BY <2>2, <2>3, Zenon
<1>2. CASE arch # "arm"
  <2>1. result = X86Backend!DecodeOne(bs)
    BY <1>2 DEF DisassembleOne
  <2>2. \E size : LiftNames(X86Backend!Lift(instr, address, result.length, next),
                            next, next + X86Backend!Temps(instr), size)
    BY <1>2, <2>1, X86Decodes, X86Names
  <2>3. /\ Lift(instr, address, result.length, next)
             = X86Backend!Lift(instr, address, result.length, next)
        /\ Temps(instr) = X86Backend!Temps(instr)
    BY <1>2 DEF Lift, Temps
  <2> QED
    BY <2>2, <2>3, Zenon
<1> QED
  BY <1>1, <1>2

(* The Varnodes with a name in some instructions.                          *)
NamesOf(ops) == UNION {Names(op) : op \in Elements(ops)}

(* A name means one Varnode throughout the block.                          *)
NamesInv ==
  /\ \A j \in 1 .. Len(block) : \A v \in NamesOf(block[j].ops) :
       \/ IsRegister(v)
       \/ v.space = "Unique" /\ v.offset \in 0 .. next_temp - 1
  /\ \A j, m \in 1 .. Len(block) :
       \A v \in NamesOf(block[j].ops), w \in NamesOf(block[m].ops) :
         VarName(v) = VarName(w) => v = w

LEMMA LiftedNamesMean ==
  ASSUME NEW ops, NEW next \in Nat, NEW high \in Nat, NEW size, LiftNames(ops, next, high, size)
  PROVE  \A v \in NamesOf(ops) :
           IsRegister(v) \/ (v = Varnode("Unique", next, size) /\ next < high)
<1>1. ASSUME NEW op, NEW v \in Names(op)
      PROVE  v.space # "Constant"
  BY DEF Names
<1> QED
  BY <1>1, Zenon DEF LiftNames, NamesOf, NamesOK, NameOK

LEMMA NamesInitially == Init => NamesInv
<1> SUFFICES ASSUME Init PROVE NamesInv
  OBVIOUS
<1>1. block = <<>>
  BY DEF Init
<1>2. Len(block) = 0
  BY <1>1
<1> QED
  BY <1>2 DEF NamesInv

(* NamesInv is kept by every step of the decode loop.                      *)
LEMMA NamesKept ==
  ASSUME NamesInv, UNCHANGED <<arch, block, next_temp>>
  PROVE  NamesInv'
<1>1. \A v : IsRegister(v)' <=> IsRegister(v)
  BY DEF IsRegister, RegisterOf
<1>2. block' = block /\ next_temp' = next_temp
  OBVIOUS
<1> QED
  BY <1>1, <1>2 DEF NamesInv

LEMMA NamesAfterInstruction ==
  ASSUME Inv, NamesInv, DecodeInstruction
  PROVE  NamesInv'
<1> DEFINE length == Disassembled.length
           instr == Disassembled.instruction
           ops == Lift(instr, Here, length, next_temp)
           n == Len(block)
           high == next_temp + Temps(instr)
<1>1. /\ offset < Len(bytes) /\ Disassembled.kind = "Decoded"
      /\ checks => base + offset < AddressLimit
      /\ block' = Append(block, Lifted(Here, ops))
      /\ next_temp' = high /\ arch' = arch
  BY DEF DecodeInstruction, AtInstruction, input
<1>2. /\ bytes \in Seq(Octet) /\ Len(bytes) \in Nat /\ offset \in 0 .. Len(bytes)
      /\ base \in Nat /\ base < AddressLimit /\ AddressLimit \in Nat \ {0}
      /\ next_temp \in Nat
  BY LimitAssumption DEF Inv, TypeOK
<1>3. Here \in Address
  BY <1>2, LimitAssumption DEF Here
<1>4. /\ Temps(instr) \in Nat
      /\ \E size : LiftNames(ops, next_temp, high, size)
  <2> DEFINE remaining == SubSeq(bytes, offset + 1, Len(bytes))
  <2>1. remaining \in Seq(Octet)
    <3>1. \A j \in offset + 1 .. Len(bytes) : bytes[j] \in Octet
      BY <1>2
    <3>2. offset + 1 \in Int /\ Len(bytes) \in Int /\ offset + 1 <= Len(bytes)
      BY <1>1, <1>2
    <3> QED
      BY <3>1, <3>2, SubSeqProperties
  <2>2. Disassembled = DisassembleOne(remaining)
    BY DEF Disassembled
  <2> HIDE DEF remaining
  <2>3. Temps(instr) \in Nat
    BY <1>1, <1>2, <1>3, <2>1, <2>2, DecodesAndLifts
  <2>4. \E size : LiftNames(ops, next_temp, high, size)
    BY <1>1, <1>2, <2>1, <2>2, LiftedNames
  <2> QED
    BY <2>3, <2>4
<1>5. PICK size : LiftNames(ops, next_temp, high, size)
  BY <1>4
<1>6. high \in Nat /\ next_temp <= high
  BY <1>2, <1>4
<1> HIDE DEF length, instr, ops, high
<1>7. \A v \in NamesOf(ops) :
        IsRegister(v) \/ (v = Varnode("Unique", next_temp, size) /\ next_temp < high)
  BY <1>2, <1>5, <1>6, LiftedNamesMean
<1>8. /\ n \in Nat /\ Len(block') = n + 1
      /\ \A j \in 1 .. n : block'[j] = block[j]
      /\ block'[n + 1] = Lifted(Here, ops)
  BY <1>1, AppendAnything DEF Inv
<1>9. block'[n + 1].ops = ops
  BY <1>8 DEF Lifted
<1>10. 1 .. Len(block') = 1 .. n \union {n + 1}
  BY <1>8
<1>11. \A v : IsRegister(v)' <=> IsRegister(v)
  BY <1>1 DEF IsRegister, RegisterOf
<1>12. \A j \in 1 .. n : \A v \in NamesOf(block[j].ops) :
         IsRegister(v) \/ (v.space = "Unique" /\ v.offset \in 0 .. next_temp - 1)
  BY DEF NamesInv
<1>13. \A v : v = Varnode("Unique", next_temp, size) => v.space = "Unique" /\ v.offset = next_temp
  BY DEF Varnode
<1>14. \A v, w : IsRegister(v) /\ VarName(v) = VarName(w) =>
                   w.space = "Register" /\ (IsRegister(w) => v = w)
  BY DEF IsRegister, VarName
<1>15. ASSUME NEW j \in 1 .. Len(block'), NEW v \in NamesOf(block'[j].ops)
       PROVE  IsRegister(v) \/ (v.space = "Unique" /\ v.offset \in 0 .. high - 1)
  <2>1. CASE j \in 1 .. n
    <3>1. IsRegister(v) \/ (v.space = "Unique" /\ v.offset \in 0 .. next_temp - 1)
      BY <1>8, <1>12, <2>1
    <3> QED
      BY <1>2, <1>6, <3>1
  <2>2. CASE j = n + 1
    <3>1. IsRegister(v) \/ (v = Varnode("Unique", next_temp, size) /\ next_temp < high)
      BY <1>7, <1>9, <2>2
    <3> QED
      BY <1>2, <1>6, <1>13, <3>1
  <2> QED
    BY <1>10, <2>1, <2>2
<1>16. ASSUME NEW j \in 1 .. n, NEW v \in NamesOf(block[j].ops), NEW w \in NamesOf(ops),
              VarName(v) = VarName(w)
       PROVE  v = w
  <2>1. IsRegister(v) \/ (v.space = "Unique" /\ v.offset \in 0 .. next_temp - 1)
    BY <1>12
  <2>2. IsRegister(w) \/ (w.space = "Unique" /\ w.offset = next_temp)
    BY <1>7, <1>13
  <2>3. v.space = w.space /\ v.offset = w.offset
    BY <1>16 DEF VarName
  <2>4. ~ (next_temp \in 0 .. next_temp - 1)
    BY <1>2
  <2> QED
    BY <2>1, <2>2, <2>3, <2>4 DEF IsRegister
<1>17. ASSUME NEW v \in NamesOf(ops), NEW w \in NamesOf(ops), VarName(v) = VarName(w)
       PROVE  v = w
  <2>1. v.space = w.space /\ v.offset = w.offset
    BY <1>17 DEF VarName
  <2>2. /\ IsRegister(v) \/ v = Varnode("Unique", next_temp, size)
        /\ IsRegister(w) \/ w = Varnode("Unique", next_temp, size)
    BY <1>7
  <2>3. IsRegister(v) <=> IsRegister(w)
    BY <1>13, <2>1, <2>2 DEF IsRegister
  <2> QED
    BY <2>1, <2>2, <2>3 DEF IsRegister
<1>18. ASSUME NEW j \in 1 .. Len(block'), NEW m \in 1 .. Len(block'),
              NEW v \in NamesOf(block'[j].ops), NEW w \in NamesOf(block'[m].ops),
              VarName(v) = VarName(w)
       PROVE  v = w
  <2>1. CASE j \in 1 .. n /\ m \in 1 .. n
    BY <1>8, <1>18, <2>1 DEF NamesInv
  <2>2. CASE j \in 1 .. n /\ m = n + 1
    BY <1>8, <1>9, <1>16, <1>18, <2>2
  <2>3. CASE j = n + 1 /\ m \in 1 .. n
    BY <1>8, <1>9, <1>16, <1>18, <2>3
  <2>4. CASE j = n + 1 /\ m = n + 1
    BY <1>9, <1>17, <1>18, <2>4
  <2> QED
    BY <1>10, <2>1, <2>2, <2>3, <2>4
<1>19. next_temp' = high
  BY <1>1
<1> QED
  BY <1>11, <1>15, <1>18, <1>19 DEF NamesInv

LEMMA NamesStep == Inv /\ NamesInv /\ [Next]_<<input, decoding>> => NamesInv'
<1> SUFFICES ASSUME Inv, NamesInv, [Next]_<<input, decoding>> PROVE NamesInv'
  OBVIOUS
<1>1. CASE DecodeInstruction
  BY <1>1, NamesAfterInstruction
<1>2. ASSUME NEW how, Stop(how)
      PROVE  UNCHANGED <<arch, block, next_temp>>
  BY <1>2 DEF Stop, input
<1>3. CASE Exhausted \/ AddressOverflows \/ DecodeFails \/ LiftPanics
  BY <1>2, <1>3, NamesKept DEF Exhausted, AddressOverflows, DecodeFails, LiftPanics
<1>4. CASE UNCHANGED <<input, decoding>>
  BY <1>4, NamesKept DEF input, decoding
<1> QED
  BY <1>1, <1>3, <1>4 DEF Next, Step

-----------------------------------------------------------------------------
(* Regrouping: after the rewriting, operation number x of an instruction   *)
(* is the rewritten operation number x of that instruction.                *)

LiftedOps(instructions) == [j \in DOMAIN instructions |-> instructions[j].ops]

(* A sequence of instructions, each a sequence of operations.              *)
Sound(instructions) ==
  IsSequence(instructions) /\ \A j \in 1 .. Len(instructions) : IsSequence(instructions[j].ops)

(* The operations of the instructions.                                     *)
OpsIn(instructions) == UNION {Elements(instructions[j].ops) : j \in 1 .. Len(instructions)}

LEMMA SoundOps ==
  ASSUME NEW ins, Sound(ins)
  PROVE  /\ Len(ins) \in Nat /\ DOMAIN ins = 1 .. Len(ins)
         /\ Len(LiftedOps(ins)) = Len(ins)
         /\ \A j \in 1 .. Len(ins) : LiftedOps(ins)[j] = ins[j].ops
         /\ LiftedOps(ins) \in Seq(Seq(OpsIn(ins)))
<1> DEFINE S == OpsIn(ins)
<1>1. Len(ins) \in Nat /\ DOMAIN ins = 1 .. Len(ins)
  BY DEF Sound, IsSequence
<1>2. LiftedOps(ins) = [j \in 1 .. Len(ins) |-> ins[j].ops]
  BY <1>1 DEF LiftedOps
<1>3. ASSUME NEW j \in 1 .. Len(ins) PROVE ins[j].ops \in Seq(S)
  <2>1. ins[j].ops \in Seq(Elements(ins[j].ops))
    BY DEF Sound, IsSequence
  <2>2. Elements(ins[j].ops) \subseteq S
    BY DEF OpsIn
  <2> HIDE DEF S
  <2> QED
    BY <2>1, <2>2
<1> HIDE DEF S
<1>4. LiftedOps(ins) \in Seq(Seq(S))
  BY <1>1, <1>2, <1>3
<1>5. Len(LiftedOps(ins)) = Len(ins)
  BY <1>1, <1>2
<1> QED
  BY <1>1, <1>2, <1>4, <1>5 DEF S

LEMMA PrefixOps ==
  ASSUME NEW ins, Sound(ins), NEW j \in 0 .. Len(ins)
  PROVE  OpsOf(SubSeq(ins, 1, j)) = UpTo(LiftedOps(ins), j)
<1> DEFINE p == SubSeq(ins, 1, j)
<1>1. ins \in Seq(Elements(ins)) /\ Len(ins) \in Nat
  BY DEF Sound, IsSequence
<1>2. DOMAIN p = 1 .. j /\ \A x \in 1 .. j : p[x] = ins[x]
  BY <1>1
<1>3. LiftedOps(p) = [x \in 1 .. j |-> ins[x].ops]
  <2> HIDE DEF p
  <2> QED
    BY <1>2 DEF LiftedOps
<1>4. SubSeq(LiftedOps(ins), 1, j) = [x \in 1 .. j |-> ins[x].ops]
  <2>1. PICK S : LiftedOps(ins) \in Seq(Seq(S))
    BY SoundOps, Zenon
  <2>2. Len(LiftedOps(ins)) = Len(ins) /\ \A x \in 1 .. Len(ins) : LiftedOps(ins)[x] = ins[x].ops
    BY SoundOps
  <2> DEFINE q == LiftedOps(ins)
  <2> HIDE DEF q
  <2>3. q \in Seq(Seq(S)) /\ Len(q) = Len(ins) /\ \A x \in 1 .. Len(ins) : q[x] = ins[x].ops
    BY <2>1, <2>2 DEF q
  <2>4. SubSeq(q, 1, j) = [x \in 1 .. j |-> q[x]]
    BY <1>1, <2>3
  <2>5. \A x \in 1 .. j : q[x] = ins[x].ops
    BY <1>1, <2>3
  <2> QED
    BY <2>4, <2>5 DEF q
<1> QED
  BY <1>3, <1>4 DEF OpsOf, UpTo, LiftedOps

LEMMA PartOf ==
  ASSUME NEW S, NEW s \in Seq(S), NEW l \in Nat, NEW m \in Nat, l + m <= Len(s)
  PROVE  SubSeq(s, l + 1, l + m) = [x \in 1 .. m |-> s[l + x]]
<1>1. l + 1 \in 1 .. Len(s) + 1 /\ l + m \in l .. Len(s)
  OBVIOUS
<1>2. SubSeq(s, l + 1, l + m) = [x \in 1 .. ((l + m) - (l + 1)) + 1 |-> s[x + (l + 1) - 1]]
  BY <1>1
<1>3. ((l + m) - (l + 1)) + 1 = m
  OBVIOUS
<1>4. \A x \in 1 .. m : x + (l + 1) - 1 = l + x
  OBVIOUS
<1> QED
  BY <1>2, <1>3, <1>4

(* The rewritten operations as they are grouped, instruction by            *)
(* instruction.                                                            *)
RegroupedAt(ins, ops, new, j) ==
  /\ DOMAIN new = 1 .. Len(ins)
  /\ new[j].address = ins[j].address
  /\ IsSequence(new[j].ops)
  /\ Len(new[j].ops) = Len(ins[j].ops)
  /\ \A x \in 1 .. Len(ins[j].ops) :
       \E y \in 1 .. Len(ops) : new[j].ops[x] = ops[y] /\ ins[j].ops[x] = OpsOf(ins)[y]

LEMMA RegroupMeans ==
  ASSUME NEW ins, Sound(ins), NEW ops, IsSequence(ops), Len(ops) = Len(OpsOf(ins)),
         NEW j \in 1 .. Len(ins)
  PROVE  RegroupedAt(ins, ops, Regroup(ins, ops), j)
<1> DEFINE s == LiftedOps(ins)
           low == Len(UpTo(s, j - 1))
           high == Len(UpTo(s, j))
           n == Len(ins[j].ops)
<1>1. /\ Len(ins) \in Nat /\ DOMAIN ins = 1 .. Len(ins) /\ Len(s) = Len(ins)
      /\ s[j] = ins[j].ops
  BY SoundOps
<1>2. PICK S : s \in Seq(Seq(S))
  BY SoundOps, Zenon
<1>3. OpsOf(ins) = FlattenSeq(s)
  BY DEF OpsOf, LiftedOps
<1>4. Regroup(ins, ops) =
        [m \in 1 .. Len(ins) |->
           Lifted(ins[m].address,
                  SubSeq(ops, Len(OpsOf(SubSeq(ins, 1, m - 1))) + 1,
                         Len(OpsOf(SubSeq(ins, 1, m)))))]
  BY <1>1 DEF Regroup
<1>5. /\ OpsOf(SubSeq(ins, 1, j - 1)) = UpTo(s, j - 1)
      /\ OpsOf(SubSeq(ins, 1, j)) = UpTo(s, j)
  <2>1. j \in 0 .. Len(ins) /\ j - 1 \in 0 .. Len(ins)
    BY <1>1
  <2> QED
    BY <2>1, PrefixOps
<1>6. Regroup(ins, ops)[j] = Lifted(ins[j].address, SubSeq(ops, low + 1, high))
  BY <1>4, <1>5
<1>7. /\ low \in Nat /\ n \in Nat /\ high = low + n /\ high <= Len(ops)
      /\ \A x \in 1 .. n : FlattenSeq(s)[low + x] = ins[j].ops[x]
  <2> HIDE DEF s
  <2>1. j \in 1 .. Len(s) /\ s[j] = ins[j].ops
    BY <1>1
  <2>2. /\ low \in Nat /\ Len(s[j]) \in Nat /\ high = low + Len(s[j])
        /\ high <= Len(FlattenSeq(s))
        /\ \A x \in 1 .. Len(s[j]) : FlattenSeq(s)[low + x] = s[j][x]
    BY <1>2, <2>1, FlattenPlaces
  <2> HIDE DEF low, high
  <2> QED
    BY <1>3, <2>1, <2>2
<1>8. DOMAIN Regroup(ins, ops) = 1 .. Len(ins)
  BY <1>4
<1> HIDE DEF s, low, high, n
<1>9. SubSeq(ops, low + 1, high) = [x \in 1 .. n |-> ops[low + x]]
  <2>1. ops \in Seq(Elements(ops)) /\ Len(ops) \in Nat
    BY DEF IsSequence
  <2> QED
    BY <1>7, <2>1, PartOf
<1>10. \A x \in 1 .. n : low + x \in 1 .. Len(ops)
  <2>1. Len(ops) \in Nat
    BY DEF IsSequence
  <2> QED
    BY <1>7, <2>1
<1>11. Regroup(ins, ops)[j].address = ins[j].address
  BY <1>6 DEF Lifted
<1>12. Regroup(ins, ops)[j].ops = [x \in 1 .. n |-> ops[low + x]]
  BY <1>6, <1>9 DEF Lifted
<1>13. /\ Len(Regroup(ins, ops)[j].ops) = n
       /\ \A x \in 1 .. n : Regroup(ins, ops)[j].ops[x] = ops[low + x]
  BY <1>7, <1>12
<1>15. IsSequence(Regroup(ins, ops)[j].ops)
  <2> DEFINE q == [x \in 1 .. n |-> ops[low + x]]
  <2>1. DOMAIN q = 1 .. n /\ q = [x \in 1 .. n |-> q[x]]
    OBVIOUS
  <2>4. Len(q) = n
    BY <1>7
  <2> HIDE DEF q
  <2>2. \A x \in 1 .. n : q[x] \in Elements(q)
    BY <2>1, <2>4 DEF Elements
  <2> DEFINE E == Elements(q)
  <2> HIDE DEF E
  <2>5. \A x \in 1 .. n : q[x] \in E
    BY <2>2 DEF E
  <2>6. q \in [1 .. n -> E]
    BY <2>1, <2>5
  <2>7. q \in Seq(E)
    BY <1>7, <2>6
  <2>3. IsSequence(q)
    BY <2>7 DEF IsSequence, E
  <2> QED
    BY <1>12, <2>3 DEF q
<1>14. \A x \in 1 .. n : ins[j].ops[x] = OpsOf(ins)[low + x]
  BY <1>3, <1>7
<1> QED
  BY <1>8, <1>10, <1>11, <1>13, <1>14, <1>15 DEF n, RegroupedAt

-----------------------------------------------------------------------------
(* Rewriting keeps what transfers control.                                 *)

KeepsControl(o, p) ==
  /\ IsControl(o) <=> IsControl(p)
  /\ IsControl(o) => p.op = o.op
  /\ o.op \in {"Branch", "CBranch"} => p.target = o.target
  /\ Names(p) \subseteq Names(o)

LEMMA RewriteKeepsNames ==
  ASSUME NEW n, NEW o, NEW s
  PROVE  Names(Propagation(n)!SubstituteAndFold(o, s)) \subseteq Names(o)
<1> DEFINE p == Propagation(n)!SubstituteAndFold(o, s)
           Sub(v) == Propagation(n)!Substitute(v, s)
<1>0. /\ \A v : Sub(v) = v \/ Sub(v).space = "Constant"
      /\ \A v, x : Propagation(n)!Constant(v, x).space = "Constant"
  BY DEF Propagation!Substitute, Propagation!Constant, Propagation!Varnode
<1>1. CASE o.op \notin {"Copy", "Load", "Store", "CBranch", "Phi"} \union BinaryOps
  <2>1. p = o
    BY <1>1 DEF Propagation!SubstituteAndFold, BinaryOps, Propagation!BinaryOps
  <2> QED
    BY <2>1
<1>2. CASE o.op = "Copy"
  <2>1. p = Copy(o.dest, Sub(o.src))
    BY <1>2 DEF Propagation!SubstituteAndFold, Propagation!Copy, Copy, Propagation!BinaryOps
  <2> HIDE DEF p, Sub
  <2>2. /\ UsedIn(p) = {Sub(o.src)} /\ p.dest = o.dest
        /\ UsedIn(o) = {o.src} /\ HasDest(o)
    BY <1>2, <2>1 DEF UsedIn, Copy, BinaryOps, HasDest
  <2> QED
    BY <1>0, <2>2 DEF Names, p, Sub
<1>3. CASE o.op \in {"Load", "Phi"}
  <2>1. p.op \in {"Load", "Phi"} /\ p.dest = o.dest
    BY <1>3 DEF Propagation!SubstituteAndFold, Propagation!Load, Propagation!Phi,
       Propagation!BinaryOps
  <2> HIDE DEF p
  <2>2. UsedIn(p) = {} /\ UsedIn(o) = {} /\ HasDest(o)
    BY <1>3, <2>1 DEF UsedIn, BinaryOps, HasDest
  <2> QED
    BY <2>1, <2>2 DEF Names, p
<1>4. CASE o.op = "Store"
  <2>1. p.op = "Store"
    BY <1>4 DEF Propagation!SubstituteAndFold, Propagation!Store, Propagation!BinaryOps
  <2> HIDE DEF p
  <2>2. UsedIn(p) = {} /\ ~ HasDest(p)
    BY <2>1 DEF UsedIn, BinaryOps, HasDest
  <2> QED
    BY <2>2 DEF Names, p
<1>5. CASE o.op = "CBranch"
  <2>1. p = CBranch(Sub(o.condition), o.target)
    BY <1>5 DEF Propagation!SubstituteAndFold, Propagation!CBranch, CBranch,
       Propagation!BinaryOps
  <2> HIDE DEF p, Sub
  <2>2. /\ UsedIn(p) = {Sub(o.condition)} /\ ~ HasDest(p)
        /\ UsedIn(o) = {o.condition}
    BY <1>5, <2>1 DEF UsedIn, CBranch, BinaryOps, HasDest
  <2> QED
    BY <1>0, <2>2 DEF Names, p, Sub
<1>6. CASE o.op \in BinaryOps
  <2>1. \/ p = Binary(o.op, o.dest, Sub(o.lhs), Sub(o.rhs))
        \/ \E x, y : p = Copy(o.dest, Propagation(n)!Constant(x, y))
    BY <1>6 DEF Propagation!SubstituteAndFold, Propagation!Binary, Binary,
       Propagation!BinaryOps, BinaryOps, Propagation!Fold, Propagation!Copy, Copy
  <2> HIDE DEF p, Sub
  <2>2. UsedIn(o) = {o.lhs, o.rhs} /\ HasDest(o)
    BY <1>6 DEF UsedIn, HasDest, BinaryOps
  <2>3. CASE p = Binary(o.op, o.dest, Sub(o.lhs), Sub(o.rhs))
    <3> DEFINE l == Sub(o.lhs)
               r == Sub(o.rhs)
    <3>0. (l = o.lhs \/ l.space = "Constant") /\ (r = o.rhs \/ r.space = "Constant")
      BY <1>0 DEF Sub
    <3> HIDE DEF l, r
    <3>1. p = Binary(o.op, o.dest, l, r)
      BY <2>3 DEF l, r
    <3>2. UsedIn(p) = {l, r} /\ p.dest = o.dest
      BY <1>6, <3>1 DEF UsedIn, Binary, BinaryOps
    <3>3. Names(o) = {v \in {o.lhs, o.rhs, o.dest} : v.space # "Constant"}
      BY <2>2 DEF Names
    <3>4. ASSUME NEW v \in Names(p) PROVE v \in Names(o)
      <4>1. v \in {l, r, o.dest} /\ v.space # "Constant"
        BY <3>2 DEF Names
      <4>2. v \in {o.lhs, o.rhs, o.dest}
        BY <3>0, <4>1
      <4> QED
        BY <3>3, <4>1, <4>2
    <3> QED
      BY <3>4 DEF p
  <2>4. ASSUME NEW x, NEW y, p = Copy(o.dest, Propagation(n)!Constant(x, y))
        PROVE  Names(p) \subseteq Names(o)
    <3> DEFINE c == Propagation(n)!Constant(x, y)
    <3>1. c.space = "Constant"
      BY <1>0
    <3> HIDE DEF c
    <3>2. UsedIn(p) = {c} /\ p.dest = o.dest
      BY <2>4 DEF UsedIn, Copy, BinaryOps, c
    <3> QED
      BY <2>2, <3>1, <3>2 DEF Names
  <2> QED
    BY <2>1, <2>3, <2>4 DEF p
<1> QED
  BY <1>1, <1>2, <1>3, <1>4, <1>5, <1>6

(* A rewritten operation transfers control as the original does, and       *)
(* prints no name that the original does not.                              *)
LEMMA RewriteKeepsControl ==
  ASSUME NEW n, NEW o, NEW s
  PROVE  KeepsControl(o, Propagation(n)!SubstituteAndFold(o, s))
<1> DEFINE p == Propagation(n)!SubstituteAndFold(o, s)
<1>1. ASSUME o.op \notin {"Copy", "Load", "Store", "CBranch", "Phi"} \union BinaryOps
      PROVE  p = o
  BY <1>1 DEF Propagation!SubstituteAndFold, BinaryOps, Propagation!BinaryOps
<1>2. ASSUME o.op \in {"Copy", "Load", "Store", "Phi"} \union BinaryOps
      PROVE  p.op \in {"Copy", "Load", "Store", "Phi"} \union BinaryOps
  BY <1>2 DEF Propagation!SubstituteAndFold, BinaryOps, Propagation!BinaryOps,
     Propagation!Copy, Propagation!Load, Propagation!Store, Propagation!Phi, Propagation!Binary,
     Propagation!Fold
<1>3. ASSUME o.op = "CBranch"
      PROVE  p.op = "CBranch" /\ p.target = o.target
  BY <1>3 DEF Propagation!SubstituteAndFold, BinaryOps, Propagation!BinaryOps,
     Propagation!CBranch
<1>4. Names(p) \subseteq Names(o)
  BY RewriteKeepsNames
<1> HIDE DEF p
<1> QED
  BY <1>1, <1>2, <1>3, <1>4 DEF KeepsControl, IsControl, BinaryOps, p

(* An instruction whose operations are rewritten leads where it led.       *)
LEMMA SameFlow ==
  ASSUME NEW li, NEW lj, Len(li.ops) = Len(lj.ops),
         \A x \in 1 .. Len(li.ops) : KeepsControl(li.ops[x], lj.ops[x])
  PROVE  /\ Builder!Targets(lj) = Builder!Targets(li)
         /\ Builder!FallsThrough(lj) <=> Builder!FallsThrough(li)
<1>1. Elements(li.ops) = {li.ops[x] : x \in 1 .. Len(li.ops)}
  BY DEF Elements
<1>2. Elements(lj.ops) = {lj.ops[x] : x \in 1 .. Len(li.ops)}
  BY DEF Elements
<1> DEFINE Jump(o) == /\ o.op \in {"Branch", "CBranch"}
                      /\ o.target.kind = "Absolute"
<1>3. \A x \in 1 .. Len(li.ops) :
        /\ Jump(li.ops[x]) <=> Jump(lj.ops[x])
        /\ Jump(li.ops[x]) => li.ops[x].target = lj.ops[x].target
        /\ IsControl(li.ops[x]) <=> IsControl(lj.ops[x])
        /\ li.ops[x].op = "CBranch" <=> lj.ops[x].op = "CBranch"
  BY DEF KeepsControl, IsControl
<1>4. /\ Builder!Targets(li) = {o.target.address : o \in {q \in Elements(li.ops) : Jump(q)}}
      /\ Builder!Targets(lj) = {o.target.address : o \in {q \in Elements(lj.ops) : Jump(q)}}
  BY DEF Builder!Targets, Builder!Elements, Elements
<1>5. /\ Builder!FallsThrough(li) <=>
            \/ ~ \E o \in Elements(li.ops) : IsControl(o)
            \/ \E o \in Elements(li.ops) : o.op = "CBranch"
      /\ Builder!FallsThrough(lj) <=>
            \/ ~ \E o \in Elements(lj.ops) : IsControl(o)
            \/ \E o \in Elements(lj.ops) : o.op = "CBranch"
  BY DEF Builder!FallsThrough, Builder!IsTerminator, Builder!IsControl, IsControl,
     Builder!Elements, Elements
<1> HIDE DEF Jump
<1> DEFINE J == {x \in 1 .. Len(li.ops) : Jump(li.ops[x])}
<1>8. /\ {q \in Elements(li.ops) : Jump(q)} = {li.ops[x] : x \in J}
      /\ {q \in Elements(lj.ops) : Jump(q)} = {lj.ops[x] : x \in J}
  BY <1>1, <1>2, <1>3
<1>9. \A x \in J : li.ops[x].target = lj.ops[x].target
  BY <1>3
<1>6. Builder!Targets(lj) = Builder!Targets(li)
  <2> HIDE DEF J
  <2>1. /\ Builder!Targets(li) = {li.ops[x].target.address : x \in J}
        /\ Builder!Targets(lj) = {lj.ops[x].target.address : x \in J}
    BY <1>4, <1>8
  <2> QED
    BY <1>9, <2>1
<1>7. Builder!FallsThrough(lj) <=> Builder!FallsThrough(li)
  BY <1>1, <1>2, <1>3, <1>5
<1> QED
  BY <1>6, <1>7

LEMMA SameBuilder ==
  ASSUME Builder!Step
  PROVE  Building!Step
<1>1. ASSUME NEW li
      PROVE  /\ Building!Targets(li) = Builder!Targets(li)
             /\ Building!IsTerminator(li) <=> Builder!IsTerminator(li)
             /\ Building!FallsThrough(li) <=> Builder!FallsThrough(li)
  BY DEF Building!Targets, Builder!Targets, Building!IsTerminator, Builder!IsTerminator,
     Building!FallsThrough, Builder!FallsThrough, Building!Elements, Builder!Elements,
     Building!IsControl, Builder!IsControl
<1>2. ASSUME NEW x
      PROVE  Building!EdgesOf(x) = Builder!EdgesOf(x)
  BY <1>1, Zenon DEF Building!EdgesOf, Builder!EdgesOf, Building!Starts, Builder!Starts,
     Building!Last, Builder!Last
<1>3. Builder!FindLeader => Building!FindLeader
  BY <1>1 DEF Builder!FindLeader, Building!FindLeader
<1>4. Builder!EndLeaders => Building!EndLeaders
  BY DEF Builder!EndLeaders, Building!EndLeaders
<1>5. Builder!OpenBlock => Building!OpenBlock
  BY DEF Builder!OpenBlock, Building!OpenBlock
<1>6. Builder!ExtendBlock => Building!ExtendBlock
  BY DEF Builder!ExtendBlock, Building!ExtendBlock
<1>7. Builder!EndSplit => Building!EndSplit
  BY DEF Builder!EndSplit, Building!EndSplit
<1>8. Builder!ConnectBlock => Building!ConnectBlock
  BY <1>2 DEF Builder!ConnectBlock, Building!ConnectBlock
<1>9. Builder!EndEdges => Building!EndEdges
  BY DEF Builder!EndEdges, Building!EndEdges
<1>10. Builder!ReverseEdges => Building!ReverseEdges
  BY DEF Builder!ReverseEdges, Building!ReverseEdges
<1>11. Builder!Install => Building!Install
  BY DEF Builder!Install, Building!Install, Builder!IndexOf, Building!IndexOf
<1> QED
  BY <1>3, <1>4, <1>5, <1>6, <1>7, <1>8, <1>9, <1>10, <1>11 DEF Builder!Step, Building!Step

LEMMA BuildKeeps ==
  ASSUME Building!BuildInv, Build
  PROVE  Building!BuildInv'
<1>1. Building!Step
  BY SameBuilder DEF Build
<1>2. [Building!Next]_(Building!vars)
  BY <1>1 DEF Building!Next
<1> QED
  BY <1>2, BuildingBytes, BuildingAddress, BuildingStream, Building!BuildStep

LEMMA UnbuiltKeeps ==
  ASSUME Building!BuildInv, UNCHANGED <<function, shared, building>>
  PROVE  Building!BuildInv'
<1>1. UNCHANGED Building!vars
  BY DEF shared, building, Building!vars
<1> QED
  BY <1>1, BuildingBytes, BuildingAddress, BuildingStream, Building!BuildStep

LEMMA DrainedAtFirst ==
  ASSUME function.blocks = <<FirstBlock>>, IsSequence(block)
  PROVE  Drained(function.blocks) = block
<1> DEFINE s == <<block>>
           S == Elements(block)
<1>1. s = [n \in DOMAIN <<FirstBlock>> |-> <<FirstBlock>>[n].instructions]
  BY DEF FirstBlock
<1>2. block \in Seq(S)
  BY DEF IsSequence
<1> HIDE DEF S
<1>3. s \in Seq(Seq(S)) /\ Len(s) = 1 /\ s[1] = block /\ 1 \in 1 .. Len(s)
  BY <1>2
<1>4. <<>> \o block = block
  BY <1>2
<1> HIDE DEF s
<1>5. FlattenSeq(s) = UpTo(s, 1 - 1) \o s[1] /\ UpTo(s, 0) = <<>>
  BY <1>3, UpToGrows
<1>6. Drained(<<FirstBlock>>) = FlattenSeq(s)
  BY <1>1, Zenon DEF Drained
<1>7. UpTo(s, 1 - 1) = UpTo(s, 0)
  OBVIOUS
<1> QED
  BY <1>3, <1>4, <1>5, <1>6, <1>7

LEMMA BuildStarts ==
  ASSUME OrderInv, Inv, Stream(block), StartBuild
  PROVE  Building!Starting'
<1>1. next_pass = 1 /\ function' = function /\ block' = block /\ IsSequence(block)
  BY PassNumbers DEF OrderInv, StartBuild, Starting, decoder, decoding, Inv
<1>2. /\ function.blocks = <<FirstBlock>> /\ function.index = <<>> /\ function.entry = base
  BY <1>1 DEF OrderInv
<1>3. Drained(function.blocks) = block
  BY <1>1, <1>2, DrainedAtFirst
<1>4. Drained(function.blocks)' = block
  BY <1>1, <1>3
<1>5. block # <<>> => block[1].address = base
  BY DEF Inv, Contiguous
<1>6. /\ pc' = IF block = <<>> THEN "done" ELSE "leaders"
      /\ leaders' = IF block = <<>> THEN {} ELSE {block[1].address}
      /\ i' = 1 /\ blocks' = <<>> /\ successors' = <<>> /\ predecessors' = <<>>
      /\ index' = <<>>
  BY <1>2, <1>3, <1>5 DEF StartBuild
<1>7. block \in Seq(Building!Elements(block)) /\ Building!Stream(block)
  BY <1>1 DEF IsSequence, Building!Elements, Elements, Building!Stream, Stream,
     Building!LiftedInstruction, LiftedInstruction, Building!IsControl, IsControl,
     Building!Absolute, Absolute, Building!Indirect, Indirect
<1>8. Building!NoIndex = <<>>
  BY DEF Building!NoIndex
<1> QED
  BY <1>4, <1>6, <1>7, <1>8 DEF Building!Starting, Building!FlatOK

LEMMA StartingIsInv == Building!Starting => Building!BuildInv
  BY BuildingBytes, BuildingAddress, BuildingStream, Building!StartsBuild

LEMMA BuildInvStarts ==
  ASSUME OrderInv, Inv, Stream(block), StartBuild
  PROVE  Building!BuildInv'
<1>1. Building!Starting'
  BY BuildStarts
<1> QED
  BY <1>1, StartingIsInv, PTL

(* Starts, of any blocks.                                                  *)
StartsIn(bs) == {bs[n].start_address : n \in DOMAIN bs}

(* Leads, of any blocks.                                                   *)
LeadsIn(bs, n, m) ==
  LET instructions == bs[n].instructions
      last == instructions[Len(instructions)]
  IN  \/ bs[m].start_address \in Builder!Targets(last)
      \/ m = n + 1 /\ Builder!FallsThrough(last)

(* What HandsOver says of a function.                                      *)
GraphOK(e, bs, ind) ==
  /\ bs # <<>> => e \in StartsIn(bs)
  /\ DOMAIN ind = StartsIn(bs)
  /\ \A n \in DOMAIN bs : ind[bs[n].start_address] = n
  /\ \A n, m \in DOMAIN bs :
       /\ bs[m].start_address \in bs[n].successors <=> LeadsIn(bs, n, m)
       /\ bs[n].start_address \in bs[m].predecessors <=> LeadsIn(bs, n, m)
  /\ [j \in DOMAIN Drained(bs) |-> Drained(bs)[j].address]
       = [j \in DOMAIN block |-> block[j].address]

BlockOf(start, instructions, succ, pred) ==
  [start_address |-> start, instructions |-> instructions,
   successors |-> succ, predecessors |-> pred]

(* What the rewriting takes for granted.                                   *)
BlocksOK(bs) ==
  /\ Len(bs) \in Nat /\ DOMAIN bs = 1 .. Len(bs)
  /\ \A n \in 1 .. Len(bs) :
       /\ bs[n] = BlockOf(bs[n].start_address, bs[n].instructions,
                          bs[n].successors, bs[n].predecessors)
       /\ Sound(bs[n].instructions) /\ Len(bs[n].instructions) > 0

(* The blocks name no Varnode that the lifted instructions do not name.    *)
BlockNames == UNION {NamesOf(block[j].ops) : j \in 1 .. Len(block)}

AllNamed(bs) ==
  \A n \in 1 .. Len(bs) : \A j \in 1 .. Len(bs[n].instructions) :
    NamesOf(bs[n].instructions[j].ops) \subseteq BlockNames

LEMMA SoundBlock ==
  ASSUME Inv
  PROVE  Sound(block)
  BY DEF Inv, AllLiftWell, LiftsWell, Sound

(* The instructions at some positions of a sequence.                       *)
LEMMA PickedIsSound ==
  ASSUME NEW s, Sound(s), NEW p, Len(p) \in Nat, DOMAIN p = 1 .. Len(p),
         \A j \in 1 .. Len(p) : p[j] \in 1 .. Len(s)
  PROVE  /\ Sound([j \in DOMAIN p |-> s[p[j]]])
         /\ Len([j \in DOMAIN p |-> s[p[j]]]) = Len(p)
<1> DEFINE q == [j \in DOMAIN p |-> s[p[j]]]
<1>1. q = [j \in 1 .. Len(p) |-> s[p[j]]]
  OBVIOUS
<1> HIDE DEF q
<1>2. Len(q) = Len(p) /\ \A j \in 1 .. Len(p) : q[j] = s[p[j]]
  BY <1>1
<1>3. q = [j \in 1 .. Len(q) |-> q[j]]
  BY <1>1, <1>2
<1>4. \A j \in 1 .. Len(q) : q[j] \in Elements(q)
  BY DEF Elements
<1>5. IsSequence(q)
  BY <1>2, <1>3, <1>4 DEF IsSequence
<1> QED
  BY <1>2, <1>5 DEF Sound, q

(* The blocks that the builder leaves.                                     *)
LEMMA BuiltIsOK ==
  ASSUME OrderInv, Inv, next_pass = 1, Building!BuildInv, Builder!Done
  PROVE  /\ GraphOK(function.entry, BuiltBlocks, index)
         /\ BlocksOK(BuiltBlocks) /\ AllNamed(BuiltBlocks)
<1> DEFINE bs == BuiltBlocks
           n0 == Len(blocks)
<1>1. /\ function.blocks = <<FirstBlock>> /\ function.entry = base /\ IsSequence(block)
  BY DEF OrderInv, Inv
<1>2. Drained(function.blocks) = block
  BY <1>1, DrainedAtFirst
<1>3. Building!Done
  BY DEF Builder!Done, Building!Done
<1>4. Building!Finished
  BY <1>3, BuildingBytes, BuildingAddress, BuildingStream, Building!FinishedFollows
<1>5. /\ n0 \in Nat /\ DOMAIN blocks = 1 .. n0
      /\ Len(successors) = n0 /\ Len(predecessors) = n0
      /\ \A n \in 1 .. n0 :
           /\ Len(blocks[n].instructions) \in Nat \ {0}
           /\ DOMAIN blocks[n].instructions = 1 .. Len(blocks[n].instructions)
           /\ \A j \in 1 .. Len(blocks[n].instructions) :
                blocks[n].instructions[j] \in 1 .. Len(block)
  BY <1>2, <1>4 DEF Building!Finished, Building!BlocksAreSequences, Building!Blocks,
     Building!Positions
<1>6. bs = [n \in 1 .. n0 |->
              BlockOf(blocks[n].start_address,
                      [j \in DOMAIN blocks[n].instructions |-> block[blocks[n].instructions[j]]],
                      successors[n], predecessors[n])]
  BY <1>2, <1>5, Zenon DEF BuiltBlocks, BlockOf
<1> HIDE DEF bs
<1>7. Len(bs) = n0 /\ DOMAIN bs = 1 .. n0
  BY <1>5, <1>6
<1>8. ASSUME NEW n \in 1 .. n0
      PROVE  /\ bs[n].start_address = blocks[n].start_address
             /\ bs[n].instructions = [j \in DOMAIN blocks[n].instructions |->
                                        block[blocks[n].instructions[j]]]
             /\ bs[n].successors = successors[n] /\ bs[n].predecessors = predecessors[n]
             /\ bs[n] = BlockOf(bs[n].start_address, bs[n].instructions,
                                bs[n].successors, bs[n].predecessors)
  <2> DEFINE ins == [j \in DOMAIN blocks[n].instructions |-> block[blocks[n].instructions[j]]]
  <2>1. bs[n] = BlockOf(blocks[n].start_address, ins, successors[n], predecessors[n])
    BY <1>6, Zenon
  <2> HIDE DEF ins
  <2>2. /\ bs[n].start_address = blocks[n].start_address
        /\ bs[n].instructions = ins
        /\ bs[n].successors = successors[n] /\ bs[n].predecessors = predecessors[n]
    BY <2>1 DEF BlockOf
  <2> QED
    BY <2>1, <2>2 DEF ins
<1>9. ASSUME NEW n \in 1 .. n0
      PROVE  /\ Sound(bs[n].instructions)
             /\ Len(bs[n].instructions) = Len(blocks[n].instructions)
             /\ Len(bs[n].instructions) > 0
             /\ bs[n].instructions[Len(bs[n].instructions)] = Building!Last(blocks[n])
  <2> DEFINE p == blocks[n].instructions
             l == Len(p)
  <2>1. /\ l \in Nat \ {0} /\ DOMAIN p = 1 .. l
        /\ \A j \in 1 .. l : p[j] \in 1 .. Len(block)
    BY <1>5
  <2>2. bs[n].instructions = [j \in DOMAIN p |-> block[p[j]]]
    BY <1>8
  <2>3. Building!Last(blocks[n]) = block[p[l]]
    BY <1>2 DEF Building!Last
  <2>4. Len(bs[n].instructions) = Len(blocks[n].instructions) <=> Len(bs[n].instructions) = l
    OBVIOUS
  <2> HIDE DEF p
  <2>5. Sound(bs[n].instructions) /\ Len(bs[n].instructions) = l
    <3>1. /\ Sound([j \in DOMAIN p |-> block[p[j]]])
          /\ Len([j \in DOMAIN p |-> block[p[j]]]) = Len(p)
      BY <2>1, SoundBlock, PickedIsSound, Zenon
    <3> QED
      BY <2>2, <3>1
  <2>6. bs[n].instructions[l] = block[p[l]]
    BY <2>1, <2>2
  <2> HIDE DEF l
  <2> QED
    BY <2>1, <2>3, <2>4, <2>5, <2>6
<1>10. BlocksOK(bs)
  BY <1>5, <1>7, <1>8, <1>9 DEF BlocksOK
<1>11. \A n, m \in 1 .. n0 : LeadsIn(bs, n, m) <=> Building!Follows(n, m)
  <2>1. ASSUME NEW li
        PROVE  /\ Building!Targets(li) = Builder!Targets(li)
               /\ Building!FallsThrough(li) <=> Builder!FallsThrough(li)
    BY DEF Building!Targets, Builder!Targets, Building!IsTerminator, Builder!IsTerminator,
       Building!FallsThrough, Builder!FallsThrough, Building!Elements, Builder!Elements,
       Building!IsControl, Builder!IsControl
  <2>2. ASSUME NEW n \in 1 .. n0, NEW m \in 1 .. n0
        PROVE  LeadsIn(bs, n, m) <=> Building!Follows(n, m)
    <3>1. /\ bs[m].start_address = blocks[m].start_address
          /\ bs[n].instructions[Len(bs[n].instructions)] = Building!Last(blocks[n])
      BY <1>8, <1>9
    <3> QED
      BY <2>1, <3>1, Zenon DEF LeadsIn, Building!Follows
  <2> QED
    BY <2>2
<1>12. \A n, m \in 1 .. n0 :
         /\ bs[m].start_address \in bs[n].successors <=> LeadsIn(bs, n, m)
         /\ bs[n].start_address \in bs[m].predecessors <=> LeadsIn(bs, n, m)
  BY <1>4, <1>8, <1>11 DEF Building!Finished, Building!Blocks
<1>13. StartsIn(bs) = {blocks[n].start_address : n \in 1 .. n0}
  BY <1>7, <1>8 DEF StartsIn
<1>14. /\ DOMAIN index = StartsIn(bs)
       /\ \A n \in 1 .. n0 : index[bs[n].start_address] = n
  BY <1>3, <1>8, <1>13 DEF Building!BuildInv, Building!IInv, Building!IndexAgrees,
     Building!Starts, Building!Blocks
<1>15. bs # <<>> => base \in StartsIn(bs)
  <2> SUFFICES ASSUME bs # <<>> PROVE base \in StartsIn(bs)
    OBVIOUS
  <2>1. n0 # 0
    BY <1>6
  <2>2. blocks # <<>> /\ 1 \in 1 .. n0
    BY <1>5, <2>1
  <2>3. blocks[1].start_address = block[1].address
    BY <1>2, <1>4, <2>2 DEF Building!Finished
  <2>4. block # <<>>
    BY <1>5, <2>2
  <2> QED
    BY <1>13, <2>2, <2>3, <2>4 DEF Inv, Contiguous
<1>16. Drained(bs) = block
  <2> DEFINE s == [n \in 1 .. n0 |->
                     [j \in DOMAIN blocks[n].instructions |-> block[blocks[n].instructions[j]]]]
  <2>1. s = [n \in DOMAIN bs |-> bs[n].instructions]
    BY <1>7, <1>8
  <2> HIDE DEF s
  <2>2. Building!Seqs!FlattenSeq(s) = block
    BY <1>2, <1>4 DEF Building!Finished, Building!Blocks, s
  <2>3. Building!Seqs!FlattenSeq(s) = FlattenSeq(s)
    BY DEF FlattenSeq, Building!Seqs!FlattenSeq
  <2> QED
    BY <2>1, <2>2, <2>3 DEF Drained
<1>17. AllNamed(bs)
  <2> SUFFICES ASSUME NEW n \in 1 .. n0, NEW j \in 1 .. Len(bs[n].instructions)
               PROVE  NamesOf(bs[n].instructions[j].ops) \subseteq BlockNames
    BY <1>7 DEF AllNamed
  <2> DEFINE p == blocks[n].instructions
  <2>1. j \in DOMAIN p /\ p[j] \in 1 .. Len(block)
    BY <1>5, <1>9
  <2>3. bs[n].instructions = [x \in DOMAIN p |-> block[p[x]]]
    BY <1>8
  <2> HIDE DEF p
  <2>2. bs[n].instructions[j] = block[p[j]]
    BY <2>1, <2>3
  <2> QED
    BY <2>1, <2>2 DEF BlockNames
<1>18. GraphOK(base, bs, index)
  BY <1>7, <1>12, <1>14, <1>15, <1>16 DEF GraphOK
<1> QED
  BY <1>1, <1>10, <1>17, <1>18 DEF bs

(* The rewritten operations so far, next to the original ones.             *)
FoldedTo(bodies, new, c, j, count) ==
  /\ c \in 1 .. count + 1 /\ j \in Nat \ {0}
  /\ c <= count => j <= Len(bodies[c]) + 1
  /\ DOMAIN new = 1 .. count
  /\ \A n \in 1 .. count :
       /\ IsSequence(new[n])
       /\ Len(new[n]) = IF n < c THEN Len(bodies[n]) ELSE IF n = c THEN j - 1 ELSE 0
       /\ \A x \in 1 .. Len(new[n]) : KeepsControl(bodies[n][x], new[n][x])

Folding == phase = "rewrite" => FoldedTo(Bodies, folded, b, i, Len(function.blocks))

LEMMA BodiesMean ==
  ASSUME BlocksOK(function.blocks)
  PROVE  /\ Len(function.blocks) \in Nat
         /\ \A n \in 1 .. Len(function.blocks) :
              /\ Bodies[n] = OpsOf(function.blocks[n].instructions)
              /\ Len(Bodies[n]) \in Nat
<1>1. Len(function.blocks) \in Nat /\ DOMAIN function.blocks = 1 .. Len(function.blocks)
  BY DEF BlocksOK
<1>2. ASSUME NEW n \in 1 .. Len(function.blocks)
      PROVE  Len(OpsOf(function.blocks[n].instructions)) \in Nat
  <2> DEFINE ins == function.blocks[n].instructions
  <2>1. Sound(ins)
    BY DEF BlocksOK
  <2> HIDE DEF ins
  <2>2. PICK S : LiftedOps(ins) \in Seq(Seq(S))
    BY <2>1, SoundOps, Zenon
  <2>3. OpsOf(ins) = FlattenSeq(LiftedOps(ins))
    BY DEF OpsOf, LiftedOps
  <2>4. /\ UpTo(LiftedOps(ins), Len(LiftedOps(ins))) = FlattenSeq(LiftedOps(ins))
        /\ \A m \in 0 .. Len(LiftedOps(ins)) : UpTo(LiftedOps(ins), m) \in Seq(S)
    BY <2>2, UpToGrows
  <2>5. Len(LiftedOps(ins)) \in 0 .. Len(LiftedOps(ins))
    BY <2>1, SoundOps
  <2>6. FlattenSeq(LiftedOps(ins)) \in Seq(S)
    BY <2>4, <2>5
  <2>7. \A q \in Seq(S) : Len(q) \in Nat
    OBVIOUS
  <2> QED
    BY <2>3, <2>6, <2>7 DEF ins
<1> QED
  BY <1>1, <1>2 DEF Bodies

(* Folding is established by StartRewrite and kept by the steps of the     *)
(* rewriting.                                                              *)
LEMMA FoldingStarts ==
  ASSUME NEW N, N = Len(function.blocks), BlocksOK(function.blocks), Propagation(N)!StartRewrite,
         function' = function
  PROVE  Folding'
<1>1. /\ phase' = "rewrite" /\ b' = 1 /\ i' = 1
      /\ folded' = [c \in 1 .. N |-> <<>>]
  BY DEF Propagation!StartRewrite, Propagation!NoFacts, Propagation!Block
<1>2. N \in Nat /\ Bodies' = Bodies /\ \A c \in 1 .. N : Len(Bodies[c]) \in Nat
  BY BodiesMean DEF Bodies
<1>3. Len(function.blocks)' = N
  OBVIOUS
<1>4. IsSequence(<<>>) /\ Len(<<>>) = 0
  BY DEF IsSequence
<1>5. \A c \in 1 .. N : folded'[c] = <<>>
  BY <1>1
<1>6. 1 <= N => 1 <= Len(Bodies[1]) + 1
  BY <1>2
<1>7. \A c \in 1 .. N : ~ (c < 1) /\ (c = 1 => 1 - 1 = 0)
  BY <1>2
<1>8. /\ 1 \in 1 .. N + 1 /\ DOMAIN folded' = 1 .. N
      /\ \A c \in 1 .. N :
           /\ IsSequence(folded'[c])
           /\ Len(folded'[c]) = IF c < 1 THEN Len(Bodies[c]) ELSE IF c = 1 THEN 1 - 1 ELSE 0
           /\ \A x \in 1 .. Len(folded'[c]) : KeepsControl(Bodies[c][x], folded'[c][x])
  BY <1>1, <1>2, <1>4, <1>5, <1>7
<1>9. FoldedTo(Bodies, folded', 1, 1, N)
  BY <1>2, <1>6, <1>8 DEF FoldedTo
<1> QED
  BY <1>1, <1>2, <1>3, <1>9, Zenon DEF Folding

LEMMA FoldingGoesOn ==
  ASSUME NEW N, N = Len(function.blocks), BlocksOK(function.blocks), Folding,
         Propagation(N)!RewriteInstruction, function' = function
  PROVE  Folding'
<1> DEFINE op == Bodies[b][i]
           new == Propagation(N)!SubstituteAndFold(op, state)
           more == Append(folded[b], new)
<1>1. /\ phase = "rewrite" /\ phase' = "rewrite" /\ b' = b /\ i' = i + 1
      /\ b <= N /\ i <= Len(Bodies[b])
      /\ folded' = [folded EXCEPT ![b] = more]
  BY DEF Propagation!RewriteInstruction
<1>2. N \in Nat /\ Bodies' = Bodies /\ \A c \in 1 .. N : Len(Bodies[c]) \in Nat
  BY BodiesMean DEF Bodies
<1>3. b \in 1 .. N /\ i \in Nat \ {0} /\ DOMAIN folded = 1 .. N
  BY <1>1, <1>2 DEF Folding, FoldedTo
<1>4. IsSequence(folded[b]) /\ Len(folded[b]) = i - 1
  BY <1>1, <1>3 DEF Folding, FoldedTo
<1>5. KeepsControl(op, new)
  BY RewriteKeepsControl
<1> HIDE DEF new
<1>6. /\ IsSequence(more) /\ Len(more) = i
      /\ \A x \in 1 .. i - 1 : more[x] = folded[b][x]
      /\ more[i] = new
  BY <1>3, <1>4, AppendAnything
<1>7. \A x \in 1 .. Len(more) : KeepsControl(Bodies[b][x], more[x])
  <2>1. \A x \in 1 .. i - 1 : KeepsControl(Bodies[b][x], folded[b][x])
    BY <1>1, <1>3, <1>4 DEF Folding, FoldedTo
  <2>2. \A x \in 1 .. i : x = i \/ x \in 1 .. i - 1
    BY <1>3
  <2> QED
    BY <1>5, <1>6, <2>1, <2>2
<1> HIDE DEF more, op
<1>8. /\ DOMAIN folded' = 1 .. N /\ folded'[b] = more
      /\ \A c \in 1 .. N : c # b => folded'[c] = folded[c]
  BY <1>1, <1>3
<1>9. ASSUME NEW c \in 1 .. N
      PROVE  /\ IsSequence(folded'[c])
             /\ Len(folded'[c]) = IF c < b THEN Len(Bodies[c])
                                  ELSE IF c = b THEN (i + 1) - 1 ELSE 0
             /\ \A x \in 1 .. Len(folded'[c]) : KeepsControl(Bodies[c][x], folded'[c][x])
  <2>1. CASE c = b
    BY <1>3, <1>6, <1>7, <1>8, <2>1
  <2>2. CASE c # b
    BY <1>1, <1>3, <1>8, <2>2 DEF Folding, FoldedTo
  <2> QED
    BY <2>1, <2>2
<1>10. Len(function.blocks)' = N
  OBVIOUS
<1>11. i + 1 \in Nat \ {0} /\ i + 1 <= Len(Bodies[b]) + 1 /\ b \in 1 .. N + 1
  BY <1>1, <1>2, <1>3
<1>12. FoldedTo(Bodies, folded', b, i + 1, N)
  BY <1>8, <1>9, <1>11 DEF FoldedTo
<1> QED
  BY <1>1, <1>2, <1>10, <1>12, Zenon DEF Folding

LEMMA FoldingNextBlock ==
  ASSUME NEW N, N = Len(function.blocks), BlocksOK(function.blocks), Folding,
         Propagation(N)!NextBlock, function' = function
  PROVE  Folding'
<1>1. /\ phase = "rewrite" /\ phase' = "rewrite" /\ b' = b + 1 /\ i' = 1
      /\ b <= N /\ i > Len(Bodies[b]) /\ folded' = folded
  BY DEF Propagation!NextBlock
<1>0. b \in 1 .. N + 1 /\ i \in Nat \ {0} /\ i <= Len(Bodies[b]) + 1 /\ DOMAIN folded = 1 .. N
  BY <1>1 DEF Folding, FoldedTo
<1>2. N \in Nat /\ Bodies' = Bodies /\ \A c \in 1 .. N : Len(Bodies[c]) \in Nat
  BY BodiesMean DEF Bodies
<1>3. /\ b \in 1 .. N /\ i \in Nat \ {0} /\ DOMAIN folded = 1 .. N
      /\ i = Len(Bodies[b]) + 1
  <2>1. b \in 1 .. N
    BY <1>0, <1>1, <1>2
  <2> QED
    BY <1>0, <1>1, <1>2, <2>1
<1>4. ASSUME NEW c \in 1 .. N
      PROVE  /\ IsSequence(folded[c])
             /\ Len(folded[c]) = IF c < b + 1 THEN Len(Bodies[c])
                                 ELSE IF c = b + 1 THEN 1 - 1 ELSE 0
             /\ \A x \in 1 .. Len(folded[c]) : KeepsControl(Bodies[c][x], folded[c][x])
  <2>1. /\ IsSequence(folded[c])
        /\ Len(folded[c]) = IF c < b THEN Len(Bodies[c]) ELSE IF c = b THEN i - 1 ELSE 0
        /\ \A x \in 1 .. Len(folded[c]) : KeepsControl(Bodies[c][x], folded[c][x])
    BY <1>1 DEF Folding, FoldedTo
  <2>2. Len(folded[c]) = IF c < b + 1 THEN Len(Bodies[c]) ELSE IF c = b + 1 THEN 1 - 1 ELSE 0
    BY <1>2, <1>3, <2>1
  <2> QED
    BY <2>1, <2>2
<1>5. Len(function.blocks)' = N
  OBVIOUS
<1>6. /\ b + 1 \in 1 .. N + 1
      /\ b + 1 <= N => 1 <= Len(Bodies[b + 1]) + 1
  <2>1. b + 1 \in 1 .. N + 1
    BY <1>2, <1>3
  <2>2. b + 1 <= N => b + 1 \in 1 .. N
    BY <1>2, <1>3
  <2> QED
    BY <1>2, <2>1, <2>2
<1>7. FoldedTo(Bodies, folded, b + 1, 1, N)
  BY <1>3, <1>4, <1>6 DEF FoldedTo
<1> QED
  BY <1>1, <1>2, <1>5, <1>7, Zenon DEF Folding

(* Operations with fewer names, one by one.                                *)
LEMMA FewerNames ==
  ASSUME NEW p, NEW q, Len(p) = Len(q), \A x \in 1 .. Len(q) : Names(p[x]) \subseteq Names(q[x])
  PROVE  NamesOf(p) \subseteq NamesOf(q)
<1>1. ASSUME NEW s PROVE NamesOf(s) = UNION {Names(s[x]) : x \in 1 .. Len(s)}
  BY DEF NamesOf, Elements
<1> QED
  BY <1>1

(* What the rewriting makes of one block.                                  *)
LEMMA RewrittenBlock ==
  ASSUME BlocksOK(function.blocks), Folding, phase = "rewrite", b > Len(function.blocks),
         NEW n \in 1 .. Len(function.blocks)
  PROVE  LET old == function.blocks[n]
             new == RewrittenBlocks[n]
         IN  /\ new.start_address = old.start_address
             /\ new.successors = old.successors /\ new.predecessors = old.predecessors
             /\ new = BlockOf(new.start_address, new.instructions,
                              new.successors, new.predecessors)
             /\ Sound(new.instructions)
             /\ Len(new.instructions) = Len(old.instructions)
             /\ \A j \in 1 .. Len(old.instructions) :
                  /\ NamesOf(new.instructions[j].ops) \subseteq NamesOf(old.instructions[j].ops)
                  /\ new.instructions[j].address = old.instructions[j].address
                  /\ Builder!Targets(new.instructions[j]) = Builder!Targets(old.instructions[j])
                  /\ Builder!FallsThrough(new.instructions[j])
                       <=> Builder!FallsThrough(old.instructions[j])
<1> DEFINE old == function.blocks[n]
           new == RewrittenBlocks[n]
           ins == old.instructions
           ops == folded[n]
           regrouped == Regroup(ins, ops)
<1>1. /\ Len(function.blocks) \in Nat /\ DOMAIN function.blocks = 1 .. Len(function.blocks)
      /\ old = BlockOf(old.start_address, ins, old.successors, old.predecessors)
      /\ Sound(ins)
  BY DEF BlocksOK
<1>2. RewrittenBlocks[n] = [old EXCEPT !.instructions = regrouped]
  BY <1>1 DEF RewrittenBlocks
<1>3. new = BlockOf(old.start_address, regrouped, old.successors, old.predecessors)
  <2>1. old = [start_address |-> old.start_address, instructions |-> ins,
               successors |-> old.successors, predecessors |-> old.predecessors]
    BY <1>1, Zenon DEF BlockOf
  <2> HIDE DEF old
  <2>2. \A x : [old EXCEPT !.instructions = x] =
                 [start_address |-> old.start_address, instructions |-> x,
                  successors |-> old.successors, predecessors |-> old.predecessors]
    BY <2>1
  <2> QED
    BY <1>2, <2>2, Zenon DEF BlockOf
<1>4. Bodies[n] = OpsOf(ins) /\ Len(Bodies[n]) \in Nat
  BY BodiesMean
<1>5. /\ IsSequence(ops) /\ Len(ops) = Len(OpsOf(ins))
      /\ \A y \in 1 .. Len(ops) : KeepsControl(OpsOf(ins)[y], ops[y])
  <2>1. n < b
    BY <1>1 DEF Folding, FoldedTo
  <2> QED
    BY <1>4, <2>1 DEF Folding, FoldedTo
<1> HIDE DEF old, new, ops
<1>6. /\ new.start_address = old.start_address
      /\ new.successors = old.successors /\ new.predecessors = old.predecessors
      /\ new.instructions = regrouped
  BY <1>3 DEF BlockOf
<1> HIDE DEF ins
<1>7. \A j \in 1 .. Len(ins) :
        /\ DOMAIN regrouped = 1 .. Len(ins)
        /\ regrouped[j].address = ins[j].address
        /\ IsSequence(regrouped[j].ops)
        /\ Len(regrouped[j].ops) = Len(ins[j].ops)
        /\ \A x \in 1 .. Len(ins[j].ops) :
             \E y \in 1 .. Len(ops) : /\ regrouped[j].ops[x] = ops[y]
                                      /\ ins[j].ops[x] = OpsOf(ins)[y]
  <2>1. \A j \in 1 .. Len(ins) : RegroupedAt(ins, ops, Regroup(ins, ops), j)
    BY <1>1, <1>5, RegroupMeans, Zenon
  <2> QED
    BY <2>1, Zenon DEF RegroupedAt
<1>8. IsSequence(regrouped) /\ Len(regrouped) = Len(ins)
  <2>1. Len(ins) \in Nat /\ DOMAIN ins = 1 .. Len(ins)
    BY <1>1, SoundOps
  <2> DEFINE F(j) == regrouped[j]
  <2>2. regrouped = [j \in 1 .. Len(ins) |-> regrouped[j]]
    BY <2>1 DEF Regroup
  <2>3. \A j \in 1 .. Len(ins) : regrouped[j] \in {regrouped[x] : x \in 1 .. Len(ins)}
    OBVIOUS
  <2> HIDE DEF regrouped
  <2>4. Len(regrouped) = Len(ins)
    BY <2>1, <2>2
  <2>5. Elements(regrouped) = {regrouped[x] : x \in 1 .. Len(ins)}
    BY <2>4 DEF Elements
  <2> QED
    BY <2>1, <2>2, <2>3, <2>4, <2>5 DEF IsSequence
<1> HIDE DEF regrouped
<1>9. ASSUME NEW j \in 1 .. Len(ins)
      PROVE  /\ Builder!Targets(regrouped[j]) = Builder!Targets(ins[j])
             /\ Builder!FallsThrough(regrouped[j]) <=> Builder!FallsThrough(ins[j])
             /\ NamesOf(regrouped[j].ops) \subseteq NamesOf(ins[j].ops)
  <2>1. \A x \in 1 .. Len(ins[j].ops) : KeepsControl(ins[j].ops[x], regrouped[j].ops[x])
    BY <1>5, <1>7
  <2>2. NamesOf(regrouped[j].ops) \subseteq NamesOf(ins[j].ops)
    <3>1. Len(regrouped[j].ops) = Len(ins[j].ops)
      BY <1>7
    <3>2. \A x \in 1 .. Len(ins[j].ops) : Names(regrouped[j].ops[x]) \subseteq Names(ins[j].ops[x])
      BY <2>1 DEF KeepsControl
    <3> QED
      BY <3>1, <3>2, FewerNames
  <2> QED
    BY <1>7, <2>1, <2>2, SameFlow
<1>10. Sound(regrouped)
  BY <1>7, <1>8 DEF Sound
<1>11. new = BlockOf(new.start_address, new.instructions, new.successors, new.predecessors)
  BY <1>3, <1>6, Zenon
<1> QED
  BY <1>6, <1>7, <1>8, <1>9, <1>10, <1>11 DEF new, old, ins

(* The rewritten blocks are as sound, as well connected and as well named  *)
(* as the original ones.                                                   *)
LEMMA RewrittenIsOK ==
  ASSUME BlocksOK(function.blocks), Folding, phase = "rewrite", b > Len(function.blocks),
         NEW e, NEW ind, GraphOK(e, function.blocks, ind)
  PROVE  /\ GraphOK(e, RewrittenBlocks, ind)
         /\ BlocksOK(RewrittenBlocks)
         /\ AllNamed(function.blocks) => AllNamed(RewrittenBlocks)
<1> DEFINE bs == function.blocks
           cs == RewrittenBlocks
           n0 == Len(bs)
<1>1. n0 \in Nat /\ DOMAIN bs = 1 .. n0 /\ cs = [n \in 1 .. n0 |-> cs[n]]
  BY DEF BlocksOK, RewrittenBlocks
<1>2. \A n \in 1 .. n0 :
        /\ cs[n].start_address = bs[n].start_address
        /\ cs[n].successors = bs[n].successors /\ cs[n].predecessors = bs[n].predecessors
        /\ cs[n] = BlockOf(cs[n].start_address, cs[n].instructions,
                           cs[n].successors, cs[n].predecessors)
        /\ Sound(cs[n].instructions)
        /\ Len(cs[n].instructions) = Len(bs[n].instructions)
        /\ \A j \in 1 .. Len(bs[n].instructions) :
             /\ cs[n].instructions[j].address = bs[n].instructions[j].address
             /\ Builder!Targets(cs[n].instructions[j]) = Builder!Targets(bs[n].instructions[j])
             /\ Builder!FallsThrough(cs[n].instructions[j])
                  <=> Builder!FallsThrough(bs[n].instructions[j])
             /\ NamesOf(cs[n].instructions[j].ops) \subseteq NamesOf(bs[n].instructions[j].ops)
  BY RewrittenBlock, Zenon
<1>3. \A n \in 1 .. n0 : /\ Sound(bs[n].instructions)
                         /\ Len(bs[n].instructions) \in Nat \ {0}
                         /\ IsSequence(bs[n].instructions)
  BY SoundOps DEF BlocksOK, Sound
<1> HIDE DEF cs, bs
<1>4. Len(cs) = n0 /\ DOMAIN cs = 1 .. n0
  BY <1>1
<1>5. StartsIn(cs) = StartsIn(bs)
  BY <1>1, <1>2, <1>4 DEF StartsIn
<1>6. ASSUME NEW n \in 1 .. n0, NEW m \in 1 .. n0
      PROVE  LeadsIn(cs, n, m) <=> LeadsIn(bs, n, m)
  <2>1. Len(bs[n].instructions) \in 1 .. Len(bs[n].instructions)
    BY <1>3
  <2>2. /\ cs[m].start_address = bs[m].start_address
        /\ Len(cs[n].instructions) = Len(bs[n].instructions)
    BY <1>2
  <2>3. \A j \in 1 .. Len(bs[n].instructions) :
          /\ Builder!Targets(cs[n].instructions[j]) = Builder!Targets(bs[n].instructions[j])
          /\ Builder!FallsThrough(cs[n].instructions[j])
               <=> Builder!FallsThrough(bs[n].instructions[j])
    BY <1>2
  <2> QED
    BY <2>1, <2>2, <2>3, Zenon DEF LeadsIn
<1>7. [j \in DOMAIN Drained(cs) |-> Drained(cs)[j].address]
        = [j \in DOMAIN Drained(bs) |-> Drained(bs)[j].address]
  <2> DEFINE s == [n \in 1 .. n0 |-> bs[n].instructions]
             t == [n \in 1 .. n0 |-> cs[n].instructions]
             S == UNION {Elements(bs[n].instructions) \union Elements(cs[n].instructions)
                           : n \in 1 .. n0}
  <2>1. \A n \in 1 .. n0 : s[n] \in Seq(S) /\ t[n] \in Seq(S) /\ SameAddresses(s[n], t[n])
    <3> SUFFICES ASSUME NEW n \in 1 .. n0
                 PROVE  s[n] \in Seq(S) /\ t[n] \in Seq(S) /\ SameAddresses(s[n], t[n])
      OBVIOUS
    <3>1. s[n] \in Seq(Elements(s[n])) /\ t[n] \in Seq(Elements(t[n]))
      BY <1>2, <1>3 DEF IsSequence, Sound
    <3>2. Elements(s[n]) \subseteq S /\ Elements(t[n]) \subseteq S
      OBVIOUS
    <3>3. SameAddresses(s[n], t[n])
      BY <1>2 DEF SameAddresses
    <3> HIDE DEF s, t, S
    <3> QED
      BY <3>1, <3>2, <3>3
  <2>2. Drained(bs) = FlattenSeq(s) /\ Drained(cs) = FlattenSeq(t)
    BY <1>1, <1>4 DEF Drained
  <2>3. s = [n \in 1 .. n0 |-> s[n]] /\ t = [n \in 1 .. n0 |-> t[n]]
    OBVIOUS
  <2> HIDE DEF s, t, S
  <2>4. s \in Seq(Seq(S)) /\ t \in Seq(Seq(S)) /\ Len(s) = n0 /\ Len(t) = n0
    BY <1>1, <2>1, <2>3
  <2>5. SameAddresses(FlattenSeq(s), FlattenSeq(t))
    BY <2>1, <2>4, FlattenSameAddresses
  <2>6. FlattenSeq(s) \in Seq(S) /\ FlattenSeq(t) \in Seq(S)
    <3>1. n0 \in 0 .. n0
      BY <1>1
    <3> QED
      BY <2>4, <3>1, UpToGrows
  <2> DEFINE p == FlattenSeq(s)
             q == FlattenSeq(t)
  <2>7. p \in Seq(S) /\ q \in Seq(S) /\ SameAddresses(p, q)
    BY <2>5, <2>6
  <2> HIDE DEF p, q
  <2>8. /\ DOMAIN p = 1 .. Len(p) /\ DOMAIN q = 1 .. Len(p)
        /\ \A x \in 1 .. Len(p) : p[x].address = q[x].address
    BY <2>7 DEF SameAddresses
  <2>9. [j \in DOMAIN p |-> p[j].address] = [j \in DOMAIN q |-> q[j].address]
    BY <2>8
  <2> QED
    BY <2>2, <2>9 DEF p, q
<1>8. cs # <<>> => bs # <<>>
  <2>1. CASE n0 = 0
    BY <1>1, <2>1
  <2>2. CASE n0 # 0
    BY <1>1, <2>2
  <2> QED
    BY <2>1, <2>2
<1>9. GraphOK(e, bs, ind)
  BY DEF bs
<1>10. /\ cs # <<>> => e \in StartsIn(cs)
       /\ DOMAIN ind = StartsIn(cs)
  BY <1>5, <1>8, <1>9 DEF GraphOK
<1>11. \A n \in 1 .. n0 : ind[cs[n].start_address] = n
  BY <1>1, <1>2, <1>9 DEF GraphOK
<1>12. \A n, m \in 1 .. n0 :
         /\ cs[m].start_address \in cs[n].successors <=> LeadsIn(cs, n, m)
         /\ cs[n].start_address \in cs[m].predecessors <=> LeadsIn(cs, n, m)
  BY <1>1, <1>2, <1>6, <1>9 DEF GraphOK
<1>13. [j \in DOMAIN Drained(cs) |-> Drained(cs)[j].address]
         = [j \in DOMAIN block |-> block[j].address]
  BY <1>7, <1>9 DEF GraphOK
<1>14. GraphOK(e, cs, ind)
  BY <1>4, <1>10, <1>11, <1>12, <1>13 DEF GraphOK
<1>15. BlocksOK(cs)
  BY <1>1, <1>2, <1>3, <1>4 DEF BlocksOK
<1>16. AllNamed(bs) => AllNamed(cs)
  BY <1>1, <1>2, <1>4, Zenon DEF AllNamed
<1> QED
  BY <1>14, <1>15, <1>16 DEF bs, cs

-----------------------------------------------------------------------------
(* The passes hand over what they are asked for.                           *)

HandInv ==
  Stream(block) =>
    /\ next_pass = 1 /\ working => Building!BuildInv
    /\ next_pass >= 2 => BlocksOK(function.blocks) /\ AllNamed(function.blocks)
    /\ next_pass = 2 /\ working => Folding
    /\ next_pass >= 2 => GraphOK(function.entry, function.blocks, function.index)

(* Within a pass, only its own steps touch its state.                      *)
LEMMA WithinPass ==
  ASSUME [PipelineNext]_vars, next_pass \in 1 .. 2, UNCHANGED <<function, next_pass>>
  PROVE  \/ next_pass = 1 /\ (StartBuild \/ Build)
         \/ next_pass = 2 /\ (StartPropagation \/ Propagate)
         \/ UNCHANGED <<working, shared, building, propagating>>
<1>0. /\ ~ AtPass("TypeInference") /\ ~ AtPass("Structurer") /\ ~ PassesDone
      /\ AtPass("CfgBuilder") <=> next_pass = 1
      /\ AtPass("ConstantPropagation") <=> next_pass = 2
  BY PassNumbers
<1>1. CASE UNCHANGED vars
  BY <1>1 DEF vars
<1>2. ASSUME NEW f, NEW name PROVE ~ LeavePass(name, f)
  BY DEF LeavePass
<1>3. ~ (PassOverNothing \/ EndBuild \/ EndPropagation \/ EndInference \/ EndStructuring)
  BY <1>2 DEF PassOverNothing, EndBuild, EndPropagation, EndInference, EndStructuring
<1>4. CASE StartBuild \/ Build \/ StartPropagation \/ Propagate
  BY <1>0, <1>4 DEF StartBuild, Build, StartPropagation, Propagate, Starting, Working
<1>5. ~ (StartInference \/ Infer \/ StartStructuring \/ Structure)
  BY <1>0 DEF StartInference, Infer, StartStructuring, Structure, Starting, Working
<1>6. CASE DecodeStep \/ ReturnFunction \/ StartRun \/ RunBlock \/ Ended
  BY <1>6 DEF DecodeStep, ReturnFunction, StartRun, RunBlock, Ended, vars
<1> QED
  BY <1>1, <1>3, <1>4, <1>5, <1>6 DEF PipelineNext

LEMMA BuildingGoesOn ==
  ASSUME OrderInv, Inv, Stream(block), next_pass = 1, working => Building!BuildInv,
         [PipelineNext]_vars, UNCHANGED <<function, next_pass>>
  PROVE  working' => Building!BuildInv'
<1>1. CASE StartBuild
  BY <1>1, BuildInvStarts
<1>2. CASE Build
  BY <1>2, BuildKeeps DEF Build, Working
<1>3. CASE UNCHANGED <<working, shared, building, propagating>>
  BY <1>3, UnbuiltKeeps
<1>4. next_pass \in 1 .. 2 /\ next_pass # 2
  OBVIOUS
<1>5. \/ StartBuild \/ Build
      \/ UNCHANGED <<working, shared, building, propagating>>
  BY <1>4, WithinPass
<1> QED
  BY <1>1, <1>2, <1>3, <1>5, Zenon

LEMMA PropagationGoesOn ==
  ASSUME BlocksOK(function.blocks), next_pass = 2, working => Folding,
         [PipelineNext]_vars, UNCHANGED <<function, next_pass>>
  PROVE  working' => Folding'
<1>1. CASE StartPropagation
  BY <1>1 DEF StartPropagation, Folding
<1>2. CASE Propagate
  <2>1. PICK n \in 1 .. MaxBlocks :
          /\ n = Len(function.blocks)
          /\ \/ Propagation(n)!Solve \/ Propagation(n)!StartRewrite
             \/ Propagation(n)!RewriteInstruction \/ Propagation(n)!NextBlock
    BY <1>2 DEF Propagate
  <2>2. Folding
    BY <1>2 DEF Propagate, Working
  <2>3. CASE Propagation(n)!Solve
    BY <2>3 DEF Propagation!Solve, Folding, FoldedTo
  <2>4. CASE Propagation(n)!StartRewrite
    BY <2>1, <2>4, FoldingStarts
  <2>5. CASE Propagation(n)!RewriteInstruction
    BY <2>1, <2>2, <2>5, FoldingGoesOn
  <2>6. CASE Propagation(n)!NextBlock
    BY <2>1, <2>2, <2>6, FoldingNextBlock
  <2> QED
    BY <2>1, <2>3, <2>4, <2>5, <2>6
<1>3. CASE UNCHANGED <<working, shared, building, propagating>>
  BY <1>3 DEF shared, propagating, Folding, Bodies
<1>4. next_pass \in 1 .. 2 /\ next_pass # 1
  OBVIOUS
<1>5. \/ StartPropagation \/ Propagate
      \/ UNCHANGED <<working, shared, building, propagating>>
  BY <1>4, WithinPass
<1> QED
  BY <1>1, <1>2, <1>3, <1>5, Zenon

(* A pass that ends leaves the graph as the next one needs it.             *)
LEMMA EditHands ==
  ASSUME OrderInv, Inv, HandInv, Stream(block),
         Built \/ Rewritten \/ Skipped \/ Typed \/ Recovered
  PROVE  /\ next_pass' >= 2 /\ working' = FALSE
         /\ BlocksOK(function'.blocks) /\ AllNamed(function'.blocks)
         /\ GraphOK(function'.entry, function'.blocks, function'.index)
<1>1. ASSUME NEW from \in 1 .. 4, NEW e, NEW bs, NEW ind, NEW ts, NEW tr,
             Edits(from, e, bs, ind, ts, tr), GraphOK(e, bs, ind),
             BlocksOK(bs), AllNamed(bs)
      PROVE  /\ next_pass' >= 2 /\ working' = FALSE
             /\ BlocksOK(function'.blocks) /\ AllNamed(function'.blocks)
             /\ GraphOK(function'.entry, function'.blocks, function'.index)
  <2>1. function'.entry = e /\ function'.blocks = bs /\ function'.index = ind
    BY <1>1, FieldsAre DEF Edits
  <2>2. next_pass' = from + 1 /\ working' = FALSE
    BY <1>1 DEF Edits
  <2> QED
    BY <1>1, <2>1, <2>2
<1>2. CASE Built
  <2>1. next_pass = 1 /\ Building!BuildInv /\ Builder!Done
    BY <1>2 DEF Built, Edits, HandInv
  <2>2. /\ GraphOK(function.entry, BuiltBlocks, index)
        /\ BlocksOK(BuiltBlocks) /\ AllNamed(BuiltBlocks)
    BY <2>1, BuiltIsOK
  <2>3. Edits(1, function.entry, BuiltBlocks, index, function.types, function.ast) /\ 1 \in 1 .. 4
    BY <1>2 DEF Built
  <2> QED
    BY <1>1, <2>2, <2>3, Zenon
<1>3. CASE Rewritten
  <2>1. /\ BlocksOK(function.blocks) /\ AllNamed(function.blocks)
        /\ Folding /\ phase = "rewrite" /\ b > Len(function.blocks)
        /\ GraphOK(function.entry, function.blocks, function.index)
    BY <1>3 DEF Rewritten, Edits, HandInv
  <2>2. /\ GraphOK(function.entry, RewrittenBlocks, function.index)
        /\ BlocksOK(RewrittenBlocks) /\ AllNamed(RewrittenBlocks)
    BY <2>1, RewrittenIsOK
  <2>3. /\ Edits(2, function.entry, RewrittenBlocks, function.index, function.types, function.ast)
        /\ 2 \in 1 .. 4
    BY <1>3 DEF Rewritten
  <2> QED
    BY <1>1, <2>2, <2>3, Zenon
<1>4. CASE Skipped \/ Typed \/ Recovered
  <2>1. next_pass >= 2 =>
          /\ GraphOK(function.entry, function.blocks, function.index)
          /\ BlocksOK(function.blocks) /\ AllNamed(function.blocks)
    BY DEF HandInv
  <2>0. PICK from \in 2 .. 4 : \E ts, tr :
          Edits(from, function.entry, function.blocks, function.index, ts, tr)
    <3>1. 2 \in 2 .. 4 /\ 3 \in 2 .. 4 /\ 4 \in 2 .. 4
      OBVIOUS
    <3> QED
      BY <1>4, <3>1, Zenon DEF Skipped, Typed, Recovered
  <2>2. PICK ts, tr :
          Edits(from, function.entry, function.blocks, function.index, ts, tr)
    BY <2>0, Zenon
  <2>3. next_pass = from /\ from \in 1 .. 4
    BY <2>2 DEF Edits
  <2>4. /\ GraphOK(function.entry, function.blocks, function.index)
        /\ BlocksOK(function.blocks) /\ AllNamed(function.blocks)
    BY <2>1, <2>2, <2>3
  <2> QED
    BY <1>1, <2>2, <2>3, <2>4, Zenon
<1> QED
  BY <1>2, <1>3, <1>4

LEMMA SameGraph ==
  ASSUME NEW e, NEW bs, NEW ind, block' = block, function'.entry = e,
         function'.blocks = bs, function'.index = ind, GraphOK(e, bs, ind)
  PROVE  GraphOK(function.entry, function.blocks, function.index)'
  BY DEF GraphOK

LEMMA HandStep ==
  ASSUME OrderInv, Inv, HandInv, [PipelineNext]_vars
  PROVE  HandInv'
<1> SUFFICES ASSUME Stream(block)'
             PROVE  /\ next_pass' = 1 /\ working' => Building!BuildInv'
                    /\ next_pass' >= 2 => BlocksOK(function.blocks)' /\ AllNamed(function.blocks)'
                    /\ next_pass' = 2 /\ working' => Folding'
                    /\ next_pass' >= 2 =>
                         GraphOK(function.entry, function.blocks, function.index)'
  BY DEF HandInv
<1>1. ASSUME next_pass > 0
      PROVE  block' = block /\ Stream(block)
  <2>1. block' = block
    BY <1>1, DecodingStaysDone DEF OrderInv, decoding
  <2> QED
    BY <2>1 DEF Stream
<1>2. CASE UNCHANGED <<function, next_pass>>
  <2>1. CASE next_pass = 0
    BY <1>2, <2>1
  <2>2. CASE next_pass > 0
    <3>1. next_pass = 1 /\ working' => Building!BuildInv'
      BY <1>1, <1>2, <2>2, BuildingGoesOn DEF HandInv
    <3>2. next_pass >= 2 => BlocksOK(function.blocks) /\ BlocksOK(function.blocks)'
      BY <1>1, <1>2, <2>2 DEF HandInv, BlocksOK
    <3>5. next_pass >= 2 => AllNamed(function.blocks)'
      BY <1>1, <1>2, <2>2 DEF HandInv, AllNamed, BlockNames
    <3>3. next_pass = 2 /\ working' => Folding'
      <4>1. next_pass = 2 => next_pass >= 2
        OBVIOUS
      <4> QED
        BY <1>1, <1>2, <2>2, <3>2, <4>1, PropagationGoesOn DEF HandInv
    <3>4. next_pass >= 2 => GraphOK(function.entry, function.blocks, function.index)'
      BY <1>1, <1>2, <2>2, SameGraph DEF HandInv
    <3> QED
      BY <1>2, <3>1, <3>2, <3>3, <3>4, <3>5
  <2> QED
    BY <2>1, <2>2 DEF OrderInv
<1>3. CASE Returned
  BY <1>3 DEF Returned, OrderInv
<1>4. CASE Built \/ Rewritten \/ Skipped \/ Typed \/ Recovered
  <2>1. next_pass > 0
    BY <1>4 DEF Built, Rewritten, Skipped, Typed, Recovered, Edits
  <2>2. /\ next_pass' >= 2 /\ working' = FALSE
        /\ BlocksOK(function'.blocks) /\ AllNamed(function'.blocks)
        /\ GraphOK(function'.entry, function'.blocks, function'.index)
    BY <1>1, <1>4, <2>1, EditHands
  <2>3. GraphOK(function.entry, function.blocks, function.index)'
    BY <1>1, <2>1, <2>2, SameGraph
  <2>4. next_pass' # 1
    BY <2>2
  <2> QED
    BY <1>1, <2>1, <2>2, <2>3, <2>4 DEF BlocksOK, AllNamed, BlockNames
<1> QED
  BY <1>2, <1>3, <1>4, EveryEdit

(* Between two passes, the invariant is what HandsOver states.             *)
LEMMA HandMeans ==
  ASSUME OrderInv, Inv, HandInv, checks \/ InOrder
  PROVE  HandsOver
<1> SUFFICES ASSUME BetweenPasses PROVE HandsOver
  BY DEF HandsOver
<1>1. Stream(block)
  BY InvIsStream DEF DecodedIsStream
<1>2. next_pass >= 2
  BY DEF BetweenPasses, OrderInv
<1>3. GraphOK(function.entry, function.blocks, function.index)
  BY <1>1, <1>2 DEF HandInv
<1>4. StartsIn(function.blocks) = Starts
  BY DEF StartsIn, Starts
<1>5. \A n, m : LeadsIn(function.blocks, n, m) <=> Leads(n, m)
  BY DEF LeadsIn, Leads
<1> QED
  BY <1>3, <1>4, <1>5, Zenon DEF GraphOK, HandsOver

LEMMA HandInitially == PipelineInit => OrderInv /\ Inv /\ HandInv
<1>1. PipelineInit => next_pass = 0
  BY DEF PipelineInit
<1>2. 0 # 1 /\ 0 # 2 /\ ~ (0 >= 2)
  OBVIOUS
<1>3. PipelineInit => HandInv
  BY <1>1, <1>2, Zenon DEF HandInv
<1> QED
  BY <1>3, OrderInitially, DecodesFirst, InvInitially

(* As long as addresses do not wrap around, each pass hands the next one   *)
(* what it takes for granted: the index finds every block, the entry is a  *)
(* block, the edges lead both ways and are those that the instructions     *)
(* take, though they have been rewritten since they were connected, and    *)
(* the instructions are the decoded ones in order (types.rs:29-39 and      *)
(* 70-100, pass.rs:1-8, cfg.rs:46-61, constant_propagation.rs:266-268).    *)
THEOREM PassesHandOver == PipelineSpec => [](checks \/ InOrder => HandsOver)
<1>1. PipelineInit => OrderInv /\ Inv /\ HandInv
  BY HandInitially
<1>2. OrderInv /\ Inv /\ HandInv /\ [PipelineNext]_vars => (OrderInv /\ Inv /\ HandInv)'
  BY OrderStep, DecodesThroughout, InvPreserved, HandStep
<1>3. OrderInv /\ Inv /\ HandInv => (checks \/ InOrder => HandsOver)
  BY HandMeans
<1> QED
  BY <1>1, <1>2, <1>3, PTL DEF PipelineSpec

-----------------------------------------------------------------------------
(* The names that are declared: registers and temporaries of the lifted    *)
(* instructions, of which no pass makes new ones.                          *)

LEMMA FlattenedIn ==
  ASSUME NEW S, NEW s \in Seq(Seq(S))
  PROVE  FlattenSeq(s) \in Seq(S) /\ Elements(FlattenSeq(s)) \subseteq S
<1>1. Len(s) \in 0 .. Len(s)
  OBVIOUS
<1>2. FlattenSeq(s) \in Seq(S)
  BY <1>1, UpToGrows
<1> DEFINE q == FlattenSeq(s)
<1> HIDE DEF q
<1>3. q \in Seq(S)
  BY <1>2 DEF q
<1>4. Elements(q) \subseteq S
  BY <1>3 DEF Elements
<1> QED
  BY <1>3, <1>4 DEF q

(* The operations of the function are those of its instructions.           *)
LEMMA OpsAreIn ==
  ASSUME BlocksOK(function.blocks), NEW op \in Elements(Ops)
  PROVE  \E n \in 1 .. Len(function.blocks) :
           \E j \in 1 .. Len(function.blocks[n].instructions) :
             op \in Elements(function.blocks[n].instructions[j].ops)
<1> DEFINE n0 == Len(function.blocks)
           ins(n) == function.blocks[n].instructions
           S == UNION {OpsIn(ins(n)) : n \in 1 .. n0}
<1>1. n0 \in Nat /\ DOMAIN function.blocks = 1 .. n0 /\ \A n \in 1 .. n0 : Sound(ins(n))
  BY DEF BlocksOK
<1>2. ASSUME NEW n \in 1 .. n0
      PROVE  OpsOf(ins(n)) \in Seq(S)
  <2>1. LiftedOps(ins(n)) \in Seq(Seq(OpsIn(ins(n))))
    BY <1>1, SoundOps, Zenon
  <2>2. OpsOf(ins(n)) \in Seq(OpsIn(ins(n)))
    BY <2>1, FlattenedIn DEF OpsOf, LiftedOps
  <2> DEFINE T == OpsIn(ins(n))
  <2>3. T \subseteq S
    OBVIOUS
  <2> HIDE DEF T, S, ins
  <2> QED
    BY <2>2, <2>3 DEF T
<1>3. Bodies = [n \in 1 .. n0 |-> OpsOf(ins(n))]
  BY <1>1 DEF Bodies
<1>4. Bodies \in Seq(Seq(S))
  <2> HIDE DEF S, ins
  <2> QED
    BY <1>1, <1>2, <1>3
<1>5. op \in S
  BY <1>4, FlattenedIn DEF Ops
<1> QED
  BY <1>5 DEF OpsIn

LEMMA NamedInBlock ==
  ASSUME BlocksOK(function.blocks), AllNamed(function.blocks), NEW op \in Elements(Ops)
  PROVE  Names(op) \subseteq BlockNames
<1>0. PICK n \in 1 .. Len(function.blocks) :
        \E j \in 1 .. Len(function.blocks[n].instructions) :
          op \in Elements(function.blocks[n].instructions[j].ops)
  BY OpsAreIn
<1>1. PICK j \in 1 .. Len(function.blocks[n].instructions) :
        op \in Elements(function.blocks[n].instructions[j].ops)
  BY <1>0
<1>2. NamesOf(function.blocks[n].instructions[j].ops) \subseteq BlockNames
  BY DEF AllNamed
<1> QED
  BY <1>1, <1>2 DEF NamesOf

(* What is declared, and what is used, has a name in the lifted            *)
(* instructions, where a name means one Varnode.                           *)
LEMMA DeclaredMeans ==
  ASSUME OrderInv, Inv, HandInv, NamesInv, checks \/ InOrder
  PROVE  DeclaredOnce
<1> SUFFICES ASSUME PassesDone PROVE DeclaredOnce
  BY DEF DeclaredOnce
<1>1. Stream(block)
  BY InvIsStream DEF DecodedIsStream
<1>2. next_pass >= 2
  BY PassNumbers DEF OrderInv
<1>3. BlocksOK(function.blocks) /\ AllNamed(function.blocks)
  BY <1>1, <1>2 DEF HandInv
<1>4. ASSUME NEW v \in BlockNames, NEW w \in BlockNames, VarName(v) = VarName(w)
      PROVE  v = w
  <2>1. PICK j \in 1 .. Len(block) : v \in NamesOf(block[j].ops)
    BY DEF BlockNames
  <2>2. PICK m \in 1 .. Len(block) : w \in NamesOf(block[m].ops)
    BY DEF BlockNames
  <2> QED
    BY <1>4, <2>1, <2>2 DEF NamesInv
<1>5. ASSUME NEW d \in DeclaredNow
      PROVE  /\ d.of \in BlockNames /\ d.name = VarName(d.of)
             /\ d.type = IF d.of \in DOMAIN function.types THEN FormatType(function.types[d.of])
                         ELSE UnsignedType(d.of.size)
             /\ d = [of |-> d.of, name |-> d.name, type |-> d.type]
  <2> DEFINE D == {op.dest : op \in {o \in Elements(Ops) :
                     HasDest(o) /\ o.dest.space \in {"Register", "Unique"}}}
  <2>1. PICK v \in D :
          d = [of |-> v, name |-> VarName(v),
               type |-> IF v \in DOMAIN function.types THEN FormatType(function.types[v])
                        ELSE UnsignedType(v.size)]
    BY DEF DeclaredNow, Declarations
  <2>2. PICK op \in Elements(Ops) :
          HasDest(op) /\ op.dest.space \in {"Register", "Unique"} /\ v = op.dest
    OBVIOUS
  <2>3. v \in Names(op)
    BY <2>2 DEF Names
  <2>4. v \in BlockNames
    BY <1>3, <2>3, NamedInBlock
  <2> HIDE DEF D
  <2> QED
    BY <2>1, <2>4
<1>6. ASSUME NEW d \in DeclaredNow, NEW e \in DeclaredNow, d.name = e.name
      PROVE  d = e
  <2>1. d.of = e.of
    BY <1>4, <1>5, <1>6
  <2>2. d.type = e.type
    BY <1>5, <2>1
  <2> QED
    BY <1>5, <1>6, <2>1, <2>2
<1>7. ASSUME NEW op \in Elements(Ops), NEW v \in UsedIn(op), v.space # "Constant",
             NEW d \in DeclaredNow, d.name = VarName(v)
      PROVE  d.of = v
  <2>1. v \in BlockNames
    BY <1>3, <1>7, NamedInBlock DEF Names
  <2> QED
    BY <1>4, <1>5, <1>7, <2>1
<1> QED
  BY <1>6, <1>7 DEF DeclaredOnce

(* As long as addresses do not wrap around, each name is declared once,    *)
(* and every use of a name means the Varnode it was declared for, although *)
(* the size of a Varnode is no part of its name: for every input of both   *)
(* backends and whatever the passes rewrite (output-c/src/lib.rs:91-113    *)
(* and 175-192, arch-x86/src/lifter.rs:21-108, arch-                       *)
(* arm/src/lifter.rs:37-76).                                               *)
THEOREM NamesDeclaredOnce == PipelineSpec => [](checks \/ InOrder => DeclaredOnce)
<1> DEFINE I == OrderInv /\ Inv /\ HandInv /\ NamesInv
<1>1. PipelineInit => I
  BY DecodesFirst, NamesInitially, HandInitially
<1>2. I /\ [PipelineNext]_vars => I'
  BY OrderStep, DecodesThroughout, InvPreserved, HandStep, NamesStep
<1>3. I => (checks \/ InOrder => DeclaredOnce)
  BY DeclaredMeans
<1> QED
  BY <1>1, <1>2, <1>3, PTL DEF PipelineSpec

=============================================================================
