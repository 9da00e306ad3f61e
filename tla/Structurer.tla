----------------------------- MODULE Structurer -----------------------------
(***************************************************************************)
(* Recovery of structured control flow (analysis-passes/src/structurer.rs):*)
(* once the back edges are known (module BackEdges), structure_region      *)
(* descends the control flow graph from the entry and turns it into an     *)
(* abstract syntax tree of labels, conditionals, loops and gotos.          *)
(*                                                                         *)
(* A block has the kind of its last instruction: "cbranch", "branch" (to   *)
(* an absolute address), "return" or "fall" (none of these; an unresolved  *)
(* jump is one of them).  The recursion is an explicit stack of regions.   *)
(* A body of the tree is the sequence of its nodes; the instructions of a  *)
(* block come with its label and are left out, and a node names a          *)
(* condition by the block that computes it.                                *)
(***************************************************************************)
EXTENDS BackEdges, Integers

(* The block behind block a, if there is one.                              *)
Behind(f, a) ==
  {c \in DOMAIN f.blocks : c > a /\ \A d \in DOMAIN f.blocks : d > a => c <= d}

(* The edges CfgBuilder connects (cfg.rs:137-195, Cfg!EdgesAreFlow): a     *)
(* branch to a block has an edge to it, a conditional one also an edge to  *)
(* the block behind it, and besides its target no block has more than one  *)
(* successor.  The entry is the first block.                               *)
Flow(f) ==
  \A a \in DOMAIN f.blocks :
    LET b == f.blocks[a]
        others == b.successors \ (IF b.kind \in {"cbranch", "branch"} THEN {b.target} ELSE {})
    IN  /\ f.entry <= a
        /\ b.kind \in {"cbranch", "branch", "return", "fall"}
        /\ b.kind \in {"cbranch", "branch"} =>
             b.target \in Address /\ (b.target \in DOMAIN f.blocks => b.target \in b.successors)
        /\ b.kind = "cbranch" => others = Behind(f, a) \ {b.target}
        /\ b.kind \in {"branch", "return"} => others = {}
        /\ \A c, d \in others : c = d

ASSUME FlowAssumption == \A f \in Functions : Flow(f)

VARIABLES
  phase,     \* "search", "structure" or "done"
  regions,   \* the calls of structure_region in progress, innermost last
  visited,   \* the addresses structure_region has been at
  ast        \* the tree, once it is complete

vars == <<search, phase, regions, visited, ast>>

-----------------------------------------------------------------------------
(* The nodes of the tree (decompiler-core/src/types.rs:167-197).           *)
Label(a) == [node |-> "Label", at |-> a]
If(cond, then) == [node |-> "If", cond |-> cond, then |-> then]
While(cond, target) == [node |-> "While", cond |-> cond, at |-> target]
Goto(a) == [node |-> "Goto", at |-> a]
Return == [node |-> "Return"]

(* A region under construction.  Option<u64> is a set of at most one       *)
(* address; resume tells what becomes of the region when the one it has    *)
(* called for the body of a conditional returns.                           *)
Region(start, stop) ==
  [curr |-> start, stop |-> stop, seq |-> <<>>, ended |-> FALSE,
   resume |-> "none", false_target |-> 0]

StructureInit ==
  /\ Init
  /\ phase = "search"
  /\ regions = <<>>
  /\ visited = {}
  /\ ast = <<>>

SearchBackEdges ==
  /\ phase = "search"
  /\ Search
  /\ UNCHANGED <<phase, regions, visited, ast>>

Start ==
  /\ phase = "search"
  /\ Searched
  /\ phase' = "structure"
  /\ regions' = <<Region(fn.entry, {})>>
  /\ UNCHANGED <<search, visited, ast>>

-----------------------------------------------------------------------------
(* One turn of the loop of the innermost region.                           *)

Inner == regions[Len(regions)]

(* Fault of Goes: a block that has been visited is structured again.       *)
GoesAgain(r) == ~ r.ended /\ r.curr \notin r.stop

(* The condition of the loop.                                              *)
Goes(r) == ~ r.ended /\ r.curr \notin r.stop \union visited

Become(r) == [regions EXCEPT ![Len(regions)] = r]

(* The turn begins at a block: its label is emitted.                       *)
Visit(kind) ==
  /\ phase = "structure"
  /\ Goes(Inner)
  /\ Inner.curr \in Blocks
  /\ fn.blocks[Inner.curr].kind = kind
  /\ visited' = visited \union {Inner.curr}
  /\ UNCHANGED <<search, phase, ast>>

Labelled == Append(Inner.seq, Label(Inner.curr))

(* Fault of VisitNowhere: the loop goes on, without having marked the      *)
(* address.                                                                *)
VisitNowhereAgain ==
  /\ phase = "structure"
  /\ Goes(Inner)
  /\ Inner.curr \notin Blocks
  /\ UNCHANGED vars

(* No block starts here: the region ends.                                  *)
VisitNowhere ==
  /\ phase = "structure"
  /\ Goes(Inner)
  /\ Inner.curr \notin Blocks
  /\ visited' = visited \union {Inner.curr}
  /\ regions' = Become([Inner EXCEPT !.ended = TRUE])
  /\ UNCHANGED <<search, phase, ast>>

TrueTarget == fn.blocks[Inner.curr].target

(* Fault of FalseTarget: minus one stands for a missing side.              *)
FalseTargetMinusOne ==
  LET others == Successors(Inner.curr) \ {TrueTarget}
  IN  IF others = {} THEN -1 ELSE CHOOSE a \in others : \A c \in others : a <= c

(* The first successor that is not the true target, 0 when there is none.  *)
FalseTarget ==
  LET others == Successors(Inner.curr) \ {TrueTarget}
  IN  IF others = {} THEN 0 ELSE CHOOSE a \in others : \A c \in others : a <= c

(* Fault of VisitLoop: what follows the loop is dropped.                   *)
VisitLoopLast ==
  /\ Visit("cbranch")
  /\ <<Inner.curr, TrueTarget>> \in back_edges
  /\ regions' =
       Become([Inner EXCEPT !.seq = Append(Labelled, While(Inner.curr, TrueTarget)),
                            !.ended = TRUE])

(* The true target is back up the search path: a loop.                     *)
VisitLoop ==
  /\ Visit("cbranch")
  /\ <<Inner.curr, TrueTarget>> \in back_edges
  /\ regions' =
       Become([Inner EXCEPT !.seq = Append(Labelled, While(Inner.curr, TrueTarget)),
                            !.curr = FalseTarget])

(* Structure the true side as the body of a conditional, up to the false   *)
(* target.                                                                 *)
VisitConditional ==
  /\ Visit("cbranch")
  /\ <<Inner.curr, TrueTarget>> \notin back_edges
  /\ LET falls_back == <<Inner.curr, FalseTarget>> \in back_edges
         waiting == [Inner EXCEPT !.seq = Labelled,
                                  !.resume = IF falls_back THEN "loop" ELSE "converge",
                                  !.false_target = FalseTarget]
     IN  regions' = Append(Become(waiting), Region(TrueTarget, {FalseTarget}))

(* Fault of VisitJump: no goto to a block that is elsewhere in the tree.   *)
VisitJumpSilently ==
  /\ Visit("branch")
  /\ regions' =
       IF <<Inner.curr, TrueTarget>> \in back_edges \/ TrueTarget \in visited'
       THEN Become([Inner EXCEPT !.seq = Labelled, !.ended = TRUE])
       ELSE Become([Inner EXCEPT !.seq = Labelled, !.curr = TrueTarget])

VisitJump ==
  /\ Visit("branch")
  /\ regions' =
       IF <<Inner.curr, TrueTarget>> \in back_edges \/ TrueTarget \in visited'
       THEN Become([Inner EXCEPT !.seq = Append(Labelled, Goto(TrueTarget)),
                                 !.ended = TRUE])
       ELSE Become([Inner EXCEPT !.seq = Labelled, !.curr = TrueTarget])

VisitReturn ==
  /\ Visit("return")
  /\ regions' = Become([Inner EXCEPT !.seq = Append(Labelled, Return), !.ended = TRUE])

VisitFallthrough ==
  /\ Visit("fall")
  /\ LET next == Successors(Inner.curr)
     IN  \/ /\ next = {}
            /\ regions' = Become([Inner EXCEPT !.seq = Labelled, !.ended = TRUE])
         \/ /\ next # {}
            /\ next \subseteq visited'
            /\ \E a \in next :
                 regions' = Become([Inner EXCEPT !.seq = Append(Labelled, Goto(a)),
                                                 !.ended = TRUE])
         \/ \E a \in next \ visited' :
              regions' = Become([Inner EXCEPT !.seq = Labelled, !.curr = a])

(* The region of a conditional's body is complete: the caller goes on at   *)
(* the false target, unless that is back up the search path.               *)
EndBody ==
  /\ phase = "structure"
  /\ ~ Goes(Inner)
  /\ Len(regions) > 1
  /\ LET caller == regions[Len(regions) - 1]
         seq == Append(caller.seq, If(caller.curr, Inner.seq))
         resumed ==
           IF caller.resume = "loop"
           THEN [caller EXCEPT !.seq = Append(seq, Goto(caller.false_target)),
                               !.ended = TRUE, !.resume = "none"]
           ELSE [caller EXCEPT !.seq = seq, !.curr = caller.false_target,
                               !.resume = "none"]
     IN  regions' = Append(SubSeq(regions, 1, Len(regions) - 2), resumed)
  /\ UNCHANGED <<search, phase, visited, ast>>

(* The outermost region is complete: the tree is.                          *)
EndFunction ==
  /\ phase = "structure"
  /\ ~ Goes(Inner)
  /\ Len(regions) = 1
  /\ phase' = "done"
  /\ ast' = Inner.seq
  /\ regions' = <<>>
  /\ UNCHANGED <<search, visited>>

Step ==
  \/ SearchBackEdges \/ Start
  \/ VisitNowhere \/ VisitLoop \/ VisitConditional
  \/ VisitJump \/ VisitReturn \/ VisitFallthrough
  \/ EndBody \/ EndFunction

Done == phase = "done"

StructureNext == Step \/ (Done /\ UNCHANGED vars)

StructureSpec == StructureInit /\ [][StructureNext]_vars /\ WF_vars(Step)

-----------------------------------------------------------------------------
(* The nodes of a tree, with their positions: a node that occurs twice     *)
(* counts twice.  Level 0 is the tree's own body, the next level are the   *)
(* bodies of its conditionals, and so on.  Each conditional ends a block   *)
(* of its own, so there are no more levels than blocks.                    *)

NodesAt(path, seq) == {[path |-> Append(path, j), node |-> seq[j]] : j \in 1 .. Len(seq)}

Levels(seq, deepest) ==
  LET level[d \in 0 .. deepest] ==
        IF d = 0 THEN NodesAt(<<>>, seq)
        ELSE UNION {NodesAt(n.path, n.node.then) :
                      n \in {m \in level[d - 1] : m.node.node = "If"}}
  IN  level

NodesDownTo(seq, deepest) == UNION {Levels(seq, deepest)[d] : d \in 0 .. deepest}

Nodes(seq) == NodesDownTo(seq, Cardinality(Blocks))

LabelsIn(nodes) == {n \in nodes : n.node.node = "Label"}

Labels(seq) == LabelsIn(Nodes(seq))

-----------------------------------------------------------------------------
(* Properties.                                                             *)

(* Types of the variables.                                                 *)
RegionsOK ==
  /\ phase \in {"search", "structure", "done"}
  /\ visited \subseteq Address \union {0}
  /\ \A j \in 1 .. Len(regions) :
       LET r == regions[j]
       IN  /\ {r.curr, r.false_target} \union r.stop \subseteq Address \union {0}
           /\ (r.resume = "none") <=> (j = Len(regions))

(* The loops the descent is made for: no conditional leads back up the     *)
(* search on both sides (structurer.rs:107 looks only at the true one), and*)
(* no block falls through to one above it (structurer.rs:148-159 does not  *)
(* look).                                                                  *)
PlainLoops ==
  \A a \in Blocks :
    /\ \A c, d \in Successors(a) : {<<a, c>>, <<a, d>>} \subseteq back_edges => c = d
    /\ \A c \in Successors(a) : fn.blocks[a].kind = "fall" => <<a, c>> \notin back_edges

(* Every block that control can reach is structured, in every function     *)
(* with plain loops: what a region leaves at its stop address, at a block  *)
(* visited before or behind a back edge, some other region takes up        *)
(* (structurer.rs:57, 107-159).  See StructuredFlow!GotoHasLabel for a     *)
(* function that loses a block.                                            *)
ReachableVisited == Done /\ PlainLoops => seen \subseteq visited

(* The tree has one label for every block that was visited, however deep   *)
(* in it: no block is emitted twice, and none is lost from a body.         *)
EmittedOnce ==
  Done =>
    /\ \A m, n \in Labels(ast) : m.node.at = n.node.at => m = n
    /\ {n.node.at : n \in Labels(ast)} = visited \intersect Blocks

(* The structurer ends, on every graph.                                    *)
Termination == <>Done

=============================================================================
