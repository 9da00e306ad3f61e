--------------------------- MODULE StructuredFlow ---------------------------
(***************************************************************************)
(* The meaning of the tree the structurer recovers, and what it owes to    *)
(* the control flow graph: where control goes after each block when the    *)
(* tree is executed, against where the function's instructions send it.    *)
(***************************************************************************)
EXTENDS Structurer

-----------------------------------------------------------------------------
(* The function: the blocks control may be at after block a, given the     *)
(* outcome of its condition: the one it goes to, or none when the function *)
(* returns.  Known tells when the instructions say so; they do not when    *)
(* control leaves the decoded bytes or jumps to a computed address.        *)

GoesTo(a, outcome) ==
  CASE fn.blocks[a].kind = "return" -> {}
    [] fn.blocks[a].kind = "branch" -> {fn.blocks[a].target} \intersect Blocks
    [] fn.blocks[a].kind = "cbranch" ->
         IF outcome THEN {fn.blocks[a].target} \intersect Blocks ELSE Behind(fn, a)
    [] fn.blocks[a].kind = "fall" -> Successors(a)

Known(a, outcome) == fn.blocks[a].kind = "return" \/ GoesTo(a, outcome) # {}

-----------------------------------------------------------------------------
(* The tree.  A body of it in its place: after is where control goes that  *)
(* comes to its end (nowhere after the body of the function).              *)
Scope(seq, after) == [seq |-> seq, after |-> after]

(* Where control is that has come to position j of a body.  A condition is *)
(* tested behind the label of the block that computes it; control that     *)
(* comes to a test from elsewhere is at no block of the function.          *)
Reaches(s, j) ==
  IF j > Len(s.seq) THEN s.after
  ELSE CASE s.seq[j].node \in {"Label", "Goto"} -> {s.seq[j].at}
         [] s.seq[j].node = "Return" -> {}
         [] OTHER -> {-1}

Tests(s, j) ==
  /\ j + 1 <= Len(s.seq)
  /\ s.seq[j + 1].node \in {"If", "While"}
  /\ s.seq[j + 1].cond = s.seq[j].at

(* Where control goes from the label at position j, given the outcome of   *)
(* the condition tested behind it.                                         *)
Transfer(s, j, outcome) ==
  LET test == s.seq[j + 1]
      past == Reaches(s, j + 2)
  IN  IF ~ Tests(s, j) THEN Reaches(s, j + 1)
      ELSE IF ~ outcome THEN past
      ELSE IF test.node = "While" THEN {test.at}
      ELSE Reaches(Scope(test.then, past), 1)

(* The bodies of the conditionals of a body: control that comes to the end *)
(* of one goes on behind its conditional.                                  *)
InnerScopes(s) ==
  {Scope(s.seq[j].then, Reaches(s, j + 1)) : j \in {m \in 1 .. Len(s.seq) : s.seq[m].node = "If"}}

(* There are no more levels than blocks, see Levels.                       *)
ScopesDownTo(seq, after, deepest) ==
  LET level[d \in 0 .. deepest] ==
        IF d = 0 THEN {Scope(seq, after)} ELSE UNION {InnerScopes(s) : s \in level[d - 1]}
  IN  UNION {level[d] : d \in 0 .. deepest}

(* Every transfer of control of the tree: from a label, under an outcome,  *)
(* to the label control reaches next.                                      *)
Transfers(seq, after) ==
  UNION {{<<s.seq[j].at, o, Transfer(s, j, o)>> :
            j \in {m \in 1 .. Len(s.seq) : s.seq[m].node = "Label"}, o \in BOOLEAN} :
         s \in ScopesDownTo(seq, after, Cardinality(Blocks))}

-----------------------------------------------------------------------------
(* Properties.                                                             *)

(* Executing the tree takes the transfers of the function.                 *)
FlowKept ==
  Done => \A t \in Transfers(ast, {}) : Known(t[1], t[2]) => t[3] = GoesTo(t[1], t[2])

(* The sides of the conditional at block a part, and each enters a block   *)
(* that has no other way in, but for one that closes a loop which the      *)
(* other side leaves.                                                      *)
OnlyWayIn(a, c) == c # fn.entry /\ \A b \in Blocks \ {a} : c \notin Successors(b)

Parted(a) ==
  /\ GoesTo(a, TRUE) # GoesTo(a, FALSE)
  /\ \A c \in Successors(a) :
       \/ OnlyWayIn(a, c)
       \/ <<a, c>> \in back_edges /\ \A d \in Successors(a) \ {c} : <<a, d>> \notin back_edges

AllParted == \A a \in Blocks : fn.blocks[a].kind = "cbranch" => Parted(a)

PartedFlowKept == AllParted => FlowKept

(* Every goto has its label.                                               *)
GotoHasLabel ==
  Done => \A n \in Nodes(ast) :
            n.node.node \in {"Goto", "While"} =>
              \E m \in Labels(ast) : m.node.at = n.node.at

=============================================================================
