--------------------------- MODULE MCDanglingGoto ---------------------------
(***************************************************************************)
(* Functions of conditionals and jumps in turn.  With six blocks they are  *)
(* the smallest ones of which a block is lost.                             *)
(***************************************************************************)
EXTENDS StructuredFlow

CONSTANT N   \* number of blocks

MCAddress == 0 .. N
Conditionals == {a \in 1 .. N : a % 2 = 1}

Block(a, target) ==
  IF a \in Conditionals
  THEN [kind |-> "cbranch", target |-> target,
        successors |-> {target} \union ({a + 1} \intersect (1 .. N))]
  ELSE [kind |-> "branch", target |-> target, successors |-> {target}]

(* Conditionals branch to conditionals, jumps anywhere.                    *)
MCFunctions ==
  { [entry |-> 1, blocks |-> [a \in 1 .. N |-> Block(a, targets[a])]]
    : targets \in {t \in [1 .. N -> 1 .. N] : \A a \in Conditionals : t[a] \in Conditionals} }

=============================================================================
