----------------------------- MODULE CfgRebuild -----------------------------
(***************************************************************************)
(* build called a second time on the function it has built (cfg.rs:42-61,  *)
(* "Rebuild function.blocks from scratch"): the blocks are drained back    *)
(* into one stream, from which the builder of module Cfg starts again,     *)
(* with the address index of the first build still in place.               *)
(***************************************************************************)
EXTENDS Cfg

Seqs == INSTANCE SequencesExt

VARIABLES
  builds,   \* how many times build has been called
  built     \* the graph and index the first call left

result == <<flat, blocks, successors, predecessors, index>>

RebuildInit == Init /\ builds = 1 /\ built = result

FirstBuild == Step /\ UNCHANGED <<builds, built>>

Instructions(block) == [j \in DOMAIN block.instructions |-> flat[block.instructions[j]]]

(* Fault of Rebuild: the old blocks are copied and not drained.            *)
RebuildWithoutDraining ==
  /\ Done /\ builds = 1
  /\ builds' = 2
  /\ built' = result
  /\ flat' = Seqs!FlattenSeq([b \in DOMAIN blocks |-> Instructions(blocks[b])])
  /\ pc' = IF flat' = <<>> THEN "done" ELSE "leaders"
  /\ i' = 1
  /\ leaders' = IF flat' = <<>> THEN {} ELSE {flat[1].address}
  /\ successors' = <<>> /\ predecessors' = <<>>
  /\ UNCHANGED <<blocks, index>>

(* Draining the blocks concatenates their instructions; if there are none, *)
(* build returns at once and leaves the index as it is.                    *)
Rebuild ==
  /\ Done /\ builds = 1
  /\ builds' = 2
  /\ built' = result
  /\ flat' = Seqs!FlattenSeq([b \in DOMAIN blocks |-> Instructions(blocks[b])])
  /\ pc' = IF flat' = <<>> THEN "done" ELSE "leaders"
  /\ i' = 1
  /\ leaders' = IF flat' = <<>> THEN {} ELSE {flat[1].address}
  /\ blocks' = <<>> /\ successors' = <<>> /\ predecessors' = <<>>
  /\ UNCHANGED index

RebuildNext ==
  \/ FirstBuild
  \/ Rebuild
  \/ Done /\ builds = 2 /\ UNCHANGED <<vars, builds, built>>

RebuildSpec == RebuildInit /\ [][RebuildNext]_<<vars, builds, built>>

-----------------------------------------------------------------------------
(* Building is idempotent: draining the graph restores the stream it was   *)
(* built from, and building again finds the same leaders, blocks, edges    *)
(* and index (cfg.rs:46-60).                                               *)
RebuildIsIdempotent == Done /\ builds = 2 => built = result

=============================================================================
