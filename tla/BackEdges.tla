----------------------------- MODULE BackEdges -----------------------------
(***************************************************************************)
(* The back edges of a control flow graph (structurer.rs:170-207): a       *)
(* depth-first search from the entry, in the order of the sorted successor *)
(* lists, records every edge that leads back to a block the search is      *)
(* still below.                                                            *)
(*                                                                         *)
(* The recursion of dfs_back_edges is an explicit stack of calls, each     *)
(* with the successors its loop has yet to examine.                        *)
(***************************************************************************)
EXTENDS Naturals, FiniteSets, Sequences

CONSTANTS
  Address,    \* addresses a block can start at or a branch can name
  Functions   \* functions: entry, and blocks from start address to block

(* CfgBuilder leaves only edges to blocks of the function (Cfg!Symmetric), *)
(* and starts the first block at the entry.                                *)
Function(f) ==
  /\ DOMAIN f.blocks \subseteq Address /\ IsFiniteSet(DOMAIN f.blocks)
  /\ f.entry \in DOMAIN f.blocks
  /\ \A a \in DOMAIN f.blocks : f.blocks[a].successors \subseteq DOMAIN f.blocks

ASSUME AddressAssumption == Address \subseteq Nat
ASSUME FunctionAssumption == \A f \in Functions : Function(f)

VARIABLES
  fn,          \* the function; never changes
  calls,       \* the calls of dfs_back_edges in progress, innermost last
  seen,        \* visited
  in_stack,    \* the blocks whose call is in progress
  back_edges   \* the edges recorded, as pairs

search == <<fn, calls, seen, in_stack, back_edges>>

Blocks == DOMAIN fn.blocks
Successors(a) == fn.blocks[a].successors

Call(a) == [addr |-> a, left |-> Successors(a)]

Top == calls[Len(calls)]

Init ==
  /\ fn \in Functions
  /\ calls = <<Call(fn.entry)>>
  /\ seen = {fn.entry}
  /\ in_stack = {fn.entry}
  /\ back_edges = {}

(* The loop of the innermost call goes on to its next successor.           *)
Examine(succ) ==
  /\ calls # <<>>
  /\ succ \in Top.left
  /\ \A c \in Top.left : succ <= c

Examined(succ) == [calls EXCEPT ![Len(calls)].left = @ \ {succ}]

(* Faults of FindBackEdge: every block seen before counts as an ancestor;  *)
(* a self-loop is not recorded.                                            *)
FindEdgeToSeen(succ) ==
  /\ Examine(succ)
  /\ succ \in seen
  /\ back_edges' = back_edges \union {<<Top.addr, succ>>}
  /\ calls' = Examined(succ)
  /\ UNCHANGED <<fn, seen, in_stack>>

FindProperBackEdge(succ) ==
  /\ Examine(succ)
  /\ succ \in in_stack
  /\ back_edges' = back_edges \union ({<<Top.addr, succ>>} \ {<<succ, succ>>})
  /\ calls' = Examined(succ)
  /\ UNCHANGED <<fn, seen, in_stack>>

(* The successor is on the path of the search: a back edge.                *)
FindBackEdge(succ) ==
  /\ Examine(succ)
  /\ succ \in in_stack
  /\ back_edges' = back_edges \union {<<Top.addr, succ>>}
  /\ calls' = Examined(succ)
  /\ UNCHANGED <<fn, seen, in_stack>>

(* It has been searched from before: the recursive call returns at once.   *)
SkipSeen(succ) ==
  /\ Examine(succ)
  /\ succ \in seen \ in_stack
  /\ calls' = Examined(succ)
  /\ UNCHANGED <<fn, seen, in_stack, back_edges>>

(* Fault of Descend: the loop over the successors ends with the first      *)
(* call.                                                                   *)
DescendOnce(succ) ==
  /\ Examine(succ)
  /\ succ \notin seen \union in_stack
  /\ calls' = Append([calls EXCEPT ![Len(calls)].left = {}], Call(succ))
  /\ seen' = seen \union {succ}
  /\ in_stack' = in_stack \union {succ}
  /\ UNCHANGED <<fn, back_edges>>

(* It is new: search from it.                                              *)
Descend(succ) ==
  /\ Examine(succ)
  /\ succ \notin seen \union in_stack
  /\ calls' = Append(Examined(succ), Call(succ))
  /\ seen' = seen \union {succ}
  /\ in_stack' = in_stack \union {succ}
  /\ UNCHANGED <<fn, back_edges>>

(* All successors are examined: the call returns.                          *)
Leave ==
  /\ calls # <<>>
  /\ Top.left = {}
  /\ in_stack' = in_stack \ {Top.addr}
  /\ calls' = SubSeq(calls, 1, Len(calls) - 1)
  /\ UNCHANGED <<fn, seen, back_edges>>

Search ==
  \/ \E succ \in Address : FindBackEdge(succ) \/ SkipSeen(succ) \/ Descend(succ)
  \/ Leave

Searched == calls = <<>>

Next == Search \/ (Searched /\ UNCHANGED search)

Spec == Init /\ [][Next]_search

-----------------------------------------------------------------------------
(* Properties.                                                             *)

(* Types of the variables.                                                 *)
TypeOK ==
  /\ Function(fn)
  /\ calls \in Seq([addr : Blocks, left : SUBSET Blocks])
  /\ seen \subseteq Blocks
  /\ in_stack \subseteq Blocks
  /\ back_edges \subseteq Blocks \X Blocks

(* The set in_stack, updated on its own, holds exactly the blocks of the   *)
(* calls in progress, and no block is being searched from twice.           *)
StackAgrees ==
  /\ in_stack = {calls[j].addr : j \in 1 .. Len(calls)}
  /\ \A j, m \in 1 .. Len(calls) : calls[j].addr = calls[m].addr => j = m

(* S is closed under the edges of the graph.                               *)
Closed(S) == \A a \in S : Successors(a) \subseteq S

(* A recorded edge closes a loop: its source can be reached from its       *)
(* target.  No edge between converging paths is mistaken for a back edge   *)
(* (structurer.rs:170-176).                                                *)
BackEdgesCloseLoops ==
  \A e \in back_edges :
    /\ e[2] \in Successors(e[1])
    /\ \A S \in SUBSET Blocks : e[2] \in S /\ Closed(S) => e[1] \in S

(* S holds a loop none of whose edges is recorded.                         *)
UncutLoop(S) ==
  S # {} /\ \A a \in S : \E c \in S : c \in Successors(a) /\ <<a, c>> \notin back_edges

(* Every loop that can be entered has a back edge, whatever its shape and  *)
(* however many entries it has: without the recorded edges the graph is    *)
(* acyclic.  A loop that went unrecorded would be structured as if it      *)
(* ended (structurer.rs:107-157).                                          *)
EveryLoopIsCut ==
  Searched => \A S \in SUBSET seen : ~ UncutLoop(S)

(* The search reaches every block that control can reach.                  *)
SearchIsComplete == Searched => Closed(seen) /\ fn.entry \in seen

=============================================================================
