-------------------------- MODULE ChaoticIteration --------------------------
(***************************************************************************)
(* What the dataflow engine promises, without a worklist: starting from    *)
(* Top everywhere, the equations of the monotone framework                 *)
(*    IN[b]  = meet of OUT over the predecessors of b                      *)
(*    OUT[b] = Transfer(b, IN[b])                                          *)
(* are applied to blocks in any order, and the iteration may stop only     *)
(* when every block satisfies its equations.  "repeatedly recompute any    *)
(* block whose predecessors' OUT states have changed, until nothing        *)
(* changes" (dataflow.rs:65-68).                                           *)
(***************************************************************************)
EXTENDS Naturals, Sequences

CONSTANTS N, Graphs, Code, State, Top, Transfer(_, _), Below(_, _)

Block == 1 .. N

VARIABLES graph, code, block_in, block_out, done

vars == <<graph, code, block_in, block_out, done>>

(* m is a greatest state below every state of S.                           *)
IsMeet(m, S) ==
  /\ m \in State
  /\ \A s \in S : Below(m, s)
  /\ \A l \in State : (\A s \in S : Below(l, s)) => Below(l, m)

(* The OUT states that flow into a block.                                  *)
Incoming(g, out, b) ==
  {out[g.predecessors[b][i]] : i \in 1 .. Len(g.predecessors[b])}

(* The equations of block b hold.                                          *)
Solved(g, c, in, out, b) ==
  /\ IsMeet(in[b], Incoming(g, out, b))
  /\ out[b] = Transfer(c[b], in[b])

Fixpoint(g, c, in, out) == \A b \in Block : Solved(g, c, in, out, b)

Init ==
  /\ graph \in Graphs
  /\ code \in [Block -> Code]
  /\ block_in = [b \in Block |-> Top]
  /\ block_out = [b \in Block |-> Top]
  /\ done = (N = 0)

Recompute(b) ==
  \E in \in State :
    /\ IsMeet(in, Incoming(graph, block_out, b))
    /\ block_in' = [block_in EXCEPT ![b] = in]
    /\ block_out' = [block_out EXCEPT ![b] = Transfer(code[b], in)]

Keep == UNCHANGED <<block_in, block_out>>

(* Recompute a block or leave everything alone, and stop only at a         *)
(* fixpoint.                                                               *)
Next ==
  /\ ~ done
  /\ Keep \/ \E b \in Block : Recompute(b)
  /\ done' \in BOOLEAN
  /\ done' => Fixpoint(graph, code, block_in', block_out')
  /\ UNCHANGED <<graph, code>>

Spec == Init /\ [][Next]_vars

=============================================================================
