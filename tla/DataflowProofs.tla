--------------------------- MODULE DataflowProofs ---------------------------
(***************************************************************************)
(* Proofs about the dataflow engine, for every lattice, every transfer     *)
(* function and every control flow graph that satisfy the assumptions of   *)
(* module Dataflow.                                                        *)
(***************************************************************************)
EXTENDS Dataflow, SequenceTheorems, TLAPS

(* What never changes, and with it the parameters' assumptions.            *)
Parameters == graph \in Graphs /\ code \in [Block -> Code]

-----------------------------------------------------------------------------
(* Type correctness.                                                       *)

LEMMA GraphTypes ==
  ASSUME graph \in Graphs
  PROVE  /\ graph.successors \in [Block -> Seq(Block)]
         /\ graph.predecessors \in [Block -> Seq(Block)]
         /\ \A a, b \in Block :
              (\E i \in 1 .. Len(graph.successors[a]) : graph.successors[a][i] = b)
                <=> (\E i \in 1 .. Len(graph.predecessors[b]) :
                       graph.predecessors[b][i] = a)
  BY GraphAssumption

LEMMA ParametersInvariant == Spec => []Parameters
<1>1. Init => Parameters
  BY DEF Init, Parameters
<1>2. Parameters /\ [Next]_vars => Parameters'
  BY DEF Parameters, Next, Step, PopFront, MergePredecessor, VisitChanged,
         VisitUnchanged, Visit, PushSuccessor, EndPush, Returned, vars
<1>3. QED
  BY <1>1, <1>2, PTL DEF Spec

LEMMA TypeInit == Init => TypeOK
<1> SUFFICES ASSUME Init PROVE TypeOK
  OBVIOUS
<1>1. graph.successors \in [Block -> Seq(Block)]
      /\ graph.predecessors \in [Block -> Seq(Block)]
  BY GraphTypes DEF Init
<1>2. [i \in 1 .. N |-> i] \in Seq(Block)
  BY NAssumption DEF Block
<1>3. QED
  BY <1>1, <1>2, LatticeAssumption DEF Init, TypeOK

LEMMA TypeStep == Parameters /\ TypeOK /\ [Next]_vars => TypeOK'
<1> SUFFICES ASSUME Parameters, TypeOK, [Next]_vars PROVE TypeOK'
  OBVIOUS
<1> USE DEF TypeOK
<1>1. CASE PopFront
  <2>1. Head(queue) \in Block /\ Head(queue) \in Nat /\ Tail(queue) \in Seq(Block)
    BY <1>1, NAssumption DEF PopFront, Block
  <2>2. QED
    BY <1>1, <2>1, LatticeAssumption DEF PopFront
<1>2. CASE MergePredecessor
  <2>1. addr \in Block
    BY <1>2 DEF MergePredecessor
  <2>2. graph.predecessors[addr][k] \in Block
    BY <1>2, <2>1 DEF MergePredecessor
  <2>3. acc' \in State
    BY <1>2, <2>2, LatticeAssumption DEF MergePredecessor
  <2>4. QED
    BY <1>2, <2>3, SMTT(30) DEF MergePredecessor
<1>3. CASE VisitChanged
  <2>1. addr \in Block
    BY <1>3 DEF VisitChanged, Visit
  <2>2. Transfer(code[addr], acc) \in State
    BY <2>1, TransferAssumption DEF Parameters
  <2>3. QED
    BY <1>3, <2>1, <2>2 DEF VisitChanged, Visit
<1>4. CASE VisitUnchanged
  BY <1>4 DEF VisitUnchanged, Visit
<1>5. CASE PushSuccessor
  <2>1. addr \in Block
    BY <1>5 DEF PushSuccessor
  <2>2. graph.successors[addr][k] \in Block
    BY <1>5, <2>1 DEF PushSuccessor
  <2>3. queue' \in Seq(Block) /\ queued' \in SUBSET Block
    <3> DEFINE succ == graph.successors[addr][k]
    <3>1. Append(queue, succ) \in Seq(Block)
      BY <2>2
    <3>2. queue' = (IF succ \in queued THEN queue ELSE Append(queue, succ))
          /\ queued' = queued \union {succ}
      BY <1>5 DEF PushSuccessor
    <3> HIDE DEF succ
    <3>3. QED
      BY <2>2, <3>1, <3>2 DEF succ
  <2>4. QED
    BY <1>5, <2>3, SMTT(30) DEF PushSuccessor
<1>6. CASE EndPush
  BY <1>6 DEF EndPush
<1>7. CASE UNCHANGED vars
  BY <1>7 DEF vars
<1>8. QED
  BY <1>1, <1>2, <1>3, <1>4, <1>5, <1>6, <1>7 DEF Next, Step, Returned

(* Every variable keeps its type, whatever the lattice and the graph.      *)
THEOREM TypeCorrect == Spec => []TypeOK
<1>1. QED
  BY TypeInit, TypeStep, ParametersInvariant, PTL DEF Spec

-----------------------------------------------------------------------------
(* The worklist.                                                           *)

LEMMA QueueStep ==
  TypeOK /\ QueueMatchesSet /\ [Next]_vars => QueueMatchesSet'
<1> SUFFICES ASSUME TypeOK, QueueMatchesSet, [Next]_vars
             PROVE  QueueMatchesSet'
  OBVIOUS
<1>q. queue \in Seq(Block)
  BY DEF TypeOK
<1>1. CASE PopFront
  <2>1. queue # <<>> /\ queue' = Tail(queue) /\ queued' = queued \ {queue[1]}
    BY <1>1, <1>q DEF PopFront
  <2>2. /\ Len(queue') = Len(queue) - 1
        /\ \A i \in 1 .. Len(queue') : queue'[i] = queue[i + 1]
        /\ Len(queue) \in Nat \ {0}
    BY <1>q, <2>1
  <2>3. Elements(queue)' = Elements(queue) \ {queue[1]}
    <3>1. ASSUME NEW b \in Elements(queue)'
          PROVE  b \in Elements(queue) \ {queue[1]}
      <4>1. PICK i \in 1 .. Len(queue') : b = queue'[i]
        BY <3>1 DEF Elements
      <4>2. i + 1 \in 1 .. Len(queue) /\ b = queue[i + 1] /\ i + 1 # 1
        BY <4>1, <2>2
      <4>3. 1 \in 1 .. Len(queue)
        BY <2>2
      <4>4. queue[i + 1] # queue[1]
        BY <4>2, <4>3 DEF QueueMatchesSet
      <4>5. QED
        BY <4>2, <4>4 DEF Elements
    <3>2. ASSUME NEW b \in Elements(queue), b # queue[1]
          PROVE  b \in Elements(queue)'
      <4>1. PICK i \in 1 .. Len(queue) : b = queue[i]
        BY <3>2 DEF Elements
      <4>2. i - 1 \in 1 .. Len(queue') /\ queue'[i - 1] = queue[i]
        BY <4>1, <3>2, <2>2
      <4>3. QED
        BY <4>1, <4>2 DEF Elements
    <3>3. QED
      BY <3>1, <3>2
  <2>4. \A i, j \in 1 .. Len(queue') : queue'[i] = queue'[j] => i = j
    <3> TAKE i, j \in 1 .. Len(queue')
    <3>1. i + 1 \in 1 .. Len(queue) /\ j + 1 \in 1 .. Len(queue)
      BY <2>2
    <3>2. queue[i + 1] = queue[j + 1] => i + 1 = j + 1
      BY <3>1 DEF QueueMatchesSet
    <3>3. QED
      BY <3>2, <2>2
  <2>5. QED
    BY <2>1, <2>3, <2>4 DEF QueueMatchesSet
<1>2. CASE PushSuccessor
  <2> DEFINE succ == graph.successors[addr][k]
  <2>1. /\ queue' = (IF succ \in queued THEN queue ELSE Append(queue, succ))
        /\ queued' = queued \union {succ}
    BY <1>2 DEF PushSuccessor
  <2>2. succ \in Block
    BY <1>2 DEF PushSuccessor, TypeOK
  <2> HIDE DEF succ
  <2>3. CASE succ \in queued
    BY <2>1, <2>3 DEF QueueMatchesSet, Elements
  <2>4. CASE succ \notin queued
    <3>1. /\ Len(queue') = Len(queue) + 1
          /\ \A i \in 1 .. Len(queue) : queue'[i] = queue[i]
          /\ queue'[Len(queue) + 1] = succ
          /\ Len(queue) \in Nat
      BY <1>q, <2>1, <2>2, <2>4
    <3>2. \A i \in 1 .. Len(queue) : queue[i] # succ
      BY <2>4 DEF QueueMatchesSet, Elements
    <3>3. Elements(queue)' = Elements(queue) \union {succ}
      <4>1. Elements(queue)' \subseteq Elements(queue) \union {succ}
        BY <3>1 DEF Elements
      <4>2. succ \in Elements(queue)'
        BY <3>1 DEF Elements
      <4>3. Elements(queue) \subseteq Elements(queue)'
        BY <3>1 DEF Elements
      <4>4. QED
        BY <4>1, <4>2, <4>3
    <3>4. \A i, j \in 1 .. Len(queue') : queue'[i] = queue'[j] => i = j
      BY <3>1, <3>2 DEF QueueMatchesSet
    <3>5. QED
      BY <2>1, <3>3, <3>4 DEF QueueMatchesSet
  <2>5. QED
    BY <2>3, <2>4
<1>3. CASE MergePredecessor \/ VisitChanged \/ VisitUnchanged \/ EndPush
           \/ UNCHANGED vars
  BY <1>3 DEF MergePredecessor, VisitChanged, VisitUnchanged, Visit, EndPush,
              vars, QueueMatchesSet, Elements
<1>4. QED
  BY <1>1, <1>2, <1>3 DEF Next, Step, Returned

LEMMA QueueInit == Init => QueueMatchesSet
<1> SUFFICES ASSUME Init PROVE QueueMatchesSet
  OBVIOUS
<1>1. /\ Len([i \in 1 .. N |-> i]) = N
      /\ \A j \in 1 .. N : [i \in 1 .. N |-> i][j] = j
  BY NAssumption
<1>2. QED
  BY <1>1, NAssumption DEF Init, QueueMatchesSet, Elements, Block

(* The deque and the set queued always agree and no block waits twice, for *)
(* every graph and every analysis.                                         *)
THEOREM QueueCorrect == Spec => []QueueMatchesSet
<1>1. QED
  BY QueueInit, QueueStep, TypeCorrect, PTL DEF Spec

-----------------------------------------------------------------------------
(* The equations of the framework.                                         *)

(* The OUT states of the first predecessors of addr, up to index k.        *)
Visited == {block_out[graph.predecessors[addr][i]] : i \in 1 .. k - 1}

(* The two inner loops: acc is the meet of the predecessors visited so     *)
(* far, and the indices stay within one of the end of their sequences.     *)
LoopInv ==
  /\ pc = "merge" => /\ k <= Len(graph.predecessors[addr]) + 1
                     /\ Abstract!IsMeet(acc, Visited)
  /\ pc = "push" => k <= Len(graph.successors[addr]) + 1

(* Merging one more state into a meet gives the meet with that state.      *)
LEMMA MergeMeet ==
  ASSUME NEW S \in SUBSET State, NEW m, Abstract!IsMeet(m, S), NEW t \in State
  PROVE  Abstract!IsMeet(Merge(m, t), S \union {t})
<1>1. m \in State
  BY DEF Abstract!IsMeet
<1>2. Merge(m, t) \in State
  BY <1>1, LatticeAssumption
<1>3. \A s \in S \union {t} : Below(Merge(m, t), s)
  <2>1. ASSUME NEW s \in S PROVE Below(Merge(m, t), s)
    <3>1. Below(m, s) /\ s \in State
      BY DEF Abstract!IsMeet
    <3>2. Below(Merge(m, t), m)
      BY <1>1, LatticeAssumption
    <3>3. QED
      BY <1>1, <1>2, <3>1, <3>2, LatticeAssumption
  <2>2. Below(Merge(m, t), t)
    BY <1>1, LatticeAssumption
  <2>3. QED
    BY <2>1, <2>2
<1>4. ASSUME NEW l \in State, \A s \in S \union {t} : Below(l, s)
      PROVE  Below(l, Merge(m, t))
  <2>1. Below(l, m) /\ Below(l, t)
    BY <1>4 DEF Abstract!IsMeet
  <2>2. QED
    BY <1>1, <2>1, LatticeAssumption
<1>5. QED
  BY <1>2, <1>3, <1>4 DEF Abstract!IsMeet

LEMMA LoopStep ==
  TypeOK /\ LoopInv /\ [Next]_vars => LoopInv'
<1> SUFFICES ASSUME TypeOK, LoopInv, [Next]_vars PROVE LoopInv'
  OBVIOUS
<1>1. CASE PopFront
  <2>1. pc' = "merge" /\ k' = 1 /\ acc' = Top /\ addr' \in Block
        /\ graph' = graph
    BY <1>1 DEF PopFront, TypeOK
  <2>2. Len(graph.predecessors[addr']) \in Nat
    BY <2>1 DEF TypeOK
  <2>3. Visited' = {}
    BY <2>1 DEF Visited
  <2>4. Abstract!IsMeet(Top, {})
    BY LatticeAssumption DEF Abstract!IsMeet
  <2>5. QED
    BY <2>1, <2>2, <2>3, <2>4 DEF LoopInv, Abstract!IsMeet
<1>2. CASE MergePredecessor
  <2> DEFINE preds == graph.predecessors[addr]
             pred_out == block_out[preds[k]]
  <2>1. /\ pc = "merge" /\ pc' = "merge" /\ k <= Len(preds) /\ k' = k + 1
        /\ addr' = addr /\ graph' = graph /\ block_out' = block_out
        /\ acc' = (IF k = 1 THEN pred_out ELSE Merge(acc, pred_out))
    BY <1>2 DEF MergePredecessor
  <2>2. preds \in Seq(Block) /\ k \in Nat \ {0} /\ k \in 1 .. Len(preds)
    BY <2>1 DEF TypeOK
  <2>3. pred_out \in State
    BY <2>2 DEF TypeOK
  <2>4. Visited' = Visited \union {pred_out}
    <3>1. 1 .. k' - 1 = (1 .. k - 1) \union {k}
      BY <2>1, <2>2
    <3>2. QED
      BY <2>1, <3>1 DEF Visited
  <2>5. Visited \in SUBSET State
    <3>1. \A i \in 1 .. k - 1 : preds[i] \in Block
      BY <2>2
    <3>2. \A i \in 1 .. k - 1 : block_out[preds[i]] \in State
      BY <3>1 DEF TypeOK
    <3>3. QED
      BY <3>2 DEF Visited
  <2> HIDE DEF pred_out, preds
  <2>6. Abstract!IsMeet(acc', Visited')
    <3>1. CASE k = 1
      <4>1. Visited = {} /\ acc' = pred_out
        BY <3>1, <2>1 DEF Visited
      <4>2. QED
        BY <2>3, <2>4, <4>1, LatticeAssumption DEF Abstract!IsMeet
    <3>2. CASE k # 1
      <4>1. Abstract!IsMeet(acc, Visited)
        BY <2>1 DEF LoopInv
      <4>2. QED
        BY <3>2, <2>1, <2>3, <2>4, <2>5, <4>1, MergeMeet
    <3>3. QED
      BY <3>1, <3>2
  <2>7. k' <= Len(preds) + 1
    BY <2>1, <2>2
  <2>8. QED
    BY <2>1, <2>6, <2>7 DEF LoopInv, Abstract!IsMeet, preds
<1>3. CASE VisitChanged
  <2>1. pc' = "push" /\ k' = 1 /\ addr' = addr /\ graph' = graph /\ addr \in Block
    BY <1>3 DEF VisitChanged, Visit, TypeOK
  <2>2. Len(graph.successors[addr]) \in Nat
    BY <2>1 DEF TypeOK
  <2>3. QED
    BY <2>1, <2>2 DEF LoopInv
<1>4. CASE PushSuccessor
  <2>1. /\ pc' = "push" /\ k' = k + 1 /\ addr' = addr /\ graph' = graph
        /\ addr \in Block /\ k <= Len(graph.successors[addr])
    BY <1>4 DEF PushSuccessor, TypeOK
  <2>2. Len(graph.successors[addr]) \in Nat /\ k \in Nat
    BY <2>1 DEF TypeOK
  <2>3. QED
    BY <2>1, <2>2 DEF LoopInv
<1>5. CASE VisitUnchanged \/ EndPush
  BY <1>5 DEF VisitUnchanged, Visit, EndPush, LoopInv
<1>6. CASE UNCHANGED vars
  BY <1>6 DEF vars, LoopInv, Visited, Abstract!IsMeet
<1>7. QED
  BY <1>1, <1>2, <1>3, <1>4, <1>5, <1>6 DEF Next, Step, Returned

LEMMA LoopInit == Init => LoopInv
  BY DEF Init, LoopInv

LEMMA LoopInvariant == Spec => []LoopInv
<1>1. QED
  BY LoopInit, LoopStep, TypeCorrect, PTL DEF Spec

-----------------------------------------------------------------------------
(* When the predecessor loop has ended, acc is the meet of all OUT states  *)
(* that flow into the block.                                               *)
LEMMA MergedAll ==
  ASSUME TypeOK, LoopInv, pc = "merge", k > Len(graph.predecessors[addr])
  PROVE  /\ Abstract!IsMeet(acc, Abstract!Incoming(graph, block_out, addr))
         /\ addr \in Block
<1>1. addr \in Block /\ Len(graph.predecessors[addr]) \in Nat /\ k \in Nat
  BY DEF TypeOK
<1>2. k - 1 = Len(graph.predecessors[addr])
  BY <1>1 DEF LoopInv
<1>3. Visited = Abstract!Incoming(graph, block_out, addr)
  BY <1>2 DEF Visited, Abstract!Incoming
<1>4. QED
  BY <1>1, <1>3 DEF LoopInv

(* A change of OUT at one block is invisible to a block that does not have *)
(* it as a predecessor.                                                    *)
LEMMA IncomingUnchanged ==
  ASSUME Parameters, TypeOK, NEW a \in Block, NEW b \in Block, NEW s,
         \A i \in 1 .. Len(graph.successors[a]) : graph.successors[a][i] # b
  PROVE  Abstract!Incoming(graph, [block_out EXCEPT ![a] = s], b)
           = Abstract!Incoming(graph, block_out, b)
<1>1. \A i \in 1 .. Len(graph.predecessors[b]) : graph.predecessors[b][i] # a
  <2>1. (\E i \in 1 .. Len(graph.successors[a]) : graph.successors[a][i] = b)
          <=> (\E i \in 1 .. Len(graph.predecessors[b]) :
                 graph.predecessors[b][i] = a)
    BY GraphTypes DEF Parameters
  <2>2. QED
    BY <2>1
<1>2. \A i \in 1 .. Len(graph.predecessors[b]) : graph.predecessors[b][i] \in Block
  BY DEF TypeOK
<1>3. \A i \in 1 .. Len(graph.predecessors[b]) :
        [block_out EXCEPT ![a] = s][graph.predecessors[b][i]]
          = block_out[graph.predecessors[b][i]]
  BY <1>1, <1>2 DEF TypeOK
<1>4. QED
  BY <1>3 DEF Abstract!Incoming

LEMMA SolvedInit == Init => SolvedUnlessPending
  BY DEF Init, SolvedUnlessPending, Pending

LEMMA SolvedStep ==
  Parameters /\ TypeOK /\ QueueMatchesSet /\ LoopInv /\ SolvedUnlessPending
    /\ [Next]_vars
    => SolvedUnlessPending'
<1> SUFFICES ASSUME Parameters, TypeOK, QueueMatchesSet, LoopInv,
                    SolvedUnlessPending, [Next]_vars, NEW b \in Block
             PROVE  Pending(b)' \/ Abstract!Solved(graph, code, block_in, block_out, b)'
  BY DEF SolvedUnlessPending
<1>s. Pending(b) \/ Abstract!Solved(graph, code, block_in, block_out, b)
  BY DEF SolvedUnlessPending
<1>1. CASE PopFront
  <2>1. Pending(b) => Pending(b)'
    <3>1. addr' = Head(queue) /\ queued' = queued \ {addr'} /\ pc' = "merge"
          /\ pc = "pop"
      BY <1>1 DEF PopFront
    <3>2. QED
      BY <3>1 DEF Pending
  <2>2. QED
    BY <1>1, <1>s, <2>1 DEF PopFront, Abstract!Solved, Abstract!Incoming,
                            Abstract!IsMeet
<1>2. CASE MergePredecessor
  BY <1>2, <1>s DEF MergePredecessor, Pending, Abstract!Solved,
                    Abstract!Incoming, Abstract!IsMeet
<1>3. CASE VisitChanged
  <2> DEFINE out_state == Transfer(code[addr], acc)
  <2>1. /\ pc = "merge" /\ pc' = "push" /\ k' = 1
        /\ addr' = addr /\ graph' = graph /\ code' = code /\ queued' = queued
        /\ block_in' = [block_in EXCEPT ![addr] = acc]
        /\ block_out' = [block_out EXCEPT ![addr] = out_state]
        /\ k > Len(graph.predecessors[addr])
    BY <1>3 DEF VisitChanged, Visit
  <2>2. /\ Abstract!IsMeet(acc, Abstract!Incoming(graph, block_out, addr))
        /\ addr \in Block
    BY <2>1, MergedAll
  <2>3. CASE \E i \in 1 .. Len(graph.successors[addr]) :
                graph.successors[addr][i] = b
    BY <2>1, <2>3 DEF Pending
  <2>4. CASE \A i \in 1 .. Len(graph.successors[addr]) :
                graph.successors[addr][i] # b
    <3>1. Abstract!Incoming(graph, block_out, b)'
            = Abstract!Incoming(graph, block_out, b)
      <4>1. Abstract!Incoming(graph, [block_out EXCEPT ![addr] = out_state], b)
              = Abstract!Incoming(graph, block_out, b)
        BY <2>2, <2>4, IncomingUnchanged
      <4>2. QED
        BY <2>1, <4>1 DEF Abstract!Incoming
    <3>2. CASE b = addr
      <4>1. block_in'[b] = acc /\ block_out'[b] = Transfer(code'[b], acc)
        BY <2>1, <2>2, <3>2 DEF TypeOK
      <4>2. QED
        BY <2>2, <3>1, <3>2, <4>1 DEF Abstract!Solved, Abstract!IsMeet
    <3>3. CASE b # addr
      <4>1. Pending(b) => Pending(b)'
        BY <2>1, <3>3 DEF Pending
      <4>2. block_in'[b] = block_in[b] /\ block_out'[b] = block_out[b]
        BY <2>1, <2>2, <3>3 DEF TypeOK
      <4>3. QED
        BY <1>s, <2>1, <3>1, <4>1, <4>2 DEF Abstract!Solved, Abstract!IsMeet
    <3>4. QED
      BY <3>2, <3>3
  <2>5. QED
    BY <2>3, <2>4
<1>4. CASE VisitUnchanged
  <2>1. /\ pc = "merge" /\ pc' = "pop"
        /\ addr' = addr /\ graph' = graph /\ code' = code /\ queued' = queued
        /\ block_in' = [block_in EXCEPT ![addr] = acc]
        /\ block_out' = block_out
        /\ block_out[addr] = Transfer(code[addr], acc)
        /\ k > Len(graph.predecessors[addr])
    BY <1>4 DEF VisitUnchanged, Visit
  <2>2. /\ Abstract!IsMeet(acc, Abstract!Incoming(graph, block_out, addr))
        /\ addr \in Block
    BY <2>1, MergedAll
  <2>3. Abstract!Incoming(graph, block_out, b)' = Abstract!Incoming(graph, block_out, b)
    BY <2>1 DEF Abstract!Incoming
  <2>4. CASE b = addr
    <3>1. block_in'[b] = acc
      BY <2>1, <2>2, <2>4 DEF TypeOK
    <3>2. QED
      BY <2>1, <2>2, <2>3, <2>4, <3>1 DEF Abstract!Solved, Abstract!IsMeet
  <2>5. CASE b # addr
    <3>1. Pending(b) => Pending(b)'
      BY <2>1, <2>5 DEF Pending
    <3>2. block_in'[b] = block_in[b]
      BY <2>1, <2>2, <2>5 DEF TypeOK
    <3>3. QED
      BY <1>s, <2>1, <2>3, <3>1, <3>2 DEF Abstract!Solved, Abstract!IsMeet
  <2>6. QED
    BY <2>4, <2>5
<1>5. CASE PushSuccessor
  <2>1. /\ pc = "push" /\ pc' = "push" /\ k' = k + 1
        /\ queued' = queued \union {graph.successors[addr][k]}
        /\ UNCHANGED <<graph, code, block_in, block_out, addr>>
    BY <1>5 DEF PushSuccessor
  <2>2. k \in Nat /\ Len(graph.successors[addr]) \in Nat
    BY <2>1 DEF TypeOK
  <2>3. Pending(b) => Pending(b)'
    <3>1. CASE b \in queued
      BY <2>1, <3>1 DEF Pending
    <3>2. CASE \E i \in k .. Len(graph.successors[addr]) :
                 graph.successors[addr][i] = b
      <4>1. PICK i \in k .. Len(graph.successors[addr]) :
              graph.successors[addr][i] = b
        BY <3>2
      <4>2. CASE i = k
        BY <2>1, <4>1, <4>2 DEF Pending
      <4>3. CASE i # k
        <5>1. i \in k + 1 .. Len(graph.successors[addr])
          BY <2>2, <4>1, <4>3
        <5>2. QED
          BY <2>1, <4>1, <5>1 DEF Pending
      <4>4. QED
        BY <4>2, <4>3
    <3>3. QED
      BY <2>1, <3>1, <3>2 DEF Pending
  <2>4. QED
    BY <1>s, <2>1, <2>3 DEF Abstract!Solved, Abstract!Incoming, Abstract!IsMeet
<1>6. CASE EndPush
  <2>1. /\ pc = "push" /\ k > Len(graph.successors[addr])
        /\ UNCHANGED <<graph, code, block_in, block_out, queued>>
    BY <1>6 DEF EndPush
  <2>2. k \in Nat /\ Len(graph.successors[addr]) \in Nat
    BY <2>1 DEF TypeOK
  <2>3. Pending(b) => Pending(b)'
    BY <2>1, <2>2 DEF Pending
  <2>4. QED
    BY <1>s, <2>1, <2>3 DEF Abstract!Solved, Abstract!Incoming, Abstract!IsMeet
<1>7. CASE UNCHANGED vars
  BY <1>7, <1>s DEF vars, Pending, Abstract!Solved, Abstract!Incoming,
                    Abstract!IsMeet
<1>8. QED
  BY <1>1, <1>2, <1>3, <1>4, <1>5, <1>6, <1>7 DEF Next, Step, Returned

(* No change of a predecessor is ever lost: a block that is not waiting    *)
(* satisfies its equations, for every graph, loops included.               *)
THEOREM WorklistCorrect == Spec => []SolvedUnlessPending
<1>1. QED
  BY SolvedInit, SolvedStep, ParametersInvariant, TypeCorrect, QueueCorrect,
     LoopInvariant, PTL DEF Spec

(* The loop ends only when nothing is pending any more.                    *)
LEMMA DoneIsFixpoint ==
  ASSUME QueueMatchesSet, SolvedUnlessPending, Done
  PROVE  Abstract!Fixpoint(graph, code, block_in, block_out)
<1>1. queued = {}
  BY DEF QueueMatchesSet, Elements, Done
<1>2. \A b \in Block : ~ Pending(b)
  BY <1>1 DEF Pending, Done
<1>3. QED
  BY <1>2 DEF SolvedUnlessPending, Abstract!Fixpoint, Block, Abstract!Block

(* With an empty worklist and no loop running nothing is pending, so the   *)
(* result of solve_forward solves the equations of every block.            *)
THEOREM ResultIsFixpoint == Spec => []FixpointWhenDone
<1>1. QueueMatchesSet /\ SolvedUnlessPending => FixpointWhenDone
  BY DoneIsFixpoint DEF FixpointWhenDone
<1>2. QED
  BY <1>1, QueueCorrect, WorklistCorrect, PTL

-----------------------------------------------------------------------------
(* Monotone descent.                                                       *)

(* Whatever lies below the OUT states that flow into a block transfers to  *)
(* something below the block's own OUT.                                    *)
TransferStaysBelow ==
  \A b \in Block : \A l \in State :
    (\A s \in Abstract!Incoming(graph, block_out, b) : Below(l, s))
      => Below(Transfer(code[b], l), block_out[b])

(* A visit that changes OUT moves it down, and no other step moves it.     *)
LEMMA StepDescends ==
  ASSUME Parameters, TypeOK, LoopInv, TransferStaysBelow, [Next]_vars
  PROVE  \A b \in Block : Below(block_out'[b], block_out[b])
<1>1. CASE VisitChanged
  <2>1. /\ pc = "merge" /\ k > Len(graph.predecessors[addr])
        /\ block_out' = [block_out EXCEPT ![addr] = Transfer(code[addr], acc)]
    BY <1>1 DEF VisitChanged, Visit
  <2>2. /\ Abstract!IsMeet(acc, Abstract!Incoming(graph, block_out, addr))
        /\ addr \in Block
    BY <2>1, MergedAll
  <2>3. Below(Transfer(code[addr], acc), block_out[addr])
    BY <2>2 DEF TransferStaysBelow, Abstract!IsMeet
  <2>4. QED
    BY <2>1, <2>2, <2>3, LatticeAssumption DEF TypeOK
<1>2. CASE ~ VisitChanged
  <2>1. block_out' = block_out
    BY <1>2 DEF Next, Step, PopFront, MergePredecessor, VisitUnchanged, Visit,
                PushSuccessor, EndPush, Returned, vars
  <2>2. QED
    BY <2>1, LatticeAssumption DEF TypeOK
<1>3. QED
  BY <1>1, <1>2

LEMMA TransferInit == Parameters /\ Init => TransferStaysBelow
<1> SUFFICES ASSUME Parameters, Init, NEW b \in Block, NEW l \in State
             PROVE  Below(Transfer(code[b], l), block_out[b])
  BY DEF TransferStaysBelow
<1>1. Transfer(code[b], l) \in State /\ block_out[b] = Top
  BY TransferAssumption DEF Parameters, Init
<1>2. QED
  BY <1>1, LatticeAssumption

LEMMA TransferStep ==
  Parameters /\ TypeOK /\ TypeOK' /\ LoopInv /\ TransferStaysBelow /\ [Next]_vars
    => TransferStaysBelow'
<1> SUFFICES ASSUME Parameters, TypeOK, TypeOK', LoopInv, TransferStaysBelow,
                    [Next]_vars,
                    NEW b \in Block, NEW l \in State,
                    \A s \in Abstract!Incoming(graph, block_out, b)' : Below(l, s)
             PROVE  Below(Transfer(code'[b], l), block_out'[b])
  BY DEF TransferStaysBelow
<1>0. graph' = graph /\ code' = code
  BY DEF Next, Step, PopFront, MergePredecessor, VisitChanged,
         VisitUnchanged, Visit, PushSuccessor, EndPush, Returned, vars
<1>1. \A s \in Abstract!Incoming(graph, block_out, b) : Below(l, s)
  <2> SUFFICES ASSUME NEW i \in 1 .. Len(graph.predecessors[b])
               PROVE  Below(l, block_out[graph.predecessors[b][i]])
    BY DEF Abstract!Incoming
  <2> DEFINE p == graph.predecessors[b][i]
  <2>1. p \in Block
    BY DEF TypeOK
  <2>2. Below(l, block_out'[p])
    BY <1>0 DEF Abstract!Incoming
  <2>3. Below(block_out'[p], block_out[p])
    BY <2>1, StepDescends
  <2>4. block_out[p] \in State /\ block_out'[p] \in State
    BY <2>1 DEF TypeOK
  <2>5. QED
    BY <2>2, <2>3, <2>4, LatticeAssumption
<1>2. CASE VisitChanged /\ b = addr
  <2>1. /\ pc = "merge" /\ k > Len(graph.predecessors[addr])
        /\ block_out' = [block_out EXCEPT ![addr] = Transfer(code[addr], acc)]
    BY <1>2 DEF VisitChanged, Visit
  <2>2. Abstract!IsMeet(acc, Abstract!Incoming(graph, block_out, addr))
    BY <2>1, MergedAll
  <2>3. Below(l, acc) /\ acc \in State
    BY <1>1, <1>2, <2>2 DEF Abstract!IsMeet
  <2>4. block_out'[b] = Transfer(code[b], acc)
    BY <1>2, <2>1 DEF TypeOK
  <2>5. QED
    BY <1>0, <2>3, <2>4, TransferAssumption DEF Parameters
<1>3. CASE ~ (VisitChanged /\ b = addr)
  <2>1. block_out'[b] = block_out[b]
    BY <1>3 DEF Next, Step, PopFront, MergePredecessor, VisitUnchanged, Visit,
                VisitChanged, PushSuccessor, EndPush, Returned, vars, TypeOK
  <2>2. QED
    BY <1>0, <1>1, <2>1 DEF TransferStaysBelow
<1>4. QED
  BY <1>2, <1>3

LEMMA TransferInvariant == Spec => []TransferStaysBelow
<1>1. QED
  BY TransferInit, TransferStep, ParametersInvariant, TypeCorrect,
     LoopInvariant, PTL DEF Spec

(* OUT states only ever move down the lattice, for every monotone analysis.*)
THEOREM Descends == Spec => OnlyDescends
<1>1. Parameters /\ TypeOK /\ LoopInv /\ TransferStaysBelow /\ [Next]_vars
        => [\A b \in Block : Below(block_out'[b], block_out[b])]_vars
  BY StepDescends
<1>2. QED
  BY <1>1, ParametersInvariant, TypeCorrect, LoopInvariant, TransferInvariant,
     PTL DEF Spec, OnlyDescends

-----------------------------------------------------------------------------
(* Precision.                                                              *)

LEMMA SolutionStep ==
  Parameters /\ TypeOK /\ LoopInv /\ AboveEverySolution /\ [Next]_vars
    => AboveEverySolution'
<1> SUFFICES ASSUME Parameters, TypeOK, LoopInv, AboveEverySolution, [Next]_vars,
                    NEW X \in [Block -> State], IsSolution(X)', NEW b \in Block
             PROVE  Below(X[b], block_out'[b])
  BY DEF AboveEverySolution
<1>0. graph' = graph /\ code' = code
  BY DEF Next, Step, PopFront, MergePredecessor, VisitChanged,
         VisitUnchanged, Visit, PushSuccessor, EndPush, Returned, vars
<1>1. IsSolution(X)
  BY <1>0 DEF IsSolution, Abstract!Incoming
<1>2. \A c \in Block : Below(X[c], block_out[c])
  BY <1>1 DEF AboveEverySolution
<1>3. CASE VisitChanged /\ b = addr
  <2>1. /\ pc = "merge" /\ k > Len(graph.predecessors[addr])
        /\ block_out' = [block_out EXCEPT ![addr] = Transfer(code[addr], acc)]
    BY <1>3 DEF VisitChanged, Visit
  <2>2. Abstract!IsMeet(acc, Abstract!Incoming(graph, block_out, addr))
    BY <2>1, MergedAll
  <2>3. PICK in \in State :
          /\ \A s \in Abstract!Incoming(graph, X, b) : Below(in, s)
          /\ Below(X[b], Transfer(code[b], in))
    BY <1>1 DEF IsSolution
  <2>4. \A s \in Abstract!Incoming(graph, block_out, b) : Below(in, s)
    <3> SUFFICES ASSUME NEW i \in 1 .. Len(graph.predecessors[b])
                 PROVE  Below(in, block_out[graph.predecessors[b][i]])
      BY DEF Abstract!Incoming
    <3> DEFINE p == graph.predecessors[b][i]
    <3>1. p \in Block /\ X[p] \in State /\ block_out[p] \in State
      BY DEF TypeOK
    <3>2. Below(in, X[p])
      BY <2>3 DEF Abstract!Incoming
    <3>3. QED
      BY <1>2, <3>1, <3>2, LatticeAssumption
  <2>5. Below(in, acc) /\ acc \in State
    BY <1>3, <2>2, <2>4 DEF Abstract!IsMeet
  <2>6. Below(Transfer(code[b], in), Transfer(code[b], acc))
    BY <2>5, TransferAssumption DEF Parameters
  <2>7. /\ X[b] \in State
        /\ Transfer(code[b], in) \in State /\ Transfer(code[b], acc) \in State
    BY <2>5, TransferAssumption DEF Parameters
  <2>8. Below(X[b], Transfer(code[b], acc))
    BY <2>3, <2>6, <2>7, LatticeAssumption
  <2>9. QED
    BY <1>3, <2>1, <2>8 DEF TypeOK
<1>4. CASE ~ (VisitChanged /\ b = addr)
  <2>1. block_out'[b] = block_out[b]
    BY <1>4 DEF Next, Step, PopFront, MergePredecessor, VisitUnchanged, Visit,
                VisitChanged, PushSuccessor, EndPush, Returned, vars, TypeOK
  <2>2. QED
    BY <1>2, <2>1
<1>5. QED
  BY <1>3, <1>4

LEMMA SolutionInit == Init => AboveEverySolution
  BY LatticeAssumption DEF Init, AboveEverySolution

(* OUT never falls below a solution of the equations (dataflow.rs:86-111). *)
LEMMA NoPrecisionLost == Spec => []AboveEverySolution
<1>1. QED
  BY SolutionInit, SolutionStep, ParametersInvariant, TypeCorrect, LoopInvariant,
     PTL DEF Spec

(* What solve_forward returns, a solution by ResultIsFixpoint, is the      *)
(* greatest one: it does not depend on the order of the worklist           *)
(* (dataflow.rs:86-111).                                                   *)
THEOREM ResultIsGreatest == Spec => []GreatestWhenDone
<1>1. AboveEverySolution => GreatestWhenDone
  BY DEF GreatestWhenDone
<1>2. QED
  BY <1>1, NoPrecisionLost, PTL

-----------------------------------------------------------------------------
(* Refinement: a visit of a block is one application of its equations, the *)
(* steps of the two inner loops and of the worklist change nothing the     *)
(* abstract iteration has.                                                 *)

LEMMA RefinementInit == Init => Abstract!Init
<1> SUFFICES ASSUME Init PROVE Abstract!Init
  OBVIOUS
<1>1. Len(queue) = N
  BY NAssumption DEF Init
<1>2. Done <=> (N = 0)
  <2>1. queue = <<>> <=> N = 0
    BY <1>1, NAssumption DEF Init
  <2>2. QED
    BY <2>1 DEF Done, Init
<1>3. QED
  BY <1>2 DEF Init, Abstract!Init, Block, Abstract!Block

LEMMA RefinementStep ==
  Parameters /\ TypeOK /\ LoopInv /\ QueueMatchesSet' /\ SolvedUnlessPending'
    /\ [Next]_vars
    => [Abstract!Next]_(Abstract!vars)
<1> SUFFICES ASSUME Parameters, TypeOK, LoopInv, QueueMatchesSet',
                    SolvedUnlessPending', [Next]_vars
             PROVE  [Abstract!Next]_(Abstract!vars)
  OBVIOUS
<1>d. /\ Done' \in BOOLEAN
      /\ Done' => Abstract!Fixpoint(graph, code, block_in, block_out)'
  <2>1. Done' \in BOOLEAN
    BY DEF Done
  <2>2. ASSUME Done' PROVE Abstract!Fixpoint(graph, code, block_in, block_out)'
    <3>1. queued' = {}
      BY <2>2 DEF QueueMatchesSet, Elements, Done
    <3>2. \A b \in Block : ~ Pending(b)'
      BY <2>2, <3>1 DEF Pending, Done
    <3>3. QED
      BY <3>2 DEF SolvedUnlessPending, Abstract!Fixpoint, Block, Abstract!Block
  <2>3. QED
    BY <2>1, <2>2
<1>f. /\ graph' = graph /\ code' = code
      /\ Done' => Abstract!Fixpoint(graph, code, block_in', block_out')
  <2>1. graph' = graph /\ code' = code
    BY DEF Next, Step, PopFront, MergePredecessor, VisitChanged,
           VisitUnchanged, Visit, PushSuccessor, EndPush, Returned, vars
  <2>2. QED
    BY <1>d, <2>1 DEF Abstract!Fixpoint, Abstract!Solved, Abstract!IsMeet,
                      Abstract!Incoming
<1>1. CASE PopFront \/ MergePredecessor \/ PushSuccessor \/ EndPush
  <2>1. ~ Done
    BY <1>1 DEF Done, PopFront, MergePredecessor, PushSuccessor, EndPush
  <2>2. UNCHANGED <<block_in, block_out>>
    BY <1>1 DEF PopFront, MergePredecessor, PushSuccessor, EndPush
  <2>3. QED
    BY <1>d, <1>f, <2>1, <2>2 DEF Abstract!Next, Abstract!Keep
<1>2. CASE VisitChanged \/ VisitUnchanged
  <2>1. /\ pc = "merge" /\ k > Len(graph.predecessors[addr])
        /\ block_in' = [block_in EXCEPT ![addr] = acc]
    BY <1>2 DEF VisitChanged, VisitUnchanged, Visit
  <2>2. /\ Abstract!IsMeet(acc, Abstract!Incoming(graph, block_out, addr))
        /\ addr \in Block /\ acc \in State
    BY <2>1, MergedAll DEF TypeOK
  <2>3. block_out' = [block_out EXCEPT ![addr] = Transfer(code[addr], acc)]
    BY <1>2, <2>2 DEF VisitChanged, VisitUnchanged, TypeOK
  <2>4. Abstract!Recompute(addr)
    BY <2>1, <2>2, <2>3 DEF Abstract!Recompute
  <2>5. ~ Done
    BY <2>1 DEF Done
  <2>6. QED
    BY <1>d, <1>f, <2>2, <2>4, <2>5 DEF Abstract!Next, Block, Abstract!Block
<1>3. CASE UNCHANGED vars
  BY <1>3 DEF vars, Abstract!vars, Done
<1>4. QED
  BY <1>1, <1>2, <1>3 DEF Next, Step, Returned

(* The worklist algorithm implements the chaotic iteration: whatever order *)
(* the worklist takes, the result is a fixpoint reached by applying the    *)
(* equations of one block at a time.                                       *)
THEOREM Implements == Spec => Refinement
<1>1. QED
  BY RefinementInit, RefinementStep, ParametersInvariant, TypeCorrect,
     LoopInvariant, QueueCorrect, WorklistCorrect, PTL
     DEF Spec, Refinement, Abstract!Spec

=============================================================================
