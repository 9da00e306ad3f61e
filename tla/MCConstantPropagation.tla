----------------------- MODULE MCConstantPropagation -----------------------
(***************************************************************************)
(* Constant propagation of small functions: four control flow graphs, two  *)
(* bodies out of a menu for each block, registers of two bits in words of  *)
(* three.                                                                  *)
(***************************************************************************)
EXTENDS ConstantPropagation

r == Register(0, 2)
s == Register(1, 2)
zf == Register(1000, 1)
MCTracked == {r, s, zf}

Ascending(S) == SelectSeq([n \in 1 .. N |-> n], LAMBDA n : n \in S)

Graph(succ) ==
  [successors   |-> [n \in 1 .. N |-> Ascending(succ[n])],
   predecessors |-> [n \in 1 .. N |-> Ascending({m \in 1 .. N : n \in succ[m]})]]

(* An if without else, a loop around the middle block, a loop to the       *)
(* entry, and two blocks that jump to each other.                          *)
MCGraphs ==
  { Graph(<<{2, 3}, {3}, {}>>), Graph(<<{2}, {2, 3}, {}>>),
    Graph(<<{2, 3}, {3}, {1}>>), Graph(<<{2, 3}, {1, 3}, {2}>>) }

MCCode ==
  { <<Copy(r, Constant(3, 2))>>,
    <<Binary("IntAdd", r, r, Constant(1, 2))>>,
    <<Load(r, s)>>,
    <<Copy(s, r), Binary("IntSub", r, r, s)>>,
    <<Binary("IntEqual", zf, r, Constant(0, 2)), CBranch(zf, Absolute(3))>>,
    <<Binary("IntSless", zf, r, s), CBranch(zf, Absolute(3))>>,
    <<Store(s, r), Binary("IntSlessEqual", zf, s, r)>>,
    <<Binary("IntNotEqual", zf, zf, Constant(0, 1)), Copy(s, Constant(2, 2))>> }

=============================================================================
