----------------------------- MODULE CfgProofs -----------------------------
(***************************************************************************)
(* Proofs about the construction of the control flow graph, for every      *)
(* stream of instructions: the blocks partition the stream, control enters *)
(* them only at the top and leaves them only at the end, the edges are     *)
(* exactly the transfers of control between instructions, predecessors are *)
(* the reverse of successors and the address index finds every block.      *)
(***************************************************************************)
EXTENDS CfgRebuild, FiniteSetTheorems, WellFoundedInduction, TLAPS

-----------------------------------------------------------------------------
(* A function on 1 .. n is a sequence.                                     *)
LEMMA FunctionIsSeq ==
  ASSUME NEW S, NEW n \in Nat, NEW f \in [1 .. n -> S]
  PROVE  f \in Seq(S)
  OBVIOUS

-----------------------------------------------------------------------------
(* The inductive invariant.                                                *)

First(b) == blocks[b].instructions[1]

FlatOK == flat \in Seq(Elements(flat)) /\ Stream(flat)

(* Where the loops stand.                                                  *)
Bounds ==
  /\ pc = "leaders" => i <= Len(flat) + 1 /\ blocks = <<>>
  /\ pc = "split" => i <= Len(flat) + 1 /\ (blocks = <<>> <=> i = 1)
  /\ pc \in {"leaders", "split"} => successors = <<>>
  /\ pc = "edges" => i <= Len(blocks) + 1 /\ Len(successors) = i - 1
  /\ pc = "reverse" => i <= Len(blocks) + 1
  /\ pc \in {"reverse", "done"} => /\ Len(successors) = Len(blocks)
                                   /\ Len(predecessors) = Len(blocks)

(* What is in leaders of the instructions scanned so far.                  *)
LeadersOf(j) ==
  /\ Targets(flat[j]) \subseteq leaders
  /\ IsTerminator(flat[j]) /\ j < Len(flat) => flat[j + 1].address \in leaders

Scanned == \A j \in 1 .. Len(flat) : (pc = "leaders" => j < i) => LeadersOf(j)

(* Blocks stand in program order, behind the instruction being split.      *)
Ordered ==
  /\ \A b, c \in Blocks : b < c => First(b) < First(c)
  /\ \A b \in Blocks : pc = "split" => First(b) < i

(* No leader stands inside a block.                                        *)
Inside ==
  \A b \in Blocks : \A j \in Positions(b) :
    j > 1 => flat[blocks[b].instructions[j]].address \notin leaders

Connected == \A b \in 1 .. Len(successors) : b \in Blocks /\ successors[b] = EdgesOf(b)

Reversed ==
  pc \in {"reverse", "done"} =>
    /\ \A b \in Blocks : predecessors[b] \subseteq Starts
    /\ \A b, c \in Blocks :
         blocks[b].start_address \in predecessors[c]
           <=> /\ pc = "reverse" => b < i
               /\ blocks[c].start_address \in successors[b]

IInv ==
  /\ FlatOK /\ TypeOK /\ Bounds
  /\ Scanned /\ Partition /\ Ordered /\ Inside
  /\ Connected /\ Reversed /\ IndexAgrees

-----------------------------------------------------------------------------
(* Facts about one state.                                                  *)

LEMMA FlatFacts ==
  ASSUME FlatOK
  PROVE  /\ Len(flat) \in Nat
         /\ \A j \in 1 .. Len(flat) :
              /\ flat[j].address \in Address
              /\ flat[j].address \in Nat
              /\ Targets(flat[j]) \subseteq Address
         /\ \A j, m \in 1 .. Len(flat) : j < m => flat[j].address < flat[m].address
         /\ \A j, m \in 1 .. Len(flat) : flat[j].address = flat[m].address => j = m
<1>1. Len(flat) \in Nat /\ \A j \in 1 .. Len(flat) : flat[j] \in Elements(flat)
  BY DEF FlatOK, Elements
<1>2. \A j \in 1 .. Len(flat) : LiftedInstruction(flat[j])
  BY <1>1 DEF FlatOK, Stream
<1>3. ASSUME NEW j \in 1 .. Len(flat)
      PROVE  /\ flat[j].address \in Address
             /\ flat[j].address \in Nat
             /\ Targets(flat[j]) \subseteq Address
  <2>1. LiftedInstruction(flat[j])
    BY <1>2
  <2>2. ASSUME NEW op \in Elements(flat[j].ops),
               op.op \in {"Branch", "CBranch"}, op.target.kind = "Absolute"
        PROVE  op.target.address \in Address
    <3>1. op.target \in {Indirect} \union {Absolute(a) : a \in Address}
      BY <2>1, <2>2 DEF LiftedInstruction
    <3>2. QED
      BY <2>2, <3>1 DEF Indirect, Absolute
  <2>3. QED
    BY <2>1, <2>2, AddressAssumption DEF LiftedInstruction, Targets
<1>4. \A j, m \in 1 .. Len(flat) : j < m => flat[j].address < flat[m].address
  BY DEF FlatOK, Stream
<1>5. ASSUME NEW j \in 1 .. Len(flat), NEW m \in 1 .. Len(flat),
             flat[j].address = flat[m].address
      PROVE  j = m
  BY <1>1, <1>3, <1>4, <1>5
<1>6. QED
  BY <1>1, <1>3, <1>4, <1>5

LEMMA BlockFacts ==
  ASSUME TypeOK
  PROVE  /\ Len(blocks) \in Nat
         /\ \A b \in Blocks :
              /\ blocks[b].start_address \in Address
              /\ blocks[b].instructions \in Seq(1 .. Len(flat))
              /\ Len(blocks[b].instructions) \in Nat
              /\ \A j \in Positions(b) : blocks[b].instructions[j] \in 1 .. Len(flat)
<1>1. Len(blocks) \in Nat
  BY DEF TypeOK
<1>2. \A b \in Blocks :
        blocks[b] \in [start_address : Address, instructions : Seq(1 .. Len(flat))]
  <2> DEFINE T == [start_address : Address, instructions : Seq(1 .. Len(flat))]
  <2>1. blocks \in Seq(T)
    BY DEF TypeOK
  <2> HIDE DEF T
  <2>2. \A b \in Blocks : blocks[b] \in T
    BY <2>1 DEF Blocks
  <2>3. QED
    BY <2>2 DEF T
<1>3. \A b \in Blocks :
        /\ blocks[b].start_address \in Address
        /\ blocks[b].instructions \in Seq(1 .. Len(flat))
  BY <1>2
<1>4. ASSUME NEW b \in Blocks
      PROVE  /\ Len(blocks[b].instructions) \in Nat
             /\ \A j \in Positions(b) : blocks[b].instructions[j] \in 1 .. Len(flat)
  <2> DEFINE s == blocks[b].instructions
  <2>1. s \in Seq(1 .. Len(flat))
    BY <1>3
  <2> HIDE DEF s
  <2>2. Len(s) \in Nat /\ \A j \in 1 .. Len(s) : s[j] \in 1 .. Len(flat)
    BY <2>1
  <2>3. QED
    BY <2>2 DEF s, Positions
<1>5. QED
  BY <1>1, <1>3, <1>4

(* No block is empty.                                                      *)
LEMMA BlockEnds ==
  ASSUME TypeOK, Partition, NEW b \in Blocks
  PROVE  /\ 1 \in Positions(b)
         /\ Len(blocks[b].instructions) \in Positions(b)
         /\ First(b) \in 1 .. Len(flat)
         /\ blocks[b].instructions[Len(blocks[b].instructions)] \in 1 .. Len(flat)
<1> DEFINE s == blocks[b].instructions
<1>1. s \in Seq(1 .. Len(flat)) /\ s # <<>>
  BY BlockFacts DEF Partition
<1> HIDE DEF s
<1>2. Len(s) \in Nat \ {0}
  BY <1>1
<1>3. 1 \in 1 .. Len(s) /\ Len(s) \in 1 .. Len(s)
  BY <1>2
<1>4. 1 \in Positions(b) /\ Len(s) \in Positions(b)
  BY <1>3 DEF s, Positions
<1>5. QED
  BY <1>4, BlockFacts DEF First, s

(* Two blocks never start at the same address.                             *)
LEMMA StartsDistinct ==
  ASSUME IInv, NEW b \in Blocks, NEW c \in Blocks,
         blocks[b].start_address = blocks[c].start_address
  PROVE  b = c
<1>1. First(b) \in 1 .. Len(flat) /\ First(c) \in 1 .. Len(flat)
  BY BlockEnds DEF IInv
<1>2. First(b) = First(c)
  BY <1>1, FlatFacts DEF IInv, Partition, First
<1>3. QED
  BY <1>1, <1>2, BlockFacts, SMTT(30) DEF IInv, Ordered, Blocks

-----------------------------------------------------------------------------
(* The safety properties follow from the invariant.                        *)

LEMMA StraightLineFollows ==
  ASSUME IInv
  PROVE  StraightLine
<1> SUFFICES ASSUME NEW b \in Blocks, NEW j \in Positions(b)
             PROVE  LET m == blocks[b].instructions[j]
                    IN  /\ j > 1 => \A li \in Elements(flat) : flat[m].address \notin Targets(li)
                        /\ j < Len(blocks[b].instructions) => ~ IsTerminator(flat[m])
  BY DEF StraightLine
<1> DEFINE m == blocks[b].instructions[j]
<1>1. m \in 1 .. Len(flat) /\ Len(flat) \in Nat /\ j \in Nat
      /\ Len(blocks[b].instructions) \in Nat
  BY BlockFacts, FlatFacts DEF IInv, Positions
<1>2. pc # "leaders"
  BY DEF IInv, Bounds, Blocks
<1>3. ASSUME j > 1, NEW li \in Elements(flat)
      PROVE  flat[m].address \notin Targets(li)
  <2>1. PICK l \in 1 .. Len(flat) : li = flat[l]
    BY DEF Elements
  <2>2. Targets(li) \subseteq leaders
    BY <1>2, <2>1 DEF IInv, Scanned, LeadersOf
  <2>3. QED
    BY <1>3, <2>2 DEF IInv, Inside
<1>4. ASSUME j < Len(blocks[b].instructions)
      PROVE  ~ IsTerminator(flat[m])
  <2>1. j + 1 \in Positions(b) /\ j + 1 > 1
    BY <1>1, <1>4 DEF Positions
  <2>2. blocks[b].instructions[j + 1] = m + 1
    <3>1. blocks[b].instructions[1] \in Int
      BY BlockEnds DEF IInv, First
    <3>2. /\ blocks[b].instructions[j + 1] = blocks[b].instructions[1] + (j + 1) - 1
          /\ m = blocks[b].instructions[1] + j - 1
      BY <2>1 DEF IInv, Partition
    <3>3. QED
      BY <1>1, <3>1, <3>2, SMTT(30)
  <2>3. flat[m + 1].address \notin leaders
    BY <2>1, <2>2 DEF IInv, Inside
  <2>4. m + 1 \in 1 .. Len(flat)
    BY <2>1, <2>2, BlockFacts DEF IInv
  <2>5. QED
    BY <1>1, <1>2, <2>3, <2>4, SMTT(30) DEF IInv, Scanned, LeadersOf
<1>5. QED
  BY <1>3, <1>4

(* With one control transfer at most, an instruction falls through exactly *)
(* when it holds no jump and no return.                                    *)
LEMMA FallsThroughMeans ==
  ASSUME FlatOK, NEW l \in 1 .. Len(flat)
  PROVE  FallsThrough(flat[l])
           <=> \A op \in Elements(flat[l].ops) : op.op \notin {"Branch", "Return"}
<1>1. flat[l] \in Elements(flat)
  BY DEF Elements
<1>2. \A j, m \in 1 .. Len(flat[l].ops) :
        IsControl(flat[l].ops[j]) /\ IsControl(flat[l].ops[m]) => j = m
  BY <1>1 DEF FlatOK, Stream
<1>3. \A p, q \in Elements(flat[l].ops) : IsControl(p) /\ IsControl(q) => p = q
  BY <1>2 DEF Elements
<1>4. QED
  BY <1>3 DEF FallsThrough, IsTerminator, IsControl

LEMMA EdgesFollow ==
  ASSUME IInv
  PROVE  EdgesAreFlow
<1> SUFFICES ASSUME pc \in {"reverse", "done"}, NEW b \in Blocks, NEW c \in Blocks
             PROVE  blocks[c].start_address \in successors[b]
                      <=> Flows(blocks[b].instructions[Len(blocks[b].instructions)],
                                First(c))
  BY DEF EdgesAreFlow, First
<1> DEFINE l == blocks[b].instructions[Len(blocks[b].instructions)]
           li == flat[l]
<1>1. /\ Len(flat) \in Nat /\ Len(blocks) \in Nat /\ b \in Nat
      /\ l \in 1 .. Len(flat) /\ First(b) \in 1 .. Len(flat) /\ First(c) \in 1 .. Len(flat)
  BY BlockFacts, BlockEnds, FlatFacts DEF IInv, Blocks
<1>2. /\ l + 1 = IF b < Len(blocks) THEN First(b + 1) ELSE Len(flat) + 1
      /\ b < Len(blocks) => b + 1 \in Blocks /\ First(b + 1) \in 1 .. Len(flat)
  <2>1. Len(blocks[b].instructions) \in Positions(b)
    BY BlockEnds DEF IInv
  <2>2. l = First(b) + Len(blocks[b].instructions) - 1
    BY <2>1 DEF IInv, Partition, First
  <2>3. b < Len(blocks) => b + 1 \in Blocks
    BY <1>1 DEF Blocks
  <2>4. b < Len(blocks) => First(b + 1) \in 1 .. Len(flat)
    BY <2>3, BlockEnds DEF IInv
  <2>5. First(b) + Len(blocks[b].instructions) =
          IF b < Len(blocks) THEN First(b + 1) ELSE Len(flat) + 1
    BY DEF IInv, Partition, First
  <2>6. Len(blocks[b].instructions) \in Nat
    BY BlockFacts DEF IInv
  <2>7. l + 1 = First(b) + Len(blocks[b].instructions)
    <3> DEFINE f == First(b)
               k == Len(blocks[b].instructions)
    <3>1. f \in Int /\ k \in Int /\ l = f + k - 1
      BY <1>1, <2>2, <2>6
    <3> HIDE DEF f, k, l
    <3>2. l + 1 = f + k
      BY <3>1
    <3>3. QED
      BY <3>2 DEF f, k
  <2>8. QED
    BY <2>3, <2>4, <2>5, <2>7
<1>3. /\ blocks[c].start_address = flat[First(c)].address
      /\ blocks[c].start_address \in Starts
      /\ b < Len(blocks) => blocks[b + 1].start_address = flat[First(b + 1)].address
  BY <1>2 DEF IInv, Partition, First, Starts, Blocks
<1>4. successors[b] = (Targets(li) \intersect Starts)
        \union (IF FallsThrough(li) /\ b < Len(blocks)
                THEN {blocks[b + 1].start_address} ELSE {})
  BY DEF IInv, Connected, EdgesOf, Last, Bounds, Blocks
<1>5. blocks[c].start_address \in Targets(li)
        <=> \E op \in Elements(li.ops) :
              op.op \in {"Branch", "CBranch"} /\ op.target = Absolute(flat[First(c)].address)
  <2>1. LiftedInstruction(li)
    BY <1>1 DEF IInv, FlatOK, Stream, Elements
  <2>2. ASSUME NEW op \in Elements(li.ops), op.op \in {"Branch", "CBranch"}
        PROVE  op.target = Absolute(flat[First(c)].address)
                 <=> op.target.kind = "Absolute" /\ op.target.address = flat[First(c)].address
    <3>1. op.target \in {Indirect} \union {Absolute(a) : a \in Address}
      BY <2>1, <2>2 DEF LiftedInstruction
    <3>2. QED
      BY <3>1 DEF Indirect, Absolute
  <2>3. QED
    BY <1>3, <2>2 DEF Targets
<1>6. (b < Len(blocks) /\ blocks[c].start_address = blocks[b + 1].start_address)
        <=> First(c) = l + 1
  <2>1. CASE b < Len(blocks)
    BY <1>1, <1>2, <1>3, <2>1, FlatFacts DEF IInv
  <2>2. CASE ~ (b < Len(blocks))
    BY <1>1, <1>2, <2>2
  <2>3. QED
    BY <2>1, <2>2
<1>7. FallsThrough(li) <=> \A op \in Elements(li.ops) : op.op \notin {"Branch", "Return"}
  BY <1>1, FallsThroughMeans DEF IInv
<1>8. QED
  BY <1>3, <1>4, <1>5, <1>6, <1>7 DEF Flows

LEMMA SymmetricFollows ==
  ASSUME IInv
  PROVE  Symmetric
<1> SUFFICES ASSUME Done PROVE Symmetric
  BY DEF Symmetric
<1>1. \A b \in Blocks : successors[b] = EdgesOf(b)
  BY DEF IInv, Connected, Bounds, Blocks, Done
<1>2. \A b \in Blocks : EdgesOf(b) \subseteq Starts
  BY BlockFacts DEF EdgesOf, Starts, Blocks, IInv
<1>3. QED
  BY <1>1, <1>2 DEF IInv, Reversed, Symmetric, Done

(* Where a build starts: as Init says, with any stream and, in place of the *)
(* empty index, any index that is right for a function without blocks.     *)
Starting ==
  /\ FlatOK
  /\ pc = IF flat = <<>> THEN "done" ELSE "leaders"
  /\ i = 1
  /\ leaders = IF flat = <<>> THEN {} ELSE {flat[1].address}
  /\ blocks = <<>> /\ successors = <<>> /\ predecessors = <<>>
  /\ flat = <<>> => index = NoIndex

LEMMA InitStarts == Init => Starting
  BY StreamAssumption DEF Init, Starting, FlatOK

LEMMA StartInvariant ==
  ASSUME Starting
  PROVE  IInv
<1>1. FlatOK
  BY DEF Starting
<1>2. Len(flat) \in Nat
  BY <1>1 DEF FlatOK
<1>3. flat # <<>> => 1 \in 1 .. Len(flat)
  BY <1>1, <1>2 DEF FlatOK
<1>4. leaders \subseteq Address
  BY <1>1, <1>3, FlatFacts DEF Starting
<1>5. blocks = <<>> /\ successors = <<>> /\ predecessors = <<>> /\ i = 1
  BY DEF Starting
<1>6. Blocks = {} /\ Len(blocks) = 0 /\ Len(successors) = 0 /\ Len(predecessors) = 0
  BY <1>5 DEF Blocks
<1>7. TypeOK
  BY <1>4, <1>5 DEF Starting, TypeOK
<1>8. Bounds
  BY <1>2, <1>5, <1>6 DEF Starting, Bounds
<1>9. Scanned
  <2>1. CASE flat = <<>>
    BY <2>1, <1>2 DEF Scanned
  <2>2. CASE flat # <<>>
    BY <2>2, <1>2 DEF Starting, Scanned
  <2>3. QED
    BY <2>1, <2>2
<1>10. Partition /\ Ordered /\ Inside /\ Connected /\ Reversed
  BY <1>5, <1>6 DEF Starting, Partition, Ordered, Inside, Connected, Reversed
<1>11. IndexAgrees
  BY <1>6 DEF Starting, IndexAgrees, NoIndex, Starts, Blocks, Done
<1>12. QED
  BY <1>1, <1>7, <1>8, <1>9, <1>10, <1>11 DEF IInv

-----------------------------------------------------------------------------
(* What the two steps of the split do to the blocks.                       *)

LEMMA OpenBlockMeans ==
  ASSUME IInv, OpenBlock
  PROVE  /\ Len(blocks') = Len(blocks) + 1
         /\ \A b \in Blocks : blocks'[b] = blocks[b]
         /\ blocks'[Len(blocks) + 1].start_address = flat[i].address
         /\ blocks'[Len(blocks) + 1].instructions = <<i>>
  BY BlockFacts DEF IInv, OpenBlock, Blocks, TypeOK

LEMMA ExtendBlockMeans ==
  ASSUME IInv, ExtendBlock
  PROVE  LET n == Len(blocks)
             s == blocks[n].instructions
         IN  /\ Len(blocks') = n /\ n \in Blocks
             /\ \A b \in Blocks : blocks'[b].start_address = blocks[b].start_address
             /\ \A b \in Blocks : b # n => blocks'[b] = blocks[b]
             /\ blocks'[n].instructions = Append(s, i)
             /\ Len(blocks'[n].instructions) = Len(s) + 1
             /\ \A j \in 1 .. Len(s) : blocks'[n].instructions[j] = s[j]
             /\ blocks'[n].instructions[Len(s) + 1] = i
<1> DEFINE n == Len(blocks)
           s == blocks[n].instructions
           T == [start_address : Address, instructions : Seq(1 .. Len(flat))]
<1>1. n \in Nat \ {0} /\ n \in Blocks
  BY BlockFacts DEF IInv, TypeOK, ExtendBlock, Blocks
<1>2. s \in Seq(1 .. Len(flat))
  BY <1>1, BlockFacts DEF IInv
<1>3. blocks \in Seq(T) /\ \A b \in Blocks : blocks[b] \in T
  <2>1. blocks \in Seq(T)
    BY DEF IInv, TypeOK
  <2> HIDE DEF T
  <2>2. QED
    BY <2>1 DEF Blocks
<1>4. blocks' = [blocks EXCEPT ![n] = [blocks[n] EXCEPT !.instructions = Append(s, i)]]
  BY DEF ExtendBlock
<1>5. DOMAIN blocks = Blocks
  BY <1>3 DEF Blocks
<1>6. /\ blocks'[n] = [blocks[n] EXCEPT !.instructions = Append(s, i)]
      /\ \A b \in Blocks : b # n => blocks'[b] = blocks[b]
  BY <1>1, <1>4, <1>5
<1>7. /\ blocks'[n].instructions = Append(s, i)
      /\ blocks'[n].start_address = blocks[n].start_address
  BY <1>1, <1>3, <1>6
<1>8. Len(blocks') = n
  <2> HIDE DEF T
  <2>1. blocks' = [b \in 1 .. n |-> blocks'[b]]
    BY <1>4, <1>5 DEF Blocks
  <2>2. QED
    BY <1>1, <2>1
<1>9. /\ Len(Append(s, i)) = Len(s) + 1
      /\ \A j \in 1 .. Len(s) : Append(s, i)[j] = s[j]
      /\ Append(s, i)[Len(s) + 1] = i
  <2> HIDE DEF s
  <2>1. QED
    BY <1>2
<1>10. QED
  BY <1>1, <1>6, <1>7, <1>8, <1>9

-----------------------------------------------------------------------------
(* The invariant is preserved, part by part.                               *)

LEMMA FlatStep ==
  ASSUME FlatOK, [Next]_vars
  PROVE  FlatOK' /\ flat' = flat
<1>1. flat' = flat
  BY DEF Next, Step, vars, FindLeader, EndLeaders, OpenBlock, ExtendBlock, EndSplit,
         ConnectBlock, EndEdges, ReverseEdges, Install
<1>2. QED
  BY <1>1 DEF FlatOK, Stream

LEMMA TypeStep ==
  ASSUME IInv, [Next]_vars
  PROVE  TypeOK'
<1> DEFINE T == [start_address : Address, instructions : Seq(1 .. Len(flat))]
<1>0. /\ flat' = flat /\ Len(flat) \in Nat /\ Len(blocks) \in Nat /\ i \in Nat \ {0}
      /\ leaders \subseteq Address /\ blocks \in Seq(T)
      /\ successors \in Seq(SUBSET Address) /\ predecessors \in Seq(SUBSET Address)
      /\ pc \in {"leaders", "split", "edges", "reverse", "done"}
  BY FlatStep, FlatFacts, BlockFacts DEF IInv, TypeOK
<1>1. CASE FindLeader
  <2>1. leaders' \subseteq Address
    BY <1>0, <1>1, FlatFacts DEF FindLeader, IInv
  <2>2. QED
    BY <1>0, <1>1, <2>1 DEF FindLeader, TypeOK
<1>2. CASE OpenBlock
  <2>1. [start_address |-> flat[i].address, instructions |-> <<i>>] \in T
    BY <1>0, <1>2, FlatFacts DEF OpenBlock, IInv
  <2>2. blocks' \in Seq(T)
    <3> HIDE DEF T
    <3>1. QED
      BY <1>0, <1>2, <2>1 DEF OpenBlock
  <2>3. QED
    BY <1>0, <1>2, <2>2 DEF OpenBlock, TypeOK
<1>3. CASE ExtendBlock
  <2> DEFINE n == Len(blocks)
             t == [blocks[n] EXCEPT !.instructions = Append(blocks[n].instructions, i)]
  <2>1. n \in 1 .. Len(blocks)
    BY <1>3, ExtendBlockMeans DEF Blocks
  <2>2. blocks[n] \in T
    <3> HIDE DEF T
    <3>1. QED
      BY <1>0, <2>1
  <2>3. t \in T
    <3>1. Append(blocks[n].instructions, i) \in Seq(1 .. Len(flat))
      BY <1>0, <1>3, <2>2 DEF ExtendBlock
    <3>2. QED
      BY <2>2, <3>1
  <2>4. blocks' = [blocks EXCEPT ![n] = t]
    BY <1>3 DEF ExtendBlock
  <2>5. blocks' \in Seq(T)
    <3> HIDE DEF T, t
    <3>1. QED
      BY <1>0, <2>1, <2>3, <2>4
  <2>6. QED
    BY <1>0, <1>3, <2>5, SMTT(30) DEF ExtendBlock, TypeOK
<1>4. CASE ConnectBlock
  <2>1. EdgesOf(i) \subseteq Address
    BY <1>0, <1>4, BlockFacts, SMTT(30) DEF ConnectBlock, EdgesOf, Starts, Blocks, IInv
  <2>2. QED
    BY <1>0, <1>4, <2>1 DEF ConnectBlock, TypeOK
<1>5. CASE EndEdges
  <2>1. predecessors' \in [1 .. Len(blocks) -> SUBSET Address]
    BY <1>0, <1>5 DEF EndEdges
  <2>2. predecessors' \in Seq(SUBSET Address)
    BY <1>0, <2>1, FunctionIsSeq
  <2>3. QED
    BY <1>0, <1>5, <2>2 DEF EndEdges, TypeOK
<1>6. CASE ReverseEdges
  <2>1. blocks[i].start_address \in Address
    BY <1>0, <1>6, BlockFacts DEF ReverseEdges, Blocks, IInv
  <2>2. Len(predecessors) = Len(blocks)
    BY <1>6 DEF ReverseEdges, IInv, Bounds
  <2>3. predecessors' \in [1 .. Len(blocks) -> SUBSET Address]
    BY <1>0, <1>6, <2>1, <2>2 DEF ReverseEdges
  <2>4. predecessors' \in Seq(SUBSET Address)
    BY <1>0, <2>3, FunctionIsSeq
  <2>5. QED
    BY <1>0, <1>6, <2>4 DEF ReverseEdges, TypeOK
<1>7. CASE EndLeaders \/ EndSplit \/ Install \/ UNCHANGED vars
  BY <1>0, <1>7 DEF EndLeaders, EndSplit, Install, vars, TypeOK
<1>8. QED
  BY <1>1, <1>2, <1>3, <1>4, <1>5, <1>6, <1>7 DEF Next, Step

LEMMA BoundsStep ==
  ASSUME IInv, [Next]_vars
  PROVE  Bounds'
<1>0. /\ flat' = flat /\ Len(flat) \in Nat /\ Len(blocks) \in Nat /\ i \in Nat \ {0}
      /\ Len(successors) \in Nat /\ Bounds
  BY FlatStep, FlatFacts, BlockFacts DEF IInv, TypeOK
<1>1. CASE FindLeader
  BY <1>0, <1>1 DEF FindLeader, Bounds
<1>2. CASE OpenBlock
  <2>1. blocks' # <<>>
    BY <1>0, <1>2, OpenBlockMeans
  <2>2. QED
    BY <1>0, <1>2, <2>1 DEF OpenBlock, Bounds
<1>3. CASE ExtendBlock
  <2>1. blocks' # <<>>
    BY <1>0, <1>3, ExtendBlockMeans DEF Blocks
  <2>2. QED
    BY <1>0, <1>3, <2>1 DEF ExtendBlock, Bounds
<1>4. CASE ConnectBlock
  <2>1. Len(successors') = Len(successors) + 1
    BY <1>0, <1>4 DEF ConnectBlock, IInv, TypeOK
  <2>2. QED
    BY <1>0, <1>4, <2>1 DEF ConnectBlock, Bounds
<1>5. CASE EndEdges
  <2>1. Len(predecessors') = Len(blocks)
    BY <1>0, <1>5 DEF EndEdges
  <2>2. QED
    BY <1>0, <1>5, <2>1 DEF EndEdges, Bounds
<1>6. CASE ReverseEdges
  <2>1. Len(predecessors') = Len(blocks)
    BY <1>0, <1>6 DEF ReverseEdges
  <2>2. QED
    BY <1>0, <1>6, <2>1 DEF ReverseEdges, Bounds
<1>7. CASE EndLeaders
  BY <1>0, <1>7 DEF EndLeaders, Bounds
<1>8. CASE EndSplit
  BY <1>0, <1>8 DEF EndSplit, Bounds
<1>9. CASE Install
  BY <1>0, <1>9 DEF Install, Bounds
<1>10. CASE UNCHANGED vars
  BY <1>0, <1>10 DEF vars, Bounds
<1>11. QED
  BY <1>1, <1>2, <1>3, <1>4, <1>5, <1>6, <1>7, <1>8, <1>9, <1>10 DEF Next, Step

LEMMA ScannedStep ==
  ASSUME IInv, [Next]_vars
  PROVE  Scanned'
<1>0. flat' = flat /\ Len(flat) \in Nat /\ i \in Nat /\ Scanned
  BY FlatStep, FlatFacts DEF IInv, TypeOK
<1>1. CASE FindLeader
  <2> SUFFICES ASSUME NEW j \in 1 .. Len(flat), j < i + 1
               PROVE  LeadersOf(j)'
    BY <1>0, <1>1 DEF FindLeader, Scanned
  <2>1. CASE j = i
    BY <1>0, <1>1, <2>1 DEF FindLeader, LeadersOf
  <2>2. CASE j < i
    BY <1>0, <1>1, <2>2 DEF FindLeader, LeadersOf, Scanned
  <2>3. QED
    BY <1>0, <2>1, <2>2
<1>2. CASE EndLeaders
  BY <1>0, <1>2 DEF EndLeaders, Scanned, LeadersOf
<1>3. CASE OpenBlock \/ ExtendBlock \/ EndSplit
  BY <1>0, <1>3 DEF OpenBlock, ExtendBlock, EndSplit, Scanned, LeadersOf
<1>4. CASE ConnectBlock \/ EndEdges \/ ReverseEdges \/ Install \/ UNCHANGED vars
  BY <1>0, <1>4 DEF ConnectBlock, EndEdges, ReverseEdges, Install, vars, Scanned, LeadersOf
<1>5. QED
  BY <1>1, <1>2, <1>3, <1>4 DEF Next, Step

(* Opening a block.                                                        *)
LEMMA OpenBlockSplits ==
  ASSUME IInv, OpenBlock
  PROVE  Partition' /\ Ordered' /\ Inside'
<1> DEFINE n == Len(blocks)
<1>0. /\ flat' = flat /\ leaders' = leaders /\ pc = "split" /\ pc' = "split" /\ i' = i + 1
      /\ Len(flat) \in Nat /\ n \in Nat /\ i \in Nat \ {0} /\ i <= Len(flat)
  BY FlatFacts, BlockFacts DEF OpenBlock, IInv, TypeOK
<1>1. /\ Len(blocks') = n + 1
      /\ \A b \in Blocks : blocks'[b] = blocks[b]
      /\ blocks'[n + 1].start_address = flat[i].address
      /\ blocks'[n + 1].instructions = <<i>>
  BY OpenBlockMeans
<1>2. Blocks' = Blocks \union {n + 1} /\ n + 1 \notin Blocks
  BY <1>0, <1>1 DEF Blocks
<1>3. /\ <<i>> # <<>> /\ Len(<<i>>) = 1 /\ <<i>>[1] = i
  OBVIOUS
<1>4. \A b \in Blocks : First(b) \in 1 .. Len(flat) /\ First(b) < i
  BY <1>0, BlockEnds DEF IInv, Ordered
<1>5. Partition'
  <2>1. ASSUME NEW b \in Blocks'
        PROVE  /\ blocks'[b].instructions # <<>>
               /\ blocks'[b].start_address = flat'[blocks'[b].instructions[1]].address
               /\ \A j \in Positions(b)' :
                    blocks'[b].instructions[j] = blocks'[b].instructions[1] + j - 1
    <3>1. CASE b \in Blocks
      BY <1>0, <1>1, <3>1 DEF IInv, Partition, Positions
    <3>2. CASE b = n + 1
      <4>1. /\ blocks'[b].instructions = <<i>>
            /\ blocks'[b].start_address = flat[i].address
        BY <1>1, <3>2
      <4>2. Positions(b)' = 1 .. 1
        BY <1>3, <4>1 DEF Positions
      <4>3. \A j \in 1 .. 1 : <<i>>[j] = i + j - 1
        BY <1>0
      <4>4. QED
        BY <1>0, <1>3, <4>1, <4>2, <4>3
    <3>3. QED
      BY <1>2, <3>1, <3>2
  <2>2. blocks'[1].instructions[1] = 1
    <3>1. CASE blocks = <<>>
      <4>1. i = 1 /\ n = 0
        BY <1>0, <3>1 DEF IInv, Bounds
      <4>2. QED
        BY <1>1, <1>3, <4>1
    <3>2. CASE blocks # <<>>
      <4>1. 1 \in Blocks
        BY <1>0, <3>2 DEF Blocks, IInv, TypeOK
      <4>2. QED
        BY <1>1, <3>2, <4>1 DEF IInv, Partition
    <3>3. QED
      BY <3>1, <3>2
  <2>3. ASSUME NEW b \in Blocks'
        PROVE  blocks'[b].instructions[1] + Len(blocks'[b].instructions) =
                 IF b < n + 1 THEN blocks'[b + 1].instructions[1] ELSE i + 1
    <3>1. CASE b \in Blocks /\ b < n
      <4>1. b + 1 \in Blocks
        BY <1>0, <3>1 DEF Blocks
      <4>2. QED
        BY <1>0, <1>1, <3>1, <4>1, SMTT(30) DEF IInv, Partition, Blocks
    <3>2. CASE b \in Blocks /\ b = n
      <4>1. blocks[b].instructions[1] + Len(blocks[b].instructions) = i
        BY <1>0, <3>2 DEF IInv, Partition
      <4>2. blocks'[b] = blocks[b] /\ blocks'[b + 1].instructions[1] = i
        BY <1>1, <1>3, <3>2
      <4>3. QED
        BY <1>0, <3>2, <4>1, <4>2
    <3>3. CASE b = n + 1
      <4>1. blocks'[b].instructions[1] = i /\ Len(blocks'[b].instructions) = 1
        BY <1>1, <1>3, <3>3
      <4>2. ~ (b < n + 1)
        BY <1>0, <3>3
      <4>3. QED
        BY <4>1, <4>2
    <3>4. QED
      BY <1>0, <1>2, <3>1, <3>2, <3>3 DEF Blocks
  <2>4. QED
    BY <1>0, <1>1, <2>1, <2>2, <2>3 DEF Partition
<1>6. Ordered'
  <2> DEFINE P(b) == blocks'[b].instructions[1]
  <2>1. \A b \in Blocks : P(b) = First(b)
    BY <1>1 DEF First
  <2>2. P(n + 1) = i
    BY <1>1, <1>3
  <2>3. \A b \in Blocks : First(b) \in Int /\ First(b) < i
    BY <1>4
  <2>4. \A b \in Blocks : b \in Int /\ b < n + 1
    BY <1>0 DEF Blocks
  <2>5. \A b, c \in Blocks : b < c => First(b) < First(c)
    BY DEF IInv, Ordered
  <2> HIDE DEF P, n
  <2>6. ASSUME NEW b \in Blocks', NEW c \in Blocks', b < c
        PROVE  P(b) < P(c)
    <3>1. b \in Blocks
      BY <1>0, <1>2, <2>4, <2>6
    <3>2. CASE c \in Blocks
      BY <2>1, <2>5, <2>6, <3>1, <3>2
    <3>3. CASE c = n + 1
      BY <2>1, <2>2, <2>3, <3>1, <3>3
    <3>4. QED
      BY <1>2, <3>2, <3>3
  <2>7. ASSUME NEW b \in Blocks'
        PROVE  P(b) < i + 1
    <3>1. CASE b \in Blocks
      BY <1>0, <2>1, <2>3, <3>1
    <3>2. CASE b = n + 1
      BY <1>0, <2>2, <3>2
    <3>3. QED
      BY <1>2, <3>1, <3>2
  <2>8. QED
    BY <1>0, <2>6, <2>7 DEF Ordered, First, P
<1>7. Inside'
  BY <1>0, <1>1, <1>2, <1>3, SMTT(30) DEF Inside, Positions, IInv
<1>8. QED
  BY <1>5, <1>6, <1>7

(* Extending the open block.                                               *)
LEMMA ExtendBlockSplits ==
  ASSUME IInv, ExtendBlock
  PROVE  Partition' /\ Ordered' /\ Inside'
<1> DEFINE n == Len(blocks)
           s == blocks[n].instructions
<1>0. /\ flat' = flat /\ leaders' = leaders /\ pc = "split" /\ pc' = "split" /\ i' = i + 1
      /\ Len(flat) \in Nat /\ n \in Nat /\ i \in Nat \ {0} /\ i <= Len(flat)
      /\ flat[i].address \notin leaders
  BY FlatFacts, BlockFacts DEF ExtendBlock, IInv, TypeOK
<1>1. /\ Len(blocks') = n /\ n \in Blocks
      /\ \A b \in Blocks : blocks'[b].start_address = blocks[b].start_address
      /\ \A b \in Blocks : b # n => blocks'[b] = blocks[b]
      /\ Len(blocks'[n].instructions) = Len(s) + 1
      /\ \A j \in 1 .. Len(s) : blocks'[n].instructions[j] = s[j]
      /\ blocks'[n].instructions[Len(s) + 1] = i
  BY ExtendBlockMeans
<1>2. Blocks' = Blocks
  BY <1>1 DEF Blocks
<1>3. Len(s) \in Nat \ {0} /\ 1 \in 1 .. Len(s) /\ s[1] \in 1 .. Len(flat)
  BY <1>1, BlockFacts, BlockEnds DEF IInv, Positions, First
<1>4. /\ \A j \in 1 .. Len(s) : s[j] = s[1] + j - 1
      /\ s[1] + Len(s) = i
  BY <1>0, <1>1 DEF IInv, Partition, Positions
<1>5. \A b \in Blocks : First(b)' = First(b)
  BY <1>1, <1>3 DEF First
<1>6. Partition'
  <2>1. ASSUME NEW b \in Blocks
        PROVE  /\ blocks'[b].instructions # <<>>
               /\ blocks'[b].start_address = flat'[blocks'[b].instructions[1]].address
               /\ \A j \in Positions(b)' :
                    blocks'[b].instructions[j] = blocks'[b].instructions[1] + j - 1
    <3>1. CASE b # n
      <4>1. blocks'[b] = blocks[b]
        BY <1>1, <3>1
      <4>2. QED
        BY <1>0, <4>1 DEF IInv, Partition, Positions
    <3>2. CASE b = n
      <4>1. blocks'[n].instructions # <<>>
        BY <1>1, <1>3
      <4>2. blocks'[n].instructions[1] = s[1]
        BY <1>1, <1>3
      <4>3. ASSUME NEW j \in 1 .. Len(s) + 1
            PROVE  blocks'[n].instructions[j] = s[1] + j - 1
        <5> HIDE DEF s, n
        <5>1. CASE j = Len(s) + 1
          BY <1>0, <1>1, <1>3, <1>4, <5>1
        <5>2. CASE j \in 1 .. Len(s)
          BY <1>1, <1>4, <5>2
        <5>3. QED
          BY <1>3, <5>1, <5>2
      <4>4. QED
        BY <1>0, <1>1, <3>2, <4>1, <4>2, <4>3 DEF IInv, Partition, Positions
    <3>3. QED
      BY <3>1, <3>2
  <2>2. blocks'[1].instructions[1] = 1
    <3>1. 1 \in Blocks /\ First(1) = 1
      BY <1>0, <1>1 DEF Blocks, IInv, Partition, First, ExtendBlock
    <3>2. QED
      BY <1>5, <3>1 DEF First
  <2>3. ASSUME NEW b \in Blocks
        PROVE  blocks'[b].instructions[1] + Len(blocks'[b].instructions) =
                 IF b < n THEN blocks'[b + 1].instructions[1] ELSE i + 1
    <3>1. CASE b < n
      <4>1. b + 1 \in Blocks /\ b # n
        BY <1>0, <3>1 DEF Blocks
      <4>2. blocks'[b + 1].instructions[1] = First(b + 1)
        BY <1>5, <4>1 DEF First
      <4>3. blocks'[b] = blocks[b]
        BY <1>1, <4>1
      <4>4. QED
        BY <3>1, <4>2, <4>3 DEF IInv, Partition, First
    <3>2. CASE b = n
      <4> HIDE DEF s, n
      <4>1. blocks'[n].instructions[1] = s[1]
        BY <1>1, <1>3
      <4>2. Len(blocks'[n].instructions) = Len(s) + 1
        BY <1>1
      <4>3. s[1] + (Len(s) + 1) = i + 1
        BY <1>0, <1>3, <1>4, SMTT(30)
      <4>4. ~ (b < n)
        BY <1>0, <3>2
      <4>5. QED
        BY <3>2, <4>1, <4>2, <4>3, <4>4
    <3>3. QED
      BY <1>0, <3>1, <3>2 DEF Blocks
  <2>4. QED
    BY <1>0, <1>1, <1>2, <2>1, <2>2, <2>3 DEF Partition
<1>7. Ordered'
  <2>1. \A b \in Blocks : First(b) \in 1 .. Len(flat) /\ First(b) < i
    BY <1>0, BlockEnds DEF IInv, Ordered
  <2>2. QED
    BY <1>0, <1>2, <1>5, <2>1 DEF Ordered, IInv
<1>8. Inside'
  <2> SUFFICES ASSUME NEW b \in Blocks, NEW j \in Positions(b)', j > 1
               PROVE  flat[blocks'[b].instructions[j]].address \notin leaders
    BY <1>0, <1>2 DEF Inside
  <2>1. CASE b # n
    BY <1>1, <2>1 DEF IInv, Inside, Positions
  <2>2. CASE b = n /\ j = Len(s) + 1
    BY <1>0, <1>1, <2>2
  <2>3. CASE b = n /\ j # Len(s) + 1
    <3>1. j \in 1 .. Len(s)
      BY <1>1, <1>3, <2>3 DEF Positions
    <3>2. QED
      BY <1>1, <2>3, <3>1 DEF IInv, Inside, Positions
  <2>4. QED
    BY <2>1, <2>2, <2>3
<1>9. QED
  BY <1>6, <1>7, <1>8

LEMMA SplitStep ==
  ASSUME IInv, [Next]_vars
  PROVE  Partition' /\ Ordered' /\ Inside'
<1>0. flat' = flat
  BY FlatStep DEF IInv
<1>1. CASE FindLeader \/ EndLeaders
  <2>1. blocks' = <<>> /\ pc = "leaders" /\ pc' \in {"leaders", "split"}
    BY <1>1 DEF FindLeader, EndLeaders, IInv, Bounds
  <2>2. Blocks' = {}
    BY <2>1 DEF Blocks
  <2>3. QED
    BY <2>1, <2>2 DEF Partition, Ordered, Inside
<1>2. CASE OpenBlock
  BY <1>2, OpenBlockSplits
<1>3. CASE ExtendBlock
  BY <1>3, ExtendBlockSplits
<1>4. CASE EndSplit
  <2>1. blocks' = blocks /\ leaders' = leaders /\ pc = "split" /\ pc' = "edges"
        /\ i = Len(flat) + 1 /\ Len(flat) \in Nat /\ (blocks = <<>> <=> i = 1)
    BY <1>4, FlatFacts DEF EndSplit, IInv, Bounds, TypeOK
  <2>2. blocks = <<>> <=> flat = <<>>
    <3>1. flat = <<>> <=> Len(flat) = 0
      BY DEF IInv, FlatOK
    <3>2. QED
      BY <2>1, <3>1
  <2>3. QED
    BY <1>0, <2>1, <2>2 DEF IInv, Partition, Ordered, Inside, Blocks, Positions, First
<1>5. CASE ConnectBlock \/ EndEdges \/ ReverseEdges \/ Install
  <2>1. blocks' = blocks /\ leaders' = leaders
        /\ pc \notin {"leaders", "split"} /\ pc' \notin {"leaders", "split"}
    BY <1>5 DEF ConnectBlock, EndEdges, ReverseEdges, Install
  <2>2. QED
    BY <1>0, <2>1 DEF IInv, Partition, Ordered, Inside, Blocks, Positions, First
<1>6. CASE UNCHANGED vars
  BY <1>6 DEF vars, IInv, Partition, Ordered, Inside, Blocks, Positions, First
<1>7. QED
  BY <1>1, <1>2, <1>3, <1>4, <1>5, <1>6 DEF Next, Step

LEMMA ConnectedStep ==
  ASSUME IInv, [Next]_vars
  PROVE  Connected'
<1>0. flat' = flat /\ Connected /\ Bounds /\ Len(blocks) \in Nat
      /\ successors \in Seq(SUBSET Address)
  BY FlatStep, BlockFacts DEF IInv, TypeOK
<1>1. CASE pc \in {"leaders", "split"}
  <2>1. successors = <<>> /\ successors' = successors
    BY <1>0, <1>1 DEF Next, Step, FindLeader, EndLeaders, OpenBlock, ExtendBlock, EndSplit,
                      ConnectBlock, EndEdges, ReverseEdges, Install, Done, vars, Bounds
  <2>2. QED
    BY <2>1 DEF Connected
<1>2. CASE pc \notin {"leaders", "split"}
  <2>1. blocks' = blocks
    BY <1>2 DEF Next, Step, FindLeader, EndLeaders, OpenBlock, ExtendBlock, EndSplit,
                ConnectBlock, EndEdges, ReverseEdges, Install, vars
  <2>2. \A b : EdgesOf(b)' = EdgesOf(b)
    BY <1>0, <2>1 DEF EdgesOf, Last, Starts
  <2>3. CASE ConnectBlock
    <3>1. /\ i = Len(successors) + 1 /\ i \in Blocks
          /\ successors' = Append(successors, EdgesOf(i))
      BY <1>0, <2>3 DEF ConnectBlock, Bounds, Blocks, IInv, TypeOK
    <3>2. ASSUME NEW b \in 1 .. Len(successors')
          PROVE  b \in Blocks /\ successors'[b] = EdgesOf(b)
      <4>1. EdgesOf(i) \in SUBSET Address
        BY <1>0, <3>1, BlockFacts DEF EdgesOf, Starts, Blocks, IInv
      <4> DEFINE e == EdgesOf(i)
      <4> HIDE DEF e
      <4>2. CASE b = i
        BY <1>0, <3>1, <4>1, <4>2 DEF e
      <4>3. CASE b # i
        <5>1. /\ Len(Append(successors, e)) = Len(successors) + 1
              /\ \A c \in 1 .. Len(successors) : Append(successors, e)[c] = successors[c]
          BY <1>0, <4>1 DEF e
        <5>2. b \in 1 .. Len(successors) /\ successors'[b] = successors[b]
          BY <1>0, <3>1, <4>3, <5>1 DEF e
        <5>3. QED
          BY <1>0, <5>2 DEF Connected
      <4>4. QED
        BY <4>2, <4>3
    <3>3. QED
      BY <2>1, <2>2, <3>2 DEF Connected, Blocks
  <2>4. CASE ~ ConnectBlock
    <3>1. successors' = successors
      BY <1>2, <2>4 DEF Next, Step, FindLeader, EndLeaders, OpenBlock, ExtendBlock,
                        EndSplit, EndEdges, ReverseEdges, Install, vars
    <3>2. QED
      BY <1>0, <2>1, <2>2, <3>1 DEF Connected, Blocks
  <2>5. QED
    BY <2>3, <2>4
<1>3. QED
  BY <1>1, <1>2

LEMMA ReversedStep ==
  ASSUME IInv, [Next]_vars
  PROVE  Reversed'
<1>0. flat' = flat /\ Reversed /\ Bounds /\ Len(blocks) \in Nat /\ i \in Nat \ {0}
  BY FlatStep, BlockFacts DEF IInv, TypeOK
<1>1. CASE EndEdges
  <2>1. /\ blocks' = blocks /\ pc' = "reverse" /\ i' = 1
        /\ \A b \in Blocks : predecessors'[b] = {}
    BY <1>1 DEF EndEdges, Blocks
  <2>2. QED
    BY <1>0, <2>1 DEF Reversed, Blocks
<1>2. CASE ReverseEdges
  <2>1. /\ blocks' = blocks /\ successors' = successors
        /\ pc = "reverse" /\ pc' = "reverse" /\ i' = i + 1 /\ i \in Blocks
        /\ \A b \in Blocks :
             predecessors'[b] = IF blocks[b].start_address \in successors[i]
                                THEN predecessors[b] \union {blocks[i].start_address}
                                ELSE predecessors[b]
    BY <1>0, <1>2 DEF ReverseEdges, Blocks
  <2>2. \A b \in Blocks : predecessors'[b] \subseteq Starts
    <3>1. \A b \in Blocks : predecessors[b] \subseteq Starts
      BY <1>0, <2>1 DEF Reversed
    <3>2. blocks[i].start_address \in Starts
      BY <2>1 DEF Starts, Blocks
    <3>3. QED
      BY <2>1, <3>1, <3>2
  <2>3. ASSUME NEW b \in Blocks, NEW c \in Blocks
        PROVE  blocks[b].start_address \in predecessors'[c]
                 <=> b < i + 1 /\ blocks[c].start_address \in successors[b]
    <3>1. blocks[b].start_address \in predecessors[c]
            <=> b < i /\ blocks[c].start_address \in successors[b]
      BY <1>0, <2>1 DEF Reversed
    <3>2. blocks[b].start_address = blocks[i].start_address <=> b = i
      BY <2>1, StartsDistinct
    <3>3. b < i + 1 <=> b < i \/ b = i
      BY <1>0 DEF Blocks
    <3>4. CASE b = i
      BY <1>0, <2>1, <3>1, <3>3, <3>4
    <3>5. CASE b # i
      BY <2>1, <3>1, <3>2, <3>3, <3>5
    <3>6. QED
      BY <3>4, <3>5
  <2>4. QED
    BY <1>0, <2>1, <2>2, <2>3 DEF Reversed, Blocks, Starts
<1>3. CASE Install
  <2>1. /\ blocks' = blocks /\ successors' = successors /\ predecessors' = predecessors
        /\ pc = "reverse" /\ pc' = "done" /\ \A b \in Blocks : b < i
    BY <1>0, <1>3 DEF Install, Blocks
  <2>2. QED
    BY <1>0, <2>1 DEF Reversed, Blocks, Starts
<1>4. CASE FindLeader \/ EndLeaders \/ OpenBlock \/ ExtendBlock \/ EndSplit \/ ConnectBlock
  BY <1>4 DEF FindLeader, EndLeaders, OpenBlock, ExtendBlock, EndSplit, ConnectBlock, Reversed
<1>5. CASE UNCHANGED vars
  BY <1>0, <1>5 DEF vars, Reversed, Blocks, Starts
<1>6. QED
  BY <1>1, <1>2, <1>3, <1>4, <1>5 DEF Next, Step

LEMMA IndexStep ==
  ASSUME IInv, [Next]_vars
  PROVE  IndexAgrees'
<1>1. CASE Install
  <2>1. blocks' = blocks /\ index' = IndexOf(blocks)
    BY <1>1 DEF Install
  <2>2. DOMAIN index' = Starts
    BY <2>1 DEF IndexOf, Starts
  <2>3. ASSUME NEW b \in Blocks
        PROVE  index'[blocks[b].start_address] = b
    <3> DEFINE a == blocks[b].start_address
               P(c) == /\ blocks[c].start_address = a
                       /\ \A d \in 1 .. Len(blocks) : blocks[d].start_address = a => d <= c
    <3>1. index'[a] = CHOOSE c \in 1 .. Len(blocks) : P(c)
      BY <2>1 DEF IndexOf, Blocks
    <3>2. P(b)
      BY StartsDistinct DEF Blocks
    <3>3. \A c \in 1 .. Len(blocks) : P(c) => c = b
      BY StartsDistinct DEF Blocks
    <3> HIDE DEF P
    <3>4. QED
      BY <3>1, <3>2, <3>3 DEF Blocks
  <2>4. QED
    BY <2>1, <2>2, <2>3 DEF IndexAgrees, Starts, Blocks
<1>2. CASE UNCHANGED vars
  BY <1>2 DEF vars, IInv, IndexAgrees, Starts, Blocks, Done
<1>3. CASE Step /\ ~ Install
  <2>1. pc' # "done"
    BY <1>3 DEF Step, FindLeader, EndLeaders, OpenBlock, ExtendBlock, EndSplit,
                ConnectBlock, EndEdges, ReverseEdges
  <2>2. QED
    BY <2>1 DEF IndexAgrees, Done
<1>4. QED
  BY <1>1, <1>2, <1>3 DEF Next

LEMMA Invariance == Spec => []IInv
<1>1. Init => IInv
  BY InitStarts, StartInvariant
<1>2. IInv /\ [Next]_vars => IInv'
  BY FlatStep, TypeStep, BoundsStep, ScannedStep, SplitStep, ConnectedStep,
     ReversedStep, IndexStep DEF IInv
<1>3. QED
  BY <1>1, <1>2, PTL DEF Spec

-----------------------------------------------------------------------------
(* Theorems.                                                               *)

(* The builder's variables keep their types.                               *)
THEOREM TypeCorrect == Spec => []TypeOK
<1>1. IInv => TypeOK
  BY DEF IInv
<1>2. QED
  BY <1>1, Invariance, PTL

(* Splitting loses, duplicates and reorders no instruction                 *)
(* (cfg.rs:115-130).                                                       *)
THEOREM BlocksPartition == Spec => []Partition
<1>1. IInv => Partition
  BY DEF IInv
<1>2. QED
  BY <1>1, Invariance, PTL

(* A block is entered only at its first instruction and left only at its   *)
(* last (cfg.rs:63-113).                                                   *)
THEOREM BlocksAreStraight == Spec => []StraightLine
<1>1. IInv => StraightLine
  BY StraightLineFollows
<1>2. QED
  BY <1>1, Invariance, PTL

(* The edges of the graph are the transfers of control of the program      *)
(* (cfg.rs:136-191).                                                       *)
THEOREM EdgesCorrect == Spec => []EdgesAreFlow
<1>1. IInv => EdgesAreFlow
  BY EdgesFollow
<1>2. QED
  BY <1>1, Invariance, PTL

(* Predecessors are the reverse of successors, and both are blocks of the  *)
(* function: what module Dataflow assumes of its graphs (cfg.rs:197-214).  *)
THEOREM EdgesSymmetric == Spec => []Symmetric
<1>1. IInv => Symmetric
  BY SymmetricFollows
<1>2. QED
  BY <1>1, Invariance, PTL

(* Looking up the start of a block yields that block (types.rs:104-124).   *)
THEOREM IndexCorrect == Spec => []IndexAgrees
<1>1. IInv => IndexAgrees
  BY DEF IInv
<1>2. QED
  BY <1>1, Invariance, PTL

-----------------------------------------------------------------------------
(* Building again (module CfgRebuild).                                     *)

(* Natural numbers have least elements.                                    *)
LEMMA LeastElement ==
  ASSUME NEW T \in SUBSET Nat, T # {}
  PROVE  \E x \in T : \A y \in T : x <= y
<1>1. PICK x \in T : \A y \in T : ~ (<<y, x>> \in OpToRel(<, Nat))
  BY NatLessThanWellFounded, WFMin
<1>2. ASSUME NEW y \in T PROVE x <= y
  <2>1. ~ (<<y, x>> \in OpToRel(<, Nat))
    BY <1>1
  <2>2. y < x => <<y, x>> \in OpToRel(<, Nat)
    BY DEF OpToRel
  <2>3. ~ (y < x)
    BY <2>1, <2>2, Zenon
  <2>4. QED
    BY <2>3
<1>3. QED
  BY <1>2

(* A set that holds 1, and with each number below n the next, holds all    *)
(* numbers up to n.                                                        *)
LEMMA InductionUpTo ==
  ASSUME NEW n \in Nat, NEW T, n > 0 => 1 \in T,
         \A m \in 1 .. n : m < n /\ m \in T => m + 1 \in T
  PROVE  1 .. n \subseteq T
<1> SUFFICES ASSUME (1 .. n) \ T # {} PROVE FALSE
  OBVIOUS
<1>1. PICK m \in (1 .. n) \ T : \A k \in (1 .. n) \ T : m <= k
  <2>1. (1 .. n) \ T \in SUBSET Nat
    OBVIOUS
  <2>2. QED
    BY <2>1, LeastElement
<1>2. m # 1 /\ m - 1 \in 1 .. n /\ m - 1 < n /\ (m - 1) + 1 = m
  BY <1>1
<1>3. m - 1 \in T
  BY <1>1, <1>2
<1>4. QED
  BY <1>1, <1>2, <1>3

LEMMA SeqIsFunction ==
  ASSUME NEW S, NEW s \in Seq(S)
  PROVE  s = [j \in 1 .. Len(s) |-> s[j]]
  OBVIOUS

(* Concatenation, position by position.                                    *)
LEMMA ConcatMeans ==
  ASSUME NEW S, NEW p \in Seq(S), NEW q \in Seq(S)
  PROVE  p \o q = [j \in 1 .. Len(p) + Len(q) |->
                     IF j <= Len(p) THEN p[j] ELSE q[j - Len(p)]]
<1>1. /\ Len(p) \in Nat /\ Len(q) \in Nat /\ p \o q \in Seq(S)
      /\ Len(p \o q) = Len(p) + Len(q)
  OBVIOUS
<1>2. p \o q = [j \in 1 .. Len(p) + Len(q) |-> (p \o q)[j]]
  <2> DEFINE r == p \o q
  <2> HIDE DEF r
  <2>1. r = [j \in 1 .. Len(r) |-> r[j]]
    BY <1>1, SeqIsFunction DEF r
  <2>2. QED
    BY <1>1, <2>1 DEF r
<1>3. \A j \in 1 .. Len(p) + Len(q) :
        (p \o q)[j] = IF j <= Len(p) THEN p[j] ELSE q[j - Len(p)]
  BY <1>1
<1>4. QED
  BY <1>2, <1>3

(* A sequence that starts with the first element of s and grows by one     *)
(* element of s after the other ends as what FlattenSeq yields.            *)
LEMMA FlattenMeans ==
  ASSUME NEW s, Len(s) \in Nat \ {0}, NEW g,
         g = [b \in 1 .. Len(s) |-> IF b = 1 THEN s[b] ELSE g[b - 1] \o s[b]]
  PROVE  Seqs!FlattenSeq(s) = g[Len(s)]
<1> DEFINE n == Len(s)
           F(f) == [b \in 1 .. n |-> IF b = 1 THEN s[b] ELSE f[b - 1] \o s[b]]
           f == CHOOSE h : h = F(h)
           T == {b \in 1 .. n : f[b] = g[b]}
<1>1. f = F(f)
  BY Zenon
<1>2. Seqs!FlattenSeq(s) = f[n]
  BY DEF Seqs!FlattenSeq
<1> HIDE DEF f
<1>3. 1 \in T
  BY <1>1
<1>4. ASSUME NEW b \in 1 .. n, b < n, b \in T
      PROVE  b + 1 \in T
  <2>1. b + 1 \in 1 .. n /\ b + 1 # 1 /\ (b + 1) - 1 = b
    BY <1>4
  <2>2. f[b + 1] = f[(b + 1) - 1] \o s[b + 1] /\ g[b + 1] = g[(b + 1) - 1] \o s[b + 1]
    BY <1>1, <2>1
  <2>3. QED
    BY <1>4, <2>1, <2>2
<1>5. 1 .. n \subseteq T
  BY <1>3, <1>4, InductionUpTo
<1>6. n \in 1 .. n
  OBVIOUS
<1> HIDE DEF n
<1>7. n \in T
  BY <1>5, <1>6
<1>8. QED
  BY <1>2, <1>7 DEF n

-----------------------------------------------------------------------------
(* The graph is a function of the stream.  The leaders are exactly the     *)
(* entry, the targets and what follows a terminator; the blocks run from   *)
(* one leader to the next.                                                 *)

IsLeader(fl, a) ==
  \/ a = fl[1].address
  \/ \E j \in 1 .. Len(fl) : a \in Targets(fl[j])
  \/ \E j \in 1 .. Len(fl) : /\ IsTerminator(fl[j]) /\ j < Len(fl)
                             /\ a = fl[j + 1].address

Top(bs, b) == bs[b].instructions[1]
EndOf(fl, bs, b) == IF b < Len(bs) THEN Top(bs, b + 1) ELSE Len(fl) + 1

BlockFrom(fl, t, u) ==
  [start_address |-> fl[t].address, instructions |-> [j \in 1 .. u - t |-> t + j - 1]]

(* Block b of bs runs from a leader to the instruction before the next.    *)
RunsToNext(fl, bs, b) ==
  /\ Top(bs, b) \in 1 .. Len(fl) /\ EndOf(fl, bs, b) \in 1 .. Len(fl) + 1
  /\ Top(bs, b) < EndOf(fl, bs, b)
  /\ bs[b] = BlockFrom(fl, Top(bs, b), EndOf(fl, bs, b))
  /\ IsLeader(fl, fl[Top(bs, b)].address)
  /\ \A m \in 1 .. Len(fl) :
       Top(bs, b) < m /\ m < EndOf(fl, bs, b) => ~ IsLeader(fl, fl[m].address)

Split(fl, bs) ==
  /\ Len(fl) \in Nat /\ fl = [j \in 1 .. Len(fl) |-> fl[j]]
  /\ Len(bs) \in Nat /\ bs = [b \in 1 .. Len(bs) |-> bs[b]]
  /\ Len(bs) = 0 <=> Len(fl) = 0
  /\ Len(bs) > 0 => Top(bs, 1) = 1
  /\ \A b \in 1 .. Len(bs) : RunsToNext(fl, bs, b)

(* Two ways to split a stream start their blocks alike...                  *)
LEMMA SplitsAgree ==
  ASSUME NEW fl, NEW bs, NEW cs, Split(fl, bs), Split(fl, cs), Len(bs) <= Len(cs)
  PROVE  \A b \in 1 .. Len(bs) : Top(bs, b) = Top(cs, b)
<1> DEFINE n == Len(bs)
           T == {b \in 1 .. n : Top(bs, b) = Top(cs, b)}
<1>1. n \in Nat /\ Len(cs) \in Nat /\ n <= Len(cs)
  BY DEF Split
<1>2. n > 0 => 1 \in T
  BY <1>1 DEF Split
<1>3. ASSUME NEW b \in 1 .. n, b < n, b \in T
      PROVE  b + 1 \in T
  <2>1. /\ b \in 1 .. Len(bs) /\ b + 1 \in 1 .. Len(bs)
        /\ b \in 1 .. Len(cs) /\ b + 1 \in 1 .. Len(cs) /\ b < Len(cs)
    BY <1>1, <1>3
  <2>2. /\ RunsToNext(fl, bs, b) /\ RunsToNext(fl, bs, b + 1)
        /\ RunsToNext(fl, cs, b) /\ RunsToNext(fl, cs, b + 1)
    BY <2>1 DEF Split
  <2>3. EndOf(fl, bs, b) = Top(bs, b + 1) /\ EndOf(fl, cs, b) = Top(cs, b + 1)
    BY <1>3, <2>1 DEF EndOf
  <2>4. Top(bs, b) = Top(cs, b)
    BY <1>3
  <2>5. /\ Top(bs, b + 1) \in 1 .. Len(fl) /\ IsLeader(fl, fl[Top(bs, b + 1)].address)
        /\ Top(cs, b + 1) \in 1 .. Len(fl) /\ IsLeader(fl, fl[Top(cs, b + 1)].address)
        /\ Top(bs, b) < Top(bs, b + 1) /\ Top(cs, b) < Top(cs, b + 1)
    BY <2>2, <2>3 DEF RunsToNext
  <2>6. /\ \A m \in 1 .. Len(fl) :
             Top(bs, b) < m /\ m < Top(bs, b + 1) => ~ IsLeader(fl, fl[m].address)
        /\ \A m \in 1 .. Len(fl) :
             Top(cs, b) < m /\ m < Top(cs, b + 1) => ~ IsLeader(fl, fl[m].address)
    BY <2>2, <2>3 DEF RunsToNext
  <2>7. ~ (Top(bs, b + 1) < Top(cs, b + 1)) /\ ~ (Top(cs, b + 1) < Top(bs, b + 1))
    BY <2>4, <2>5, <2>6
  <2>8. Top(bs, b + 1) = Top(cs, b + 1)
    BY <1>1, <2>5, <2>7 DEF Split
  <2>9. QED
    BY <2>1, <2>8
<1>4. 1 .. n \subseteq T
  BY <1>1, <1>2, <1>3, InductionUpTo
<1>5. QED
  BY <1>4

(* ... and neither has a block more.                                       *)
LEMMA SplitsAsLong ==
  ASSUME NEW fl, NEW bs, NEW cs, Split(fl, bs), Split(fl, cs), Len(bs) <= Len(cs)
  PROVE  Len(bs) = Len(cs)
<1>0. Len(bs) \in Nat /\ Len(cs) \in Nat
  BY DEF Split
<1> SUFFICES ASSUME Len(bs) < Len(cs) PROVE FALSE
  BY <1>0
<1> DEFINE n == Len(bs)
<1>1. n \in Nat /\ n # 0 /\ Len(cs) \in Nat /\ n < Len(cs) /\ Len(fl) \in Nat
  <2>1. /\ n \in Nat /\ Len(cs) \in Nat /\ Len(fl) \in Nat
        /\ n = 0 <=> Len(fl) = 0
        /\ Len(cs) = 0 <=> Len(fl) = 0
    BY DEF Split
  <2>2. QED
    BY <2>1
<1>2. n \in 1 .. Len(bs) /\ n \in 1 .. Len(cs) /\ n + 1 \in 1 .. Len(cs)
  BY <1>1
<1>3. RunsToNext(fl, bs, n) /\ RunsToNext(fl, cs, n) /\ RunsToNext(fl, cs, n + 1)
  BY <1>2 DEF Split
<1>4. Top(bs, n) = Top(cs, n)
  BY <1>2, SplitsAgree
<1>5. EndOf(fl, bs, n) = Len(fl) + 1 /\ EndOf(fl, cs, n) = Top(cs, n + 1)
  BY <1>1 DEF EndOf
<1>6. /\ Top(cs, n + 1) \in 1 .. Len(fl) /\ IsLeader(fl, fl[Top(cs, n + 1)].address)
      /\ Top(cs, n) < Top(cs, n + 1)
  BY <1>3, <1>5 DEF RunsToNext
<1>7. \A m \in 1 .. Len(fl) :
        Top(bs, n) < m /\ m < Len(fl) + 1 => ~ IsLeader(fl, fl[m].address)
  BY <1>3, <1>5 DEF RunsToNext
<1>8. Top(cs, n + 1) < Len(fl) + 1
  BY <1>1, <1>6
<1>9. QED
  BY <1>4, <1>6, <1>7, <1>8

LEMMA SplitUnique ==
  ASSUME NEW fl, NEW bs, NEW cs, Split(fl, bs), Split(fl, cs)
  PROVE  bs = cs
<1>1. Len(bs) \in Nat /\ Len(cs) \in Nat
  BY DEF Split
<1>2. Len(bs) = Len(cs)
  BY <1>1, SplitsAsLong
<1>3. \A b \in 1 .. Len(bs) : Top(bs, b) = Top(cs, b)
  BY <1>1, <1>2, SplitsAgree
<1>4. ASSUME NEW b \in 1 .. Len(bs)
      PROVE  bs[b] = cs[b]
  <2>1. EndOf(fl, bs, b) = EndOf(fl, cs, b)
    <3>1. CASE b < Len(bs)
      <4>1. b + 1 \in 1 .. Len(bs)
        BY <1>1, <3>1
      <4>2. QED
        BY <1>2, <1>3, <3>1, <4>1 DEF EndOf
    <3>2. CASE ~ (b < Len(bs))
      BY <1>2, <3>2 DEF EndOf
    <3>3. QED
      BY <3>1, <3>2
  <2>2. RunsToNext(fl, bs, b) /\ RunsToNext(fl, cs, b)
    BY <1>2 DEF Split
  <2>3. QED
    BY <1>3, <2>1, <2>2 DEF RunsToNext
<1>5. /\ bs = [b \in 1 .. Len(bs) |-> bs[b]]
      /\ cs = [b \in 1 .. Len(cs) |-> cs[b]]
  BY DEF Split
<1>6. QED
  BY <1>2, <1>4, <1>5

(* Draining the blocks restores the stream.                                *)
LEMMA DrainRestores ==
  ASSUME NEW fl, NEW bs, Split(fl, bs),
         NEW s, s = [b \in 1 .. Len(bs) |->
                       [j \in DOMAIN bs[b].instructions |-> fl[bs[b].instructions[j]]]]
  PROVE  Seqs!FlattenSeq(s) = fl
<1> DEFINE n == Len(bs)
           End(b) == EndOf(fl, bs, b) - 1
           Prefix(m) == [j \in 1 .. m |-> fl[j]]
           g == [b \in 1 .. n |-> Prefix(End(b))]
<1>1. n \in Nat /\ Len(s) = n
  BY DEF Split
<1>2. ASSUME NEW b \in 1 .. n
      PROVE  /\ Top(bs, b) \in 1 .. Len(fl) /\ End(b) \in 1 .. Len(fl) /\ Len(fl) \in Nat
             /\ Top(bs, b) <= End(b)
             /\ s[b] = [j \in 1 .. End(b) + 1 - Top(bs, b) |-> fl[Top(bs, b) + j - 1]]
  <2>1. RunsToNext(fl, bs, b) /\ Len(fl) \in Nat
    BY DEF Split
  <2>2. /\ Top(bs, b) \in 1 .. Len(fl) /\ End(b) \in 1 .. Len(fl)
        /\ Top(bs, b) <= End(b) /\ End(b) + 1 = EndOf(fl, bs, b)
    BY <2>1 DEF RunsToNext
  <2> DEFINE t == Top(bs, b)
             u == EndOf(fl, bs, b)
  <2>3. bs[b].instructions = [j \in 1 .. u - t |-> t + j - 1]
    BY <2>1 DEF RunsToNext, BlockFrom
  <2> HIDE DEF t, u
  <2>4. s[b] = [j \in 1 .. u - t |-> fl[t + j - 1]]
    BY <2>3
  <2>5. QED
    BY <2>1, <2>2, <2>4 DEF t, u
<1>3. ASSUME NEW b \in 1 .. n
      PROVE  Prefix(End(b)) = IF b = 1 THEN s[b] ELSE Prefix(End(b - 1)) \o s[b]
  <2> DEFINE t == Top(bs, b)
             e == End(b)
             d == t - 1
             p == Prefix(d)
             q == [j \in 1 .. e + 1 - t |-> fl[t + j - 1]]
  <2>1. t \in 1 .. Len(fl) /\ e \in 1 .. Len(fl) /\ Len(fl) \in Nat /\ t <= e /\ s[b] = q
    BY <1>2
  <2>2. CASE b = 1
    <3>1. t = 1
      BY <1>1, <2>2 DEF Split
    <3>2. 1 .. e + 1 - t = 1 .. e /\ \A j \in 1 .. e : t + j - 1 = j
      <4> HIDE DEF t, e
      <4> QED
        BY <2>1, <3>1
    <3>3. q = Prefix(e)
      <4> HIDE DEF t, e
      <4> QED
        BY <3>2
    <3>4. QED
      BY <2>1, <2>2, <3>3
  <2>3. CASE b # 1
    <3>1. b - 1 \in 1 .. n /\ b - 1 < n /\ (b - 1) + 1 = b
      BY <1>1, <2>3
    <3>2. End(b - 1) = d
      BY <3>1 DEF EndOf
    <3> HIDE DEF t, e
    <3>3. d \in Nat /\ Len(p) = d /\ Len(q) = e + 1 - t
      BY <2>1
    <3>4. p \o q = [j \in 1 .. Len(p) + Len(q) |->
                      IF j <= Len(p) THEN p[j] ELSE q[j - Len(p)]]
      <4> DEFINE S == {fl[j] : j \in 1 .. Len(fl)}
                 c == e + 1 - t
      <4>1. d \in Nat /\ c \in Nat
        BY <2>1
      <4>2. p \in [1 .. d -> S]
        BY <2>1
      <4>3. q \in [1 .. c -> S]
        <5>1. \A j \in 1 .. c : t + j - 1 \in 1 .. Len(fl)
          BY <2>1
        <5>2. q = [j \in 1 .. c |-> fl[t + j - 1]]
          OBVIOUS
        <5> HIDE DEF q, c
        <5>3. QED
          BY <5>1, <5>2
      <4> HIDE DEF p, q, S, c, d
      <4>4. p \in Seq(S) /\ q \in Seq(S)
        BY <4>1, <4>2, <4>3, FunctionIsSeq
      <4>5. QED
        BY <4>4, ConcatMeans
    <3>5. Len(p) + Len(q) = e
      BY <2>1, <3>3
    <3>6. ASSUME NEW j \in 1 .. e
          PROVE  (IF j <= Len(p) THEN p[j] ELSE q[j - Len(p)]) = fl[j]
      BY <2>1, <3>3, SMTT(30)
    <3>7. p \o q = Prefix(e)
      BY <3>4, <3>5, <3>6
    <3>8. QED
      BY <2>1, <2>3, <3>2, <3>7 DEF e
  <2>4. QED
    BY <2>2, <2>3
<1> HIDE DEF Prefix, End
<1>4. g = [b \in 1 .. Len(s) |-> IF b = 1 THEN s[b] ELSE g[b - 1] \o s[b]]
  <2>1. ASSUME NEW b \in 1 .. n
        PROVE  g[b] = IF b = 1 THEN s[b] ELSE g[b - 1] \o s[b]
    <3>1. b # 1 => b - 1 \in 1 .. n
      BY <1>1
    <3>2. g[b] = Prefix(End(b)) /\ (b # 1 => g[b - 1] = Prefix(End(b - 1)))
      BY <3>1
    <3>3. QED
      BY <1>3, <3>2
  <2> HIDE DEF n
  <2>2. g = [b \in 1 .. n |-> g[b]]
    OBVIOUS
  <2> HIDE DEF g
  <2>3. QED
    BY <1>1, <2>1, <2>2
<1>5. CASE n = 0
  <2>1. Len(s) = 0 /\ Len(fl) = 0 /\ fl = [j \in 1 .. 0 |-> fl[j]]
    BY <1>1, <1>5 DEF Split
  <2>2. Seqs!FlattenSeq(s) = s
    BY <2>1 DEF Seqs!FlattenSeq
  <2>3. 1 .. 0 = {}
    OBVIOUS
  <2>4. s = fl
    BY <1>5, <2>1, <2>3
  <2>5. QED
    BY <2>2, <2>4
<1>6. CASE n # 0
  <2>1. n \in 1 .. n /\ Len(s) \in Nat \ {0}
    BY <1>1, <1>6
  <2> HIDE DEF g
  <2>2. Seqs!FlattenSeq(s) = g[n]
    BY <1>1, <1>4, <2>1, FlattenMeans
  <2>3. End(n) = Len(fl)
    BY <1>1 DEF End, EndOf, Split
  <2>4. g[n] = Prefix(Len(fl))
    BY <2>1, <2>3 DEF g
  <2>5. QED
    BY <2>2, <2>4 DEF Prefix, Split
<1>7. QED
  BY <1>5, <1>6

-----------------------------------------------------------------------------
(* What else holds in every state of a build: there is no leader without a *)
(* reason, blocks start at leaders, and the index is that of the blocks.   *)

Justified ==
  /\ \A a \in leaders : IsLeader(flat, a)
  /\ flat # <<>> => flat[1].address \in leaders

Opened == \A b \in Blocks : blocks[b].start_address \in leaders

Indexed == Done => index = IndexOf(blocks)

BuildInv == IInv /\ Justified /\ Opened /\ Indexed

LEMMA StartsBuild ==
  ASSUME Starting
  PROVE  BuildInv
<1>1. IInv
  BY StartInvariant
<1>2. Len(blocks) = 0 /\ Blocks = {}
  BY DEF Starting, Blocks
<1>3. Justified
  BY DEF Starting, Justified, IsLeader
<1>4. Opened
  BY <1>2 DEF Opened
<1>5. Indexed
  <2> SUFFICES ASSUME Done PROVE index = IndexOf(blocks)
    BY DEF Indexed
  <2>1. index = NoIndex
    BY DEF Starting, Done
  <2>2. {blocks[b].start_address : b \in 1 .. Len(blocks)} = {}
    BY <1>2
  <2>3. QED
    BY <2>1, <2>2 DEF NoIndex, IndexOf
<1>6. QED
  BY <1>1, <1>3, <1>4, <1>5 DEF BuildInv

LEMMA BuildStep ==
  ASSUME BuildInv, [Next]_vars
  PROVE  BuildInv' /\ flat' = flat
<1>0. /\ IInv /\ IInv' /\ flat' = flat /\ Len(flat) \in Nat /\ i \in Nat \ {0}
      /\ Len(blocks) \in Nat
  BY FlatStep, TypeStep, BoundsStep, ScannedStep, SplitStep, ConnectedStep,
     ReversedStep, IndexStep, FlatFacts, BlockFacts DEF BuildInv, IInv, TypeOK
<1>1. leaders' = leaders \/ FindLeader
  BY DEF Next, Step, EndLeaders, OpenBlock, ExtendBlock, EndSplit, ConnectBlock,
         EndEdges, ReverseEdges, Install, vars
<1>2. Justified'
  <2>1. CASE leaders' = leaders
    BY <1>0, <2>1 DEF BuildInv, Justified
  <2>2. CASE FindLeader
    <3>1. /\ i \in 1 .. Len(flat)
          /\ leaders' = leaders \union Targets(flat[i])
               \union (IF IsTerminator(flat[i]) /\ i < Len(flat)
                       THEN {flat[i + 1].address} ELSE {})
      BY <1>0, <2>2 DEF FindLeader
    <3>2. ASSUME NEW a \in leaders'
          PROVE  IsLeader(flat, a)
      <4>1. CASE a \in leaders
        BY <4>1 DEF BuildInv, Justified
      <4>2. CASE a \in Targets(flat[i])
        BY <3>1, <4>2 DEF IsLeader
      <4>3. CASE IsTerminator(flat[i]) /\ i < Len(flat) /\ a = flat[i + 1].address
        BY <3>1, <4>3 DEF IsLeader
      <4>4. QED
        BY <3>1, <4>1, <4>2, <4>3
    <3>3. flat # <<>> => flat[1].address \in leaders'
      BY <3>1 DEF BuildInv, Justified
    <3>4. QED
      BY <1>0, <3>2, <3>3 DEF Justified
  <2>3. QED
    BY <1>1, <2>1, <2>2
<1>3. Opened'
  <2>1. CASE FindLeader
    <3>1. Len(blocks') = 0
      BY <1>0, <2>1 DEF FindLeader, IInv, Bounds
    <3>2. QED
      BY <3>1 DEF Opened, Blocks
  <2>2. CASE OpenBlock
    <3>1. /\ Len(blocks') = Len(blocks) + 1
          /\ \A b \in Blocks : blocks'[b] = blocks[b]
          /\ blocks'[Len(blocks) + 1].start_address = flat[i].address
      BY <1>0, <2>2, OpenBlockMeans
    <3>2. leaders' = leaders /\ flat[i].address \in leaders
      <4>1. CASE blocks = <<>>
        <5>1. i = 1 /\ flat # <<>>
          BY <1>0, <2>2, <4>1 DEF OpenBlock, IInv, Bounds
        <5>2. QED
          BY <2>2, <5>1 DEF OpenBlock, BuildInv, Justified
      <4>2. CASE blocks # <<>>
        BY <2>2, <4>2 DEF OpenBlock
      <4>3. QED
        BY <4>1, <4>2
    <3>3. QED
      BY <1>0, <3>1, <3>2 DEF BuildInv, Opened, Blocks
  <2>3. CASE ExtendBlock
    <3>1. /\ Len(blocks') = Len(blocks) /\ leaders' = leaders
          /\ \A b \in Blocks : blocks'[b].start_address = blocks[b].start_address
      BY <1>0, <2>3, ExtendBlockMeans DEF ExtendBlock
    <3>2. QED
      BY <3>1 DEF BuildInv, Opened, Blocks
  <2>4. CASE ~ (FindLeader \/ OpenBlock \/ ExtendBlock)
    <3>1. blocks' = blocks /\ leaders' = leaders
      BY <2>4 DEF Next, Step, EndLeaders, EndSplit, ConnectBlock, EndEdges,
                  ReverseEdges, Install, vars
    <3>2. QED
      BY <3>1 DEF BuildInv, Opened, Blocks
  <2>5. QED
    BY <2>1, <2>2, <2>3, <2>4
<1>4. Indexed'
  <2>1. CASE Install
    BY <2>1 DEF Install, Indexed, IndexOf
  <2>2. CASE Step /\ ~ Install
    BY <2>2 DEF Step, FindLeader, EndLeaders, OpenBlock, ExtendBlock, EndSplit,
                ConnectBlock, EndEdges, ReverseEdges, Indexed, Done
  <2>3. CASE UNCHANGED vars
    BY <2>3 DEF vars, BuildInv, Indexed, Done, IndexOf
  <2>4. QED
    BY <2>1, <2>2, <2>3 DEF Next
<1>5. QED
  BY <1>0, <1>2, <1>3, <1>4 DEF BuildInv

-----------------------------------------------------------------------------
(* A finished build, as a relation between the stream and the graph.       *)

StartsOf(bs) == {bs[b].start_address : b \in 1 .. Len(bs)}

EdgesIn(fl, bs, b) ==
  LET last == fl[bs[b].instructions[Len(bs[b].instructions)]]
  IN  (Targets(last) \intersect StartsOf(bs))
        \union (IF FallsThrough(last) /\ b < Len(bs)
                THEN {bs[b + 1].start_address} ELSE {})

Graph(fl, bs, ss, ps, ix) ==
  /\ Split(fl, bs)
  /\ ss = [b \in 1 .. Len(bs) |-> EdgesIn(fl, bs, b)]
  /\ ps = [c \in 1 .. Len(bs) |->
             {a \in StartsOf(bs) : \E b \in 1 .. Len(bs) :
                a = bs[b].start_address /\ bs[c].start_address \in ss[b]}]
  /\ ix = IndexOf(bs)

LEMMA GraphUnique ==
  ASSUME NEW fl, NEW bs, NEW ss, NEW ps, NEW ix, NEW cs, NEW ts, NEW qs, NEW jx,
         Graph(fl, bs, ss, ps, ix), Graph(fl, cs, ts, qs, jx)
  PROVE  bs = cs /\ ss = ts /\ ps = qs /\ ix = jx
<1>1. bs = cs
  BY SplitUnique DEF Graph
<1>2. ss = ts /\ ix = jx
  BY <1>1 DEF Graph
<1>3. ps = qs
  BY <1>1, <1>2 DEF Graph
<1>4. QED
  BY <1>1, <1>2, <1>3

(* The leaders are all found once the scan has ended.                      *)
LEMMA LeadersFound ==
  ASSUME BuildInv, pc # "leaders", flat # <<>>, NEW a, IsLeader(flat, a)
  PROVE  a \in leaders
<1>1. \A j \in 1 .. Len(flat) : LeadersOf(j)
  BY DEF BuildInv, IInv, Scanned
<1>2. CASE a = flat[1].address
  BY <1>2 DEF BuildInv, Justified
<1>3. CASE \E j \in 1 .. Len(flat) : a \in Targets(flat[j])
  BY <1>1, <1>3 DEF LeadersOf
<1>4. CASE \E j \in 1 .. Len(flat) : /\ IsTerminator(flat[j]) /\ j < Len(flat)
                                     /\ a = flat[j + 1].address
  BY <1>1, <1>4 DEF LeadersOf
<1>5. QED
  BY <1>2, <1>3, <1>4 DEF IsLeader

LEMMA BlockRuns ==
  ASSUME BuildInv, pc \notin {"leaders", "split"}, NEW b \in Blocks
  PROVE  RunsToNext(flat, blocks, b)
<1> DEFINE s == blocks[b].instructions
           t == Top(blocks, b)
           u == EndOf(flat, blocks, b)
           n == Len(s)
<1>0. IInv /\ Len(flat) \in Nat
  BY FlatFacts DEF BuildInv, IInv
<1>1. /\ s \in Seq(1 .. Len(flat)) /\ n \in Nat /\ n \in Positions(b)
      /\ t \in 1 .. Len(flat) /\ s[n] \in 1 .. Len(flat)
  BY <1>0, BlockFacts, BlockEnds DEF IInv, First, Top
<1>2. /\ \A j \in 1 .. n : s[j] = t + j - 1
      /\ t + n = u
      /\ blocks[b].start_address = flat[t].address
  BY <1>0 DEF IInv, Partition, Positions, Top, EndOf
<1>3. blocks[b] = [start_address |-> blocks[b].start_address, instructions |-> s]
  <2> DEFINE T == [start_address : Address, instructions : Seq(1 .. Len(flat))]
  <2>1. blocks \in Seq(T)
    BY <1>0 DEF IInv, TypeOK
  <2> HIDE DEF T
  <2>2. blocks[b] \in T
    BY <2>1 DEF Blocks
  <2>3. QED
    BY <2>2 DEF T
<1>4. IsLeader(flat, flat[t].address)
  BY <1>2 DEF BuildInv, Opened, Justified
<1>5. flat # <<>>
  BY <1>1
<1>6. ASSUME NEW j \in 1 .. n, j > 1
      PROVE  ~ IsLeader(flat, flat[s[j]].address)
  BY <1>0, <1>5, <1>6, LeadersFound DEF IInv, Inside, Positions
<1>7. n \in 1 .. n
  BY <1>1 DEF Positions
<1>8. s = [j \in 1 .. n |-> s[j]]
  <2> HIDE DEF s
  <2>1. QED
    BY <1>1, SeqIsFunction DEF n
<1> HIDE DEF s, t, u, n
<1>9. /\ u \in 1 .. Len(flat) + 1 /\ t < u /\ u - t = n
  BY <1>0, <1>1, <1>2, <1>7, SMTT(30)
<1>10. s = [j \in 1 .. u - t |-> t + j - 1]
  BY <1>2, <1>8, <1>9
<1>11. blocks[b] = BlockFrom(flat, t, u)
  BY <1>2, <1>3, <1>10 DEF BlockFrom
<1>12. ASSUME NEW m \in 1 .. Len(flat), t < m, m < u
       PROVE  ~ IsLeader(flat, flat[m].address)
  <2>1. (m - t) + 1 \in 1 .. n /\ (m - t) + 1 > 1 /\ t + ((m - t) + 1) - 1 = m
    BY <1>1, <1>9, <1>12
  <2>2. s[(m - t) + 1] = m
    BY <1>2, <2>1
  <2>3. QED
    BY <1>6, <2>1, <2>2
<1>13. QED
  BY <1>1, <1>4, <1>9, <1>11, <1>12 DEF RunsToNext, t, u

LEMMA SplitFollows ==
  ASSUME BuildInv, pc \notin {"leaders", "split"}
  PROVE  Split(flat, blocks)
<1>1. IInv /\ Len(flat) \in Nat /\ Len(blocks) \in Nat
  BY FlatFacts, BlockFacts DEF BuildInv, IInv
<1>2. flat = [j \in 1 .. Len(flat) |-> flat[j]]
  <2>1. flat \in Seq(Elements(flat))
    BY <1>1 DEF IInv, FlatOK
  <2>2. QED
    BY <2>1, SeqIsFunction
<1>3. blocks = [b \in 1 .. Len(blocks) |-> blocks[b]]
  <2> DEFINE T == [start_address : Address, instructions : Seq(1 .. Len(flat))]
  <2>1. blocks \in Seq(T)
    BY <1>1 DEF IInv, TypeOK
  <2> HIDE DEF T
  <2>2. QED
    BY <2>1, SeqIsFunction
<1>4. Len(blocks) = 0 <=> Len(flat) = 0
  <2>1. blocks = <<>> <=> Len(blocks) = 0
    BY <1>1 DEF IInv, TypeOK
  <2>2. flat = <<>> <=> Len(flat) = 0
    BY <1>1 DEF IInv, FlatOK
  <2>3. QED
    BY <1>1, <2>1, <2>2 DEF IInv, Partition, Done
<1>5. Len(blocks) > 0 => Top(blocks, 1) = 1
  BY <1>1 DEF IInv, Partition, Top
<1>6. \A b \in 1 .. Len(blocks) : RunsToNext(flat, blocks, b)
  BY BlockRuns DEF Blocks
<1>7. QED
  BY <1>1, <1>2, <1>3, <1>4, <1>5, <1>6 DEF Split

(* Block c is where control goes from the end of block b.                  *)
Follows(b, c) ==
  \/ blocks[c].start_address \in Targets(Last(blocks[b]))
  \/ c = b + 1 /\ FallsThrough(Last(blocks[b]))

BlocksAreSequences ==
  /\ Len(blocks) \in Nat /\ DOMAIN blocks = Blocks
  /\ Len(successors) = Len(blocks) /\ Len(predecessors) = Len(blocks)
  /\ \A b \in Blocks :
       /\ Len(blocks[b].instructions) \in Nat \ {0}
       /\ DOMAIN blocks[b].instructions = Positions(b)
       /\ \A j \in Positions(b) : blocks[b].instructions[j] \in 1 .. Len(flat)

(* What the builder leaves.                                                *)
Finished ==
  /\ BlocksAreSequences
  /\ \A b, c \in Blocks :
       /\ blocks[c].start_address \in successors[b] <=> Follows(b, c)
       /\ blocks[b].start_address \in predecessors[c] <=> Follows(b, c)
  /\ blocks # <<>> => 1 \in Blocks /\ blocks[1].start_address = flat[1].address
  /\ \A s : s = [b \in Blocks |->
                   [j \in DOMAIN blocks[b].instructions |-> flat[blocks[b].instructions[j]]]]
              => Seqs!FlattenSeq(s) = flat

LEMMA FinishedFollows ==
  ASSUME BuildInv, Done
  PROVE  Finished
<1>1. IInv /\ pc = "done" /\ Len(blocks) \in Nat /\ Symmetric
  BY BlockFacts, SymmetricFollows DEF BuildInv, IInv, Done
<1>2. Len(successors) = Len(blocks) /\ Len(predecessors) = Len(blocks)
  BY <1>1 DEF IInv, Bounds
<1>3. DOMAIN blocks = Blocks
  BY <1>1 DEF IInv, TypeOK, Blocks
<1>4. ASSUME NEW b \in Blocks
      PROVE  /\ Len(blocks[b].instructions) \in Nat \ {0}
             /\ DOMAIN blocks[b].instructions = Positions(b)
             /\ \A j \in Positions(b) : blocks[b].instructions[j] \in 1 .. Len(flat)
  <2>1. blocks[b].instructions \in Seq(1 .. Len(flat))
    BY <1>1, BlockFacts DEF IInv
  <2>2. 1 \in Positions(b)
    BY <1>1, BlockEnds DEF IInv
  <2> QED
    BY <1>1, <2>1, <2>2, BlockFacts DEF Positions, IInv
<1>5. BlocksAreSequences
  BY <1>1, <1>2, <1>3, <1>4 DEF BlocksAreSequences
<1>6. ASSUME NEW b \in Blocks, NEW c \in Blocks
      PROVE  blocks[c].start_address \in successors[b] <=> Follows(b, c)
  <2>1. successors[b] = EdgesOf(b)
    BY <1>1, <1>2 DEF IInv, Connected, Blocks
  <2>2. blocks[c].start_address \in Starts
    BY DEF Starts, Blocks
  <2>3. b < Len(blocks) => b + 1 \in Blocks
    BY <1>1 DEF Blocks
  <2>4. b < Len(blocks) => (blocks[c].start_address = blocks[b + 1].start_address <=> c = b + 1)
    BY <1>1, <2>3, StartsDistinct
  <2>5. c = b + 1 => b < Len(blocks)
    BY <1>1 DEF Blocks
  <2> QED
    BY <2>1, <2>2, <2>4, <2>5 DEF EdgesOf, Follows
<1>7. blocks # <<>> => 1 \in Blocks /\ blocks[1].start_address = flat[1].address
  <2>1. blocks # <<>> => 1 \in Blocks
    BY <1>1, <1>3 DEF Blocks, IInv, TypeOK
  <2> QED
    BY <1>1, <2>1 DEF IInv, Partition
<1>8. ASSUME NEW s, s = [b \in Blocks |->
                          [j \in DOMAIN blocks[b].instructions |-> flat[blocks[b].instructions[j]]]]
      PROVE  Seqs!FlattenSeq(s) = flat
  <2>1. Split(flat, blocks)
    BY <1>1, SplitFollows
  <2> QED
    BY <1>8, <2>1, DrainRestores DEF Blocks
<1> QED
  BY <1>1, <1>5, <1>6, <1>7, <1>8 DEF Finished, Symmetric

LEMMA GraphFollows ==
  ASSUME BuildInv, Done
  PROVE  Graph(flat, blocks, successors, predecessors, index)
<1>1. IInv /\ pc = "done" /\ Len(blocks) \in Nat
  BY BlockFacts DEF BuildInv, IInv, Done
<1>2. Split(flat, blocks)
  BY <1>1, SplitFollows
<1>3. /\ successors = [b \in 1 .. Len(successors) |-> successors[b]]
      /\ predecessors = [b \in 1 .. Len(predecessors) |-> predecessors[b]]
  BY <1>1, SeqIsFunction DEF IInv, TypeOK
<1>4. Len(successors) = Len(blocks) /\ Len(predecessors) = Len(blocks)
  BY <1>1 DEF IInv, Bounds
<1>5. \A b \in Blocks : successors[b] = EdgesIn(flat, blocks, b)
  BY <1>1, <1>4 DEF IInv, Connected, Blocks, EdgesOf, EdgesIn, Last, Starts, StartsOf
<1>6. successors = [b \in 1 .. Len(blocks) |-> EdgesIn(flat, blocks, b)]
  BY <1>3, <1>4, <1>5 DEF Blocks
<1>7. ASSUME NEW c \in Blocks
      PROVE  predecessors[c] =
               {a \in StartsOf(blocks) : \E b \in 1 .. Len(blocks) :
                  a = blocks[b].start_address /\ blocks[c].start_address \in successors[b]}
  <2>1. predecessors[c] \subseteq StartsOf(blocks)
    BY <1>1 DEF IInv, Reversed, Starts, StartsOf
  <2>2. \A b \in Blocks : blocks[b].start_address \in predecessors[c]
                            <=> blocks[c].start_address \in successors[b]
    BY <1>1 DEF IInv, Reversed
  <2>3. \A a \in StartsOf(blocks) : \E b \in Blocks : a = blocks[b].start_address
    BY DEF StartsOf, Blocks
  <2>4. QED
    BY <2>1, <2>2, <2>3 DEF Blocks
<1>8. index = IndexOf(blocks)
  BY DEF BuildInv, Indexed
<1>9. QED
  BY <1>2, <1>3, <1>4, <1>6, <1>7, <1>8 DEF Graph, Blocks

-----------------------------------------------------------------------------
(* The two builds.  The first call left a graph of the stream on which the *)
(* second call works.                                                      *)

RebuildInv ==
  /\ BuildInv
  /\ builds \in {1, 2}
  /\ builds = 2 => \E bs, ss, ps, ix : /\ built = <<flat, bs, ss, ps, ix>>
                                       /\ Graph(flat, bs, ss, ps, ix)

LEMMA IdempotentFollows ==
  ASSUME RebuildInv
  PROVE  RebuildIsIdempotent
<1> SUFFICES ASSUME Done, builds = 2 PROVE built = result
  BY DEF RebuildIsIdempotent
<1>1. PICK bs, ss, ps, ix : /\ built = <<flat, bs, ss, ps, ix>>
                            /\ Graph(flat, bs, ss, ps, ix)
  BY DEF RebuildInv
<1>2. Graph(flat, blocks, successors, predecessors, index)
  BY GraphFollows DEF RebuildInv
<1>3. bs = blocks /\ ss = successors /\ ps = predecessors /\ ix = index
  BY <1>1, <1>2, GraphUnique
<1>4. QED
  BY <1>1, <1>3 DEF result

(* The second call starts on the stream of the first, as the first did.    *)
LEMMA RebuildStarts ==
  ASSUME BuildInv, Rebuild
  PROVE  Starting' /\ flat' = flat
<1>1. IInv /\ Graph(flat, blocks, successors, predecessors, index)
  BY GraphFollows DEF Rebuild, BuildInv
<1>2. flat' = flat
  <2> DEFINE s == [b \in DOMAIN blocks |-> Instructions(blocks[b])]
  <2>1. Split(flat, blocks)
    BY <1>1 DEF Graph
  <2>2. DOMAIN blocks = 1 .. Len(blocks)
    BY <2>1 DEF Split
  <2>3. s = [b \in 1 .. Len(blocks) |->
               [j \in DOMAIN blocks[b].instructions |-> flat[blocks[b].instructions[j]]]]
    BY <2>2 DEF Instructions
  <2>4. flat' = Seqs!FlattenSeq(s)
    BY DEF Rebuild
  <2> HIDE DEF s
  <2>5. QED
    BY <2>1, <2>3, <2>4, DrainRestores
<1>3. FlatOK'
  BY <1>1, <1>2 DEF IInv, FlatOK, Stream
<1>4. /\ pc' = IF flat' = <<>> THEN "done" ELSE "leaders"
      /\ i' = 1
      /\ leaders' = IF flat' = <<>> THEN {} ELSE {flat'[1].address}
      /\ blocks' = <<>> /\ successors' = <<>> /\ predecessors' = <<>>
      /\ index' = index
  BY <1>2 DEF Rebuild
<1>5. ASSUME flat = <<>>
      PROVE  index = NoIndex
  <2>1. Len(blocks) = 0 /\ index = IndexOf(blocks)
    BY <1>1, <1>5 DEF Graph, Split
  <2>2. {blocks[b].start_address : b \in 1 .. Len(blocks)} = {}
    BY <2>1
  <2>3. QED
    BY <2>1, <2>2 DEF NoIndex, IndexOf
<1>6. QED
  BY <1>2, <1>3, <1>4, <1>5 DEF Starting

LEMMA RebuildInvariance == RebuildSpec => []RebuildInv
<1>1. RebuildInit => RebuildInv
  BY InitStarts, StartsBuild DEF RebuildInit, RebuildInv
<1>2. RebuildInv /\ [RebuildNext]_<<vars, builds, built>> => RebuildInv'
  <2> SUFFICES ASSUME RebuildInv, [RebuildNext]_<<vars, builds, built>>
               PROVE  RebuildInv'
    OBVIOUS
  <2>1. CASE FirstBuild
    <3>1. BuildInv' /\ flat' = flat
      BY <2>1, BuildStep DEF FirstBuild, Next, RebuildInv
    <3>2. QED
      BY <2>1, <3>1 DEF FirstBuild, RebuildInv
  <2>2. CASE Rebuild
    <3>1. Starting' /\ flat' = flat
      BY <2>2, RebuildStarts DEF RebuildInv
    <3>2. BuildInv'
      BY <3>1, StartsBuild, PTL
    <3>3. Graph(flat, blocks, successors, predecessors, index)
      BY <2>2, GraphFollows DEF Rebuild, RebuildInv
    <3>4. built' = <<flat', blocks, successors, predecessors, index>> /\ builds' = 2
      BY <2>2, <3>1 DEF Rebuild, result
    <3>5. QED
      BY <3>1, <3>2, <3>3, <3>4 DEF RebuildInv
  <2>3. CASE UNCHANGED <<vars, builds, built>>
    <3>1. BuildInv' /\ flat' = flat
      <4>1. UNCHANGED vars
        BY <2>3
      <4>2. QED
        BY <4>1, BuildStep DEF RebuildInv
    <3>2. QED
      BY <2>3, <3>1 DEF RebuildInv
  <2>4. QED
    BY <2>1, <2>2, <2>3 DEF RebuildNext
<1>3. QED
  BY <1>1, <1>2, PTL DEF RebuildSpec

(* Building the graph of a function that has one changes nothing: draining *)
(* the blocks restores the stream, and the stream determines the leaders,  *)
(* the blocks, the edges and the index (cfg.rs:42-61).                     *)
THEOREM BuildingTwiceIsBuildingOnce == RebuildSpec => []RebuildIsIdempotent
<1>1. RebuildInv => RebuildIsIdempotent
  BY IdempotentFollows
<1>2. QED
  BY <1>1, RebuildInvariance, PTL

(* What holds of a first build holds during and after a second one.        *)
THEOREM SecondBuildIsSound ==
  RebuildSpec => [](/\ TypeOK /\ Partition /\ StraightLine
                    /\ EdgesAreFlow /\ Symmetric /\ IndexAgrees)
<1>1. RebuildInv => /\ TypeOK /\ Partition /\ StraightLine
                    /\ EdgesAreFlow /\ Symmetric /\ IndexAgrees
  BY StraightLineFollows, EdgesFollow, SymmetricFollows DEF RebuildInv, BuildInv, IInv
<1>2. QED
  BY <1>1, RebuildInvariance, PTL

-----------------------------------------------------------------------------
(* What the structurer is handed.                                          *)

(* The operations of block b, and the function as the structurer reads it  *)
(* (Pipeline!ControlFlow).                                                 *)
OpsIn(b) == UNION {Elements(flat[m].ops) : m \in Elements(blocks[b].instructions)}

Handed ==
  [entry |-> flat[1].address,
   blocks |-> [a \in Starts |->
     [kind |-> Ending(OpsIn(index[a])).kind, target |-> Ending(OpsIn(index[a])).target,
      successors |-> successors[index[a]]]]]

Structuring ==
  INSTANCE Structurer
    WITH Functions <- {}, fn <- Handed, calls <- <<>>, seen <- {}, in_stack <- {},
         back_edges <- {}, phase <- "search", regions <- <<>>, visited <- {}, ast <- <<>>

TargetsOf(ops) ==
  {op.target.address : op \in {o \in ops : /\ o.op \in {"Branch", "CBranch"}
                                           /\ o.target.kind = "Absolute"}}

(* The end of a block with at most one control transfer.                   *)
LEMMA EndingMeans ==
  ASSUME NEW S, NEW e, e = Ending(S),
         \A p, q \in S : IsControl(p) /\ IsControl(q) => p = q,
         \A op \in S :
           /\ op.op = "CBranch" => op.target \in {Absolute(a) : a \in Address}
           /\ op.op = "Branch" => op.target \in {Indirect} \union {Absolute(a) : a \in Address}
  PROVE  /\ e.kind \in {"cbranch", "branch", "return", "fall"}
         /\ e.kind \in {"cbranch", "branch"} => TargetsOf(S) = {e.target} /\ e.target \in Address
         /\ e.kind \in {"return", "fall"} => TargetsOf(S) = {}
         /\ e.kind \in {"branch", "return"} => \E op \in S : op.op \in {"Branch", "Return"}
         /\ e.kind = "cbranch" => \A op \in S : op.op \notin {"Branch", "Return"}
<1> DEFINE C == Named(S, "CBranch")
           B == Named(S, "Branch")
           R == Named(S, "Return")
<1>1. ASSUME NEW op \in S, op.op \in {"Branch", "CBranch"}, op.target.kind = "Absolute"
      PROVE  op.target.address \in Address
  <2>1. op.target \in {Indirect} \union {Absolute(a) : a \in Address}
    BY <1>1
  <2> QED
    BY <1>1, <2>1 DEF Indirect, Absolute
<1>2. CASE C # {}
  <2>1. PICK op \in S : op.op = "CBranch"
    BY <1>2 DEF Named
  <2>2. op.target.kind = "Absolute"
    BY <2>1 DEF Absolute
  <2>3. \A o \in S : o.op \in {"Branch", "CBranch", "Return"} => o = op
    BY <2>1 DEF IsControl
  <2>4. C = {op}
    BY <2>1, <2>3 DEF Named
  <2>5. AbsoluteTargets(C) = {op.target.address}
    BY <2>2, <2>4 DEF AbsoluteTargets
  <2>6. TargetsOf(S) = {op.target.address}
    BY <2>1, <2>2, <2>3 DEF TargetsOf
  <2>7. e.kind = "cbranch" /\ e.target = op.target.address
    BY <1>2, <2>5 DEF Ending
  <2> QED
    BY <1>1, <2>1, <2>2, <2>3, <2>6, <2>7
<1>3. CASE C = {} /\ AbsoluteTargets(B) # {}
  <2>1. PICK op \in S : op.op = "Branch" /\ op.target.kind = "Absolute"
    BY <1>3 DEF Named, AbsoluteTargets
  <2>2. \A o \in S : o.op \in {"Branch", "CBranch", "Return"} => o = op
    BY <2>1 DEF IsControl
  <2>3. B = {op}
    BY <2>1, <2>2 DEF Named
  <2>4. AbsoluteTargets(B) = {op.target.address}
    BY <2>1, <2>3 DEF AbsoluteTargets
  <2>5. TargetsOf(S) = {op.target.address}
    BY <2>1, <2>2 DEF TargetsOf
  <2>6. e.kind = "branch" /\ e.target = op.target.address
    BY <1>3, <2>4 DEF Ending
  <2> QED
    BY <1>1, <2>1, <2>5, <2>6
<1>4. CASE C = {} /\ AbsoluteTargets(B) = {}
  <2>1. TargetsOf(S) = {}
    BY <1>4 DEF TargetsOf, AbsoluteTargets, Named
  <2>2. e.kind = IF R # {} THEN "return" ELSE "fall"
    BY <1>4 DEF Ending
  <2>3. R # {} => \E op \in S : op.op = "Return"
    BY DEF Named
  <2> QED
    BY <2>1, <2>2, <2>3
<1> QED
  BY <1>2, <1>3, <1>4

(* Only the last instruction of a block transfers control.                 *)
LEMMA OpsInMeans ==
  ASSUME IInv, NEW b \in Blocks, NEW li, li = Last(blocks[b])
  PROVE  /\ Elements(li.ops) \subseteq OpsIn(b)
         /\ \A op \in OpsIn(b) : IsControl(op) => op \in Elements(li.ops)
         /\ \A p, q \in OpsIn(b) : IsControl(p) /\ IsControl(q) => p = q
         /\ \A op \in OpsIn(b) :
              /\ op.op = "CBranch" => op.target \in {Absolute(a) : a \in Address}
              /\ op.op = "Branch" => op.target \in {Indirect} \union {Absolute(a) : a \in Address}
         /\ Targets(li) = TargetsOf(OpsIn(b))
         /\ FallsThrough(li) <=> \A op \in OpsIn(b) : op.op \notin {"Branch", "Return"}
<1> DEFINE s == blocks[b].instructions
<1>1. PICK n \in Nat \ {0} : n = Len(s) /\ Positions(b) = 1 .. n
  BY BlockEnds, BlockFacts DEF IInv, Positions
<1>2. \A j \in 1 .. n : s[j] \in 1 .. Len(flat)
  BY <1>1, BlockFacts DEF IInv
<1>3. li = flat[s[n]] /\ s[n] \in 1 .. Len(flat)
  BY <1>1, <1>2 DEF Last
<1>4. OpsIn(b) = UNION {Elements(flat[s[j]].ops) : j \in 1 .. n}
  <2>1. Elements(s) = {s[j] : j \in 1 .. n}
    BY <1>1 DEF Elements
  <2> HIDE DEF s
  <2>2. OpsIn(b) = UNION {Elements(flat[m].ops) : m \in Elements(s)}
    BY DEF OpsIn, s
  <2> QED
    BY <2>1, <2>2
<1>5. \A j \in 1 .. n : j < n => ~ IsTerminator(flat[s[j]])
  BY <1>1, StraightLineFollows DEF StraightLine
<1>6. \A op \in Elements(li.ops) : op \in OpsIn(b)
  BY <1>1, <1>3, <1>4
<1>7. ASSUME NEW op \in OpsIn(b), IsControl(op)
      PROVE  op \in Elements(li.ops)
  <2>1. PICK j \in 1 .. n : op \in Elements(flat[s[j]].ops)
    BY <1>4
  <2>2. ~ (j < n)
    BY <1>5, <1>7, <2>1 DEF IsTerminator
  <2>3. j = n
    BY <2>2
  <2> QED
    BY <1>3, <2>1, <2>3
<1>8. \A p, q \in Elements(li.ops) : IsControl(p) /\ IsControl(q) => p = q
  <2>1. li \in Elements(flat)
    BY <1>3 DEF Elements
  <2>2. \A j, m \in 1 .. Len(li.ops) : IsControl(li.ops[j]) /\ IsControl(li.ops[m]) => j = m
    BY <2>1 DEF IInv, FlatOK, Stream
  <2> QED
    BY <2>2 DEF Elements
<1>9. ASSUME NEW op \in OpsIn(b)
      PROVE  /\ op.op = "CBranch" => op.target \in {Absolute(a) : a \in Address}
             /\ op.op = "Branch" => op.target \in {Indirect} \union {Absolute(a) : a \in Address}
  <2>1. PICK j \in 1 .. n : op \in Elements(flat[s[j]].ops)
    BY <1>4
  <2>2. flat[s[j]] \in Elements(flat)
    BY <1>2 DEF Elements
  <2> QED
    BY <2>1, <2>2 DEF IInv, FlatOK, Stream, LiftedInstruction
<1>10. Targets(li) = TargetsOf(OpsIn(b))
  BY <1>6, <1>7 DEF Targets, TargetsOf, IsControl
<1>11. FallsThrough(li) <=> \A op \in Elements(li.ops) : op.op \notin {"Branch", "Return"}
  BY <1>3, FallsThroughMeans DEF IInv
<1>12. FallsThrough(li) <=> \A op \in OpsIn(b) : op.op \notin {"Branch", "Return"}
  BY <1>6, <1>7, <1>11 DEF IsControl
<1> QED
  BY <1>6, <1>7, <1>8, <1>9, <1>10, <1>12

(* The blocks of the function begin one behind the other.                  *)
LEMMA StartsAscend ==
  ASSUME IInv, NEW b \in Blocks, NEW c \in Blocks, b < c
  PROVE  blocks[b].start_address < blocks[c].start_address
<1>1. First(b) \in 1 .. Len(flat) /\ First(c) \in 1 .. Len(flat)
  BY BlockEnds DEF IInv
<1>2. First(b) < First(c)
  BY BlockFacts DEF IInv, Ordered, Blocks
<1>3. /\ blocks[b].start_address = flat[First(b)].address
      /\ blocks[c].start_address = flat[First(c)].address
  BY DEF IInv, Partition, First
<1>4. \A j, m \in 1 .. Len(flat) : j < m => flat[j].address < flat[m].address
  BY FlatFacts DEF IInv
<1> QED
  BY <1>1, <1>2, <1>3, <1>4

(* The block behind block b is the next one.                               *)
LEMMA NextIsBehind ==
  ASSUME IInv, NEW l \in Nat, l = Len(blocks), NEW b \in 1 .. l,
         NEW a, a = blocks[b].start_address
  PROVE  {c \in Starts : c > a /\ \A d \in Starts : d > a => c <= d} =
           IF b < l THEN {blocks[b + 1].start_address} ELSE {}
<1>1. /\ Starts = {blocks[m].start_address : m \in 1 .. l} /\ Blocks = 1 .. l
      /\ \A m \in 1 .. l : blocks[m].start_address \in Nat
  BY BlockFacts, AddressAssumption DEF IInv, Starts, Blocks
<1>2. \A m, k \in 1 .. l : m < k => blocks[m].start_address < blocks[k].start_address
  BY <1>1, StartsAscend
<1>3. \A m \in 1 .. l : blocks[m].start_address > a => b < m
  <2> TAKE m \in 1 .. l
  <2>1. m = b \/ m < b \/ b < m
    OBVIOUS
  <2> QED
    BY <1>1, <1>2, <2>1
<1>4. CASE b < l
  <2>1. b + 1 \in 1 .. l /\ b < b + 1 /\ \A m \in 1 .. l : b < m => m = b + 1 \/ b + 1 < m
    BY <1>4
  <2>2. PICK s : s = blocks[b + 1].start_address
    OBVIOUS
  <2>3. s \in Starts /\ s \in Nat /\ s > a
    BY <1>1, <1>2, <2>1, <2>2
  <2>4. \A d \in Starts : d > a => s <= d /\ d \in Nat
    BY <1>1, <1>2, <1>3, <2>1, <2>2
  <2>5. \A c \in Starts : c <= s /\ c > a => c = s
    BY <2>3, <2>4
  <2> QED
    BY <1>4, <2>2, <2>3, <2>4, <2>5
<1>5. CASE ~ (b < l)
  <2>1. \A d \in Starts : ~ (d > a)
    BY <1>1, <1>3, <1>5
  <2> QED
    BY <1>5, <2>1
<1> QED
  BY <1>4, <1>5

(* What BackEdges and Structurer assume of a function.                     *)
Served ==
  Done /\ flat # <<>> => Structuring!Function(Handed) /\ Structuring!Flow(Handed)

LEMMA ServedFollows ==
  ASSUME IInv
  PROVE  Served
<1> SUFFICES ASSUME Done, flat # <<>>
             PROVE  Structuring!Function(Handed) /\ Structuring!Flow(Handed)
  BY DEF Served
<1>1. PICK n \in Nat : n = Len(flat) /\ n # 0
  BY FlatFacts DEF IInv, FlatOK
<1>2. /\ \A j \in 1 .. n : flat[j].address \in Address /\ flat[j].address \in Nat
      /\ \A j, m \in 1 .. n : j < m => flat[j].address < flat[m].address
  BY <1>1, FlatFacts DEF IInv
<1>3. PICK l \in Nat \ {0} : l = Len(blocks) /\ Blocks = 1 .. l
  <2>1. blocks # <<>>
    BY DEF IInv, Partition, Done
  <2> QED
    BY <2>1, BlockFacts DEF IInv, TypeOK, Blocks
<1>4. PICK e : e = flat[1].address
  OBVIOUS
<1>5. \A b \in 1 .. l :
        /\ blocks[b].start_address \in Address /\ blocks[b].start_address \in Nat
        /\ e <= blocks[b].start_address /\ blocks[b].start_address <= flat[n].address
  <2> TAKE b \in 1 .. l
  <2>1. First(b) \in 1 .. n /\ blocks[b].start_address = flat[First(b)].address
    BY <1>1, <1>3, BlockEnds DEF IInv, Partition, First
  <2>2. 1 \in 1 .. n /\ n \in 1 .. n /\ (1 = First(b) \/ 1 < First(b))
        /\ (First(b) = n \/ First(b) < n)
    BY <1>1, <2>1
  <2> QED
    BY <1>2, <1>4, <2>1, <2>2
<1>6. Starts = {blocks[b].start_address : b \in 1 .. l}
  BY <1>3 DEF Starts
<1>7. e \in Starts
  <2>1. 1 \in 1 .. l /\ First(1) = 1
    BY <1>3 DEF IInv, Partition, First
  <2>2. blocks[1].start_address = e
    BY <1>3, <1>4, <2>1 DEF IInv, Partition, First
  <2> QED
    BY <1>6, <2>1, <2>2
<1>8. Starts \subseteq Address /\ IsFiniteSet(Starts)
  <2>1. Starts \in SUBSET Nat /\ \A a \in Starts : a <= flat[n].address
    BY <1>5, <1>6
  <2>2. flat[n].address \in Nat
    BY <1>1, <1>2
  <2>3. IsFiniteSet(Starts)
    BY <2>1, <2>2, FS_BoundedSetOfNaturals
  <2> QED
    BY <1>5, <1>6, <2>3
<1>9. PICK f : f = Handed
  OBVIOUS
<1>10. f.entry = e /\ DOMAIN f.blocks = Starts
  BY <1>4, <1>9 DEF Handed
<1>11. ASSUME NEW a \in Starts
       PROVE  \E b \in 1 .. l :
                /\ a = blocks[b].start_address
                /\ f.blocks[a].kind = Ending(OpsIn(b)).kind
                /\ f.blocks[a].target = Ending(OpsIn(b)).target
                /\ f.blocks[a].successors = EdgesOf(b)
  <2>1. PICK b \in 1 .. l : a = blocks[b].start_address
    BY <1>6
  <2>2. index[a] = b
    BY <1>3, <2>1 DEF IInv, IndexAgrees
  <2>3. successors[b] = EdgesOf(b)
    BY <1>3 DEF IInv, Connected, Bounds, Done
  <2>4. f.blocks[a] = [kind |-> Ending(OpsIn(b)).kind, target |-> Ending(OpsIn(b)).target,
                       successors |-> EdgesOf(b)]
    BY <1>9, <2>2, <2>3 DEF Handed
  <2> QED
    BY <2>1, <2>4
<1>12. ASSUME NEW a \in Starts
       PROVE  LET x == f.blocks[a]
                  others == x.successors \ (IF x.kind \in {"cbranch", "branch"}
                                            THEN {x.target} ELSE {})
              IN  /\ x.successors \subseteq Starts
                  /\ e <= a
                  /\ x.kind \in {"cbranch", "branch", "return", "fall"}
                  /\ x.kind \in {"cbranch", "branch"} =>
                       x.target \in Address /\ (x.target \in Starts => x.target \in x.successors)
                  /\ x.kind = "cbranch" =>
                       others = {c \in Starts : c > a /\ \A d \in Starts : d > a => c <= d}
                                  \ {x.target}
                  /\ x.kind \in {"branch", "return"} => others = {}
                  /\ \A c, d \in others : c = d
  <2>1. PICK b, x, t :
          /\ b \in 1 .. l /\ a = blocks[b].start_address
          /\ x = f.blocks[a] /\ t = Ending(OpsIn(b))
          /\ x.kind = t.kind /\ x.target = t.target /\ x.successors = EdgesOf(b)
    BY <1>11
  <2>2. PICK li : li = Last(blocks[b])
    OBVIOUS
  <2>3. b \in Blocks
    BY <1>3, <2>1
  <2>4. /\ \A p, q \in OpsIn(b) : IsControl(p) /\ IsControl(q) => p = q
        /\ \A op \in OpsIn(b) :
             /\ op.op = "CBranch" => op.target \in {Absolute(c) : c \in Address}
             /\ op.op = "Branch" => op.target \in {Indirect} \union {Absolute(c) : c \in Address}
        /\ Targets(li) = TargetsOf(OpsIn(b))
        /\ FallsThrough(li) <=> \A op \in OpsIn(b) : op.op \notin {"Branch", "Return"}
    BY <2>2, <2>3, OpsInMeans
  <2>5. /\ t.kind \in {"cbranch", "branch", "return", "fall"}
        /\ t.kind \in {"cbranch", "branch"} => Targets(li) = {t.target} /\ t.target \in Address
        /\ t.kind \in {"return", "fall"} => Targets(li) = {}
        /\ t.kind \in {"branch", "return"} => ~ FallsThrough(li)
        /\ t.kind = "cbranch" => FallsThrough(li)
    <3>1. /\ t.kind \in {"cbranch", "branch", "return", "fall"}
          /\ t.kind \in {"cbranch", "branch"} =>
               TargetsOf(OpsIn(b)) = {t.target} /\ t.target \in Address
          /\ t.kind \in {"return", "fall"} => TargetsOf(OpsIn(b)) = {}
          /\ t.kind \in {"branch", "return"} => \E op \in OpsIn(b) : op.op \in {"Branch", "Return"}
          /\ t.kind = "cbranch" => \A op \in OpsIn(b) : op.op \notin {"Branch", "Return"}
      BY <2>1, <2>4, EndingMeans
    <3> QED
      BY <2>4, <3>1
  <2>6. PICK next : next = (IF FallsThrough(li) /\ b < l
                            THEN {blocks[b + 1].start_address} ELSE {})
    OBVIOUS
  <2>7. x.successors = (Targets(li) \intersect Starts) \union next
    BY <1>3, <2>1, <2>2, <2>6 DEF EdgesOf
  <2>8. next \subseteq Starts /\ (\A c, d \in next : c = d) /\ (~ FallsThrough(li) => next = {})
    <3>1. b < l => b + 1 \in 1 .. l
      BY <1>3, <2>1
    <3> QED
      BY <1>6, <2>6, <3>1
  <2>9. PICK behind : behind = {c \in Starts : c > a /\ \A d \in Starts : d > a => c <= d}
    OBVIOUS
  <2>10. x.kind = "cbranch" =>
           next = behind /\ x.successors = ({x.target} \intersect Starts) \union next
    <3>1. behind = IF b < l THEN {blocks[b + 1].start_address} ELSE {}
      BY <1>3, <2>1, <2>9, NextIsBehind, SMTT(30) DEF Blocks
    <3> QED
      BY <2>1, <2>5, <2>6, <2>7, <3>1
  <2>11. x.kind = "cbranch" => x.successors \ {x.target} = behind \ {x.target}
    BY <2>10
  <2>12. /\ x.successors \subseteq Starts /\ e <= a
         /\ x.kind \in {"cbranch", "branch", "return", "fall"}
         /\ x.kind \in {"cbranch", "branch"} =>
              x.target \in Address /\ (x.target \in Starts => x.target \in x.successors)
    BY <1>5, <2>1, <2>5, <2>7, <2>8
  <2>13. LET others == x.successors \ (IF x.kind \in {"cbranch", "branch"}
                                       THEN {x.target} ELSE {})
         IN  /\ x.kind \in {"branch", "return"} => others = {}
             /\ \A c, d \in others : c = d
    BY <2>1, <2>5, <2>7, <2>8
  <2> QED
    BY <2>1, <2>9, <2>11, <2>12, <2>13
<1>13. Structuring!Function(f)
  BY <1>7, <1>8, <1>10, <1>12 DEF Structuring!Function, Structuring!IsFiniteSet, IsFiniteSet
<1>14. Structuring!Flow(f)
  BY <1>10, <1>12 DEF Structuring!Flow, Structuring!Behind
<1> QED
  BY <1>9, <1>13, <1>14

(* The structurer is handed a function as it assumes one: the entry is the *)
(* first block, edges lead to blocks, the block of a branch has an edge to *)
(* the target if that is a block, and one other edge at most, none after a *)
(* jump or a return (structurer.rs:57-159 on what cfg.rs:132-191 leaves).  *)
THEOREM StructurerIsServed == Spec => []Served
<1>1. QED
  BY ServedFollows, Invariance, PTL

=============================================================================
