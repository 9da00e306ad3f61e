-------------------------- MODULE StructurerProofs --------------------------
(***************************************************************************)
(* Proofs about the structurer.  The search for back edges, for every      *)
(* control flow graph: the edges it records lie on loops, and no loop that *)
(* can be entered is left without one.  The descent, for every function    *)
(* with the edges CfgBuilder connects: it visits every block that control  *)
(* can reach, when the function has plain loops, and gives each block that *)
(* it visits one label in the tree.                                        *)
(*                                                                         *)
(* The regions in progress owe the blocks that the visited ones lead to.   *)
(* The one place where a debt is dropped is the end of a body whose        *)
(* conditional waits at a back edge; the body then cannot have come to the *)
(* back edge's target, or there would be a loop without a back edge.       *)
(*                                                                         *)
(* The trees of the regions in progress share out the visited blocks: a    *)
(* turn labels a block that no region holds, and a body that ends hands    *)
(* its blocks to the region that waited for it.  That the nodes of a tree  *)
(* are all found within as many levels as there are blocks is part of the  *)
(* invariant: a tree has no more levels than labels.                       *)
(*                                                                         *)
(* Executing the tree takes the transfers of the function, when each side  *)
(* of a conditional is the only way into its block: a body under           *)
(* construction keeps the transfers of the blocks it has labelled, control *)
(* that comes to its end goes on at the block the region is at, and what a *)
(* conditional waits for no other region takes, since there is no other    *)
(* way there.                                                              *)
(***************************************************************************)
EXTENDS StructuredFlow, FiniteSetTheorems, TLAPS

-----------------------------------------------------------------------------
(* The inductive invariant.                                                *)

(* The blocks whose call has returned.                                     *)
Finished == seen \ in_stack

Recorded(a, c) == <<a, c>> \in back_edges

(* The examined edges of a call in progress: recorded, or finished below,  *)
(* or being searched right now.                                            *)
CallsExamined ==
  \A j \in 1 .. Len(calls) :
    \A c \in Successors(calls[j].addr) \ calls[j].left :
      \/ Recorded(calls[j].addr, c)
      \/ c \in Finished
      \/ j < Len(calls) /\ c = calls[j + 1].addr

(* What a call has yet to examine are successors of its block.             *)
CallsWithin ==
  \A j \in 1 .. Len(calls) : calls[j].left \subseteq Successors(calls[j].addr)

(* The edges of a finished block are recorded or lead to finished blocks.  *)
FinishedClosed ==
  \A a \in Finished : \A c \in Successors(a) : Recorded(a, c) \/ c \in Finished

(* Among finished blocks there is no loop without a recorded edge.         *)
FinishedCut == \A S \in SUBSET Finished : ~ UncutLoop(S)

(* The calls in progress follow a path of the graph.                       *)
CallsOnPath ==
  \A S \in SUBSET Blocks : Closed(S) =>
    \A j, m \in 1 .. Len(calls) :
      j < m /\ calls[j].addr \in S => calls[m].addr \in S

(* Searching starts at the entry and records edges between seen blocks.    *)
SeenBlocks ==
  /\ fn.entry \in seen
  /\ in_stack \subseteq seen
  /\ back_edges \subseteq seen \X seen

IInv ==
  /\ TypeOK /\ StackAgrees
  /\ SeenBlocks /\ CallsWithin /\ CallsExamined /\ FinishedClosed /\ FinishedCut
  /\ CallsOnPath /\ BackEdgesCloseLoops

-----------------------------------------------------------------------------
(* A function on 1 .. n is a sequence of length n.                         *)
LEMMA FunctionIsSeq ==
  ASSUME NEW T, NEW n \in Nat, NEW f \in [1 .. n -> T]
  PROVE  f \in Seq(T) /\ Len(f) = n
  OBVIOUS

(* A sequence without its last element.                                    *)
LEMMA WithoutLast ==
  ASSUME NEW T, NEW s \in Seq(T), Len(s) \in 1 .. Len(s)
  PROVE  LET t == SubSeq(s, 1, Len(s) - 1)
         IN  /\ t \in Seq(T) /\ Len(t) = Len(s) - 1
             /\ \A j \in 1 .. Len(s) - 1 : t[j] = s[j]
<1> DEFINE n == Len(s) - 1
           t == SubSeq(s, 1, n)
<1>1. n \in Nat /\ \A j \in 1 .. n : s[j] \in T
  OBVIOUS
<1>2. t = [j \in 1 .. n |-> s[j]]
  BY <1>1
<1> HIDE DEF t, n
<1>3. t \in [1 .. n -> T]
  BY <1>1, <1>2
<1>4. t \in Seq(T) /\ Len(t) = n /\ \A j \in 1 .. n : t[j] = s[j]
  BY <1>1, <1>2, <1>3, FunctionIsSeq
<1>5. QED
  BY <1>4 DEF t, n

-----------------------------------------------------------------------------
(* The calls after each action.                                            *)

CallType == [addr : Blocks, left : SUBSET Blocks]

LEMMA CallFacts ==
  ASSUME IInv
  PROVE  /\ Len(calls) \in Nat
         /\ calls \in Seq(CallType)
         /\ \A j \in 1 .. Len(calls) : calls[j] \in CallType
         /\ \A j \in 1 .. Len(calls) : /\ calls[j].addr \in Blocks
                                       /\ calls[j].left \subseteq Blocks
         /\ calls # <<>> => Len(calls) \in 1 .. Len(calls)
<1>1. calls \in Seq(CallType)
  BY DEF IInv, TypeOK, CallType
<1>2. Len(calls) \in Nat /\ \A j \in 1 .. Len(calls) : calls[j] \in CallType
  BY <1>1
<1>3. calls # <<>> => Len(calls) \in 1 .. Len(calls)
  BY <1>1
<1>4. QED
  BY <1>1, <1>2, <1>3 DEF CallType

LEMMA SuccessorsType ==
  ASSUME IInv, NEW a \in Blocks
  PROVE  Successors(a) \subseteq Blocks
  BY DEF IInv, TypeOK, Function, Successors, Blocks

(* The loop of the innermost call has examined one more successor.         *)
LEMMA ExaminedMeans ==
  ASSUME IInv, NEW succ, Examine(succ)
  PROVE  LET n == Len(calls)
         IN  /\ n \in 1 .. n
             /\ succ \in calls[n].left /\ succ \in Blocks
             /\ Examined(succ) \in Seq(CallType)
             /\ Len(Examined(succ)) = n
             /\ \A j \in 1 .. n : Examined(succ)[j].addr = calls[j].addr
             /\ \A j \in 1 .. n : j # n => Examined(succ)[j].left = calls[j].left
             /\ Examined(succ)[n].left = calls[n].left \ {succ}
<1> DEFINE n == Len(calls)
           t == [calls[n] EXCEPT !.left = @ \ {succ}]
<1>1. n \in 1 .. n /\ calls \in Seq(CallType) /\ calls[n] \in CallType
  BY CallFacts DEF Examine
<1>2. succ \in calls[n].left /\ succ \in Blocks
  BY <1>1 DEF CallType, Examine, Top
<1>3. t \in CallType /\ t.addr = calls[n].addr /\ t.left = calls[n].left \ {succ}
  BY <1>1 DEF CallType
<1>4. Examined(succ) = [calls EXCEPT ![n] = t]
  BY DEF Examined
<1>5. /\ Examined(succ) \in Seq(CallType) /\ Len(Examined(succ)) = n
      /\ Examined(succ)[n] = t
      /\ \A j \in 1 .. n : j # n => Examined(succ)[j] = calls[j]
  <2> HIDE DEF t
  <2>1. QED
    BY <1>1, <1>3, <1>4
<1>6. QED
  BY <1>1, <1>2, <1>3, <1>5

(* The call of a new successor has begun.                                  *)
LEMMA DescendMeans ==
  ASSUME IInv, NEW succ, Descend(succ)
  PROVE  LET n == Len(calls)
         IN  /\ n \in 1 .. n /\ succ \in calls[n].left /\ succ \in Blocks
             /\ calls' \in Seq(CallType) /\ Len(calls') = n + 1
             /\ \A j \in 1 .. n : calls'[j].addr = calls[j].addr
             /\ \A j \in 1 .. n : j # n => calls'[j].left = calls[j].left
             /\ calls'[n].left = calls[n].left \ {succ}
             /\ calls'[n + 1].addr = succ /\ calls'[n + 1].left = Successors(succ)
<1> DEFINE n == Len(calls)
           e == Examined(succ)
           d == Call(succ)
<1>1. /\ n \in 1 .. n /\ succ \in calls[n].left /\ succ \in Blocks
      /\ e \in Seq(CallType) /\ Len(e) = n
      /\ \A j \in 1 .. n : e[j].addr = calls[j].addr
      /\ \A j \in 1 .. n : j # n => e[j].left = calls[j].left
      /\ e[n].left = calls[n].left \ {succ}
  BY ExaminedMeans DEF Descend
<1>2. d \in CallType /\ d.addr = succ /\ d.left = Successors(succ)
  BY <1>1, SuccessorsType DEF Call, CallType
<1>3. calls' = Append(e, d)
  BY DEF Descend
<1> HIDE DEF e, d
<1>4. /\ calls' \in Seq(CallType) /\ Len(calls') = n + 1
      /\ \A j \in 1 .. n : calls'[j] = e[j]
      /\ calls'[n + 1] = d
  BY <1>1, <1>2, <1>3
<1>5. QED
  BY <1>1, <1>2, <1>4

(* The innermost call has returned.                                        *)
LEMMA LeaveMeans ==
  ASSUME IInv, Leave
  PROVE  LET n == Len(calls)
         IN  /\ n \in 1 .. n /\ calls[n].left = {} /\ calls[n].addr \in Blocks
             /\ calls' \in Seq(CallType) /\ Len(calls') = n - 1
             /\ \A j \in 1 .. n - 1 : calls'[j] = calls[j]
             /\ \A j \in 1 .. n : calls[j].addr = calls[n].addr => j = n
<1> DEFINE n == Len(calls)
<1>1. /\ n \in 1 .. n /\ n \in Nat /\ calls[n].left = {} /\ calls[n].addr \in Blocks
      /\ calls \in Seq(CallType)
  BY CallFacts DEF Leave, Top
<1>2. calls' = SubSeq(calls, 1, n - 1)
  BY DEF Leave
<1>3. /\ calls' \in Seq(CallType) /\ Len(calls') = n - 1
      /\ \A j \in 1 .. n - 1 : calls'[j] = calls[j]
  BY <1>1, <1>2, WithoutLast
<1>4. QED
  BY <1>1, <1>3 DEF IInv, StackAgrees

(* What the two steps that only examine have in common.                    *)
LEMMA OnlyExamined ==
  ASSUME IInv, NEW succ, FindBackEdge(succ) \/ SkipSeen(succ)
  PROVE  LET n == Len(calls)
         IN  /\ fn' = fn /\ seen' = seen /\ in_stack' = in_stack
             /\ n \in 1 .. n /\ succ \in calls[n].left /\ succ \in Blocks
             /\ calls' \in Seq(CallType) /\ Len(calls') = n
             /\ \A j \in 1 .. n : calls'[j].addr = calls[j].addr
             /\ \A j \in 1 .. n : j # n => calls'[j].left = calls[j].left
             /\ calls'[n].left = calls[n].left \ {succ}
             /\ \/ succ \in in_stack /\ back_edges' = back_edges \union {<<calls[n].addr, succ>>}
                \/ succ \in Finished /\ back_edges' = back_edges
  BY ExaminedMeans DEF FindBackEdge, SkipSeen, Top, Finished

-----------------------------------------------------------------------------
(* The invariant holds initially.                                          *)

LEMMA InitInvariant ==
  ASSUME Init
  PROVE  IInv
<1>1. Function(fn) /\ fn.entry \in Blocks
  BY FunctionAssumption DEF Init, Function, Blocks
<1>2. /\ Len(calls) = 1 /\ calls[1] = Call(fn.entry) /\ calls = <<Call(fn.entry)>>
      /\ calls[1].addr = fn.entry /\ calls[1].left = Successors(fn.entry)
  BY DEF Init, Call
<1>3. Call(fn.entry) \in CallType
  BY <1>1 DEF Call, CallType, Function, Successors, Blocks
<1>4. calls \in Seq(CallType)
  <2> HIDE DEF CallType
  <2>1. QED
    BY <1>2, <1>3
<1>5. TypeOK
  BY <1>1, <1>4 DEF Init, TypeOK, CallType
<1>6. StackAgrees
  BY <1>2 DEF Init, StackAgrees
<1>7. SeenBlocks /\ CallsWithin /\ CallsExamined /\ CallsOnPath
  BY <1>2 DEF Init, SeenBlocks, CallsWithin, CallsExamined, CallsOnPath
<1>8. Finished = {} /\ back_edges = {}
  BY DEF Init, Finished
<1>9. FinishedClosed /\ FinishedCut /\ BackEdgesCloseLoops
  BY <1>8 DEF FinishedClosed, FinishedCut, UncutLoop, BackEdgesCloseLoops
<1>10. QED
  BY <1>5, <1>6, <1>7, <1>9 DEF IInv

-----------------------------------------------------------------------------
(* Each action preserves it.                                               *)

(* Recording more edges never restores a loop.                             *)
LEMMA CutStaysCut ==
  ASSUME NEW S, UncutLoop(S)', fn' = fn, back_edges \subseteq back_edges'
  PROVE  UncutLoop(S)
  BY DEF UncutLoop, Successors

LEMMA ExamineStep ==
  ASSUME IInv, NEW succ, FindBackEdge(succ) \/ SkipSeen(succ)
  PROVE  IInv'
<1> DEFINE n == Len(calls)
<1>0. /\ fn' = fn /\ seen' = seen /\ in_stack' = in_stack
      /\ n \in 1 .. n /\ succ \in calls[n].left /\ succ \in Blocks
      /\ calls' \in Seq(CallType) /\ Len(calls') = n
      /\ \A j \in 1 .. n : calls'[j].addr = calls[j].addr
      /\ \A j \in 1 .. n : j # n => calls'[j].left = calls[j].left
      /\ calls'[n].left = calls[n].left \ {succ}
      /\ \/ succ \in in_stack /\ back_edges' = back_edges \union {<<calls[n].addr, succ>>}
         \/ succ \in Finished /\ back_edges' = back_edges
  BY OnlyExamined
<1>1. /\ Blocks' = Blocks /\ CallType' = CallType /\ Finished' = Finished
      /\ \A a : Successors(a)' = Successors(a)
      /\ calls[n].addr \in Blocks /\ calls[n].addr \in in_stack
      /\ back_edges \subseteq back_edges'
  BY <1>0, CallFacts DEF Blocks, CallType, Finished, Successors, IInv, StackAgrees
<1>2. TypeOK'
  <2>1. Function(fn)' /\ seen' \subseteq Blocks /\ in_stack' \subseteq Blocks
    BY <1>0 DEF IInv, TypeOK, Function
  <2>2. back_edges' \subseteq Blocks \X Blocks
    BY <1>0, <1>1 DEF IInv, TypeOK
  <2>3. QED
    BY <1>0, <1>1, <2>1, <2>2 DEF TypeOK, CallType
<1>3. StackAgrees'
  BY <1>0 DEF IInv, StackAgrees
<1>4. SeenBlocks' /\ CallsWithin'
  BY <1>0, <1>1 DEF IInv, SeenBlocks, CallsWithin
<1>5. CallsExamined'
  <2> SUFFICES ASSUME NEW j \in 1 .. n, NEW c \in Successors(calls[j].addr) \ calls'[j].left
               PROVE  \/ <<calls[j].addr, c>> \in back_edges'
                      \/ c \in Finished
                      \/ j < n /\ c = calls[j + 1].addr
    BY <1>0, <1>1 DEF CallsExamined, Recorded
  <2>1. CASE j = n /\ c = succ
    BY <1>0, <2>1
  <2>2. CASE ~ (j = n /\ c = succ)
    <3>1. c \notin calls[j].left
      BY <1>0, <2>2
    <3>2. QED
      BY <1>1, <3>1 DEF IInv, CallsExamined, Recorded
  <2>3. QED
    BY <2>1, <2>2
<1>6. FinishedClosed'
  BY <1>1 DEF IInv, FinishedClosed, Recorded
<1>7. FinishedCut'
  BY <1>0, <1>1, CutStaysCut DEF IInv, FinishedCut
<1>8. CallsOnPath'
  BY <1>0, <1>1 DEF IInv, CallsOnPath, Closed
<1>9. BackEdgesCloseLoops'
  <2> SUFFICES ASSUME NEW e \in back_edges'
               PROVE  /\ e[2] \in Successors(e[1])
                      /\ \A S \in SUBSET Blocks : e[2] \in S /\ Closed(S) => e[1] \in S
    BY <1>1 DEF BackEdgesCloseLoops, Closed
  <2>1. CASE e \in back_edges
    BY <2>1 DEF IInv, BackEdgesCloseLoops
  <2>2. CASE e = <<calls[n].addr, succ>> /\ succ \in in_stack
    <3>1. PICK j \in 1 .. n : calls[j].addr = succ
      BY <2>2 DEF IInv, StackAgrees
    <3>2. \A S \in SUBSET Blocks : succ \in S /\ Closed(S) => calls[n].addr \in S
      BY <1>0, <3>1 DEF IInv, CallsOnPath
    <3>3. succ \in Successors(calls[n].addr)
      BY <1>0 DEF IInv, CallsWithin
    <3>4. QED
      BY <2>2, <3>2, <3>3
  <2>3. QED
    BY <1>0, <2>1, <2>2
<1>10. QED
  BY <1>2, <1>3, <1>4, <1>5, <1>6, <1>7, <1>8, <1>9 DEF IInv

LEMMA DescendStep ==
  ASSUME IInv, NEW succ, Descend(succ)
  PROVE  IInv'
<1> DEFINE n == Len(calls)
<1>0. /\ fn' = fn /\ back_edges' = back_edges
      /\ seen' = seen \union {succ} /\ in_stack' = in_stack \union {succ}
      /\ succ \notin seen /\ succ \notin in_stack
      /\ n \in 1 .. n /\ succ \in calls[n].left /\ succ \in Blocks
      /\ calls' \in Seq(CallType) /\ Len(calls') = n + 1
      /\ \A j \in 1 .. n : calls'[j].addr = calls[j].addr
      /\ \A j \in 1 .. n : j # n => calls'[j].left = calls[j].left
      /\ calls'[n].left = calls[n].left \ {succ}
      /\ calls'[n + 1].addr = succ /\ calls'[n + 1].left = Successors(succ)
  BY DescendMeans DEF Descend
<1>1. /\ Blocks' = Blocks /\ CallType' = CallType /\ Finished' = Finished
      /\ \A a : Successors(a)' = Successors(a)
      /\ n \in Nat /\ \A j \in 1 .. n + 1 : j \in 1 .. n \/ j = n + 1
      /\ succ \in Successors(calls[n].addr)
  BY <1>0 DEF Blocks, CallType, Finished, Successors, IInv, CallsWithin
<1>2. TypeOK'
  <2>1. Function(fn)' /\ seen' \subseteq Blocks /\ in_stack' \subseteq Blocks
        /\ back_edges' \subseteq Blocks \X Blocks
    BY <1>0 DEF IInv, TypeOK, Function
  <2>2. QED
    BY <1>0, <1>1, <2>1 DEF TypeOK, CallType
<1>3. StackAgrees'
  <2>1. in_stack' = {calls'[j].addr : j \in 1 .. n + 1}
    BY <1>0, <1>1 DEF IInv, StackAgrees
  <2>2. \A j \in 1 .. n : calls[j].addr # succ
    BY <1>0 DEF IInv, StackAgrees
  <2>3. \A j, m \in 1 .. n + 1 : calls'[j].addr = calls'[m].addr => j = m
    BY <1>0, <1>1, <2>2 DEF IInv, StackAgrees
  <2>4. QED
    BY <1>0, <2>1, <2>3 DEF StackAgrees
<1>4. SeenBlocks' /\ CallsWithin'
  BY <1>0, <1>1 DEF IInv, SeenBlocks, CallsWithin
<1>5. CallsExamined'
  <2>0. fn' = fn /\ back_edges' = back_edges /\ Finished' = Finished /\ Len(calls') = n + 1
    BY <1>0, <1>1
  <2> SUFFICES ASSUME NEW j \in 1 .. n + 1,
                      NEW c \in Successors(calls'[j].addr) \ calls'[j].left
               PROVE  \/ <<calls'[j].addr, c>> \in back_edges
                      \/ c \in Finished
                      \/ j < n + 1 /\ c = calls'[j + 1].addr
    BY <2>0 DEF CallsExamined, Recorded, Successors
  <2>1. CASE j = n + 1
    BY <1>0, <2>1
  <2>2. CASE j = n /\ c = succ
    BY <1>0, <1>1, <2>2
  <2>3. CASE j \in 1 .. n /\ ~ (j = n /\ c = succ)
    <3>1. c \in Successors(calls[j].addr) \ calls[j].left
      BY <1>0, <2>3
    <3>2. \/ <<calls[j].addr, c>> \in back_edges
          \/ c \in Finished
          \/ j < n /\ c = calls[j + 1].addr
      BY <2>3, <3>1 DEF IInv, CallsExamined, Recorded
    <3>3. j < n => calls'[j + 1].addr = calls[j + 1].addr
      BY <1>0, <1>1
    <3>4. QED
      BY <1>0, <1>1, <2>3, <3>2, <3>3, SMTT(30)
  <2>4. QED
    BY <1>1, <2>1, <2>2, <2>3
<1>6. FinishedClosed' /\ FinishedCut' /\ BackEdgesCloseLoops'
  BY <1>0, <1>1 DEF IInv, FinishedClosed, Recorded, FinishedCut, UncutLoop,
                    BackEdgesCloseLoops, Closed
<1>7. CallsOnPath'
  <2> SUFFICES ASSUME NEW S \in SUBSET Blocks, Closed(S),
                      NEW j \in 1 .. n + 1, NEW m \in 1 .. n + 1,
                      j < m, calls'[j].addr \in S
               PROVE  calls'[m].addr \in S
    BY <1>0, <1>1 DEF CallsOnPath, Closed
  <2>1. CASE m # n + 1
    <3>1. m \in 1 .. n /\ j \in 1 .. n
      BY <1>1, <2>1
    <3>2. QED
      BY <1>0, <3>1 DEF IInv, CallsOnPath
  <2>2. CASE m = n + 1
    <3>1. j \in 1 .. n /\ (j = n \/ j < n)
      BY <1>1, <2>2
    <3>2. calls[n].addr \in S
      BY <1>0, <3>1 DEF IInv, CallsOnPath
    <3>3. QED
      BY <1>0, <1>1, <2>2, <3>2 DEF Closed
  <2>3. QED
    BY <2>1, <2>2
<1>8. QED
  BY <1>2, <1>3, <1>4, <1>5, <1>6, <1>7 DEF IInv

LEMMA LeaveStep ==
  ASSUME IInv, Leave
  PROVE  IInv'
<1> DEFINE n == Len(calls)
           u == calls[n].addr
<1>0. /\ fn' = fn /\ back_edges' = back_edges /\ seen' = seen /\ in_stack' = in_stack \ {u}
      /\ n \in 1 .. n /\ calls[n].left = {} /\ u \in Blocks
      /\ calls' \in Seq(CallType) /\ Len(calls') = n - 1
      /\ \A j \in 1 .. n - 1 : calls'[j] = calls[j]
      /\ \A j \in 1 .. n : calls[j].addr = u => j = n
  BY LeaveMeans DEF Leave, Top
<1>1. /\ Blocks' = Blocks /\ CallType' = CallType
      /\ \A a : Successors(a)' = Successors(a)
      /\ n \in Nat /\ \A j \in 1 .. n - 1 : j \in 1 .. n /\ j # n
      /\ u \in in_stack /\ u \in seen /\ u \notin Finished
      /\ Finished' = Finished \union {u}
  BY <1>0 DEF Blocks, CallType, Finished, Successors, IInv, StackAgrees, SeenBlocks
<1>2. \A c \in Successors(u) : Recorded(u, c) \/ c \in Finished
  BY <1>0 DEF IInv, CallsExamined
<1>3. TypeOK'
  <2>1. Function(fn)' /\ seen' \subseteq Blocks /\ in_stack' \subseteq Blocks
        /\ back_edges' \subseteq Blocks \X Blocks
    BY <1>0 DEF IInv, TypeOK, Function
  <2>2. QED
    BY <1>0, <1>1, <2>1 DEF TypeOK, CallType
<1>4. StackAgrees'
  <2>1. in_stack \ {u} = {calls[j].addr : j \in 1 .. n - 1}
    <3>1. \A j \in 1 .. n - 1 : calls[j].addr # u
      BY <1>0, <1>1
    <3>2. \A j \in 1 .. n : j # n => j \in 1 .. n - 1
      BY <1>1
    <3>3. QED
      BY <1>1, <3>1, <3>2 DEF IInv, StackAgrees
  <2>2. in_stack' = {calls'[j].addr : j \in 1 .. n - 1}
    BY <1>0, <2>1
  <2>3. \A j, m \in 1 .. n - 1 : calls'[j].addr = calls'[m].addr => j = m
    BY <1>0, <1>1 DEF IInv, StackAgrees
  <2>4. QED
    BY <1>0, <2>2, <2>3 DEF StackAgrees
<1>5. SeenBlocks' /\ CallsWithin' /\ CallsOnPath'
  BY <1>0, <1>1 DEF IInv, SeenBlocks, CallsWithin, CallsOnPath, Closed
<1>6. CallsExamined'
  <2> SUFFICES ASSUME NEW j \in 1 .. n - 1, NEW c \in Successors(calls[j].addr) \ calls[j].left
               PROVE  \/ <<calls[j].addr, c>> \in back_edges
                      \/ c \in Finished \union {u}
                      \/ j < n - 1 /\ c = calls'[j + 1].addr
    BY <1>0, <1>1 DEF CallsExamined, Recorded
  <2>1. \/ <<calls[j].addr, c>> \in back_edges
        \/ c \in Finished
        \/ j < n /\ c = calls[j + 1].addr
    BY <1>1 DEF IInv, CallsExamined, Recorded
  <2>2. CASE j = n - 1
    BY <1>1, <2>1, <2>2
  <2>3. CASE j # n - 1
    <3>1. j < n - 1 /\ j + 1 \in 1 .. n - 1
      BY <1>1, <2>3
    <3>2. QED
      BY <1>0, <2>1, <3>1
  <2>4. QED
    BY <2>2, <2>3
<1>7. FinishedClosed'
  BY <1>0, <1>1, <1>2 DEF IInv, FinishedClosed, Recorded
<1>8. FinishedCut'
  <2> SUFFICES ASSUME NEW S \in SUBSET (Finished \union {u}), UncutLoop(S)
               PROVE  FALSE
    BY <1>0, <1>1 DEF FinishedCut, UncutLoop
  <2> DEFINE T == S \ {u}
  <2>1. ASSUME NEW a \in S
        PROVE  \E c \in T : c \in Successors(a) /\ ~ Recorded(a, c)
    <3>1. PICK c \in S : c \in Successors(a) /\ ~ Recorded(a, c)
      BY DEF UncutLoop, Recorded
    <3>2. c \in Finished
      BY <1>2, <3>1 DEF IInv, FinishedClosed
    <3>3. QED
      BY <1>1, <3>1, <3>2
  <2>2. T # {}
    BY <2>1 DEF UncutLoop
  <2>3. UncutLoop(T) /\ T \in SUBSET Finished
    BY <2>1, <2>2 DEF UncutLoop, Recorded
  <2>4. QED
    BY <2>3 DEF IInv, FinishedCut
<1>9. BackEdgesCloseLoops'
  BY <1>0, <1>1 DEF IInv, BackEdgesCloseLoops, Closed
<1>10. QED
  BY <1>3, <1>4, <1>5, <1>6, <1>7, <1>8, <1>9 DEF IInv

LEMMA StutterStep ==
  ASSUME IInv, UNCHANGED search
  PROVE  IInv'
<1>1. /\ fn' = fn /\ calls' = calls /\ seen' = seen
      /\ in_stack' = in_stack /\ back_edges' = back_edges
  BY DEF search
<1>2. /\ TypeOK' = TypeOK /\ StackAgrees' = StackAgrees /\ SeenBlocks' = SeenBlocks
      /\ CallsWithin' = CallsWithin /\ CallsExamined' = CallsExamined
  BY <1>1 DEF TypeOK, StackAgrees, SeenBlocks, CallsWithin, CallsExamined, Function,
              Blocks, Successors, Finished, Recorded
<1>3. FinishedClosed' /\ FinishedCut' /\ CallsOnPath' /\ BackEdgesCloseLoops'
  BY <1>1 DEF IInv, FinishedClosed, FinishedCut, CallsOnPath, BackEdgesCloseLoops,
              Blocks, Successors, Finished, Recorded, UncutLoop, Closed
<1>4. QED
  BY <1>2, <1>3 DEF IInv

LEMMA Invariance == Spec => []IInv
<1>1. Init => IInv
  BY InitInvariant
<1>2. IInv /\ [Next]_search => IInv'
  <2> SUFFICES ASSUME IInv, [Next]_search PROVE IInv'
    OBVIOUS
  <2>1. CASE \E succ \in Address : FindBackEdge(succ) \/ SkipSeen(succ)
    BY <2>1, ExamineStep
  <2>2. CASE \E succ \in Address : Descend(succ)
    BY <2>2, DescendStep
  <2>3. CASE Leave
    BY <2>3, LeaveStep
  <2>4. CASE UNCHANGED search
    BY <2>4, StutterStep
  <2>5. QED
    BY <2>1, <2>2, <2>3, <2>4 DEF Next, Search
<1>3. QED
  BY <1>1, <1>2, PTL DEF Spec

-----------------------------------------------------------------------------
(* Theorems.                                                               *)

(* Types of the variables of the search.                                   *)
THEOREM TypeCorrect == Spec => []TypeOK
<1>1. IInv => TypeOK
  BY DEF IInv
<1>2. QED
  BY <1>1, Invariance, PTL

(* The set in_stack agrees with the recursion (structurer.rs:195, 206).    *)
THEOREM StackCorrect == Spec => []StackAgrees
<1>1. IInv => StackAgrees
  BY DEF IInv
<1>2. QED
  BY <1>1, Invariance, PTL

(* Only edges that close a loop are recorded (structurer.rs:198-200).      *)
THEOREM NoFalsePositive == Spec => []BackEdgesCloseLoops
<1>1. IInv => BackEdgesCloseLoops
  BY DEF IInv
<1>2. QED
  BY <1>1, Invariance, PTL

(* Every loop that can be entered has a recorded edge, in every graph      *)
(* (structurer.rs:185-207).                                                *)
THEOREM NoLoopMissed == Spec => []EveryLoopIsCut
<1>1. IInv => EveryLoopIsCut
  <2> SUFFICES ASSUME IInv, Searched PROVE \A S \in SUBSET seen : ~ UncutLoop(S)
    BY DEF EveryLoopIsCut
  <2>1. in_stack = {}
    BY DEF IInv, StackAgrees, Searched
  <2>2. QED
    BY <2>1 DEF IInv, FinishedCut, Finished
<1>2. QED
  BY <1>1, Invariance, PTL

(* The search visits every reachable block (structurer.rs:192-205).        *)
THEOREM SearchReachesAll == Spec => []SearchIsComplete
<1>1. IInv => SearchIsComplete
  <2> SUFFICES ASSUME IInv, Searched PROVE Closed(seen) /\ fn.entry \in seen
    BY DEF SearchIsComplete
  <2>1. in_stack = {}
    BY DEF IInv, StackAgrees, Searched
  <2>2. ASSUME NEW a \in seen, NEW c \in Successors(a)
        PROVE  c \in seen
    <3>1. Recorded(a, c) \/ c \in Finished
      BY <2>1 DEF IInv, FinishedClosed, Finished
    <3>2. back_edges \subseteq seen \X seen
      BY DEF IInv, SeenBlocks
    <3>3. QED
      BY <3>1, <3>2 DEF Recorded, Finished
  <2>3. QED
    BY <2>2 DEF IInv, SeenBlocks, Closed
<1>2. QED
  BY <1>1, Invariance, PTL

-----------------------------------------------------------------------------
(* The search: edges that are examined and not recorded lead from the      *)
(* entry to every block seen, along the calls in progress, and from the    *)
(* target of a recorded edge to its source.                                *)

Unexamined(a, c) ==
  a \notin seen \/ \E j \in 1 .. Len(calls) : calls[j].addr = a /\ c \in calls[j].left

TreeClosed(S) ==
  \A a \in S : \A c \in Successors(a) : Unexamined(a, c) \/ Recorded(a, c) \/ c \in S

RecordedExamined == \A a, c : Recorded(a, c) => ~ Unexamined(a, c)

TreeLeads ==
  \A S \in SUBSET Blocks : TreeClosed(S) =>
    /\ fn.entry \in S => seen \subseteq S
    /\ \A j, m \in 1 .. Len(calls) : j < m /\ calls[j].addr \in S => calls[m].addr \in S
    /\ \A a, c : Recorded(a, c) /\ c \in S => a \in S

SearchInv == IInv /\ RecordedExamined /\ TreeLeads

LEMMA SearchInitially ==
  ASSUME Init
  PROVE  SearchInv
<1>1. IInv
  BY InitInvariant
<1>2. seen = {fn.entry} /\ back_edges = {} /\ Len(calls) = 1
  BY DEF Init
<1>3. RecordedExamined /\ TreeLeads
  BY <1>2 DEF RecordedExamined, TreeLeads, Recorded
<1> QED
  BY <1>1, <1>3 DEF SearchInv

LEMMA SearchExamines ==
  ASSUME SearchInv, NEW succ, FindBackEdge(succ) \/ SkipSeen(succ)
  PROVE  SearchInv'
<1> DEFINE n == Len(calls)
           u == calls[n].addr
<1>1. IInv /\ IInv'
  BY ExamineStep DEF SearchInv
<1>2. /\ fn' = fn /\ seen' = seen /\ in_stack' = in_stack
      /\ n \in 1 .. n /\ succ \in calls[n].left /\ succ \in Blocks
      /\ calls' \in Seq(CallType) /\ Len(calls') = n
      /\ \A j \in 1 .. n : calls'[j].addr = calls[j].addr
      /\ \A j \in 1 .. n : j # n => calls'[j].left = calls[j].left
      /\ calls'[n].left = calls[n].left \ {succ}
      /\ \/ succ \in in_stack /\ back_edges' = back_edges \union {<<u, succ>>}
         \/ succ \in Finished /\ back_edges' = back_edges
  BY <1>1, OnlyExamined
<1>3. u \in seen /\ Blocks' = Blocks /\ \A j \in 1 .. n : calls[j].addr = u => j = n
  BY <1>1, <1>2 DEF IInv, StackAgrees, SeenBlocks, Blocks
<1>4. \A a, c : Unexamined(a, c)' <=> Unexamined(a, c) /\ <<a, c>> # <<u, succ>>
  BY <1>2, <1>3 DEF Unexamined
<1>5. RecordedExamined' /\ Unexamined(u, succ)
  BY <1>2, <1>4, ZenonT(60) DEF SearchInv, RecordedExamined, Recorded, Unexamined
<1>6. TreeLeads'
  <2> SUFFICES ASSUME NEW S \in SUBSET Blocks, TreeClosed(S)'
               PROVE  /\ fn.entry \in S => seen \subseteq S
                      /\ \A j, m \in 1 .. n : j < m /\ calls[j].addr \in S => calls[m].addr \in S
                      /\ \A a, c : Recorded(a, c)' /\ c \in S => a \in S
    BY <1>2, <1>3 DEF TreeLeads
  <2>1. TreeClosed(S)
    BY <1>2, <1>4, <1>5 DEF TreeClosed, Successors, Recorded
  <2>2. /\ fn.entry \in S => seen \subseteq S
        /\ \A j, m \in 1 .. n : j < m /\ calls[j].addr \in S => calls[m].addr \in S
        /\ \A a, c : Recorded(a, c) /\ c \in S => a \in S
    BY <2>1 DEF SearchInv, TreeLeads
  <2>3. succ \in in_stack /\ succ \in S => u \in S
    BY <1>1, <1>2, <2>2 DEF IInv, StackAgrees
  <2> QED
    BY <1>2, <2>2, <2>3 DEF Recorded
<1> QED
  BY <1>1, <1>5, <1>6 DEF SearchInv

LEMMA SearchDescends ==
  ASSUME SearchInv, NEW succ, Descend(succ)
  PROVE  SearchInv'
<1>0. PICK n, u : n = Len(calls) /\ u = calls[n].addr
  OBVIOUS
<1>1. IInv /\ IInv'
  BY DescendStep DEF SearchInv
<1>2. /\ fn' = fn /\ back_edges' = back_edges
      /\ seen' = seen \union {succ} /\ succ \notin seen
      /\ n \in 1 .. n /\ n \in Nat /\ succ \in calls[n].left /\ succ \in Blocks
      /\ Len(calls') = n + 1
      /\ \A j \in 1 .. n : calls'[j].addr = calls[j].addr
      /\ \A j \in 1 .. n : j # n => calls'[j].left = calls[j].left
      /\ calls'[n].left = calls[n].left \ {succ}
      /\ calls'[n + 1].addr = succ /\ calls'[n + 1].left = Successors(succ)
  BY <1>0, <1>1, DescendMeans DEF Descend
<1>3. /\ u \in seen /\ Blocks' = Blocks /\ \A j \in 1 .. n : calls[j].addr = u => j = n
      /\ \A j \in 1 .. n : calls[j].addr \in seen
      /\ succ \in Successors(u)
      /\ \A j \in 1 .. n + 1 : j \in 1 .. n \/ j = n + 1
  BY <1>0, <1>1, <1>2 DEF IInv, StackAgrees, SeenBlocks, Blocks, CallsWithin
<1>4. \A a, c : Unexamined(a, c)' => Unexamined(a, c)
  <2> SUFFICES ASSUME NEW a, NEW c, Unexamined(a, c)', a \in seen
               PROVE  Unexamined(a, c)
    BY DEF Unexamined
  <2>1. PICK j \in 1 .. n + 1 : calls'[j].addr = a /\ c \in calls'[j].left
    BY <1>2 DEF Unexamined
  <2>2. j \in 1 .. n
    BY <1>2, <1>3, <2>1
  <2>3. calls[j].addr = a /\ c \in calls[j].left
    BY <1>2, <2>1, <2>2
  <2> QED
    BY <1>0, <2>2, <2>3 DEF Unexamined
<1>5. ~ Unexamined(u, succ)' /\ Unexamined(u, succ)
  <2>1. Unexamined(u, succ)
    BY <1>0, <1>2 DEF Unexamined
  <2>2. ASSUME NEW j \in 1 .. n + 1, calls'[j].addr = u, succ \in calls'[j].left
        PROVE  FALSE
    <3>1. CASE j = n + 1
      BY <1>2, <1>3, <2>2, <3>1
    <3>2. CASE j \in 1 .. n
      <4>1. j = n
        BY <1>2, <1>3, <2>2, <3>2
      <4> QED
        BY <1>2, <2>2, <4>1
    <3> QED
      BY <1>3, <3>1, <3>2
  <2> QED
    BY <1>2, <1>3, <2>1, <2>2 DEF Unexamined
<1>6. RecordedExamined' /\ ~ Recorded(u, succ)
  <2>1. \A a, c : Recorded(a, c)' <=> Recorded(a, c)
    BY <1>2 DEF Recorded
  <2>2. \A a, c : Recorded(a, c) => ~ Unexamined(a, c)
    BY DEF SearchInv, RecordedExamined
  <2> QED
    BY <1>4, <1>5, <2>1, <2>2 DEF RecordedExamined
<1>7. TreeLeads'
  <2> SUFFICES ASSUME NEW S \in SUBSET Blocks, TreeClosed(S)'
               PROVE  /\ fn.entry \in S => seen \union {succ} \subseteq S
                      /\ \A j, m \in 1 .. n + 1 :
                           j < m /\ calls'[j].addr \in S => calls'[m].addr \in S
                      /\ \A a, c : Recorded(a, c) /\ c \in S => a \in S
    BY <1>2, <1>3 DEF TreeLeads, Recorded
  <2>1. TreeClosed(S)
    BY <1>2, <1>4 DEF TreeClosed, Successors, Recorded
  <2>2. /\ fn.entry \in S => seen \subseteq S
        /\ \A j, m \in 1 .. n : j < m /\ calls[j].addr \in S => calls[m].addr \in S
        /\ \A a, c : Recorded(a, c) /\ c \in S => a \in S
    BY <1>0, <2>1 DEF SearchInv, TreeLeads
  <2>3. u \in S => succ \in S
    BY <1>2, <1>3, <1>5, <1>6 DEF TreeClosed, Successors, Recorded
  <2>4. fn.entry \in S => seen \union {succ} \subseteq S
    BY <1>3, <2>2, <2>3
  <2>5. ASSUME NEW j \in 1 .. n + 1, NEW m \in 1 .. n + 1, j < m, calls'[j].addr \in S
        PROVE  calls'[m].addr \in S
    <3>1. j \in 1 .. n /\ calls[j].addr \in S
      BY <1>2, <2>5
    <3>2. \A k \in 1 .. n : j <= k => calls[k].addr \in S
      BY <1>2, <2>2, <3>1
    <3>3. CASE m = n + 1
      BY <1>0, <1>2, <2>3, <3>1, <3>2, <3>3
    <3>4. CASE m \in 1 .. n
      BY <1>2, <2>5, <3>2, <3>4
    <3> QED
      BY <1>3, <3>3, <3>4
  <2> QED
    BY <2>2, <2>4, <2>5
<1> QED
  BY <1>1, <1>6, <1>7 DEF SearchInv

LEMMA SearchLeaves ==
  ASSUME SearchInv, Leave
  PROVE  SearchInv'
<1> DEFINE n == Len(calls)
<1>1. IInv /\ IInv'
  BY LeaveStep DEF SearchInv
<1>2. /\ fn' = fn /\ back_edges' = back_edges /\ seen' = seen
      /\ n \in 1 .. n /\ n \in Nat /\ calls[n].left = {}
      /\ Len(calls') = n - 1
      /\ \A j \in 1 .. n - 1 : calls'[j] = calls[j]
  BY <1>1, LeaveMeans DEF Leave
<1>3. Blocks' = Blocks /\ (\A j \in 1 .. n : j \in 1 .. n - 1 \/ j = n)
      /\ \A j \in 1 .. n - 1 : j \in 1 .. n
  BY <1>2 DEF Blocks
<1>4. \A a, c : Unexamined(a, c)' <=> Unexamined(a, c)
  BY <1>2, <1>3 DEF Unexamined
<1>5. RecordedExamined'
  BY <1>2, <1>4 DEF SearchInv, RecordedExamined, Recorded
<1>6. TreeLeads'
  <2> SUFFICES ASSUME NEW S \in SUBSET Blocks, TreeClosed(S)'
               PROVE  /\ fn.entry \in S => seen \subseteq S
                      /\ \A j, m \in 1 .. n - 1 :
                           j < m /\ calls[j].addr \in S => calls[m].addr \in S
                      /\ \A a, c : Recorded(a, c) /\ c \in S => a \in S
    BY <1>2, <1>3 DEF TreeLeads, Recorded
  <2>1. TreeClosed(S)
    BY <1>2, <1>4 DEF TreeClosed, Successors, Recorded
  <2> QED
    BY <1>3, <2>1 DEF SearchInv, TreeLeads
<1> QED
  BY <1>1, <1>5, <1>6 DEF SearchInv

LEMMA SearchStep ==
  ASSUME SearchInv, Search \/ UNCHANGED search
  PROVE  SearchInv'
<1>1. CASE UNCHANGED search
  <2>1. IInv'
    BY <1>1, StutterStep DEF SearchInv
  <2>2. RecordedExamined' /\ TreeLeads'
    BY <1>1 DEF SearchInv, search, RecordedExamined, TreeLeads, TreeClosed, Unexamined,
                Recorded, Successors, Blocks
  <2> QED
    BY <2>1, <2>2 DEF SearchInv
<1>2. CASE Search
  BY <1>2, SearchExamines, SearchDescends, SearchLeaves DEF Search
<1> QED
  BY <1>1, <1>2

-----------------------------------------------------------------------------
(* Paths of edges that are not recorded.                                   *)

Followed(a, c) == c \in Successors(a) /\ ~ Recorded(a, c)

FollowClosed(S) == \A a \in S : \A c \in Successors(a) : Recorded(a, c) \/ c \in S

Leads(a, c) == \A S \in SUBSET Blocks : a \in S /\ FollowClosed(S) => c \in S

LEMMA LeadsOn ==
  ASSUME NEW a, NEW b, NEW c, Leads(a, b), Leads(b, c)
  PROVE  Leads(a, c)
  BY DEF Leads

LEMMA LeadsAlong ==
  ASSUME NEW a, NEW b, NEW c, Leads(a, b), Followed(b, c)
  PROVE  Leads(a, c)
  BY DEF Leads, FollowClosed, Followed

LEMMA LeadsItself ==
  ASSUME NEW a
  PROVE  Leads(a, a)
  BY DEF Leads

(* A path that does not end where it begins has a first edge.              *)
LEMMA FirstEdge ==
  ASSUME SearchInv, NEW a \in Blocks, NEW c, Leads(a, c), a # c
  PROVE  \E b \in Blocks : Followed(a, b) /\ Leads(b, c)
<1> DEFINE Onwards == {b \in Blocks : \E d \in Blocks : Followed(a, d) /\ Leads(d, b)}
           S == {a} \union Onwards
<1>1. S \subseteq Blocks
  OBVIOUS
<1>2. FollowClosed(S)
  <2> SUFFICES ASSUME NEW x \in S, NEW y \in Successors(x), ~ Recorded(x, y)
               PROVE  y \in Onwards
    BY DEF FollowClosed
  <2>1. Followed(x, y) /\ y \in Blocks
    BY <1>1, SuccessorsType DEF Followed, SearchInv
  <2>2. CASE x = a
    BY <2>1, <2>2, LeadsItself
  <2>3. CASE x \in Onwards
    <3>1. PICK d \in Blocks : Followed(a, d) /\ Leads(d, x)
      BY <2>3
    <3>2. Leads(d, y)
      BY <2>1, <3>1, LeadsAlong
    <3> QED
      BY <2>1, <3>1, <3>2
  <2> QED
    BY <2>2, <2>3
<1>3. c \in S
  BY <1>1, <1>2 DEF Leads
<1>4. c \in Onwards
  BY <1>3
<1> QED
  BY <1>4

(* Once the search is complete there is a path from the target of a        *)
(* recorded edge to its source, and hence none back.                       *)
LEMMA SearchedLeads ==
  ASSUME SearchInv, Searched
  PROVE  /\ Closed(seen) /\ fn.entry \in seen
         /\ \A S \in SUBSET seen : ~ UncutLoop(S)
         /\ \A a, c : Recorded(a, c) => Leads(c, a)
         /\ \A S \in SUBSET Blocks : fn.entry \in S /\ FollowClosed(S) => seen \subseteq S
<1>1. in_stack = {} /\ Len(calls) = 0
  BY DEF SearchInv, IInv, StackAgrees, Searched
<1>2. \A S \in SUBSET seen : ~ UncutLoop(S)
  BY <1>1 DEF SearchInv, IInv, FinishedCut, Finished
<1>3. Closed(seen) /\ fn.entry \in seen
  <2>1. ASSUME NEW a \in seen, NEW c \in Successors(a)
        PROVE  c \in seen
    <3>1. Recorded(a, c) \/ c \in Finished
      BY <1>1 DEF SearchInv, IInv, FinishedClosed, Finished
    <3> QED
      BY <3>1 DEF SearchInv, IInv, SeenBlocks, Recorded, Finished
  <2> QED
    BY <2>1 DEF SearchInv, IInv, SeenBlocks, Closed
<1>4. \A S \in SUBSET Blocks : FollowClosed(S) => TreeClosed(S)
  BY DEF FollowClosed, TreeClosed
<1>5. \A a, c : Recorded(a, c) => Leads(c, a)
  BY <1>4 DEF SearchInv, TreeLeads, Leads
<1>6. \A S \in SUBSET Blocks : fn.entry \in S /\ FollowClosed(S) => seen \subseteq S
  BY <1>4 DEF SearchInv, TreeLeads
<1> QED
  BY <1>2, <1>3, <1>5, <1>6

LEMMA NoPathBack ==
  ASSUME SearchInv, Searched, NEW b \in Blocks, NEW c \in Blocks, b # c,
         Recorded(b, c), Leads(b, c)
  PROVE  FALSE
<1> DEFINE S == {x \in Blocks : Leads(c, x) /\ Leads(x, c)}
<1>1. Leads(c, b)
  BY SearchedLeads
<1>2. c \in seen
  BY DEF SearchInv, IInv, SeenBlocks, Recorded
<1>3. FollowClosed(seen) /\ seen \in SUBSET Blocks
  BY SearchedLeads DEF FollowClosed, Closed, SearchInv, IInv, TypeOK
<1>4. S \in SUBSET seen
  BY <1>2, <1>3 DEF Leads
<1>5. S # {}
  BY LeadsItself
<1>6. ASSUME NEW x \in S
      PROVE  \E y \in S : y \in Successors(x) /\ ~ Recorded(x, y)
  <2>1. \E y \in Blocks : Followed(x, y) /\ Leads(y, c)
    <3>1. CASE x # c
      BY <3>1, FirstEdge
    <3>2. CASE x = c
      <4>1. PICK y \in Blocks : Followed(c, y) /\ Leads(y, b)
        BY <1>1, FirstEdge
      <4>2. Leads(y, c)
        BY <4>1, LeadsOn
      <4> QED
        BY <3>2, <4>1, <4>2
    <3> QED
      BY <3>1, <3>2
  <2>2. PICK y \in Blocks : Followed(x, y) /\ Leads(y, c)
    BY <2>1
  <2>3. Leads(c, y)
    BY <2>2, LeadsAlong
  <2> QED
    BY <2>2, <2>3 DEF Followed
<1>7. UncutLoop(S)
  BY <1>5, <1>6 DEF UncutLoop, Recorded
<1> QED
  BY <1>4, <1>7, SearchedLeads

-----------------------------------------------------------------------------
(* Sequences of anything.                                                  *)

IsSequence(s) == s \in Seq({s[j] : j \in 1 .. Len(s)})

LEMMA AnySequence ==
  ASSUME NEW n \in Nat, NEW s, s = [j \in 1 .. n |-> s[j]]
  PROVE  IsSequence(s) /\ Len(s) = n
<1> DEFINE T == {s[j] : j \in 1 .. n}
<1>1. s \in [1 .. n -> T]
  OBVIOUS
<1>2. s \in Seq(T) /\ Len(s) = n
  BY <1>1, FunctionIsSeq
<1> QED
  BY <1>2 DEF IsSequence

LEMMA SequenceFacts ==
  ASSUME NEW s, IsSequence(s)
  PROVE  Len(s) \in Nat /\ s = [j \in 1 .. Len(s) |-> s[j]]
  BY DEF IsSequence

LEMMA Appended ==
  ASSUME NEW s, IsSequence(s), NEW r
  PROVE  LET n == Len(s)
             t == Append(s, r)
         IN  /\ IsSequence(t) /\ Len(t) = n + 1 /\ t[n + 1] = r
             /\ \A j \in 1 .. n : t[j] = s[j]
<1> DEFINE n == Len(s)
           t == Append(s, r)
           T == {s[j] : j \in 1 .. n} \union {r}
<1>1. n \in Nat /\ s = [j \in 1 .. n |-> s[j]]
  BY SequenceFacts
<1>2. s \in Seq(T)
  BY <1>1, FunctionIsSeq
<1>3. r \in T
  OBVIOUS
<1> HIDE DEF T
<1>4. t \in Seq(T) /\ Len(t) = n + 1 /\ t[n + 1] = r /\ \A j \in 1 .. n : t[j] = s[j]
  BY <1>2, <1>3
<1>5. n + 1 \in Nat /\ t = [j \in 1 .. n + 1 |-> t[j]]
  <2> HIDE DEF t
  <2> QED
    BY <1>1, <1>4
<1>6. IsSequence(t)
  BY <1>5, AnySequence
<1> QED
  BY <1>4, <1>6

LEMMA Shortened ==
  ASSUME NEW s, IsSequence(s), NEW m \in 0 .. Len(s)
  PROVE  LET t == SubSeq(s, 1, m)
         IN  IsSequence(t) /\ Len(t) = m /\ \A j \in 1 .. m : t[j] = s[j]
<1> DEFINE t == SubSeq(s, 1, m)
           T == {s[j] : j \in 1 .. Len(s)}
<1>1. Len(s) \in Nat /\ m \in Nat /\ s \in Seq(T)
  BY SequenceFacts DEF IsSequence
<1>2. t = [j \in 1 .. m |-> s[j]]
  BY <1>1
<1>3. t = [j \in 1 .. m |-> t[j]] /\ \A j \in 1 .. m : t[j] = s[j]
  BY <1>1, <1>2
<1> QED
  BY <1>1, <1>3, AnySequence

-----------------------------------------------------------------------------
(* The descent.                                                            *)

Depth == Len(regions)

IsRegion(r) ==
  /\ r = [curr |-> r.curr, stop |-> r.stop, seq |-> r.seq, ended |-> r.ended,
          resume |-> r.resume, false_target |-> r.false_target]
  /\ r.ended \in BOOLEAN
  /\ {r.curr, r.false_target} \union r.stop \subseteq Address \union {0}

(* A region that has called another for the body of a conditional.         *)
Waits(r) ==
  /\ ~ r.ended
  /\ r.resume \in {"loop", "converge"}
  /\ r.curr \in Blocks \intersect visited
  /\ r.resume = "loop" => Recorded(r.curr, r.false_target)

(* Each body stops where its conditional goes on.                          *)
Nested ==
  /\ IsSequence(regions) /\ Depth > 0
  /\ \A j \in 1 .. Depth : IsRegion(regions[j])
  /\ regions[1].stop = {}
  /\ regions[Depth].resume = "none"
  /\ \A j \in 1 .. Depth - 1 :
       Waits(regions[j]) /\ regions[j + 1].stop = {regions[j].false_target}

(* Region j is going to go to c.                                           *)
Owes(j, c) ==
  IF j = Depth THEN ~ regions[j].ended /\ regions[j].curr = c
  ELSE regions[j].resume = "converge" /\ regions[j].false_target = c

(* The conditionals that wait lie on a path, which goes on to what is owed.*)
OnPath ==
  \A j \in 1 .. Depth : \A i \in 1 .. j - 1 :
    /\ j < Depth => Leads(regions[i].curr, regions[j].curr)
    /\ \A c \in Blocks \ visited : Owes(j, c) => Leads(regions[i].curr, c)

(* What a visited block leads to has been visited or is owed, by a region  *)
(* whose callers lead to the block.                                        *)
Owed ==
  \A a \in Blocks \intersect visited : \A c \in Blocks \ visited :
    Followed(a, c) =>
      \E j \in 1 .. Depth :
        Owes(j, c) /\ \A i \in 1 .. j - 1 : Leads(regions[i].curr, a)

(* The entry is the first block that is visited.                           *)
EntryFirst ==
  \/ fn.entry \in visited
  \/ visited = {} /\ Depth = 1 /\ regions[1].curr = fn.entry /\ ~ regions[1].ended

DescentInv ==
  /\ SearchInv /\ Flow(fn)
  /\ visited \subseteq Address \union {0}
  /\ phase \in {"search", "structure", "done"}
  /\ phase = "search" => regions = <<>> /\ visited = {}
  /\ phase # "search" => Searched
  /\ phase = "structure" => Nested /\ EntryFirst /\ (PlainLoops => OnPath /\ Owed)
  /\ phase = "done" =>
       /\ regions = <<>> /\ fn.entry \in visited
       /\ PlainLoops => FollowClosed(Blocks \intersect visited)

LEMMA SameGraph ==
  ASSUME UNCHANGED search
  PROVE  /\ Blocks' = Blocks
         /\ \A a : Successors(a)' = Successors(a)
         /\ \A a, c : Recorded(a, c)' <=> Recorded(a, c)
         /\ \A a, c : Followed(a, c)' <=> Followed(a, c)
         /\ \A a, c : Leads(a, c)' <=> Leads(a, c)
         /\ PlainLoops' <=> PlainLoops
         /\ Flow(fn)' <=> Flow(fn)
         /\ fn' = fn
  BY DEF search, Blocks, Successors, Recorded, Followed, Leads, FollowClosed, PlainLoops,
         Flow, Behind

(* The innermost region becomes r.                                         *)
LEMMA BecomeMeans ==
  ASSUME Nested, NEW r, regions' = Become(r)
  PROVE  /\ Depth \in Nat \ {0} /\ Depth' = Depth /\ IsSequence(regions)'
         /\ regions'[Depth] = r
         /\ \A j \in 1 .. Depth - 1 : regions'[j] = regions[j]
<1>1. PICK s, t : s = regions /\ t = regions'
  OBVIOUS
<1>2. PICK n \in Nat \ {0} : n = Len(s)
  BY <1>1, SequenceFacts DEF Nested, Depth
<1>3. s = [j \in 1 .. n |-> s[j]]
  BY <1>1, <1>2, SequenceFacts DEF Nested
<1>4. t = [s EXCEPT ![n] = r]
  BY <1>1, <1>2 DEF Become
<1>5. t = [j \in 1 .. n |-> IF j = n THEN r ELSE s[j]]
  BY <1>3, <1>4
<1>6. t = [j \in 1 .. n |-> t[j]] /\ t[n] = r /\ \A j \in 1 .. n - 1 : t[j] = s[j]
  BY <1>5
<1>7. IsSequence(t) /\ Len(t) = n
  BY <1>6, AnySequence
<1>8. IsSequence(regions)'
  BY <1>1, <1>7 DEF IsSequence
<1> QED
  BY <1>1, <1>2, <1>6, <1>7, <1>8 DEF Depth

LEMMA BecomeNests ==
  ASSUME Nested, UNCHANGED search, visited \subseteq visited', NEW r, IsRegion(r),
         r.resume = "none", r.stop = Inner.stop, regions' = Become(r)
  PROVE  Nested'
<1>1. PICK n \in Nat \ {0} : n = Depth
  BY BecomeMeans
<1>2. /\ Depth' = n /\ IsSequence(regions)' /\ regions'[n] = r
      /\ \A j \in 1 .. n - 1 : regions'[j] = regions[j]
  BY <1>1, BecomeMeans
<1>3. /\ \A j \in 1 .. n : IsRegion(regions[j])
      /\ regions[1].stop = {} /\ r.stop = regions[n].stop
      /\ \A j \in 1 .. n - 1 : Waits(regions[j]) /\ regions[j + 1].stop = {regions[j].false_target}
  BY <1>1 DEF Nested, Inner, Depth
<1>4. \A j \in 1 .. n : IsRegion(regions'[j]) /\ regions'[j].stop = regions[j].stop
  BY <1>1, <1>2, <1>3
<1>5. \A j \in 1 .. n : IsRegion(regions[j])'
  BY <1>4 DEF IsRegion
<1>6. \A j \in 1 .. n - 1 : Waits(regions[j])' /\ regions'[j + 1].stop = {regions'[j].false_target}
  BY <1>1, <1>2, <1>3, <1>4, SameGraph DEF Waits
<1> QED
  BY <1>1, <1>2, <1>3, <1>4, <1>5, <1>6 DEF Nested

LEMMA EntryVisited ==
  ASSUME Nested, EntryFirst, UNCHANGED fn, visited' = visited \union {Inner.curr}
  PROVE  fn.entry \in visited'
  BY DEF EntryFirst, Inner, Depth

(* The turn goes on exactly to what the block leads to.                    *)
LEMMA TurnOwes ==
  ASSUME Nested, OnPath, Owed, UNCHANGED search, Goes(Inner),
         visited' = visited \union {Inner.curr}, NEW r, regions' = Become(r),
         \A c \in Blocks \ visited' :
           Inner.curr \in Blocks /\ Followed(Inner.curr, c) <=> ~ r.ended /\ r.curr = c
  PROVE  OnPath' /\ Owed'
<1>1. PICK n \in Nat \ {0} : n = Depth
  BY BecomeMeans
<1>2. PICK a : a = regions[n].curr /\ a = Inner.curr
  BY <1>1 DEF Inner, Depth
<1>3. /\ Depth' = n /\ regions'[n] = r
      /\ \A j \in 1 .. n - 1 : regions'[j] = regions[j]
  BY <1>1, BecomeMeans
<1>4. ~ regions[n].ended /\ a \notin visited /\ visited' = visited \union {a}
  BY <1>1, <1>2 DEF Goes, Inner, Depth
<1>5. \A i \in 1 .. n - 1 : a \in Blocks => Leads(regions[i].curr, a)
  <2>1. Owes(n, a) /\ n \in 1 .. Depth
    BY <1>1, <1>2, <1>4 DEF Owes
  <2> QED
    BY <1>4, <2>1 DEF OnPath
<1>6. \A j \in 1 .. n - 1 : \A c : Owes(j, c)' <=> Owes(j, c)
  BY <1>1, <1>3 DEF Owes
<1>7. \A c : Owes(n, c)' <=> ~ r.ended /\ r.curr = c
  BY <1>1, <1>3 DEF Owes
<1>8. \A c : Owes(n, c) => c = a
  BY <1>1, <1>2 DEF Owes
<1>9. \A c \in Blocks \ visited' : a \in Blocks /\ Followed(a, c) <=> Owes(n, c)'
  BY <1>2, <1>7
<1>10. OnPath'
  <2> SUFFICES ASSUME NEW j \in 1 .. n, NEW i \in 1 .. j - 1
               PROVE  /\ j < n => Leads(regions'[i].curr, regions'[j].curr)
                      /\ \A c \in Blocks \ visited' : Owes(j, c)' => Leads(regions'[i].curr, c)
    BY <1>3, SameGraph DEF OnPath
  <2>1. i \in 1 .. n - 1 /\ regions'[i] = regions[i]
    BY <1>1, <1>3
  <2>2. CASE j = n
    <3>1. ASSUME NEW c \in Blocks \ visited', Owes(j, c)'
          PROVE  Leads(regions[i].curr, c)
      <4>1. Owes(n, c)'
        BY <2>2, <3>1
      <4>2. a \in Blocks /\ Followed(a, c)
        BY <1>9, <4>1
      <4> QED
        BY <1>5, <2>1, <4>2, LeadsAlong
    <3> QED
      BY <2>1, <2>2, <3>1
  <2>3. CASE j # n
    <3>1. j \in 1 .. n - 1 /\ regions'[j] = regions[j]
      BY <1>1, <1>3, <2>3
    <3> QED
      BY <1>1, <1>4, <1>6, <2>1, <3>1 DEF OnPath
  <2> QED
    BY <2>2, <2>3
<1>11. Owed'
  <2> SUFFICES ASSUME NEW b \in Blocks \intersect visited', NEW c \in Blocks \ visited',
                      Followed(b, c)
               PROVE  \E j \in 1 .. n :
                        Owes(j, c)' /\ \A i \in 1 .. j - 1 : Leads(regions'[i].curr, b)
    BY <1>3, SameGraph DEF Owed
  <2>1. CASE b = a
    <3>1. Owes(n, c)'
      BY <1>9, <2>1
    <3>2. \A i \in 1 .. n - 1 : Leads(regions'[i].curr, b)
      BY <1>3, <1>5, <2>1
    <3> QED
      BY <1>1, <3>1, <3>2
  <2>2. CASE b # a
    <3>1. PICK j \in 1 .. n : Owes(j, c) /\ \A i \in 1 .. j - 1 : Leads(regions[i].curr, b)
      BY <1>1, <1>4, <2>2 DEF Owed
    <3>2. j # n
      BY <1>4, <1>8, <3>1
    <3>3. j \in 1 .. n - 1 /\ \A i \in 1 .. j - 1 : i \in 1 .. n - 1
      BY <1>1, <3>2
    <3>4. Owes(j, c)' /\ \A i \in 1 .. j - 1 : Leads(regions'[i].curr, b)
      BY <1>3, <1>6, <3>1, <3>3
    <3> QED
      BY <3>4
  <2> QED
    BY <2>1, <2>2
<1> QED
  BY <1>10, <1>11

-----------------------------------------------------------------------------
(* One lemma for each action.                                              *)

LEMMA InnerIsRegion ==
  ASSUME Nested
  PROVE  IsRegion(Inner) /\ Inner.resume = "none"
  BY BecomeMeans, SequenceFacts DEF Nested, Inner, Depth

(* A turn that keeps the depth.                                            *)
LEMMA TurnKeeps ==
  ASSUME DescentInv, phase = "structure", Goes(Inner), UNCHANGED <<search, phase, ast>>,
         visited' = visited \union {Inner.curr},
         NEW r, IsRegion(r), r.resume = "none", r.stop = Inner.stop, regions' = Become(r),
         PlainLoops => \A c \in Blocks \ visited' :
           Inner.curr \in Blocks /\ Followed(Inner.curr, c) <=> ~ r.ended /\ r.curr = c
  PROVE  DescentInv'
<1>1. SearchInv' /\ Searched' /\ Flow(fn)' /\ fn' = fn /\ (PlainLoops' <=> PlainLoops)
  BY SearchStep, SameGraph DEF DescentInv, search, Searched
<1>2. visited' \subseteq Address \union {0}
  BY InnerIsRegion DEF DescentInv, IsRegion
<1>3. Nested'
  BY BecomeNests DEF DescentInv
<1>4. EntryFirst'
  BY <1>1, EntryVisited DEF DescentInv, EntryFirst
<1>5. PlainLoops => OnPath' /\ Owed'
  BY TurnOwes DEF DescentInv
<1> QED
  BY <1>1, <1>2, <1>3, <1>4, <1>5 DEF DescentInv

(* The edges of the block a region is at.                                  *)
LEMMA TurnEdges ==
  ASSUME SearchInv, Flow(fn), Inner.curr \in Blocks
  PROVE  LET a == Inner.curr
             b == fn.blocks[a]
             next == Successors(a)
         IN  /\ fn.entry <= a /\ next \subseteq Blocks /\ Blocks \subseteq Address
             /\ b.kind \in {"cbranch", "branch"} =>
                  TrueTarget \in Address /\ (TrueTarget \in Blocks => TrueTarget \in next)
             /\ b.kind = "branch" => next \subseteq {TrueTarget}
             /\ b.kind = "return" => next = {}
             /\ b.kind = "fall" => \A c, d \in next : c = d
             /\ b.kind = "cbranch" => \A c, d \in next \ {TrueTarget} : c = d
<1>1. Inner.curr \in DOMAIN fn.blocks
  BY DEF Blocks
<1>2. Successors(Inner.curr) \subseteq Blocks /\ Blocks \subseteq Address
  BY SuccessorsType DEF SearchInv, IInv, TypeOK, Function, Blocks
<1> QED
  BY <1>1, <1>2 DEF Flow, Successors, TrueTarget, Blocks

(* The false target of a conditional is its other successor, or 0; that is *)
(* a block only if it is the entry.                                        *)
LEMMA FalseEdge ==
  ASSUME SearchInv, Flow(fn), Inner.curr \in Blocks,
         fn.blocks[Inner.curr].kind = "cbranch"
  PROVE  /\ FalseTarget \in Address \union {0}
         /\ Successors(Inner.curr) \subseteq {TrueTarget, FalseTarget}
         /\ FalseTarget \in Blocks =>
              FalseTarget \in Successors(Inner.curr) \ {TrueTarget} \/ FalseTarget = fn.entry
<1> DEFINE others == Successors(Inner.curr) \ {TrueTarget}
<1>1. others \subseteq Blocks /\ Blocks \subseteq Address /\ \A c, d \in others : c = d
  BY TurnEdges
<1>2. Blocks \subseteq Nat
  BY <1>1, AddressAssumption
<1>3. CASE others = {}
  <2>1. FalseTarget = 0
    BY <1>3 DEF FalseTarget
  <2>2. 0 \in Blocks => fn.entry = 0
    BY <1>2 DEF Flow, SearchInv, IInv, TypeOK, Function, Blocks
  <2> QED
    BY <1>3, <2>1, <2>2
<1>4. CASE others # {}
  <2>1. PICK d : d \in others
    BY <1>4
  <2>2. d \in Nat /\ \A c \in others : c = d
    BY <1>1, <1>2, <2>1
  <2>3. \E x \in others : \A c \in others : x <= c
    BY <2>1, <2>2
  <2>4. FalseTarget \in others
    BY <1>4, <2>3 DEF FalseTarget
  <2> QED
    BY <1>1, <2>4
<1> QED
  BY <1>3, <1>4

(* What a turn makes of its region.                                        *)
Ended(x, q) == [x EXCEPT !.seq = q, !.ended = TRUE]
Moved(x, q, c) == [x EXCEPT !.seq = q, !.curr = c]

LEMMA Turned ==
  ASSUME NEW x, IsRegion(x), x.resume = "none", NEW q, NEW c \in Address \union {0}
  PROVE  /\ IsRegion(Ended(x, q)) /\ Ended(x, q).resume = "none"
         /\ Ended(x, q).stop = x.stop /\ Ended(x, q).ended
         /\ IsRegion(Moved(x, q, c)) /\ Moved(x, q, c).resume = "none"
         /\ Moved(x, q, c).stop = x.stop
         /\ Moved(x, q, c).ended = x.ended /\ Moved(x, q, c).curr = c
<1>1. PICK r : r = Ended(x, q)
  OBVIOUS
<1>2. r = [curr |-> x.curr, stop |-> x.stop, seq |-> q, ended |-> TRUE,
           resume |-> x.resume, false_target |-> x.false_target]
  BY <1>1 DEF Ended, IsRegion
<1>3. IsRegion(r) /\ r.resume = "none" /\ r.stop = x.stop /\ r.ended
  BY <1>2 DEF IsRegion
<1>4. PICK m : m = Moved(x, q, c)
  OBVIOUS
<1>5. m = [curr |-> c, stop |-> x.stop, seq |-> q, ended |-> x.ended,
           resume |-> x.resume, false_target |-> x.false_target]
  BY <1>4 DEF Moved, IsRegion
<1>6. /\ IsRegion(m) /\ m.resume = "none" /\ m.stop = x.stop
      /\ m.ended = x.ended /\ m.curr = c
  BY <1>5 DEF IsRegion
<1> QED
  BY <1>1, <1>3, <1>4, <1>6

LEMMA NowhereStep ==
  ASSUME DescentInv, VisitNowhere
  PROVE  DescentInv'
<1>1. PICK x, r : x = Inner /\ r = Ended(x, x.seq)
  OBVIOUS
<1>2. IsRegion(x) /\ x.resume = "none"
  BY <1>1, InnerIsRegion DEF DescentInv, VisitNowhere
<1>3. IsRegion(r) /\ r.resume = "none" /\ r.stop = Inner.stop /\ r.ended
  BY <1>1, <1>2, Turned
<1>4. [x EXCEPT !.ended = TRUE] = r
  BY <1>1, <1>2 DEF Ended, IsRegion
<1>5. /\ phase = "structure" /\ Goes(Inner) /\ UNCHANGED <<search, phase, ast>>
      /\ visited' = visited \union {Inner.curr} /\ regions' = Become(r)
      /\ Inner.curr \notin Blocks
  BY <1>1, <1>4 DEF VisitNowhere
<1> QED
  BY <1>3, <1>5, TurnKeeps

(* A region at a block labels it, and visits the entry if nothing has.     *)
LEMMA VisitMeans ==
  ASSUME DescentInv, NEW kind, Visit(kind)
  PROVE  /\ phase = "structure" /\ Goes(Inner) /\ UNCHANGED <<search, phase, ast>>
         /\ visited' = visited \union {Inner.curr} /\ fn.entry \in visited'
         /\ Inner.curr \in Blocks /\ fn.blocks[Inner.curr].kind = kind
         /\ SearchInv /\ Flow(fn) /\ Nested /\ ~ Inner.ended
         /\ IsRegion(Inner) /\ Inner.resume = "none"
<1>1. /\ phase = "structure" /\ Goes(Inner) /\ UNCHANGED <<search, phase, ast>>
      /\ visited' = visited \union {Inner.curr}
      /\ Inner.curr \in Blocks /\ fn.blocks[Inner.curr].kind = kind
  BY DEF Visit
<1>2. SearchInv /\ Flow(fn) /\ Nested /\ EntryFirst
  BY <1>1 DEF DescentInv
<1>3. fn.entry \in visited'
  BY <1>1, <1>2, EntryVisited DEF search
<1> QED
  BY <1>1, <1>2, <1>3, InnerIsRegion DEF Goes

LEMMA LoopStep ==
  ASSUME DescentInv, VisitLoop
  PROVE  DescentInv'
<1>1. PICK a, q, r : a = Inner.curr /\ r = Moved(Inner, q, FalseTarget)
                     /\ regions' = Become(r)
  BY DEF VisitLoop, Moved
<1>2. /\ phase = "structure" /\ Goes(Inner) /\ UNCHANGED <<search, phase, ast>>
      /\ visited' = visited \union {a} /\ fn.entry \in visited'
      /\ a \in Blocks /\ fn.blocks[a].kind = "cbranch"
      /\ SearchInv /\ Flow(fn) /\ ~ Inner.ended
      /\ IsRegion(Inner) /\ Inner.resume = "none" /\ Recorded(a, TrueTarget)
  BY <1>1, VisitMeans DEF VisitLoop, Recorded
<1>3. /\ FalseTarget \in Address \union {0}
      /\ Successors(a) \subseteq {TrueTarget, FalseTarget}
      /\ FalseTarget \in Blocks =>
           FalseTarget \in Successors(a) \ {TrueTarget} \/ FalseTarget = fn.entry
  BY <1>1, <1>2, FalseEdge
<1>4. /\ IsRegion(r) /\ r.resume = "none" /\ r.stop = Inner.stop
      /\ ~ r.ended /\ r.curr = FalseTarget
  BY <1>1, <1>2, <1>3, Turned
<1>5. ASSUME PlainLoops, NEW c \in Blocks \ visited'
      PROVE  Followed(a, c) <=> FalseTarget = c
  <2>1. ASSUME Followed(a, c)
        PROVE  FalseTarget = c
    BY <1>2, <1>3, <2>1 DEF Followed
  <2>2. ASSUME FalseTarget = c
        PROVE  Followed(a, c)
    <3>1. c \in Successors(a) /\ c # TrueTarget
      BY <1>2, <1>3, <2>2
    <3>2. TrueTarget \in Successors(a)
      BY <1>2 DEF SearchInv, IInv, BackEdgesCloseLoops, Recorded
    <3>3. ~ Recorded(a, c)
      BY <1>2, <1>5, <3>1, <3>2 DEF PlainLoops, Recorded
    <3> QED
      BY <3>1, <3>3 DEF Followed
  <2> QED
    BY <2>1, <2>2
<1> QED
  BY <1>1, <1>2, <1>4, <1>5, TurnKeeps

LEMMA JumpStep ==
  ASSUME DescentInv, VisitJump
  PROVE  DescentInv'
<1>1. PICK a : a = Inner.curr
  OBVIOUS
<1>2. /\ phase = "structure" /\ Goes(Inner) /\ UNCHANGED <<search, phase, ast>>
      /\ visited' = visited \union {a}
      /\ a \in Blocks /\ fn.blocks[a].kind = "branch"
      /\ SearchInv /\ Flow(fn) /\ ~ Inner.ended
      /\ IsRegion(Inner) /\ Inner.resume = "none"
  BY <1>1, VisitMeans DEF VisitJump
<1>3. /\ TrueTarget \in Address /\ Successors(a) \subseteq {TrueTarget}
      /\ TrueTarget \in Blocks => TrueTarget \in Successors(a)
  BY <1>1, <1>2, TurnEdges
<1>4. CASE Recorded(a, TrueTarget) \/ TrueTarget \in visited'
  <2>1. PICK q, r : r = Ended(Inner, q) /\ regions' = Become(r)
    BY <1>1, <1>4 DEF VisitJump, Ended, Recorded
  <2>2. IsRegion(r) /\ r.resume = "none" /\ r.stop = Inner.stop /\ r.ended
    BY <1>2, <2>1, Turned
  <2>3. \A c \in Blocks \ visited' : ~ Followed(a, c)
    BY <1>3, <1>4 DEF Followed
  <2> QED
    BY <1>1, <1>2, <2>1, <2>2, <2>3, TurnKeeps
<1>5. CASE ~ (Recorded(a, TrueTarget) \/ TrueTarget \in visited')
  <2>1. PICK q, r : r = Moved(Inner, q, TrueTarget) /\ regions' = Become(r)
    BY <1>1, <1>5 DEF VisitJump, Moved, Recorded
  <2>2. /\ IsRegion(r) /\ r.resume = "none" /\ r.stop = Inner.stop
        /\ ~ r.ended /\ r.curr = TrueTarget
    BY <1>2, <1>3, <2>1, Turned
  <2>3. \A c \in Blocks \ visited' : Followed(a, c) <=> TrueTarget = c
    BY <1>3, <1>5 DEF Followed
  <2> QED
    BY <1>1, <1>2, <2>1, <2>2, <2>3, TurnKeeps
<1> QED
  BY <1>4, <1>5

LEMMA ReturnStep ==
  ASSUME DescentInv, VisitReturn
  PROVE  DescentInv'
<1>1. PICK a, q, r : a = Inner.curr /\ r = Ended(Inner, q) /\ regions' = Become(r)
  BY DEF VisitReturn, Ended
<1>2. /\ phase = "structure" /\ Goes(Inner) /\ UNCHANGED <<search, phase, ast>>
      /\ visited' = visited \union {a}
      /\ a \in Blocks /\ fn.blocks[a].kind = "return"
      /\ SearchInv /\ Flow(fn) /\ IsRegion(Inner) /\ Inner.resume = "none"
  BY <1>1, VisitMeans DEF VisitReturn
<1>3. Successors(a) = {}
  BY <1>1, <1>2, TurnEdges
<1>4. IsRegion(r) /\ r.resume = "none" /\ r.stop = Inner.stop /\ r.ended
  BY <1>1, <1>2, Turned
<1>5. \A c \in Blocks \ visited' : ~ Followed(a, c)
  BY <1>3 DEF Followed
<1> QED
  BY <1>1, <1>2, <1>4, <1>5, TurnKeeps

LEMMA FallthroughStep ==
  ASSUME DescentInv, VisitFallthrough
  PROVE  DescentInv'
<1>1. PICK a, next : a = Inner.curr /\ next = Successors(a)
  OBVIOUS
<1>2. /\ phase = "structure" /\ Goes(Inner) /\ UNCHANGED <<search, phase, ast>>
      /\ visited' = visited \union {a}
      /\ a \in Blocks /\ fn.blocks[a].kind = "fall"
      /\ SearchInv /\ Flow(fn) /\ ~ Inner.ended
      /\ IsRegion(Inner) /\ Inner.resume = "none"
  BY <1>1, VisitMeans DEF VisitFallthrough
<1>3. next \subseteq Address /\ \A c, d \in next : c = d
  BY <1>1, <1>2, TurnEdges
<1>4. CASE next \subseteq visited'
  <2>1. PICK q, r : r = Ended(Inner, q) /\ regions' = Become(r)
    BY <1>1, <1>4 DEF VisitFallthrough, Ended
  <2>2. IsRegion(r) /\ r.resume = "none" /\ r.stop = Inner.stop /\ r.ended
    BY <1>2, <2>1, Turned
  <2>3. \A c \in Blocks \ visited' : ~ Followed(a, c)
    BY <1>1, <1>4 DEF Followed
  <2> QED
    BY <1>1, <1>2, <2>1, <2>2, <2>3, TurnKeeps
<1>5. CASE ~ (next \subseteq visited')
  <2>1. PICK d, q, r :
          d \in next \ visited' /\ r = Moved(Inner, q, d) /\ regions' = Become(r)
    BY <1>1, <1>5 DEF VisitFallthrough, Moved
  <2>2. /\ IsRegion(r) /\ r.resume = "none" /\ r.stop = Inner.stop
        /\ ~ r.ended /\ r.curr = d
    BY <1>2, <1>3, <2>1, Turned
  <2>3. PlainLoops => \A c \in next : ~ Recorded(a, c)
    BY <1>1, <1>2 DEF PlainLoops, Recorded
  <2>4. PlainLoops => \A c \in Blocks \ visited' : Followed(a, c) <=> d = c
    BY <1>1, <1>3, <2>1, <2>3 DEF Followed
  <2> QED
    BY <1>1, <1>2, <2>1, <2>2, <2>4, TurnKeeps
<1> QED
  BY <1>4, <1>5

(* A conditional waits with false target f, in a new region for the body.  *)
Waiting(x, q, f, resume) ==
  [x EXCEPT !.seq = q, !.resume = resume, !.false_target = f]

LEMMA WaitingMeans ==
  ASSUME NEW x, IsRegion(x), NEW q, NEW f \in Address \union {0}, NEW resume
  PROVE  /\ IsRegion(Waiting(x, q, f, resume)) /\ Waiting(x, q, f, resume).resume = resume
         /\ Waiting(x, q, f, resume).stop = x.stop /\ Waiting(x, q, f, resume).curr = x.curr
         /\ Waiting(x, q, f, resume).ended = x.ended
         /\ Waiting(x, q, f, resume).false_target = f
<1>1. PICK r : r = Waiting(x, q, f, resume)
  OBVIOUS
<1>2. r = [curr |-> x.curr, stop |-> x.stop, seq |-> q, ended |-> x.ended,
           resume |-> resume, false_target |-> f]
  BY <1>1 DEF Waiting, IsRegion
<1>3. /\ IsRegion(r) /\ r.resume = resume /\ r.stop = x.stop /\ r.curr = x.curr
      /\ r.ended = x.ended /\ r.false_target = f
  BY <1>2 DEF IsRegion
<1> QED
  BY <1>1, <1>3

LEMMA RegionMeans ==
  ASSUME NEW start \in Address \union {0}, NEW stop \in SUBSET (Address \union {0})
  PROVE  /\ IsRegion(Region(start, stop))
         /\ Region(start, stop).curr = start /\ Region(start, stop).stop = stop
         /\ ~ Region(start, stop).ended /\ Region(start, stop).resume = "none"
<1>1. PICK b : b = Region(start, stop)
  OBVIOUS
<1>2. b = [curr |-> start, stop |-> stop, seq |-> <<>>, ended |-> FALSE,
           resume |-> "none", false_target |-> 0]
  BY <1>1 DEF Region
<1>3. IsRegion(b) /\ b.curr = start /\ b.stop = stop /\ ~ b.ended /\ b.resume = "none"
  BY <1>2 DEF IsRegion
<1> QED
  BY <1>1, <1>3

LEMMA Enters ==
  ASSUME Nested, NEW r, NEW b, regions' = Append(Become(r), b)
  PROVE  /\ Depth \in Nat \ {0} /\ Depth' = Depth + 1 /\ IsSequence(regions)'
         /\ regions'[Depth] = r /\ regions'[Depth + 1] = b
         /\ \A j \in 1 .. Depth - 1 : regions'[j] = regions[j]
<1>1. PICK s, t, u : s = regions /\ t = Become(r) /\ u = regions'
  OBVIOUS
<1>2. PICK n \in Nat \ {0} : n = Len(s)
  BY <1>1, SequenceFacts DEF Nested, Depth
<1>3. s = [j \in 1 .. n |-> s[j]]
  BY <1>1, <1>2, SequenceFacts DEF Nested
<1>4. t = [s EXCEPT ![n] = r]
  BY <1>1, <1>2 DEF Become
<1>5. t = [j \in 1 .. n |-> IF j = n THEN r ELSE s[j]]
  BY <1>3, <1>4
<1>6. t = [j \in 1 .. n |-> t[j]] /\ t[n] = r /\ \A j \in 1 .. n - 1 : t[j] = s[j]
  BY <1>5
<1>7. IsSequence(t) /\ Len(t) = n
  BY <1>6, AnySequence
<1>8. u = Append(t, b)
  BY <1>1
<1>9. IsSequence(u) /\ Len(u) = n + 1 /\ u[n + 1] = b /\ \A j \in 1 .. n : u[j] = t[j]
  BY <1>7, <1>8, Appended
<1>10. u[n] = r /\ \A j \in 1 .. n - 1 : u[j] = s[j]
  BY <1>2, <1>6, <1>9
<1>11. IsSequence(regions)'
  BY <1>1, <1>9 DEF IsSequence
<1> QED
  BY <1>1, <1>2, <1>9, <1>10, <1>11 DEF Depth

LEMMA ConditionalStep ==
  ASSUME DescentInv, VisitConditional
  PROVE  DescentInv'
<1>1. PICK a, f, t, q, resume, w, b :
        /\ a = Inner.curr /\ f = FalseTarget /\ t = TrueTarget
        /\ resume = IF Recorded(a, f) THEN "loop" ELSE "converge"
        /\ w = Waiting(Inner, q, f, resume) /\ b = Region(t, {f})
        /\ regions' = Append(Become(w), b)
  BY DEF VisitConditional, Waiting, Recorded
<1>2. /\ phase = "structure" /\ Goes(Inner) /\ UNCHANGED <<search, phase, ast>>
      /\ visited' = visited \union {a} /\ fn.entry \in visited'
      /\ a \in Blocks /\ fn.blocks[a].kind = "cbranch"
      /\ SearchInv /\ Flow(fn) /\ Nested /\ ~ Inner.ended
      /\ IsRegion(Inner) /\ Inner.resume = "none" /\ ~ Recorded(a, t)
  BY <1>1, VisitMeans DEF VisitConditional, Recorded
<1>3. /\ f \in Address \union {0} /\ t \in Address
      /\ Successors(a) \subseteq {t, f}
      /\ f \in Blocks => f \in Successors(a) \/ f = fn.entry
      /\ t \in Blocks => t \in Successors(a)
  BY <1>1, <1>2, FalseEdge, TurnEdges
<1>4. /\ IsRegion(w) /\ w.resume = resume /\ w.stop = Inner.stop /\ w.curr = a
      /\ ~ w.ended /\ w.false_target = f
      /\ IsRegion(b) /\ b.curr = t /\ b.stop = {f} /\ ~ b.ended /\ b.resume = "none"
  <2>1. PICK x, stop : x = Inner /\ stop = {f}
    OBVIOUS
  <2>2. /\ w = Waiting(x, q, f, resume) /\ IsRegion(x) /\ x.curr = a /\ ~ x.ended
        /\ b = Region(t, stop) /\ f \in Address \union {0} /\ t \in Address \union {0}
        /\ stop \in SUBSET (Address \union {0})
    BY <1>1, <1>2, <1>3, <2>1
  <2>3. /\ IsRegion(w) /\ w.resume = resume /\ w.stop = x.stop /\ w.curr = x.curr
        /\ w.ended = x.ended /\ w.false_target = f
    BY <2>2, WaitingMeans
  <2>4. IsRegion(b) /\ b.curr = t /\ b.stop = stop /\ ~ b.ended /\ b.resume = "none"
    BY <2>2, RegionMeans
  <2> QED
    BY <2>1, <2>2, <2>3, <2>4
<1>5. PICK n \in Nat \ {0} :
        /\ n = Depth /\ Depth' = n + 1 /\ IsSequence(regions)'
        /\ regions'[n] = w /\ regions'[n + 1] = b
        /\ \A j \in 1 .. n - 1 : regions'[j] = regions[j]
  <2>1. Nested /\ regions' = Append(Become(w), b)
    BY <1>1, <1>2
  <2> QED
    BY <2>1, Enters
<1>6. a = regions[n].curr /\ Inner.stop = regions[n].stop
      /\ ~ regions[n].ended /\ a \notin visited
  BY <1>1, <1>2, <1>5 DEF Inner, Depth, Goes
<1>7. SearchInv' /\ Searched' /\ Flow(fn)' /\ fn' = fn /\ (PlainLoops' <=> PlainLoops)
  BY <1>2, SearchStep, SameGraph DEF DescentInv, search, Searched
<1>8. visited' \subseteq Address \union {0} /\ EntryFirst'
  BY <1>1, <1>2, <1>7 DEF DescentInv, IsRegion, EntryFirst
<1>9. Nested'
  <2>1. /\ \A j \in 1 .. n : IsRegion(regions[j])
        /\ regions[1].stop = {}
        /\ \A j \in 1 .. n - 1 : Waits(regions[j]) /\ regions[j + 1].stop = {regions[j].false_target}
    BY <1>2, <1>5 DEF Nested
  <2>2. \A j \in 1 .. n : regions'[j].stop = regions[j].stop
    BY <1>4, <1>5, <1>6
  <2>3. \A j \in 1 .. n + 1 : IsRegion(regions[j])'
    <3>1. \A j \in 1 .. n + 1 : IsRegion(regions'[j])
      BY <1>4, <1>5, <2>1
    <3> QED
      BY <3>1 DEF IsRegion
  <2>4. Waits(regions[n])'
    <3>1. /\ ~ w.ended /\ w.resume \in {"loop", "converge"}
          /\ w.curr \in Blocks' \intersect visited'
          /\ w.resume = "loop" => Recorded(w.curr, w.false_target)'
      BY <1>1, <1>2, <1>4, SameGraph
    <3> QED
      BY <1>5, <3>1 DEF Waits
  <2>5. \A j \in 1 .. n - 1 : Waits(regions[j])'
    BY <1>2, <1>5, <2>1, SameGraph DEF Waits
  <2>6. \A j \in 1 .. n - 1 : regions'[j + 1].stop = {regions'[j].false_target}
    BY <1>5, <2>1, <2>2
  <2>7. \A j \in 1 .. n : Waits(regions[j])' /\ regions'[j + 1].stop = {regions'[j].false_target}
    BY <1>4, <1>5, <2>4, <2>5, <2>6
  <2> QED
    BY <1>4, <1>5, <2>1, <2>2, <2>3, <2>7 DEF Nested
<1>10. ASSUME PlainLoops
       PROVE  OnPath' /\ Owed'
  <2>1. OnPath /\ Owed
    BY <1>2, <1>10 DEF DescentInv
  <2>2. \A j \in 1 .. n - 1 : \A c : Owes(j, c)' <=> Owes(j, c)
    BY <1>5 DEF Owes
  <2>3. \A c : /\ Owes(n, c)' <=> ~ Recorded(a, f) /\ c = f
               /\ Owes(n + 1, c)' <=> c = t
               /\ Owes(n, c) <=> c = a
    <3> TAKE c
    <3>1. Owes(n, c)' <=> ~ Recorded(a, f) /\ c = f
      <4>1. n # Depth' /\ regions'[n] = w /\ w.false_target = f
        BY <1>4, <1>5
      <4>2. w.resume = "converge" <=> ~ Recorded(a, f)
        BY <1>1, <1>4
      <4> QED
        BY <4>1, <4>2 DEF Owes
    <3>2. Owes(n + 1, c)' <=> c = t
      BY <1>4, <1>5 DEF Owes
    <3>3. Owes(n, c) <=> c = a
      BY <1>5, <1>6 DEF Owes
    <3> QED
      BY <3>1, <3>2, <3>3
  <2>4. \A i \in 1 .. n - 1 : Leads(regions[i].curr, a)
    <3>1. Owes(n, a) /\ n \in 1 .. Depth /\ a \in Blocks \ visited
      BY <1>2, <1>5, <1>6, <2>3
    <3> QED
      BY <2>1, <3>1 DEF OnPath
  <2>5. /\ t \in Blocks => Followed(a, t)
        /\ f \in Blocks \ visited' /\ ~ Recorded(a, f) => Followed(a, f)
    BY <1>2, <1>3 DEF Followed
  <2>6. OnPath'
    <3> SUFFICES ASSUME NEW j \in 1 .. n + 1, NEW i \in 1 .. j - 1
                 PROVE  /\ j < n + 1 => Leads(regions'[i].curr, regions'[j].curr)
                        /\ \A c \in Blocks \ visited' : Owes(j, c)' => Leads(regions'[i].curr, c)
      BY <1>2, <1>5, SameGraph DEF OnPath
    <3>1. CASE j = n + 1
      <4>1. Leads(regions'[i].curr, a)
        BY <1>4, <1>5, <2>4, <3>1, LeadsItself
      <4> QED
        BY <1>5, <2>3, <2>5, <3>1, <4>1, LeadsAlong
    <3>2. CASE j = n
      <4>1. i \in 1 .. n - 1 /\ Leads(regions'[i].curr, a)
        BY <1>5, <2>4, <3>2
      <4> QED
        BY <1>4, <1>5, <2>3, <2>5, <3>2, <4>1, LeadsAlong
    <3>3. CASE j \in 1 .. n - 1
      <4>1. regions'[i] = regions[i] /\ regions'[j] = regions[j]
        BY <1>5, <3>3
      <4> QED
        BY <1>2, <1>5, <2>1, <2>2, <3>3, <4>1 DEF OnPath
    <3> QED
      BY <1>5, <3>1, <3>2, <3>3
  <2>7. Owed'
    <3> SUFFICES ASSUME NEW x \in Blocks \intersect visited', NEW c \in Blocks \ visited',
                        Followed(x, c)
                 PROVE  \E j \in 1 .. n + 1 :
                          Owes(j, c)' /\ \A i \in 1 .. j - 1 : Leads(regions'[i].curr, x)
      BY <1>2, <1>5, SameGraph DEF Owed
    <3>1. CASE x = a
      <4>1. \A i \in 1 .. n : Leads(regions'[i].curr, a)
        BY <1>4, <1>5, <2>4, LeadsItself
      <4>2. CASE c = t
        BY <1>5, <2>3, <3>1, <4>1, <4>2
      <4>3. CASE c = f
        BY <1>5, <2>3, <3>1, <4>1, <4>3 DEF Followed
      <4> QED
        BY <1>3, <3>1, <4>2, <4>3 DEF Followed
    <3>2. CASE x # a
      <4>1. PICK j \in 1 .. n : Owes(j, c) /\ \A i \in 1 .. j - 1 : Leads(regions[i].curr, x)
        BY <1>2, <1>5, <2>1, <3>2 DEF Owed
      <4>2. j \in 1 .. n - 1 /\ \A i \in 1 .. j - 1 : i \in 1 .. n - 1
        BY <1>2, <1>5, <2>3, <4>1
      <4>3. Owes(j, c)' /\ \A i \in 1 .. j - 1 : Leads(regions'[i].curr, x)
        BY <1>5, <2>2, <4>1, <4>2
      <4> QED
        BY <1>5, <4>3
    <3> QED
      BY <3>1, <3>2
  <2> QED
    BY <2>6, <2>7
<1> QED
  BY <1>2, <1>7, <1>8, <1>9, <1>10 DEF DescentInv

(* The caller ends at a goto, or goes on at its false target.              *)
Resumes(x, q) ==
  IF x.resume = "loop"
  THEN [x EXCEPT !.seq = q, !.ended = TRUE, !.resume = "none"]
  ELSE [x EXCEPT !.seq = q, !.curr = x.false_target, !.resume = "none"]

LEMMA Resumed ==
  ASSUME NEW x, IsRegion(x), ~ x.ended, NEW q
  PROVE  /\ IsRegion(Resumes(x, q)) /\ Resumes(x, q).stop = x.stop
         /\ Resumes(x, q).resume = "none"
         /\ Resumes(x, q).ended <=> x.resume = "loop"
         /\ ~ Resumes(x, q).ended => Resumes(x, q).curr = x.false_target
<1> SUFFICES ASSUME NEW r, r = Resumes(x, q)
             PROVE  /\ IsRegion(r) /\ r.stop = x.stop /\ r.resume = "none"
                    /\ r.ended <=> x.resume = "loop"
                    /\ ~ r.ended => r.curr = x.false_target
  OBVIOUS
<1>1. CASE x.resume = "loop"
  <2>1. r = [curr |-> x.curr, stop |-> x.stop, seq |-> q, ended |-> TRUE,
             resume |-> "none", false_target |-> x.false_target]
    BY <1>1 DEF IsRegion, Resumes
  <2> QED
    BY <1>1, <2>1 DEF IsRegion
<1>2. CASE x.resume # "loop"
  <2>1. r = [curr |-> x.false_target, stop |-> x.stop, seq |-> q, ended |-> x.ended,
             resume |-> "none", false_target |-> x.false_target]
    BY <1>2 DEF IsRegion, Resumes
  <2> QED
    BY <1>2, <2>1 DEF IsRegion
<1> QED
  BY <1>1, <1>2

LEMMA Returns ==
  ASSUME Nested, Depth > 1, NEW r, regions' = Append(SubSeq(regions, 1, Depth - 2), r)
  PROVE  /\ Depth \in Nat /\ Depth' = Depth - 1 /\ IsSequence(regions)'
         /\ regions'[Depth - 1] = r
         /\ \A j \in 1 .. Depth - 2 : regions'[j] = regions[j]
<1>1. PICK s, t, u : s = regions /\ t = SubSeq(s, 1, Len(s) - 2) /\ u = regions'
  OBVIOUS
<1>2. PICK m \in Nat : m = Len(s) - 2
  BY <1>1, SequenceFacts DEF Nested, Depth
<1>3. IsSequence(t) /\ Len(t) = m /\ \A j \in 1 .. m : t[j] = s[j]
  <2>1. IsSequence(s) /\ m \in 0 .. Len(s) /\ t = SubSeq(s, 1, m)
    BY <1>1, <1>2, SequenceFacts DEF Nested
  <2> QED
    BY <2>1, Shortened
<1>4. u = Append(t, r)
  BY <1>1 DEF Depth
<1>5. IsSequence(u) /\ Len(u) = m + 1 /\ u[m + 1] = r /\ \A j \in 1 .. m : u[j] = t[j]
  BY <1>3, <1>4, Appended
<1>6. IsSequence(regions)'
  BY <1>1, <1>5 DEF IsSequence
<1>7. Len(s) = m + 2
  BY <1>1, <1>2, SequenceFacts DEF Nested
<1> QED
  BY <1>1, <1>2, <1>3, <1>5, <1>6, <1>7 DEF Depth

LEMMA EndBodyStep ==
  ASSUME DescentInv, EndBody
  PROVE  DescentInv'
<1>1. /\ phase = "structure" /\ ~ Goes(Inner) /\ UNCHANGED <<search, phase, visited, ast>>
      /\ Nested /\ SearchInv /\ Searched /\ Flow(fn) /\ EntryFirst /\ Depth > 1
  BY DEF EndBody, DescentInv, Depth
<1>2. PICK x, q, r :
        /\ x = regions[Depth - 1]
        /\ r = Resumes(x, q)
        /\ regions' = Append(SubSeq(regions, 1, Depth - 2), r)
  <2> DEFINE y == regions[Len(regions) - 1]
  <2>1. PICK q, g : /\ q = Append(y.seq, If(y.curr, Inner.seq))
                    /\ g = Append(q, Goto(y.false_target))
    OBVIOUS
  <2>2. CASE y.resume = "loop"
    BY <2>1, <2>2 DEF EndBody, Depth, Resumes
  <2>3. CASE y.resume # "loop"
    BY <2>1, <2>3 DEF EndBody, Depth, Resumes
  <2> QED
    BY <2>2, <2>3
<1>3. PICK n \in Nat \ {0} :
        /\ Depth = n + 1 /\ Depth' = n /\ IsSequence(regions)' /\ regions'[n] = r
        /\ \A j \in 1 .. n - 1 : regions'[j] = regions[j]
  <2>1. /\ Depth \in Nat /\ Depth' = Depth - 1 /\ IsSequence(regions)'
        /\ regions'[Depth - 1] = r
        /\ \A j \in 1 .. Depth - 2 : regions'[j] = regions[j]
    BY <1>1, <1>2, Returns
  <2>2. PICK n \in Nat \ {0} : Depth = n + 1
    BY <1>1, <2>1
  <2> QED
    BY <2>1, <2>2
<1>4. /\ x = regions[n] /\ IsRegion(x) /\ Waits(x)
      /\ Inner = regions[n + 1] /\ Inner.stop = {x.false_target}
  <2>1. x = regions[n] /\ Inner = regions[n + 1]
    BY <1>2, <1>3 DEF Inner, Depth
  <2>2. n \in 1 .. Depth /\ n \in 1 .. Depth - 1
    BY <1>3
  <2>3. IsRegion(regions[n]) /\ Waits(regions[n])
        /\ regions[n + 1].stop = {regions[n].false_target}
    BY <1>1, <2>2 DEF Nested
  <2> QED
    BY <2>1, <2>3
<1>5. /\ IsRegion(r) /\ r.stop = x.stop /\ r.resume = "none"
      /\ r.ended <=> x.resume = "loop"
      /\ ~ r.ended => r.curr = x.false_target
  BY <1>2, <1>4, Resumed DEF Waits
<1>6. SearchInv' /\ Searched' /\ Flow(fn)' /\ fn' = fn /\ (PlainLoops' <=> PlainLoops)
  BY <1>1, SearchStep, SameGraph DEF search, Searched
<1>7. visited' \subseteq Address \union {0} /\ EntryFirst'
  BY <1>1, <1>3, <1>6 DEF DescentInv, EntryFirst
<1>8. Nested'
  <2>1. /\ \A j \in 1 .. n : IsRegion(regions[j])
        /\ regions[1].stop = {}
        /\ \A j \in 1 .. n - 1 : Waits(regions[j]) /\ regions[j + 1].stop = {regions[j].false_target}
    BY <1>1, <1>3 DEF Nested
  <2>2. \A j \in 1 .. n : regions'[j].stop = regions[j].stop /\ IsRegion(regions'[j])
    BY <1>3, <1>4, <1>5, <2>1
  <2>3. \A j \in 1 .. n : IsRegion(regions[j])'
    BY <2>2 DEF IsRegion
  <2>4. \A j \in 1 .. n - 1 : Waits(regions[j])' /\ regions'[j + 1].stop = {regions'[j].false_target}
    BY <1>1, <1>3, <2>1, <2>2, SameGraph DEF Waits
  <2> QED
    BY <1>3, <1>5, <2>1, <2>2, <2>3, <2>4 DEF Nested
<1>9. ASSUME PlainLoops
      PROVE  OnPath' /\ Owed'
  <2>1. OnPath /\ Owed
    BY <1>1, <1>9 DEF DescentInv
  <2>2. \A j \in 1 .. n : \A c : Owes(j, c)' <=> Owes(j, c)
    BY <1>3, <1>4, <1>5 DEF Owes, Waits
  <2>3. OnPath'
    <3> SUFFICES ASSUME NEW j \in 1 .. n, NEW i \in 1 .. j - 1
                 PROVE  /\ j < n => Leads(regions'[i].curr, regions'[j].curr)
                        /\ \A c \in Blocks \ visited : Owes(j, c)' => Leads(regions'[i].curr, c)
      BY <1>1, <1>3, SameGraph DEF OnPath
    <3>1. regions'[i] = regions[i] /\ (j < n => regions'[j] = regions[j])
      BY <1>3
    <3> QED
      BY <1>3, <2>1, <2>2, <3>1 DEF OnPath
  <2>4. Owed'
    <3> SUFFICES ASSUME NEW a \in Blocks \intersect visited, NEW c \in Blocks \ visited,
                        Followed(a, c)
                 PROVE  \E j \in 1 .. n :
                          Owes(j, c)' /\ \A i \in 1 .. j - 1 : Leads(regions'[i].curr, a)
      BY <1>1, <1>3, SameGraph DEF Owed
    <3>1. PICK j \in 1 .. n + 1 : Owes(j, c) /\ \A i \in 1 .. j - 1 : Leads(regions[i].curr, a)
      BY <1>3, <2>1 DEF Owed
    <3>2. CASE j \in 1 .. n
      BY <1>3, <2>2, <3>1, <3>2
    <3>3. CASE j = n + 1
      <4>1. c = x.false_target
        BY <1>1, <1>3, <1>4, <3>1, <3>3 DEF Owes, Goes
      <4>2. Leads(x.curr, a) /\ \A i \in 1 .. n - 1 : Leads(regions[i].curr, a)
        BY <1>3, <1>4, <3>1, <3>3
      <4>3. x.resume # "loop"
        <5>1. Leads(x.curr, c)
          BY <4>2, LeadsAlong
        <5>2. x.curr \in Blocks /\ x.curr # c
          BY <1>4 DEF Waits
        <5> QED
          BY <1>1, <1>4, <4>1, <5>1, <5>2, NoPathBack DEF Waits
      <4>4. Owes(n, c)'
        BY <1>3, <1>5, <4>1, <4>3 DEF Owes
      <4> QED
        BY <1>3, <4>2, <4>4
    <3> QED
      BY <1>3, <3>2, <3>3
  <2> QED
    BY <2>3, <2>4
<1> QED
  BY <1>1, <1>6, <1>7, <1>8, <1>9 DEF DescentInv

LEMMA EndFunctionStep ==
  ASSUME DescentInv, EndFunction
  PROVE  DescentInv'
<1>1. /\ phase = "structure" /\ ~ Goes(Inner) /\ UNCHANGED <<search, visited>>
      /\ phase' = "done" /\ regions' = <<>> /\ Depth = 1
      /\ Nested /\ SearchInv /\ Searched /\ Flow(fn) /\ EntryFirst
  BY DEF EndFunction, DescentInv, Depth
<1>2. Inner = regions[1] /\ Inner.stop = {}
  BY <1>1 DEF Nested, Inner, Depth
<1>3. SearchInv' /\ Searched' /\ Flow(fn)' /\ fn' = fn /\ (PlainLoops' <=> PlainLoops)
  BY <1>1, SearchStep, SameGraph DEF search, Searched
<1>4. fn.entry \in visited
  BY <1>1, <1>2 DEF EntryFirst, Goes
<1>5. ASSUME PlainLoops
      PROVE  FollowClosed(Blocks \intersect visited)'
  <2>1. Owed
    BY <1>1, <1>5 DEF DescentInv
  <2>2. \A c \in Blocks \ visited : \A j \in 1 .. Depth : ~ Owes(j, c)
    BY <1>1, <1>2 DEF Owes, Goes
  <2>3. ASSUME NEW a \in Blocks \intersect visited, NEW c \in Successors(a)
        PROVE  Recorded(a, c) \/ c \in Blocks \intersect visited
    <3>1. c \in Blocks
      BY <1>1, SuccessorsType DEF SearchInv
    <3> QED
      BY <2>1, <2>2, <3>1 DEF Owed, Followed
  <2> QED
    BY <1>1, <2>3, SameGraph DEF FollowClosed
<1> QED
  BY <1>1, <1>3, <1>4, <1>5 DEF DescentInv

LEMMA StartStep ==
  ASSUME DescentInv, Start
  PROVE  DescentInv'
<1>1. PICK r : r = Region(fn.entry, {}) /\ regions' = <<r>>
  BY DEF Start
<1>2. /\ phase = "search" /\ phase' = "structure" /\ UNCHANGED search
      /\ visited' = {} /\ Searched /\ SearchInv /\ Flow(fn)
  BY DEF Start, DescentInv
<1>3. fn.entry \in Address \union {0} /\ {} \in SUBSET (Address \union {0})
  BY <1>2 DEF SearchInv, IInv, TypeOK, Function
<1>4. IsRegion(r) /\ r.curr = fn.entry /\ r.stop = {} /\ ~ r.ended /\ r.resume = "none"
  BY <1>1, <1>3, RegionMeans
<1>5. SearchInv' /\ Searched' /\ Flow(fn)' /\ fn' = fn
  BY <1>2, SearchStep, SameGraph DEF search, Searched
<1>6. IsSequence(regions)' /\ Depth' = 1 /\ regions'[1] = r
  <2>1. PICK u : u = regions' /\ u = <<r>>
    BY <1>1
  <2>2. u = [j \in 1 .. 1 |-> u[j]] /\ u[1] = r
    BY <2>1
  <2>3. IsSequence(u) /\ Len(u) = 1
    BY <2>2, AnySequence
  <2> QED
    BY <2>1, <2>2, <2>3 DEF IsSequence, Depth
<1>7. IsRegion(regions[1])'
  BY <1>4, <1>6 DEF IsRegion
<1>8. Nested' /\ EntryFirst'
  BY <1>2, <1>4, <1>5, <1>6, <1>7 DEF Nested, EntryFirst
<1>9. OnPath' /\ Owed'
  BY <1>2, <1>6 DEF OnPath, Owed
<1> QED
  BY <1>2, <1>5, <1>8, <1>9 DEF DescentInv

LEMMA DescentInitially ==
  ASSUME StructureInit
  PROVE  DescentInv
<1>1. SearchInv
  BY SearchInitially DEF StructureInit
<1>2. Flow(fn)
  BY FlowAssumption DEF StructureInit, Init
<1> QED
  BY <1>1, <1>2 DEF StructureInit, DescentInv

LEMMA DescentStep ==
  ASSUME DescentInv, [StructureNext]_vars
  PROVE  DescentInv'
<1>1. CASE SearchBackEdges
  <2>1. /\ phase = "search" /\ Search /\ fn' = fn
        /\ UNCHANGED <<phase, regions, visited, ast>>
    BY <1>1 DEF SearchBackEdges, Search, FindBackEdge, SkipSeen, Descend, Leave
  <2>2. SearchInv'
    BY <2>1, SearchStep DEF DescentInv
  <2> QED
    BY <2>1, <2>2 DEF DescentInv, Flow
<1>2. CASE UNCHANGED vars
  <2>1. SearchInv' /\ UNCHANGED search
    BY <1>2, SearchStep DEF DescentInv, vars
  <2>2. UNCHANGED <<phase, regions, visited>>
    BY <1>2 DEF vars
  <2>3. Nested' <=> Nested
    BY <2>1, <2>2 DEF Nested, Depth, Waits, Recorded, Blocks, search, IsSequence, IsRegion
  <2>4. (EntryFirst' <=> EntryFirst) /\ (Searched' <=> Searched)
    BY <2>1, <2>2 DEF EntryFirst, Depth, search, Searched
  <2>5. (OnPath' <=> OnPath) /\ (Owed' <=> Owed)
    BY <2>1, <2>2, SameGraph DEF OnPath, Owed, Owes, Depth
  <2>6. FollowClosed(Blocks \intersect visited)' <=> FollowClosed(Blocks \intersect visited)
    BY <2>1, <2>2, SameGraph DEF FollowClosed
  <2> QED
    BY <2>1, <2>2, <2>3, <2>4, <2>5, <2>6, SameGraph DEF DescentInv
<1> QED
  BY <1>1, <1>2, StartStep, NowhereStep, LoopStep, ConditionalStep, JumpStep, ReturnStep,
     FallthroughStep, EndBodyStep, EndFunctionStep DEF StructureNext, Step

-----------------------------------------------------------------------------
(* The nodes of a tree.                                                    *)

LEMMA LeastElement ==
  ASSUME NEW T \in SUBSET Nat, T # {}
  PROVE  \E x \in T : \A y \in T : x <= y
<1>1. PICK x \in T : \A y \in T : ~ (<<y, x>> \in OpToRel(<, Nat))
  BY NatLessThanWellFounded, WFMin
<1>2. ASSUME NEW y \in T PROVE x <= y
  <2>1. ~ (<<y, x>> \in OpToRel(<, Nat))
    BY <1>1
  <2>2. y < x => <<y, x>> \in OpToRel(<, Nat)
    BY DEF OpToRel
  <2>3. ~ (y < x)
    BY <2>1, <2>2, Zenon
  <2> QED
    BY <2>3
<1> QED
  BY <1>2

(* A set that holds 0, and with each number below n the next, holds all    *)
(* numbers up to n.                                                        *)
LEMMA InductionUpTo ==
  ASSUME NEW n \in Nat, NEW T, 0 \in T, \A m \in 0 .. n : m < n /\ m \in T => m + 1 \in T
  PROVE  0 .. n \subseteq T
<1> SUFFICES ASSUME (0 .. n) \ T # {} PROVE FALSE
  OBVIOUS
<1>1. PICK m \in (0 .. n) \ T : \A k \in (0 .. n) \ T : m <= k
  <2>1. (0 .. n) \ T \in SUBSET Nat
    OBVIOUS
  <2> QED
    BY <2>1, LeastElement
<1>2. m # 0 /\ m - 1 \in 0 .. n /\ m - 1 < n /\ (m - 1) + 1 = m
  BY <1>1
<1>3. m - 1 \in T
  BY <1>1, <1>2
<1> QED
  BY <1>1, <1>2, <1>3

(* The level below the nodes of S.                                         *)
Below(S) == UNION {NodesAt(n.path, n.node.then) : n \in {m \in S : m.node.node = "If"}}

LevelsOf(f, seq, n) ==
  f = [d \in 0 .. n |-> IF d = 0 THEN NodesAt(<<>>, seq) ELSE Below(f[d - 1])]

LEMMA LevelsExist ==
  ASSUME NEW seq, NEW n \in Nat
  PROVE  \E f : LevelsOf(f, seq, n)
<1> DEFINE T == {m \in 0 .. n : \E f : LevelsOf(f, seq, m)}
<1>1. 0 \in T
  <2> DEFINE f == [d \in 0 .. 0 |-> NodesAt(<<>>, seq)]
  <2>1. \A d \in 0 .. 0 : d = 0
    OBVIOUS
  <2>2. LevelsOf(f, seq, 0)
    BY <2>1 DEF LevelsOf
  <2> QED
    BY <2>2
<1>2. ASSUME NEW m \in 0 .. n, m < n, m \in T
      PROVE  m + 1 \in T
  <2>1. PICK f : LevelsOf(f, seq, m)
    BY <1>2
  <2> DEFINE g == [d \in 0 .. m + 1 |-> IF d <= m THEN f[d] ELSE Below(f[m])]
  <2>2. \A d \in 0 .. m : f[d] = IF d = 0 THEN NodesAt(<<>>, seq) ELSE Below(f[d - 1])
    BY <2>1 DEF LevelsOf
  <2>3. ASSUME NEW d \in 0 .. m + 1
        PROVE  g[d] = IF d = 0 THEN NodesAt(<<>>, seq) ELSE Below(g[d - 1])
    <3>1. CASE d <= m
      <4>1. d \in 0 .. m /\ (d # 0 => d - 1 \in 0 .. m + 1 /\ d - 1 <= m)
        BY <3>1
      <4>2. g[d] = f[d] /\ (d # 0 => g[d - 1] = f[d - 1])
        BY <3>1, <4>1
      <4> QED
        BY <2>2, <4>1, <4>2
    <3>2. CASE ~ (d <= m)
      <4>1. d = m + 1 /\ d # 0 /\ d - 1 = m /\ m \in 0 .. m + 1 /\ m <= m
        BY <3>2
      <4>2. g[d] = Below(f[m]) /\ g[d - 1] = f[m]
        BY <3>2, <4>1
      <4> QED
        BY <4>1, <4>2
    <3> QED
      BY <3>1, <3>2
  <2>4. LevelsOf(g, seq, m + 1)
    <3>1. g = [d \in 0 .. m + 1 |-> g[d]]
      OBVIOUS
    <3> HIDE DEF g
    <3> QED
      BY <2>3, <3>1 DEF LevelsOf
  <2>5. m + 1 \in 0 .. n
    BY <1>2
  <2> QED
    BY <2>4, <2>5
<1>3. 0 .. n \subseteq T
  BY <1>1, <1>2, InductionUpTo
<1>4. n \in T
  BY <1>3
<1> QED
  BY <1>4

LEMMA LevelsMeans ==
  ASSUME NEW seq, NEW n \in Nat
  PROVE  /\ Levels(seq, n)[0] = NodesAt(<<>>, seq)
         /\ \A d \in 0 .. n : d < n => Levels(seq, n)[d + 1] = Below(Levels(seq, n)[d])
<1>1. Levels(seq, n) = CHOOSE f : LevelsOf(f, seq, n)
  BY Zenon DEF Levels, LevelsOf, Below
<1>2. PICK f : f = Levels(seq, n) /\ LevelsOf(f, seq, n)
  BY <1>1, LevelsExist
<1>3. 0 \in 0 .. n /\ \A d \in 0 .. n : d < n => d + 1 \in 0 .. n /\ d + 1 # 0 /\ (d + 1) - 1 = d
  OBVIOUS
<1>4. \A d \in 0 .. n : f[d] = IF d = 0 THEN NodesAt(<<>>, seq) ELSE Below(f[d - 1])
  BY <1>2 DEF LevelsOf
<1> QED
  BY <1>2, <1>3, <1>4

LEMMA BelowUnion ==
  ASSUME NEW S, NEW R
  PROVE  Below(S \union R) = Below(S) \union Below(R)
  BY DEF Below

(* Nodes have a position and are found at it.                              *)
Placed(S) == \A p \in S : p = [path |-> p.path, node |-> p.node] /\ IsSequence(p.path)

LEMMA NodesAtPlaced ==
  ASSUME NEW path, IsSequence(path), NEW seq
  PROVE  Placed(NodesAt(path, seq))
<1> SUFFICES ASSUME NEW p \in NodesAt(path, seq)
             PROVE  p = [path |-> p.path, node |-> p.node] /\ IsSequence(p.path)
  BY DEF Placed
<1>1. PICK j \in 1 .. Len(seq) : p = [path |-> Append(path, j), node |-> seq[j]]
  BY DEF NodesAt
<1> QED
  BY <1>1, Appended

LEMMA BelowPlaced ==
  ASSUME NEW S, Placed(S)
  PROVE  Placed(Below(S))
<1>1. \A n \in S : Placed(NodesAt(n.path, n.node.then))
  BY NodesAtPlaced DEF Placed
<1> QED
  BY <1>1 DEF Below, Placed

LEMMA LevelsPlaced ==
  ASSUME NEW seq, NEW n \in Nat
  PROVE  \A d \in 0 .. n : Placed(Levels(seq, n)[d])
<1> DEFINE T == {d \in 0 .. n : Placed(Levels(seq, n)[d])}
<1>1. IsSequence(<<>>)
  BY DEF IsSequence
<1>2. 0 \in T
  BY <1>1, LevelsMeans, NodesAtPlaced
<1>3. ASSUME NEW m \in 0 .. n, m < n, m \in T
      PROVE  m + 1 \in T
  <2>1. m + 1 \in 0 .. n /\ Levels(seq, n)[m + 1] = Below(Levels(seq, n)[m])
    BY <1>3, LevelsMeans
  <2> QED
    BY <1>3, <2>1, BelowPlaced
<1>4. 0 .. n \subseteq T
  BY <1>2, <1>3, InductionUpTo
<1> QED
  BY <1>4

(* The node at position p of a body that is the body of node k.            *)
Inside(k, p) == [path |-> <<k>> \o p.path, node |-> p.node]

LEMMA Prefixed ==
  ASSUME NEW k, NEW s, IsSequence(s)
  PROVE  LET t == <<k>> \o s
         IN  /\ IsSequence(t) /\ Len(t) = Len(s) + 1 /\ t[1] = k
             /\ \A j \in 1 .. Len(s) : t[j + 1] = s[j]
<1> DEFINE T == {s[j] : j \in 1 .. Len(s)} \union {k}
           t == <<k>> \o s
           n == Len(s)
<1>1. n \in Nat /\ s = [j \in 1 .. n |-> s[j]]
  BY SequenceFacts
<1>2. s \in Seq(T)
  BY <1>1, FunctionIsSeq
<1>3. <<k>> \in Seq(T) /\ Len(<<k>>) = 1 /\ <<k>>[1] = k
  OBVIOUS
<1> HIDE DEF T
<1>4. /\ t \in Seq(T) /\ Len(t) = 1 + n
      /\ \A j \in 1 .. 1 + n : t[j] = IF j <= 1 THEN <<k>>[j] ELSE s[j - 1]
  BY <1>1, <1>2, <1>3
<1>5. t = [j \in 1 .. n + 1 |-> t[j]]
  <2> HIDE DEF t, n
  <2> QED
    BY <1>1, <1>4
<1>6. IsSequence(t) /\ Len(t) = n + 1
  <2> HIDE DEF t, n
  <2> QED
    BY <1>1, <1>5, AnySequence
<1>7. t[1] = k /\ \A j \in 1 .. n : t[j + 1] = s[j]
  BY <1>1, <1>3, <1>4
<1> QED
  BY <1>6, <1>7

LEMMA SameSequence ==
  ASSUME NEW s, NEW t, IsSequence(s), IsSequence(t), Len(s) = Len(t),
         \A j \in 1 .. Len(s) : s[j] = t[j]
  PROVE  s = t
  BY SequenceFacts

LEMMA PrefixedAppend ==
  ASSUME NEW k, NEW s, IsSequence(s), NEW j
  PROVE  <<k>> \o Append(s, j) = Append(<<k>> \o s, j)
<1> DEFINE n == Len(s)
           a == Append(s, j)
           t == <<k>> \o s
           u == <<k>> \o a
           v == Append(t, j)
<1>1. n \in Nat /\ IsSequence(a) /\ Len(a) = n + 1 /\ a[n + 1] = j
      /\ \A i \in 1 .. n : a[i] = s[i]
  BY Appended, SequenceFacts
<1>2. IsSequence(t) /\ Len(t) = n + 1 /\ t[1] = k /\ \A i \in 1 .. n : t[i + 1] = s[i]
  BY Prefixed
<1>3. /\ IsSequence(u) /\ Len(u) = (n + 1) + 1 /\ u[1] = k
      /\ \A i \in 1 .. n + 1 : u[i + 1] = a[i]
  BY <1>1, Prefixed
<1>4. /\ IsSequence(v) /\ Len(v) = (n + 1) + 1 /\ v[(n + 1) + 1] = j
      /\ \A i \in 1 .. n + 1 : v[i] = t[i]
  BY <1>2, Appended
<1> HIDE DEF n, a, t, u, v
<1>5. ASSUME NEW i \in 1 .. (n + 1) + 1
      PROVE  u[i] = v[i]
  <2>1. CASE i = 1
    BY <1>1, <1>2, <1>3, <1>4, <2>1
  <2>2. CASE i = (n + 1) + 1
    BY <1>1, <1>3, <1>4, <2>2
  <2>3. CASE i # 1 /\ i # (n + 1) + 1
    <3>1. PICK m \in 1 .. n : i = m + 1
      BY <1>1, <2>3
    <3>2. m \in 1 .. n + 1 /\ m + 1 \in 1 .. n + 1
      BY <1>1, <3>1
    <3>3. u[m + 1] = s[m]
      BY <1>1, <1>3, <3>2
    <3>4. v[m + 1] = s[m]
      BY <1>2, <1>4, <3>2
    <3> QED
      BY <3>1, <3>3, <3>4
  <2> QED
    BY <2>1, <2>2, <2>3
<1>6. u = v
  BY <1>3, <1>4, <1>5, SameSequence
<1> QED
  BY <1>6 DEF u, v, t, a

LEMMA InsideNodesAt ==
  ASSUME NEW k, NEW path, IsSequence(path), NEW seq
  PROVE  NodesAt(<<k>> \o path, seq) = {Inside(k, p) : p \in NodesAt(path, seq)}
<1> DEFINE N(j) == [path |-> Append(path, j), node |-> seq[j]]
<1>1. ASSUME NEW j
      PROVE  Inside(k, N(j)) = [path |-> Append(<<k>> \o path, j), node |-> seq[j]]
  <2>1. N(j).path = Append(path, j) /\ N(j).node = seq[j]
    OBVIOUS
  <2>2. <<k>> \o Append(path, j) = Append(<<k>> \o path, j)
    BY PrefixedAppend
  <2> HIDE DEF N
  <2> QED
    BY <2>1, <2>2 DEF Inside
<1>2. NodesAt(path, seq) = {N(j) : j \in 1 .. Len(seq)}
  BY DEF NodesAt
<1>3. NodesAt(<<k>> \o path, seq) = {Inside(k, N(j)) : j \in 1 .. Len(seq)}
  BY <1>1 DEF NodesAt
<1> HIDE DEF N
<1> QED
  BY <1>2, <1>3

LEMMA BelowInside ==
  ASSUME NEW k, NEW S, Placed(S)
  PROVE  Below({Inside(k, p) : p \in S}) = {Inside(k, p) : p \in Below(S)}
<1> DEFINE R == {Inside(k, p) : p \in S}
<1>1. \A p \in S : Inside(k, p).node = p.node /\ Inside(k, p).path = <<k>> \o p.path
  BY DEF Inside
<1>2. \A p \in S : NodesAt(<<k>> \o p.path, p.node.then)
                     = {Inside(k, q) : q \in NodesAt(p.path, p.node.then)}
  BY InsideNodesAt DEF Placed
<1>3. ASSUME NEW x \in Below(R)
      PROVE  x \in {Inside(k, p) : p \in Below(S)}
  <2>1. PICK r \in R : r.node.node = "If" /\ x \in NodesAt(r.path, r.node.then)
    BY <1>3 DEF Below
  <2>2. PICK p \in S : r = Inside(k, p)
    OBVIOUS
  <2>3. p.node.node = "If" /\ x \in {Inside(k, q) : q \in NodesAt(p.path, p.node.then)}
    BY <1>1, <1>2, <2>1, <2>2
  <2>4. PICK q \in NodesAt(p.path, p.node.then) : x = Inside(k, q)
    BY <2>3
  <2>5. q \in Below(S)
    BY <2>3, <2>4 DEF Below
  <2> QED
    BY <2>4, <2>5
<1>4. ASSUME NEW q \in Below(S)
      PROVE  Inside(k, q) \in Below(R)
  <2>1. PICK p \in S : p.node.node = "If" /\ q \in NodesAt(p.path, p.node.then)
    BY <1>4 DEF Below
  <2>2. Inside(k, q) \in NodesAt(<<k>> \o p.path, p.node.then)
    BY <1>2, <2>1
  <2>3. PICK r \in R : r = Inside(k, p)
    OBVIOUS
  <2>4. r.node.node = "If" /\ Inside(k, q) \in NodesAt(r.path, r.node.then)
    BY <1>1, <2>1, <2>2, <2>3
  <2> QED
    BY <2>4 DEF Below
<1> QED
  BY <1>3, <1>4

(* Appending a node to a body adds the node and, when it is a conditional, *)
(* the nodes of its body.                                                  *)
Added(seq, node) == [path |-> <<Len(seq) + 1>>, node |-> node]

AddedAt(seq, node, n, d) ==
  IF d = 0 THEN {Added(seq, node)}
  ELSE IF node.node = "If"
  THEN {Inside(Len(seq) + 1, p) : p \in Levels(node.then, n)[d - 1]} ELSE {}

LEMMA AppendedTop ==
  ASSUME NEW seq, IsSequence(seq), NEW node
  PROVE  NodesAt(<<>>, Append(seq, node)) = NodesAt(<<>>, seq) \union {Added(seq, node)}
<1> DEFINE k == Len(seq) + 1
           t == Append(seq, node)
<1>1. /\ Len(seq) \in Nat /\ Len(t) = k /\ t[k] = node
      /\ \A j \in 1 .. Len(seq) : t[j] = seq[j]
  BY Appended, SequenceFacts
<1>2. \A j : Append(<<>>, j) = <<j>>
  OBVIOUS
<1>3. NodesAt(<<>>, t) = {[path |-> <<j>>, node |-> t[j]] : j \in 1 .. k}
  BY <1>1, <1>2 DEF NodesAt
<1>4. NodesAt(<<>>, seq) = {[path |-> <<j>>, node |-> t[j]] : j \in 1 .. Len(seq)}
  BY <1>1, <1>2 DEF NodesAt
<1>5. Added(seq, node) = [path |-> <<k>>, node |-> t[k]]
  BY <1>1 DEF Added
<1>6. 1 .. k = (1 .. Len(seq)) \union {k}
  BY <1>1
<1> HIDE DEF t, k
<1> QED
  BY <1>3, <1>4, <1>5, <1>6 DEF t

LEMMA AppendedLevels ==
  ASSUME NEW seq, IsSequence(seq), NEW node, NEW n \in Nat
  PROVE  \A d \in 0 .. n :
           Levels(Append(seq, node), n)[d] = Levels(seq, n)[d] \union AddedAt(seq, node, n, d)
<1> DEFINE t == Append(seq, node)
           k == Len(seq) + 1
           A(d) == AddedAt(seq, node, n, d)
           T == {d \in 0 .. n : Levels(t, n)[d] = Levels(seq, n)[d] \union A(d)}
<1>1. 0 \in T
  BY AppendedTop, LevelsMeans DEF AddedAt
<1>2. Below({Added(seq, node)}) =
        IF node.node = "If" THEN {Inside(k, p) : p \in NodesAt(<<>>, node.then)} ELSE {}
  <2>1. Below({Added(seq, node)}) =
          IF node.node = "If" THEN NodesAt(<<k>>, node.then) ELSE {}
    <3>1. PICK x : x = Added(seq, node)
      OBVIOUS
    <3>2. x.path = <<k>> /\ x.node = node
      BY <3>1 DEF Added
    <3>3. Below({x}) = IF x.node.node = "If" THEN NodesAt(x.path, x.node.then) ELSE {}
      BY Zenon DEF Below
    <3> QED
      BY <3>1, <3>2, <3>3
  <2>2. IsSequence(<<>>) /\ <<k>> \o <<>> = <<k>>
    BY DEF IsSequence
  <2>3. NodesAt(<<k>>, node.then) = {Inside(k, p) : p \in NodesAt(<<>>, node.then)}
    BY <2>2, InsideNodesAt
  <2> QED
    BY <2>1, <2>3
<1>3. ASSUME NEW d \in 0 .. n, d < n
      PROVE  A(d + 1) = Below(A(d))
  <2>1. d + 1 # 0 /\ (d + 1) - 1 = d
    BY <1>3
  <2>2. CASE d = 0
    <3>1. Levels(node.then, n)[0] = NodesAt(<<>>, node.then)
      BY LevelsMeans
    <3> QED
      BY <1>2, <2>1, <2>2, <3>1 DEF AddedAt
  <2>3. CASE d # 0 /\ node.node = "If"
    <3>1. d - 1 \in 0 .. n /\ d - 1 < n /\ (d - 1) + 1 = d
      BY <2>3
    <3>2. /\ Levels(node.then, n)[d] = Below(Levels(node.then, n)[d - 1])
          /\ Placed(Levels(node.then, n)[d - 1])
      <4>1. Levels(node.then, n)[(d - 1) + 1] = Below(Levels(node.then, n)[d - 1])
        BY <3>1, LevelsMeans
      <4> QED
        BY <3>1, <4>1, LevelsPlaced
    <3>3. A(d) = {Inside(k, p) : p \in Levels(node.then, n)[d - 1]}
      BY <2>3 DEF AddedAt
    <3>4. A(d + 1) = {Inside(k, p) : p \in Levels(node.then, n)[d]}
      BY <2>1, <2>3 DEF AddedAt
    <3>5. PICK L : L = Levels(node.then, n)[d - 1]
      OBVIOUS
    <3>6. Below({Inside(k, p) : p \in L}) = {Inside(k, p) : p \in Below(L)}
      <4>1. Placed(L)
        BY <3>2, <3>5
      <4> HIDE DEF k
      <4> QED
        BY <4>1, BelowInside, Zenon
    <3>7. A(d + 1) = {Inside(k, p) : p \in Below(L)} /\ A(d) = {Inside(k, p) : p \in L}
      BY <3>2, <3>3, <3>4, <3>5
    <3> HIDE DEF A
    <3> QED
      BY <3>6, <3>7
  <2>4. CASE d # 0 /\ node.node # "If"
    <3>1. Below({}) = {}
      BY DEF Below
    <3> QED
      BY <2>1, <2>4, <3>1 DEF AddedAt
  <2> QED
    BY <2>2, <2>3, <2>4
<1> HIDE DEF A
<1>4. ASSUME NEW d \in 0 .. n, d < n, d \in T
      PROVE  d + 1 \in T
  <2>1. /\ d + 1 \in 0 .. n
        /\ Levels(t, n)[d + 1] = Below(Levels(t, n)[d])
        /\ Levels(seq, n)[d + 1] = Below(Levels(seq, n)[d])
    BY <1>4, LevelsMeans
  <2>2. Below(Levels(t, n)[d]) = Below(Levels(seq, n)[d]) \union Below(A(d))
    BY <1>4, BelowUnion
  <2> QED
    BY <1>3, <1>4, <2>1, <2>2
<1>5. 0 .. n \subseteq T
  BY <1>1, <1>4, InductionUpTo
<1> QED
  BY <1>5 DEF A

(* A body, with at most n levels, that has one label for each block of S   *)
(* and no more levels than labels.                                         *)
At(seq, n) == {p.node.at : p \in LabelsIn(NodesDownTo(seq, n))}

Once(nodes) == \A p, q \in LabelsIn(nodes) : p.node.at = q.node.at => p = q

Body(seq, S, n) ==
  /\ IsSequence(seq) /\ IsFiniteSet(S)
  /\ At(seq, n) = S /\ Once(NodesDownTo(seq, n))
  /\ \A d \in 0 .. n : d >= Cardinality(S) => Levels(seq, n)[d] = {}

LEMMA EmptyBody ==
  ASSUME NEW n \in Nat
  PROVE  Body(<<>>, {}, n)
<1> DEFINE T == {d \in 0 .. n : Levels(<<>>, n)[d] = {}}
<1>1. 0 \in T
  BY LevelsMeans DEF NodesAt
<1>2. ASSUME NEW d \in 0 .. n, d < n, d \in T
      PROVE  d + 1 \in T
  <2>1. d + 1 \in 0 .. n /\ Levels(<<>>, n)[d + 1] = Below(Levels(<<>>, n)[d])
    BY <1>2, LevelsMeans
  <2> QED
    BY <1>2, <2>1 DEF Below
<1>3. 0 .. n \subseteq T
  BY <1>1, <1>2, InductionUpTo
<1>4. NodesDownTo(<<>>, n) = {}
  BY <1>3 DEF NodesDownTo
<1>5. IsSequence(<<>>) /\ IsFiniteSet({})
  BY FS_EmptySet DEF IsSequence
<1> QED
  BY <1>3, <1>4, <1>5 DEF Body, At, Once, LabelsIn

LEMMA AppendedNodes ==
  ASSUME NEW seq, IsSequence(seq), NEW node, NEW n \in Nat
  PROVE  NodesDownTo(Append(seq, node), n) =
           NodesDownTo(seq, n) \union UNION {AddedAt(seq, node, n, d) : d \in 0 .. n}
  BY AppendedLevels DEF NodesDownTo

(* A label of another block.                                               *)
LEMMA LabelledBody ==
  ASSUME NEW n \in Nat, NEW seq, NEW S, Body(seq, S, n), NEW a, a \notin S
  PROVE  Body(Append(seq, Label(a)), S \union {a}, n)
<1> DEFINE t == Append(seq, Label(a))
           x == Added(seq, Label(a))
<1>1. IsSequence(seq) /\ IsFiniteSet(S) /\ At(seq, n) = S /\ Once(NodesDownTo(seq, n))
  BY DEF Body
<1>2. Label(a).node = "Label" /\ Label(a).at = a /\ x.node = Label(a)
  BY DEF Label, Added
<1>3. \A d \in 0 .. n : AddedAt(seq, Label(a), n, d) = IF d = 0 THEN {x} ELSE {}
  BY <1>2 DEF AddedAt
<1>4. UNION {AddedAt(seq, Label(a), n, d) : d \in 0 .. n} = {x}
  BY <1>3
<1>5. NodesDownTo(t, n) = NodesDownTo(seq, n) \union {x}
  BY <1>1, <1>4, AppendedNodes
<1>6. LabelsIn(NodesDownTo(t, n)) = LabelsIn(NodesDownTo(seq, n)) \union {x}
  BY <1>2, <1>5 DEF LabelsIn
<1>7. At(t, n) = S \union {a}
  BY <1>1, <1>2, <1>6 DEF At
<1>8. \A p \in LabelsIn(NodesDownTo(seq, n)) : p.node.at # a
  BY <1>1 DEF At
<1>9. Once(NodesDownTo(t, n))
  BY <1>1, <1>2, <1>6, <1>8 DEF Once
<1>10. /\ IsFiniteSet(S \union {a}) /\ Cardinality(S \union {a}) = Cardinality(S) + 1
       /\ Cardinality(S) \in Nat
  BY <1>1, FS_AddElement, FS_CardinalityType
<1>11. ASSUME NEW d \in 0 .. n, d >= Cardinality(S \union {a})
       PROVE  Levels(t, n)[d] = {}
  <2>1. d # 0 /\ d >= Cardinality(S)
    BY <1>10, <1>11
  <2>2. Levels(seq, n)[d] = {}
    BY <2>1 DEF Body
  <2> QED
    BY <1>1, <1>3, <2>1, <2>2, AppendedLevels
<1> QED
  BY <1>1, <1>7, <1>9, <1>10, <1>11, Appended DEF Body

(* A node that is neither a label nor a conditional, behind a label.       *)
LEMMA ExtendedBody ==
  ASSUME NEW n \in Nat, NEW seq, NEW S, Body(seq, S, n), S # {},
         NEW node, node.node \notin {"Label", "If"}
  PROVE  Body(Append(seq, node), S, n)
<1> DEFINE t == Append(seq, node)
           x == Added(seq, node)
<1>1. IsSequence(seq) /\ IsFiniteSet(S) /\ At(seq, n) = S /\ Once(NodesDownTo(seq, n))
  BY DEF Body
<1>2. x.node = node
  BY DEF Added
<1>3. \A d \in 0 .. n : AddedAt(seq, node, n, d) = IF d = 0 THEN {x} ELSE {}
  BY <1>2 DEF AddedAt
<1>4. UNION {AddedAt(seq, node, n, d) : d \in 0 .. n} = {x}
  BY <1>3
<1>5. NodesDownTo(t, n) = NodesDownTo(seq, n) \union {x}
  BY <1>1, <1>4, AppendedNodes
<1>6. LabelsIn(NodesDownTo(t, n)) = LabelsIn(NodesDownTo(seq, n))
  BY <1>2, <1>5 DEF LabelsIn
<1>7. At(t, n) = S /\ Once(NodesDownTo(t, n))
  BY <1>1, <1>6 DEF At, Once
<1>8. Cardinality(S) \in Nat \ {0}
  BY <1>1, FS_EmptySet, FS_CardinalityType
<1>9. ASSUME NEW d \in 0 .. n, d >= Cardinality(S)
      PROVE  Levels(t, n)[d] = {}
  <2>1. d # 0
    BY <1>8, <1>9
  <2>2. Levels(seq, n)[d] = {}
    BY <1>9 DEF Body
  <2> QED
    BY <1>1, <1>3, <2>1, <2>2, AppendedLevels
<1> QED
  BY <1>1, <1>7, <1>9, Appended DEF Body

(* A conditional whose body has labels of other blocks.                    *)
LEMMA NestedBody ==
  ASSUME NEW n \in Nat, NEW seq, NEW S, Body(seq, S, n), S # {},
         NEW body, NEW R, Body(body, R, n), S \intersect R = {}, Cardinality(R) <= n,
         NEW cond
  PROVE  Body(Append(seq, If(cond, body)), S \union R, n)
<1> DEFINE node == If(cond, body)
           t == Append(seq, node)
           x == Added(seq, node)
           k == Len(seq) + 1
           below == NodesDownTo(body, n)
           I == {Inside(k, p) : p \in below}
<1>1. /\ IsSequence(seq) /\ IsFiniteSet(S) /\ At(seq, n) = S /\ Once(NodesDownTo(seq, n))
      /\ IsFiniteSet(R) /\ At(body, n) = R /\ Once(below)
  BY DEF Body
<1>2. node.node = "If" /\ node.then = body /\ x.node = node
  BY DEF If, Added
<1>3. Cardinality(R) \in Nat /\ Cardinality(S) \in Nat \ {0}
  BY <1>1, FS_EmptySet, FS_CardinalityType
<1>4. \A d \in 0 .. n : AddedAt(seq, node, n, d) =
        IF d = 0 THEN {x} ELSE {Inside(k, p) : p \in Levels(body, n)[d - 1]}
  BY <1>2 DEF AddedAt
<1>5. UNION {AddedAt(seq, node, n, d) : d \in 0 .. n} = {x} \union I
  <2>1. Levels(body, n)[n] = {}
    BY <1>3 DEF Body
  <2>2. below = UNION {Levels(body, n)[d] : d \in 0 .. n}
    BY DEF NodesDownTo
  <2>3. ASSUME NEW d \in 0 .. n, NEW y \in AddedAt(seq, node, n, d)
        PROVE  y \in {x} \union I
    <3>1. CASE d = 0
      BY <1>4, <2>3, <3>1
    <3>2. CASE d # 0
      <4>1. d - 1 \in 0 .. n
        BY <3>2
      <4>2. PICK p \in Levels(body, n)[d - 1] : y = Inside(k, p)
        BY <1>4, <2>3, <3>2
      <4> QED
        BY <2>2, <4>1, <4>2
    <3> QED
      BY <3>1, <3>2
  <2>4. x \in AddedAt(seq, node, n, 0) /\ 0 \in 0 .. n
    BY <1>4
  <2>5. ASSUME NEW p \in below
        PROVE  \E d \in 0 .. n : Inside(k, p) \in AddedAt(seq, node, n, d)
    <3>1. PICK d \in 0 .. n : p \in Levels(body, n)[d]
      BY <2>2
    <3>2. d + 1 \in 0 .. n /\ d + 1 # 0 /\ (d + 1) - 1 = d
      BY <2>1, <3>1
    <3> QED
      BY <1>4, <3>1, <3>2
  <2> HIDE DEF x, below, node, k
  <2> QED
    BY <2>3, <2>4, <2>5
<1>6. NodesDownTo(t, n) = NodesDownTo(seq, n) \union ({x} \union I)
  BY <1>1, <1>5, AppendedNodes
<1>7. \A p \in below : Inside(k, p).node = p.node
  BY DEF Inside
<1>8. LabelsIn(NodesDownTo(t, n)) =
        LabelsIn(NodesDownTo(seq, n)) \union {Inside(k, p) : p \in LabelsIn(below)}
  <2> HIDE DEF below, x, node
  <2> QED
    BY <1>2, <1>6, <1>7 DEF LabelsIn
<1>9. At(t, n) = S \union R
  <2>1. \A p \in LabelsIn(below) : p \in below
    BY DEF LabelsIn
  <2>2. {p.node.at : p \in {Inside(k, q) : q \in LabelsIn(below)}} = R
    BY <1>1, <1>7, <2>1 DEF At
  <2> QED
    BY <1>1, <1>8, <2>2 DEF At
<1>10. Once(NodesDownTo(t, n))
  <2>1. Placed(below)
    BY LevelsPlaced DEF Placed, NodesDownTo
  <2>2. \A p \in LabelsIn(below) : p \in below /\ p.node.at \in R
    BY <1>1 DEF LabelsIn, At
  <2>3. \A p \in LabelsIn(NodesDownTo(seq, n)) : p.node.at \in S
    BY <1>1 DEF At
  <2>4. ASSUME NEW p \in LabelsIn(below), NEW q \in LabelsIn(below),
               Inside(k, p).node.at = Inside(k, q).node.at
        PROVE  Inside(k, p) = Inside(k, q)
    BY <1>1, <1>7, <2>2, <2>4 DEF Once
  <2>5. \A p \in LabelsIn(below) : Inside(k, p).node.at \in R
    BY <1>7, <2>2
  <2>6. ASSUME NEW p \in LabelsIn(NodesDownTo(t, n)), NEW q \in LabelsIn(NodesDownTo(t, n)),
               p.node.at = q.node.at
        PROVE  p = q
    <3>1. CASE p \in LabelsIn(NodesDownTo(seq, n)) /\ q \in LabelsIn(NodesDownTo(seq, n))
      BY <1>1, <2>6, <3>1 DEF Once
    <3>2. CASE /\ p \in {Inside(k, r) : r \in LabelsIn(below)}
               /\ q \in {Inside(k, r) : r \in LabelsIn(below)}
      BY <2>4, <2>6, <3>2
    <3>3. CASE p \in LabelsIn(NodesDownTo(seq, n)) /\ q \notin LabelsIn(NodesDownTo(seq, n))
      BY <1>8, <2>3, <2>5, <2>6, <3>3
    <3>4. CASE p \notin LabelsIn(NodesDownTo(seq, n)) /\ q \in LabelsIn(NodesDownTo(seq, n))
      BY <1>8, <2>3, <2>5, <2>6, <3>4
    <3> QED
      BY <1>8, <3>1, <3>2, <3>3, <3>4
  <2> QED
    BY <2>6 DEF Once
<1>11. /\ IsFiniteSet(S \union R)
       /\ Cardinality(S \union R) = Cardinality(S) + Cardinality(R)
  BY <1>1, <1>3, FS_Union, FS_EmptySet
<1>12. ASSUME NEW d \in 0 .. n, d >= Cardinality(S \union R)
       PROVE  Levels(t, n)[d] = {}
  <2>1. /\ d # 0 /\ d >= Cardinality(S) /\ d - 1 \in 0 .. n /\ d - 1 >= Cardinality(R)
    BY <1>3, <1>11, <1>12
  <2>2. Levels(seq, n)[d] = {} /\ Levels(body, n)[d - 1] = {}
    BY <2>1 DEF Body
  <2>3. AddedAt(seq, node, n, d) = {}
    BY <1>4, <2>1, <2>2
  <2> QED
    BY <1>1, <2>2, <2>3, AppendedLevels
<1> QED
  BY <1>1, <1>9, <1>10, <1>11, <1>12, Appended DEF Body

-----------------------------------------------------------------------------
(* The trees of the regions in progress.                                   *)

Deepest == Cardinality(Blocks)

(* The blocks whose labels the tree of region j holds.                     *)
Held(j) == At(regions[j].seq, Deepest)

(* Each region has a body of its own blocks, together those visited; one   *)
(* that waits has the block of its conditional.                            *)
Trees ==
  /\ \A j \in 1 .. Depth : Body(regions[j].seq, Held(j), Deepest)
  /\ \A i, j \in 1 .. Depth : i # j => Held(i) \intersect Held(j) = {}
  /\ \A a : a \in visited \intersect Blocks <=> \E j \in 1 .. Depth : a \in Held(j)
  /\ \A j \in 1 .. Depth - 1 : Held(j) # {}

TreeInv ==
  /\ DescentInv
  /\ phase = "structure" => Trees
  /\ phase = "done" => Body(ast, visited \intersect Blocks, Deepest)

LEMMA FiniteBlocks ==
  ASSUME DescentInv
  PROVE  IsFiniteSet(Blocks) /\ Deepest \in Nat
<1>1. IsFiniteSet(Blocks)
  BY DEF DescentInv, SearchInv, IInv, TypeOK, Function, Blocks
<1> QED
  BY <1>1, FS_CardinalityType DEF Deepest

LEMMA SameDeepest ==
  ASSUME UNCHANGED search
  PROVE  Deepest' = Deepest /\ Blocks' = Blocks
  BY SameGraph DEF Deepest

(* A turn that adds the blocks of S to the innermost region.               *)
LEMMA TurnTrees ==
  ASSUME Nested, Trees, UNCHANGED search, NEW r, regions' = Become(r),
         NEW S, S \intersect visited = {}, S \subseteq Blocks,
         \A a : a \in visited' \intersect Blocks <=> a \in visited \intersect Blocks \/ a \in S,
         Body(r.seq, Held(Depth) \union S, Deepest)
  PROVE  Trees'
<1> DEFINE H(j) == Held(j)
           H1(j) == At(regions'[j].seq, Deepest)
<1>1. PICK n \in Nat \ {0} : n = Depth
  BY BecomeMeans
<1>2. /\ Depth' = n /\ regions'[n] = r
      /\ \A j \in 1 .. n - 1 : regions'[j] = regions[j]
  BY <1>1, BecomeMeans
<1>3. PICK D : D = Deepest /\ D = Deepest' /\ Blocks' = Blocks
  BY SameDeepest
<1>4. H1(n) = H(n) \union S
  BY <1>1, <1>2 DEF Body
<1>5. \A j \in 1 .. n - 1 : H1(j) = H(j)
  BY <1>2 DEF Held
<1>6. \A j : Held(j)' = H1(j)
  BY <1>3 DEF Held
<1>7. /\ \A i, j \in 1 .. n : i # j => H(i) \intersect H(j) = {}
      /\ \A a : a \in visited \intersect Blocks <=> \E j \in 1 .. n : a \in H(j)
      /\ \A j \in 1 .. n - 1 : H(j) # {}
  BY <1>1 DEF Trees
<1>8. \A j \in 1 .. n : j = n \/ j \in 1 .. n - 1
  OBVIOUS
<1>9. \A j \in 1 .. n : Body(regions'[j].seq, H1(j), D)
  <2>1. Body(regions'[n].seq, H1(n), D)
    BY <1>1, <1>2, <1>3, <1>4
  <2>2. \A j \in 1 .. n - 1 : Body(regions'[j].seq, H1(j), D)
    <3>1. \A j \in 1 .. n - 1 : j \in 1 .. Depth
      BY <1>1
    <3> QED
      BY <1>2, <1>3, <1>5, <3>1 DEF Trees
  <2> QED
    BY <1>8, <2>1, <2>2
<1> HIDE DEF H, H1
<1>10. \A i \in 1 .. n - 1 : H(i) \intersect S = {} /\ i # n /\ i \in 1 .. n /\ n \in 1 .. n
  BY <1>7
<1>11. \A i, j \in 1 .. n : i # j => H1(i) \intersect H1(j) = {}
  BY <1>4, <1>5, <1>7, <1>8, <1>10
<1>12. \A a : a \in visited' \intersect Blocks <=> \E j \in 1 .. n : a \in H1(j)
  <2> TAKE a
  <2>1. ASSUME NEW j \in 1 .. n, a \in H1(j)
        PROVE  a \in visited' \intersect Blocks
    BY <1>4, <1>5, <1>7, <1>8, <2>1
  <2>2. ASSUME a \in visited' \intersect Blocks
        PROVE  \E j \in 1 .. n : a \in H1(j)
    <3>1. CASE a \in S
      BY <1>4, <3>1
    <3>2. CASE a \notin S
      <4>1. PICK j \in 1 .. n : a \in H(j)
        BY <1>7, <2>2, <3>2
      <4> QED
        BY <1>4, <1>5, <1>8, <4>1
    <3> QED
      BY <3>1, <3>2
  <2> QED
    BY <2>1, <2>2
<1>13. \A j \in 1 .. n - 1 : H1(j) # {}
  BY <1>5, <1>7
<1> QED
  BY <1>2, <1>3, <1>6, <1>9, <1>11, <1>12, <1>13 DEF Trees

(* What a visit makes of the innermost tree: a label, and at most one node *)
(* behind it.                                                              *)
Leaf(node) == node.node \notin {"Label", "If"}

LEMMA VisitBody ==
  ASSUME DescentInv, Trees, NEW kind, Visit(kind),
         NEW q, q = Labelled \/ \E node : Leaf(node) /\ q = Append(Labelled, node)
  PROVE  Body(q, Held(Depth) \union {Inner.curr}, Deepest)
<1>1. PICK n, D : n = Depth /\ D = Deepest
  OBVIOUS
<1>2. PICK a, H, s : a = Inner.curr /\ H = Held(n) /\ s = Inner.seq
  OBVIOUS
<1>3. /\ D \in Nat /\ n \in Nat \ {0} /\ a \in Blocks /\ a \notin visited
  BY <1>1, <1>2, VisitMeans, FiniteBlocks, BecomeMeans, SequenceFacts DEF Nested, Depth, Goes
<1>4. Body(s, H, D) /\ a \notin H
  <2>1. n \in 1 .. Depth /\ Inner = regions[n]
    BY <1>1, <1>3 DEF Inner, Depth
  <2> QED
    BY <1>1, <1>2, <1>3, <2>1 DEF Trees
<1>5. PICK l, t : l = Label(a) /\ t = Append(s, l) /\ t = Labelled
  BY <1>2 DEF Labelled
<1>6. Body(t, H \union {a}, D)
  BY <1>3, <1>4, <1>5, LabelledBody
<1>7. CASE q = Labelled
  BY <1>1, <1>2, <1>5, <1>6, <1>7
<1>8. ASSUME NEW node, Leaf(node), q = Append(Labelled, node)
      PROVE  Body(q, H \union {a}, D)
  BY <1>3, <1>5, <1>6, <1>8, ExtendedBody DEF Leaf
<1> QED
  BY <1>1, <1>2, <1>7, <1>8

LEMMA VisitTrees ==
  ASSUME TreeInv, NEW kind, Visit(kind), NEW r, regions' = Become(r),
         r.seq = Labelled \/ \E node : Leaf(node) /\ r.seq = Append(Labelled, node)
  PROVE  Trees'
<1>1. DescentInv /\ Trees
  BY DEF TreeInv, Visit
<1>2. /\ Nested /\ UNCHANGED search /\ Inner.curr \in Blocks /\ Inner.curr \notin visited
      /\ visited' = visited \union {Inner.curr}
  BY <1>1, VisitMeans DEF Goes
<1>3. Body(r.seq, Held(Depth) \union {Inner.curr}, Deepest)
  BY <1>1, VisitBody
<1>4. PICK S : S = {Inner.curr}
  OBVIOUS
<1>5. /\ S \intersect visited = {} /\ S \subseteq Blocks
      /\ \A a : a \in visited' \intersect Blocks <=> a \in visited \intersect Blocks \/ a \in S
  BY <1>2, <1>4
<1> QED
  BY <1>1, <1>2, <1>3, <1>4, <1>5, TurnTrees

LEMMA TurnedSeq ==
  ASSUME NEW x, IsRegion(x), NEW q, NEW c, NEW resume
  PROVE  /\ Ended(x, q).seq = q /\ Moved(x, q, c).seq = q
         /\ Waiting(x, q, c, resume).seq = q /\ Resumes(x, q).seq = q
<1>1. Ended(x, q).seq = q /\ Moved(x, q, c).seq = q /\ Waiting(x, q, c, resume).seq = q
  BY DEF Ended, Moved, Waiting, IsRegion
<1>2. CASE x.resume = "loop"
  BY <1>1, <1>2 DEF Resumes, IsRegion
<1>3. CASE x.resume # "loop"
  BY <1>1, <1>3 DEF Resumes, IsRegion
<1> QED
  BY <1>2, <1>3

LEMMA Leaves ==
  ASSUME NEW a, NEW b
  PROVE  Leaf(Goto(a)) /\ Leaf(While(a, b)) /\ Leaf(Return)
  BY DEF Leaf, Goto, While, Return

(* The seq a turn leaves behind.                                           *)
Emits(r) == r.seq = Labelled \/ \E node : Leaf(node) /\ r.seq = Append(Labelled, node)

LEMMA TurnEmits ==
  ASSUME DescentInv, VisitLoop \/ VisitJump \/ VisitReturn \/ VisitFallthrough
  PROVE  \E kind, r : Visit(kind) /\ regions' = Become(r) /\ Emits(r)
<1>1. IsRegion(Inner)
  <2>1. \E kind : Visit(kind)
    BY DEF VisitLoop, VisitJump, VisitReturn, VisitFallthrough
  <2> QED
    BY <2>1, VisitMeans
<1>2. ASSUME NEW q, q = Labelled \/ \E node : Leaf(node) /\ q = Append(Labelled, node)
      PROVE  Emits(Ended(Inner, q)) /\ \A c : Emits(Moved(Inner, q, c))
  BY <1>1, <1>2, TurnedSeq DEF Emits
<1>3. Emits(Ended(Inner, Labelled)) /\ \A c : Emits(Moved(Inner, Labelled, c))
  BY <1>2
<1>4. ASSUME NEW node, Leaf(node)
      PROVE  /\ Emits(Ended(Inner, Append(Labelled, node)))
             /\ \A c : Emits(Moved(Inner, Append(Labelled, node), c))
  BY <1>2, <1>4
<1>5. CASE VisitLoop
  BY <1>4, <1>5, Leaves DEF VisitLoop, Moved
<1>6. CASE VisitJump
  <2>1. CASE <<Inner.curr, TrueTarget>> \in back_edges \/ TrueTarget \in visited'
    BY <1>4, <1>6, <2>1, Leaves DEF VisitJump, Ended
  <2>2. CASE ~ (<<Inner.curr, TrueTarget>> \in back_edges \/ TrueTarget \in visited')
    BY <1>3, <1>6, <2>2 DEF VisitJump, Moved
  <2> QED
    BY <2>1, <2>2
<1>7. CASE VisitReturn
  BY <1>4, <1>7, Leaves DEF VisitReturn, Ended
<1>8. CASE VisitFallthrough
  <2>1. CASE Successors(Inner.curr) = {}
    BY <1>3, <1>8, <2>1 DEF VisitFallthrough, Ended
  <2>2. CASE /\ Successors(Inner.curr) # {} /\ Successors(Inner.curr) \subseteq visited'
    <3>1. Visit("fall") /\ \E a : regions' = Become(Ended(Inner, Append(Labelled, Goto(a))))
      BY <1>8, <2>2 DEF VisitFallthrough, Ended
    <3> QED
      BY <1>4, <3>1, Leaves
  <2>3. CASE ~ (Successors(Inner.curr) \subseteq visited')
    <3>1. Visit("fall") /\ \E a : regions' = Become(Moved(Inner, Labelled, a))
      BY <1>8, <2>3 DEF VisitFallthrough, Moved
    <3> QED
      BY <1>3, <3>1
  <2> QED
    BY <2>1, <2>2, <2>3
<1> QED
  BY <1>5, <1>6, <1>7, <1>8

LEMMA NowhereTrees ==
  ASSUME TreeInv, VisitNowhere
  PROVE  Trees'
<1>1. /\ DescentInv /\ Trees /\ Nested /\ UNCHANGED search /\ Inner.curr \notin Blocks
      /\ visited' = visited \union {Inner.curr}
  BY DEF TreeInv, DescentInv, VisitNowhere
<1>2. PICK r : r = [Inner EXCEPT !.ended = TRUE] /\ regions' = Become(r)
  BY DEF VisitNowhere
<1>3. r.seq = Inner.seq
  BY <1>1, <1>2, InnerIsRegion DEF IsRegion
<1>4. Inner = regions[Depth] /\ Depth \in 1 .. Depth
  BY <1>1, <1>2, BecomeMeans DEF Inner, Depth
<1>5. Body(r.seq, Held(Depth), Deepest)
  BY <1>1, <1>3, <1>4 DEF Trees
<1>6. PICK S : S = {}
  OBVIOUS
<1>7. Held(Depth) \union S = Held(Depth)
  BY <1>6
<1>8. /\ S \intersect visited = {} /\ S \subseteq Blocks
      /\ \A a : a \in visited' \intersect Blocks <=> a \in visited \intersect Blocks \/ a \in S
  BY <1>1, <1>6
<1> QED
  BY <1>1, <1>2, <1>5, <1>7, <1>8, TurnTrees

LEMMA StartTrees ==
  ASSUME DescentInv, Start
  PROVE  Trees'
<1>1. PICK r : r = Region(fn.entry, {}) /\ regions' = <<r>>
  BY DEF Start
<1>2. r.seq = <<>>
  BY <1>1 DEF Region
<1>3. visited' = {} /\ UNCHANGED search /\ Deepest' = Deepest /\ Deepest \in Nat
  BY FiniteBlocks, SameDeepest DEF Start, DescentInv
<1>4. Depth' = 1 /\ regions'[1] = r
  BY <1>1 DEF Depth
<1>5. PICK D : D = Deepest
  OBVIOUS
<1>6. Body(<<>>, {}, D)
  BY <1>3, <1>5, EmptyBody
<1>7. Held(1)' = {} /\ Body(regions'[1].seq, {}, D)
  BY <1>2, <1>3, <1>4, <1>5, <1>6 DEF Held, Body
<1> QED
  BY <1>3, <1>4, <1>5, <1>7 DEF Trees

LEMMA ConditionalTrees ==
  ASSUME TreeInv, VisitConditional
  PROVE  Trees'
<1>1. PICK f, resume, w, b :
        /\ w = Waiting(Inner, Labelled, f, resume) /\ b = Region(TrueTarget, {f})
        /\ regions' = Append(Become(w), b)
  BY DEF VisitConditional, Waiting
<1>2. DescentInv /\ Trees /\ Visit("cbranch")
  BY DEF TreeInv, VisitConditional, Visit
<1>3. /\ Nested /\ UNCHANGED search /\ Inner.curr \in Blocks /\ Inner.curr \notin visited
      /\ visited' = visited \union {Inner.curr} /\ IsRegion(Inner)
  BY <1>2, VisitMeans DEF Goes
<1>4. w.seq = Labelled /\ b.seq = <<>>
  BY <1>1, <1>3, TurnedSeq DEF Region
<1>5. PICK n \in Nat \ {0} : n = Depth
  BY <1>3, SequenceFacts DEF Nested, Depth
<1>6. PICK D, a : D = Deepest /\ D = Deepest' /\ a = Inner.curr /\ Blocks' = Blocks /\ D \in Nat
  BY <1>2, <1>3, SameDeepest, FiniteBlocks
<1>7. /\ Depth' = n + 1 /\ regions'[n] = w /\ regions'[n + 1] = b
      /\ \A j \in 1 .. n - 1 : regions'[j] = regions[j]
  BY <1>1, <1>3, <1>5, Enters
<1> DEFINE H(j) == Held(j)
           H1(j) == At(regions'[j].seq, D)
<1>8. \A j : Held(j)' = H1(j)
  BY <1>6 DEF Held
<1>9. Body(w.seq, H(n) \union {a}, D)
  BY <1>2, <1>4, <1>5, <1>6, VisitBody
<1>10. Body(b.seq, {}, D)
  BY <1>4, <1>6, EmptyBody
<1>11. H1(n) = H(n) \union {a} /\ H1(n + 1) = {}
  BY <1>7, <1>9, <1>10 DEF Body
<1>12. \A j \in 1 .. n - 1 : H1(j) = H(j)
  BY <1>6, <1>7 DEF Held
<1>13. /\ \A j \in 1 .. n : Body(regions[j].seq, H(j), D)
       /\ \A i, j \in 1 .. n : i # j => H(i) \intersect H(j) = {}
       /\ \A c : c \in visited \intersect Blocks <=> \E j \in 1 .. n : c \in H(j)
       /\ \A j \in 1 .. n - 1 : H(j) # {}
  BY <1>2, <1>5, <1>6 DEF Trees
<1>14. \A j \in 1 .. n + 1 : j = n + 1 \/ j = n \/ j \in 1 .. n - 1
  OBVIOUS
<1>15. /\ n \in 1 .. n + 1 /\ n + 1 \in 1 .. n + 1 /\ n \in 1 .. n /\ n # n + 1
       /\ \A j \in 1 .. n - 1 : j \in 1 .. n /\ j \in 1 .. n + 1 /\ j # n /\ j # n + 1
       /\ \A j \in 1 .. n : j = n \/ j \in 1 .. n - 1
  OBVIOUS
<1>16. \A j \in 1 .. n + 1 : Body(regions'[j].seq, H1(j), D)
  <2>1. Body(regions'[n].seq, H1(n), D)
    BY <1>7, <1>9, <1>11
  <2>2. Body(regions'[n + 1].seq, H1(n + 1), D)
    BY <1>7, <1>10, <1>11
  <2>3. \A j \in 1 .. n - 1 : Body(regions'[j].seq, H1(j), D)
    BY <1>7, <1>12, <1>13, <1>15
  <2> QED
    BY <1>14, <2>1, <2>2, <2>3
<1> HIDE DEF H, H1
<1>17. \A i \in 1 .. n : a \notin H(i)
  BY <1>3, <1>6, <1>13
<1>18. \A i, j \in 1 .. n + 1 : i # j => H1(i) \intersect H1(j) = {}
  <2> SUFFICES ASSUME NEW i \in 1 .. n + 1, NEW j \in 1 .. n + 1, i # j
               PROVE  H1(i) \intersect H1(j) = {}
    OBVIOUS
  <2>1. CASE i = n + 1 \/ j = n + 1
    BY <1>11, <2>1
  <2>2. CASE i \in 1 .. n - 1 /\ j \in 1 .. n - 1
    BY <1>12, <1>13, <1>15, <2>2
  <2>3. CASE i = n /\ j \in 1 .. n - 1
    BY <1>11, <1>12, <1>13, <1>15, <1>17, <2>3
  <2>4. CASE j = n /\ i \in 1 .. n - 1
    BY <1>11, <1>12, <1>13, <1>15, <1>17, <2>4
  <2> QED
    BY <1>14, <2>1, <2>2, <2>3, <2>4
<1>19. \A c : c \in visited' \intersect Blocks <=> \E j \in 1 .. n + 1 : c \in H1(j)
  <2> TAKE c
  <2>1. c \in visited' \intersect Blocks <=> c \in visited \intersect Blocks \/ c = a
    BY <1>3, <1>6
  <2>2. ASSUME NEW j \in 1 .. n + 1, c \in H1(j)
        PROVE  c = a \/ \E i \in 1 .. n : c \in H(i)
    BY <1>11, <1>12, <1>14, <1>15, <2>2
  <2>3. ASSUME c = a \/ \E i \in 1 .. n : c \in H(i)
        PROVE  \E j \in 1 .. n + 1 : c \in H1(j)
    <3>1. CASE c \in H(n) \union {a}
      BY <1>11, <1>15, <3>1
    <3>2. CASE c \notin H(n) \union {a}
      <4>1. PICK i \in 1 .. n - 1 : c \in H(i)
        BY <1>15, <2>3, <3>2
      <4> QED
        BY <1>12, <1>15, <4>1
    <3> QED
      BY <3>1, <3>2
  <2> QED
    BY <1>13, <2>1, <2>2, <2>3
<1>20. \A j \in 1 .. n : H1(j) # {}
  BY <1>11, <1>12, <1>13, <1>15
<1>21. (n + 1) - 1 = n
  OBVIOUS
<1> QED
  BY <1>6, <1>7, <1>8, <1>16, <1>18, <1>19, <1>20, <1>21 DEF Trees

LEMMA EndBodyTrees ==
  ASSUME TreeInv, EndBody
  PROVE  Trees'
<1>1. /\ DescentInv /\ Trees /\ Nested /\ UNCHANGED search /\ visited' = visited /\ Depth > 1
  BY DEF TreeInv, DescentInv, EndBody, Depth
<1>2. PICK x, y, t, r :
        /\ x = regions[Depth - 1] /\ y = Inner
        /\ t = Append(x.seq, If(x.curr, y.seq))
        /\ r.seq = t \/ \E node : Leaf(node) /\ r.seq = Append(t, node)
        /\ regions' = Append(SubSeq(regions, 1, Depth - 2), r)
  <2> DEFINE z == regions[Len(regions) - 1]
  <2>1. PICK q, g : /\ q = Append(z.seq, If(z.curr, Inner.seq))
                    /\ g = Append(q, Goto(z.false_target))
    OBVIOUS
  <2>2. PICK p, r : /\ p = (IF z.resume = "loop" THEN g ELSE q) /\ r = Resumes(z, p)
                    /\ regions' = Append(SubSeq(regions, 1, Len(regions) - 2), r)
    <3>1. CASE z.resume = "loop"
      BY <2>1, <3>1 DEF EndBody, Resumes
    <3>2. CASE z.resume # "loop"
      BY <2>1, <3>2 DEF EndBody, Resumes
    <3> QED
      BY <3>1, <3>2
  <2>3. IsRegion(z)
    BY <1>1, SequenceFacts DEF Nested, Depth
  <2>4. r.seq = p
    BY <2>2, <2>3, TurnedSeq
  <2>5. Leaf(Goto(z.false_target))
    BY Leaves
  <2>6. r.seq = q \/ \E node : Leaf(node) /\ r.seq = Append(q, node)
    BY <2>1, <2>2, <2>4, <2>5
  <2> QED
    BY <2>1, <2>2, <2>6 DEF Depth
<1>3. PICK n \in Nat \ {0} :
        /\ Depth = n + 1 /\ Depth' = n /\ regions'[n] = r
        /\ \A j \in 1 .. n - 1 : regions'[j] = regions[j]
  <2>1. /\ Depth \in Nat /\ Depth' = Depth - 1 /\ regions'[Depth - 1] = r
        /\ \A j \in 1 .. Depth - 2 : regions'[j] = regions[j]
    BY <1>1, <1>2, Returns
  <2>2. PICK n \in Nat \ {0} : Depth = n + 1
    BY <1>1, <2>1
  <2> QED
    BY <2>1, <2>2
<1>4. x = regions[n] /\ y = regions[n + 1]
  BY <1>2, <1>3 DEF Inner, Depth
<1>5. PICK D : D = Deepest /\ D = Deepest' /\ Blocks' = Blocks /\ D \in Nat
  BY <1>1, SameDeepest, FiniteBlocks
<1> DEFINE H(j) == Held(j)
           H1(j) == At(regions'[j].seq, D)
<1>6. \A j : Held(j)' = H1(j)
  BY <1>5 DEF Held
<1>7. /\ \A j \in 1 .. n + 1 : Body(regions[j].seq, H(j), D)
      /\ \A i, j \in 1 .. n + 1 : i # j => H(i) \intersect H(j) = {}
      /\ \A c : c \in visited \intersect Blocks <=> \E j \in 1 .. n + 1 : c \in H(j)
      /\ \A j \in 1 .. n : H(j) # {}
  BY <1>1, <1>3, <1>5 DEF Trees
<1>8. /\ n \in 1 .. n + 1 /\ n + 1 \in 1 .. n + 1 /\ n \in 1 .. n /\ n # n + 1
      /\ \A j \in 1 .. n - 1 : j \in 1 .. n /\ j \in 1 .. n + 1 /\ j # n /\ j # n + 1
      /\ \A j \in 1 .. n : j = n \/ j \in 1 .. n - 1
      /\ \A j \in 1 .. n + 1 : j = n + 1 \/ j = n \/ j \in 1 .. n - 1
  OBVIOUS
<1>9. PICK S, R : S = H(n) /\ R = H(n + 1)
  OBVIOUS
<1>10. /\ Body(x.seq, S, D) /\ Body(y.seq, R, D) /\ S # {} /\ S \intersect R = {}
       /\ R \subseteq Blocks
  BY <1>4, <1>7, <1>8, <1>9
<1>11. Cardinality(R) <= D
  BY <1>1, <1>5, <1>10, FiniteBlocks, FS_Subset DEF Deepest
<1>12. Body(t, S \union R, D)
  BY <1>2, <1>5, <1>10, <1>11, NestedBody
<1>13. Body(r.seq, S \union R, D)
  <2>1. ASSUME NEW node, Leaf(node), r.seq = Append(t, node)
        PROVE  Body(r.seq, S \union R, D)
    BY <1>5, <1>10, <1>12, <2>1, ExtendedBody DEF Leaf
  <2> QED
    BY <1>2, <1>12, <2>1
<1>14. H1(n) = H(n) \union H(n + 1)
  BY <1>3, <1>9, <1>13 DEF Body
<1>15. \A j \in 1 .. n - 1 : H1(j) = H(j)
  BY <1>3, <1>5 DEF Held
<1>16. \A j \in 1 .. n : Body(regions'[j].seq, H1(j), D)
  <2>1. Body(regions'[n].seq, H1(n), D)
    BY <1>3, <1>9, <1>13, <1>14
  <2>2. \A j \in 1 .. n - 1 : Body(regions'[j].seq, H1(j), D)
    BY <1>3, <1>7, <1>8, <1>15
  <2> QED
    BY <1>8, <2>1, <2>2
<1> HIDE DEF H, H1
<1>17. \A i, j \in 1 .. n : i # j => H1(i) \intersect H1(j) = {}
  <2> SUFFICES ASSUME NEW i \in 1 .. n, NEW j \in 1 .. n, i # j
               PROVE  H1(i) \intersect H1(j) = {}
    OBVIOUS
  <2>1. CASE i \in 1 .. n - 1 /\ j \in 1 .. n - 1
    BY <1>7, <1>8, <1>15, <2>1
  <2>2. CASE i = n /\ j \in 1 .. n - 1
    BY <1>7, <1>8, <1>14, <1>15, <2>2
  <2>3. CASE j = n /\ i \in 1 .. n - 1
    BY <1>7, <1>8, <1>14, <1>15, <2>3
  <2> QED
    BY <1>8, <2>1, <2>2, <2>3
<1>18. \A c : c \in visited \intersect Blocks <=> \E j \in 1 .. n : c \in H1(j)
  <2> TAKE c
  <2>1. ASSUME NEW j \in 1 .. n, c \in H1(j)
        PROVE  \E i \in 1 .. n + 1 : c \in H(i)
    BY <1>8, <1>14, <1>15, <2>1
  <2>2. ASSUME NEW i \in 1 .. n + 1, c \in H(i)
        PROVE  \E j \in 1 .. n : c \in H1(j)
    BY <1>8, <1>14, <1>15, <2>2
  <2> QED
    BY <1>7, <2>1, <2>2
<1>19. \A j \in 1 .. n - 1 : H1(j) # {}
  BY <1>7, <1>8, <1>15
<1> QED
  BY <1>1, <1>3, <1>5, <1>6, <1>16, <1>17, <1>18, <1>19 DEF Trees

LEMMA EndFunctionTrees ==
  ASSUME TreeInv, EndFunction
  PROVE  Body(ast, visited \intersect Blocks, Deepest)'
<1>1. /\ Trees /\ Depth = 1 /\ UNCHANGED search /\ visited' = visited /\ ast' = Inner.seq
  BY DEF TreeInv, EndFunction, Depth
<1>2. Inner = regions[1] /\ Deepest' = Deepest /\ Blocks' = Blocks
  BY <1>1, SameDeepest DEF Inner, Depth
<1>3. Body(Inner.seq, Held(1), Deepest)
  BY <1>1, <1>2 DEF Trees
<1>4. Held(1) = visited \intersect Blocks
  BY <1>1 DEF Trees
<1> QED
  BY <1>1, <1>2, <1>3, <1>4

LEMMA TreeStep ==
  ASSUME TreeInv, [StructureNext]_vars
  PROVE  TreeInv'
<1>1. DescentInv /\ DescentInv'
  BY DescentStep DEF TreeInv
<1>2. CASE VisitLoop \/ VisitJump \/ VisitReturn \/ VisitFallthrough
  <2>1. PICK kind, r : Visit(kind) /\ regions' = Become(r) /\ Emits(r)
    BY <1>1, <1>2, TurnEmits
  <2>2. Trees' /\ phase = "structure" /\ phase' = phase
    BY <2>1, VisitTrees DEF Emits, Visit
  <2> QED
    BY <1>1, <2>2 DEF TreeInv
<1>3. CASE VisitNowhere
  BY <1>1, <1>3, NowhereTrees DEF TreeInv, VisitNowhere
<1>4. CASE VisitConditional
  BY <1>1, <1>4, ConditionalTrees DEF TreeInv, VisitConditional, Visit
<1>5. CASE EndBody
  BY <1>1, <1>5, EndBodyTrees DEF TreeInv, EndBody
<1>6. CASE EndFunction
  BY <1>1, <1>6, EndFunctionTrees DEF TreeInv, EndFunction
<1>7. CASE Start
  BY <1>1, <1>7, StartTrees DEF TreeInv, Start
<1>8. CASE SearchBackEdges
  BY <1>1, <1>8 DEF TreeInv, SearchBackEdges
<1>9. CASE UNCHANGED vars
  <2>1. UNCHANGED search /\ UNCHANGED <<phase, regions, visited, ast>>
    BY <1>9 DEF vars
  <2>2. Deepest' = Deepest /\ Blocks' = Blocks
    BY <2>1, SameDeepest
  <2>3. Trees' <=> Trees
    BY <2>1, <2>2 DEF Trees, Held, Depth
  <2> QED
    BY <1>1, <2>1, <2>2, <2>3 DEF TreeInv
<1> QED
  BY <1>2, <1>3, <1>4, <1>5, <1>6, <1>7, <1>8, <1>9 DEF StructureNext, Step

-----------------------------------------------------------------------------
(* The transfers of a tree: a body in its place keeps the transfers of the *)
(* function when its labels do, and the bodies inside it do.               *)

KeepsAt(s, j) ==
  \A o \in BOOLEAN :
    s.seq[j].node = "Label" /\ Known(s.seq[j].at, o) =>
      Transfer(s, j, o) = GoesTo(s.seq[j].at, o)

Keeps(s) == \A j \in 1 .. Len(s.seq) : KeepsAt(s, j)

KeptWithin(Z) == \A s \in Z : Keeps(s) /\ InnerScopes(s) \subseteq Z

Faithful(s) == \E Z : s \in Z /\ KeptWithin(Z)

InnerAt(s, j) == s.seq[j].node = "If" => Faithful(Scope(s.seq[j].then, Reaches(s, j + 1)))

LEMMA FaithfulMeans ==
  ASSUME NEW s
  PROVE  Faithful(s) <=> \A j \in 1 .. Len(s.seq) : KeepsAt(s, j) /\ InnerAt(s, j)
<1>1. ASSUME Faithful(s), NEW j \in 1 .. Len(s.seq)
      PROVE  KeepsAt(s, j) /\ InnerAt(s, j)
  <2>1. PICK Z : s \in Z /\ KeptWithin(Z)
    BY <1>1 DEF Faithful
  <2>2. Keeps(s) /\ InnerScopes(s) \subseteq Z
    BY <2>1 DEF KeptWithin
  <2>3. ASSUME s.seq[j].node = "If"
        PROVE  Scope(s.seq[j].then, Reaches(s, j + 1)) \in Z
    BY <1>1, <2>2, <2>3 DEF InnerScopes
  <2> QED
    BY <1>1, <2>1, <2>2, <2>3 DEF Keeps, InnerAt, Faithful
<1>2. ASSUME \A j \in 1 .. Len(s.seq) : KeepsAt(s, j) /\ InnerAt(s, j)
      PROVE  Faithful(s)
  <2> DEFINE Of(u) == CHOOSE Z : u \in Z /\ KeptWithin(Z)
             Z == {s} \union UNION {Of(u) : u \in InnerScopes(s)}
  <2>1. ASSUME NEW u \in InnerScopes(s)
        PROVE  u \in Of(u) /\ KeptWithin(Of(u))
    <3>1. Faithful(u)
      BY <1>2 DEF InnerScopes, InnerAt
    <3> QED
      BY <3>1 DEF Faithful
  <2> HIDE DEF Of
  <2>2. InnerScopes(s) \subseteq Z /\ \A u \in InnerScopes(s) : Of(u) \subseteq Z
    BY <2>1
  <2>3. Keeps(s)
    BY <1>2 DEF Keeps
  <2>4. ASSUME NEW t \in Z
        PROVE  Keeps(t) /\ InnerScopes(t) \subseteq Z
    <3>1. CASE t = s
      BY <2>2, <2>3, <3>1
    <3>2. CASE t # s
      <4>1. PICK u \in InnerScopes(s) : t \in Of(u)
        BY <3>2
      <4>2. Keeps(t) /\ InnerScopes(t) \subseteq Of(u)
        BY <2>1, <4>1 DEF KeptWithin
      <4> QED
        BY <2>2, <4>2
    <3> QED
      BY <3>1, <3>2
  <2> QED
    BY <2>4 DEF Faithful, KeptWithin
<1> QED
  BY <1>1, <1>2

(* A body that goes on behind q, at a node that tests nothing, is q in a   *)
(* place where control goes on to that node.                               *)
LEMMA PrefixAgrees ==
  ASSUME NEW q, NEW t, IsSequence(q), IsSequence(t), NEW A, NEW V,
         Len(q) < Len(t), \A j \in 1 .. Len(q) : t[j] = q[j],
         t[Len(q) + 1].node \notin {"If", "While"},
         V = Reaches(Scope(t, A), Len(q) + 1)
  PROVE  /\ Reaches(Scope(t, A), 1) = Reaches(Scope(q, V), 1)
         /\ \A j \in 1 .. Len(q) : /\ KeepsAt(Scope(t, A), j) <=> KeepsAt(Scope(q, V), j)
                                   /\ InnerAt(Scope(t, A), j) <=> InnerAt(Scope(q, V), j)
<1>1. PICK s, u : s = Scope(t, A) /\ u = Scope(q, V)
  OBVIOUS
<1>2. s.seq = t /\ u.seq = q /\ u.after = V
  BY <1>1 DEF Scope
<1>3. PICK n, m \in Nat : n = Len(q) /\ m = Len(t)
  BY SequenceFacts
<1>4. n < m /\ \A j \in 1 .. n : t[j] = q[j]
  BY <1>3
<1>5. ASSUME NEW j \in 1 .. n + 1
      PROVE  Reaches(s, j) = Reaches(u, j)
  <2>1. CASE j = n + 1
    <3>1. j > Len(u.seq)
      BY <1>2, <1>3, <2>1
    <3>2. Reaches(u, j) = V
      BY <1>2, <3>1 DEF Reaches
    <3> QED
      BY <1>1, <1>3, <2>1, <3>2
  <2>2. CASE j \in 1 .. n
    <3>1. ~ (j > Len(u.seq)) /\ ~ (j > Len(s.seq)) /\ s.seq[j] = u.seq[j]
      BY <1>2, <1>3, <1>4, <2>2
    <3> QED
      BY <3>1, Zenon DEF Reaches
  <2> QED
    BY <1>5, <2>1, <2>2
<1>6. ASSUME NEW j \in 1 .. n
      PROVE  /\ \A o \in BOOLEAN : Transfer(s, j, o) = Transfer(u, j, o)
             /\ s.seq[j] = u.seq[j] /\ Reaches(s, j + 1) = Reaches(u, j + 1)
  <2>1. s.seq[j] = u.seq[j] /\ j + 1 \in 1 .. n + 1
    BY <1>2, <1>4
  <2>2. Reaches(s, j + 1) = Reaches(u, j + 1)
    BY <1>5, <2>1
  <2>3. CASE j = n
    <3>1. ~ Tests(s, j) /\ ~ Tests(u, j)
      BY <1>2, <1>3, <2>3 DEF Tests
    <3> QED
      BY <2>1, <2>2, <3>1 DEF Transfer
  <2>4. CASE j # n
    <3>1. j + 1 \in 1 .. n /\ j + 2 \in 1 .. n + 1 /\ j + 1 <= m
      BY <1>4, <2>4
    <3>2. s.seq[j + 1] = u.seq[j + 1] /\ Reaches(s, j + 2) = Reaches(u, j + 2)
      BY <1>2, <1>4, <1>5, <3>1
    <3>3. Tests(s, j) <=> Tests(u, j)
      BY <1>2, <1>3, <2>1, <3>1, <3>2 DEF Tests
    <3> QED
      BY <2>1, <2>2, <3>2, <3>3 DEF Transfer
  <2> QED
    BY <2>1, <2>2, <2>3, <2>4
<1>7. 1 \in 1 .. n + 1
  OBVIOUS
<1> QED
  BY <1>1, <1>3, <1>5, <1>6, <1>7, SMTT(30) DEF KeepsAt, InnerAt

(* A body q in a place where control goes on to A: its transfers are the   *)
(* function's, and so is the one to it, from the conditional whose body it *)
(* is (C is empty for the body of the function).                           *)
Runs(C, q, A) ==
  /\ Faithful(Scope(q, A))
  /\ \A a \in C : Known(a, TRUE) => Reaches(Scope(q, A), 1) = GoesTo(a, TRUE)

Settled(C, q) == \A A : Runs(C, q, A)

LEMMA ExtendedRuns ==
  ASSUME NEW C, NEW q, NEW t, IsSequence(q), IsSequence(t), NEW A, NEW V,
         Len(q) < Len(t), \A j \in 1 .. Len(q) : t[j] = q[j],
         t[Len(q) + 1].node \notin {"If", "While"},
         V = Reaches(Scope(t, A), Len(q) + 1), Runs(C, q, V),
         \A j \in Len(q) + 1 .. Len(t) : KeepsAt(Scope(t, A), j) /\ InnerAt(Scope(t, A), j)
  PROVE  Runs(C, t, A)
<1>1. Scope(t, A).seq = t /\ Scope(q, V).seq = q
  BY DEF Scope
<1>2. /\ Reaches(Scope(t, A), 1) = Reaches(Scope(q, V), 1)
      /\ \A j \in 1 .. Len(q) : /\ KeepsAt(Scope(t, A), j) <=> KeepsAt(Scope(q, V), j)
                                /\ InnerAt(Scope(t, A), j) <=> InnerAt(Scope(q, V), j)
  BY PrefixAgrees
<1>3. \A j \in 1 .. Len(q) : KeepsAt(Scope(q, V), j) /\ InnerAt(Scope(q, V), j)
  BY <1>1, FaithfulMeans DEF Runs
<1>4. \A j \in 1 .. Len(t) : j \in 1 .. Len(q) \/ j \in Len(q) + 1 .. Len(t)
  BY SequenceFacts
<1>5. \A j \in 1 .. Len(t) : KeepsAt(Scope(t, A), j) /\ InnerAt(Scope(t, A), j)
  BY <1>2, <1>3, <1>4
<1>6. Faithful(Scope(t, A))
  BY <1>1, <1>5, FaithfulMeans
<1> QED
  BY <1>2, <1>6 DEF Runs

LEMMA EmptyRuns ==
  ASSUME NEW C, NEW A, \A a \in C : Known(a, TRUE) => A = GoesTo(a, TRUE)
  PROVE  Runs(C, <<>>, A)
<1>1. PICK s : s = Scope(<<>>, A)
  OBVIOUS
<1>2. s.seq = <<>> /\ s.after = A
  BY <1>1 DEF Scope
<1>3. Faithful(s)
  BY <1>2, FaithfulMeans
<1>4. Reaches(s, 1) = A
  BY <1>2 DEF Reaches
<1> QED
  BY <1>1, <1>3, <1>4 DEF Runs

(* A label in its place.                                                   *)
LEMMA LabelRuns ==
  ASSUME NEW C, NEW q, IsSequence(q), NEW a, Runs(C, q, {a}), NEW A,
         \A o \in BOOLEAN : Known(a, o) => A = GoesTo(a, o)
  PROVE  Runs(C, Append(q, Label(a)), A)
<1>1. PICK l, t, n : l = Label(a) /\ t = Append(q, l) /\ n = Len(q)
  OBVIOUS
<1>2. PICK s : s = Scope(t, A)
  OBVIOUS
<1>3. /\ IsSequence(t) /\ n \in Nat /\ Len(t) = n + 1 /\ t[n + 1] = l
      /\ \A j \in 1 .. n : t[j] = q[j]
  BY <1>1, Appended, SequenceFacts
<1>4. s.seq = t /\ s.after = A /\ l.node = "Label" /\ l.at = a
  BY <1>1, <1>2 DEF Scope, Label
<1>5. Reaches(s, n + 1) = {a} /\ Reaches(s, (n + 1) + 1) = A /\ ~ Tests(s, n + 1)
  BY <1>3, <1>4 DEF Reaches, Tests
<1>6. KeepsAt(s, n + 1) /\ InnerAt(s, n + 1)
  BY <1>3, <1>4, <1>5 DEF KeepsAt, InnerAt, Transfer
<1>7. \A j \in n + 1 .. Len(t) : j = n + 1
  BY <1>3
<1>8. n < Len(t) /\ t[n + 1].node \notin {"If", "While"}
  BY <1>3, <1>4
<1>9. Runs(C, t, A)
  BY <1>1, <1>2, <1>3, <1>5, <1>6, <1>7, <1>8, ExtendedRuns
<1> QED
  BY <1>1, <1>9

(* A goto or a return ends a body for good.                                *)
LEMMA LeafRuns ==
  ASSUME NEW C, NEW q, IsSequence(q), NEW V, Runs(C, q, V), NEW node,
         \/ node = Return /\ V = {}
         \/ \E a : node = Goto(a) /\ V = {a}
  PROVE  Settled(C, Append(q, node))
<1> SUFFICES ASSUME NEW A
             PROVE  Runs(C, Append(q, node), A)
  BY DEF Settled
<1>1. PICK t, n : t = Append(q, node) /\ n = Len(q)
  OBVIOUS
<1>2. PICK s : s = Scope(t, A)
  OBVIOUS
<1>3. /\ IsSequence(t) /\ n \in Nat /\ Len(t) = n + 1 /\ t[n + 1] = node
      /\ \A j \in 1 .. n : t[j] = q[j]
  BY <1>1, Appended, SequenceFacts
<1>4. s.seq = t /\ node.node \in {"Goto", "Return"}
  BY <1>2 DEF Scope, Goto, Return
<1>5. Reaches(s, n + 1) = V
  BY <1>3, <1>4 DEF Reaches, Goto, Return
<1>6. KeepsAt(s, n + 1) /\ InnerAt(s, n + 1)
  BY <1>3, <1>4 DEF KeepsAt, InnerAt
<1>7. \A j \in n + 1 .. Len(t) : j = n + 1
  BY <1>3
<1>8. n < Len(t) /\ t[n + 1].node \notin {"If", "While"}
  BY <1>3, <1>4
<1>9. Runs(C, t, A)
  BY <1>1, <1>2, <1>3, <1>5, <1>6, <1>7, <1>8, ExtendedRuns, ZenonT(60)
<1> QED
  BY <1>1, <1>9

(* A label with a test behind it.                                          *)
LEMMA TestRuns ==
  ASSUME NEW C, NEW q, IsSequence(q), NEW a, Runs(C, q, {a}), NEW A, NEW node,
         Known(a, FALSE) => A = GoesTo(a, FALSE),
         \/ \E c : node = While(a, c) /\ (Known(a, TRUE) => {c} = GoesTo(a, TRUE))
         \/ \E body : node = If(a, body) /\ Runs({a}, body, A)
  PROVE  Runs(C, Append(Append(q, Label(a)), node), A)
<1>1. PICK l, p, t, n : l = Label(a) /\ p = Append(q, l) /\ t = Append(p, node) /\ n = Len(q)
  OBVIOUS
<1>2. PICK s : s = Scope(t, A)
  OBVIOUS
<1>3. /\ IsSequence(p) /\ n \in Nat /\ Len(p) = n + 1 /\ p[n + 1] = l
      /\ \A j \in 1 .. n : p[j] = q[j]
  BY <1>1, Appended, SequenceFacts
<1>4. /\ IsSequence(t) /\ Len(t) = (n + 1) + 1 /\ t[(n + 1) + 1] = node
      /\ \A j \in 1 .. n + 1 : t[j] = p[j]
  BY <1>1, <1>3, Appended
<1>5. /\ s.seq = t /\ s.after = A /\ l.node = "Label" /\ l.at = a
      /\ node.node \in {"If", "While"} /\ node.cond = a
  <2>1. \A c : While(a, c).node = "While" /\ While(a, c).cond = a
    BY DEF While
  <2>2. \A body : If(a, body).node = "If" /\ If(a, body).cond = a
    BY DEF If
  <2> QED
    BY <1>1, <1>2, <2>1, <2>2 DEF Scope, Label
<1>6. t[n + 1] = l /\ \A j \in 1 .. n : t[j] = q[j]
  BY <1>3, <1>4
<1>7. /\ Reaches(s, n + 1) = {a} /\ Reaches(s, (n + 1) + 2) = A
      /\ Reaches(s, ((n + 1) + 1) + 1) = A /\ Tests(s, n + 1)
  BY <1>3, <1>4, <1>5, <1>6 DEF Reaches, Tests
<1>8. Transfer(s, n + 1, FALSE) = A
  BY <1>7 DEF Transfer
<1>9. /\ Known(a, TRUE) => Transfer(s, n + 1, TRUE) = GoesTo(a, TRUE)
      /\ InnerAt(s, (n + 1) + 1)
  <2>1. ASSUME NEW c, node = While(a, c), Known(a, TRUE) => {c} = GoesTo(a, TRUE)
        PROVE  /\ Known(a, TRUE) => Transfer(s, n + 1, TRUE) = GoesTo(a, TRUE)
               /\ InnerAt(s, (n + 1) + 1)
    <3>1. node.node = "While" /\ node.at = c
      BY <2>1 DEF While
    <3> QED
      BY <1>4, <1>5, <1>7, <2>1, <3>1 DEF Transfer, InnerAt
  <2>2. ASSUME NEW body, node = If(a, body), Runs({a}, body, A)
        PROVE  /\ Known(a, TRUE) => Transfer(s, n + 1, TRUE) = GoesTo(a, TRUE)
               /\ InnerAt(s, (n + 1) + 1)
    <3>1. node.node = "If" /\ node.then = body
      BY <2>2 DEF If
    <3>2. Transfer(s, n + 1, TRUE) = Reaches(Scope(body, A), 1)
      BY <1>4, <1>5, <1>7, <3>1 DEF Transfer
    <3> QED
      BY <1>4, <1>5, <1>7, <2>2, <3>1, <3>2 DEF Runs, InnerAt
  <2> QED
    BY <2>1, <2>2
<1>10. KeepsAt(s, n + 1)
  BY <1>5, <1>6, <1>8, <1>9 DEF KeepsAt
<1>11. InnerAt(s, n + 1) /\ KeepsAt(s, (n + 1) + 1)
  BY <1>4, <1>5, <1>6 DEF InnerAt, KeepsAt
<1>12. \A j \in n + 1 .. Len(t) : j = n + 1 \/ j = (n + 1) + 1
  BY <1>3, <1>4
<1>13. n < Len(t) /\ t[n + 1].node \notin {"If", "While"}
  BY <1>3, <1>4, <1>5, <1>6
<1>14. Runs(C, t, A)
  BY <1>1, <1>2, <1>4, <1>6, <1>7, <1>9, <1>10, <1>11, <1>12, <1>13, ExtendedRuns, ZenonT(60)
<1> QED
  BY <1>1, <1>14

-----------------------------------------------------------------------------
(* Where a conditional that parts its sides goes on: f is the block behind *)
(* it and not its true target, or 0 when no block is behind it.            *)
FalseSide(a, f) ==
  IF Behind(fn, a) = {} THEN f = 0
  ELSE Behind(fn, a) = {f} /\ f \in Successors(a) \ {fn.blocks[a].target}

LEMMA FalseSides ==
  ASSUME SearchInv, Flow(fn), AllParted, Inner.curr \in Blocks,
         fn.blocks[Inner.curr].kind = "cbranch"
  PROVE  FalseSide(Inner.curr, FalseTarget)
<1>1. PICK a, t : a = Inner.curr /\ t = TrueTarget /\ a \in Blocks /\ t = fn.blocks[a].target
  BY DEF TrueTarget
<1>2. PICK B, others : B = Behind(fn, a) /\ others = Successors(a) \ {t}
  OBVIOUS
<1>3. others = B \ {t}
  BY <1>1, <1>2 DEF Flow, Successors, Blocks
<1>4. B \subseteq Blocks /\ Blocks \subseteq Nat /\ \A c, d \in B : c <= d
  <2>1. B \subseteq Blocks /\ \A c, d \in B : c <= d
    BY <1>2 DEF Behind, Blocks
  <2>2. Blocks \subseteq Nat
    BY AddressAssumption DEF SearchInv, IInv, TypeOK, Function, Blocks
  <2> QED
    BY <2>1, <2>2
<1>5. CASE B = {}
  <2>1. FalseTarget = 0
    BY <1>1, <1>2, <1>3, <1>5 DEF FalseTarget
  <2> QED
    BY <1>1, <1>2, <1>5, <2>1 DEF FalseSide
<1>6. CASE B # {}
  <2>1. PICK d : d \in B
    BY <1>6
  <2>2. B = {d} /\ d \in Nat
    <3>1. ASSUME NEW c \in B
          PROVE  c = d
      <4>1. c <= d /\ d <= c /\ c \in Nat /\ d \in Nat
        BY <1>4, <2>1
      <4> QED
        BY <4>1
    <3> QED
      BY <1>4, <2>1, <3>1
  <2>3. d # t
    <3>1. GoesTo(a, TRUE) # GoesTo(a, FALSE)
      BY <1>1 DEF AllParted, Parted
    <3>2. GoesTo(a, TRUE) = {t} \intersect Blocks /\ GoesTo(a, FALSE) = {d}
      BY <1>1, <1>2, <2>2 DEF GoesTo
    <3> QED
      BY <1>4, <2>1, <3>1, <3>2
  <2>4. others = {d}
    BY <1>3, <2>2, <2>3
  <2>5. FalseTarget = CHOOSE x \in {d} : \A c \in {d} : x <= c
    BY <1>1, <1>2, <2>4 DEF FalseTarget
  <2>6. d <= d
    BY <2>2
  <2>7. FalseTarget = d
    BY <2>5, <2>6
  <2> QED
    BY <1>1, <1>2, <2>2, <2>4, <2>7 DEF FalseSide
<1> QED
  BY <1>5, <1>6

(* Where control goes from the block of a conditional.                     *)
LEMMA ConditionalGoes ==
  ASSUME NEW a, fn.blocks[a].kind = "cbranch", NEW t, t = fn.blocks[a].target,
         NEW f, FalseSide(a, f)
  PROVE  /\ Known(a, TRUE) <=> t \in Blocks
         /\ Known(a, TRUE) => GoesTo(a, TRUE) = {t}
         /\ Known(a, FALSE) <=> Behind(fn, a) # {}
         /\ Known(a, FALSE) => GoesTo(a, FALSE) = {f}
         /\ ~ Known(a, FALSE) => f = 0
<1>1. GoesTo(a, TRUE) = {t} \intersect Blocks /\ GoesTo(a, FALSE) = Behind(fn, a)
  BY DEF GoesTo
<1>2. \A o \in BOOLEAN : Known(a, o) <=> GoesTo(a, o) # {}
  BY DEF Known
<1> QED
  BY <1>1, <1>2 DEF FalseSide

-----------------------------------------------------------------------------
(* The descent of a function whose conditionals part their sides.          *)

CallerOf(j) == IF j = 1 THEN {} ELSE {regions[j - 1].curr}

(* Control enters what is visited through blocks visited before.           *)
Entered ==
  \A c \in Blocks : (c \in visited \/ c = Inner.curr) /\ c # fn.entry =>
    \E b \in Blocks \intersect visited : b # c /\ c \in Successors(b)

(* A region that waits, called by the conditional in C, has just labelled  *)
(* its block.                                                              *)
Paused(C, r) ==
  /\ fn.blocks[r.curr].kind = "cbranch"
  /\ FalseSide(r.curr, r.false_target)
  /\ \E q : IsSequence(q) /\ r.seq = Append(q, Label(r.curr)) /\ Runs(C, q, {r.curr})

Awaits(r) == r.resume = "converge" /\ Behind(fn, r.curr) # {}

(* What a region waits for is still to be structured, and by no other.     *)
Awaited(r) ==
  Awaits(r) => /\ OnlyWayIn(r.curr, r.false_target)
               /\ r.false_target \notin visited /\ r.false_target # Inner.curr

Apart == \A i, j \in 1 .. Depth - 1 : i # j => regions[i].curr # regions[j].curr

(* The innermost body goes on at the region's block, or control does not   *)
(* come to its end.                                                        *)
Going(C, r) ==
  /\ IsSequence(r.seq)
  /\ \/ Settled(C, r.seq)
     \/ ~ r.ended /\ r.curr \in Blocks \ visited /\ Runs(C, r.seq, {r.curr})

Flows ==
  /\ Entered /\ Apart
  /\ \A j \in 1 .. Depth - 1 : Paused(CallerOf(j), regions[j]) /\ Awaited(regions[j])
  /\ Going(CallerOf(Depth), Inner)

FlowInv ==
  /\ DescentInv
  /\ phase = "structure" /\ AllParted => Flows
  /\ phase = "done" /\ AllParted => Faithful(Scope(ast, {}))

LEMMA SameFlow ==
  ASSUME UNCHANGED search
  PROVE  /\ \A a : Behind(fn, a)' = Behind(fn, a)
         /\ \A a, f : FalseSide(a, f)' <=> FalseSide(a, f)
         /\ \A a, c : OnlyWayIn(a, c)' <=> OnlyWayIn(a, c)
         /\ AllParted' <=> AllParted
         /\ \A a, o : GoesTo(a, o)' = GoesTo(a, o) /\ (Known(a, o)' <=> Known(a, o))
         /\ \A s : Faithful(s)' <=> Faithful(s)
         /\ \A C, q, A : Runs(C, q, A)' <=> Runs(C, q, A)
         /\ \A C, q : Settled(C, q)' <=> Settled(C, q)
<1>1. /\ fn' = fn /\ Blocks' = Blocks /\ back_edges' = back_edges
      /\ \A a : Successors(a)' = Successors(a)
  BY SameGraph DEF search
<1>2. /\ \A a : Behind(fn, a)' = Behind(fn, a)
      /\ \A a, f : FalseSide(a, f)' <=> FalseSide(a, f)
      /\ \A a, c : OnlyWayIn(a, c)' <=> OnlyWayIn(a, c)
  BY <1>1 DEF Behind, FalseSide, OnlyWayIn
<1>3. \A a, o : GoesTo(a, o)' = GoesTo(a, o)
  BY <1>1, <1>2 DEF GoesTo
<1>4. \A a, o : Known(a, o)' <=> Known(a, o)
  BY <1>1, <1>3 DEF Known
<1>5. AllParted' <=> AllParted
  BY <1>1, <1>2, <1>3 DEF AllParted, Parted
<1>6. \A s, j : KeepsAt(s, j)' <=> KeepsAt(s, j)
  BY <1>3, <1>4 DEF KeepsAt
<1>7. \A s : Faithful(s)' <=> Faithful(s)
  <2>1. \A s : Keeps(s)' <=> Keeps(s)
    BY <1>6 DEF Keeps
  <2>2. \A Z : KeptWithin(Z)' <=> KeptWithin(Z)
    BY <2>1 DEF KeptWithin
  <2> QED
    BY <2>2 DEF Faithful
<1>8. \A C, q, A : Runs(C, q, A)' <=> Runs(C, q, A)
  BY <1>3, <1>4, <1>7 DEF Runs
<1>9. \A C, q : Settled(C, q)' <=> Settled(C, q)
  BY <1>8 DEF Settled
<1> QED
  BY <1>2, <1>3, <1>4, <1>5, <1>7, <1>8, <1>9

(* The only way into a block is through a block just visited: nothing has  *)
(* been there.                                                             *)
LEMMA OnlyWayInIsNew ==
  ASSUME Entered, Inner.curr \notin visited, NEW d \in Blocks, OnlyWayIn(Inner.curr, d)
  PROVE  d \notin visited /\ d # Inner.curr
<1> SUFFICES ASSUME d \in visited \/ d = Inner.curr
             PROVE  FALSE
  OBVIOUS
<1>1. PICK b \in Blocks \intersect visited : b # d /\ d \in Successors(b)
  BY DEF Entered, OnlyWayIn
<1> QED
  BY <1>1 DEF OnlyWayIn

(* A turn that goes on along an edge leaves alone what others wait for.    *)
LEMMA TurnFlows ==
  ASSUME DescentInv, phase = "structure", Flows, Goes(Inner), UNCHANGED search,
         visited' = visited \union {Inner.curr}, NEW r, regions' = Become(r),
         r.curr \in Blocks =>
           \/ r.curr \in {Inner.curr, fn.entry}
           \/ Inner.curr \in Blocks /\ r.curr \in Successors(Inner.curr),
         IsSequence(r.seq),
         \/ Settled(CallerOf(Depth), r.seq)
         \/ /\ ~ r.ended /\ r.curr \in Blocks \ visited'
            /\ Runs(CallerOf(Depth), r.seq, {r.curr})
  PROVE  Flows'
<1>1. PICK n \in Nat \ {0} : n = Depth
  BY BecomeMeans DEF DescentInv
<1>2. PICK a : a = regions[n].curr /\ a = Inner.curr
  BY <1>1 DEF Inner, Depth
<1>3. /\ Depth' = n /\ regions'[n] = r /\ Inner' = r
      /\ \A j \in 1 .. n - 1 : regions'[j] = regions[j]
  BY <1>1, BecomeMeans DEF DescentInv, Inner, Depth
<1>4. a \notin visited /\ visited' = visited \union {a}
  BY <1>2 DEF Goes
<1>5. \A j \in 1 .. n - 1 : regions[j].curr \in Blocks \intersect visited
  BY <1>1 DEF DescentInv, Nested, Waits
<1>6. \A j \in 1 .. n : CallerOf(j)' = CallerOf(j)
  <2>1. \A j \in 1 .. n : j # 1 => j - 1 \in 1 .. n - 1
    OBVIOUS
  <2> QED
    BY <1>3, <2>1 DEF CallerOf
<1>7. fn' = fn /\ Blocks' = Blocks /\ \A b : Successors(b)' = Successors(b)
  BY SameGraph
<1>8. Entered'
  <2> SUFFICES ASSUME NEW c \in Blocks, c \in visited' \/ c = r.curr, c # fn.entry
               PROVE  \E b \in Blocks \intersect visited' : b # c /\ c \in Successors(b)
    BY <1>3, <1>7 DEF Entered
  <2>1. CASE c \in visited \/ c = a
    BY <1>2, <1>4, <2>1 DEF Flows, Entered
  <2>2. CASE ~ (c \in visited \/ c = a)
    <3>1. a \in Blocks /\ c \in Successors(a) /\ a # c
      BY <1>2, <1>4, <2>2
    <3> QED
      BY <1>4, <3>1
  <2> QED
    BY <2>1, <2>2
<1>9. Apart'
  <2>1. \A i, j \in 1 .. n - 1 : i # j => regions[i].curr # regions[j].curr
    BY <1>1 DEF Flows, Apart
  <2> QED
    BY <1>3, <2>1 DEF Apart
<1>10. ASSUME NEW j \in 1 .. n - 1
       PROVE  Paused(CallerOf(j), regions[j])' /\ Awaited(regions[j])'
  <2>1. PICK x, C : x = regions[j] /\ x = regions'[j] /\ C = CallerOf(j) /\ C = CallerOf(j)'
    BY <1>3, <1>6
  <2>2. Paused(C, x) /\ Awaited(x) /\ x.curr \in Blocks \intersect visited
    BY <1>1, <1>5, <2>1 DEF Flows
  <2>3. Paused(C, x)'
    BY <1>7, <2>2, SameFlow DEF Paused
  <2>4. ASSUME Awaits(x)
        PROVE  x.false_target \notin visited' /\ x.false_target # r.curr
    <3>1. OnlyWayIn(x.curr, x.false_target) /\ x.false_target \notin visited
          /\ x.false_target # a
      BY <1>2, <2>2, <2>4 DEF Awaited
    <3>2. x.false_target \in Blocks
      BY <2>2, <2>4 DEF Awaits, Paused, FalseSide, Behind, Blocks
    <3>3. a \in Blocks => x.false_target \notin Successors(a)
      BY <1>4, <2>2, <3>1 DEF OnlyWayIn
    <3>4. x.false_target # fn.entry
      BY <3>1 DEF OnlyWayIn
    <3> QED
      BY <1>2, <1>4, <3>1, <3>2, <3>3, <3>4
  <2>5. Awaited(x)'
    <3>1. Awaits(x)' <=> Awaits(x)
      BY SameFlow DEF Awaits
    <3> QED
      BY <1>3, <2>2, <2>4, <3>1, SameFlow DEF Awaited
  <2> QED
    BY <2>1, <2>3, <2>5
<1>11. Going(CallerOf(Depth), Inner)'
  <2>1. PICK C : C = CallerOf(n) /\ C = CallerOf(Depth)'
    BY <1>1, <1>3, <1>6
  <2>2. Going(C, r)'
    BY <1>1, <1>7, <2>1, SameFlow DEF Going
  <2> QED
    BY <1>3, <2>1, <2>2
<1> QED
  BY <1>3, <1>8, <1>9, <1>10, <1>11 DEF Flows

-----------------------------------------------------------------------------
(* One lemma for each action.                                              *)

(* A visit finds the transfers of its region kept up to its block.         *)
LEMMA VisitFinds ==
  ASSUME DescentInv, Flows, NEW kind, Visit(kind)
  PROVE  /\ IsSequence(Inner.seq) /\ Runs(CallerOf(Depth), Inner.seq, {Inner.curr})
         /\ IsSequence(Labelled) /\ Labelled = Append(Inner.seq, Label(Inner.curr))
         /\ Entered /\ Inner.curr \in Blocks /\ Inner.curr \notin visited
<1>1. Inner.curr \in Blocks /\ Inner.curr \notin visited
  BY VisitMeans DEF Goes
<1>2. Going(CallerOf(Depth), Inner) /\ Entered
  BY DEF Flows
<1>3. IsSequence(Inner.seq) /\ Runs(CallerOf(Depth), Inner.seq, {Inner.curr})
  BY <1>2 DEF Going, Settled
<1>4. Labelled = Append(Inner.seq, Label(Inner.curr))
  BY DEF Labelled
<1>5. IsSequence(Labelled)
  BY <1>3, <1>4, Appended
<1> QED
  BY <1>1, <1>2, <1>3, <1>4, <1>5

LEMMA NowhereFlows ==
  ASSUME DescentInv, Flows, VisitNowhere
  PROVE  Flows'
<1>1. PICK r : r = [Inner EXCEPT !.ended = TRUE] /\ regions' = Become(r)
  BY DEF VisitNowhere
<1>2. /\ phase = "structure" /\ Goes(Inner) /\ UNCHANGED search
      /\ visited' = visited \union {Inner.curr} /\ Inner.curr \notin Blocks /\ Nested
  BY DEF VisitNowhere, DescentInv
<1>3. r.seq = Inner.seq /\ r.curr = Inner.curr
  BY <1>1, <1>2, InnerIsRegion DEF IsRegion
<1>4. IsSequence(r.seq) /\ Settled(CallerOf(Depth), r.seq)
  BY <1>2, <1>3 DEF Flows, Going
<1> QED
  BY <1>1, <1>2, <1>3, <1>4, TurnFlows

LEMMA LoopFlows ==
  ASSUME DescentInv, AllParted, Flows, VisitLoop
  PROVE  Flows'
<1>1. PICK q, t, f, a, C, p, node :
        /\ q = Inner.seq /\ a = Inner.curr /\ t = TrueTarget /\ f = FalseTarget
        /\ C = CallerOf(Depth) /\ node = While(a, t) /\ p = Append(Labelled, node)
  OBVIOUS
<1>2. PICK r : r = Moved(Inner, p, f) /\ regions' = Become(r)
  BY <1>1 DEF VisitLoop, Moved
<1>3. /\ phase = "structure" /\ Goes(Inner) /\ UNCHANGED search
      /\ visited' = visited \union {a}
      /\ a \in Blocks /\ fn.blocks[a].kind = "cbranch"
      /\ SearchInv /\ Flow(fn) /\ ~ Inner.ended
      /\ IsRegion(Inner) /\ Inner.resume = "none" /\ Recorded(a, t)
  BY <1>1, VisitMeans DEF VisitLoop, Recorded
<1>4. /\ IsSequence(q) /\ Runs(C, q, {a}) /\ IsSequence(Labelled)
      /\ Labelled = Append(q, Label(a)) /\ Entered /\ a \notin visited
  BY <1>1, VisitFinds DEF VisitLoop
<1>5. FalseSide(a, f) /\ t = fn.blocks[a].target
  BY <1>1, <1>3, FalseSides DEF TrueTarget
<1>6. /\ Known(a, TRUE) => GoesTo(a, TRUE) = {t}
      /\ Known(a, FALSE) <=> Behind(fn, a) # {}
      /\ Known(a, FALSE) => GoesTo(a, FALSE) = {f}
  BY <1>3, <1>5, ConditionalGoes
<1>7. f \in Address \union {0} /\ (f \in Blocks => f \in Successors(a) \/ f = fn.entry)
  BY <1>1, <1>3, FalseEdge
<1>8. r.curr = f /\ r.seq = p /\ ~ r.ended
  <2>1. r.curr = f /\ ~ r.ended
    BY <1>2, <1>3, <1>7, Turned
  <2> QED
    BY <1>2, <1>3, <2>1, TurnedSeq
<1>9. IsSequence(p)
  BY <1>1, <1>4, Appended
<1>10. ASSUME NEW A, Known(a, FALSE) => A = {f}
       PROVE  Runs(C, p, A)
  <2>1. Known(a, FALSE) => A = GoesTo(a, FALSE)
    BY <1>6, <1>10
  <2>2. node = While(a, t) /\ (Known(a, TRUE) => {t} = GoesTo(a, TRUE))
    BY <1>1, <1>6
  <2>3. Runs(C, Append(Append(q, Label(a)), node), A)
    BY <1>4, <2>1, <2>2, TestRuns
  <2> QED
    BY <1>1, <1>4, <2>3
<1>11. CASE Known(a, FALSE)
  <2>1. f \in Successors(a) \ {t} /\ f \in Blocks
    BY <1>5, <1>6, <1>11 DEF FalseSide, Behind, Blocks
  <2>2. OnlyWayIn(a, f)
    <3>1. t \in Successors(a) \ {f}
      BY <1>3, <2>1 DEF SearchInv, IInv, BackEdgesCloseLoops, Recorded
    <3>2. Parted(a)
      BY <1>3 DEF AllParted
    <3> QED
      BY <1>3, <2>1, <3>1, <3>2 DEF Parted, Recorded
  <2>3. f \notin visited'
    BY <1>1, <1>3, <1>4, <2>1, <2>2, OnlyWayInIsNew
  <2>4. Runs(C, p, {f})
    BY <1>10
  <2> QED
    BY <1>1, <1>2, <1>3, <1>7, <1>8, <1>9, <2>1, <2>3, <2>4, TurnFlows
<1>12. CASE ~ Known(a, FALSE)
  <2>1. Settled(C, p)
    BY <1>10, <1>12 DEF Settled
  <2> QED
    BY <1>1, <1>2, <1>3, <1>7, <1>8, <1>9, <2>1, TurnFlows
<1> QED
  BY <1>11, <1>12

LEMMA JumpFlows ==
  ASSUME DescentInv, Flows, VisitJump
  PROVE  Flows'
<1>1. PICK q, t, a, C :
        q = Inner.seq /\ a = Inner.curr /\ t = TrueTarget /\ C = CallerOf(Depth)
  OBVIOUS
<1>2. /\ phase = "structure" /\ Goes(Inner) /\ UNCHANGED search
      /\ visited' = visited \union {a}
      /\ a \in Blocks /\ fn.blocks[a].kind = "branch"
      /\ SearchInv /\ Flow(fn) /\ ~ Inner.ended
      /\ IsRegion(Inner) /\ Inner.resume = "none"
  BY <1>1, VisitMeans DEF VisitJump
<1>3. /\ IsSequence(q) /\ Runs(C, q, {a}) /\ IsSequence(Labelled)
      /\ Labelled = Append(q, Label(a))
  BY <1>1, VisitFinds DEF VisitJump
<1>4. t \in Address /\ (t \in Blocks => t \in Successors(a)) /\ t = fn.blocks[a].target
  BY <1>1, <1>2, TurnEdges DEF TrueTarget
<1>5. \A o \in BOOLEAN : GoesTo(a, o) = {t} \intersect Blocks /\ (Known(a, o) <=> t \in Blocks)
  BY <1>2, <1>4 DEF GoesTo, Known
<1>6. ASSUME NEW A, t \in Blocks => A = {t}
      PROVE  Runs(C, Labelled, A)
  <2>1. \A o \in BOOLEAN : Known(a, o) => A = GoesTo(a, o)
    BY <1>5, <1>6
  <2> QED
    BY <1>3, <2>1, LabelRuns
<1>7. Runs(C, Labelled, {t})
  BY <1>6
<1>8. CASE <<a, t>> \in back_edges \/ t \in visited'
  <2>1. PICK p : p = Append(Labelled, Goto(t))
    OBVIOUS
  <2>2. PICK r : r = Ended(Inner, p) /\ regions' = Become(r)
    BY <1>1, <1>8, <2>1 DEF VisitJump, Ended
  <2>3. r.seq = p /\ r.curr = a
    BY <1>1, <1>2, <2>2 DEF Ended, IsRegion
  <2>4. Settled(C, p) /\ IsSequence(p)
    BY <1>3, <1>7, <2>1, LeafRuns, Appended
  <2> QED
    BY <1>1, <1>2, <2>2, <2>3, <2>4, TurnFlows
<1>9. CASE ~ (<<a, t>> \in back_edges \/ t \in visited')
  <2>1. PICK r : r = Moved(Inner, Labelled, t) /\ regions' = Become(r)
    BY <1>1, <1>9 DEF VisitJump, Moved
  <2>2. r.seq = Labelled /\ r.curr = t /\ ~ r.ended
    <3>1. r.curr = t /\ ~ r.ended
      BY <1>2, <1>4, <2>1, Turned
    <3> QED
      BY <1>2, <2>1, <3>1, TurnedSeq
  <2>3. t \notin Blocks => Settled(C, Labelled)
    BY <1>6 DEF Settled
  <2> QED
    BY <1>1, <1>2, <1>3, <1>4, <1>7, <1>9, <2>1, <2>2, <2>3, TurnFlows
<1> QED
  BY <1>8, <1>9

LEMMA ReturnFlows ==
  ASSUME DescentInv, Flows, VisitReturn
  PROVE  Flows'
<1>1. PICK q, a, C, p :
        /\ q = Inner.seq /\ a = Inner.curr /\ C = CallerOf(Depth)
        /\ p = Append(Labelled, Return)
  OBVIOUS
<1>2. /\ phase = "structure" /\ Goes(Inner) /\ UNCHANGED search
      /\ visited' = visited \union {a}
      /\ fn.blocks[a].kind = "return" /\ IsRegion(Inner)
  BY <1>1, VisitMeans DEF VisitReturn
<1>3. /\ IsSequence(q) /\ Runs(C, q, {a}) /\ IsSequence(Labelled)
      /\ Labelled = Append(q, Label(a))
  BY <1>1, VisitFinds DEF VisitReturn
<1>4. PICK r : r = Ended(Inner, p) /\ regions' = Become(r)
  BY <1>1 DEF VisitReturn, Ended
<1>5. r.seq = p /\ r.curr = a
  BY <1>1, <1>2, <1>4 DEF Ended, IsRegion
<1>6. \A o \in BOOLEAN : GoesTo(a, o) = {}
  BY <1>2 DEF GoesTo
<1>7. Runs(C, Labelled, {})
  BY <1>3, <1>6, LabelRuns
<1>8. Settled(C, p) /\ IsSequence(p)
  BY <1>1, <1>3, <1>7, LeafRuns, Appended
<1> QED
  BY <1>1, <1>2, <1>4, <1>5, <1>8, TurnFlows

LEMMA FallthroughFlows ==
  ASSUME DescentInv, Flows, VisitFallthrough
  PROVE  Flows'
<1>1. PICK q, a, C, next :
        q = Inner.seq /\ a = Inner.curr /\ C = CallerOf(Depth) /\ next = Successors(a)
  OBVIOUS
<1>2. /\ phase = "structure" /\ Goes(Inner) /\ UNCHANGED search
      /\ visited' = visited \union {a}
      /\ a \in Blocks /\ fn.blocks[a].kind = "fall"
      /\ SearchInv /\ Flow(fn) /\ ~ Inner.ended
      /\ IsRegion(Inner) /\ Inner.resume = "none"
  BY <1>1, VisitMeans DEF VisitFallthrough
<1>3. /\ IsSequence(q) /\ Runs(C, q, {a}) /\ IsSequence(Labelled)
      /\ Labelled = Append(q, Label(a))
  BY <1>1, VisitFinds DEF VisitFallthrough
<1>4. next \subseteq Blocks /\ Blocks \subseteq Address /\ \A c, d \in next : c = d
  BY <1>1, <1>2, TurnEdges
<1>5. \A o \in BOOLEAN : GoesTo(a, o) = next /\ (Known(a, o) <=> next # {})
  BY <1>1, <1>2 DEF GoesTo, Known
<1>6. ASSUME NEW A, next # {} => A = next
      PROVE  Runs(C, Labelled, A)
  <2>1. \A o \in BOOLEAN : Known(a, o) => A = GoesTo(a, o)
    BY <1>5, <1>6
  <2> QED
    BY <1>3, <2>1, LabelRuns
<1>7. ASSUME NEW d \in next
      PROVE  Runs(C, Labelled, {d})
  <2>1. next = {d}
    BY <1>4, <1>7
  <2> QED
    BY <1>6, <2>1
<1>8. CASE next = {}
  <2>1. PICK r : r = Ended(Inner, Labelled) /\ regions' = Become(r)
    BY <1>1, <1>8 DEF VisitFallthrough, Ended
  <2>2. r.seq = Labelled /\ r.curr = a
    BY <1>1, <1>2, <2>1 DEF Ended, IsRegion
  <2>3. Settled(C, Labelled)
    BY <1>6, <1>8 DEF Settled
  <2> QED
    BY <1>1, <1>2, <1>3, <2>1, <2>2, <2>3, TurnFlows
<1>9. CASE next # {} /\ next \subseteq visited'
  <2>1. PICK d, p, r : /\ d \in next /\ p = Append(Labelled, Goto(d))
                       /\ r = Ended(Inner, p) /\ regions' = Become(r)
    BY <1>1, <1>9 DEF VisitFallthrough, Ended
  <2>2. r.seq = p /\ r.curr = a
    BY <1>1, <1>2, <2>1 DEF Ended, IsRegion
  <2>3. Settled(C, p) /\ IsSequence(p)
    BY <1>3, <1>7, <2>1, LeafRuns, Appended
  <2> QED
    BY <1>1, <1>2, <2>1, <2>2, <2>3, TurnFlows
<1>10. CASE ~ (next \subseteq visited')
  <2>1. PICK d, r :
          d \in next \ visited' /\ r = Moved(Inner, Labelled, d) /\ regions' = Become(r)
    BY <1>1, <1>10 DEF VisitFallthrough, Moved
  <2>2. r.seq = Labelled /\ r.curr = d /\ ~ r.ended
    <3>1. r.curr = d /\ ~ r.ended
      BY <1>2, <1>4, <2>1, Turned
    <3> QED
      BY <1>2, <2>1, <3>1, TurnedSeq
  <2>3. Runs(C, Labelled, {d})
    BY <1>7, <2>1
  <2> QED
    BY <1>1, <1>2, <1>3, <1>4, <2>1, <2>2, <2>3, TurnFlows
<1> QED
  BY <1>8, <1>9, <1>10

LEMMA ConditionalFlows ==
  ASSUME DescentInv, AllParted, Flows, VisitConditional
  PROVE  Flows'
<1>1. PICK a, f, t, q, resume, w, b, C :
        /\ a = Inner.curr /\ f = FalseTarget /\ t = TrueTarget /\ q = Inner.seq
        /\ resume = (IF Recorded(a, f) THEN "loop" ELSE "converge")
        /\ w = Waiting(Inner, Labelled, f, resume) /\ b = Region(t, {f})
        /\ regions' = Append(Become(w), b) /\ C = CallerOf(Depth)
  BY DEF VisitConditional, Waiting, Recorded
<1>2. /\ Goes(Inner) /\ UNCHANGED search /\ visited' = visited \union {a}
      /\ a \in Blocks /\ fn.blocks[a].kind = "cbranch"
      /\ SearchInv /\ Flow(fn) /\ Nested
      /\ IsRegion(Inner) /\ ~ Recorded(a, t)
  BY <1>1, VisitMeans DEF VisitConditional, Recorded
<1>3. /\ IsSequence(q) /\ Runs(C, q, {a}) /\ Labelled = Append(q, Label(a))
      /\ Entered /\ a \notin visited
  BY <1>1, VisitFinds DEF VisitConditional
<1>4. FalseSide(a, f) /\ t = fn.blocks[a].target
  BY <1>1, <1>2, FalseSides DEF TrueTarget
<1>5. /\ Known(a, TRUE) <=> t \in Blocks
      /\ Known(a, TRUE) => GoesTo(a, TRUE) = {t}
  BY <1>2, <1>4, ConditionalGoes
<1>6. /\ f \in Address \union {0} /\ t \in Address
      /\ t \in Blocks => t \in Successors(a)
  BY <1>1, <1>2, FalseEdge, TurnEdges
<1>7. /\ w.resume = resume /\ w.curr = a /\ w.false_target = f /\ w.seq = Labelled
  <2>1. w.resume = resume /\ w.curr = a /\ w.false_target = f
    BY <1>1, <1>2, <1>6, WaitingMeans
  <2> QED
    BY <1>1, <1>2, <2>1, TurnedSeq
<1>8. b.curr = t /\ ~ b.ended /\ b.seq = <<>>
  BY <1>1 DEF Region
<1>9. PICK n \in Nat \ {0} :
        /\ n = Depth /\ Depth' = n + 1 /\ regions'[n] = w /\ regions'[n + 1] = b
        /\ \A j \in 1 .. n - 1 : regions'[j] = regions[j]
  <2>1. Nested /\ regions' = Append(Become(w), b)
    BY <1>1, <1>2
  <2> QED
    BY <2>1, Enters
<1>10. Inner' = b /\ a = regions[n].curr
  BY <1>1, <1>9 DEF Inner, Depth
<1>11. /\ \A j \in 1 .. n : CallerOf(j)' = CallerOf(j)
       /\ CallerOf(n + 1)' = {a}
  <2>1. \A j \in 1 .. n : j # 1 => j - 1 \in 1 .. n - 1
    OBVIOUS
  <2>2. n + 1 # 1 /\ (n + 1) - 1 = n
    OBVIOUS
  <2> QED
    BY <1>7, <1>9, <2>1, <2>2 DEF CallerOf
<1>12. fn' = fn /\ Blocks' = Blocks /\ \A c : Successors(c)' = Successors(c)
  BY <1>2, SameGraph
<1>13. /\ \A j \in 1 .. n - 1 : regions[j].curr \in Blocks \intersect visited
       /\ \A j \in 1 .. n : j = n \/ j \in 1 .. n - 1
  BY <1>2, <1>9 DEF Nested, Waits
<1>14. Parted(a)
  BY <1>2 DEF AllParted
<1>15. t \in Blocks => t \notin visited'
  <2>1. t \in Blocks => OnlyWayIn(a, t)
    BY <1>2, <1>6, <1>14 DEF Parted, Recorded
  <2> QED
    BY <1>1, <1>2, <1>3, <2>1, OnlyWayInIsNew
<1>16. Entered'
  <2> SUFFICES ASSUME NEW c \in Blocks, c \in visited' \/ c = t, c # fn.entry
               PROVE  \E x \in Blocks \intersect visited' : x # c /\ c \in Successors(x)
    BY <1>8, <1>10, <1>12 DEF Entered
  <2>1. CASE c \in visited \/ c = a
    BY <1>1, <1>2, <1>3, <2>1 DEF Entered
  <2>2. CASE ~ (c \in visited \/ c = a)
    <3>1. c \in Successors(a) /\ a # c /\ a \in Blocks \intersect visited'
      BY <1>2, <1>6, <2>2
    <3> QED
      BY <3>1
  <2> QED
    BY <2>1, <2>2
<1>17. Apart'
  <2>1. \A i, j \in 1 .. n - 1 : i # j => regions[i].curr # regions[j].curr
    BY <1>9 DEF Flows, Apart
  <2>2. \A j \in 1 .. n - 1 : regions[j].curr # a
    BY <1>3, <1>13
  <2>3. \A i, j \in 1 .. n : i # j => regions'[i].curr # regions'[j].curr
    BY <1>7, <1>9, <1>13, <2>1, <2>2
  <2> QED
    BY <1>9, <2>3 DEF Apart
<1>18. ASSUME NEW x, Awaited(x), \E D : Paused(D, x),
              x.curr \in Blocks \intersect visited
       PROVE  Awaited(x)'
  <2>1. Awaits(x)' <=> Awaits(x)
    BY <1>2, SameFlow DEF Awaits
  <2>2. ASSUME Awaits(x)
        PROVE  x.false_target \notin visited' /\ x.false_target # t
    <3>1. OnlyWayIn(x.curr, x.false_target) /\ x.false_target \notin visited
          /\ x.false_target # a
      BY <1>1, <1>18, <2>2 DEF Awaited
    <3>2. x.false_target \in Blocks
      BY <1>18, <2>2 DEF Awaits, Paused, FalseSide, Behind, Blocks
    <3>3. x.false_target \notin Successors(a)
      BY <1>2, <1>3, <1>18, <3>1 DEF OnlyWayIn
    <3> QED
      BY <1>2, <1>6, <3>1, <3>2, <3>3
  <2> QED
    BY <1>2, <1>8, <1>10, <1>18, <2>1, <2>2, SameFlow DEF Awaited
<1>19. ASSUME NEW j \in 1 .. n - 1
       PROVE  Paused(CallerOf(j), regions[j])' /\ Awaited(regions[j])'
  <2>1. PICK x, D : x = regions[j] /\ x = regions'[j] /\ D = CallerOf(j) /\ D = CallerOf(j)'
    BY <1>9, <1>11
  <2>2. Paused(D, x) /\ Awaited(x) /\ x.curr \in Blocks \intersect visited
    BY <1>9, <1>13, <2>1 DEF Flows
  <2>3. Paused(D, x)'
    BY <1>2, <1>12, <2>2, SameFlow DEF Paused
  <2>4. Awaited(x)'
    BY <1>18, <2>2
  <2> QED
    BY <2>1, <2>3, <2>4
<1>20. Paused(C, w)' /\ Awaited(w)'
  <2>1. Paused(C, w)
    BY <1>2, <1>3, <1>4, <1>7 DEF Paused
  <2>2. Paused(C, w)'
    BY <1>2, <1>12, <2>1, SameFlow DEF Paused
  <2>3. Awaits(w)' <=> Awaits(w)
    BY <1>2, SameFlow DEF Awaits
  <2>4. ASSUME Awaits(w)
        PROVE  OnlyWayIn(a, f) /\ f \notin visited' /\ f # t
    <3>1. ~ Recorded(a, f) /\ f \in Successors(a) \ {t} /\ f \in Blocks
      BY <1>1, <1>4, <1>7, <2>4 DEF Awaits, FalseSide, Behind, Blocks
    <3>2. OnlyWayIn(a, f)
      BY <1>14, <3>1 DEF Parted, Recorded
    <3>3. f \notin visited /\ f # a
      BY <1>1, <1>3, <3>1, <3>2, OnlyWayInIsNew
    <3> QED
      BY <1>2, <3>1, <3>2, <3>3
  <2>5. Awaited(w)'
    BY <1>2, <1>7, <1>8, <1>10, <2>3, <2>4, SameFlow DEF Awaited
  <2> QED
    BY <2>2, <2>5
<1>21. ASSUME NEW j \in 1 .. n
       PROVE  Paused(CallerOf(j), regions[j])' /\ Awaited(regions[j])'
  <2>1. CASE j = n
    <3>1. CallerOf(j)' = C /\ regions[j]' = w
      BY <1>1, <1>9, <1>11, <2>1
    <3> QED
      BY <1>20, <3>1
  <2>2. CASE j \in 1 .. n - 1
    BY <1>19, <2>2
  <2> QED
    BY <1>13, <2>1, <2>2
<1>22. Going(CallerOf(Depth), Inner)'
  <2>1. ASSUME NEW A, t \in Blocks => A = {t}
        PROVE  Runs({a}, <<>>, A)
    <3>1. \A c \in {a} : Known(c, TRUE) => A = GoesTo(c, TRUE)
      BY <1>5, <2>1
    <3> QED
      BY <3>1, EmptyRuns
  <2>2. t \notin Blocks => Settled({a}, <<>>)
    BY <2>1 DEF Settled
  <2>3. Runs({a}, <<>>, {t})
    BY <2>1
  <2>4. IsSequence(<<>>)
    BY DEF IsSequence
  <2>5. PICK D : D = {a} /\ D = CallerOf(Depth)'
    BY <1>9, <1>11
  <2>6. Going(D, b)'
    BY <1>2, <1>8, <1>12, <1>15, <2>2, <2>3, <2>4, <2>5, SameFlow DEF Going
  <2> QED
    BY <1>10, <2>5, <2>6
<1>23. Depth' - 1 = n
  BY <1>9
<1> QED
  BY <1>16, <1>17, <1>21, <1>22, <1>23 DEF Flows

(* A body that ends: its conditional takes it in, and what it leaves open  *)
(* is what the conditional waits for.                                      *)
LEMMA BodyRuns ==
  ASSUME DescentInv, phase = "structure", Flows, ~ Goes(Inner), Depth > 1,
         NEW x, x = regions[Depth - 1], NEW t, t = Append(x.seq, If(x.curr, Inner.seq)),
         NEW f, f = x.false_target
  PROVE  /\ IsSequence(t) /\ Runs(CallerOf(Depth - 1), t, {f})
         /\ Behind(fn, x.curr) = {} => Settled(CallerOf(Depth - 1), t)
<1>1. SearchInv /\ Flow(fn) /\ Nested /\ EntryFirst
  BY DEF DescentInv
<1>2. PICK n \in Nat \ {0} : Depth = n + 1
  <2>1. Depth \in Nat
    BY <1>1, SequenceFacts DEF Nested, Depth
  <2>2. PICK n \in Nat \ {0} : Depth = n + 1
    BY <2>1
  <2> QED
    BY <2>2
<1>3. PICK a, y, C : a = x.curr /\ y = Inner /\ C = CallerOf(n)
  OBVIOUS
<1>4. /\ x = regions[n] /\ y = regions[n + 1] /\ n \in 1 .. Depth - 1
      /\ Waits(x) /\ y.stop = {f}
  <2>1. x = regions[n] /\ y = regions[n + 1] /\ n \in 1 .. Depth - 1
    BY <1>2, <1>3 DEF Inner, Depth
  <2> QED
    BY <1>1, <2>1 DEF Nested
<1>5. CallerOf(Depth) = {a} /\ CallerOf(Depth - 1) = C
  BY <1>2, <1>3, <1>4 DEF CallerOf
<1>6. Paused(C, x) /\ Going({a}, y)
  BY <1>3, <1>4, <1>5 DEF Flows
<1>7. PICK q : IsSequence(q) /\ x.seq = Append(q, Label(a)) /\ Runs(C, q, {a})
  BY <1>3, <1>6 DEF Paused
<1>8. /\ Known(a, FALSE) <=> Behind(fn, a) # {}
      /\ Known(a, FALSE) => GoesTo(a, FALSE) = {f}
      /\ ~ Known(a, FALSE) => f = 0
  <2>1. PICK c : c = fn.blocks[a].target
    OBVIOUS
  <2>2. fn.blocks[a].kind = "cbranch" /\ FalseSide(a, f)
    BY <1>3, <1>6 DEF Paused
  <2> QED
    BY <2>1, <2>2, ConditionalGoes
<1>9. \/ Settled({a}, y.seq)
      \/ Runs({a}, y.seq, {f}) /\ f \in Blocks \ visited
  <2>1. y.ended \/ y.curr \in {f} \union visited
    BY <1>3, <1>4 DEF Goes
  <2>2. \/ Settled({a}, y.seq)
        \/ ~ y.ended /\ y.curr \in Blocks \ visited /\ Runs({a}, y.seq, {y.curr})
    BY <1>6 DEF Going
  <2>3. ASSUME ~ y.ended, y.curr \in Blocks \ visited, Runs({a}, y.seq, {y.curr})
        PROVE  Runs({a}, y.seq, {f}) /\ f \in Blocks \ visited
    <3>1. y.curr = f
      BY <2>1, <2>3
    <3> QED
      BY <2>3, <3>1
  <2> QED
    BY <2>2, <2>3
<1>10. f = 0 => Settled({a}, y.seq)
  <2>1. a \in visited
    BY <1>3, <1>4 DEF Waits
  <2>2. fn.entry \in visited
    BY <1>1, <2>1 DEF EntryFirst
  <2>3. 0 \in Blocks => fn.entry = 0
    <3>1. fn.entry \in Nat
      BY <1>1, AddressAssumption DEF SearchInv, IInv, TypeOK, Function
    <3> QED
      BY <1>1, <3>1 DEF Flow, Blocks
  <2> QED
    BY <1>9, <2>2, <2>3
<1>11. Runs({a}, y.seq, {f})
  BY <1>9 DEF Settled
<1>12. ASSUME NEW A, Known(a, FALSE) => A = {f}
       PROVE  Runs(C, t, A)
  <2>1. Runs({a}, y.seq, A)
    BY <1>8, <1>10, <1>11, <1>12 DEF Settled
  <2>2. PICK node : node = If(a, y.seq)
    OBVIOUS
  <2>3. Known(a, FALSE) => A = GoesTo(a, FALSE)
    BY <1>8, <1>12
  <2>4. Runs(C, Append(Append(q, Label(a)), node), A)
    BY <1>7, <2>1, <2>2, <2>3, TestRuns
  <2> QED
    BY <1>3, <1>7, <2>2, <2>4
<1>13. Runs(C, t, {f})
  BY <1>12
<1>14. Behind(fn, a) = {} => Settled(C, t)
  BY <1>8, <1>12 DEF Settled
<1>15. IsSequence(t)
  <2>1. IsSequence(Append(q, Label(a)))
    BY <1>7, Appended
  <2>2. PICK p, node : p = x.seq /\ node = If(a, y.seq)
    OBVIOUS
  <2>3. IsSequence(Append(p, node))
    BY <1>7, <2>1, <2>2, Appended
  <2> QED
    BY <1>3, <2>2, <2>3
<1> QED
  BY <1>3, <1>5, <1>13, <1>14, <1>15

LEMMA EndBodyFlows ==
  ASSUME DescentInv, Flows, EndBody
  PROVE  Flows'
<1>1. /\ phase = "structure" /\ ~ Goes(Inner) /\ UNCHANGED search /\ visited' = visited
      /\ Nested /\ SearchInv /\ Flow(fn) /\ Depth > 1
  BY DEF EndBody, DescentInv, Depth
<1>2. PICK x, t, g, p, r, f :
        /\ x = regions[Depth - 1] /\ t = Append(x.seq, If(x.curr, Inner.seq))
        /\ f = x.false_target /\ g = Append(t, Goto(f))
        /\ p = (IF x.resume = "loop" THEN g ELSE t)
        /\ r = Resumes(x, p)
        /\ regions' = Append(SubSeq(regions, 1, Depth - 2), r)
  <2> DEFINE z == regions[Len(regions) - 1]
  <2>1. PICK t, g : /\ t = Append(z.seq, If(z.curr, Inner.seq))
                    /\ g = Append(t, Goto(z.false_target))
    OBVIOUS
  <2>2. PICK p, r : /\ p = (IF z.resume = "loop" THEN g ELSE t) /\ r = Resumes(z, p)
                    /\ regions' = Append(SubSeq(regions, 1, Len(regions) - 2), r)
    <3>1. CASE z.resume = "loop"
      BY <2>1, <3>1 DEF EndBody, Resumes
    <3>2. CASE z.resume # "loop"
      BY <2>1, <3>2 DEF EndBody, Resumes
    <3> QED
      BY <3>1, <3>2
  <2>3. PICK x, f : x = z /\ f = z.false_target
    OBVIOUS
  <2> QED
    BY <2>1, <2>2, <2>3 DEF Depth
<1>3. PICK n \in Nat \ {0} :
        /\ Depth = n + 1 /\ Depth' = n /\ regions'[n] = r
        /\ \A j \in 1 .. n - 1 : regions'[j] = regions[j]
  <2>1. /\ Depth \in Nat /\ Depth' = Depth - 1 /\ regions'[Depth - 1] = r
        /\ \A j \in 1 .. Depth - 2 : regions'[j] = regions[j]
    BY <1>1, <1>2, Returns
  <2>2. PICK n \in Nat \ {0} : Depth = n + 1
    BY <1>1, <2>1
  <2> QED
    BY <2>1, <2>2
<1>4. /\ x = regions[n] /\ Inner' = r /\ Depth - 1 = n /\ n \in 1 .. Depth
      /\ n \in 1 .. Depth - 1 /\ \A j \in 1 .. n - 1 : j \in 1 .. Depth - 1 /\ j # n
  BY <1>2, <1>3 DEF Inner, Depth
<1>5. IsRegion(x) /\ Waits(x)
  BY <1>1, <1>4 DEF Nested
<1>6. /\ r.ended <=> x.resume = "loop"
      /\ ~ r.ended => r.curr = f
  BY <1>2, <1>5, Resumed DEF Waits
<1>7. r.ended => r.curr = x.curr
  <2>1. x.resume = "loop" => r = [x EXCEPT !.seq = p, !.ended = TRUE, !.resume = "none"]
    BY <1>2 DEF Resumes
  <2> QED
    <3>1. ASSUME x.resume = "loop"
          PROVE  r.curr = x.curr
      <4>1. r = [curr |-> x.curr, stop |-> x.stop, seq |-> p, ended |-> TRUE,
                 resume |-> "none", false_target |-> x.false_target]
        BY <1>5, <2>1, <3>1 DEF IsRegion
      <4> QED
        BY <4>1
    <3> QED
      BY <1>6, <3>1
<1>8. r.seq = p
  <2>1. r = Resumes(x, p)
    BY <1>2
  <2> QED
    BY <1>5, <2>1, TurnedSeq
<1>9. PICK C : C = CallerOf(n)
  OBVIOUS
<1>10. /\ IsSequence(t) /\ Runs(C, t, {f}) /\ Paused(C, x) /\ Awaited(x)
       /\ Behind(fn, x.curr) = {} => Settled(C, t)
  <2>1. Paused(C, x) /\ Awaited(x)
    BY <1>4, <1>9 DEF Flows
  <2> QED
    BY <1>1, <1>2, <1>4, <1>9, <2>1, BodyRuns
<1>11. \A j \in 1 .. n : CallerOf(j)' = CallerOf(j)
  <2>1. \A j \in 1 .. n : j # 1 => j - 1 \in 1 .. n - 1
    OBVIOUS
  <2> QED
    BY <1>3, <2>1 DEF CallerOf
<1>12. fn' = fn /\ Blocks' = Blocks /\ \A c : Successors(c)' = Successors(c)
  BY <1>1, SameGraph
<1>13. r.curr \in Blocks =>
         \/ r.curr \in visited \union {fn.entry}
         \/ f = r.curr /\ f \in Successors(x.curr) /\ x.resume = "converge"
  <2>1. ASSUME r.ended
        PROVE  r.curr \in visited
    <3>1. r.curr = x.curr
      BY <1>7, <2>1
    <3>2. x.curr \in visited
      BY <1>5 DEF Waits
    <3> QED
      BY <3>1, <3>2
  <2>2. ASSUME ~ r.ended
        PROVE  r.curr \in Blocks =>
                 \/ r.curr = fn.entry
                 \/ f = r.curr /\ f \in Successors(x.curr) /\ x.resume = "converge"
    <3>1. r.curr = f /\ x.resume = "converge"
      BY <1>5, <1>6, <2>2 DEF Waits
    <3>2. 0 \in Blocks => fn.entry = 0
      <4>1. fn.entry \in Nat
        BY <1>1, AddressAssumption DEF SearchInv, IInv, TypeOK, Function
      <4> QED
        BY <1>1, <4>1 DEF Flow, Blocks
    <3>3. Behind(fn, x.curr) = {} \/ f \in Successors(x.curr)
      BY <1>2, <1>10 DEF Paused, FalseSide
    <3>4. Behind(fn, x.curr) = {} => f = 0
      BY <1>2, <1>10 DEF Paused, FalseSide
    <3> QED
      BY <3>1, <3>2, <3>3, <3>4
  <2> QED
    BY <2>1, <2>2
<1>14. Entered'
  <2> SUFFICES ASSUME NEW c \in Blocks, c \in visited \/ c = r.curr, c # fn.entry
               PROVE  \E b \in Blocks \intersect visited : b # c /\ c \in Successors(b)
    BY <1>1, <1>4, <1>12 DEF Entered
  <2>1. CASE c \in visited
    BY <2>1 DEF Flows, Entered
  <2>2. CASE c \notin visited
    <3>1. c \in Successors(x.curr)
      BY <1>13, <2>2
    <3>2. x.curr \in Blocks \intersect visited /\ x.curr # c
      BY <1>5, <2>2 DEF Waits
    <3> QED
      BY <3>1, <3>2
  <2> QED
    BY <2>1, <2>2
<1>15. Apart'
  <2>1. \A i, j \in 1 .. n : i # j => regions[i].curr # regions[j].curr
    BY <1>3, <1>4 DEF Flows, Apart
  <2>2. \A j \in 1 .. n - 1 : j \in 1 .. n
    OBVIOUS
  <2> QED
    BY <1>3, <2>1, <2>2 DEF Apart
<1>16. ASSUME NEW j \in 1 .. n - 1
       PROVE  Paused(CallerOf(j), regions[j])' /\ Awaited(regions[j])'
  <2>1. PICK z, D : z = regions[j] /\ z = regions'[j] /\ D = CallerOf(j) /\ D = CallerOf(j)'
    <3>1. j \in 1 .. n
      OBVIOUS
    <3> QED
      BY <1>3, <1>11, <3>1
  <2>2. Paused(D, z) /\ Awaited(z) /\ z.curr \in Blocks \intersect visited /\ z.curr # x.curr
    <3>1. Paused(D, z) /\ Awaited(z)
      BY <1>4, <2>1 DEF Flows
    <3>2. z.curr # x.curr
      BY <1>4, <2>1 DEF Flows, Apart
    <3>3. Waits(z)
      BY <1>1, <1>4, <2>1 DEF Nested
    <3> QED
      BY <3>1, <3>2, <3>3 DEF Waits
  <2>3. Paused(D, z)'
    BY <1>1, <1>12, <2>2, SameFlow DEF Paused
  <2>4. ASSUME Awaits(z)
        PROVE  z.false_target \notin visited /\ z.false_target # r.curr
    <3>1. OnlyWayIn(z.curr, z.false_target) /\ z.false_target \notin visited
      BY <2>2, <2>4 DEF Awaited
    <3>2. z.false_target \in Blocks
      BY <2>2, <2>4 DEF Awaits, Paused, FalseSide, Behind, Blocks
    <3>3. z.false_target \notin Successors(x.curr) /\ z.false_target # fn.entry
      BY <1>5, <2>2, <3>1 DEF OnlyWayIn, Waits
    <3> QED
      BY <1>13, <3>1, <3>2, <3>3
  <2>5. Awaited(z)'
    <3>1. Awaits(z)' <=> Awaits(z)
      BY <1>1, SameFlow DEF Awaits
    <3> QED
      BY <1>1, <1>4, <2>2, <2>4, <3>1, SameFlow DEF Awaited
  <2> QED
    BY <2>1, <2>3, <2>5
<1>17. Going(C, r)
  <2>1. CASE x.resume = "loop"
    <3>1. IsSequence(g) /\ Settled(C, g)
      BY <1>2, <1>10, LeafRuns, Appended
    <3> QED
      BY <1>2, <1>8, <2>1, <3>1 DEF Going
  <2>2. CASE x.resume # "loop"
    <3>1. x.resume = "converge" /\ r.seq = t /\ ~ r.ended /\ r.curr = f
      BY <1>2, <1>5, <1>6, <1>8, <2>2 DEF Waits
    <3>2. CASE Behind(fn, x.curr) = {}
      BY <1>10, <3>1, <3>2 DEF Going
    <3>3. CASE Behind(fn, x.curr) # {}
      <4>1. f \notin visited
        BY <1>2, <1>10, <3>1, <3>3 DEF Awaited, Awaits
      <4>2. f \in Blocks
        BY <1>2, <1>10, <3>3 DEF Paused, FalseSide, Behind, Blocks
      <4> QED
        BY <1>10, <3>1, <4>1, <4>2 DEF Going
    <3> QED
      BY <3>2, <3>3
  <2> QED
    BY <2>1, <2>2
<1>18. Going(CallerOf(Depth), Inner)'
  <2>1. Going(C, r)'
    BY <1>1, <1>12, <1>17, SameFlow DEF Going
  <2>2. CallerOf(Depth)' = C
    BY <1>3, <1>9, <1>11
  <2> QED
    BY <1>4, <2>1, <2>2
<1> QED
  BY <1>3, <1>14, <1>15, <1>16, <1>18 DEF Flows

LEMMA StartFlows ==
  ASSUME DescentInv, Start
  PROVE  Flows'
<1>1. PICK r : r = Region(fn.entry, {}) /\ regions' = <<r>>
  BY DEF Start
<1>2. visited' = {} /\ UNCHANGED search /\ SearchInv
  BY DEF Start, DescentInv
<1>3. r.seq = <<>> /\ r.curr = fn.entry /\ ~ r.ended
  BY <1>1 DEF Region
<1>4. Depth' = 1 /\ regions'[1] = r /\ Inner' = r /\ CallerOf(1)' = {}
  BY <1>1 DEF Depth, Inner, CallerOf
<1>5. fn' = fn /\ Blocks' = Blocks /\ fn.entry \in Blocks
  BY <1>2, SameGraph DEF SearchInv, IInv, TypeOK, Function, Blocks
<1>6. Entered' /\ Apart'
  BY <1>2, <1>3, <1>4, <1>5 DEF Entered, Apart
<1>7. Runs({}, <<>>, {fn.entry})
  BY EmptyRuns
<1>8. IsSequence(<<>>)
  BY DEF IsSequence
<1>9. Runs({}, r.seq, {r.curr})' /\ IsSequence(r.seq)
  BY <1>2, <1>3, <1>7, <1>8, SameFlow
<1>10. r.curr \in Blocks' \ visited'
  BY <1>2, <1>3, <1>5
<1>11. PICK C : C = {} /\ C = CallerOf(Depth)'
  BY <1>4
<1>12. Going(C, r)'
  BY <1>3, <1>9, <1>10, <1>11 DEF Going
<1>13. Going(CallerOf(Depth), Inner)'
  BY <1>4, <1>11, <1>12
<1> QED
  BY <1>4, <1>6, <1>13 DEF Flows

LEMMA EndFunctionFlows ==
  ASSUME DescentInv, Flows, EndFunction
  PROVE  Faithful(Scope(ast, {}))'
<1>1. /\ phase = "structure" /\ ~ Goes(Inner) /\ UNCHANGED search
      /\ ast' = Inner.seq /\ Depth = 1 /\ Nested
  BY DEF EndFunction, DescentInv, Depth
<1>2. Inner = regions[1] /\ Inner.stop = {} /\ CallerOf(Depth) = {}
  BY <1>1 DEF Nested, Inner, Depth, CallerOf
<1>3. PICK y : y = Inner
  OBVIOUS
<1>4. Going({}, y) /\ (y.ended \/ y.curr \in visited)
  BY <1>1, <1>2, <1>3 DEF Flows, Goes
<1>5. Settled({}, y.seq)
  BY <1>4 DEF Going
<1>6. Faithful(Scope(y.seq, {}))
  BY <1>5 DEF Settled, Runs
<1>7. PICK s : s = Scope(y.seq, {}) /\ s = Scope(ast, {})'
  BY <1>1, <1>3
<1>8. Faithful(s)'
  BY <1>1, <1>6, <1>7, SameFlow
<1> QED
  BY <1>7, <1>8

LEMMA FlowStep ==
  ASSUME FlowInv, [StructureNext]_vars
  PROVE  FlowInv'
<1>1. DescentInv /\ DescentInv'
  BY DescentStep DEF FlowInv
<1>2. CASE UNCHANGED search
  <2>1. AllParted' <=> AllParted
    BY <1>2, SameFlow
  <2> SUFFICES ASSUME AllParted
               PROVE  /\ (phase = "structure" => Flows)'
                      /\ (phase = "done" => Faithful(Scope(ast, {})))'
    BY <1>1, <2>1 DEF FlowInv
  <2>2. phase = "structure" => Flows
    BY DEF FlowInv
  <2>3. CASE \/ VisitNowhere \/ VisitLoop \/ VisitConditional
             \/ VisitJump \/ VisitReturn \/ VisitFallthrough \/ EndBody
    <3>1. phase = "structure" /\ phase' = phase
      BY <2>3 DEF VisitNowhere, VisitLoop, VisitConditional, VisitJump, VisitReturn,
                  VisitFallthrough, EndBody, Visit
    <3>2. Flows
      BY <2>2, <3>1
    <3>3. Flows'
      BY <1>1, <2>3, <3>2, NowhereFlows, LoopFlows, ConditionalFlows, JumpFlows, ReturnFlows,
         FallthroughFlows, EndBodyFlows
    <3> QED
      BY <3>1, <3>3
  <2>4. CASE EndFunction
    <3>1. phase = "structure" /\ phase' = "done"
      BY <2>4 DEF EndFunction
    <3> QED
      BY <1>1, <2>2, <2>4, <3>1, EndFunctionFlows
  <2>5. CASE Start
    <3>1. phase' = "structure"
      BY <2>5 DEF Start
    <3> QED
      BY <1>1, <2>5, <3>1, StartFlows
  <2>6. CASE SearchBackEdges
    BY <1>1, <2>6 DEF SearchBackEdges
  <2>7. CASE UNCHANGED vars
    <3>1. UNCHANGED <<phase, regions, visited, ast>>
      BY <2>7 DEF vars
    <3>2. PICK s : s = Scope(ast, {}) /\ s = Scope(ast, {})'
      BY <3>1
    <3>3. phase = "done" => Faithful(s)'
      BY <1>2, <3>2, SameFlow DEF FlowInv
    <3>4. Flows' <=> Flows
      <4>1. /\ Depth' = Depth /\ Inner' = Inner /\ regions' = regions
            /\ fn' = fn /\ Blocks' = Blocks
            /\ \A a : Successors(a)' = Successors(a)
            /\ \A j : CallerOf(j)' = CallerOf(j)
        BY <1>2, <3>1, SameGraph DEF Depth, Inner, CallerOf
      <4>2. (Entered' <=> Entered) /\ (Apart' <=> Apart)
        BY <3>1, <4>1 DEF Entered, Apart
      <4>3. \A C, r : Paused(C, r)' <=> Paused(C, r)
        BY <1>2, <4>1, SameFlow DEF Paused
      <4>4. \A r : Awaited(r)' <=> Awaited(r)
        <5>1. \A r : Awaits(r)' <=> Awaits(r)
          BY <1>2, SameFlow DEF Awaits
        <5> QED
          BY <1>2, <3>1, <4>1, <5>1, SameFlow DEF Awaited
      <4>5. \A C, r : Going(C, r)' <=> Going(C, r)
        BY <1>2, <3>1, <4>1, SameFlow DEF Going
      <4>6. \A j : /\ Paused(CallerOf(j), regions[j])' <=> Paused(CallerOf(j), regions[j])
                   /\ Awaited(regions[j])' <=> Awaited(regions[j])
        <5> SUFFICES ASSUME NEW j
                     PROVE  /\ Paused(CallerOf(j), regions[j])' <=> Paused(CallerOf(j), regions[j])
                            /\ Awaited(regions[j])' <=> Awaited(regions[j])
          OBVIOUS
        <5>1. PICK C, r : C = CallerOf(j) /\ C = CallerOf(j)' /\ r = regions[j] /\ r = regions[j]'
          BY <4>1
        <5> QED
          BY <4>3, <4>4, <5>1
      <4>7. Going(CallerOf(Depth), Inner)' <=> Going(CallerOf(Depth), Inner)
        <5>1. PICK C, r : C = CallerOf(Depth) /\ C = CallerOf(Depth)' /\ r = Inner /\ r = Inner'
          BY <4>1
        <5> QED
          BY <4>5, <5>1
      <4> QED
        BY <4>1, <4>2, <4>6, <4>7 DEF Flows
    <3> QED
      BY <2>2, <3>1, <3>2, <3>3, <3>4
  <2> QED
    BY <2>3, <2>4, <2>5, <2>6, <2>7 DEF StructureNext, Step
<1>3. CASE SearchBackEdges
  <2>1. phase' = "search"
    BY <1>3 DEF SearchBackEdges
  <2> QED
    BY <1>1, <2>1 DEF FlowInv
<1>4. UNCHANGED search \/ SearchBackEdges
  BY DEF StructureNext, Step, Start, VisitNowhere, VisitLoop, VisitConditional, VisitJump,
         VisitReturn, VisitFallthrough, EndBody, EndFunction, Visit, vars
<1> QED
  BY <1>2, <1>3, <1>4

-----------------------------------------------------------------------------
(* The bodies of a tree.                                                   *)

ScopesOf(f, seq, after, n) ==
  f = [d \in 0 .. n |-> IF d = 0 THEN {Scope(seq, after)}
                        ELSE UNION {InnerScopes(s) : s \in f[d - 1]}]

LEMMA ScopesExist ==
  ASSUME NEW seq, NEW after, NEW n \in Nat
  PROVE  \E f : ScopesOf(f, seq, after, n)
<1> DEFINE T == {m \in 0 .. n : \E f : ScopesOf(f, seq, after, m)}
           Inwards(S) == UNION {InnerScopes(s) : s \in S}
           Outermost == {Scope(seq, after)}
<1>1. 0 \in T
  <2> DEFINE f == [d \in 0 .. 0 |-> Outermost]
  <2>1. \A d \in 0 .. 0 : d = 0
    OBVIOUS
  <2>2. ScopesOf(f, seq, after, 0)
    BY <2>1 DEF ScopesOf
  <2> QED
    BY <2>2
<1>2. ASSUME NEW m \in 0 .. n, m < n, m \in T
      PROVE  m + 1 \in T
  <2>1. PICK f : ScopesOf(f, seq, after, m)
    BY <1>2
  <2> DEFINE g == [d \in 0 .. m + 1 |-> IF d <= m THEN f[d] ELSE Inwards(f[m])]
  <2>2. \A d \in 0 .. m : f[d] = IF d = 0 THEN Outermost ELSE Inwards(f[d - 1])
    BY <2>1 DEF ScopesOf
  <2> HIDE DEF Inwards, Outermost
  <2>3. ASSUME NEW d \in 0 .. m + 1
        PROVE  g[d] = IF d = 0 THEN Outermost ELSE Inwards(g[d - 1])
    <3>1. CASE d <= m
      <4>1. d \in 0 .. m /\ (d # 0 => d - 1 \in 0 .. m + 1 /\ d - 1 <= m)
        BY <3>1
      <4>2. g[d] = f[d] /\ (d # 0 => g[d - 1] = f[d - 1])
        BY <3>1, <4>1
      <4> QED
        BY <2>2, <4>1, <4>2
    <3>2. CASE ~ (d <= m)
      <4>1. d = m + 1 /\ d # 0 /\ d - 1 = m /\ m \in 0 .. m + 1 /\ m <= m
        BY <3>2
      <4>2. g[d] = Inwards(f[m]) /\ g[d - 1] = f[m]
        BY <3>2, <4>1
      <4> QED
        BY <4>1, <4>2
    <3> QED
      BY <3>1, <3>2
  <2>4. ScopesOf(g, seq, after, m + 1)
    <3>1. g = [d \in 0 .. m + 1 |-> g[d]]
      OBVIOUS
    <3> HIDE DEF g
    <3>2. g = [d \in 0 .. m + 1 |-> IF d = 0 THEN Outermost ELSE Inwards(g[d - 1])]
      BY <2>3, <3>1
    <3> QED
      BY <3>2 DEF ScopesOf, Outermost, Inwards
  <2>5. m + 1 \in 0 .. n
    BY <1>2
  <2> QED
    BY <2>4, <2>5
<1>3. 0 .. n \subseteq T
  BY <1>1, <1>2, InductionUpTo
<1>4. n \in T
  BY <1>3
<1> QED
  BY <1>4

(* A set that holds a body and with each body those inside it holds them   *)
(* all.                                                                    *)
LEMMA ScopesWithin ==
  ASSUME NEW seq, NEW after, NEW n \in Nat, NEW Z, Scope(seq, after) \in Z,
         \A s \in Z : InnerScopes(s) \subseteq Z
  PROVE  ScopesDownTo(seq, after, n) \subseteq Z
<1>1. PICK f : f = (CHOOSE g : ScopesOf(g, seq, after, n)) /\ ScopesOf(f, seq, after, n)
  BY ScopesExist
<1>2. ScopesDownTo(seq, after, n) = UNION {f[d] : d \in 0 .. n}
  BY <1>1, Zenon DEF ScopesDownTo, ScopesOf
<1> DEFINE T == {d \in 0 .. n : f[d] \subseteq Z}
<1>3. \A d \in 0 .. n : f[d] = IF d = 0 THEN {Scope(seq, after)}
                              ELSE UNION {InnerScopes(s) : s \in f[d - 1]}
  BY <1>1 DEF ScopesOf
<1>4. 0 \in T
  <2>1. 0 \in 0 .. n
    OBVIOUS
  <2>2. f[0] = {Scope(seq, after)}
    BY <1>3, <2>1
  <2> QED
    BY <2>1, <2>2
<1>5. ASSUME NEW m \in 0 .. n, m < n, m \in T
      PROVE  m + 1 \in T
  <2>1. m + 1 \in 0 .. n /\ m + 1 # 0 /\ (m + 1) - 1 = m
    BY <1>5
  <2>2. f[m + 1] = UNION {InnerScopes(s) : s \in f[m]}
    BY <1>3, <2>1
  <2> QED
    BY <1>5, <2>1, <2>2
<1>6. 0 .. n \subseteq T
  BY <1>4, <1>5, InductionUpTo
<1> QED
  BY <1>2, <1>6

-----------------------------------------------------------------------------
(* Theorems.                                                               *)

(* The types of the descent, and its nesting: a region waits for the body  *)
(* of a conditional exactly when it is not the innermost one.              *)
THEOREM RegionsCorrect == StructureSpec => []RegionsOK
<1>1. DescentInv => RegionsOK
  <2>1. ASSUME DescentInv, phase # "structure"
        PROVE  RegionsOK
    BY <2>1 DEF DescentInv, RegionsOK
  <2>2. ASSUME DescentInv, phase = "structure"
        PROVE  RegionsOK
    <3>1. PICK n \in Nat \ {0} : n = Len(regions) /\ n = Depth
      BY <2>2, SequenceFacts DEF DescentInv, Nested, Depth
    <3>2. /\ \A j \in 1 .. n : IsRegion(regions[j])
          /\ regions[n].resume = "none"
          /\ \A j \in 1 .. n - 1 : regions[j].resume # "none"
      BY <2>2, <3>1 DEF DescentInv, Nested, Waits
    <3>3. \A j \in 1 .. n : (regions[j].resume = "none") <=> (j = n)
      BY <3>1, <3>2
    <3> QED
      BY <2>2, <3>1, <3>2, <3>3 DEF DescentInv, RegionsOK, IsRegion
  <2> QED
    BY <2>1, <2>2
<1> QED
  BY <1>1, DescentInitially, DescentStep, PTL DEF StructureSpec

(* Every reachable block of every function with plain loops is visited:    *)
(* the visited blocks are closed under the edges that are not recorded,    *)
(* and those lead from the entry to every block the search has seen.       *)
THEOREM ReachableStructured == StructureSpec => []ReachableVisited
<1>1. DescentInv => ReachableVisited
  <2> SUFFICES ASSUME DescentInv, phase = "done", PlainLoops
               PROVE  seen \subseteq visited
    BY DEF ReachableVisited, Done
  <2>1. /\ SearchInv /\ Searched /\ fn.entry \in visited
        /\ FollowClosed(Blocks \intersect visited)
    BY DEF DescentInv
  <2>2. fn.entry \in Blocks \intersect visited
    BY <2>1 DEF SearchInv, IInv, TypeOK, Function, Blocks
  <2> QED
    BY <2>1, <2>2, SearchedLeads
<1> QED
  BY <1>1, DescentInitially, DescentStep, PTL DEF StructureSpec

(* The tree of every function has one label for each block the descent has *)
(* visited, at every depth: no block is emitted twice and none is lost     *)
(* from a body, whatever the loops of the function.                        *)
THEOREM EveryBlockEmittedOnce == StructureSpec => []EmittedOnce
<1>1. StructureInit => TreeInv
  BY DescentInitially DEF StructureInit, TreeInv
<1>2. TreeInv => EmittedOnce
  <2> SUFFICES ASSUME Body(ast, visited \intersect Blocks, Deepest)
               PROVE  EmittedOnce
    BY DEF TreeInv, EmittedOnce, Done
  <2>1. Labels(ast) = LabelsIn(NodesDownTo(ast, Deepest))
    BY DEF Labels, Nodes, Deepest
  <2> QED
    BY <2>1 DEF Body, At, Once, EmittedOnce
<1> QED
  BY <1>1, <1>2, TreeStep, PTL DEF StructureSpec

(* Executing the tree of a function whose conditionals part their sides    *)
(* takes the transfers of the function, whatever its loops.                *)
THEOREM PartedFunctionsKeepFlow == StructureSpec => []PartedFlowKept
<1>1. StructureInit => FlowInv
  BY DescentInitially DEF StructureInit, FlowInv
<1>2. FlowInv => PartedFlowKept
  <2> SUFFICES ASSUME FlowInv, Done, AllParted,
                      NEW t \in Transfers(ast, {}), Known(t[1], t[2])
               PROVE  t[3] = GoesTo(t[1], t[2])
    BY DEF PartedFlowKept, FlowKept
  <2>1. Faithful(Scope(ast, {})) /\ DescentInv
    BY DEF FlowInv, Done
  <2>2. PICK Z : Scope(ast, {}) \in Z /\ KeptWithin(Z)
    BY <2>1 DEF Faithful
  <2>3. Cardinality(Blocks) \in Nat
    BY <2>1, FiniteBlocks DEF DescentInv, Deepest
  <2>4. ScopesDownTo(ast, {}, Cardinality(Blocks)) \subseteq Z
    BY <2>2, <2>3, ScopesWithin DEF KeptWithin
  <2>5. PICK s \in Z :
          \E j \in 1 .. Len(s.seq), o \in BOOLEAN :
            s.seq[j].node = "Label" /\ t = <<s.seq[j].at, o, Transfer(s, j, o)>>
    BY <2>4 DEF Transfers
  <2>6. PICK j \in 1 .. Len(s.seq), o \in BOOLEAN :
          s.seq[j].node = "Label" /\ t = <<s.seq[j].at, o, Transfer(s, j, o)>>
    BY <2>5
  <2>7. KeepsAt(s, j)
    BY <2>2, <2>5 DEF KeptWithin, Keeps
  <2> QED
    BY <2>6, <2>7 DEF KeepsAt
<1> QED
  BY <1>1, <1>2, FlowStep, PTL DEF StructureSpec

=============================================================================
