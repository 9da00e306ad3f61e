------------------------ MODULE TypeInferenceProofs ------------------------
(***************************************************************************)
(* Proofs about type inference, for every function and every set of        *)
(* Varnodes: it types exactly what the operations force to have a type,    *)
(* every entry stays supported by an operation, and the number of scans is *)
(* bounded by the number of operations.                                    *)
(***************************************************************************)
EXTENDS TypeInference, FiniteSetTheorems, TLAPS

PointerType == [pointers : Nat \ {0}, size : Nat]

-----------------------------------------------------------------------------
(* The inductive invariant.                                                *)

CodeOK == Len(code) \in Nat /\ \A j \in 1 .. Len(code) : WellFormed(code[j])

(* As long as a scan has changed nothing, the operations it has passed     *)
(* have nothing to add.                                                    *)
Quiet ==
  /\ ~ changed => \A j \in 1 .. k - 1 : ~ Infers(code[j])
  /\ Done => ~ changed /\ k = Len(code) + 1

(* Every scan but the running one has added an entry.                      *)
Counted ==
  /\ IsFiniteSet(DOMAIN types)
  /\ scans <= Cardinality(DOMAIN types) + (IF changed THEN 0 ELSE 1)

IInv == CodeOK /\ TypeOK /\ Quiet /\ OnlyForced /\ TypesSupported /\ Counted

-----------------------------------------------------------------------------
(* What the operations that infer have in common.                          *)

Inserts(v, t) ==
  /\ Scanning
  /\ v \in Place /\ ~ Typed(v) /\ t \in PointerType
  /\ Supports(code[k], v, t)
  /\ Insert(v, t)

LEMMA Places ==
  ASSUME NEW v \in Place
  PROVE  v \in Varnodes /\ v.space # "Constant" /\ v.size \in Nat
  BY VarnodeAssumption DEF Place

LEMMA TypedMeans ==
  ASSUME TypeOK, NEW v, Typed(v)
  PROVE  v \in Place /\ types[v] \in PointerType /\ IsPointer(v)
<1>1. types[v] \in PointerType
  BY DEF TypeOK, Typed, PointerType
<1>2. QED
  BY <1>1 DEF TypeOK, Typed, PointerType, IsPointer

LEMMA PointerToMeans ==
  ASSUME NEW n \in Nat, NEW s \in Nat
  PROVE  PointerTo([pointers |-> n, size |-> s]) = [pointers |-> n + 1, size |-> s]
  BY DEF PointerTo

LEMMA AccessInserts ==
  ASSUME IInv, InferAccess
  PROVE  \E v, t : Inserts(v, t)
<1> DEFINE op == code[k]
           v  == op.addr
           t  == PointerTo(TypeOrPrimitive(Accessed(op)))
<1>1. WellFormed(op) /\ op.op \in {"Load", "Store"} /\ ~ Typed(v) /\ v.space # "Constant"
  BY DEF InferAccess, AccessInfers, Scanning, IInv, CodeOK, TypeOK
<1>2. v \in Place
  BY <1>1 DEF WellFormed, Place
<1>3. Accessed(op) \in Varnodes /\ Accessed(op).size \in Nat
  BY <1>1, VarnodeAssumption DEF WellFormed, Accessed, Place
<1>4. t \in PointerType
  <2> DEFINE a == Accessed(op)
  <2>1. TypeOrPrimitive(a) \in [pointers : Nat, size : Nat]
    <3>1. CASE Typed(a)
      BY <3>1, TypedMeans DEF IInv, TypeOrPrimitive, PointerType
    <3>2. CASE ~ Typed(a)
      BY <1>3, <3>2 DEF TypeOrPrimitive, Primitive
    <3>3. QED
      BY <3>1, <3>2
  <2>2. PICK n \in Nat, s \in Nat : TypeOrPrimitive(a) = [pointers |-> n, size |-> s]
    BY <2>1
  <2>3. t = [pointers |-> n + 1, size |-> s]
    BY <2>2, PointerToMeans
  <2>4. n + 1 \in Nat \ {0}
    OBVIOUS
  <2> HIDE DEF t
  <2>5. QED
    BY <2>3, <2>4 DEF PointerType
<1>5. Supports(op, v, t)
  BY <1>1 DEF Supports
<1>6. Scanning /\ Insert(v, t)
  BY DEF InferAccess
<1>7. Inserts(v, t)
  BY <1>1, <1>2, <1>4, <1>5, <1>6 DEF Inserts
<1>8. QED
  BY <1>7

(* The other three pass the type of a source on to their destination.      *)
LEMMA PassInserts ==
  ASSUME IInv, Scanning, NEW u \in Sources(code[k]), Typed(u), ~ Typed(code[k].dest),
         Insert(code[k].dest, types[u])
  PROVE  \E v, t : Inserts(v, t)
<1>1. WellFormed(code[k])
  BY DEF Scanning, IInv, CodeOK, TypeOK
<1>2. code[k].op \in {"IntAdd", "IntSub", "Copy", "Phi"}
  BY DEF Sources
<1>3. code[k].dest \in Place
  BY <1>1, <1>2 DEF WellFormed
<1>4. types[u] \in PointerType
  BY TypedMeans DEF IInv
<1>5. Supports(code[k], code[k].dest, types[u])
  BY DEF Supports
<1>6. Inserts(code[k].dest, types[u])
  BY <1>3, <1>4, <1>5 DEF Inserts
<1>7. QED
  BY <1>6

LEMMA InferInserts ==
  ASSUME IInv, InferAccess \/ InferArithmetic \/ InferCopy \/ InferPhi
  PROVE  \E v, t : Inserts(v, t)
<1>1. CASE InferAccess
  BY <1>1, AccessInserts
<1>2. CASE InferArithmetic
  <2> DEFINE op == code[k]
             u  == IF IsPointer(op.lhs) THEN op.lhs ELSE op.rhs
  <2>1. Scanning /\ Typed(u) /\ ~ Typed(op.dest) /\ Insert(op.dest, types[u])
    BY <1>2 DEF InferArithmetic, ArithmeticInfers, IsPointer
  <2>2. u \in Sources(op)
    BY <1>2 DEF InferArithmetic, ArithmeticInfers, Sources
  <2>3. QED
    BY <2>1, <2>2, PassInserts
<1>3. CASE InferCopy
  <2>1. Scanning /\ Typed(code[k].src) /\ ~ Typed(code[k].dest)
        /\ Insert(code[k].dest, types[code[k].src])
    BY <1>3 DEF InferCopy, CopyInfers
  <2>2. code[k].src \in Sources(code[k])
    BY <1>3 DEF InferCopy, CopyInfers, Sources
  <2>3. QED
    BY <2>1, <2>2, PassInserts
<1>4. CASE InferPhi
  <2>1. PICK m \in 1 .. Len(code[k].srcs) :
          /\ Typed(code[k].srcs[m])
          /\ Insert(code[k].dest, types[code[k].srcs[m]])
    BY <1>4 DEF InferPhi
  <2>2. Scanning /\ ~ Typed(code[k].dest)
    BY <1>4 DEF InferPhi, PhiInfers
  <2>3. code[k].srcs[m] \in Sources(code[k])
    BY <1>4 DEF InferPhi, PhiInfers, Sources
  <2>4. QED
    BY <2>1, <2>2, <2>3, PassInserts
<1>5. QED
  BY <1>1, <1>2, <1>3, <1>4

(* What is supported is forced.                                            *)
LEMMA SupportedForced ==
  ASSUME NEW j \in 1 .. Len(code), NEW v \in Place, NEW t, Supports(code[j], v, t),
         NEW S, Closed(S), DOMAIN types \subseteq S
  PROVE  v \in S
<1>1. CASE code[j].op \in {"Load", "Store"} /\ code[j].addr = v
  BY <1>1, Places DEF Closed
<1>2. CASE (\E u \in Sources(code[j]) : Typed(u)) /\ code[j].dest = v
  BY <1>2 DEF Closed, Typed
<1>3. QED
  BY <1>1, <1>2 DEF Supports

(* Support survives new entries.                                           *)
LEMMA SupportLasts ==
  ASSUME NEW v, NEW t, ~ Typed(v),
         DOMAIN types' = DOMAIN types \union {v},
         \A u \in DOMAIN types : types'[u] = types[u],
         NEW op, NEW w, NEW s, Supports(op, w, s)
  PROVE  Supports(op, w, s)'
<1>1. \A u : Typed(u) => Typed(u)' /\ types'[u] = types[u]
  BY DEF Typed
<1>2. CASE /\ op.op \in {"Load", "Store"} /\ op.addr = w
           /\ s \in {PointerTo(Primitive(Accessed(op).size)),
                     PointerTo(TypeOrPrimitive(Accessed(op)))}
  <2> DEFINE a == Accessed(op)
  <2>1. CASE Typed(a)
    <3>1. TypeOrPrimitive(a)' = TypeOrPrimitive(a)
      BY <1>1, <2>1 DEF TypeOrPrimitive
    <3>2. QED
      BY <1>2, <3>1 DEF Supports
  <2>2. CASE ~ Typed(a)
    <3>1. s = PointerTo(Primitive(a.size))
      BY <1>2, <2>2 DEF TypeOrPrimitive
    <3>2. QED
      BY <1>2, <3>1 DEF Supports
  <2>3. QED
    BY <2>1, <2>2
<1>3. CASE (\E u \in Sources(op) : Typed(u) /\ s = types[u]) /\ op.dest = w
  BY <1>1, <1>3 DEF Supports
<1>4. QED
  BY <1>2, <1>3 DEF Supports

LEMMA InsertMeans ==
  ASSUME NEW v, NEW t, Inserts(v, t)
  PROVE  /\ code' = code /\ pc' = "scan" /\ scans' = scans /\ k' = k + 1 /\ changed' = TRUE
         /\ DOMAIN types' = DOMAIN types \union {v}
         /\ types'[v] = t
         /\ \A u \in DOMAIN types : u # v /\ types'[u] = types[u]
  BY DEF Inserts, Insert, Scanning, Typed

-----------------------------------------------------------------------------
(* The invariant holds.                                                    *)

LEMMA InsertStep ==
  ASSUME IInv, NEW v, NEW t, Inserts(v, t)
  PROVE  IInv'
<1>0. /\ code' = code /\ pc' = "scan" /\ scans' = scans /\ k' = k + 1 /\ changed' = TRUE
      /\ DOMAIN types' = DOMAIN types \union {v} /\ types'[v] = t
      /\ \A u \in DOMAIN types : u # v /\ types'[u] = types[u]
  BY InsertMeans
<1>1. /\ v \in Place /\ ~ Typed(v) /\ t \in PointerType /\ Supports(code[k], v, t)
      /\ Len(code) \in Nat /\ k \in 1 .. Len(code)
  BY DEF Inserts, Scanning, IInv, TypeOK, CodeOK
<1>2. CodeOK'
  BY <1>0 DEF IInv, CodeOK
<1>3. TypeOK'
  <2>1. types' \in [DOMAIN types' -> PointerType]
    <3>1. types' = [u \in DOMAIN types' |-> types'[u]]
      BY <1>0 DEF Inserts, Insert
    <3>2. \A u \in DOMAIN types' : types'[u] \in PointerType
      BY <1>0, <1>1 DEF IInv, TypeOK, PointerType
    <3>3. QED
      BY <3>1, <3>2
  <2>2. DOMAIN types' \subseteq Place /\ k' \in 1 .. Len(code') + 1
    BY <1>0, <1>1 DEF IInv, TypeOK
  <2>3. QED
    BY <1>0, <2>1, <2>2 DEF IInv, TypeOK, PointerType
<1>4. Quiet'
  BY <1>0 DEF Quiet, Done
<1>5. OnlyForced'
  <2> SUFFICES ASSUME NEW S \in SUBSET Varnodes, Closed(S)
               PROVE  DOMAIN types \union {v} \subseteq S
    BY <1>0 DEF OnlyForced, Closed
  <2>1. DOMAIN types \subseteq S
    BY DEF IInv, OnlyForced
  <2>2. v \in S
    BY <1>1, <2>1, SupportedForced
  <2>3. QED
    BY <2>1, <2>2
<1>6. TypesSupported'
  <2>1. ASSUME NEW w \in DOMAIN types \union {v}
        PROVE  (\E j \in 1 .. Len(code) : Supports(code[j], w, types[w]))'
    <3>1. PICK j \in 1 .. Len(code) : Supports(code[j], w, types'[w])
      BY <1>0, <1>1, <2>1 DEF IInv, TypesSupported
    <3>2. PICK op, s : op = code[j] /\ s = types'[w]
      OBVIOUS
    <3>3. Supports(op, w, s)
      BY <3>1, <3>2
    <3>4. Supports(op, w, s)'
      BY <1>0, <1>1, <3>3, SupportLasts
    <3>5. QED
      BY <1>0, <3>2, <3>4 DEF Supports, TypeOrPrimitive, Typed
  <2>2. QED
    BY <1>0, <2>1 DEF TypesSupported
<1>7. Counted'
  <2>1. /\ IsFiniteSet(DOMAIN types \union {v})
        /\ Cardinality(DOMAIN types \union {v}) = Cardinality(DOMAIN types) + 1
    BY <1>1, FS_AddElement DEF IInv, Counted, Typed
  <2>2. Cardinality(DOMAIN types) \in Nat
    BY FS_CardinalityType DEF IInv, Counted
  <2>3. scans <= Cardinality(DOMAIN types) + 1 /\ scans \in Nat
    BY <2>2 DEF IInv, Counted, TypeOK
  <2>4. QED
    BY <1>0, <2>1, <2>2, <2>3 DEF Counted
<1>8. QED
  BY <1>2, <1>3, <1>4, <1>5, <1>6, <1>7 DEF IInv

(* The other steps leave the map, and all that depends on it, as it is.    *)
LEMMA SameTypes ==
  ASSUME IInv, code' = code, types' = types
  PROVE  /\ CodeOK' /\ OnlyForced' /\ TypesSupported'
         /\ IsFiniteSet(DOMAIN types)' /\ Cardinality(DOMAIN types)' = Cardinality(DOMAIN types)
         /\ \A j \in 1 .. Len(code) : Infers(code[j])' <=> Infers(code[j])
<1>1. CodeOK'
  BY DEF IInv, CodeOK
<1>2. OnlyForced'
  BY DEF IInv, OnlyForced, Closed
<1>3. TypesSupported'
  BY DEF IInv, TypesSupported, Supports, TypeOrPrimitive, Typed
<1>4. IsFiniteSet(DOMAIN types)' /\ Cardinality(DOMAIN types)' = Cardinality(DOMAIN types)
  BY DEF IInv, Counted
<1>5. \A j \in 1 .. Len(code) : Infers(code[j])' <=> Infers(code[j])
  BY DEF Infers, AccessInfers, ArithmeticInfers, CopyInfers, PhiInfers, IsPointer, Typed
<1>6. QED
  BY <1>1, <1>2, <1>3, <1>4, <1>5

LEMMA InferNothingStep ==
  ASSUME IInv, InferNothing
  PROVE  IInv'
<1>0. /\ code' = code /\ types' = types /\ changed' = changed /\ pc' = pc /\ scans' = scans
      /\ k' = k + 1 /\ pc = "scan" /\ k <= Len(code) /\ ~ Infers(code[k])
  BY DEF InferNothing, Scanning
<1>1. Len(code) \in Nat /\ k \in 1 .. Len(code)
  BY <1>0 DEF IInv, CodeOK, TypeOK
<1>2. TypeOK'
  BY <1>0, <1>1 DEF IInv, TypeOK
<1>3. Quiet'
  <2>1. ASSUME ~ changed, NEW j \in 1 .. k
        PROVE  ~ Infers(code[j])'
    <3>1. j \in 1 .. Len(code) /\ (j = k \/ j \in 1 .. k - 1)
      BY <1>1
    <3>2. ~ Infers(code[j])
      BY <1>0, <2>1, <3>1 DEF IInv, Quiet
    <3>3. QED
      BY <1>0, <3>1, <3>2, SameTypes
  <2>2. k' - 1 = k
    BY <1>0, <1>1
  <2>3. QED
    BY <1>0, <2>1, <2>2 DEF Quiet, Done
<1>4. Counted'
  BY <1>0, SameTypes DEF IInv, Counted
<1>5. QED
  BY <1>0, <1>2, <1>3, <1>4, SameTypes DEF IInv

LEMMA ScanAgainStep ==
  ASSUME IInv, ScanAgain
  PROVE  IInv'
<1>0. /\ code' = code /\ types' = types /\ changed /\ changed' = FALSE /\ pc' = pc
      /\ pc = "scan" /\ scans' = scans + 1 /\ k' = 1
  BY DEF ScanAgain
<1>1. TypeOK'
  <2>1. k' \in 1 .. Len(code') + 1 /\ scans' \in Nat \ {0}
    BY <1>0 DEF IInv, CodeOK, TypeOK
  <2>2. changed' \in BOOLEAN
    BY <1>0
  <2>3. QED
    BY <1>0, <2>1, <2>2 DEF IInv, TypeOK
<1>2. Quiet'
  BY <1>0 DEF Quiet, Done
<1>3. Counted'
  <2>1. Cardinality(DOMAIN types) \in Nat
    BY FS_CardinalityType DEF IInv, Counted
  <2>2. scans <= Cardinality(DOMAIN types) /\ scans \in Nat
    BY <1>0, <2>1 DEF IInv, Counted, TypeOK
  <2>3. QED
    BY <1>0, <2>1, <2>2, SameTypes DEF Counted
<1>4. QED
  BY <1>0, <1>1, <1>2, <1>3, SameTypes DEF IInv

LEMMA FinishStep ==
  ASSUME IInv, Finish
  PROVE  IInv'
<1>0. /\ code' = code /\ types' = types /\ ~ changed /\ changed' = changed /\ k' = k
      /\ scans' = scans /\ k > Len(code) /\ pc' = "done"
  BY DEF Finish
<1>1. k = Len(code) + 1 /\ Len(code) \in Nat
  BY <1>0 DEF IInv, CodeOK, TypeOK
<1>2. TypeOK'
  BY <1>0 DEF IInv, TypeOK
<1>3. Quiet'
  <2>1. ASSUME NEW j \in 1 .. k - 1
        PROVE  ~ Infers(code[j])'
    BY <1>0, <1>1, SameTypes DEF IInv, Quiet
  <2>2. QED
    BY <1>0, <1>1, <2>1 DEF Quiet, Done
<1>4. Counted'
  BY <1>0, SameTypes DEF IInv, Counted
<1>5. QED
  BY <1>0, <1>2, <1>3, <1>4, SameTypes DEF IInv

LEMMA StutterStep ==
  ASSUME IInv, UNCHANGED vars
  PROVE  IInv'
<1>0. /\ code' = code /\ types' = types /\ changed' = changed /\ k' = k /\ pc' = pc
      /\ scans' = scans
  BY DEF vars
<1>1. TypeOK'
  BY <1>0 DEF IInv, TypeOK
<1>2. Quiet'
  <2>1. ASSUME ~ changed, NEW j \in 1 .. k - 1
        PROVE  ~ Infers(code[j])'
    <3>1. j \in 1 .. Len(code)
      BY DEF IInv, TypeOK, CodeOK
    <3>2. QED
      BY <1>0, <2>1, <3>1, SameTypes DEF IInv, Quiet
  <2>2. QED
    BY <1>0, <2>1 DEF IInv, Quiet, Done
<1>3. Counted'
  BY <1>0, SameTypes DEF IInv, Counted
<1>4. QED
  BY <1>0, <1>1, <1>2, <1>3, SameTypes DEF IInv

LEMMA InitInvariant ==
  ASSUME Init
  PROVE  IInv
<1>1. CodeOK
  BY ProgramAssumption DEF Init, CodeOK
<1>2. DOMAIN types = {}
  BY DEF Init
<1>3. TypeOK
  <2>1. types \in [DOMAIN types -> [pointers : Nat \ {0}, size : Nat]]
    BY DEF Init
  <2>2. k \in 1 .. Len(code) + 1 /\ scans \in Nat \ {0} /\ pc = "scan"
    BY <1>1 DEF Init, CodeOK
  <2>3. changed \in BOOLEAN
    BY DEF Init
  <2>4. QED
    BY <1>2, <2>1, <2>2, <2>3 DEF TypeOK
<1>4. Quiet
  BY DEF Init, Quiet, Done
<1>5. OnlyForced /\ TypesSupported
  BY <1>2 DEF OnlyForced, TypesSupported
<1>6. Counted
  BY <1>2, FS_EmptySet DEF Init, Counted
<1>7. QED
  BY <1>1, <1>3, <1>4, <1>5, <1>6 DEF IInv

LEMMA Invariance == Spec => []IInv
<1>1. Init => IInv
  BY InitInvariant
<1>2. IInv /\ [Next]_vars => IInv'
  <2> SUFFICES ASSUME IInv, [Next]_vars PROVE IInv'
    OBVIOUS
  <2>1. CASE InferAccess \/ InferArithmetic \/ InferCopy \/ InferPhi
    BY <2>1, InferInserts, InsertStep
  <2>2. CASE InferNothing
    BY <2>2, InferNothingStep
  <2>3. CASE ScanAgain
    BY <2>3, ScanAgainStep
  <2>4. CASE Finish
    BY <2>4, FinishStep
  <2>5. CASE UNCHANGED vars
    BY <2>5, StutterStep
  <2>6. QED
    BY <2>1, <2>2, <2>3, <2>4, <2>5 DEF Next, Step
<1>3. QED
  BY <1>1, <1>2, PTL DEF Spec

-----------------------------------------------------------------------------
(* The properties follow from the invariant.                               *)

(* A map to which no operation has anything to add is closed.              *)
LEMMA QuietClosed ==
  ASSUME IInv, Done
  PROVE  Closed(DOMAIN types)
<1>1. ASSUME NEW j \in 1 .. Len(code)
      PROVE  ~ Infers(code[j])
  BY <1>1 DEF IInv, Quiet, CodeOK
<1>2. ASSUME NEW j \in 1 .. Len(code), code[j].op \in {"Load", "Store"},
             code[j].addr.space # "Constant"
      PROVE  code[j].addr \in DOMAIN types
  BY <1>1, <1>2 DEF Infers, AccessInfers, Typed
<1>3. ASSUME NEW j \in 1 .. Len(code), NEW u \in Sources(code[j]), u \in DOMAIN types
      PROVE  code[j].dest \in DOMAIN types
  <2>1. Typed(u) /\ IsPointer(u)
    BY <1>3, TypedMeans DEF IInv, Typed
  <2>2. CASE code[j].op \in {"IntAdd", "IntSub"}
    BY <1>1, <1>3, <2>1, <2>2 DEF Infers, ArithmeticInfers, Sources, Typed
  <2>3. CASE code[j].op = "Copy"
    BY <1>1, <1>3, <2>1, <2>3 DEF Infers, CopyInfers, Sources, Typed
  <2>4. CASE code[j].op = "Phi"
    BY <1>1, <1>3, <2>1, <2>4 DEF Infers, PhiInfers, Sources, Typed
  <2>5. QED
    BY <1>3, <2>2, <2>3, <2>4 DEF Sources
<1>4. QED
  BY <1>2, <1>3 DEF Closed

(* The Varnode an operation can type.                                      *)
Target(op) == IF op.op \in {"Load", "Store"} THEN op.addr ELSE op.dest

(* Every typed Varnode is the target of an operation of its own, so there  *)
(* are no more of them than operations.                                    *)
LEMMA FewTyped ==
  ASSUME IInv
  PROVE  Cardinality(DOMAIN types) <= Len(code)
<1> DEFINE f == [v \in DOMAIN types |-> CHOOSE j \in 1 .. Len(code) : Target(code[j]) = v]
<1>1. ASSUME NEW v \in DOMAIN types
      PROVE  f[v] \in 1 .. Len(code) /\ Target(code[f[v]]) = v
  <2>1. PICK j \in 1 .. Len(code) : Supports(code[j], v, types[v])
    BY DEF IInv, TypesSupported
  <2>2. Target(code[j]) = v
    <3>1. CASE code[j].op \in {"Load", "Store"} /\ code[j].addr = v
      BY <3>1 DEF Target
    <3>2. CASE (\E u \in Sources(code[j]) : Typed(u)) /\ code[j].dest = v
      BY <3>2 DEF Target, Sources
    <3>3. QED
      BY <2>1, <3>1, <3>2 DEF Supports
  <2>3. QED
    BY <2>2
<1> HIDE DEF f
<1>2. f \in [DOMAIN types -> 1 .. Len(code)]
  BY <1>1 DEF f
<1>3. f \in Injection(DOMAIN types, 1 .. Len(code))
  BY <1>1, <1>2 DEF Injection, IsInjective
<1>4. IsFiniteSet(1 .. Len(code)) /\ Cardinality(1 .. Len(code)) = Len(code)
  <2>1. Len(code) \in Nat
    BY DEF IInv, CodeOK
  <2>2. 1 \in Int /\ Len(code) \in Int
    BY <2>1
  <2>3. /\ IsFiniteSet(1 .. Len(code))
        /\ Cardinality(1 .. Len(code)) = IF 1 > Len(code) THEN 0 ELSE Len(code) - 1 + 1
    BY <2>2, FS_Interval
  <2>4. QED
    BY <2>1, <2>3
<1>5. QED
  BY <1>3, <1>4, FS_Injection

LEMMA Bounded ==
  ASSUME IInv
  PROVE  ScanBound
<1>1. Cardinality(DOMAIN types) \in Nat /\ Cardinality(DOMAIN types) <= Len(code)
  BY FewTyped, FS_CardinalityType DEF IInv, Counted
<1>2. scans \in Nat /\ scans <= Cardinality(DOMAIN types) + 1 /\ Len(code) \in Nat
  BY <1>1 DEF IInv, Counted, TypeOK, CodeOK
<1>3. QED
  BY <1>1, <1>2 DEF ScanBound

-----------------------------------------------------------------------------
(* Theorems.                                                               *)

(* Only places are typed, and only with pointers (type_inference.rs:40-97).*)
THEOREM TypeCorrect == Spec => []TypeOK
<1>1. IInv => TypeOK
  BY DEF IInv
<1>2. QED
  BY <1>1, Invariance, PTL

(* The pass ends at a fixpoint of its rules (type_inference.rs:17-35).     *)
THEOREM EndsClosed == Spec => []ClosedWhenDone
<1>1. IInv => ClosedWhenDone
  BY QuietClosed DEF ClosedWhenDone
<1>2. QED
  BY <1>1, Invariance, PTL

(* It types nothing that the operations do not force to have a type: with  *)
(* EndsClosed, which Varnodes are typed does not depend on the order of    *)
(* the operations (type_inference.rs:39-100).                              *)
THEOREM TypesNothingElse == Spec => []OnlyForced
<1>1. IInv => OnlyForced
  BY DEF IInv
<1>2. QED
  BY <1>1, Invariance, PTL

(* Every type stays justified by an operation (type_inference.rs:39-100).  *)
THEOREM StaysSupported == Spec => []TypesSupported
<1>1. IInv => TypesSupported
  BY DEF IInv
<1>2. QED
  BY <1>1, Invariance, PTL

(* There are at most as many scans as operations, and one more             *)
(* (type_inference.rs:20).                                                 *)
THEOREM ScansBounded == Spec => []ScanBound
<1>1. IInv => ScanBound
  BY Bounded
<1>2. QED
  BY <1>1, Invariance, PTL

=============================================================================
