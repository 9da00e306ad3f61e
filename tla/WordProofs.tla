----------------------------- MODULE WordProofs -----------------------------
(***************************************************************************)
(* Numbers of a width, and the C that is printed for an operation on them: *)
(* it assigns what the operation means, for every width of C's types.      *)
(*                                                                         *)
(* The library states induction with an operator for the formula; here it  *)
(* is stated of sets of numbers, and that a function defined by recursion  *)
(* on the numbers exists is proved from it.                                *)
(***************************************************************************)
EXTENDS COutput, Machine, WellFoundedInduction, TLAPS

-----------------------------------------------------------------------------
(* Induction on natural numbers, as the existence of least elements.       *)

LEMMA LeastElement ==
  ASSUME NEW T \in SUBSET Nat, T # {}
  PROVE  \E x \in T : \A y \in T : x <= y
<1>1. PICK x \in T : \A y \in T : ~ (<<y, x>> \in OpToRel(<, Nat))
  BY NatLessThanWellFounded, WFMin
<1>2. ASSUME NEW y \in T PROVE x <= y
  <2>1. ~ (<<y, x>> \in OpToRel(<, Nat))
    BY <1>1
  <2>2. y < x => <<y, x>> \in OpToRel(<, Nat)
    BY DEF OpToRel
  <2>3. ~ (y < x)
    BY <2>1, <2>2, Zenon
  <2>4. QED
    BY <2>3
<1>3. QED
  BY <1>2

(* A set of numbers that holds 0 and with each number the next holds all.  *)
LEMMA Induction ==
  ASSUME NEW T, 0 \in T, \A n \in Nat : n \in T => n + 1 \in T
  PROVE  Nat \subseteq T
<1> SUFFICES ASSUME Nat \ T # {} PROVE FALSE
  OBVIOUS
<1>1. PICK n \in Nat \ T : \A m \in Nat \ T : n <= m
  <2>1. Nat \ T \in SUBSET Nat
    OBVIOUS
  <2>2. QED
    BY <2>1, LeastElement
<1>2. n # 0 /\ n - 1 \in Nat /\ (n - 1) + 1 = n
  BY <1>1
<1>3. n - 1 \in T
  BY <1>1, <1>2
<1>4. QED
  BY <1>1, <1>2, <1>3

(* f applies F, to a number and the value there, from a up to n.           *)
Unrolls(f, a, F, n) ==
  f[0] = a /\ \A m \in 0 .. n - 1 : f[m + 1] = F[<<m, f[m]>>]

LEMMA UnrollingExists ==
  ASSUME NEW S, NEW a \in S, NEW F \in [Nat \X S -> S], NEW n \in Nat
  PROVE  \E f \in [Nat -> S] : Unrolls(f, a, F, n)
<1> DEFINE T == {m \in Nat : \E f \in [Nat -> S] : Unrolls(f, a, F, m)}
<1>1. 0 \in T
  <2>1. [m \in Nat |-> a] \in [Nat -> S] /\ Unrolls([m \in Nat |-> a], a, F, 0)
    BY DEF Unrolls
  <2>2. QED
    BY <2>1
<1>2. ASSUME NEW m \in Nat, m \in T PROVE m + 1 \in T
  <2>1. PICK f \in [Nat -> S] : Unrolls(f, a, F, m)
    BY <1>2
  <2> DEFINE g == [l \in Nat |-> IF l = m + 1 THEN F[<<m, f[m]>>] ELSE f[l]]
  <2>2. g \in [Nat -> S]
    OBVIOUS
  <2>3. g[0] = a
    BY <2>1 DEF Unrolls
  <2>4. ASSUME NEW l \in 0 .. m PROVE g[l + 1] = F[<<l, g[l]>>]
    <3>1. l \in Nat /\ l # m + 1 /\ g[l] = f[l]
      OBVIOUS
    <3>2. CASE l = m
      BY <3>1, <3>2
    <3>3. CASE l # m
      <4>1. l \in 0 .. m - 1 /\ l + 1 \in Nat /\ l + 1 # m + 1
        BY <3>3
      <4>2. QED
        BY <2>1, <3>1, <4>1 DEF Unrolls
    <3>4. QED
      BY <3>2, <3>3
  <2>5. m + 1 \in Nat /\ (m + 1) - 1 = m
    OBVIOUS
  <2> HIDE DEF g
  <2>6. Unrolls(g, a, F, m + 1)
    BY <2>3, <2>4, <2>5 DEF Unrolls
  <2>7. QED
    BY <2>2, <2>5, <2>6
<1>3. Nat \subseteq T
  <2> HIDE DEF T
  <2>1. QED
    BY <1>1, <1>2, Induction
<1>4. QED
  BY <1>3

(* Two unrollings agree as far as both go.                                 *)
LEMMA UnrollingUnique ==
  ASSUME NEW a, NEW F, NEW n \in Nat, NEW f, NEW g,
         Unrolls(f, a, F, n), Unrolls(g, a, F, n)
  PROVE  f[n] = g[n]
<1> DEFINE T == {m \in Nat : m <= n => f[m] = g[m]}
<1>1. 0 \in T
  BY DEF Unrolls
<1>2. ASSUME NEW m \in Nat, m \in T PROVE m + 1 \in T
  <2> SUFFICES ASSUME m + 1 <= n PROVE f[m + 1] = g[m + 1]
    OBVIOUS
  <2>1. m \in 0 .. n - 1 /\ f[m] = g[m]
    BY <1>2
  <2>2. QED
    BY <2>1 DEF Unrolls
<1>3. Nat \subseteq T
  <2> HIDE DEF T
  <2>1. QED
    BY <1>1, <1>2, Induction
<1>4. QED
  BY <1>3

(* Every step function on S can be iterated.                               *)
Iterable(S) ==
  \A a \in S : \A F \in [Nat \X S -> S] :
    \E f \in [Nat -> S] : f[0] = a /\ \A m \in Nat : f[m + 1] = F[<<m, f[m]>>]

LEMMA Iteration ==
  ASSUME NEW S
  PROVE  Iterable(S)
<1> SUFFICES ASSUME NEW a \in S, NEW F \in [Nat \X S -> S]
             PROVE  \E f \in [Nat -> S] :
                      f[0] = a /\ \A m \in Nat : f[m + 1] = F[<<m, f[m]>>]
  BY DEF Iterable
<1> DEFINE upto == [n \in Nat |-> CHOOSE f \in [Nat -> S] : Unrolls(f, a, F, n)]
           h == [n \in Nat |-> upto[n][n]]
<1>1. \A n \in Nat : upto[n] \in [Nat -> S] /\ Unrolls(upto[n], a, F, n)
  BY UnrollingExists
<1> HIDE DEF upto
<1>2. h \in [Nat -> S]
  BY <1>1
<1>3. h[0] = a
  BY <1>1 DEF Unrolls
<1>4. ASSUME NEW m \in Nat PROVE h[m + 1] = F[<<m, h[m]>>]
  <2>1. m + 1 \in Nat /\ m \in 0 .. (m + 1) - 1 /\ 0 .. m - 1 \subseteq 0 .. (m + 1) - 1
    OBVIOUS
  <2>2. Unrolls(upto[m + 1], a, F, m + 1) /\ Unrolls(upto[m], a, F, m)
    BY <1>1, <2>1
  <2>3. Unrolls(upto[m + 1], a, F, m)
    BY <2>1, <2>2 DEF Unrolls
  <2>4. upto[m + 1][m] = upto[m][m]
    BY <2>2, <2>3, UnrollingUnique
  <2>5. upto[m + 1][m + 1] = F[<<m, upto[m + 1][m]>>]
    BY <2>1, <2>2 DEF Unrolls
  <2>6. QED
    BY <2>1, <2>4, <2>5
<1>5. QED
  BY <1>2, <1>3, <1>4

-----------------------------------------------------------------------------
(* Powers of two.                                                          *)

LEMMA TwoToUnfolds ==
  /\ TwoTo[0] = 1
  /\ \A n \in Nat : TwoTo[n] \in Nat \ {0} /\ TwoTo[n + 1] = 2 * TwoTo[n]
<1> DEFINE F == [p \in Nat \X Nat |-> 2 * p[2]]
           Unfolding(t) == t = [n \in Nat |-> IF n = 0 THEN 1 ELSE 2 * t[n - 1]]
<1>1. PICK f \in [Nat -> Nat] : f[0] = 1 /\ \A m \in Nat : f[m + 1] = F[<<m, f[m]>>]
  <2>1. Iterable(Nat)
    BY Iteration
  <2>2. F \in [Nat \X Nat -> Nat] /\ 1 \in Nat
    OBVIOUS
  <2> HIDE DEF F
  <2>3. \A a \in Nat :
          \E f \in [Nat -> Nat] : f[0] = a /\ \A m \in Nat : f[m + 1] = F[<<m, f[m]>>]
    BY <2>1, <2>2 DEF Iterable
  <2>4. QED
    BY <2>2, <2>3
<1>2. \A m \in Nat : f[m + 1] = 2 * f[m]
  BY <1>1
<1>3. Unfolding(f)
  <2>1. ASSUME NEW n \in Nat, n # 0 PROVE f[n] = 2 * f[n - 1]
    <3>1. n - 1 \in Nat /\ (n - 1) + 1 = n
      BY <2>1
    <3>2. f[(n - 1) + 1] = 2 * f[n - 1]
      BY <1>2, <3>1
    <3>3. QED
      BY <3>1, <3>2
  <2>2. QED
    BY <1>1, <2>1
<1>4. Unfolding(TwoTo)
  <2>1. TwoTo = CHOOSE t : Unfolding(t)
    BY DEF TwoTo
  <2> HIDE DEF Unfolding
  <2>2. QED
    BY <1>3, <2>1, Zenon
<1>5. TwoTo[0] = 1 /\ \A n \in Nat : TwoTo[n + 1] = 2 * TwoTo[n]
  <2>1. \A n \in Nat : n + 1 \in Nat /\ n + 1 # 0 /\ (n + 1) - 1 = n
    OBVIOUS
  <2>2. QED
    BY <1>4, <2>1
<1>6. \A n \in Nat : TwoTo[n] \in Nat \ {0}
  <2> DEFINE T == {n \in Nat : TwoTo[n] \in Nat \ {0}}
  <2>1. 0 \in T /\ \A n \in Nat : n \in T => n + 1 \in T
    BY <1>5
  <2> HIDE DEF T
  <2>2. Nat \subseteq T
    BY <2>1, Induction
  <2>3. QED
    BY <2>2 DEF T
<1>7. QED
  BY <1>5, <1>6

LEMMA TwoToType ==
  ASSUME NEW n \in Nat
  PROVE  TwoTo[n] \in Nat \ {0} /\ (n # 0 => TwoTo[n] = 2 * TwoTo[n - 1] /\ TwoTo[n] >= 2)
<1>1. CASE n # 0
  <2>1. n - 1 \in Nat /\ (n - 1) + 1 = n
    BY <1>1
  <2>2. TwoTo[n - 1] \in Nat \ {0} /\ TwoTo[(n - 1) + 1] = 2 * TwoTo[n - 1]
    BY <2>1, TwoToUnfolds
  <2>3. QED
    BY <2>1, <2>2
<1>2. QED
  BY <1>1, TwoToUnfolds

LEMMA TwoToSum ==
  ASSUME NEW m \in Nat, NEW n \in Nat
  PROVE  TwoTo[m + n] = TwoTo[m] * TwoTo[n]
<1> DEFINE T == {l \in Nat : TwoTo[m + l] = TwoTo[m] * TwoTo[l]}
<1>1. 0 \in T
  BY TwoToUnfolds
<1>2. ASSUME NEW l \in Nat, l \in T PROVE l + 1 \in T
  <2>1. TwoTo[(m + l) + 1] = 2 * TwoTo[m + l] /\ TwoTo[l + 1] = 2 * TwoTo[l]
    BY TwoToUnfolds
  <2>2. m + (l + 1) = (m + l) + 1
    OBVIOUS
  <2>3. TwoTo[m] \in Nat /\ TwoTo[l] \in Nat
    BY TwoToUnfolds
  <2>4. TwoTo[m + l] = TwoTo[m] * TwoTo[l]
    BY <1>2
  <2>5. \A x, y \in Nat : 2 * (x * y) = x * (2 * y)
    OBVIOUS
  <2>6. TwoTo[m + (l + 1)] = TwoTo[m] * TwoTo[l + 1]
    BY <2>1, <2>2, <2>3, <2>4, <2>5
  <2>7. QED
    BY <2>6
<1>3. Nat \subseteq T
  <2> HIDE DEF T
  <2>1. QED
    BY <1>1, <1>2, Induction
<1>4. QED
  BY <1>3

LEMMA TwoToMonotone ==
  ASSUME NEW m \in Nat, NEW n \in Nat, m <= n
  PROVE  TwoTo[m] <= TwoTo[n]
<1>1. n - m \in Nat /\ m + (n - m) = n
  OBVIOUS
<1>2. TwoTo[n] = TwoTo[m] * TwoTo[n - m]
  BY <1>1, TwoToSum
<1>3. TwoTo[m] \in Nat /\ TwoTo[n - m] \in Nat \ {0}
  BY <1>1, TwoToUnfolds
<1>4. \A x \in Nat : \A y \in Nat \ {0} : x <= x * y
  OBVIOUS
<1>5. QED
  BY <1>2, <1>3, <1>4

LEMMA ModUnique ==
  ASSUME NEW x \in Int, NEW q \in Int, NEW m \in Nat \ {0}, NEW r \in 0 .. m - 1,
         x = m * q + r
  PROVE  x % m = r
  OBVIOUS

LEMMA ModType ==
  ASSUME NEW x \in Int, NEW m \in Nat \ {0}
  PROVE  x % m \in 0 .. m - 1 /\ x \div m \in Int /\ x = m * (x \div m) + (x % m)
  OBVIOUS

LEMMA ModSmall ==
  ASSUME NEW m \in Nat \ {0}, NEW x \in 0 .. m - 1
  PROVE  x % m = x
  OBVIOUS

(* Keeping more digits first makes no difference.                          *)
LEMMA ModOfMod ==
  ASSUME NEW x \in Int, NEW m \in Nat \ {0}, NEW n \in Nat \ {0}
  PROVE  (x % (m * n)) % m = x % m
<1>1. PICK l \in Nat \ {0} : l = m * n
  OBVIOUS
<1>2. PICK y \in Int, q \in Int : y = x % l /\ q = x \div l /\ x = l * q + y
  BY ModType
<1>3. PICK r \in 0 .. m - 1, p \in Int : r = y % m /\ p = y \div m /\ y = m * p + r
  BY ModType
<1>4. x = m * (n * q + p) + r
  <2>1. (m * n) * q = m * (n * q)
    OBVIOUS
  <2>2. m * (n * q + p) = m * (n * q) + m * p
    OBVIOUS
  <2>3. QED
    BY <1>1, <1>2, <1>3, <2>1, <2>2
<1>5. n * q + p \in Int
  OBVIOUS
<1>6. x % m = r
  BY <1>4, <1>5, ModUnique
<1>7. QED
  BY <1>1, <1>2, <1>3, <1>6

LEMMA ModTwoTo ==
  ASSUME NEW x \in Int, NEW m \in Nat, NEW n \in Nat, m <= n
  PROVE  (x % TwoTo[n]) % TwoTo[m] = x % TwoTo[m]
<1>1. n - m \in Nat /\ m + (n - m) = n
  OBVIOUS
<1>2. TwoTo[n] = TwoTo[m] * TwoTo[n - m]
  BY <1>1, TwoToSum
<1>3. TwoTo[m] \in Nat \ {0} /\ TwoTo[n - m] \in Nat \ {0}
  BY <1>1, TwoToUnfolds
<1>4. QED
  BY <1>2, <1>3, ModOfMod

LEMMA BinaryCases ==
  ASSUME NEW op, op.op \in BinaryOps
  PROVE  \/ op.op = "IntAdd" \/ op.op = "IntSub" \/ op.op = "IntEqual"
         \/ op.op = "IntNotEqual" \/ op.op = "IntSless" \/ op.op = "IntSlessEqual"
  BY DEF BinaryOps

(* The integer a value denotes is the only one of its width that is equal  *)
(* to it modulo the width.                                                 *)
LEMMA IntegerIs ==
  ASSUME NEW n \in Nat \ {0}, NEW x \in 0 .. TwoTo[n] - 1
  PROVE  /\ AsInteger(x, n) = IF x >= TwoTo[n - 1] THEN x - TwoTo[n] ELSE x
         /\ AsInteger(x, n) \in Int
<1>1. PICK half \in Nat \ {0} : half = TwoTo[n - 1] /\ TwoTo[n] = 2 * half
  <2>1. n - 1 \in Nat
    OBVIOUS
  <2>2. QED
    BY <2>1, TwoToType
<1>2. x \in 0 .. 2 * half - 1 /\ x % (2 * half) = x
  BY <1>1, ModSmall
<1> DEFINE Denotes(y) == y \in -half .. half - 1 /\ y % (2 * half) = x
<1>3. Denotes(IF x >= half THEN x - 2 * half ELSE x)
  <2>1. CASE x >= half
    <3>1. x - 2 * half = (2 * half) * (-1) + x
      BY <1>2
    <3>2. x - 2 * half \in -half .. half - 1
      BY <1>2, <2>1
    <3>3. (x - 2 * half) % (2 * half) = x
      BY <1>2, <3>1, <3>2, ModUnique
    <3>4. QED
      BY <2>1, <3>2, <3>3
  <2>2. CASE ~ (x >= half)
    BY <1>2, <2>2
  <2>3. QED
    BY <2>1, <2>2
<1>4. ASSUME NEW y, NEW z, Denotes(y), Denotes(z) PROVE y = z
  <2>1. /\ y \in Int /\ z \in Int /\ y - z < 2 * half /\ z - y < 2 * half
    BY <1>4
  <2>2. PICK m \in Nat \ {0} : m = 2 * half
    OBVIOUS
  <2>3. PICK p \in Int, q \in Int : y = m * p + x /\ z = m * q + x
    <3>1. y % m = x /\ z % m = x
      BY <1>4, <2>2
    <3>2. /\ y \div m \in Int /\ y = m * (y \div m) + (y % m)
          /\ z \div m \in Int /\ z = m * (z \div m) + (z % m)
      BY <2>1, ModType
    <3>3. QED
      BY <3>1, <3>2
  <2>4. y - z = m * (p - q) /\ x \in Int
    BY <1>2, <2>3
  <2>5. \A d \in Int : m * d < m /\ -(m * d) < m => d = 0
    OBVIOUS
  <2>6. p - q = 0
    BY <2>1, <2>2, <2>4, <2>5
  <2>7. QED
    BY <2>3, <2>6
<1>5. AsInteger(x, n) = CHOOSE y : Denotes(y)
  <2>1. AsInteger(x, n) = CHOOSE y \in -half .. half - 1 : y % (2 * half) = x
    BY <1>1, <1>2 DEF AsInteger
  <2>2. QED
    BY <2>1
<1>6. (IF x >= half THEN x - 2 * half ELSE x) \in Int
  BY <1>2
<1> HIDE DEF Denotes
<1>7. QED
  BY <1>1, <1>3, <1>4, <1>5, <1>6

-----------------------------------------------------------------------------
(* Values of the integer types of C.                                       *)

Limit(size) == TwoTo[size * ByteBits]

(* n is a value of an integer type.                                        *)
InRange(n, type) ==
  /\ type = CType(0, type.size, type.signed) /\ type.signed \in BOOLEAN
  /\ type.size \in Nat \ {0} /\ n \in Int
  /\ IF type.signed THEN -Limit(type.size) <= 2 * n /\ 2 * n < Limit(type.size)
     ELSE 0 <= n /\ n < Limit(type.size)

LEMMA LimitType ==
  ASSUME NEW size \in Nat \ {0}
  PROVE  /\ size * ByteBits \in Nat \ {0} /\ Limit(size) \in Nat \ {0} /\ Limit(size) >= 2
         /\ Limit(size) % 2 = 0
<1>1. \A m, n \in Nat \ {0} : m * n \in Nat \ {0}
  OBVIOUS
<1>2. PICK n \in Nat \ {0} : n = size * ByteBits
  BY <1>1, ByteAssumption
<1>3. n - 1 \in Nat /\ TwoTo[n] = 2 * TwoTo[n - 1] /\ TwoTo[n] >= 2 /\ TwoTo[n] \in Nat \ {0}
  BY TwoToType
<1>4. TwoTo[n - 1] \in Nat
  BY <1>3, TwoToUnfolds
<1>5. QED
  BY <1>2, <1>3, <1>4 DEF Limit

(* A byte more doubles the limit at least.                                 *)
LEMMA LimitGrows ==
  ASSUME NEW s \in Nat \ {0}, NEW t \in Nat \ {0}, s < t
  PROVE  2 * Limit(s) <= Limit(t)
<1>1. PICK m \in Nat : m = s * ByteBits
  BY LimitType
<1>2. PICK n \in Nat : n = t * ByteBits
  BY LimitType
<1>3. m + 1 <= n
  <2>1. \A p, q, d \in Nat \ {0} : p < q => p * d + 1 <= q * d
    OBVIOUS
  <2>2. QED
    BY <1>1, <1>2, <2>1, ByteAssumption
<1>4. TwoTo[m + 1] = 2 * TwoTo[m] /\ TwoTo[m + 1] <= TwoTo[n]
  BY <1>3, TwoToUnfolds, TwoToMonotone
<1>5. QED
  BY <1>1, <1>2, <1>4 DEF Limit

LEMMA IntegerTypeSize ==
  ASSUME NEW size, NEW signed
  PROVE  /\ CType(0, size, signed).size = size /\ CType(0, size, signed).signed = signed
         /\ ~ IsPointerType(CType(0, size, signed))
         /\ SizeOf(CType(0, size, signed)) = size
  BY DEF CType, IsPointerType, SizeOf

(* Converting a number changes it by a multiple of the limit.              *)
LEMMA ConvertSpec ==
  ASSUME NEW size \in Nat \ {0}, NEW signed \in BOOLEAN, NEW n \in Int
  PROVE  LET c == Convert(n, CType(0, size, signed))
             m == n % Limit(size)
         IN  /\ c = IF signed /\ 2 * m >= Limit(size) THEN m - Limit(size) ELSE m
             /\ c \in Int /\ c % Limit(size) = m
<1>1. PICK type : type = CType(0, size, signed)
  OBVIOUS
<1>2. type.signed = signed /\ ~ IsPointerType(type) /\ SizeOf(type) = size
  BY <1>1, IntegerTypeSize
<1>3. PICK l \in Nat \ {0} : l = Limit(size)
  BY LimitType
<1>4. PICK m \in 0 .. l - 1 : m = n % l
  BY ModType
<1>5. Convert(n, type) = IF signed /\ 2 * m >= l THEN m - l ELSE m
  BY <1>2, <1>3, <1>4 DEF Convert, Limit
<1>6. m % l = m
  BY ModSmall
<1>7. (m - l) % l = m
  <2>1. m - l = l * (-1) + m
    OBVIOUS
  <2>2. m - l \in Int /\ -1 \in Int
    OBVIOUS
  <2>3. QED
    BY <2>1, <2>2, ModUnique
<1>8. Convert(n, type) \in Int /\ Convert(n, type) % l = m
  BY <1>5, <1>6, <1>7
<1>9. QED
  BY <1>1, <1>3, <1>4, <1>5, <1>8

(* A value of a type is converted to itself.                               *)
LEMMA ConvertKeeps ==
  ASSUME NEW n, NEW type, InRange(n, type)
  PROVE  Convert(n, type) = n
<1>1. PICK size \in Nat \ {0}, signed \in BOOLEAN :
        type = CType(0, size, signed) /\ size = type.size /\ signed = type.signed
  BY DEF InRange
<1>2. PICK l \in Nat \ {0} : l = Limit(size)
  BY LimitType
<1>3. n \in Int /\ IF signed THEN -l <= 2 * n /\ 2 * n < l ELSE 0 <= n /\ n < l
  BY <1>1, <1>2 DEF InRange
<1>4. Convert(n, type) = IF signed /\ 2 * (n % l) >= l THEN (n % l) - l ELSE n % l
  <2>1. n \in Int
    BY <1>3
  <2>2. Convert(n, CType(0, size, signed)) =
          IF signed /\ 2 * (n % Limit(size)) >= Limit(size)
          THEN (n % Limit(size)) - Limit(size) ELSE n % Limit(size)
    BY <2>1, ConvertSpec
  <2>3. QED
    BY <1>1, <1>2, <2>2
<1>5. CASE n >= 0
  <2>1. n \in 0 .. l - 1
    BY <1>3, <1>5
  <2>2. n % l = n
    BY <2>1, ModSmall
  <2>3. QED
    BY <1>3, <1>4, <2>1, <2>2
<1>6. CASE n < 0
  <2>1. signed /\ n + l \in 0 .. l - 1 /\ 2 * (n + l) >= l
    BY <1>3, <1>6
  <2>2. n = l * (-1) + (n + l) /\ -1 \in Int
    BY <1>3
  <2>3. n % l = n + l
    BY <1>3, <2>1, <2>2, ModUnique
  <2>4. QED
    BY <1>3, <1>4, <2>1, <2>3
<1>7. QED
  BY <1>3, <1>5, <1>6

(* Converting twice, first to a type that is no narrower, is as converting *)
(* once.                                                                   *)
LEMMA ConvertTwice ==
  ASSUME NEW s \in Nat \ {0}, NEW t \in Nat \ {0}, s <= t, NEW signed \in BOOLEAN, NEW n \in Int
  PROVE  Convert(n, CType(0, t, signed)) % Limit(s) = n % Limit(s)
<1>1. PICK c \in Int : c = Convert(n, CType(0, t, signed)) /\ c % Limit(t) = n % Limit(t)
  BY ConvertSpec
<1>2. s * ByteBits \in Nat /\ t * ByteBits \in Nat /\ s * ByteBits <= t * ByteBits
  <2>1. \A p, q, d \in Nat \ {0} : p <= q => p * d <= q * d
    OBVIOUS
  <2>2. QED
    BY <2>1, ByteAssumption, LimitType
<1>3. \A z \in Int : (z % Limit(t)) % Limit(s) = z % Limit(s)
  BY <1>2, ModTwoTo DEF Limit
<1>4. QED
  BY <1>1, <1>3

-----------------------------------------------------------------------------
(* The usual arithmetic conversions.                                       *)

SignedInt(size) == CType(0, size, TRUE)
UnsignedInt(size) == CType(0, size, FALSE)

(* The type C takes for an operand that is printed as a variable of size   *)
(* bytes, or as the literal n.                                             *)
PrintedTypes(n, size) == {UnsignedInt(size), LiteralType(n)}

LEMMA LiteralCases ==
  ASSUME NEW n \in Nat
  PROVE  \/ LiteralType(n) = SignedInt(IntSize) /\ 2 * n < Limit(IntSize)
         \/ /\ LiteralType(n) = SignedInt(LongSize)
            /\ ~ (2 * n < Limit(IntSize)) /\ 2 * n < Limit(LongSize)
         \/ LiteralType(n) = UnsignedInt(LongSize) /\ ~ (2 * n < Limit(LongSize))
<1>1. CASE 2 * n < Limit(IntSize)
  BY <1>1, Zenon DEF LiteralType, IntType, Limit, SignedInt
<1>2. CASE ~ (2 * n < Limit(IntSize)) /\ 2 * n < Limit(LongSize)
  BY <1>2, Zenon DEF LiteralType, LongType, Limit, SignedInt
<1>3. CASE ~ (2 * n < Limit(IntSize)) /\ ~ (2 * n < Limit(LongSize))
  BY <1>3, Zenon DEF LiteralType, Limit, UnsignedInt
<1>4. QED
  BY <1>1, <1>2, <1>3, Zenon

LEMMA IntFields ==
  ASSUME NEW size
  PROVE  /\ SignedInt(size).size = size /\ SignedInt(size).signed = TRUE
         /\ UnsignedInt(size).size = size /\ UnsignedInt(size).signed = FALSE
         /\ \A t \in {SignedInt(size), UnsignedInt(size)} :
              ~ IsPointerType(t) /\ SizeOf(t) = size
<1>1. SignedInt(size).size = size /\ UnsignedInt(size).size = size
      /\ SignedInt(size).signed = TRUE /\ UnsignedInt(size).signed = FALSE
      /\ SignedInt(size).pointers = 0 /\ UnsignedInt(size).pointers = 0
  BY DEF SignedInt, UnsignedInt, CType
<1>2. ASSUME NEW t, t.pointers = 0, t.size = size PROVE ~ IsPointerType(t) /\ SizeOf(t) = size
  BY <1>2 DEF IsPointerType, SizeOf
<1>3. QED
  BY <1>1, <1>2

LEMMA PromotedType ==
  ASSUME NEW size \in Nat \ {0}, NEW type \in {SignedInt(size), UnsignedInt(size)}
  PROVE  Promoted(type) = IF size < IntSize THEN SignedInt(IntSize) ELSE type
<1>1. type.size = size
  BY IntFields
<1>2. QED
  BY <1>1, Zenon DEF Promoted, IntType, SignedInt

(* The common type, when those of the promoted operands are known: the     *)
(* wider one; among two of one width the unsigned one.                     *)
LEMMA CommonTypeWider ==
  ASSUME NEW s \in Nat \ {0}, NEW t \in Nat \ {0}, t < s, NEW x, NEW y,
         Promoted(x) \in {SignedInt(s), UnsignedInt(s)},
         Promoted(y) \in {SignedInt(t), UnsignedInt(t)}
  PROVE  CommonType(x, y) = Promoted(x) /\ CommonType(y, x) = Promoted(x)
<1>1. Promoted(x).size = s /\ Promoted(y).size = t
  BY IntFields
<1>2. s > t /\ ~ (t > s)
  OBVIOUS
<1>3. QED
  BY <1>1, <1>2, Zenon DEF CommonType

LEMMA CommonTypeSame ==
  ASSUME NEW s \in Nat \ {0}, NEW x, NEW y
  PROVE  /\ Promoted(x) = SignedInt(s) /\ Promoted(y) = SignedInt(s) =>
              CommonType(x, y) = SignedInt(s)
         /\ Promoted(x) = UnsignedInt(s) /\ Promoted(y) \in {SignedInt(s), UnsignedInt(s)} =>
              CommonType(x, y) = UnsignedInt(s) /\ CommonType(y, x) = UnsignedInt(s)
<1>1. (TRUE /\ TRUE) = TRUE /\ (FALSE /\ TRUE) = FALSE /\ (FALSE /\ FALSE) = FALSE
      /\ (TRUE /\ FALSE) = FALSE
  OBVIOUS
<1>2. ~ (s > s)
  OBVIOUS
<1>3. ASSUME Promoted(x) = SignedInt(s), Promoted(y) = SignedInt(s)
      PROVE  CommonType(x, y) = SignedInt(s)
  <2>1. CommonType(x, y) = CType(0, s, TRUE /\ TRUE)
    BY <1>2, <1>3, IntFields, Zenon DEF CommonType
  <2>2. QED
    BY <1>1, <2>1, Zenon DEF SignedInt
<1>4. ASSUME Promoted(x) = UnsignedInt(s), Promoted(y) = SignedInt(s)
      PROVE  CommonType(x, y) = UnsignedInt(s) /\ CommonType(y, x) = UnsignedInt(s)
  <2>1. CommonType(x, y) = CType(0, s, FALSE /\ TRUE)
    BY <1>2, <1>4, IntFields, Zenon DEF CommonType
  <2>2. CommonType(y, x) = CType(0, s, TRUE /\ FALSE)
    BY <1>2, <1>4, IntFields, Zenon DEF CommonType
  <2>3. QED
    BY <1>1, <2>1, <2>2, Zenon DEF UnsignedInt
<1>5. ASSUME Promoted(x) = UnsignedInt(s), Promoted(y) = UnsignedInt(s)
      PROVE  CommonType(x, y) = UnsignedInt(s) /\ CommonType(y, x) = UnsignedInt(s)
  <2>1. CommonType(x, y) = CType(0, s, FALSE /\ FALSE)
    BY <1>2, <1>5, IntFields, Zenon DEF CommonType
  <2>2. CommonType(y, x) = CType(0, s, FALSE /\ FALSE)
    BY <1>2, <1>5, IntFields, Zenon DEF CommonType
  <2>3. QED
    BY <1>1, <2>1, <2>2, Zenon DEF UnsignedInt
<1>6. QED
  BY <1>3, <1>4, <1>5, Zenon

LEMMA InRangeIntro ==
  ASSUME NEW size \in Nat \ {0}, NEW z \in Int
  PROVE  /\ -Limit(size) <= 2 * z /\ 2 * z < Limit(size) => InRange(z, SignedInt(size))
         /\ 0 <= z /\ z < Limit(size) => InRange(z, UnsignedInt(size))
<1>1. ASSUME NEW signed \in BOOLEAN
      PROVE  CType(0, size, signed).size = size /\ CType(0, size, signed).signed = signed
  BY IntegerTypeSize, Zenon
<1>2. QED
  BY <1>1, Zenon DEF InRange, SignedInt, UnsignedInt

(* The common type of a variable and an operand holds both their values,   *)
(* and is no narrower than the variable.                                   *)
HoldsBoth(size, m, n, type) ==
  \E s \in Nat \ {0} :
    /\ type \in {SignedInt(s), UnsignedInt(s)} /\ size <= s
    /\ InRange(m, type) /\ InRange(n, type)

LEMMA CommonTypeHolds ==
  ASSUME NEW size \in Nat \ {0}, size <= LongSize,
         NEW m \in 0 .. Limit(size) - 1, NEW n \in 0 .. Limit(size) - 1,
         NEW v, v = UnsignedInt(size), NEW type \in PrintedTypes(n, size)
  PROVE  /\ CommonType(type, v) = CommonType(v, type)
         /\ HoldsBoth(size, m, n, CommonType(v, type))
<1>1. /\ IntSize \in Nat \ {0} /\ LongSize \in Nat \ {0} /\ IntSize <= LongSize
      /\ m \in Nat /\ n \in Nat
  BY LimitType, CTypeAssumption
<1>2. PICK a \in Nat \ {0}, b \in Nat \ {0}, l \in Nat \ {0} :
        /\ a = Limit(IntSize) /\ b = Limit(LongSize) /\ l = Limit(size)
  BY <1>1, LimitType
<1>3. /\ size < IntSize => 2 * l <= a
      /\ size < LongSize => 2 * l <= b
      /\ IntSize < LongSize => 2 * a <= b
      /\ IntSize < size => 2 * a <= l
      /\ size = IntSize => l = a
      /\ size = LongSize => l = b
      /\ IntSize = LongSize => a = b
  BY <1>1, <1>2, LimitGrows
<1>4. m < l /\ n < l
  BY <1>1, <1>2
<1>5. Promoted(v) = IF size < IntSize THEN SignedInt(IntSize) ELSE v
  BY PromotedType
<1>6. ASSUME NEW s \in Nat \ {0}, size <= s, NEW t,
             \/ t = SignedInt(s) /\ 2 * m < Limit(s) /\ 2 * n < Limit(s)
             \/ t = UnsignedInt(s) /\ m < Limit(s) /\ n < Limit(s)
      PROVE  HoldsBoth(size, m, n, t)
  <2>1. Limit(s) \in Nat
    BY LimitType
  <2>2. -Limit(s) <= 2 * m /\ -Limit(s) <= 2 * n /\ 0 <= m /\ 0 <= n /\ m \in Int /\ n \in Int
    BY <1>1, <2>1
  <2>3. InRange(m, t) /\ InRange(n, t)
    BY <1>6, <2>2, InRangeIntro
  <2>4. QED
    BY <1>6, <2>3 DEF HoldsBoth
<1>7. HoldsBoth(size, m, n, v)
  BY <1>1, <1>2, <1>4, <1>6
<1>8. size < IntSize => HoldsBoth(size, m, n, SignedInt(IntSize))
  <2>1. size < IntSize =>
          size <= IntSize /\ 2 * m < Limit(IntSize) /\ 2 * n < Limit(IntSize)
    BY <1>1, <1>2, <1>3, <1>4
  <2>2. QED
    BY <1>1, <1>6, <2>1
<1>9. CASE type = v
  <2>1. CommonType(v, type) = Promoted(v)
    BY <1>1, <1>5, <1>9, CommonTypeSame
  <2>2. QED
    BY <1>5, <1>7, <1>8, <1>9, <2>1
<1>10. CASE type = SignedInt(IntSize) /\ 2 * n < a
  <2>1. Promoted(type) = type
    BY <1>1, <1>10, PromotedType
  <2>2. CASE size < IntSize
    <3>1. CommonType(v, type) = type /\ CommonType(type, v) = type
      BY <1>1, <1>5, <1>10, <2>1, <2>2, CommonTypeSame
    <3>2. QED
      BY <1>8, <1>10, <2>2, <3>1
  <2>3. CASE IntSize < size
    <3>1. Promoted(v) = v /\ ~ (size < IntSize)
      BY <1>1, <1>5, <2>3
    <3>2. CommonType(v, type) = v /\ CommonType(type, v) = v
      BY <1>1, <1>10, <2>1, <2>3, <3>1, CommonTypeWider
    <3>3. QED
      BY <1>7, <3>2
  <2>4. CASE size = IntSize
    <3>1. Promoted(v) = v
      BY <1>1, <1>5, <2>4
    <3>2. CommonType(v, type) = v /\ CommonType(type, v) = v
      BY <1>10, <2>1, <2>4, <3>1, CommonTypeSame
    <3>3. QED
      BY <1>7, <3>2
  <2>5. QED
    BY <1>1, <2>2, <2>3, <2>4
<1>11. CASE type = SignedInt(LongSize) /\ ~ (2 * n < a) /\ 2 * n < b
  <2>1. ~ (size < IntSize) /\ ~ (LongSize < IntSize)
    BY <1>1, <1>2, <1>3, <1>4, <1>11
  <2>2. Promoted(type) = type /\ Promoted(v) = v
    BY <1>1, <1>5, <1>11, <2>1, PromotedType
  <2>3. CASE size < LongSize
    <3>1. CommonType(v, type) = type /\ CommonType(type, v) = type
      BY <1>1, <1>11, <2>2, <2>3, CommonTypeWider
    <3>2. size <= LongSize /\ 2 * m < Limit(LongSize) /\ 2 * n < Limit(LongSize)
      BY <1>1, <1>2, <1>3, <1>4, <2>3
    <3>3. QED
      BY <1>1, <1>6, <1>11, <3>1, <3>2
  <2>4. CASE size = LongSize
    <3>1. CommonType(v, type) = v /\ CommonType(type, v) = v
      BY <1>1, <1>11, <2>2, <2>4, CommonTypeSame
    <3>2. QED
      BY <1>7, <3>1
  <2>5. size < LongSize \/ size = LongSize
    BY <1>1
  <2>6. QED
    BY <2>3, <2>4, <2>5
<1>12. CASE type = UnsignedInt(LongSize) /\ ~ (2 * n < b)
  <2>1. size = LongSize
    BY <1>1, <1>2, <1>3, <1>4, <1>12
  <2>2. QED
    BY <1>9, <1>12, <2>1
<1>13. \/ type = v
       \/ type = SignedInt(IntSize) /\ 2 * n < a
       \/ type = SignedInt(LongSize) /\ ~ (2 * n < a) /\ 2 * n < b
       \/ type = UnsignedInt(LongSize) /\ ~ (2 * n < b)
  BY <1>1, <1>2, LiteralCases, Zenon DEF PrintedTypes
<1>14. QED
  BY <1>9, <1>10, <1>11, <1>12, <1>13

(* A typed value, when the value is one of the type.                       *)
LEMMA TypedValueKeeps ==
  ASSUME NEW n, NEW type, InRange(n, type)
  PROVE  TypedValue(n, type) = [type |-> type, value |-> n]
  BY ConvertKeeps, Zenon DEF TypedValue

LEMMA LiteralKeeps ==
  ASSUME NEW size \in Nat \ {0}, size <= LongSize, NEW n \in 0 .. Limit(size) - 1
  PROVE  TypedValue(n, LiteralType(n)) = [type |-> LiteralType(n), value |-> n]
<1>1. IntSize \in Nat \ {0} /\ LongSize \in Nat \ {0} /\ n \in Nat /\ n \in Int
  BY LimitType, CTypeAssumption
<1>2. PICK a \in Nat, b \in Nat, l \in Nat :
        a = Limit(IntSize) /\ b = Limit(LongSize) /\ l = Limit(size)
  BY <1>1, LimitType
<1>3. n < b
  <2>1. size < LongSize => 2 * l <= b
    BY <1>1, <1>2, LimitGrows
  <2>2. size = LongSize => l = b
    BY <1>2
  <2>3. QED
    BY <1>1, <1>2, <2>1, <2>2
<1>4. -a <= 2 * n /\ -b <= 2 * n /\ 0 <= n
  BY <1>1
<1>5. InRange(n, LiteralType(n))
  <2>1. CASE LiteralType(n) = SignedInt(IntSize) /\ 2 * n < a
    BY <1>1, <1>2, <1>4, <2>1, InRangeIntro
  <2>2. CASE LiteralType(n) = SignedInt(LongSize) /\ 2 * n < b
    BY <1>1, <1>2, <1>4, <2>2, InRangeIntro
  <2>3. CASE LiteralType(n) = UnsignedInt(LongSize)
    BY <1>1, <1>2, <1>3, <1>4, <2>3, InRangeIntro
  <2>4. QED
    BY <1>1, <1>2, <2>1, <2>2, <2>3, LiteralCases, Zenon
<1>6. QED
  BY <1>5, TypedValueKeeps

LEMMA PrintedTypeIsNumber ==
  ASSUME NEW size \in Nat \ {0}, NEW n \in Nat, NEW type \in PrintedTypes(n, size)
  PROVE  ~ IsPointerType(type)
<1>1. /\ \/ type = UnsignedInt(size) \/ type = SignedInt(IntSize) \/ type = SignedInt(LongSize)
         \/ type = UnsignedInt(LongSize)
  BY LiteralCases, Zenon DEF PrintedTypes
<1>2. QED
  BY <1>1, IntFields, Zenon

(* The operands of an operation, at least one of them a variable: their    *)
(* common type holds the values of both, and is no narrower.               *)
LEMMA CommonTypeOfOperands ==
  ASSUME NEW size \in Nat \ {0}, size <= LongSize,
         NEW x \in 0 .. Limit(size) - 1, NEW y \in 0 .. Limit(size) - 1,
         NEW t \in PrintedTypes(x, size), NEW u \in PrintedTypes(y, size),
         t = UnsignedInt(size) \/ u = UnsignedInt(size)
  PROVE  /\ HoldsBoth(size, x, y, CommonType(t, u))
         /\ ~ IsPointerType(t) /\ ~ IsPointerType(u)
<1>1. t = UnsignedInt(size) => HoldsBoth(size, x, y, CommonType(t, u))
  BY CommonTypeHolds, Zenon
<1>2. ASSUME u = UnsignedInt(size) PROVE HoldsBoth(size, x, y, CommonType(t, u))
  <2>1. CommonType(t, u) = CommonType(u, t) /\ HoldsBoth(size, y, x, CommonType(u, t))
    BY <1>2, CommonTypeHolds, Zenon
  <2>2. QED
    BY <2>1, Zenon DEF HoldsBoth
<1>3. x \in Nat /\ y \in Nat
  BY LimitType
<1>4. QED
  BY <1>1, <1>2, <1>3, PrintedTypeIsNumber

LEMMA SumsInC ==
  ASSUME NEW size \in Nat \ {0}, size <= LongSize,
         NEW x \in 0 .. Limit(size) - 1, NEW y \in 0 .. Limit(size) - 1,
         NEW t \in PrintedTypes(x, size), NEW u \in PrintedTypes(y, size),
         t = UnsignedInt(size) \/ u = UnsignedInt(size),
         NEW l, l = [type |-> t, value |-> x], NEW r, r = [type |-> u, value |-> y]
  PROVE  /\ Convert(Arithmetic("+", l, r).value, UnsignedInt(size)) = (x + y) % Limit(size)
         /\ Convert(Arithmetic("-", l, r).value, UnsignedInt(size)) = (x - y) % Limit(size)
<1>1. /\ HoldsBoth(size, x, y, CommonType(t, u)) /\ ~ IsPointerType(t) /\ ~ IsPointerType(u)
  BY CommonTypeOfOperands
<1>2. PICK s \in Nat \ {0}, signed \in BOOLEAN :
        CommonType(t, u) = CType(0, s, signed) /\ size <= s
  BY <1>1 DEF HoldsBoth, SignedInt, UnsignedInt
<1>3. x \in Int /\ y \in Int /\ x + y \in Int /\ x - y \in Int /\ x * 1 = x /\ y * 1 = y
  BY LimitType
<1>4. l.type = t /\ l.value = x /\ r.type = u /\ r.value = y
  OBVIOUS
<1>5. Scale(t) = 1 /\ Scale(u) = 1
  BY <1>1 DEF Scale
<1>6. /\ Arithmetic("+", l, r).value = Convert(x + y, CType(0, s, signed))
      /\ Arithmetic("-", l, r).value = Convert(x - y, CType(0, s, signed))
  BY <1>1, <1>2, <1>3, <1>4, <1>5 DEF Arithmetic, TypedValue
<1>7. ASSUME NEW z \in Int
      PROVE  Convert(Convert(z, CType(0, s, signed)), UnsignedInt(size)) = z % Limit(size)
  <2>1. PICK c \in Int : c = Convert(z, CType(0, s, signed))
    BY <1>2, ConvertSpec
  <2>2. c % Limit(size) = z % Limit(size)
    BY <1>2, <2>1, ConvertTwice
  <2>3. Convert(c, CType(0, size, FALSE)) = IF FALSE /\ 2 * (c % Limit(size)) >= Limit(size)
                            THEN (c % Limit(size)) - Limit(size) ELSE c % Limit(size)
    BY ConvertSpec, Zenon
  <2>4. QED
    BY <2>1, <2>2, <2>3 DEF UnsignedInt
<1>8. QED
  BY <1>3, <1>6, <1>7

(* The truth values survive their way through int to the destination.      *)
LEMMA TruthInC ==
  ASSUME NEW d \in Nat \ {0}, NEW p \in BOOLEAN
  PROVE  Convert(TypedValue(IF p THEN 1 ELSE 0, IntType).value, UnsignedInt(d)) = Truth(p)
<1>1. PICK b \in {0, 1} : b = Truth(p) /\ b = IF p THEN 1 ELSE 0
  BY DEF Truth
<1>2. Limit(IntSize) \in Nat /\ Limit(IntSize) > 2
  <2>1. PICK n \in Nat \ {0} : n = IntSize * ByteBits /\ n >= 2
    BY CTypeAssumption, LimitType
  <2>2. TwoTo[n] = 2 * TwoTo[n - 1] /\ TwoTo[n - 1] >= 2 /\ TwoTo[n - 1] \in Nat
    <3>1. n - 1 \in Nat \ {0}
      BY <2>1
    <3>2. QED
      BY <2>1, <3>1, TwoToType
  <2>3. QED
    BY <2>1, <2>2 DEF Limit
<1>3. InRange(b, IntType)
  <2>1. IntSize \in Nat \ {0} /\ b \in Int /\ -Limit(IntSize) <= 2 * b /\ 2 * b < Limit(IntSize)
    BY <1>2, CTypeAssumption
  <2>2. InRange(b, SignedInt(IntSize))
    BY <2>1, InRangeIntro
  <2>3. QED
    BY <2>2 DEF SignedInt, IntType
<1>4. InRange(b, UnsignedInt(d))
  <2>1. b \in Int /\ 0 <= b /\ b < Limit(d)
    BY LimitType
  <2>2. QED
    BY <2>1, InRangeIntro
<1>5. TypedValue(b, IntType).value = b /\ Convert(b, UnsignedInt(d)) = b
  BY <1>3, <1>4, ConvertKeeps DEF TypedValue
<1>6. QED
  BY <1>1, <1>5

LEMMA EqualityInC ==
  ASSUME NEW d \in Nat \ {0}, NEW size \in Nat \ {0}, size <= LongSize,
         NEW x \in 0 .. Limit(size) - 1, NEW y \in 0 .. Limit(size) - 1,
         NEW t \in PrintedTypes(x, size), NEW u \in PrintedTypes(y, size),
         t = UnsignedInt(size) \/ u = UnsignedInt(size),
         NEW l, l = [type |-> t, value |-> x], NEW r, r = [type |-> u, value |-> y]
  PROVE  /\ Convert(Compared("==", l, r).value, UnsignedInt(d)) = Truth(x = y)
         /\ Convert(Compared("!=", l, r).value, UnsignedInt(d)) = Truth(x # y)
<1>1. /\ HoldsBoth(size, x, y, CommonType(t, u)) /\ ~ IsPointerType(t) /\ ~ IsPointerType(u)
  BY CommonTypeOfOperands
<1>2. Convert(x, CommonType(t, u)) = x /\ Convert(y, CommonType(t, u)) = y
  BY <1>1, ConvertKeeps DEF HoldsBoth
<1>3. l.type = t /\ l.value = x /\ r.type = u /\ r.value = y
  OBVIOUS
<1>4. /\ Compared("==", l, r) = TypedValue(IF x = y THEN 1 ELSE 0, IntType)
      /\ Compared("!=", l, r) = TypedValue(IF x # y THEN 1 ELSE 0, IntType)
  BY <1>1, <1>2, <1>3 DEF Compared
<1>5. QED
  BY <1>4, TruthInC

(* What a signed type makes of a value is the integer it denotes.          *)
LEMMA CastIsInteger ==
  ASSUME NEW size \in Nat \ {0}, NEW x \in 0 .. Limit(size) - 1
  PROVE  /\ Convert(x, SignedInt(size)) = AsInteger(x, size * ByteBits)
         /\ InRange(AsInteger(x, size * ByteBits), SignedInt(size))
<1>1. PICK n \in Nat \ {0} : n = size * ByteBits
  BY LimitType
<1>2. PICK half \in Nat \ {0} : half = TwoTo[n - 1] /\ TwoTo[n] = 2 * half
  <2>1. n - 1 \in Nat
    OBVIOUS
  <2>2. QED
    BY <2>1, TwoToType
<1>3. Limit(size) = 2 * half
  BY <1>1, <1>2 DEF Limit
<1>4. x \in 0 .. 2 * half - 1 /\ x % (2 * half) = x
  BY <1>3, ModSmall
<1>5. PICK z \in Int : z = AsInteger(x, n) /\ z = IF x >= half THEN x - 2 * half ELSE x
  BY <1>2, <1>4, IntegerIs
<1>6. Convert(x, SignedInt(size)) = z
  <2>1. x \in Int
    BY <1>4
  <2>2. Convert(x, CType(0, size, TRUE)) =
          IF TRUE /\ 2 * (x % Limit(size)) >= Limit(size)
          THEN (x % Limit(size)) - Limit(size) ELSE x % Limit(size)
    BY <2>1, ConvertSpec, Zenon
  <2>3. Convert(x, CType(0, size, TRUE)) =
          IF 2 * x >= 2 * half THEN x - 2 * half ELSE x
    BY <1>3, <1>4, <2>2
  <2>4. 2 * x >= 2 * half <=> x >= half
    BY <1>4
  <2>5. QED
    BY <1>5, <2>3, <2>4, Zenon DEF SignedInt
<1>7. InRange(z, SignedInt(size))
  <2>1. -(2 * half) <= 2 * z /\ 2 * z < 2 * half
    BY <1>4, <1>5
  <2>2. QED
    BY <1>3, <2>1, InRangeIntro
<1>8. QED
  BY <1>1, <1>5, <1>6, <1>7

LEMMA SignedInC ==
  ASSUME NEW d \in Nat \ {0}, NEW size \in Nat \ {0}, NEW x, InRange(x, SignedInt(size)),
         NEW y, InRange(y, SignedInt(size)),
         NEW l, l = [type |-> SignedInt(size), value |-> x],
         NEW r, r = [type |-> SignedInt(size), value |-> y]
  PROVE  /\ Convert(Compared("<", l, r).value, UnsignedInt(d)) = Truth(x < y)
         /\ Convert(Compared("<=", l, r).value, UnsignedInt(d)) = Truth(x <= y)
<1>1. PICK t : t = SignedInt(size)
  OBVIOUS
<1>2. l.type = t /\ l.value = x /\ r.type = t /\ r.value = y /\ ~ IsPointerType(t)
  BY <1>1, IntFields
<1>3. IntSize \in Nat \ {0}
  BY CTypeAssumption
<1>4. ASSUME NEW z, InRange(z, t)
      PROVE  Convert(z, CommonType(t, t)) = z
  <2>1. Promoted(t) = IF size < IntSize THEN SignedInt(IntSize) ELSE t
    BY <1>1, PromotedType
  <2>2. CASE size < IntSize
    <3>1. CommonType(t, t) = SignedInt(IntSize)
      BY <1>3, <2>1, <2>2, CommonTypeSame
    <3>2. z \in Int /\ -Limit(size) <= 2 * z /\ 2 * z < Limit(size)
      BY <1>1, <1>4, IntFields DEF InRange
    <3>3. 2 * Limit(size) <= Limit(IntSize) /\ Limit(size) \in Nat /\ Limit(IntSize) \in Nat
      BY <1>3, <2>2, LimitGrows, LimitType
    <3>4. InRange(z, SignedInt(IntSize))
      BY <1>3, <3>2, <3>3, InRangeIntro
    <3>5. QED
      BY <3>1, <3>4, ConvertKeeps
  <2>3. CASE ~ (size < IntSize)
    <3>1. CommonType(t, t) = t
      BY <1>1, <2>1, <2>3, CommonTypeSame
    <3>2. QED
      BY <1>4, <3>1, ConvertKeeps
  <2>4. QED
    BY <2>2, <2>3
<1>5. Convert(x, CommonType(t, t)) = x /\ Convert(y, CommonType(t, t)) = y
  BY <1>1, <1>4
<1>6. /\ Compared("<", l, r) = TypedValue(IF x < y THEN 1 ELSE 0, IntType)
      /\ Compared("<=", l, r) = TypedValue(IF x <= y THEN 1 ELSE 0, IntType)
  BY <1>2, <1>5 DEF Compared
<1>7. (x < y) \in BOOLEAN /\ (x <= y) \in BOOLEAN
  BY DEF InRange
<1>8. QED
  BY <1>6, <1>7, TruthInC

(* A side of an operation and what C reads there: a variable that holds a  *)
(* value of the size of its declared type, or a literal of that size.      *)
Reads(v, env, x, t) ==
  /\ x \in 0 .. Limit(v.size) - 1
  /\ \/ /\ v.space \notin {"Constant", "Memory"} /\ t = UnsignedInt(v.size)
        /\ env[VarName(v)] = [type |-> t, value |-> x]
     \/ v.space = "Constant" /\ v.offset = x /\ t = LiteralType(x)

LEMMA ReadOperand ==
  ASSUME NEW v, v.size \in Nat \ {0}, v.size <= LongSize, NEW env, NEW x, NEW t,
         Reads(v, env, x, t)
  PROVE  /\ EvaluateSide(Operand(v), env) = [type |-> t, value |-> x]
         /\ \A type : EvaluateSide(Cast(type, Operand(v)), env) = TypedValue(x, type)
         /\ t \in PrintedTypes(x, v.size)
<1>1. PICK e : e = Operand(v)
  OBVIOUS
<1>2. CASE v.space = "Constant" /\ v.offset = x /\ t = LiteralType(x)
  <2>1. TypedValue(x, t) = [type |-> t, value |-> x]
    BY <1>2, LiteralKeeps, Zenon DEF Reads
  <2>2. e.expr = "Literal" /\ e.value = x
    BY <1>1, <1>2 DEF Operand, Literal
  <2>3. EvaluateOperand(e, env) = [type |-> t, value |-> x]
    BY <1>2, <2>1, <2>2 DEF EvaluateOperand
  <2>4. EvaluateSide(e, env) = [type |-> t, value |-> x]
    BY <2>2, <2>3 DEF EvaluateSide
  <2>5. \A type : EvaluateSide(Cast(type, e), env) = TypedValue(x, type)
    BY <2>3 DEF EvaluateSide, Cast
  <2>6. t \in PrintedTypes(x, v.size)
    BY <1>2 DEF PrintedTypes
  <2>7. QED
    BY <1>1, <2>4, <2>5, <2>6
<1>3. CASE /\ v.space \notin {"Constant", "Memory"} /\ t = UnsignedInt(v.size)
           /\ env[VarName(v)] = [type |-> t, value |-> x]
  <2>1. e.expr = "Var" /\ e.name = VarName(v)
    BY <1>1, <1>3 DEF Operand, Var
  <2>2. EvaluateOperand(e, env) = [type |-> t, value |-> x]
    BY <1>3, <2>1 DEF EvaluateOperand
  <2>3. EvaluateSide(e, env) = [type |-> t, value |-> x]
    BY <2>1, <2>2 DEF EvaluateSide
  <2>4. \A type : EvaluateSide(Cast(type, e), env) = TypedValue(x, type)
    BY <2>2 DEF EvaluateSide, Cast
  <2>5. t \in PrintedTypes(x, v.size)
    BY <1>3 DEF PrintedTypes
  <2>6. QED
    BY <1>1, <2>3, <2>4, <2>5
<1>4. QED
  BY <1>2, <1>3 DEF Reads

(* The statement an operation is printed as assigns what the operation     *)
(* means, at every size that C has a type for and whatever the sizes of    *)
(* C's own types: promotion, the types of literals, the common type of     *)
(* mixed operands and the casts of signed comparisons lose nothing that    *)
(* the destination keeps (output-c/src/lib.rs:155-252).  No more than one  *)
(* operand is a literal, as constant propagation leaves it.                *)
THEOREM StatementIsExact ==
  ASSUME NEW op, op.op \in BinaryOps,
         op.lhs.size \in Nat \ {0}, op.rhs.size = op.lhs.size,
         op.lhs.size = StdSize(op.lhs.size), op.lhs.size <= LongSize,
         op.dest.size \in Nat \ {0},
         op.op \in {"IntAdd", "IntSub"} => op.dest.size = op.lhs.size,
         op.lhs.space # "Constant" \/ op.rhs.space # "Constant",
         NEW env, VarName(op.dest) \in DOMAIN env,
         env[VarName(op.dest)].type = UnsignedInt(op.dest.size),
         NEW x, NEW t, Reads(op.lhs, env, x, t), NEW y, NEW u, Reads(op.rhs, env, y, u)
  PROVE  RunStatement(Statement(op, <<>>), env)[VarName(op.dest)].value = Result(op, x, y)
<1>1. PICK size \in Nat \ {0} : size = op.lhs.size /\ size = op.rhs.size
  OBVIOUS
<1>2. PICK name : name = VarName(op.dest)
  OBVIOUS
<1>3. PICK e : e = Expression(op, <<>>)
  OBVIOUS
<1>4. RunStatement(Statement(op, <<>>), env)[name].value =
        Convert(Evaluate(e, env).value, UnsignedInt(op.dest.size))
  <2>1. PICK s : s = Statement(op, <<>>)
    OBVIOUS
  <2>2. s.stmt = "Assign" /\ s.name = name /\ s.value = e
    BY <1>2, <1>3, <2>1 DEF Statement, BinaryOps
  <2>3. RunStatement(s, env) = [env EXCEPT ![name] = TypedValue(Evaluate(e, env).value, @.type)]
    BY <2>2 DEF RunStatement
  <2>4. RunStatement(s, env)[name] = TypedValue(Evaluate(e, env).value, env[name].type)
    BY <1>2, <2>3
  <2>5. QED
    BY <1>2, <2>1, <2>4 DEF TypedValue
<1>5. /\ x \in 0 .. Limit(size) - 1 /\ y \in 0 .. Limit(size) - 1
      /\ t \in PrintedTypes(x, size) /\ u \in PrintedTypes(y, size)
      /\ t = UnsignedInt(size) \/ u = UnsignedInt(size)
  <2>1. t \in PrintedTypes(x, size) /\ u \in PrintedTypes(y, size)
    BY <1>1, ReadOperand
  <2>2. QED
    BY <1>1, <2>1 DEF Reads
<1>6. PICK l, r : l = [type |-> t, value |-> x] /\ r = [type |-> u, value |-> y]
  OBVIOUS
<1>7. Values(op.lhs) = 0 .. Limit(size) - 1 /\ TwoTo[Bits(op.lhs)] = Limit(size)
  BY <1>1 DEF Values, Bits, Limit
<1>8. ASSUME NEW operator, e = Infix(operator, Operand(op.lhs), Operand(op.rhs))
      PROVE  Evaluate(e, env) = IF operator \in {"+", "-"} THEN Arithmetic(operator, l, r)
                                ELSE Compared(operator, l, r)
  <2>1. EvaluateSide(Operand(op.lhs), env) = l /\ EvaluateSide(Operand(op.rhs), env) = r
    BY <1>1, <1>6, ReadOperand
  <2>2. /\ e.expr = "Infix" /\ e.operator = operator
        /\ e.lhs = Operand(op.lhs) /\ e.rhs = Operand(op.rhs)
    BY <1>8 DEF Infix
  <2>3. QED
    BY <2>1, <2>2 DEF Evaluate
<1>9. CASE op.op \in {"IntAdd", "IntSub"}
  <2>1. op.dest.size = size /\ TwoTo[Bits(op.dest)] = Limit(size)
    BY <1>1, <1>9 DEF Bits, Limit
  <2>2. CASE op.op = "IntAdd"
    <3>1. e = Infix("+", Operand(op.lhs), Operand(op.rhs))
      BY <1>3, <2>2 DEF Expression, Operator, BinaryOps
    <3>2. Evaluate(e, env) = Arithmetic("+", l, r)
      BY <1>8, <3>1
    <3>3. Result(op, x, y) = (x + y) % Limit(size)
      BY <2>1, <2>2 DEF Result
    <3>4. QED
      BY <1>1, <1>2, <1>4, <1>5, <1>6, <2>1, <3>2, <3>3, SumsInC
  <2>3. CASE op.op = "IntSub"
    <3>1. e = Infix("-", Operand(op.lhs), Operand(op.rhs))
      BY <1>3, <2>3 DEF Expression, Operator, BinaryOps
    <3>2. Evaluate(e, env) = Arithmetic("-", l, r)
      BY <1>8, <3>1
    <3>3. Result(op, x, y) = (x - y) % Limit(size)
      BY <2>1, <2>3 DEF Result
    <3>4. QED
      BY <1>1, <1>2, <1>4, <1>5, <1>6, <2>1, <3>2, <3>3, SumsInC
  <2>4. QED
    BY <1>9, <2>2, <2>3
<1>10. CASE op.op \in {"IntEqual", "IntNotEqual"}
  <2>1. op.dest.size \in Nat \ {0}
    OBVIOUS
  <2>2. x % Limit(size) = x /\ y % Limit(size) = y
    BY <1>5, LimitType, ModSmall
  <2>3. CASE op.op = "IntEqual"
    <3>1. e = Infix("==", Operand(op.lhs), Operand(op.rhs))
      BY <1>3, <2>3 DEF Expression, Operator, BinaryOps
    <3>2. Evaluate(e, env) = Compared("==", l, r)
      BY <1>8, <3>1
    <3>3. Result(op, x, y) = Truth(x = y)
      BY <1>7, <2>2, <2>3 DEF Result
    <3>4. QED
      BY <1>1, <1>2, <1>4, <1>5, <1>6, <2>1, <3>2, <3>3, EqualityInC
  <2>4. CASE op.op = "IntNotEqual"
    <3>1. e = Infix("!=", Operand(op.lhs), Operand(op.rhs))
      BY <1>3, <2>4 DEF Expression, Operator, BinaryOps
    <3>2. Evaluate(e, env) = Compared("!=", l, r)
      BY <1>8, <3>1
    <3>3. Result(op, x, y) = Truth(x # y)
      BY <1>7, <2>2, <2>4 DEF Result
    <3>4. QED
      BY <1>1, <1>2, <1>4, <1>5, <1>6, <2>1, <3>2, <3>3, EqualityInC
  <2>5. QED
    BY <1>10, <2>3, <2>4
<1>11. CASE op.op \in {"IntSless", "IntSlessEqual"}
  <2>1. op.dest.size \in Nat \ {0}
    OBVIOUS
  <2>2. PICK type : type = SignedInt(size)
    OBVIOUS
  <2>3. SignedType(op.lhs.size) = type
    BY <1>1, <2>2 DEF SignedType, SignedInt
  <2>4. PICK m, n : m = AsInteger(x, Bits(op.lhs)) /\ n = AsInteger(y, Bits(op.lhs))
    OBVIOUS
  <2>5. Bits(op.lhs) = size * ByteBits
    BY <1>1 DEF Bits
  <2>6. /\ Convert(x, type) = m /\ Convert(y, type) = n
        /\ InRange(m, type) /\ InRange(n, type)
    BY <1>5, <2>2, <2>4, <2>5, CastIsInteger
  <2>7. PICK a, b : /\ a = [type |-> type, value |-> m] /\ a = TypedValue(x, type)
                    /\ b = [type |-> type, value |-> n] /\ b = TypedValue(y, type)
    BY <2>6 DEF TypedValue
  <2>8. ASSUME NEW operator \in {"<", "<="},
               e = Infix(operator, Cast(type, Operand(op.lhs)), Cast(type, Operand(op.rhs)))
        PROVE  Evaluate(e, env) = Compared(operator, a, b)
    <3>1. /\ EvaluateSide(Cast(type, Operand(op.lhs)), env) = a
          /\ EvaluateSide(Cast(type, Operand(op.rhs)), env) = b
      BY <1>1, <2>7, ReadOperand
    <3>2. /\ e.expr = "Infix" /\ e.operator = operator
          /\ e.lhs = Cast(type, Operand(op.lhs)) /\ e.rhs = Cast(type, Operand(op.rhs))
      BY <2>8 DEF Infix
    <3>3. QED
      BY <3>1, <3>2 DEF Evaluate
  <2>9. CASE op.op = "IntSless"
    <3>1. e = Infix("<", Cast(type, Operand(op.lhs)), Cast(type, Operand(op.rhs)))
      BY <1>3, <2>3, <2>9 DEF Expression, Operator
    <3>2. Evaluate(e, env) = Compared("<", a, b)
      BY <2>8, <3>1
    <3>3. Result(op, x, y) = Truth(m < n)
      BY <2>4, <2>9 DEF Result
    <3>4. QED
      BY <1>1, <1>2, <1>4, <2>1, <2>2, <2>6, <2>7, <3>2, <3>3, SignedInC
  <2>10. CASE op.op = "IntSlessEqual"
    <3>1. e = Infix("<=", Cast(type, Operand(op.lhs)), Cast(type, Operand(op.rhs)))
      BY <1>3, <2>3, <2>10 DEF Expression, Operator
    <3>2. Evaluate(e, env) = Compared("<=", a, b)
      BY <2>8, <3>1
    <3>3. Result(op, x, y) = Truth(m <= n)
      BY <2>4, <2>10 DEF Result
    <3>4. QED
      BY <1>1, <1>2, <1>4, <2>1, <2>2, <2>6, <2>7, <3>2, <3>3, SignedInC
  <2>11. QED
    BY <1>11, <2>9, <2>10
<1>12. QED
  BY <1>2, <1>9, <1>10, <1>11, BinaryCases

-----------------------------------------------------------------------------
(* Operations in turn, and the statements they are printed as.             *)

(* The operations in turn take the Varnodes from r to s.                   *)
Runs(ops, r, s) ==
  \E path :
    /\ DOMAIN path = 0 .. Len(ops) /\ path[0] = r /\ path[Len(ops)] = s
    /\ \A j \in 1 .. Len(ops) : path[j] = Execute(ops[j], path[j - 1], 0)

(* Their statements in turn take the variables of C from e to f.           *)
RunsInC(ops, e, f) ==
  \E path :
    /\ DOMAIN path = 0 .. Len(ops) /\ path[0] = e /\ path[Len(ops)] = f
    /\ \A j \in 1 .. Len(ops) : path[j] = RunStatement(Statement(ops[j], <<>>), path[j - 1])

(* C has a type of the size of the Varnode.                                *)
HasType(v) == v.size \in Nat \ {0} /\ v.size = StdSize(v.size) /\ v.size <= LongSize

(* Each Varnode of vars is a variable of its own, of the type and with a   *)
(* value of its size.                                                      *)
Declares(e, vars) ==
  /\ \A v, w \in vars : VarName(v) = VarName(w) => v = w
  /\ \A v \in vars :
       /\ v.space \notin {"Constant", "Memory"} /\ HasType(v)
       /\ VarName(v) \in DOMAIN e
       /\ \E x \in 0 .. Limit(v.size) - 1 :
            e[VarName(v)] = [type |-> UnsignedInt(v.size), value |-> x]

(* The variables have the values of the Varnodes.                          *)
Mirrors(e, r) ==
  /\ Declares(e, DOMAIN r)
  /\ \A v \in DOMAIN r : r[v] = e[VarName(v)].value

(* One of the variables, or a literal of a size that C has a type for.     *)
Readable(v, vars) ==
  \/ v \in vars
  \/ v.space = "Constant" /\ HasType(v) /\ v.offset \in 0 .. Limit(v.size) - 1

(* The operation transfers control, if a variable says so, or assigns one  *)
(* of the variables from operands of one size, not both of them literals.  *)
Printable(op, vars) ==
  \/ /\ op.op \in {"Branch", "CBranch", "Call", "Return"}
     /\ op.op = "CBranch" => Readable(op.condition, vars)
  \/ /\ op.op = "Copy" /\ op.dest \in vars
     /\ Readable(op.src, vars) /\ op.src.size = op.dest.size
  \/ /\ op.op \in BinaryOps /\ op.dest \in vars
     /\ Readable(op.lhs, vars) /\ Readable(op.rhs, vars) /\ op.rhs.size = op.lhs.size
     /\ op.op \in {"IntAdd", "IntSub"} => op.dest.size = op.lhs.size
     /\ op.lhs.space # "Constant" \/ op.rhs.space # "Constant"

LEMMA ReadsMirrored ==
  ASSUME NEW e, NEW r, Mirrors(e, r), NEW v, Readable(v, DOMAIN r)
  PROVE  HasType(v) /\ \E t : Reads(v, e, Value(v, r), t)
<1>1. CASE v \in DOMAIN r
  <2>1. /\ v.space \notin {"Constant", "Memory"} /\ HasType(v)
        /\ r[v] = e[VarName(v)].value
    BY <1>1 DEF Mirrors, Declares
  <2>2. PICK x \in 0 .. Limit(v.size) - 1 :
          e[VarName(v)] = [type |-> UnsignedInt(v.size), value |-> x]
    BY <1>1 DEF Mirrors, Declares
  <2>3. Value(v, r) = x
    BY <2>1, <2>2 DEF Value
  <2>4. Reads(v, e, x, UnsignedInt(v.size))
    BY <2>1, <2>2, Zenon DEF Reads
  <2>5. QED
    BY <2>1, <2>3, <2>4
<1>2. CASE v.space = "Constant" /\ HasType(v) /\ v.offset \in 0 .. Limit(v.size) - 1
  <2>1. Value(v, r) = v.offset
    BY <1>2 DEF Value
  <2>2. Reads(v, e, v.offset, LiteralType(v.offset))
    BY <1>2, Zenon DEF Reads
  <2>3. QED
    BY <1>2, <2>1, <2>2
<1>3. QED
  BY <1>1, <1>2 DEF Readable

LEMMA DeclaresType ==
  ASSUME NEW e, NEW r, Mirrors(e, r), NEW v \in DOMAIN r
  PROVE  HasType(v) /\ VarName(v) \in DOMAIN e /\ e[VarName(v)].type = UnsignedInt(v.size)
<1>1. HasType(v) /\ VarName(v) \in DOMAIN e
  BY DEF Mirrors, Declares
<1>2. PICK x \in 0 .. Limit(v.size) - 1 :
        e[VarName(v)] = [type |-> UnsignedInt(v.size), value |-> x]
  BY DEF Mirrors, Declares
<1>3. QED
  BY <1>1, <1>2

(* An assignment of the same value keeps the variables at the values of    *)
(* the Varnodes.                                                           *)
LEMMA AssignMirrors ==
  ASSUME NEW e, NEW r, Mirrors(e, r), NEW v \in DOMAIN r, NEW x \in 0 .. Limit(v.size) - 1,
         NEW f, f = [e EXCEPT ![VarName(v)] = [type |-> UnsignedInt(v.size), value |-> x]]
  PROVE  Mirrors(f, [r EXCEPT ![v] = x])
<1>1. PICK s : s = [r EXCEPT ![v] = x]
  OBVIOUS
<1>2. /\ DOMAIN s = DOMAIN r /\ s[v] = x
      /\ \A w \in DOMAIN r : w # v => s[w] = r[w]
  BY <1>1
<1>3. \A w \in DOMAIN r : w # v => VarName(w) # VarName(v)
  BY DEF Mirrors, Declares
<1>4. VarName(v) \in DOMAIN e
  BY DEF Mirrors, Declares
<1>5. PICK name : name = VarName(v)
  OBVIOUS
<1>6. PICK t : t = UnsignedInt(v.size)
  OBVIOUS
<1>7. /\ DOMAIN f = DOMAIN e /\ f[name] = [type |-> t, value |-> x]
      /\ \A other \in DOMAIN e : other # name => f[other] = e[other]
  BY <1>4, <1>5, <1>6
<1>8. ASSUME NEW w \in DOMAIN r
      PROVE  /\ w.space \notin {"Constant", "Memory"} /\ HasType(w) /\ VarName(w) \in DOMAIN f
             /\ \E y \in 0 .. Limit(w.size) - 1 :
                  f[VarName(w)] = [type |-> UnsignedInt(w.size), value |-> y]
             /\ s[w] = f[VarName(w)].value
  <2>1. w.space \notin {"Constant", "Memory"} /\ HasType(w) /\ VarName(w) \in DOMAIN e
    BY DEF Mirrors, Declares
  <2>2. CASE w = v
    <3>1. f[VarName(w)] = [type |-> UnsignedInt(w.size), value |-> x]
      BY <1>5, <1>6, <1>7, <2>2
    <3>2. f[VarName(w)].value = x
      BY <3>1
    <3>3. QED
      BY <1>2, <1>7, <2>1, <2>2, <3>1, <3>2
  <2>3. CASE w # v
    <3>1. f[VarName(w)] = e[VarName(w)] /\ s[w] = r[w]
      BY <1>2, <1>3, <1>5, <1>7, <2>1, <2>3
    <3>2. r[w] = e[VarName(w)].value
      BY DEF Mirrors
    <3>3. \E y \in 0 .. Limit(w.size) - 1 :
            e[VarName(w)] = [type |-> UnsignedInt(w.size), value |-> y]
      BY DEF Mirrors, Declares
    <3>4. QED
      BY <1>7, <2>1, <3>1, <3>2, <3>3
  <2>4. QED
    BY <2>2, <2>3
<1>9. \A u, w \in DOMAIN r : VarName(u) = VarName(w) => u = w
  BY DEF Mirrors, Declares
<1>10. Declares(f, DOMAIN r)
  BY <1>8, <1>9, Zenon DEF Declares
<1>11. QED
  BY <1>1, <1>2, <1>8, <1>10 DEF Mirrors

(* What a binary operation means fits its destination.                     *)
LEMMA ResultFits ==
  ASSUME NEW op, op.op \in BinaryOps, op.dest.size \in Nat \ {0}, NEW x \in Int, NEW y \in Int
  PROVE  Result(op, x, y) \in 0 .. Limit(op.dest.size) - 1
<1>1. PICK l \in Nat \ {0} : l = Limit(op.dest.size) /\ l >= 2
  BY LimitType
<1>2. TwoTo[Bits(op.dest)] = l
  BY <1>1 DEF Limit, Bits
<1>3. \A p : Truth(p) \in 0 .. l - 1
  BY <1>1 DEF Truth
<1>4. (x + y) % l \in 0 .. l - 1 /\ (x - y) % l \in 0 .. l - 1
  BY <1>1
<1>5. CASE op.op = "IntAdd"
  BY <1>1, <1>2, <1>4, <1>5 DEF Result
<1>6. CASE op.op = "IntSub"
  BY <1>1, <1>2, <1>4, <1>6 DEF Result
<1>7. CASE op.op = "IntEqual"
  BY <1>1, <1>3, <1>7 DEF Result
<1>8. CASE op.op = "IntNotEqual"
  BY <1>1, <1>3, <1>8 DEF Result
<1>9. CASE op.op = "IntSless"
  BY <1>1, <1>3, <1>9 DEF Result
<1>10. CASE op.op = "IntSlessEqual"
  BY <1>1, <1>3, <1>10 DEF Result
<1>11. QED
  BY <1>5, <1>6, <1>7, <1>8, <1>9, <1>10, BinaryCases

(* The statement of an operation does to the variables what the operation  *)
(* does to the Varnodes.                                                   *)
LEMMA StatementMirrors ==
  ASSUME NEW op, NEW e, NEW r, Mirrors(e, r), Printable(op, DOMAIN r)
  PROVE  /\ Mirrors(RunStatement(Statement(op, <<>>), e), Execute(op, r, 0))
         /\ DOMAIN Execute(op, r, 0) = DOMAIN r
<1>1. CASE op.op \in {"Branch", "CBranch", "Call", "Return"}
  <2>1. PICK st : st = Statement(op, <<>>)
    OBVIOUS
  <2>2. st.stmt \in {"Goto", "IfGoto", "Call", "Return"}
    BY <1>1, <2>1 DEF Statement, BinaryOps
  <2>3. RunStatement(st, e) = e
    BY <2>2 DEF RunStatement
  <2>4. Execute(op, r, 0) = r
    BY <1>1 DEF Execute, BinaryOps
  <2>5. QED
    BY <2>1, <2>3, <2>4
<1>2. CASE /\ op.op = "Copy" /\ op.dest \in DOMAIN r
           /\ Readable(op.src, DOMAIN r) /\ op.src.size = op.dest.size
  <2>1. PICK t : HasType(op.src) /\ Reads(op.src, e, Value(op.src, r), t)
    BY <1>2, ReadsMirrored
  <2>2. PICK x \in 0 .. Limit(op.dest.size) - 1 : x = Value(op.src, r) /\ Reads(op.src, e, x, t)
    BY <1>2, <2>1 DEF Reads
  <2>3. op.dest.size \in Nat \ {0} /\ op.src.size \in Nat \ {0} /\ op.src.size <= LongSize
    BY <1>2, <2>1 DEF HasType
  <2>4. EvaluateSide(Operand(op.src), e) = [type |-> t, value |-> x]
    BY <2>2, <2>3, ReadOperand
  <2>5. PICK o : o = Operand(op.src)
    OBVIOUS
  <2>6. o.expr # "Infix"
    BY <2>5 DEF Operand, Literal, MemAt, Var
  <2>7. Evaluate(o, e).value = x
    BY <2>4, <2>5, <2>6 DEF Evaluate
  <2>8. PICK st : st = Statement(op, <<>>)
    OBVIOUS
  <2>9. st.stmt = "Assign" /\ st.name = VarName(op.dest) /\ st.value = o
    BY <1>2, <2>5, <2>8 DEF Statement, Expression, BinaryOps
  <2>10. PICK name : name = VarName(op.dest)
    OBVIOUS
  <2>11. e[name].type = UnsignedInt(op.dest.size) /\ name \in DOMAIN e
    BY <1>2, <2>10, DeclaresType
  <2>12. RunStatement(st, e) = [e EXCEPT ![name] = TypedValue(Evaluate(o, e).value, @.type)]
    BY <2>9, <2>10 DEF RunStatement
  <2>13. RunStatement(st, e) = [e EXCEPT ![name] = TypedValue(x, UnsignedInt(op.dest.size))]
    BY <2>7, <2>11, <2>12
  <2>14. TypedValue(x, UnsignedInt(op.dest.size)) = [type |-> UnsignedInt(op.dest.size), value |-> x]
    <3>1. PICK l \in Nat \ {0} : l = Limit(op.dest.size)
      BY <2>3, LimitType
    <3>2. x \in Int /\ 0 <= x /\ x < Limit(op.dest.size)
      BY <2>2, <3>1
    <3>3. InRange(x, UnsignedInt(op.dest.size))
      BY <2>3, <3>2, InRangeIntro
    <3>4. QED
      BY <3>3, TypedValueKeeps
  <2>15. Execute(op, r, 0) = [r EXCEPT ![op.dest] = x]
    BY <1>2, <2>2 DEF Execute, BinaryOps
  <2>16. RunStatement(st, e) =
           [e EXCEPT ![VarName(op.dest)] = [type |-> UnsignedInt(op.dest.size), value |-> x]]
    BY <2>10, <2>13, <2>14
  <2>17. Mirrors(RunStatement(st, e), [r EXCEPT ![op.dest] = x])
    BY <1>2, <2>2, <2>16, AssignMirrors
  <2>18. QED
    BY <2>8, <2>15, <2>17
<1>3. CASE /\ op.op \in BinaryOps /\ op.dest \in DOMAIN r
           /\ Readable(op.lhs, DOMAIN r) /\ Readable(op.rhs, DOMAIN r)
           /\ op.rhs.size = op.lhs.size
           /\ op.op \in {"IntAdd", "IntSub"} => op.dest.size = op.lhs.size
           /\ op.lhs.space # "Constant" \/ op.rhs.space # "Constant"
  <2>1. PICK t, x : HasType(op.lhs) /\ Reads(op.lhs, e, x, t) /\ x = Value(op.lhs, r)
    BY <1>3, ReadsMirrored
  <2>2. PICK u, y : Reads(op.rhs, e, y, u) /\ y = Value(op.rhs, r)
    BY <1>3, ReadsMirrored
  <2>3. PICK name : name = VarName(op.dest)
    OBVIOUS
  <2>4. /\ HasType(op.dest) /\ name \in DOMAIN e
        /\ e[name].type = UnsignedInt(op.dest.size)
    BY <1>3, <2>3, DeclaresType
  <2>5. PICK z : z = Result(op, x, y)
    OBVIOUS
  <2>6. RunStatement(Statement(op, <<>>), e)[name].value = z
    <3>1. /\ op.lhs.size \in Nat \ {0} /\ op.rhs.size = op.lhs.size
          /\ op.lhs.size = StdSize(op.lhs.size) /\ op.lhs.size <= LongSize
          /\ op.dest.size \in Nat \ {0}
      BY <1>3, <2>1, <2>4 DEF HasType
    <3>2. /\ VarName(op.dest) \in DOMAIN e
          /\ e[VarName(op.dest)].type = UnsignedInt(op.dest.size)
      BY <2>3, <2>4
    <3>3. RunStatement(Statement(op, <<>>), e)[VarName(op.dest)].value = Result(op, x, y)
      BY <1>3, <2>1, <2>2, <3>1, <3>2, StatementIsExact, Zenon
    <3>4. QED
      BY <2>3, <2>5, <3>3
  <2>7. z \in 0 .. Limit(op.dest.size) - 1
    <3>1. x \in Int /\ y \in Int /\ op.dest.size \in Nat \ {0}
      BY <2>1, <2>2, <2>4 DEF Reads, HasType
    <3>2. QED
      BY <1>3, <2>5, <3>1, ResultFits
  <2>8. PICK st : st = Statement(op, <<>>)
    OBVIOUS
  <2>9. st.stmt = "Assign" /\ st.name = name
    BY <1>3, <2>3, <2>8 DEF Statement, BinaryOps
  <2>10. PICK n : n = Evaluate(st.value, e).value
    OBVIOUS
  <2>11. RunStatement(st, e) = [e EXCEPT ![name] = TypedValue(n, @.type)]
    BY <2>9, <2>10 DEF RunStatement
  <2>12. TypedValue(n, UnsignedInt(op.dest.size)) = [type |-> UnsignedInt(op.dest.size), value |-> z]
    <3>1. PICK type : type = UnsignedInt(op.dest.size)
      OBVIOUS
    <3>2. RunStatement(st, e)[name] = TypedValue(n, type)
      BY <2>4, <2>11, <3>1
    <3>3. TypedValue(n, type).value = z
      BY <2>6, <2>8, <3>2
    <3>4. TypedValue(n, type) = [type |-> type, value |-> Convert(n, type)]
      BY DEF TypedValue
    <3>5. QED
      BY <3>1, <3>3, <3>4
  <2>13. RunStatement(st, e) =
           [e EXCEPT ![VarName(op.dest)] = [type |-> UnsignedInt(op.dest.size), value |-> z]]
    BY <2>3, <2>4, <2>11, <2>12
  <2>14. Execute(op, r, 0) = [r EXCEPT ![op.dest] = z]
    BY <1>3, <2>1, <2>2, <2>5 DEF Execute, BinaryOps
  <2>15. Mirrors(RunStatement(st, e), [r EXCEPT ![op.dest] = z])
    BY <1>3, <2>7, <2>13, AssignMirrors
  <2>16. QED
    BY <2>8, <2>14, <2>15
<1>4. QED
  BY <1>1, <1>2, <1>3 DEF Printable

(* The statements of a sequence of operations, one after the other, do to  *)
(* the variables what the operations do to the Varnodes.                   *)
THEOREM StatementsAreExact ==
  ASSUME NEW ops, Len(ops) \in Nat, NEW r, \A j \in 1 .. Len(ops) : Printable(ops[j], DOMAIN r),
         NEW s, Runs(ops, r, s), NEW e, Mirrors(e, r)
  PROVE  \E f : RunsInC(ops, e, f) /\ Mirrors(f, s) /\ DOMAIN s = DOMAIN r
<1>1. PICK path :
        /\ DOMAIN path = 0 .. Len(ops) /\ path[0] = r /\ path[Len(ops)] = s
        /\ \A j \in 1 .. Len(ops) : path[j] = Execute(ops[j], path[j - 1], 0)
  BY DEF Runs
<1> DEFINE Follows(p, n) ==
             /\ DOMAIN p = 0 .. n /\ p[0] = e
             /\ \A j \in 1 .. n : p[j] = RunStatement(Statement(ops[j], <<>>), p[j - 1])
           T == {n \in Nat : n <= Len(ops) =>
                   /\ DOMAIN path[n] = DOMAIN r
                   /\ \E p : Follows(p, n) /\ Mirrors(p[n], path[n])}
<1>2. 0 \in T
  <2>1. PICK p : p = [j \in 0 .. 0 |-> e]
    OBVIOUS
  <2>2. DOMAIN p = 0 .. 0 /\ p[0] = e /\ 1 .. 0 = {}
    BY <2>1
  <2>3. Follows(p, 0)
    BY <2>2
  <2>4. QED
    BY <1>1, <2>2, <2>3
<1>3. ASSUME NEW n \in Nat, n \in T PROVE n + 1 \in T
  <2> SUFFICES ASSUME n + 1 <= Len(ops)
               PROVE  /\ DOMAIN path[n + 1] = DOMAIN r
                      /\ \E p : Follows(p, n + 1) /\ Mirrors(p[n + 1], path[n + 1])
    OBVIOUS
  <2>1. n <= Len(ops) /\ n + 1 \in 1 .. Len(ops) /\ (n + 1) - 1 = n
    OBVIOUS
  <2>2. PICK p : DOMAIN path[n] = DOMAIN r /\ Follows(p, n) /\ Mirrors(p[n], path[n])
    BY <1>3, <2>1
  <2>3. PICK o : o = ops[n + 1] /\ Printable(o, DOMAIN path[n])
    BY <2>1, <2>2
  <2>4. path[n + 1] = Execute(o, path[n], 0)
    BY <1>1, <2>1, <2>3
  <2>5. PICK g : g = RunStatement(Statement(o, <<>>), p[n])
    OBVIOUS
  <2>6. Mirrors(g, path[n + 1]) /\ DOMAIN path[n + 1] = DOMAIN r
    BY <2>2, <2>3, <2>4, <2>5, StatementMirrors
  <2>7. PICK q : q = [j \in 0 .. n + 1 |-> IF j = n + 1 THEN g ELSE p[j]]
    OBVIOUS
  <2>8. /\ DOMAIN q = 0 .. n + 1 /\ q[n + 1] = g
        /\ \A j \in 0 .. n : q[j] = p[j]
    BY <2>7
  <2>9. q[0] = e
    BY <2>2, <2>8
  <2>10. ASSUME NEW j \in 1 .. n + 1
         PROVE  q[j] = RunStatement(Statement(ops[j], <<>>), q[j - 1])
    <3>1. CASE j = n + 1
      <4>1. j - 1 = n /\ q[n] = p[n]
        BY <2>8, <3>1
      <4>2. QED
        BY <2>3, <2>5, <2>8, <3>1, <4>1
    <3>2. CASE j # n + 1
      <4>1. j \in 1 .. n /\ j \in 0 .. n /\ j - 1 \in 0 .. n
        BY <3>2
      <4>2. q[j] = p[j] /\ q[j - 1] = p[j - 1]
        BY <2>8, <4>1
      <4>3. p[j] = RunStatement(Statement(ops[j], <<>>), p[j - 1])
        BY <2>2, <4>1
      <4>4. QED
        BY <4>2, <4>3
    <3>3. QED
      BY <3>1, <3>2
  <2>11. Follows(q, n + 1)
    BY <2>8, <2>9, <2>10
  <2>12. QED
    BY <2>6, <2>8, <2>11
<1>4. Len(ops) \in T
  <2> HIDE DEF T
  <2>1. Nat \subseteq T
    BY <1>2, <1>3, Induction
  <2>2. QED
    BY <2>1
<1>5. PICK p : Follows(p, Len(ops)) /\ Mirrors(p[Len(ops)], path[Len(ops)])
  BY <1>4
<1>6. DOMAIN path[Len(ops)] = DOMAIN r
  BY <1>4
<1>7. RunsInC(ops, e, p[Len(ops)])
  BY <1>5 DEF RunsInC
<1>8. QED
  BY <1>1, <1>5, <1>6, <1>7

=============================================================================
