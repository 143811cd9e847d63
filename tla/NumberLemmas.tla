------------------------------ MODULE NumberLemmas ------------------------------
(***************************************************************************)
(* What the proofs of several components need of the natural numbers:      *)
(* bounds of a division, least elements, the sum of a function over a      *)
(* finite set, which is a number, covers each value and follows a change   *)
(* of one value, and the walk back through a ring of entries.  A change is *)
(* stated with two functions that agree elsewhere, so that it serves for a *)
(* variable and its next value as well as for definitions.                 *)
(***************************************************************************)
EXTENDS Totals, Integers, FiniteSetTheorems, WellFoundedInduction, TLAPS

-----------------------------------------------------------------------------
(* Division, multiplication and order, which the solvers need help with.    *)

LEMMA DivBound ==
  ASSUME NEW a \in Nat, NEW d \in Nat \ {0}
  PROVE  /\ a \div d \in Nat
         /\ d * (a \div d) <= a
         /\ a < d * (a \div d) + d
OBVIOUS

LEMMA MulMono ==
  ASSUME NEW a \in Nat, NEW b \in Nat, NEW d \in Nat, a <= b
  PROVE  d * a <= d * b
OBVIOUS

LEMMA MulStrict ==
  ASSUME NEW a \in Nat, NEW b \in Nat, NEW d \in Nat, a + 1 <= b
  PROVE  d * a + d <= d * b
<1>1. d * (a + 1) <= d * b
  BY MulMono
<1>. QED
  BY <1>1

LEMMA DivMono ==
  ASSUME NEW a \in Nat, NEW b \in Nat, NEW d \in Nat \ {0}, a <= b
  PROVE  a \div d <= b \div d
<1>. DEFINE p == a \div d
            q == b \div d
<1>1. p \in Nat /\ q \in Nat /\ d * p <= a /\ b < d * q + d
  BY DivBound
<1>2. CASE q + 1 <= p
  <2>1. d * q + d <= d * p
    BY <1>1, <1>2, MulStrict
  <2>. QED
    BY <1>1, <2>1
<1>. QED
  BY <1>1, <1>2

LEMMA ModSmall ==
  ASSUME NEW a \in Nat, NEW m \in Nat \ {0}, a < m
  PROVE  a % m = a
OBVIOUS

(***************************************************************************)
(* A non-empty set of naturals has a least element.                        *)
(***************************************************************************)
LEMMA NatMin ==
  ASSUME NEW S, S \subseteq Nat, S # {}
  PROVE  \E x \in S : \A y \in S : x <= y
<1> DEFINE Less == {ss \in Nat \X Nat : ss[1] < ss[2]}
<1>1. IsWellFoundedOn(Less, Nat)
  BY NatLessThanWellFounded, Zenon DEF OpToRel
<1>2. ASSUME NEW x \in Nat, NEW y \in Nat, <<y, x>> \notin Less
      PROVE  x <= y
  <2>1. CASE y < x
    <3>1. <<y, x>> \in Nat \X Nat
      OBVIOUS
    <3>2. <<y, x>>[1] < <<y, x>>[2]
      BY <2>1
    <3>. QED
      BY <3>1, <3>2, <1>2
  <2>. QED
    BY <2>1
<1>. HIDE DEF Less
<1>3. \E x \in S : \A y \in S : <<y, x>> \notin Less
  BY <1>1, WFMin
<1>. QED
  BY <1>2, <1>3

-----------------------------------------------------------------------------
(* Sums.                                                                   *)

LEMMA Unit ==
  ASSUME NEW f, NEW S, NEW u
  PROVE  u \in Units(f, S) <=> \E k \in S : \E n \in 1..f[k] : u = <<k, n>>
BY DEF Units

LEMMA IntervalSize ==
  ASSUME NEW a \in Nat, NEW b \in Nat
  PROVE  IsFiniteSet((a + 1)..(a + b)) /\ Cardinality((a + 1)..(a + b)) = b
<1>1. a + 1 \in Int /\ a + b \in Int
  OBVIOUS
<1>. QED
  BY <1>1, FS_Interval

LEMMA Block ==
  ASSUME NEW k, NEW I, IsFiniteSet(I)
  PROVE  IsFiniteSet({k} \X I) /\ Cardinality({k} \X I) = Cardinality(I)
<1>1. IsFiniteSet({k}) /\ Cardinality({k}) = 1
  BY FS_Singleton
<1>2. IsFiniteSet({k} \X I) /\ Cardinality({k} \X I) = 1 * Cardinality(I)
  BY <1>1, FS_Product
<1>. QED
  BY <1>2, FS_CardinalityType

(***************************************************************************)
(* The units are finitely many: a sum is a number.                         *)
(***************************************************************************)
LEMMA TotalType ==
  ASSUME NEW S, IsFiniteSet(S), NEW f, \A k \in S : f[k] \in Nat
  PROVE  IsFiniteSet(Units(f, S)) /\ Total(f, S) \in Nat
<1>. DEFINE block == [k \in S |-> {k} \X (1..f[k])]
            Blocks == {{k} \X (1..f[k]) : k \in S}
<1>1. block \in Surjection(S, Blocks)
  BY DEF Surjection
<1>2. IsFiniteSet(Blocks)
  BY <1>1, FS_Surjection
<1>3. ASSUME NEW k \in S
      PROVE  IsFiniteSet({k} \X (1..f[k]))
  <2>1. IsFiniteSet(1..f[k])
    BY FS_Interval
  <2>. QED
    BY <2>1, Block
<1>4. IsFiniteSet(UNION Blocks)
  BY <1>2, <1>3, FS_UNION
<1>. QED
  BY <1>4, FS_CardinalityType DEF Units, Total

LEMMA TotalSame ==
  ASSUME NEW S, NEW f, NEW g, \A k \in S : f[k] = g[k]
  PROVE  Total(f, S) = Total(g, S)
<1>1. Units(f, S) = Units(g, S)
  BY DEF Units
<1>. QED
  BY <1>1 DEF Total

(***************************************************************************)
(* One value grows by a; read from g to f, it shrinks.                     *)
(***************************************************************************)
LEMMA TotalAdd ==
  ASSUME NEW S, IsFiniteSet(S), NEW f, \A k \in S : f[k] \in Nat,
         NEW c \in S, NEW a \in Nat,
         NEW g, g[c] = f[c] + a, \A k \in S \ {c} : g[k] = f[k]
  PROVE  Total(g, S) = Total(f, S) + a
<1>. DEFINE v == f[c]
            B == {c} \X ((v + 1)..(v + a))
<1>1. v \in Nat
  OBVIOUS
<1>2. IsFiniteSet(B) /\ Cardinality(B) = a
  <2>. HIDE DEF v
  <2>1. IsFiniteSet((v + 1)..(v + a)) /\ Cardinality((v + 1)..(v + a)) = a
    BY <1>1, IntervalSize
  <2>. QED
    BY <2>1, Block
<1>3. Units(g, S) = Units(f, S) \cup B
  <2>1. ASSUME NEW k \in S, NEW n
        PROVE  n \in 1..g[k] <=> n \in 1..f[k] \/ (k = c /\ n \in (v + 1)..(v + a))
    BY <1>1
  <2>. HIDE DEF v
  <2>2. ASSUME NEW u
        PROVE  u \in Units(g, S) <=> u \in Units(f, S) \/ u \in B
    BY <2>1, Unit
  <2>. QED
    BY <2>2
<1>4. Units(f, S) \cap B = {}
  <2>1. ASSUME NEW u \in Units(f, S), u \in B
        PROVE  FALSE
    <3>0. PICK k \in S : \E n \in 1..f[k] : u = <<k, n>>
      BY Unit
    <3>1. PICK n \in 1..f[k] : u = <<k, n>>
      BY <3>0
    <3>2. k = c /\ n \in (v + 1)..(v + a)
      BY <2>1, <3>1
    <3>. QED
      BY <1>1, <3>1, <3>2
  <2>. QED
    BY <2>1
<1>5. IsFiniteSet(Units(f, S)) /\ Cardinality(Units(f, S)) \in Nat
  BY TotalType DEF Total
<1>. HIDE DEF B
<1>6. Cardinality(Units(f, S) \cap B) = 0
  BY <1>4, FS_EmptySet
<1>7. Cardinality(Units(f, S) \cup B) = Cardinality(Units(f, S)) + a
  BY <1>2, <1>5, <1>6, FS_Union
<1>. QED
  BY <1>3, <1>7 DEF Total

LEMMA TotalZero ==
  ASSUME NEW S, NEW f, \A k \in S : f[k] = 0
  PROVE  Total(f, S) = 0
<1>1. Units(f, S) = {}
  BY DEF Units
<1>. QED
  BY <1>1, FS_EmptySet DEF Total

LEMMA TotalCovers ==
  ASSUME NEW S, IsFiniteSet(S), NEW f, \A k \in S : f[k] \in Nat, NEW c \in S
  PROVE  f[c] <= Total(f, S)
<1>. DEFINE g == [k \in S |-> IF k = c THEN 0 ELSE f[k]]
<1>1. Total(g, S) \in Nat
  BY TotalType
<1>2. Total(f, S) = Total(g, S) + f[c]
  <2>1. /\ \A k \in S : g[k] \in Nat
        /\ f[c] = g[c] + f[c]
        /\ \A k \in S \ {c} : f[k] = g[k]
    OBVIOUS
  <2>. HIDE DEF g
  <2>. QED
    BY <2>1, TotalAdd
<1>. QED
  BY <1>1, <1>2

(***************************************************************************)
(* The set grows by one element.                                           *)
(***************************************************************************)
LEMMA TotalInsert ==
  ASSUME NEW S, IsFiniteSet(S), NEW c, c \notin S,
         NEW f, \A k \in S \cup {c} : f[k] \in Nat
  PROVE  Total(f, S \cup {c}) = Total(f, S) + f[c]
<1>. DEFINE T == S \cup {c}
            g == [k \in T |-> IF k = c THEN 0 ELSE f[k]]
<1>1. IsFiniteSet(T)
  BY FS_AddElement
<1>2. Total(f, T) = Total(g, T) + f[c]
  <2>1. /\ c \in T /\ f[c] \in Nat
        /\ \A k \in T : g[k] \in Nat
        /\ f[c] = g[c] + f[c]
        /\ \A k \in T \ {c} : f[k] = g[k]
    OBVIOUS
  <2>. HIDE DEF g, T
  <2>. QED
    BY <1>1, <2>1, TotalAdd
<1>3. Units(g, T) = Units(f, S)
  <2>1. ASSUME NEW k \in T, NEW n
        PROVE  n \in 1..g[k] <=> k \in S /\ n \in 1..f[k]
    OBVIOUS
  <2>2. S \subseteq T
    OBVIOUS
  <2>. HIDE DEF g, T
  <2>3. ASSUME NEW u
        PROVE  u \in Units(g, T) <=> u \in Units(f, S)
    BY <2>1, <2>2, Unit
  <2>. QED
    BY <2>3
<1>. QED
  BY <1>2, <1>3 DEF Total

-----------------------------------------------------------------------------
(* A ring of n slots, walked back from the slot before index: the steps    *)
(* that find an entry at or before a target, and the count of the first.   *)
(* These are Hits and get_checker_count_for_period of BmbState with its    *)
(* variables as parameters, for the modules that instantiate it.           *)

RingSlot(n, index, i) == IF index >= i THEN index - i ELSE n + index - i

RingHits(n, data, index, empty, target) ==
    {i \in 0..(n - 1) : /\ data[RingSlot(n, index, i)] # empty
                        /\ data[RingSlot(n, index, i)].period <= target}

RingCount(n, data, index, empty, none, target) ==
    IF RingHits(n, data, index, empty, target) = {}
    THEN none
    ELSE LET first == CHOOSE i \in RingHits(n, data, index, empty, target) :
                         \A j \in RingHits(n, data, index, empty, target) : i <= j
         IN  data[RingSlot(n, index, first)].count

LEMMA LeastIsUnique ==
  ASSUME NEW S, S \subseteq Nat, NEW m \in S, \A j \in S : m <= j
  PROVE  (CHOOSE i \in S : \A j \in S : i <= j) = m
<1>. DEFINE x == CHOOSE i \in S : \A j \in S : i <= j
<1>1. x \in S /\ \A j \in S : x <= j
  OBVIOUS
<1>. HIDE DEF x
<1>2. x = m
  BY <1>1
<1>. QED
  BY <1>2 DEF x

LEMMA RingCountType ==
  ASSUME NEW n \in Nat \ {0}, NEW index \in 0..(n - 1), NEW data, NEW empty, NEW none, NEW t,
         NEW C, \A s \in 0..(n - 1) : data[s] # empty => data[s].count \in C
  PROVE  RingCount(n, data, index, empty, none, t) \in C \cup {none}
<1>. DEFINE H == RingHits(n, data, index, empty, t)
<1>1. ASSUME NEW i \in H
      PROVE  i \in Nat /\ data[RingSlot(n, index, i)].count \in C
  <2>1. i \in 0..(n - 1) /\ data[RingSlot(n, index, i)] # empty
    BY DEF RingHits
  <2>2. RingSlot(n, index, i) \in 0..(n - 1)
    BY <2>1 DEF RingSlot
  <2>. QED
    BY <2>1, <2>2
<1>2. CASE H = {}
  BY <1>2 DEF RingCount
<1>3. CASE H # {}
  <2>. DEFINE first == CHOOSE i \in H : \A j \in H : i <= j
  <2>. HIDE DEF H
  <2>1. \E i \in H : \A j \in H : i <= j
    BY <1>1, <1>3, NatMin
  <2>2. first \in H
    BY <2>1
  <2>3. RingCount(n, data, index, empty, none, t) = data[RingSlot(n, index, first)].count
    BY <1>3 DEF RingCount, H
  <2>. HIDE DEF first
  <2>. QED
    BY <1>1, <2>2, <2>3
<1>. QED
  BY <1>2, <1>3

(***************************************************************************)
(* In the first round an entry for a day after t keeps the count of t: the *)
(* walk finds the same entries one step later.                             *)
(***************************************************************************)
LEMMA RingCountFixed ==
  ASSUME NEW n \in Nat, NEW k \in Nat, k + 1 < n, NEW t \in Nat,
         NEW data, NEW data2, NEW empty, NEW none,
         \A s \in 0..(n - 1) : data[s] # empty <=> s < k,
         data2[k] # empty, data2[k].period \in Nat, data2[k].period > t,
         \A s \in 0..(n - 1) : s # k => data2[s] = data[s]
  PROVE  RingCount(n, data2, k + 1, empty, none, t) = RingCount(n, data, k, empty, none, t)
<1>. DEFINE H == RingHits(n, data, k, empty, t)
            G == RingHits(n, data2, k + 1, empty, t)
<1>1. ASSUME NEW i \in 0..(n - 1)
      PROVE  i \in H <=> i >= 1 /\ i <= k /\ data[k - i].period <= t
  <2>. DEFINE s == RingSlot(n, k, i)
  <2>1. s = IF i <= k THEN k - i ELSE n + k - i
    BY DEF RingSlot
  <2>2. i \in H <=> data[s] # empty /\ data[s].period <= t
    BY DEF RingHits
  <2>. HIDE DEF s, H
  <2>3. s \in 0..(n - 1)
    BY <2>1
  <2>4. s < k <=> i >= 1 /\ i <= k
    BY <2>1
  <2>5. i <= k => s = k - i
    BY <2>1
  <2>. QED
    BY <2>2, <2>3, <2>4, <2>5
<1>2. ASSUME NEW i \in 0..(n - 1)
      PROVE  i \in G <=> i >= 2 /\ i <= k + 1 /\ data[k + 1 - i].period <= t
  <2>. DEFINE s == RingSlot(n, k + 1, i)
  <2>1. s = IF i <= k + 1 THEN k + 1 - i ELSE n + (k + 1) - i
    BY DEF RingSlot
  <2>2. i \in G <=> data2[s] # empty /\ data2[s].period <= t
    BY DEF RingHits
  <2>. HIDE DEF s, G
  <2>3. s \in 0..(n - 1)
    BY <2>1
  <2>4. CASE i = 1
    <3>1. s = k
      BY <2>1, <2>4
    <3>. QED
      BY <2>2, <2>4, <3>1
  <2>5. CASE i # 1
    <3>1. s # k /\ (s < k <=> i >= 2 /\ i <= k + 1)
      BY <2>1, <2>5
    <3>2. data2[s] = data[s]
      BY <2>3, <3>1
    <3>3. i <= k + 1 => s = k + 1 - i
      BY <2>1
    <3>. QED
      BY <2>2, <2>3, <3>1, <3>2, <3>3
  <2>. QED
    BY <2>4, <2>5
<1>3. H \subseteq 0..(n - 1) /\ G \subseteq 0..(n - 1)
  BY DEF RingHits
<1>. HIDE DEF H, G
<1>4. ASSUME NEW i \in H
      PROVE  i \in Nat /\ i >= 1 /\ i <= k /\ i + 1 \in G
  <2>1. i \in 0..(n - 1) /\ i >= 1 /\ i <= k /\ data[k - i].period <= t
    BY <1>1, <1>3
  <2>2. i + 1 \in 0..(n - 1) /\ i + 1 >= 2 /\ i + 1 <= k + 1 /\ k + 1 - (i + 1) = k - i
    BY <2>1
  <2>3. i + 1 \in G
    BY <1>2, <2>1, <2>2
  <2>. QED
    BY <2>1, <2>3
<1>5. ASSUME NEW i \in G
      PROVE  i \in Nat /\ i >= 2 /\ i - 1 \in H
  <2>1. i \in 0..(n - 1) /\ i >= 2 /\ i <= k + 1 /\ data[k + 1 - i].period <= t
    BY <1>2, <1>3
  <2>2. i - 1 \in 0..(n - 1) /\ i - 1 >= 1 /\ i - 1 <= k /\ k - (i - 1) = k + 1 - i
    BY <2>1
  <2>3. i - 1 \in H
    BY <1>1, <2>1, <2>2
  <2>. QED
    BY <2>1, <2>3
<1>6. CASE H = {}
  <2>1. G = {}
    BY <1>5, <1>6
  <2>. QED
    BY <2>1, <1>6 DEF RingCount, H, G
<1>7. CASE H # {}
  <2>0. H \subseteq Nat /\ G \subseteq Nat
    BY <1>4, <1>5
  <2>1. PICK m \in H : \A j \in H : m <= j
    BY <2>0, <1>7, NatMin
  <2>2. m + 1 \in G /\ \A j \in G : m + 1 <= j
    BY <1>4, <1>5, <2>1
  <2>. DEFINE first == CHOOSE i \in H : \A j \in H : i <= j
              next  == CHOOSE i \in G : \A j \in G : i <= j
  <2>3. first = m
    BY <2>0, <2>1, LeastIsUnique
  <2>4. next = m + 1
    <3>1. \A i \in G : (\A j \in G : i <= j) => next = i
      BY <2>0, LeastIsUnique
    <3>. HIDE DEF next
    <3>. QED
      BY <2>2, <3>1
  <2>5. RingCount(n, data, k, empty, none, t) = data[RingSlot(n, k, first)].count
    BY <1>7 DEF RingCount, H
  <2>6. RingCount(n, data2, k + 1, empty, none, t) = data2[RingSlot(n, k + 1, next)].count
    BY <2>2 DEF RingCount, G
  <2>. HIDE DEF first, next
  <2>7. m \in Nat /\ m >= 1 /\ m <= k
    BY <1>4, <2>1
  <2>8. RingSlot(n, k, m) = k - m /\ RingSlot(n, k + 1, m + 1) = k - m
    BY <2>7 DEF RingSlot
  <2>9. data2[k - m] = data[k - m]
    <3>1. k - m \in 0..(n - 1) /\ k - m # k
      BY <2>7
    <3>. QED
      BY <3>1
  <2>. QED
    BY <2>3, <2>4, <2>5, <2>6, <2>8, <2>9
<1>. QED
  BY <1>6, <1>7
=============================================================================
