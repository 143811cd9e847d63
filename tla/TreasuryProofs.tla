---------------------------- MODULE TreasuryProofs ----------------------------
(***************************************************************************)
(* Proofs about Treasury, for every set of owners, lock duration, supply   *)
(* and set of reward amounts: the commitment counter is exact, the         *)
(* treasury can pay every lock, waiting never costs an owner anything, and *)
(* the treasury implements RewardVault.                                    *)
(*                                                                         *)
(* Solvency alone is not inductive: an unlock subtracts the total of an    *)
(* account from locked_balance with saturation, and only because the       *)
(* counter is exactly the sum of the open accounts does the subtraction    *)
(* never saturate.  The sum is the number of committed units, so that it   *)
(* can be reasoned about with the cardinality of finite sets.              *)
(***************************************************************************)
EXTENDS Treasury, NumberLemmas

-----------------------------------------------------------------------------
(* Arithmetic.                                                             *)

LEMMA SupplyFits == Supply \in Nat /\ U64 \in Nat \ {0} /\ Supply < U64
BY TreasuryAssumption, ProductFits

LEMMA SatSubType ==
  ASSUME NEW a \in Nat, NEW b \in Nat
  PROVE  SatSub(a, b) \in Nat /\ SatSub(a, b) <= a
BY DEF SatSub

(***************************************************************************)
(* The penalty rate lies between 0 and 90 %, never rises with time, and is *)
(* 0 from the unlock day on.                                               *)
(***************************************************************************)
LEMMA RateBounds ==
  ASSUME NEW l \in Nat, NEW at \in Nat
  PROVE  /\ calculate_penalty_rate(l, at) \in Nat
         /\ calculate_penalty_rate(l, at) <= 9000
         /\ at >= unlock_period(l) => calculate_penalty_rate(l, at) = 0
         /\ \A later \in Nat : at <= later =>
               calculate_penalty_rate(l, later) <= calculate_penalty_rate(l, at)
<1>. DEFINE u   == unlock_period(l)
            dur == SatSub(u, l)
            rem(p) == IF SatSub(u, p) < dur THEN SatSub(u, p) ELSE dur
<1>1. u \in Nat
  BY TreasuryAssumption DEF unlock_period
<1>. HIDE DEF u
<1>2. dur \in Nat
  BY <1>1, SatSubType
<1>3. ASSUME NEW p \in Nat
      PROVE  rem(p) \in Nat /\ rem(p) <= dur /\ (p >= u => rem(p) = 0)
  BY <1>1 DEF SatSub
<1>4. ASSUME NEW later \in Nat, at <= later
      PROVE  rem(later) <= rem(at)
  BY <1>1, <1>4 DEF SatSub
<1>. HIDE DEF dur, rem
<1>5. ASSUME NEW p \in Nat
      PROVE  calculate_penalty_rate(l, p) = IF dur = 0 THEN 0 ELSE (9000 * rem(p)) \div dur
  BY DEF calculate_penalty_rate, dur, rem, u
<1>6. CASE dur = 0
  BY <1>5, <1>6
<1>7. CASE dur # 0
  <2>. DEFINE rate(p) == (9000 * rem(p)) \div dur
  <2>1. ASSUME NEW p \in Nat
        PROVE  rate(p) \in Nat /\ rate(p) <= 9000
    <3>1. 9000 * rem(p) \in Nat /\ 9000 * rem(p) <= 9000 * dur
      BY <1>2, <1>3
    <3>2. rate(p) \in Nat /\ dur * rate(p) <= 9000 * rem(p)
      BY <1>2, <1>7, <3>1, DivBound
    <3>. HIDE DEF rate
    <3>3. ASSUME 9001 <= rate(p)
          PROVE  FALSE
      <4>1. dur * 9000 + dur <= dur * rate(p)
        BY <1>2, <3>2, <3>3, MulStrict
      <4>. QED
        BY <1>2, <1>7, <3>1, <3>2, <4>1
    <3>. QED
      BY <3>2, <3>3
  <2>2. at >= u => rate(at) = 0
    BY <1>2, <1>3, <1>7
  <2>3. ASSUME NEW later \in Nat, at <= later
        PROVE  rate(later) <= rate(at)
    <3>1. /\ 9000 * rem(later) \in Nat
          /\ 9000 * rem(at) \in Nat
          /\ 9000 * rem(later) <= 9000 * rem(at)
      BY <1>3, <1>4, <2>3
    <3>. QED
      BY <1>2, <1>7, <3>1, DivMono
  <2>4. \A p \in Nat : calculate_penalty_rate(l, p) = rate(p)
    BY <1>5, <1>7
  <2>. HIDE DEF rate
  <2>5. calculate_penalty_rate(l, at) \in Nat /\ calculate_penalty_rate(l, at) <= 9000
    BY <2>1, <2>4
  <2>6. at >= unlock_period(l) => calculate_penalty_rate(l, at) = 0
    BY <2>2, <2>4 DEF u
  <2>7. \A later \in Nat : at <= later =>
           calculate_penalty_rate(l, later) <= calculate_penalty_rate(l, at)
    BY <2>3, <2>4
  <2>. QED
    BY <2>5, <2>6, <2>7
<1>. QED
  BY <1>6, <1>7

(***************************************************************************)
(* A payout lies between a tenth of the account and all of it, never falls *)
(* with time, and is all of it from the unlock day on.                     *)
(***************************************************************************)
LEMMA Penalty ==
  ASSUME TypeOK, NEW k \in Locks, NEW at \in Nat
  PROVE  LET r == calculate_penalty_rate(k[2], at)
         IN  /\ k[2] \in Nat
             /\ total_locked[k] \in Nat
             /\ total_locked[k] * r \in Nat
             /\ total_locked[k] * r <= 9000 * total_locked[k]
             /\ penalty_amount(k, at) = (total_locked[k] * r) \div 10000
<1>. DEFINE r == calculate_penalty_rate(k[2], at)
            t == total_locked[k]
<1>1. k[2] \in Nat /\ t \in Nat /\ t <= Supply
  BY TreasuryAssumption DEF TypeOK, Locks, Periods
<1>2. r \in Nat /\ r <= 9000
  <2>. DEFINE l == k[2]
  <2>1. l \in Nat
    BY <1>1
  <2>. HIDE DEF l
  <2>2. calculate_penalty_rate(l, at) \in Nat /\ calculate_penalty_rate(l, at) <= 9000
    BY <2>1, RateBounds
  <2>. QED
    BY <2>2 DEF l
<1>. HIDE DEF r, t
<1>3. t * r \in Nat /\ t * r <= t * 9000
  BY <1>1, <1>2, MulMono
<1>4. 9000 * t <= 9000 * Supply
  BY <1>1, SupplyFits, MulMono
<1>5. t * r < U64
  BY <1>1, <1>3, <1>4, SupplyFits, ProductFits
<1>6. (t * r) % U64 = t * r
  BY <1>3, <1>5, SupplyFits, ModSmall
<1>7. penalty_amount(k, at) = (t * r) \div 10000
  BY <1>6 DEF penalty_amount, r, t
<1>. QED
  BY <1>1, <1>3, <1>7 DEF r, t

LEMMA PayoutBounds ==
  ASSUME TypeOK, NEW k \in Locks, NEW at \in Nat
  PROVE  /\ payout_amount(k, at) \in Nat
         /\ payout_amount(k, at) <= total_locked[k]
         /\ 10 * payout_amount(k, at) >= total_locked[k]
         /\ at >= unlock_period(k[2]) => payout_amount(k, at) = total_locked[k]
         /\ \A later \in Nat : at <= later =>
               payout_amount(k, at) <= payout_amount(k, later)
<1>. DEFINE r(p) == calculate_penalty_rate(k[2], p)
            t    == total_locked[k]
            x(p) == penalty_amount(k, p)
<1>1. k[2] \in Nat /\ t \in Nat
  BY Penalty
<1>0. /\ at >= unlock_period(k[2]) => r(at) = 0
      /\ \A later \in Nat : r(later) \in Nat /\ (at <= later => r(later) <= r(at))
  <2>. DEFINE l == k[2]
  <2>1. l \in Nat
    BY <1>1
  <2>. HIDE DEF l
  <2>2. /\ at >= unlock_period(l) => calculate_penalty_rate(l, at) = 0
        /\ \A later \in Nat :
              /\ calculate_penalty_rate(l, later) \in Nat
              /\ at <= later => calculate_penalty_rate(l, later) <= calculate_penalty_rate(l, at)
    BY <2>1, RateBounds
  <2>. QED
    BY <2>2 DEF l
<1>2. ASSUME NEW p \in Nat
      PROVE  /\ t * r(p) \in Nat
             /\ t * r(p) <= 9000 * t
             /\ x(p) = (t * r(p)) \div 10000
  BY Penalty
<1>3. x(at) \in Nat /\ 10000 * x(at) <= 9000 * t
  <2>. HIDE DEF r, x, t
  <2>1. 10000 * ((t * r(at)) \div 10000) <= t * r(at) /\ (t * r(at)) \div 10000 \in Nat
    BY <1>2, DivBound
  <2>. QED
    BY <1>1, <1>2, <2>1
<1>4. at >= unlock_period(k[2]) => x(at) = 0
  <2>1. at >= unlock_period(k[2]) => r(at) = 0
    BY <1>0
  <2>. HIDE DEF r, x, t
  <2>. QED
    BY <1>1, <1>2, <2>1
<1>5. ASSUME NEW later \in Nat, at <= later
      PROVE  x(later) <= x(at)
  <2>1. r(later) \in Nat /\ r(at) \in Nat /\ r(later) <= r(at)
    BY <1>5, <1>0
  <2>. HIDE DEF r, x, t
  <2>2. t * r(later) <= t * r(at)
    BY <1>1, <2>1, MulMono
  <2>. QED
    BY <1>2, <2>2, DivMono
<1>6. ASSUME NEW p \in Nat
      PROVE  x(p) \in Nat /\ payout_amount(k, p) = t - x(p)
  <2>1. payout_amount(k, p) = t - x(p)
    BY DEF payout_amount
  <2>. HIDE DEF r, x, t
  <2>. QED
    BY <1>2, <2>1, DivBound
<1>. HIDE DEF r, x, t
<1>7. payout_amount(k, at) \in Nat /\ payout_amount(k, at) <= t /\ 10 * payout_amount(k, at) >= t
  BY <1>1, <1>3, <1>6
<1>8. at >= unlock_period(k[2]) => payout_amount(k, at) = t
  BY <1>1, <1>4, <1>6
<1>9. \A later \in Nat : at <= later => payout_amount(k, at) <= payout_amount(k, later)
  BY <1>1, <1>5, <1>6
<1>. QED
  BY <1>7, <1>8, <1>9 DEF t

-----------------------------------------------------------------------------
(* Committed units.                                                        *)

LEMMA UnitsFinite ==
  ASSUME NEW S \in SUBSET (Locks \X (1..Supply))
  PROVE  IsFiniteSet(S) /\ Cardinality(S) \in Nat
<1>1. IsFiniteSet(Locks)
  <2>1. IsFiniteSet(Periods)
    BY TreasuryAssumption, FS_Interval DEF Periods
  <2>. QED
    BY <2>1, TreasuryAssumption, FS_Product DEF Locks
<1>2. IsFiniteSet(1..Supply)
  BY SupplyFits, FS_Interval
<1>3. IsFiniteSet(Locks \X (1..Supply))
  BY <1>1, <1>2, FS_Product
<1>. QED
  BY <1>3, FS_Subset, FS_CardinalityType

(***************************************************************************)
(* The cardinality of a set of units after a block is added, or removed.   *)
(***************************************************************************)
LEMMA AddBlock ==
  ASSUME NEW S, IsFiniteSet(S), NEW B, IsFiniteSet(B), S \cap B = {}
  PROVE  Cardinality(S \cup B) = Cardinality(S) + Cardinality(B)
<1>1. Cardinality(S \cup B) = Cardinality(S) + Cardinality(B) - Cardinality(S \cap B)
  BY FS_Union
<1>2. Cardinality(S \cap B) = 0
  BY FS_EmptySet
<1>. QED
  BY <1>1, <1>2, FS_CardinalityType

LEMMA RemoveBlock ==
  ASSUME NEW S, IsFiniteSet(S), NEW B, B \subseteq S
  PROVE  /\ Cardinality(S \ B) = Cardinality(S) - Cardinality(B)
         /\ Cardinality(B) <= Cardinality(S)
<1>1. S \cap B = B
  OBVIOUS
<1>2. /\ Cardinality(S \ B) = Cardinality(S) - Cardinality(S \cap B)
      /\ Cardinality(B) <= Cardinality(S)
  BY FS_Difference, FS_Subset
<1>. QED
  BY <1>1, <1>2

-----------------------------------------------------------------------------
(* The inductive invariant.                                                *)

IInv == /\ TypeOK
        /\ Solvent
        /\ CommitmentExact
        /\ ata <= funded

LEMMA UnitsType ==
  /\ CommittedUnits \in SUBSET (Locks \X (1..Supply))
  /\ IsFiniteSet(CommittedUnits)
  /\ Cardinality(CommittedUnits) \in Nat
BY UnitsFinite DEF CommittedUnits

(***************************************************************************)
(* The units of an open account are committed units, so its total is       *)
(* covered by the counter.                                                 *)
(***************************************************************************)
LEMMA AccountCovered ==
  ASSUME IInv, NEW k \in Locks, unlocked_at[k] = None
  PROVE  /\ total_locked[k] \in Nat
         /\ total_locked[k] <= Supply
         /\ total_locked[k] <= locked_balance
         /\ {k} \X (1..total_locked[k]) \subseteq CommittedUnits
<1>. DEFINE t == total_locked[k]
            B == {k} \X (1..t)
<1>1. t \in Nat /\ t <= Supply
  BY SupplyFits DEF IInv, TypeOK
<1>2. ASSUME NEW n \in 1..t
      PROVE  <<k, n>> \in CommittedUnits
  BY <1>1, SupplyFits DEF CommittedUnits
<1>3. B \subseteq CommittedUnits
  BY <1>2
<1>4. Cardinality(B) = t
  <2>1. 1..t = (0 + 1)..(0 + t)
    BY <1>1
  <2>2. t \in Nat
    BY <1>1
  <2>. HIDE DEF t
  <2>3. IsFiniteSet(1..t) /\ Cardinality(1..t) = t
    BY <2>1, <2>2, IntervalSize
  <2>. QED
    BY <2>3, Block
<1>5. Cardinality(B) <= Cardinality(CommittedUnits)
  BY <1>3, UnitsType, FS_Subset
<1>. QED
  BY <1>1, <1>3, <1>4, <1>5 DEF IInv, CommitmentExact

(***************************************************************************)
(* A grant commits exactly its amount: the units t+1..t+amount of the      *)
(* account of the day.                                                     *)
(***************************************************************************)
LEMMA GrantEffect ==
  ASSUME IInv, NEW o \in Owners, NEW a \in Amounts, grant_locked(o, a)
  PROVE  LET k == <<o, period>>
             t == total_locked[k]
             B == {k} \X ((t + 1)..(t + a))
         IN  /\ k \in Locks /\ t \in Nat /\ a \in Nat \ {0}
             /\ t + a <= Supply
             /\ unlocked_at[k] = None
             /\ total_locked' = [total_locked EXCEPT ![k] = t + a]
             /\ locked_balance' = locked_balance + a
             /\ locked_balance' <= ata
             /\ CommittedUnits' = CommittedUnits \cup B
             /\ CommittedUnits \cap B = {}
<1>. DEFINE k == <<o, period>>
            t == total_locked[k]
            B == {k} \X ((t + 1)..(t + a))
<1>1. k \in Locks /\ a \in Nat \ {0}
  BY TreasuryAssumption DEF IInv, TypeOK, Locks
<1>2. unlocked_at[k] = None
  BY DEF grant_locked, NotUnlocked
<1>. HIDE DEF k
<1>3. /\ t \in Nat /\ t <= locked_balance
      /\ locked_balance \in Nat /\ ata \in Nat /\ ata <= Supply
  BY <1>1, <1>2, AccountCovered, SupplyFits DEF IInv, TypeOK
<1>4. locked_balance + a <= ata
  <2>1. available_balance >= a
    BY DEF grant_locked
  <2>. QED
    BY <1>1, <1>3, <2>1 DEF available_balance, SatSub
<1>5. t + a <= Supply /\ SatAdd(t, a) = t + a /\ SatAdd(locked_balance, a) = locked_balance + a
  BY <1>1, <1>3, <1>4, SupplyFits DEF SatAdd
<1>6. total_locked' = [total_locked EXCEPT ![k] = t + a]
  BY <1>5 DEF grant_locked, k
<1>7. locked_balance' = locked_balance + a
  BY <1>5 DEF grant_locked, add_locked_balance
<1>8. unlocked_at' = unlocked_at /\ total_locked \in [Locks -> 0..Supply]
  BY DEF grant_locked, IInv, TypeOK
<1>9. CommittedUnits' = CommittedUnits \cup B
  <2>1. ASSUME NEW u \in Locks \X (1..Supply)
        PROVE  u \in CommittedUnits' <=> u \in CommittedUnits \cup B
    <3>1. u = <<u[1], u[2]>> /\ u[1] \in Locks /\ u[2] \in Nat /\ u[2] >= 1
      BY SupplyFits
    <3>2. u \in B <=> u[1] = k /\ u[2] > t /\ u[2] <= t + a
      BY <3>1, <1>1, <1>3
    <3>3. CASE u[1] = k
      <4>1. total_locked'[u[1]] = t + a
        BY <3>3, <1>1, <1>6, <1>8
      <4>. HIDE DEF B, t
      <4>2. u \in CommittedUnits' <=> u[2] <= t + a
        BY <4>1, <3>3, <1>2, <1>8 DEF CommittedUnits
      <4>3. u \in CommittedUnits <=> u[2] <= t
        BY <3>3, <1>2 DEF CommittedUnits, t
      <4>. QED
        BY <4>2, <4>3, <3>1, <3>2, <3>3, <1>1, <1>3
    <3>4. CASE u[1] # k
      <4>1. total_locked'[u[1]] = total_locked[u[1]]
        BY <3>1, <3>4, <1>6, <1>8
      <4>. HIDE DEF B, t
      <4>. QED
        BY <4>1, <3>2, <3>4, <1>8 DEF CommittedUnits
    <3>. QED
      BY <3>3, <3>4
  <2>2. B \subseteq Locks \X (1..Supply)
    BY <1>1, <1>3, <1>5, SupplyFits
  <2>3. CommittedUnits' \subseteq Locks \X (1..Supply)
    BY DEF CommittedUnits
  <2>. HIDE DEF B
  <2>. QED
    BY <2>1, <2>2, <2>3, UnitsType
<1>10. CommittedUnits \cap B = {}
  BY <1>1, <1>3 DEF CommittedUnits
<1>11. locked_balance' <= ata
  BY <1>4, <1>7
<1>. QED
  BY <1>1, <1>2, <1>3, <1>5, <1>6, <1>7, <1>9, <1>10, <1>11 DEF k

(***************************************************************************)
(* An unlock releases exactly the units of its account, and pays no more.  *)
(***************************************************************************)
LEMMA UnlockEffect ==
  ASSUME IInv, NEW k \in Locks, unlock(k)
  PROVE  LET t == total_locked[k]
             x == payout_amount(k, period)
         IN  /\ t \in Nat \ {0} /\ x \in Nat /\ x <= t /\ 10 * x >= t
             /\ t <= locked_balance
             /\ ata' = ata - x
             /\ locked_balance' = locked_balance - t
             /\ wallet' = [wallet EXCEPT ![k[1]] = @ + x]
             /\ {k} \X (1..t) \subseteq CommittedUnits
             /\ CommittedUnits' = CommittedUnits \ ({k} \X (1..t))
<1>. DEFINE t == total_locked[k]
            x == payout_amount(k, period)
            B == {k} \X (1..t)
<1>1. /\ t # 0 /\ unlocked_at[k] = None /\ ata' = ata - x
      /\ wallet' = [wallet EXCEPT ![k[1]] = @ + x]
      /\ locked_balance' = SatSub(locked_balance, t)
      /\ unlocked_at' = [unlocked_at EXCEPT ![k] = period]
      /\ total_locked' = total_locked
  BY DEF unlock, NotUnlocked, subtract_locked_balance
<1>2. t \in Nat /\ t <= locked_balance /\ B \subseteq CommittedUnits
  BY <1>1, AccountCovered
<1>3. period \in Nat /\ locked_balance \in Nat /\ period # None
  BY TreasuryAssumption, SupplyFits DEF IInv, TypeOK, Periods
<1>4. x \in Nat /\ x <= t /\ 10 * x >= t
  BY <1>3, PayoutBounds DEF IInv
<1>5. locked_balance' = locked_balance - t
  BY <1>1, <1>2, <1>3 DEF SatSub
<1>6. CommittedUnits' = CommittedUnits \ B
  <2>1. ASSUME NEW u \in Locks \X (1..Supply)
        PROVE  u \in CommittedUnits' <=> u \in CommittedUnits /\ u \notin B
    <3>1. u = <<u[1], u[2]>> /\ u[1] \in Locks /\ u[2] \in Nat /\ u[2] >= 1
      BY SupplyFits
    <3>2. CASE u[1] = k
      <4>1. unlocked_at'[k] # None
        BY <1>1, <1>3 DEF IInv, TypeOK
      <4>2. u \notin CommittedUnits'
        BY <4>1, <3>2 DEF CommittedUnits
      <4>3. u \in CommittedUnits => u \in B
        BY <3>1, <3>2, <1>2 DEF CommittedUnits
      <4>. QED
        BY <4>2, <4>3
    <3>3. CASE u[1] # k
      <4>1. unlocked_at'[u[1]] = unlocked_at[u[1]]
        BY <3>1, <3>3, <1>1 DEF IInv, TypeOK
      <4>2. u \notin B
        BY <3>3
      <4>. QED
        BY <4>1, <4>2, <1>1 DEF CommittedUnits
    <3>. QED
      BY <3>2, <3>3
  <2>2. CommittedUnits' \subseteq Locks \X (1..Supply)
    BY DEF CommittedUnits
  <2>. HIDE DEF B
  <2>. QED
    BY <2>1, <2>2, UnitsType
<1>. QED
  BY <1>1, <1>2, <1>4, <1>5, <1>6

-----------------------------------------------------------------------------
(* The invariant is inductive.                                             *)

LEMMA InitIInv == Init => IInv
<1>. SUFFICES ASSUME Init
              PROVE  IInv
  OBVIOUS
<1>1. TypeOK /\ Solvent /\ ata <= funded
  BY SupplyFits DEF Init, TypeOK, Solvent
<1>2. CommittedUnits = {}
  BY DEF Init, CommittedUnits
<1>3. CommitmentExact
  BY <1>2, FS_EmptySet DEF Init, CommitmentExact
<1>. QED
  BY <1>1, <1>3 DEF IInv

LEMMA GrantIInv ==
  ASSUME IInv, NEW o \in Owners, NEW a \in Amounts, grant_locked(o, a)
  PROVE  IInv'
<1>. DEFINE k == <<o, period>>
            t == total_locked[k]
            B == {k} \X ((t + 1)..(t + a))
<1>1. /\ k \in Locks /\ t \in Nat /\ a \in Nat \ {0}
      /\ t + a <= Supply
      /\ total_locked' = [total_locked EXCEPT ![k] = t + a]
      /\ locked_balance' = locked_balance + a
      /\ locked_balance' <= ata
      /\ CommittedUnits' = CommittedUnits \cup B
      /\ CommittedUnits \cap B = {}
  BY GrantEffect
<1>2. /\ UNCHANGED <<period, ata, unlocked_at, wallet, funded>>
      /\ TypeOK /\ ata <= funded
      /\ locked_balance = Cardinality(CommittedUnits)
  BY DEF grant_locked, IInv, CommitmentExact
<1>. HIDE DEF k
<1>3. IsFiniteSet(B) /\ Cardinality(B) = a
  <2>1. t \in Nat /\ a \in Nat
    BY <1>1
  <2>. HIDE DEF t
  <2>2. IsFiniteSet((t + 1)..(t + a)) /\ Cardinality((t + 1)..(t + a)) = a
    BY <2>1, IntervalSize
  <2>. QED
    BY <2>2, Block
<1>. HIDE DEF B, t
<1>4. Cardinality(CommittedUnits') = Cardinality(CommittedUnits) + a
  BY <1>1, <1>3, UnitsType, AddBlock
<1>5. total_locked' \in [Locks -> 0..Supply]
  BY <1>1, <1>2, SupplyFits DEF TypeOK
<1>6. locked_balance' \in 0..Supply
  BY <1>1, <1>2, SupplyFits DEF TypeOK
<1>7. TypeOK'
  BY <1>2, <1>5, <1>6 DEF TypeOK
<1>. QED
  BY <1>1, <1>2, <1>4, <1>7 DEF IInv, Solvent, CommitmentExact

LEMMA UnlockIInv ==
  ASSUME IInv, NEW k \in Locks, unlock(k)
  PROVE  IInv'
<1>. DEFINE t == total_locked[k]
            x == payout_amount(k, period)
            B == {k} \X (1..t)
<1>1. /\ t \in Nat \ {0} /\ x \in Nat /\ x <= t
      /\ t <= locked_balance
      /\ ata' = ata - x
      /\ locked_balance' = locked_balance - t
      /\ wallet' = [wallet EXCEPT ![k[1]] = @ + x]
      /\ B \subseteq CommittedUnits
      /\ CommittedUnits' = CommittedUnits \ B
  BY UnlockEffect
<1>2. /\ UNCHANGED <<period, total_locked, funded>>
      /\ unlocked_at' = [unlocked_at EXCEPT ![k] = period]
      /\ TypeOK /\ ata <= funded /\ locked_balance <= ata
      /\ locked_balance = Cardinality(CommittedUnits)
  BY DEF unlock, IInv, Solvent, CommitmentExact
<1>3. Cardinality(B) = t
  <2>1. 1..t = (0 + 1)..(0 + t)
    BY <1>1
  <2>2. t \in Nat
    BY <1>1
  <2>. HIDE DEF t
  <2>3. IsFiniteSet(1..t) /\ Cardinality(1..t) = t
    BY <2>1, <2>2, IntervalSize
  <2>. QED
    BY <2>3, Block
<1>. HIDE DEF B, t, x
<1>4. Cardinality(CommittedUnits') = Cardinality(CommittedUnits) - t
  BY <1>1, <1>3, UnitsType, RemoveBlock
<1>5. wallet' \in [Owners -> Nat] /\ unlocked_at' \in [Locks -> Periods \cup {None}]
  BY <1>1, <1>2 DEF TypeOK, Locks
<1>6. locked_balance' \in 0..Supply /\ ata' \in 0..Supply /\ locked_balance' <= ata'
  BY <1>1, <1>2, SupplyFits DEF TypeOK
<1>7. TypeOK'
  BY <1>2, <1>5, <1>6 DEF TypeOK
<1>8. ata' <= funded'
  BY <1>1, <1>2, SupplyFits DEF TypeOK
<1>. QED
  BY <1>1, <1>2, <1>4, <1>6, <1>7, <1>8 DEF IInv, Solvent, CommitmentExact

LEMMA NextIInv == IInv /\ [Next]_vars => IInv'
<1>. SUFFICES ASSUME IInv, [Next]_vars
              PROVE  IInv'
  OBVIOUS
<1>1. ASSUME UNCHANGED <<total_locked, unlocked_at>>
      PROVE  CommittedUnits' = CommittedUnits
  BY <1>1 DEF CommittedUnits
<1>2. CASE AdvancePeriod
  <2>1. UNCHANGED <<ata, locked_balance, total_locked, unlocked_at, wallet, funded>>
    BY <1>2 DEF AdvancePeriod, locks
  <2>2. period' \in Periods
    BY <1>2, TreasuryAssumption DEF AdvancePeriod, Periods, IInv, TypeOK
  <2>. QED
    BY <1>1, <2>1, <2>2 DEF IInv, TypeOK, Solvent, CommitmentExact
<1>3. ASSUME NEW a \in 1..Supply, Fund(a)
      PROVE  IInv'
  <2>1. /\ UNCHANGED <<period, locked_balance, total_locked, unlocked_at, wallet>>
        /\ funded' = funded + a /\ funded' <= Supply /\ ata' = ata + a
    BY <1>3 DEF Fund, locks
  <2>2. /\ ata' \in 0..Supply /\ funded' \in 0..Supply
        /\ ata' <= funded' /\ locked_balance' <= ata'
    BY <2>1, SupplyFits DEF IInv, TypeOK, Solvent
  <2>. QED
    BY <1>1, <2>1, <2>2 DEF IInv, TypeOK, Solvent, CommitmentExact
<1>4. ASSUME NEW o \in Owners, NEW a \in Amounts, grant_locked(o, a)
      PROVE  IInv'
  BY <1>4, GrantIInv
<1>5. ASSUME NEW k \in Locks, unlock(k)
      PROVE  IInv'
  BY <1>5, UnlockIInv
<1>6. CASE UNCHANGED vars
  BY <1>1, <1>6 DEF vars, IInv, TypeOK, Solvent, CommitmentExact
<1>. QED
  BY <1>2, <1>3, <1>4, <1>5, <1>6 DEF Next

-----------------------------------------------------------------------------
(* The theorems.                                                           *)

(***************************************************************************)
(* The inductive invariant holds in every behaviour of the treasury.       *)
(***************************************************************************)
THEOREM TreasuryInvariant == Spec => []IInv
BY InitIInv, NextIInv, PTL DEF Spec

(***************************************************************************)
(* Every variable keeps its type: no balance exceeds what was sent.        *)
(***************************************************************************)
THEOREM TypeCorrect == Spec => []TypeOK
<1>1. IInv => TypeOK
  BY DEF IInv
<1>. QED
  BY <1>1, TreasuryInvariant, PTL

(***************************************************************************)
(* The treasury always holds what it owes.                                 *)
(***************************************************************************)
THEOREM SolventHolds == Spec => []Solvent
<1>1. IInv => Solvent
  BY DEF IInv
<1>. QED
  BY <1>1, TreasuryInvariant, PTL

(***************************************************************************)
(* TreasuryState.locked_balance is exactly the sum over the open accounts. *)
(***************************************************************************)
THEOREM CommitmentExactHolds == Spec => []CommitmentExact
<1>1. IInv => CommitmentExact
  BY DEF IInv
<1>. QED
  BY <1>1, TreasuryInvariant, PTL

(***************************************************************************)
(* The payout of an open account never falls with time and reaches the     *)
(* whole account on its unlock day.                                        *)
(***************************************************************************)
THEOREM WaitingPaysHolds == Spec => []WaitingPays
<1>1. IInv => WaitingPays
  <2>. SUFFICES ASSUME IInv, NEW k \in Locks, NEW p \in k[2]..MaxPeriod, NEW q \in k[2]..MaxPeriod
                PROVE  /\ p <= q => payout_amount(k, p) <= payout_amount(k, q)
                       /\ q >= unlock_period(k[2]) => payout_amount(k, q) = total_locked[k]
    BY DEF WaitingPays
  <2>1. p \in Nat /\ q \in Nat
    BY TreasuryAssumption DEF Locks, Periods
  <2>2. TypeOK
    BY DEF IInv
  <2>. QED
    BY <2>1, <2>2, PayoutBounds
<1>. QED
  BY <1>1, TreasuryInvariant, PTL

(***************************************************************************)
(* No step changes an account after it was unlocked.                       *)
(***************************************************************************)
THEOREM SettledForeverHolds == Spec => SettledForever
<1>. DEFINE Frozen == \A k \in Locks : unlocked_at[k] # None =>
                         /\ total_locked'[k] = total_locked[k]
                         /\ unlocked_at'[k] = unlocked_at[k]
<1>1. IInv /\ [Next]_vars => [Frozen]_vars
  <2>. SUFFICES ASSUME IInv, Next
                PROVE  Frozen
    OBVIOUS
  <2>1. ASSUME UNCHANGED <<total_locked, unlocked_at>>
        PROVE  Frozen
    BY <2>1
  <2>2. ASSUME NEW o \in Owners, NEW a \in Amounts, grant_locked(o, a)
        PROVE  Frozen
    BY <2>2 DEF grant_locked, NotUnlocked, IInv, TypeOK
  <2>3. ASSUME NEW k \in Locks, unlock(k)
        PROVE  Frozen
    BY <2>3 DEF unlock, NotUnlocked, IInv, TypeOK
  <2>. QED
    BY <2>1, <2>2, <2>3 DEF Next, AdvancePeriod, Fund, locks
<1>. QED
  BY <1>1, TreasuryInvariant, PTL DEF Spec, SettledForever

-----------------------------------------------------------------------------
(* The owners' wallets.                                                    *)

Settled(o) == {k \in Locks : k[1] = o /\ unlocked_at[k] # None}

Payouts(o) == [k \in Settled(o) |-> payout_amount(k, unlocked_at[k])]

LEMMA SettledType ==
  ASSUME TypeOK, NEW o \in Owners
  PROVE  /\ IsFiniteSet(Settled(o))
         /\ \A k \in Settled(o) : Payouts(o)[k] \in Nat
<1>1. IsFiniteSet(Locks)
  <2>1. IsFiniteSet(Periods)
    BY TreasuryAssumption, FS_Interval DEF Periods
  <2>. QED
    BY <2>1, TreasuryAssumption, FS_Product DEF Locks
<1>2. IsFiniteSet(Settled(o))
  <2>1. Settled(o) \in SUBSET Locks
    BY DEF Settled
  <2>. QED
    BY <1>1, <2>1, FS_Subset
<1>3. ASSUME NEW k \in Settled(o)
      PROVE  Payouts(o)[k] \in Nat
  <2>1. k \in Locks /\ unlocked_at[k] \in Nat
    BY TreasuryAssumption DEF Settled, TypeOK, Periods
  <2>2. payout_amount(k, unlocked_at[k]) \in Nat
    BY <2>1, PayoutBounds
  <2>. QED
    BY <2>2 DEF Payouts
<1>. QED
  BY <1>2, <1>3

(***************************************************************************)
(* Accounts that stay settled, with what was locked in them, stay paid.    *)
(***************************************************************************)
LEMMA WalletUnchanged ==
  ASSUME NEW o \in Owners, wallet[o] = Total(Payouts(o), Settled(o)), wallet'[o] = wallet[o],
         \A k \in Locks : k[1] = o => unlocked_at'[k] = unlocked_at[k],
         \A k \in Settled(o) : total_locked'[k] = total_locked[k]
  PROVE  wallet'[o] = Total(Payouts(o)', Settled(o)')
<1>1. Settled(o)' = Settled(o)
  BY DEF Settled
<1>2. \A k \in Settled(o) : Payouts(o)'[k] = Payouts(o)[k]
  <2>. SUFFICES ASSUME NEW k \in Settled(o) PROVE Payouts(o)'[k] = Payouts(o)[k]
    OBVIOUS
  <2>1. /\ Payouts(o)'[k] = payout_amount(k, unlocked_at[k])'
        /\ Payouts(o)[k] = payout_amount(k, unlocked_at[k])
    BY <1>1 DEF Payouts
  <2>2. unlocked_at'[k] = unlocked_at[k]
    BY DEF Settled
  <2>3. payout_amount(k, unlocked_at[k])' = payout_amount(k, unlocked_at[k])
    BY <2>2 DEF payout_amount, penalty_amount, calculate_penalty_rate, SatSub, unlock_period
  <2>. QED
    BY <2>1, <2>3
<1>3. Total(Payouts(o)', Settled(o)) = Total(Payouts(o), Settled(o))
  BY <1>2, TotalSame
<1>. QED
  BY <1>1, <1>3

(***************************************************************************)
(* An owner received exactly what the unlocked accounts record, each at    *)
(* the rate of the day it was unlocked.                                    *)
(***************************************************************************)
THEOREM WalletsArePayoutsHolds == Spec => []WalletsArePayouts
<1>. DEFINE Paid == \A o \in Owners : wallet[o] = Total(Payouts(o), Settled(o))
<1>1. Init => Paid
  <2>. SUFFICES ASSUME Init, NEW o \in Owners PROVE wallet[o] = Total(Payouts(o), Settled(o))
    OBVIOUS
  <2>1. Settled(o) = {} /\ wallet[o] = 0
    BY DEF Init, Settled
  <2>. QED
    BY <2>1, TotalZero
<1>2. IInv /\ Paid /\ [Next]_vars => Paid'
  <2>. SUFFICES ASSUME IInv, Paid, [Next]_vars, NEW o \in Owners
                PROVE  wallet'[o] = Total(Payouts(o)', Settled(o)')
    OBVIOUS
  <2>0. TypeOK
    BY DEF IInv
  <2>1. CASE UNCHANGED <<total_locked, unlocked_at, wallet>>
    BY <2>1, WalletUnchanged
  <2>2. ASSUME NEW q \in Owners, NEW a \in Amounts, grant_locked(q, a)
        PROVE  wallet'[o] = Total(Payouts(o)', Settled(o)')
    <3>1. /\ unlocked_at' = unlocked_at /\ wallet' = wallet
          /\ unlocked_at[<<q, period>>] = None
          /\ total_locked' = [total_locked EXCEPT ![<<q, period>>] = SatAdd(@, a)]
      BY <2>2 DEF grant_locked, NotUnlocked
    <3>2. \A k \in Settled(o) : total_locked'[k] = total_locked[k]
      BY <2>0, <3>1 DEF Settled, TypeOK
    <3>. QED
      BY <3>1, <3>2, WalletUnchanged
  <2>3. ASSUME NEW c \in Locks, unlock(c)
        PROVE  wallet'[o] = Total(Payouts(o)', Settled(o)')
    <3>. DEFINE x == payout_amount(c, period)
    <3>1. /\ total_locked' = total_locked /\ unlocked_at[c] = None
          /\ unlocked_at' = [unlocked_at EXCEPT ![c] = period]
          /\ wallet' = [wallet EXCEPT ![c[1]] = @ + x]
      BY <2>3 DEF unlock, NotUnlocked
    <3>2. x \in Nat /\ period \in Nat
      BY <2>0, <2>3, UnlockEffect, TreasuryAssumption DEF TypeOK, Periods
    <3>. HIDE DEF x
    <3>3. CASE c[1] # o
      <4>1. \A k \in Locks : k[1] = o => unlocked_at'[k] = unlocked_at[k]
        BY <2>0, <3>1, <3>3 DEF TypeOK
      <4>2. wallet'[o] = wallet[o]
        BY <2>0, <3>1, <3>3 DEF TypeOK
      <4>. QED
        BY <3>1, <4>1, <4>2, WalletUnchanged
    <3>4. CASE c[1] = o
      <4>1. Settled(o)' = Settled(o) \cup {c} /\ c \notin Settled(o)
        BY <2>0, <3>1, <3>2, <3>4, TreasuryAssumption DEF Settled, TypeOK
      <4>. DEFINE S == Settled(o)
                  f == [k \in S \cup {c} |-> IF k = c THEN x ELSE Payouts(o)[k]]
      <4>2. ASSUME NEW k \in S \cup {c}
            PROVE  Payouts(o)'[k] = f[k]
        <5>1. Payouts(o)'[k] = payout_amount(k, unlocked_at[k])'
          BY <4>1 DEF Payouts
        <5>2. payout_amount(k, unlocked_at[k])' = payout_amount(k, unlocked_at'[k])
          BY <3>1 DEF payout_amount, penalty_amount, calculate_penalty_rate, SatSub, unlock_period
        <5>3. k = c => unlocked_at'[k] = period
          BY <2>0, <3>1 DEF TypeOK
        <5>4. k # c => k \in S /\ unlocked_at'[k] = unlocked_at[k]
          BY <2>0, <3>1 DEF TypeOK, Settled
        <5>. QED
          BY <5>1, <5>2, <5>3, <5>4 DEF Payouts, x
      <4>3. IsFiniteSet(S) /\ \A k \in S : Payouts(o)[k] \in Nat
        BY <2>0, SettledType
      <4>4. /\ \A k \in S \cup {c} : f[k] \in Nat
            /\ \A k \in S : f[k] = Payouts(o)[k]
            /\ f[c] = x /\ c \notin S
        BY <3>2, <4>1, <4>3
      <4>5. Total(f, S) = Total(Payouts(o), S)
        <5>. HIDE DEF f, S
        <5>. QED
          BY <4>4, TotalSame
      <4>6. Total(f, S \cup {c}) = Total(f, S) + f[c]
        <5>. HIDE DEF f, S
        <5>1. IsFiniteSet(S) /\ c \notin S /\ \A k \in S \cup {c} : f[k] \in Nat
          BY <4>3, <4>4
        <5>. QED
          BY <5>1, TotalInsert
      <4>7. Total(Payouts(o)', S \cup {c}) = Total(f, S \cup {c})
        <5>. HIDE DEF f, S
        <5>. QED
          BY <4>2, TotalSame
      <4>8. wallet'[o] = wallet[o] + x
        BY <2>0, <3>1, <3>4 DEF TypeOK
      <4>. QED
        BY <4>1, <4>4, <4>5, <4>6, <4>7, <4>8
    <3>. QED
      BY <3>3, <3>4
  <2>. QED
    BY <2>1, <2>2, <2>3 DEF Next, AdvancePeriod, Fund, locks, vars
<1>3. Paid => WalletsArePayouts
  BY DEF WalletsArePayouts, Payouts, Settled
<1>. QED
  BY <1>1, <1>2, <1>3, TreasuryInvariant, PTL DEF Spec

-----------------------------------------------------------------------------
(* The refinement.                                                         *)

OwnerUnits(o) == {u \in CommittedUnits : u[1][1] = o}

LEMMA OwnerUnitsType ==
  ASSUME NEW o \in Owners
  PROVE  IsFiniteSet(OwnerUnits(o)) /\ Claims(o) = Cardinality(OwnerUnits(o)) /\ Claims(o) \in Nat
<1>1. OwnerUnits(o) \in SUBSET CommittedUnits
  BY DEF OwnerUnits
<1>2. IsFiniteSet(OwnerUnits(o)) /\ Cardinality(OwnerUnits(o)) \in Nat
  BY <1>1, UnitsType, FS_Subset, FS_CardinalityType
<1>3. Claims(o) = Cardinality(OwnerUnits(o))
  BY DEF Claims, OwnerUnits
<1>. QED
  BY <1>2, <1>3

(***************************************************************************)
(* A grant adds its amount to the claims of its owner.                     *)
(***************************************************************************)
LEMMA GrantClaims ==
  ASSUME IInv, NEW o \in Owners, NEW a \in Amounts, grant_locked(o, a), NEW q \in Owners
  PROVE  Claims(q)' = IF q = o THEN Claims(q) + a ELSE Claims(q)
<1>. DEFINE k == <<o, period>>
            t == total_locked[k]
            B == {k} \X ((t + 1)..(t + a))
<1>1. /\ t \in Nat /\ a \in Nat
      /\ CommittedUnits' = CommittedUnits \cup B
      /\ CommittedUnits \cap B = {}
  BY GrantEffect
<1>2. IsFiniteSet(B) /\ Cardinality(B) = a
  <2>1. t \in Nat /\ a \in Nat
    BY <1>1
  <2>. HIDE DEF t, k
  <2>2. IsFiniteSet((t + 1)..(t + a)) /\ Cardinality((t + 1)..(t + a)) = a
    BY <2>1, IntervalSize
  <2>. QED
    BY <2>2, Block
<1>3. \A u \in B : u[1][1] = o
  <2>. HIDE DEF t
  <2>. QED
    OBVIOUS
<1>. HIDE DEF B, t, k
<1>4. Claims(q)' = Cardinality({u \in CommittedUnits' : u[1][1] = q})
  BY DEF Claims
<1>5. CASE q = o
  <2>1. {u \in CommittedUnits' : u[1][1] = q} = OwnerUnits(q) \cup B
    BY <1>1, <1>3, <1>5 DEF OwnerUnits
  <2>2. OwnerUnits(q) \cap B = {}
    BY <1>1 DEF OwnerUnits
  <2>3. Cardinality(OwnerUnits(q) \cup B) = Cardinality(OwnerUnits(q)) + Cardinality(B)
    BY <2>2, <1>2, OwnerUnitsType, AddBlock
  <2>. QED
    BY <2>1, <2>3, <1>2, <1>4, <1>5, OwnerUnitsType
<1>6. CASE q # o
  <2>1. {u \in CommittedUnits' : u[1][1] = q} = OwnerUnits(q)
    BY <1>1, <1>3, <1>6 DEF OwnerUnits
  <2>. QED
    BY <2>1, <1>4, <1>6, OwnerUnitsType
<1>. QED
  BY <1>5, <1>6

(***************************************************************************)
(* An unlock settles the claim of its account, which the owner's claims    *)
(* contain.                                                                *)
(***************************************************************************)
LEMMA UnlockClaims ==
  ASSUME IInv, NEW k \in Locks, unlock(k), NEW q \in Owners
  PROVE  /\ q = k[1] => total_locked[k] <= Claims(q)
         /\ Claims(q)' = IF q = k[1] THEN Claims(q) - total_locked[k] ELSE Claims(q)
<1>. DEFINE t == total_locked[k]
            B == {k} \X (1..t)
<1>1. /\ t \in Nat
      /\ B \subseteq CommittedUnits
      /\ CommittedUnits' = CommittedUnits \ B
  BY UnlockEffect
<1>2. Cardinality(B) = t
  <2>1. 1..t = (0 + 1)..(0 + t)
    BY <1>1
  <2>2. t \in Nat
    BY <1>1
  <2>. HIDE DEF t
  <2>3. IsFiniteSet(1..t) /\ Cardinality(1..t) = t
    BY <2>1, <2>2, IntervalSize
  <2>. QED
    BY <2>3, Block
<1>3. \A u \in B : u[1][1] = k[1]
  <2>. HIDE DEF t
  <2>. QED
    OBVIOUS
<1>. HIDE DEF B
<1>4. Claims(q)' = Cardinality({u \in CommittedUnits' : u[1][1] = q})
  BY DEF Claims
<1>5. CASE q = k[1]
  <2>1. {u \in CommittedUnits' : u[1][1] = q} = OwnerUnits(q) \ B
    BY <1>1 DEF OwnerUnits
  <2>2. B \subseteq OwnerUnits(q)
    BY <1>1, <1>3, <1>5 DEF OwnerUnits
  <2>3. /\ Cardinality(OwnerUnits(q) \ B) = Cardinality(OwnerUnits(q)) - Cardinality(B)
        /\ Cardinality(B) <= Cardinality(OwnerUnits(q))
    BY <2>2, OwnerUnitsType, RemoveBlock
  <2>. QED
    BY <2>1, <2>3, <1>2, <1>4, <1>5, OwnerUnitsType
<1>6. CASE q # k[1]
  <2>1. {u \in CommittedUnits' : u[1][1] = q} = OwnerUnits(q)
    BY <1>1, <1>3, <1>6 DEF OwnerUnits
  <2>. QED
    BY <2>1, <1>4, <1>6, OwnerUnitsType
<1>. QED
  BY <1>5, <1>6

LEMMA SameClaims ==
  ASSUME UNCHANGED <<total_locked, unlocked_at>>
  PROVE  [o \in Owners |-> Claims(o)]' = [o \in Owners |-> Claims(o)]
<1>1. CommittedUnits' = CommittedUnits
  BY DEF CommittedUnits
<1>2. ASSUME NEW o \in Owners
      PROVE  Claims(o)' = Claims(o)
  BY <1>1 DEF Claims
<1>. QED
  BY <1>2

(***************************************************************************)
(* The treasury implements RewardVault: whatever the calendar and the      *)
(* accounts do, a claim is covered when it is made, and is settled once,   *)
(* for at least a tenth of it.                                             *)
(***************************************************************************)
THEOREM TreasuryImplementsVault == Spec => RefinesVault
<1>. DEFINE free   == ata - locked_balance
            claims == [o \in Owners |-> Claims(o)]
<1>1. Init => Vault!Init
  <2>. SUFFICES ASSUME Init PROVE Vault!Init
    OBVIOUS
  <2>1. CommittedUnits = {}
    BY DEF Init, CommittedUnits
  <2>2. \A o \in Owners : Claims(o) = 0
    BY <2>1, FS_EmptySet DEF Claims
  <2>. QED
    BY <2>2 DEF Init, Vault!Init
<1>2. IInv /\ [Next]_vars => [Vault!Next]_(Vault!vars)
  <2>. SUFFICES ASSUME IInv, [Next]_vars PROVE [Vault!Next]_(Vault!vars)
    OBVIOUS
  <2>0. /\ ata \in Nat /\ locked_balance \in Nat /\ locked_balance <= ata
        /\ wallet \in [Owners -> Nat]
        /\ \A o \in Owners : Claims(o) \in Nat
    BY SupplyFits, OwnerUnitsType DEF IInv, TypeOK, Solvent
  <2>1. CASE AdvancePeriod
    BY <2>1, SameClaims DEF AdvancePeriod, locks, Vault!vars
  <2>2. ASSUME NEW a \in 1..Supply, Fund(a)
        PROVE  Vault!Next
    <3>1. free' > free
      BY <2>0, <2>2, SupplyFits DEF Fund
    <3>2. UNCHANGED <<claims, wallet>>
      BY <2>2, SameClaims DEF Fund, locks
    <3>. QED
      BY <3>1, <3>2 DEF Vault!Next, Vault!Fund
  <2>3. ASSUME NEW o \in Owners, NEW a \in Amounts, grant_locked(o, a)
        PROVE  Vault!Next
    <3>1. /\ a \in Nat \ {0} /\ ata' = ata /\ wallet' = wallet
          /\ locked_balance' = locked_balance + a /\ locked_balance' <= ata
      BY <2>3, GrantEffect DEF grant_locked
    <3>2. a \in 1..free /\ free' = free - a
      BY <2>0, <3>1
    <3>3. claims' = [claims EXCEPT ![o] = @ + a]
      BY <2>3, GrantClaims
    <3>4. Vault!Commit(o, a)
      BY <2>0, <3>1, <3>2, <3>3 DEF Vault!Commit
    <3>. QED
      BY <3>2, <3>4 DEF Vault!Next
  <2>4. ASSUME NEW k \in Locks, unlock(k)
        PROVE  Vault!Next
    <3>. DEFINE t == total_locked[k]
                x == payout_amount(k, period)
                o == k[1]
    <3>1. /\ t \in Nat \ {0} /\ x \in Nat /\ x <= t /\ 10 * x >= t
          /\ ata' = ata - x
          /\ locked_balance' = locked_balance - t
          /\ wallet' = [wallet EXCEPT ![o] = @ + x]
      BY <2>4, UnlockEffect
    <3>2. o \in Owners
      BY DEF Locks
    <3>3. t <= Claims(o)
      BY <2>4, <3>2, UnlockClaims
    <3>4. claims' = [claims EXCEPT ![o] = @ - t]
      BY <2>4, UnlockClaims
    <3>. HIDE DEF t, x, o
    <3>5. free' = free + (t - x) /\ claims[o] = Claims(o)
      BY <2>0, <3>1, <3>2
    <3>6. Vault!Settle(o, t, x)
      BY <3>1, <3>3, <3>4, <3>5 DEF Vault!Settle
    <3>7. t \in 1..claims[o] /\ x \in 0..t
      BY <2>0, <3>1, <3>2, <3>3, <3>5
    <3>. QED
      BY <3>2, <3>6, <3>7 DEF Vault!Next
  <2>5. CASE UNCHANGED vars
    BY <2>5, SameClaims DEF vars, Vault!vars
  <2>. QED
    BY <2>1, <2>2, <2>3, <2>4, <2>5 DEF Next
<1>. QED
  BY <1>1, <1>2, TreasuryInvariant, PTL DEF Spec, RefinesVault, Vault!Spec
=============================================================================
