------------------------------ MODULE DepinProofs ------------------------------
(***************************************************************************)
(* Proofs about the whole program, for every set of licences, owners and   *)
(* keys, every BRAND and reward function, every ring size and supply.      *)
(*                                                                         *)
(* What a payout takes from a balance it adds to the account of the holder *)
(* and of the day, so the sum over the balances paid out and the sum over  *)
(* the accounts change by the same amount.  Balances are recomputed from   *)
(* the proofs: the count a proof was selected with is that of a day that   *)
(* is over, and until the ring is full no announcement changes it.         *)
(***************************************************************************)
EXTENDS Depin, NumberLemmas

-----------------------------------------------------------------------------
(* The constants.                                                          *)

LEMMA SupplyFits == /\ Supply \in Nat /\ U64 \in Nat \ {0} /\ Supply < U64
                    /\ 9000 * Supply < U64
BY PartsAssumption

LEMMA SetsFinite == IsFiniteSet(Indexes) /\ IsFiniteSet(Treasury!Locks)
<1>1. IsFiniteSet(Indexes)
  <2>1. 0 \in Int /\ Elements - 1 \in Int
    BY RewardsAssumption
  <2>. QED
    BY <2>1, FS_Interval DEF Indexes
<1>2. IsFiniteSet(Treasury!Periods)
  <2>1. 0 \in Int /\ MaxPeriod \in Int
    BY RewardsAssumption
  <2>. QED
    BY <2>1, FS_Interval DEF Treasury!Periods
<1>3. IsFiniteSet(Treasury!Locks)
  BY <1>2, PartsAssumption, FS_Product DEF Treasury!Locks
<1>. QED
  BY <1>1, <1>3

-----------------------------------------------------------------------------
(* The inductive invariant.                                                *)

\* What each account still commits the treasury to.
Open == [k \in Treasury!Locks |-> IF unlocked_at[k] = None THEN total_locked[k] ELSE 0]

Exact == locked_balance = Total(Open, Treasury!Locks)

\* The treasury holds what it owes, whichever instructions interleave.
Solvent == Treasury!Solvent

IInv == /\ TypeOK
        /\ Solvent
        /\ Exact
        /\ ata <= funded
        /\ PayoutsAreLocked

-----------------------------------------------------------------------------
(* A payout: GrantEffect holds in the program because the holder of a      *)
(* licence is an owner and the balance is positive.                        *)

LEMMA PayoutEffect ==
  ASSUME IInv, NEW c \in Checkers, NEW s \in Keys, Payout(c, s)
  PROVE  LET k == <<checker_owner[c], period>>
             a == checkers[c]
         IN  /\ k \in Treasury!Locks /\ c \in Indexes /\ a \in Nat \ {0}
             /\ unlocked_at[k] = None
             /\ total_locked[k] \in Nat
             /\ total_locked[k] + a <= Supply
             /\ total_locked' = [total_locked EXCEPT ![k] = total_locked[k] + a]
             /\ locked_balance' = locked_balance + a
             /\ locked_balance' <= ata
             /\ UNCHANGED <<period, ata, unlocked_at, wallet, funded>>
<1>. DEFINE k == <<checker_owner[c], period>>
            a == checkers[c]
<1>1. k \in Treasury!Locks
  BY DEF IInv, TypeOK, RewardsTypeOK, Treasury!TypeOK, Treasury!Locks
<1>2. c \in Indexes /\ a \in Nat \ {0}
  BY RewardsAssumption DEF Payout, PayoutCheckerRewards, IInv, TypeOK, RewardsTypeOK
<1>3. Treasury!grant_locked(checker_owner[c], a)
  BY DEF Payout, execute_payout, Recipient
<1>4. unlocked_at[k] = None
  BY <1>3 DEF Treasury!grant_locked, Treasury!NotUnlocked
<1>5. /\ total_locked \in [Treasury!Locks -> 0..Supply]
      /\ ata \in 0..Supply
      /\ locked_balance \in 0..Supply
  BY DEF IInv, TypeOK, Treasury!TypeOK
<1>. HIDE DEF k, a
<1>6. total_locked[k] <= locked_balance
  <2>1. \A l \in Treasury!Locks : Open[l] \in Nat
    BY <1>5, SupplyFits DEF Open
  <2>2. Open[k] <= Total(Open, Treasury!Locks)
    BY <1>1, <2>1, SetsFinite, TotalCovers
  <2>. QED
    BY <1>1, <1>4, <2>2 DEF Open, IInv, Exact
<1>7. locked_balance + a <= ata
  <2>1. Treasury!available_balance >= a
    BY <1>3 DEF Treasury!grant_locked
  <2>. QED
    BY <1>2, <1>5, <2>1, SupplyFits DEF Treasury!available_balance, Treasury!SatSub
<1>8. /\ total_locked[k] \in Nat
      /\ total_locked[k] + a <= Supply
      /\ Treasury!SatAdd(total_locked[k], a) = total_locked[k] + a
      /\ Treasury!SatAdd(locked_balance, a) = locked_balance + a
  BY <1>1, <1>2, <1>5, <1>6, <1>7, SupplyFits DEF Treasury!SatAdd
<1>9. total_locked' = [total_locked EXCEPT ![k] = total_locked[k] + a]
  BY <1>3, <1>8 DEF Treasury!grant_locked, k
<1>10. locked_balance' = locked_balance + a
  BY <1>3, <1>8 DEF Treasury!grant_locked, Treasury!add_locked_balance
<1>11. UNCHANGED <<period, ata, unlocked_at, wallet, funded>>
  BY <1>3 DEF Treasury!grant_locked
<1>. QED
  BY <1>1, <1>2, <1>4, <1>7, <1>8, <1>9, <1>10, <1>11 DEF k, a

-----------------------------------------------------------------------------
(* An unlock pays at most what the account holds and releases all of it.   *)

LEMMA ShareOfRate ==
  ASSUME NEW dur \in Nat \ {0}, NEW rem \in Nat, rem <= dur
  PROVE  (9000 * rem) \div dur \in Nat /\ (9000 * rem) \div dur <= 9000
<1>. DEFINE rate == (9000 * rem) \div dur
<1>1. 9000 * rem \in Nat /\ 9000 * rem <= 9000 * dur
  OBVIOUS
<1>2. rate \in Nat /\ dur * rate <= 9000 * rem
  BY <1>1, DivBound
<1>. HIDE DEF rate
<1>3. ASSUME 9001 <= rate
      PROVE  FALSE
  <2>1. dur * 9000 + dur <= dur * rate
    BY <1>2, <1>3, MulStrict
  <2>. QED
    BY <1>1, <1>2, <2>1
<1>. QED
  BY <1>2, <1>3 DEF rate

LEMMA PayoutAmount ==
  ASSUME TypeOK, NEW k \in Treasury!Locks
  PROVE  /\ Treasury!payout_amount(k, period) \in Nat
         /\ Treasury!payout_amount(k, period) <= total_locked[k]
<1>. DEFINE l == k[2]
            t == total_locked[k]
            r == Treasury!calculate_penalty_rate(l, period)
            x == Treasury!penalty_amount(k, period)
<1>1. l \in Nat /\ t \in Nat /\ t <= Supply /\ period \in Nat
  BY SupplyFits, RewardsAssumption DEF TypeOK, Treasury!TypeOK, Treasury!Locks, Treasury!Periods
<1>2. x = ((t * r) % U64) \div 10000
  BY DEF Treasury!penalty_amount
<1>3. Treasury!payout_amount(k, period) = t - x
  BY DEF Treasury!payout_amount
<1>. HIDE DEF l, t, x
<1>4. r \in Nat /\ r <= 9000
  <2>. DEFINE u    == Treasury!unlock_period(l)
              dur  == Treasury!SatSub(u, l)
              left == Treasury!SatSub(u, period)
              rem  == IF left < dur THEN left ELSE dur
  <2>1. u \in Nat
    BY <1>1, RewardsAssumption, PartsAssumption DEF Treasury!unlock_period
  <2>2. r = IF dur = 0 THEN 0 ELSE (9000 * rem) \div dur
    BY DEF Treasury!calculate_penalty_rate
  <2>. HIDE DEF u, r
  <2>3. dur \in Nat /\ rem \in Nat /\ rem <= dur
    BY <1>1, <2>1 DEF Treasury!SatSub
  <2>. HIDE DEF dur, rem
  <2>4. CASE dur = 0
    BY <2>2, <2>4
  <2>5. CASE dur # 0
    <3>1. (9000 * rem) \div dur \in Nat /\ (9000 * rem) \div dur <= 9000
      BY <2>3, <2>5, ShareOfRate
    <3>. QED
      BY <2>2, <2>5, <3>1
  <2>. QED
    BY <2>4, <2>5
<1>. HIDE DEF r
<1>5. t * r \in Nat /\ t * r <= t * 9000
  BY <1>1, <1>4, MulMono
<1>6. 9000 * t <= 9000 * Supply
  BY <1>1, SupplyFits, MulMono
<1>7. (t * r) % U64 = t * r
  <2>1. t * r < U64
    BY <1>1, <1>5, <1>6, SupplyFits
  <2>. QED
    BY <1>5, <2>1, SupplyFits, ModSmall
<1>8. x \in Nat /\ 10000 * x <= t * r
  BY <1>2, <1>5, <1>7, DivBound
<1>9. x <= t
  BY <1>1, <1>5, <1>8
<1>. QED
  BY <1>1, <1>3, <1>8, <1>9 DEF t

LEMMA UnlockEffect ==
  ASSUME IInv, NEW k \in Treasury!Locks, Unlock(k)
  PROVE  LET x == Treasury!payout_amount(k, period)
         IN  /\ x \in Nat /\ x <= total_locked[k] /\ x <= ata
             /\ k[1] \in Owners
             /\ total_locked[k] \in Nat
             /\ total_locked[k] <= locked_balance
             /\ unlocked_at[k] = None
             /\ ata' = ata - x
             /\ locked_balance' = locked_balance - total_locked[k]
             /\ unlocked_at' = [unlocked_at EXCEPT ![k] = period]
             /\ wallet' = [wallet EXCEPT ![k[1]] = @ + x]
             /\ UNCHANGED <<period, total_locked, funded>>
<1>. DEFINE x == Treasury!payout_amount(k, period)
<1>1. x \in Nat /\ x <= total_locked[k]
  BY PayoutAmount DEF IInv
<1>. HIDE DEF x
<1>2. /\ x <= ata
      /\ unlocked_at[k] = None
      /\ ata' = ata - x
      /\ unlocked_at' = [unlocked_at EXCEPT ![k] = period]
      /\ wallet' = [wallet EXCEPT ![k[1]] = @ + x]
      /\ locked_balance' = Treasury!SatSub(locked_balance, total_locked[k])
      /\ UNCHANGED <<period, total_locked, funded>>
  BY DEF Unlock, Treasury!unlock, Treasury!NotUnlocked, Treasury!subtract_locked_balance, x
<1>3. /\ total_locked \in [Treasury!Locks -> 0..Supply]
      /\ locked_balance \in 0..Supply
  BY DEF IInv, TypeOK, Treasury!TypeOK
<1>4. total_locked[k] \in Nat
  BY <1>3, SupplyFits
<1>5. total_locked[k] <= locked_balance
  <2>1. \A l \in Treasury!Locks : Open[l] \in Nat
    BY <1>3, SupplyFits DEF Open
  <2>2. Open[k] <= Total(Open, Treasury!Locks)
    BY <2>1, SetsFinite, TotalCovers
  <2>. QED
    BY <1>2, <2>2 DEF Open, IInv, Exact
<1>6. locked_balance' = locked_balance - total_locked[k]
  BY <1>2, <1>3, <1>4, <1>5, SupplyFits DEF Treasury!SatSub
<1>7. k[1] \in Owners
  BY DEF Treasury!Locks
<1>. QED
  BY <1>1, <1>2, <1>4, <1>5, <1>6, <1>7 DEF x

-----------------------------------------------------------------------------
(* Solvency and the account of every payout, step by step.                 *)

\* What the treasury's side of the program adds to its types.
Ledger == /\ Treasury!TypeOK
          /\ Solvent
          /\ Exact
          /\ ata <= funded
          /\ PayoutsAreLocked

LEMMA LedgerInit == Init => Ledger
<1>. SUFFICES ASSUME Init PROVE Ledger
  OBVIOUS
<1>1. Treasury!TypeOK
  BY SupplyFits DEF Init, Treasury!Init, Treasury!TypeOK
<1>2. Solvent /\ ata <= funded
  BY DEF Init, Treasury!Init, Solvent, Treasury!Solvent
<1>3. Exact
  <2>1. \A k \in Treasury!Locks : Open[k] = 0
    BY DEF Open, Init, Treasury!Init
  <2>2. Total(Open, Treasury!Locks) = 0
    BY <2>1, TotalZero
  <2>. QED
    BY <2>2 DEF Exact, Init, Treasury!Init
<1>4. PayoutsAreLocked
  <2>1. \A k \in Treasury!Locks : total_locked[k] = 0
    BY DEF Init, Treasury!Init
  <2>2. \A i \in Indexes : paid_out[i] = 0
    BY DEF Init, RewardsInit
  <2>. QED
    BY <2>1, <2>2, TotalZero DEF PayoutsAreLocked
<1>. QED
  BY <1>1, <1>2, <1>3, <1>4 DEF Ledger

LEMMA LedgerQuiet ==
  ASSUME Ledger, UNCHANGED <<treasury, paid_out>>, period' \in Treasury!Periods
  PROVE  Ledger'
<1>1. UNCHANGED <<ata, locked_balance, total_locked, unlocked_at, wallet, funded, paid_out>>
  BY DEF treasury
<1>. QED
  BY <1>1 DEF Ledger, Treasury!TypeOK, Solvent, Treasury!Solvent, Exact, Open, PayoutsAreLocked

LEMMA LedgerFund ==
  ASSUME Ledger, NEW a \in 1..Supply, Fund(a)
  PROVE  Ledger'
<1>1. /\ UNCHANGED <<period, locked_balance, total_locked, unlocked_at, wallet, paid_out>>
      /\ funded' = funded + a /\ funded' <= Supply /\ ata' = ata + a
  BY DEF Fund, Treasury!Fund, Treasury!locks, rewards
<1>2. /\ ata' \in 0..Supply /\ funded' \in 0..Supply
      /\ ata' <= funded' /\ locked_balance' <= ata'
  BY <1>1, SupplyFits DEF Ledger, Treasury!TypeOK, Solvent, Treasury!Solvent
<1>3. Exact' /\ PayoutsAreLocked'
  BY <1>1 DEF Ledger, Exact, Open, PayoutsAreLocked
<1>4. Treasury!TypeOK'
  BY <1>1, <1>2 DEF Ledger, Treasury!TypeOK
<1>. QED
  BY <1>2, <1>3, <1>4 DEF Ledger, Solvent, Treasury!Solvent

LEMMA LedgerPayout ==
  ASSUME IInv, NEW c \in Checkers, NEW s \in Keys, Payout(c, s)
  PROVE  Ledger'
<1>. DEFINE k == <<checker_owner[c], period>>
            a == checkers[c]
<1>1. /\ k \in Treasury!Locks /\ c \in Indexes /\ a \in Nat \ {0}
      /\ unlocked_at[k] = None
      /\ total_locked[k] \in Nat
      /\ total_locked[k] + a <= Supply
      /\ total_locked' = [total_locked EXCEPT ![k] = total_locked[k] + a]
      /\ locked_balance' = locked_balance + a
      /\ locked_balance' <= ata
      /\ UNCHANGED <<period, ata, unlocked_at, wallet, funded>>
  BY PayoutEffect
<1>2. /\ total_locked \in [Treasury!Locks -> 0..Supply]
      /\ locked_balance \in 0..Supply /\ ata \in 0..Supply
      /\ paid_out \in [Indexes -> Nat]
      /\ Treasury!TypeOK
  BY DEF IInv, TypeOK, RewardsTypeOK, Treasury!TypeOK
<1>3. paid_out' = [paid_out EXCEPT ![c] = paid_out[c] + a]
  BY DEF Payout, PayoutCheckerRewards
<1>. HIDE DEF k, a
<1>4. total_locked'[k] = total_locked[k] + a
  BY <1>1, <1>2
<1>5. \A l \in Treasury!Locks \ {k} : total_locked'[l] = total_locked[l]
  BY <1>1, <1>2
<1>6. \A l \in Treasury!Locks : total_locked[l] \in Nat
  BY <1>2, SupplyFits
<1>7. Total(total_locked', Treasury!Locks) = Total(total_locked, Treasury!Locks) + a
  <2>1. k \in Treasury!Locks /\ a \in Nat
    BY <1>1
  <2>. QED
    BY <1>4, <1>5, <1>6, <2>1, SetsFinite, TotalAdd
<1>8. Total(paid_out', Indexes) = Total(paid_out, Indexes) + a
  <2>1. /\ \A i \in Indexes : paid_out[i] \in Nat
        /\ paid_out'[c] = paid_out[c] + a
        /\ \A i \in Indexes \ {c} : paid_out'[i] = paid_out[i]
    BY <1>1, <1>2, <1>3
  <2>. QED
    BY <1>1, <2>1, SetsFinite, TotalAdd
<1>9. Total(Open', Treasury!Locks) = Total(Open, Treasury!Locks) + a
  <2>1. /\ \A l \in Treasury!Locks : Open[l] \in Nat
        /\ Open'[k] = Open[k] + a
        /\ \A l \in Treasury!Locks \ {k} : Open'[l] = Open[l]
    BY <1>1, <1>4, <1>5, <1>6 DEF Open
  <2>. HIDE DEF Open
  <2>. QED
    BY <1>1, <2>1, SetsFinite, TotalAdd
<1>10. Treasury!TypeOK'
  <2>1. total_locked' \in [Treasury!Locks -> 0..Supply]
    BY <1>1, <1>2, SupplyFits
  <2>2. locked_balance' \in 0..Supply
    BY <1>1, <1>2, SupplyFits
  <2>. QED
    BY <1>1, <1>2, <2>1, <2>2 DEF Treasury!TypeOK
<1>. QED
  BY <1>1, <1>7, <1>8, <1>9, <1>10 DEF Ledger, IInv, Solvent, Treasury!Solvent, Exact, PayoutsAreLocked

LEMMA LedgerUnlock ==
  ASSUME IInv, NEW k \in Treasury!Locks, Unlock(k)
  PROVE  Ledger'
<1>. DEFINE x == Treasury!payout_amount(k, period)
            t == total_locked[k]
<1>1. /\ x \in Nat /\ x <= t /\ x <= ata
      /\ k[1] \in Owners
      /\ t \in Nat
      /\ t <= locked_balance
      /\ unlocked_at[k] = None
      /\ ata' = ata - x
      /\ locked_balance' = locked_balance - t
      /\ unlocked_at' = [unlocked_at EXCEPT ![k] = period]
      /\ wallet' = [wallet EXCEPT ![k[1]] = @ + x]
      /\ UNCHANGED <<period, total_locked, funded>>
  BY UnlockEffect
<1>2. /\ paid_out' = paid_out
      /\ Treasury!TypeOK
      /\ locked_balance <= ata /\ ata <= funded
      /\ locked_balance = Total(Open, Treasury!Locks)
  BY DEF Unlock, rewards, IInv, TypeOK, Exact, Solvent, Treasury!Solvent
<1>. HIDE DEF x, t
<1>3. period # None
  BY <1>2, PartsAssumption, RewardsAssumption DEF Treasury!TypeOK, Treasury!Periods
<1>4. Total(Open, Treasury!Locks) = Total(Open', Treasury!Locks) + t
  <2>1. /\ \A l \in Treasury!Locks : Open'[l] \in Nat
        /\ Open[k] = Open'[k] + t
        /\ \A l \in Treasury!Locks \ {k} : Open[l] = Open'[l]
    BY <1>1, <1>2, <1>3, SupplyFits DEF Open, Treasury!TypeOK, t
  <2>. HIDE DEF Open
  <2>. QED
    BY <1>1, <2>1, SetsFinite, TotalAdd
<1>5. Total(Open', Treasury!Locks) \in Nat
  <2>1. \A l \in Treasury!Locks : Open'[l] \in Nat
    BY <1>1, <1>2, SupplyFits DEF Open, Treasury!TypeOK
  <2>. HIDE DEF Open
  <2>. QED
    BY <2>1, SetsFinite, TotalType
<1>6. /\ locked_balance' = Total(Open', Treasury!Locks)
      /\ locked_balance' \in 0..Supply /\ ata' \in 0..Supply
      /\ locked_balance' <= ata' /\ ata' <= funded'
  BY <1>1, <1>2, <1>4, <1>5, SupplyFits DEF Treasury!TypeOK
<1>7. /\ wallet' \in [Owners -> Nat]
      /\ unlocked_at' \in [Treasury!Locks -> Treasury!Periods \cup {None}]
  BY <1>1, <1>2 DEF Treasury!TypeOK
<1>8. Treasury!TypeOK'
  BY <1>1, <1>2, <1>6, <1>7 DEF Treasury!TypeOK
<1>9. PayoutsAreLocked'
  BY <1>1, <1>2 DEF PayoutsAreLocked, IInv
<1>. QED
  BY <1>6, <1>8, <1>9 DEF Ledger, Solvent, Treasury!Solvent, Exact

-----------------------------------------------------------------------------
(* The types of the other accounts, step by step.                          *)

Accounts == /\ RewardsTypeOK
            /\ rewards_len \in {0} \cup InitialSpace..LEN
            /\ \A i \in Indexes \ Room : checkers[i] = 0
            /\ Bmb!TypeOK
            /\ transfers \in 0..MaxTransfers

LEMMA LenType == LEN \in Nat /\ InitialSpace \in Nat \ {0} /\ InitialSpace <= LEN
BY DepinAssumption, RewardsAssumption DEF LEN

LEMMA AccountsInit == Init => Accounts
<1>. SUFFICES ASSUME Init PROVE Accounts
  OBVIOUS
<1>1. RewardsTypeOK
  <2>1. /\ worker_owner \in [Workers -> Owners]
        /\ checker_owner \in [Checkers -> Owners]
        /\ checker_metadata \in [Checkers \X Owners -> Keys \cup {None}]
    BY DEF Init, RewardsInit
  <2>2. worker_metadata \in [Workers \X Owners ->
                               [delegated_to : Keys, discovery_uri : Uris] \cup {None}]
    <3>. DEFINE R == [delegated_to : Keys, discovery_uri : Uris]
    <3>. HIDE DEF R
    <3>1. worker_metadata \in [Workers \X Owners -> R \cup {None}]
      BY DEF Init, RewardsInit
    <3>. QED
      BY <3>1 DEF R
  <2>3. proofs \in [Workers \X ProofPeriods -> (SUBSET Bits) \cup {None}]
    <3>. DEFINE P == SUBSET Bits
    <3>. HIDE DEF P
    <3>1. proofs \in [Workers \X ProofPeriods -> P \cup {None}]
      BY DEF Init, RewardsInit
    <3>. QED
      BY <3>1 DEF P
  <2>4. 0 \in 0..(U32 - 1)
    BY RewardsAssumption
  <2>5. checkers \in [Indexes -> 0..(U32 - 1)] /\ paid_out \in [Indexes -> Nat]
    BY <2>4 DEF Init, RewardsInit
  <2>. QED
    BY <2>1, <2>2, <2>3, <2>5 DEF RewardsTypeOK
<1>2. Bmb!TypeOK
  <2>1. /\ 0 \in Bmb!Slots
        /\ Launch \in Bmb!Periods
        /\ 0 \in 0..MaxPushes
    BY PartsAssumption, DepinAssumption, RewardsAssumption DEF Bmb!Slots, Bmb!Periods
  <2>. QED
    BY <2>1 DEF Init, Bmb!Init, Bmb!TypeOK
<1>3. transfers \in 0..MaxTransfers
  BY DepinAssumption DEF Init
<1>. QED
  BY <1>1, <1>2, <1>3 DEF Init, RewardsInit, Accounts

(***************************************************************************)
(* The account of the balances only grows, so what has room keeps it.      *)
(***************************************************************************)
LEMMA InitNetworkEffect ==
  ASSUME Accounts, InitNetwork
  PROVE  rewards_len' \in InitialSpace..LEN /\ Room \subseteq Room'
<1>1. CASE rewards_len = 0
  <2>1. Room = {}
    BY <1>1 DEF Room, Indexes
  <2>. QED
    BY <1>1, <2>1, LenType DEF InitNetwork
<1>2. CASE rewards_len # 0
  <2>. DEFINE m == rewards_len + MaxIncrease
  <2>1. m \in Nat /\ rewards_len \in Nat /\ InitialSpace <= rewards_len /\ rewards_len <= m
    BY <1>2, LenType, DepinAssumption DEF Accounts
  <2>2. rewards_len <= LEN
    BY <1>2, LenType DEF Accounts
  <2>3. rewards_len' = Min({m, LEN})
    BY <1>2 DEF InitNetwork
  <2>. HIDE DEF m
  <2>4. Min({m, LEN}) = IF m <= LEN THEN m ELSE LEN
    <3>. DEFINE x == IF m <= LEN THEN m ELSE LEN
    <3>1. x \in {m, LEN} /\ \A y \in {m, LEN} : x <= y
      BY <2>1, LenType
    <3>2. \A y \in {m, LEN} : y <= x => y = x
      BY <2>1, LenType
    <3>. HIDE DEF x
    <3>3. Min({m, LEN}) \in {m, LEN} /\ \A y \in {m, LEN} : Min({m, LEN}) <= y
      BY <3>1 DEF Min
    <3>4. Min({m, LEN}) = x
      BY <3>1, <3>2, <3>3
    <3>. QED
      BY <3>4 DEF x
  <2>5. rewards_len' \in InitialSpace..LEN /\ rewards_len <= rewards_len'
    BY <2>1, <2>2, <2>3, <2>4, LenType
  <2>6. Room \subseteq Room'
    BY <2>1, <2>5, LenType, RewardsAssumption DEF Room, Indexes
  <2>. QED
    BY <2>5, <2>6
<1>. QED
  BY <1>1, <1>2

LEMMA ActivateEffect ==
  ASSUME Bmb!TypeOK, NEW p \in Bmb!Periods, NEW c \in Counts, ActivateCheckerLicenses(p, c)
  PROVE  /\ Bmb!TypeOK'
         /\ pushes' = pushes + 1
         /\ period' = period /\ p > period
         /\ current_index \in Bmb!Slots
         /\ data'[current_index] = [period |-> p, count |-> c]
         /\ data'[current_index] # Bmb!Empty
         /\ \A s \in Bmb!Slots \ {current_index} : data'[s] = data[s]
         /\ current_index' = IF current_index + 1 = Capacity THEN 0 ELSE current_index + 1
<1>. DEFINE e == [period |-> p, count |-> c]
<1>1. /\ pushes < MaxPushes /\ pushes' = pushes + 1
      /\ period' = period /\ p > period
      /\ data' = [data EXCEPT ![current_index] = e]
      /\ current_index' = (current_index + 1) % Capacity
  BY DEF ActivateCheckerLicenses, Bmb!ActivateCheckerLicenses, Bmb!add_period_entry,
         Bmb!AfterToday, Bmb!next_index
<1>2. /\ period \in Bmb!Periods /\ current_index \in Bmb!Slots /\ pushes \in 0..MaxPushes
      /\ data \in [Bmb!Slots -> Bmb!Entries \cup {Bmb!Empty}]
  BY DEF Bmb!TypeOK
<1>3. (current_index + 1) % Capacity = IF current_index + 1 = Capacity THEN 0 ELSE current_index + 1
  BY <1>2, PartsAssumption DEF Bmb!Slots
<1>4. current_index' \in Bmb!Slots
  BY <1>1, <1>2, <1>3, PartsAssumption DEF Bmb!Slots
<1>5. e \in Bmb!Entries
  BY DEF Bmb!Entries
<1>6. e # Bmb!Empty
  <2>1. p # 0
    BY <1>1, <1>2, RewardsAssumption DEF Bmb!Periods
  <2>2. e.period = p /\ Bmb!Empty.period = 0
    BY DEF Bmb!Empty
  <2>. QED
    BY <2>1, <2>2
<1>. HIDE DEF e
<1>7. data' \in [Bmb!Slots -> Bmb!Entries \cup {Bmb!Empty}]
  BY <1>1, <1>2, <1>5
<1>8. pushes' \in 0..MaxPushes
  BY <1>1, <1>2, PartsAssumption
<1>9. Bmb!TypeOK'
  BY <1>1, <1>4, <1>7, <1>8 DEF Bmb!TypeOK
<1>. QED
  BY <1>1, <1>2, <1>3, <1>6, <1>7, <1>9 DEF e

LEMMA BmbQuiet ==
  ASSUME Bmb!TypeOK, UNCHANGED bmb, period' \in Bmb!Periods
  PROVE  Bmb!TypeOK'
BY DEF bmb, Bmb!TypeOK

LEMMA SatAddType ==
  ASSUME NEW a \in 0..(U32 - 1), NEW b \in Nat
  PROVE  SatAdd32(a, b) \in 0..(U32 - 1)
BY RewardsAssumption DEF SatAdd32

\* The checkers a proof selects under the count of its day.
Chosen(w, p, bits) == Selected(w, p, bits, checker_count(p))

\* What a proof that is taken changes.
Credits(w, p, bits) ==
    LET sel == Chosen(w, p, bits)
    IN  /\ checker_count(p) # None /\ p = PreviousPeriod /\ proofs[<<w, p>>] = None
        /\ sel \subseteq Indexes /\ sel \subseteq Room
        /\ proofs' = [proofs EXCEPT ![<<w, p>>] = bits]
        /\ \A i \in Indexes : checkers'[i] = IF i \in sel THEN SatAdd32(checkers[i], Reward(p))
                                                        ELSE checkers[i]
        /\ UNCHANGED <<period, licences, metadata, paid_out, bmb, treasury, rewards_len, transfers>>

LEMMA SubmitEffect ==
  ASSUME RewardsTypeOK,
         NEW w \in Workers, NEW s \in Keys, NEW p \in ProofPeriods, NEW bits \in SUBSET Bits,
         Submit(w, s, p, bits)
  PROVE  Credits(w, p, bits) /\ RewardsTypeOK'
<1>. DEFINE sel == Chosen(w, p, bits)
<1>1. /\ checker_count(p) # None /\ p = PreviousPeriod /\ proofs[<<w, p>>] = None
      /\ sel \subseteq Indexes /\ sel \subseteq Room
      /\ proofs' = [proofs EXCEPT ![<<w, p>>] = bits]
      /\ checkers' = [i \in Indexes |-> IF i \in sel THEN SatAdd32(checkers[i], Reward(p))
                                                    ELSE checkers[i]]
      /\ UNCHANGED <<period, licences, metadata, paid_out, bmb, treasury, rewards_len, transfers>>
  BY DEF Submit, SubmitWorkerProof, NoProofYet, update_checker_rewards, Chosen
<1>. HIDE DEF sel
<1>2. Reward(p) \in Nat
  BY RewardsAssumption DEF ProofPeriods
<1>3. checkers' \in [Indexes -> 0..(U32 - 1)]
  <2>1. ASSUME NEW i \in Indexes
        PROVE  SatAdd32(checkers[i], Reward(p)) \in 0..(U32 - 1) /\ checkers[i] \in 0..(U32 - 1)
    BY <1>2, SatAddType DEF RewardsTypeOK
  <2>. QED
    BY <1>1, <2>1
<1>4. proofs' \in [Workers \X ProofPeriods -> (SUBSET Bits) \cup {None}]
  BY <1>1 DEF RewardsTypeOK
<1>5. RewardsTypeOK'
  BY <1>1, <1>3, <1>4 DEF RewardsTypeOK, licences, metadata
<1>. QED
  BY <1>1, <1>5 DEF sel, Credits

(***************************************************************************)
(* The instructions that only touch licences and metadata.                 *)
(***************************************************************************)
LEMMA LicencesType ==
  ASSUME RewardsTypeOK, Transfer \/ ActivateLicence
  PROVE  /\ RewardsTypeOK'
         /\ UNCHANGED <<period, rewards, bmb, treasury, rewards_len>>
<1>1. ASSUME NEW w \in Workers, NEW o \in Owners, TransferWorker(w, o)
      PROVE  RewardsTypeOK' /\ UNCHANGED <<period, rewards>>
  BY <1>1 DEF TransferWorker, RewardsTypeOK, metadata, rewards
<1>2. ASSUME NEW c \in Checkers, NEW o \in Owners, TransferChecker(c, o)
      PROVE  RewardsTypeOK' /\ UNCHANGED <<period, rewards>>
  BY <1>2 DEF TransferChecker, RewardsTypeOK, metadata, rewards
<1>3. ASSUME NEW w \in Workers, NEW d \in Keys, NEW u \in Uris, ActivateWorker(w, d, u)
      PROVE  RewardsTypeOK' /\ UNCHANGED <<period, rewards>>
  <2>1. WorkerAccount(w) \in Workers \X Owners
    BY DEF WorkerAccount, RewardsTypeOK
  <2>2. [delegated_to |-> d, discovery_uri |-> u] \in [delegated_to : Keys, discovery_uri : Uris]
    OBVIOUS
  <2>3. worker_metadata' \in [Workers \X Owners ->
                                [delegated_to : Keys, discovery_uri : Uris] \cup {None}]
    BY <1>3, <2>1, <2>2 DEF ActivateWorker, RewardsTypeOK
  <2>. QED
    BY <1>3, <2>3 DEF ActivateWorker, RewardsTypeOK, licences, rewards
<1>4. ASSUME NEW c \in Checkers, NEW d \in Keys, ActivateChecker(c, d)
      PROVE  RewardsTypeOK' /\ UNCHANGED <<period, rewards>>
  <2>1. CheckerAccount(c) \in Checkers \X Owners
    BY DEF CheckerAccount, RewardsTypeOK
  <2>2. checker_metadata' \in [Checkers \X Owners -> Keys \cup {None}]
    BY <1>4, <2>1 DEF ActivateChecker, RewardsTypeOK
  <2>. QED
    BY <1>4, <2>2 DEF ActivateChecker, RewardsTypeOK, licences, rewards
<1>5. ASSUME NEW w \in Workers, NEW s \in Keys, NEW u \in Uris, UpdateWorkerUri(w, s, u)
      PROVE  RewardsTypeOK' /\ UNCHANGED <<period, rewards>>
  <2>. DEFINE account == WorkerAccount(w)
              m == worker_metadata[account]
  <2>1. account \in Workers \X Owners
    BY DEF WorkerAccount, RewardsTypeOK
  <2>2. m \in [delegated_to : Keys, discovery_uri : Uris]
    BY <1>5, <2>1 DEF UpdateWorkerUri, WorkerDelegate, RewardsTypeOK
  <2>3. worker_metadata' = [worker_metadata EXCEPT ![account] = [m EXCEPT !.discovery_uri = u]]
    BY <1>5 DEF UpdateWorkerUri
  <2>. HIDE DEF account
  <2>4. [m EXCEPT !.discovery_uri = u] \in [delegated_to : Keys, discovery_uri : Uris]
    BY <2>2
  <2>5. worker_metadata' \in [Workers \X Owners ->
                                [delegated_to : Keys, discovery_uri : Uris] \cup {None}]
    BY <2>1, <2>3, <2>4 DEF RewardsTypeOK
  <2>. QED
    BY <1>5, <2>5 DEF UpdateWorkerUri, RewardsTypeOK, licences, rewards
<1>. QED
  BY <1>1, <1>2, <1>3, <1>4, <1>5 DEF Transfer, ActivateLicence

LEMMA PayoutType ==
  ASSUME RewardsTypeOK, NEW c \in Checkers, NEW s \in Keys, Payout(c, s)
  PROVE  RewardsTypeOK' /\ UNCHANGED <<bmb, rewards_len, transfers>>
<1>1. c \in Indexes /\ checkers[c] \in Nat /\ paid_out[c] \in Nat
  BY RewardsAssumption DEF Payout, PayoutCheckerRewards, RewardsTypeOK
<1>2. checkers' = [checkers EXCEPT ![c] = 0] /\ paid_out' = [paid_out EXCEPT ![c] = paid_out[c] + checkers[c]]
  BY DEF Payout, PayoutCheckerRewards, reset_checker_balance
<1>3. checkers' \in [Indexes -> 0..(U32 - 1)] /\ paid_out' \in [Indexes -> Nat]
  BY <1>1, <1>2, RewardsAssumption DEF RewardsTypeOK
<1>. QED
  BY <1>3 DEF Payout, PayoutCheckerRewards, RewardsTypeOK, licences, metadata

-----------------------------------------------------------------------------
(* The invariant is inductive.                                             *)

LEMMA InitIInv == Init => IInv
<1>. SUFFICES ASSUME Init PROVE IInv
  OBVIOUS
<1>. QED
  BY LedgerInit, AccountsInit DEF Ledger, Accounts, IInv, TypeOK

LEMMA NextIInv == IInv /\ [Next]_vars => IInv'
<1>. SUFFICES ASSUME IInv, [Next]_vars PROVE IInv'
  OBVIOUS
<1>0. /\ Ledger /\ Accounts
      /\ period \in 0..MaxPeriod /\ Bmb!Periods = 0..MaxPeriod /\ Treasury!Periods = 0..MaxPeriod
  BY DEF IInv, TypeOK, Ledger, Accounts, Bmb!TypeOK, Bmb!Periods, Treasury!Periods
<1>1. Ledger' /\ Accounts' => IInv'
  BY DEF Ledger, Accounts, IInv, TypeOK
<1>2. CASE AdvancePeriod
  <2>1. /\ period' \in 0..MaxPeriod
        /\ UNCHANGED <<licences, metadata, rewards, bmb, treasury, rewards_len, transfers>>
    BY <1>0, <1>2, RewardsAssumption DEF AdvancePeriod
  <2>2. RewardsTypeOK'
    BY <1>0, <2>1 DEF Accounts, RewardsTypeOK, licences, metadata, rewards
  <2>3. Accounts'
    BY <1>0, <2>1, <2>2, BmbQuiet DEF Accounts, Room, rewards
  <2>4. Ledger'
    BY <1>0, <2>1, LedgerQuiet DEF rewards
  <2>. QED
    BY <1>1, <2>3, <2>4
<1>3. CASE InitNetwork
  <2>1. UNCHANGED <<period, licences, metadata, rewards, bmb, treasury, transfers>>
    BY <1>3 DEF InitNetwork
  <2>2. RewardsTypeOK'
    BY <1>0, <2>1 DEF Accounts, RewardsTypeOK, licences, metadata, rewards
  <2>3. rewards_len' \in InitialSpace..LEN /\ Room \subseteq Room'
    BY <1>0, <1>3, InitNetworkEffect
  <2>4. \A i \in Indexes \ Room' : checkers'[i] = 0
    BY <1>0, <2>1, <2>3 DEF Accounts, rewards
  <2>5. Accounts'
    BY <1>0, <2>1, <2>2, <2>3, <2>4, BmbQuiet DEF Accounts
  <2>6. Ledger'
    BY <1>0, <2>1, LedgerQuiet DEF rewards
  <2>. QED
    BY <1>1, <2>5, <2>6
<1>4. ASSUME NEW p \in Bmb!Periods, NEW c \in Counts, ActivateCheckerLicenses(p, c)
      PROVE  IInv'
  <2>1. UNCHANGED <<licences, metadata, rewards, treasury, rewards_len, transfers>>
    BY <1>4 DEF ActivateCheckerLicenses
  <2>2. Bmb!TypeOK' /\ period' = period
    BY <1>0, <1>4, ActivateEffect DEF Accounts
  <2>3. RewardsTypeOK'
    BY <1>0, <2>1 DEF Accounts, RewardsTypeOK, licences, metadata, rewards
  <2>4. Accounts'
    BY <1>0, <2>1, <2>2, <2>3 DEF Accounts, Room, rewards
  <2>5. Ledger'
    BY <1>0, <2>1, <2>2, LedgerQuiet DEF rewards
  <2>. QED
    BY <1>1, <2>4, <2>5
<1>5. CASE Transfer \/ ActivateLicence
  <2>1. /\ RewardsTypeOK'
        /\ UNCHANGED <<period, rewards, bmb, treasury, rewards_len>>
    BY <1>0, <1>5, LicencesType DEF Accounts
  <2>2. transfers' \in 0..MaxTransfers
    BY <1>0, <1>5, DepinAssumption DEF Transfer, ActivateLicence, Accounts
  <2>3. Accounts'
    BY <1>0, <2>1, <2>2, BmbQuiet DEF Accounts, Room, rewards
  <2>4. Ledger'
    BY <1>0, <2>1, LedgerQuiet DEF rewards
  <2>. QED
    BY <1>1, <2>3, <2>4
<1>6. ASSUME NEW w \in Workers, NEW s \in Keys, NEW p \in ProofPeriods, NEW bits \in SUBSET Bits,
             Submit(w, s, p, bits)
      PROVE  IInv'
  <2>. DEFINE sel == Chosen(w, p, bits)
  <2>1. /\ sel \subseteq Room
        /\ \A i \in Indexes \ sel : checkers'[i] = checkers[i]
        /\ RewardsTypeOK'
        /\ UNCHANGED <<period, licences, metadata, paid_out, bmb, treasury, rewards_len, transfers>>
    <3>1. RewardsTypeOK
      BY <1>0 DEF Accounts
    <3>2. Credits(w, p, bits) /\ RewardsTypeOK'
      BY <1>6, <3>1, SubmitEffect
    <3>. QED
      BY <3>2 DEF Credits
  <2>. HIDE DEF sel
  <2>2. \A i \in Indexes \ Room : checkers'[i] = 0
    BY <1>0, <2>1 DEF Accounts
  <2>3. Accounts'
    BY <1>0, <2>1, <2>2, BmbQuiet DEF Accounts, Room
  <2>4. Ledger'
    BY <1>0, <2>1, LedgerQuiet
  <2>. QED
    BY <1>1, <2>3, <2>4
<1>7. ASSUME NEW c \in Checkers, NEW s \in Keys, Payout(c, s)
      PROVE  IInv'
  <2>1. Ledger'
    BY <1>7, LedgerPayout
  <2>2. RewardsTypeOK' /\ UNCHANGED <<bmb, rewards_len, transfers>>
    BY <1>0, <1>7, PayoutType DEF Accounts
  <2>3. checkers' = [checkers EXCEPT ![c] = 0] /\ UNCHANGED period
    BY <1>7 DEF Payout, PayoutCheckerRewards, reset_checker_balance
  <2>4. \A i \in Indexes \ Room : checkers'[i] = 0
    BY <1>0, <2>3 DEF Accounts, RewardsTypeOK
  <2>5. Accounts'
    BY <1>0, <2>2, <2>3, <2>4, BmbQuiet DEF Accounts, Room
  <2>. QED
    BY <1>1, <2>1, <2>5
<1>8. ASSUME UNCHANGED <<period, licences, metadata, rewards, bmb, rewards_len, transfers>>
      PROVE  Accounts'
  <2>1. RewardsTypeOK'
    BY <1>0, <1>8 DEF Accounts, RewardsTypeOK, licences, metadata, rewards
  <2>. QED
    BY <1>0, <1>8, <2>1, BmbQuiet DEF Accounts, Room, rewards
<1>9. ASSUME NEW k \in Treasury!Locks, Unlock(k)
      PROVE  IInv'
  <2>1. Accounts'
    BY <1>8, <1>9 DEF Unlock, Treasury!unlock
  <2>. QED
    BY <1>1, <1>9, <2>1, LedgerUnlock
<1>10. ASSUME NEW a \in 1..Supply, Fund(a)
       PROVE  IInv'
  <2>1. Accounts'
    BY <1>8, <1>10 DEF Fund, Treasury!Fund
  <2>. QED
    BY <1>0, <1>1, <1>10, <2>1, LedgerFund
<1>11. CASE UNCHANGED vars
  <2>1. UNCHANGED <<period, licences, metadata, rewards, bmb, treasury, rewards_len, transfers>>
    BY <1>11 DEF vars
  <2>2. Accounts'
    BY <1>8, <2>1
  <2>3. Ledger'
    BY <1>0, <2>1, LedgerQuiet DEF rewards
  <2>. QED
    BY <1>1, <2>2, <2>3
<1>. QED
  BY <1>2, <1>3, <1>4, <1>5, <1>6, <1>7, <1>9, <1>10, <1>11 DEF Next

(***************************************************************************)
(* The inductive invariant holds in every behaviour of the program.        *)
(***************************************************************************)
THEOREM ProgramInvariant == Spec => []IInv
BY InitIInv, NextIInv, PTL DEF Spec

(***************************************************************************)
(* Every account keeps its type, and a balance the account has no room for *)
(* yet is 0.                                                               *)
(***************************************************************************)
THEOREM TypeCorrect == Spec => []TypeOK
<1>1. IInv => TypeOK
  BY DEF IInv
<1>. QED
  BY <1>1, ProgramInvariant, PTL

(***************************************************************************)
(* What left the balances is what is locked for the owners, to the unit.   *)
(***************************************************************************)
THEOREM PayoutsAreLockedHolds == Spec => []PayoutsAreLocked
<1>1. IInv => PayoutsAreLocked
  BY DEF IInv
<1>. QED
  BY <1>1, ProgramInvariant, PTL

(***************************************************************************)
(* A balance only falls in a payout, which locks all of it for the holder  *)
(* of the licence after that holder activated the checker.                 *)
(***************************************************************************)
LEMMA BalanceFalls ==
  ASSUME IInv, [Next]_vars, NEW i \in Indexes, checkers'[i] < checkers[i]
  PROVE  /\ i \in Checkers
         /\ checkers'[i] = 0
         /\ checker_metadata[CheckerAccount(i)] # None
         /\ LET k == <<checker_owner[i], period>>
            IN  total_locked'[k] = total_locked[k] + checkers[i]
<1>1. RewardsTypeOK /\ checkers[i] \in 0..(U32 - 1)
  BY DEF IInv, TypeOK, RewardsTypeOK
<1>2. checkers'[i] # checkers[i]
  BY <1>1, RewardsAssumption
<1>3. ASSUME NEW w \in Workers, NEW s \in Keys, NEW p \in ProofPeriods, NEW bits \in SUBSET Bits,
             Submit(w, s, p, bits)
      PROVE  FALSE
  <2>1. Credits(w, p, bits)
    BY <1>1, <1>3, SubmitEffect
  <2>2. checkers'[i] = SatAdd32(checkers[i], Reward(p)) \/ checkers'[i] = checkers[i]
    BY <2>1 DEF Credits
  <2>3. Reward(p) \in Nat
    BY RewardsAssumption DEF ProofPeriods
  <2>4. SatAdd32(checkers[i], Reward(p)) >= checkers[i]
    BY <1>1, <2>3, RewardsAssumption DEF SatAdd32
  <2>5. SatAdd32(checkers[i], Reward(p)) \in Int
    BY <1>1, <2>3, RewardsAssumption DEF SatAdd32
  <2>. QED
    BY <1>1, <1>2, <2>2, <2>4, <2>5, RewardsAssumption
<1>4. CASE Transfer \/ ActivateLicence
  BY <1>1, <1>2, <1>4, LicencesType DEF rewards
<1>5. ASSUME NEW c \in Checkers, NEW s \in Keys, Payout(c, s)
      PROVE  /\ i = c
             /\ checkers'[i] = 0
             /\ checker_metadata[CheckerAccount(i)] # None
             /\ LET k == <<checker_owner[i], period>>
                IN  total_locked'[k] = total_locked[k] + checkers[i]
  <2>1. /\ checkers' = [checkers EXCEPT ![c] = 0]
        /\ checker_metadata[CheckerAccount(c)] # None
    BY <1>5 DEF Payout, PayoutCheckerRewards, reset_checker_balance, MayPayOut
  <2>2. i = c /\ checkers'[i] = 0
    BY <1>1, <1>2, <2>1 DEF RewardsTypeOK
  <2>. DEFINE k == <<checker_owner[c], period>>
              a == checkers[c]
  <2>3. /\ k \in Treasury!Locks
        /\ total_locked' = [total_locked EXCEPT ![k] = total_locked[k] + a]
    BY <1>5, PayoutEffect
  <2>4. total_locked \in [Treasury!Locks -> 0..Supply]
    BY DEF IInv, TypeOK, Treasury!TypeOK
  <2>5. total_locked'[k] = total_locked[k] + a
    <3>. HIDE DEF k, a
    <3>. QED
      BY <2>3, <2>4
  <2>. QED
    BY <2>1, <2>2, <2>5
<1>6. UNCHANGED checkers => FALSE
  BY <1>2
<1>. QED
  BY <1>3, <1>4, <1>5, <1>6
     DEF Next, vars, rewards, AdvancePeriod, InitNetwork, ActivateCheckerLicenses, Unlock, Fund

(***************************************************************************)
(* PaidToHolder, for every step: neither the delegate of an earlier holder *)
(* nor anybody else can move a balance away from the holder.               *)
(***************************************************************************)
THEOREM PaidToHolderHolds == Spec => PaidToHolder
<1>. DEFINE Paid ==
       \A i \in Indexes : checkers'[i] < checkers[i] =>
          /\ i \in Checkers
          /\ checkers'[i] = 0
          /\ checker_metadata[CheckerAccount(i)] # None
          /\ LET k == <<checker_owner[i], period>>
             IN  total_locked'[k] = total_locked[k] + checkers[i]
<1>1. IInv /\ [Next]_vars => [Paid]_vars
  <2>. SUFFICES ASSUME IInv, [Next]_vars
                PROVE  Paid
    OBVIOUS
  <2>. QED
    BY BalanceFalls
<1>. QED
  BY <1>1, ProgramInvariant, PTL DEF Spec, PaidToHolder

-----------------------------------------------------------------------------
(* A program that is launched after the genesis day.  On day 0 the day     *)
(* before is the last day of a u16, and the next theorems fail.            *)

LEMMA ModWrap ==
  ASSUME NEW m \in Nat \ {0}, NEW a \in 0..(m - 1)
  PROVE  (a + m) % m = a
OBVIOUS

LEMMA PreviousDay ==
  ASSUME period \in 1..MaxPeriod
  PROVE  PreviousPeriod = period - 1
<1>. DEFINE a == period - 1
<1>1. a \in 0..(U16 - 1) /\ U16 \in Nat \ {0} /\ period + U16 - 1 = a + U16
  BY RewardsAssumption
<1>. HIDE DEF a
<1>2. (a + U16) % U16 = a
  BY <1>1, ModWrap
<1>. QED
  BY <1>1, <1>2 DEF PreviousPeriod, a

Finished == period \in 1..MaxPeriod /\ ProofsOfFinishedDays

LEMMA FinishedInit ==
  ASSUME Launch # 0
  PROVE  Init => Finished
BY DepinAssumption, RewardsAssumption DEF Init, RewardsInit, Finished, ProofsOfFinishedDays

LEMMA FinishedNext == IInv /\ Finished /\ [Next]_vars => Finished'
<1>. SUFFICES ASSUME IInv, Finished, [Next]_vars
              PROVE  Finished'
  OBVIOUS
<1>. USE RewardsAssumption
<1>1. RewardsTypeOK
  BY DEF IInv, TypeOK
<1>2. ASSUME UNCHANGED <<period, proofs>>
      PROVE  Finished'
  BY <1>2 DEF Finished, ProofsOfFinishedDays
<1>3. CASE AdvancePeriod
  BY <1>3 DEF AdvancePeriod, rewards, Finished, ProofsOfFinishedDays, ProofPeriods
<1>4. ASSUME NEW w \in Workers, NEW s \in Keys, NEW p \in ProofPeriods, NEW bits \in SUBSET Bits,
             Submit(w, s, p, bits)
      PROVE  Finished'
  <2>1. Credits(w, p, bits)
    BY <1>1, <1>4, SubmitEffect
  <2>2. p = PreviousPeriod /\ proofs' = [proofs EXCEPT ![<<w, p>>] = bits] /\ period' = period
    BY <2>1 DEF Credits
  <2>3. p < period
    BY <2>2, PreviousDay DEF Finished
  <2>4. ASSUME NEW a \in Workers \X ProofPeriods, proofs'[a] # None
        PROVE  a[2] < period'
    <3>1. CASE a = <<w, p>>
      BY <2>2, <2>3, <3>1
    <3>2. CASE a # <<w, p>>
      <4>1. proofs'[a] = proofs[a]
        BY <1>1, <2>2, <3>2 DEF RewardsTypeOK
      <4>. QED
        BY <2>2, <2>4, <4>1 DEF Finished, ProofsOfFinishedDays
    <3>. QED
      BY <3>1, <3>2
  <2>. QED
    BY <2>2, <2>4 DEF Finished, ProofsOfFinishedDays
<1>5. CASE Transfer \/ ActivateLicence
  BY <1>1, <1>2, <1>5, LicencesType DEF rewards
<1>6. ASSUME NEW c \in Checkers, NEW s \in Keys, Payout(c, s)
      PROVE  UNCHANGED <<period, proofs>>
  BY <1>6 DEF Payout, PayoutCheckerRewards
<1>7. ASSUME NEW p \in Bmb!Periods, NEW c \in Counts, ActivateCheckerLicenses(p, c)
      PROVE  UNCHANGED <<period, proofs>>
  BY <1>7 DEF ActivateCheckerLicenses, Bmb!ActivateCheckerLicenses, rewards
<1>8. InitNetwork \/ UNCHANGED vars => UNCHANGED <<period, proofs>>
  BY DEF InitNetwork, vars, rewards
<1>9. ASSUME NEW k \in Treasury!Locks, Unlock(k)
      PROVE  UNCHANGED <<period, proofs>>
  BY <1>9 DEF Unlock, Treasury!unlock, rewards
<1>10. ASSUME NEW a \in 1..Supply, Fund(a)
       PROVE  UNCHANGED <<period, proofs>>
  BY <1>10 DEF Fund, Treasury!Fund, rewards
<1>. QED
  BY <1>2, <1>3, <1>4, <1>5, <1>6, <1>7, <1>8, <1>9, <1>10 DEF Next

(***************************************************************************)
(* Proofs exist for days that are over only.  The hypothesis is needed: on *)
(* the genesis day the subtraction wraps round.                            *)
(***************************************************************************)
THEOREM ProofsOfFinishedDaysHolds ==
  ASSUME Launch # 0
  PROVE  Spec => []ProofsOfFinishedDays
<1>1. Init => Finished
  BY FinishedInit
<1>2. Finished => ProofsOfFinishedDays
  BY DEF Finished
<1>. QED
  BY <1>1, <1>2, FinishedNext, ProgramInvariant, PTL DEF Spec

-----------------------------------------------------------------------------
(* Until the ring is full, an announcement keeps the count of every day    *)
(* that has begun: the walk finds the same entries one step later.         *)

RingFilled ==
    pushes < Capacity =>
        /\ current_index = pushes
        /\ \A s \in Bmb!Slots : data[s] # Bmb!Empty <=> s < pushes

LEMMA RingFilledInit == Init => RingFilled
BY PartsAssumption DEF Init, Bmb!Init, RingFilled, Bmb!Slots

LEMMA RingFilledNext ==
  ASSUME Bmb!TypeOK, RingFilled,
         NEW p \in Bmb!Periods, NEW c \in Counts, ActivateCheckerLicenses(p, c)
  PROVE  RingFilled'
<1>1. /\ pushes' = pushes + 1
      /\ data'[current_index] # Bmb!Empty
      /\ \A s \in Bmb!Slots \ {current_index} : data'[s] = data[s]
      /\ current_index' = IF current_index + 1 = Capacity THEN 0 ELSE current_index + 1
  BY ActivateEffect
<1>2. pushes \in Nat
  BY PartsAssumption DEF Bmb!TypeOK
<1>. SUFFICES ASSUME pushes + 1 < Capacity
              PROVE  /\ current_index' = pushes + 1
                     /\ \A s \in Bmb!Slots : data'[s] # Bmb!Empty <=> s < pushes + 1
  BY <1>1 DEF RingFilled
<1>3. /\ current_index = pushes
      /\ \A s \in Bmb!Slots : data[s] # Bmb!Empty <=> s < pushes
  BY <1>2, PartsAssumption DEF RingFilled
<1>4. current_index' = pushes + 1
  BY <1>1, <1>2, <1>3
<1>5. ASSUME NEW s \in Bmb!Slots
      PROVE  data'[s] # Bmb!Empty <=> s < pushes + 1
  <2>1. s \in Int
    BY DEF Bmb!Slots
  <2>2. CASE s = pushes
    BY <1>1, <1>2, <1>3, <2>2
  <2>3. CASE s # pushes
    BY <1>1, <1>2, <1>3, <2>1, <2>3
  <2>. QED
    BY <2>2, <2>3
<1>. QED
  BY <1>4, <1>5

\* The walk of the program's schedule, in the terms of the lemmas on rings.
LEMMA CountIsRingCount ==
  ASSUME NEW t
  PROVE  checker_count(t) = RingCount(Capacity, data, current_index, Bmb!Empty, None, t)
BY DEF checker_count, Bmb!get_checker_count_for_period, Bmb!Hits, Bmb!WalkSlot, Bmb!Slots,
       RingCount, RingHits, RingSlot

LEMMA CountFixed ==
  ASSUME Bmb!TypeOK, RingFilled, pushes' < Capacity,
         NEW p \in Bmb!Periods, NEW c \in Counts, ActivateCheckerLicenses(p, c),
         NEW t \in Nat, t <= period
  PROVE  checker_count(t)' = checker_count(t)
<1>1. /\ pushes' = pushes + 1 /\ p > period
      /\ data'[current_index] = [period |-> p, count |-> c]
      /\ data'[current_index] # Bmb!Empty
      /\ \A s \in Bmb!Slots \ {current_index} : data'[s] = data[s]
  BY ActivateEffect
<1>2. /\ pushes \in Nat /\ pushes + 1 < Capacity /\ Capacity \in Nat
      /\ period \in Nat /\ p \in Nat
  BY <1>1, PartsAssumption, RewardsAssumption DEF Bmb!TypeOK, Bmb!Periods
<1>3. /\ current_index = pushes /\ current_index' = pushes + 1
      /\ \A s \in 0..(Capacity - 1) : data[s] # Bmb!Empty <=> s < pushes
  BY <1>1, <1>2, RingFilledNext DEF RingFilled, Bmb!Slots
<1>4. /\ data'[pushes] # Bmb!Empty /\ data'[pushes].period \in Nat /\ data'[pushes].period > t
      /\ \A s \in 0..(Capacity - 1) : s # pushes => data'[s] = data[s]
  BY <1>1, <1>2, <1>3 DEF Bmb!Slots
<1>. DEFINE k == pushes
            e == Bmb!Empty
            count == RingCount(Capacity, data, k, e, None, t)
            count2 == RingCount(Capacity, data', k + 1, e, None, t)
<1>5. count2 = count
  <2>1. k \in Nat /\ k + 1 < Capacity /\ Capacity \in Nat
    BY <1>2
  <2>2. \A s \in 0..(Capacity - 1) : data[s] # e <=> s < k
    BY <1>3
  <2>3. /\ data'[k] # e /\ data'[k].period \in Nat /\ data'[k].period > t
        /\ \A s \in 0..(Capacity - 1) : s # k => data'[s] = data[s]
    BY <1>4
  <2>. HIDE DEF k, e
  <2>. QED
    BY <2>1, <2>2, <2>3, RingCountFixed
<1>. HIDE DEF k, e, count, count2
<1>6. checker_count(t) = count
  BY <1>3, CountIsRingCount DEF count, k, e
<1>7. checker_count(t)' = count2
  BY <1>3
     DEF checker_count, Bmb!get_checker_count_for_period, Bmb!Hits, Bmb!WalkSlot, Bmb!Slots,
         RingCount, RingHits, RingSlot, count2, k, e
<1>. QED
  BY <1>5, <1>6, <1>7

-----------------------------------------------------------------------------
(* Balances can be recomputed.                                             *)

\* The counts of all days, as one value.
CountOf == [t \in ProofPeriods |-> checker_count(t)]

\* The proofs that select index i.
Selecting(i) == {a \in Workers \X ProofPeriods :
                    /\ proofs[a] # None
                    /\ CountOf[a[2]] # None
                    /\ i \in Selected(a[1], a[2], proofs[a], CountOf[a[2]])}

RewardOf == [a \in Workers \X ProofPeriods |-> Reward(a[2])]

Due(i) == Total(RewardOf, Selecting(i))

Replayable(i) == LET got == checkers[i] + paid_out[i]
                 IN  got <= Due(i) /\ (Due(i) < U32 => got = Due(i))

LEMMA SelectingFinite ==
  ASSUME NEW i \in Indexes
  PROVE  /\ Selecting(i) \in SUBSET (Workers \X ProofPeriods)
         /\ IsFiniteSet(Selecting(i))
         /\ \A a \in Workers \X ProofPeriods : RewardOf[a] \in Nat \ {0}
         /\ Due(i) \in Nat
<1>1. Selecting(i) \in SUBSET (Workers \X ProofPeriods)
  BY DEF Selecting
<1>2. IsFiniteSet(Workers \X ProofPeriods)
  <2>1. 0 \in Int /\ U16 - 1 \in Int
    BY RewardsAssumption
  <2>2. IsFiniteSet(ProofPeriods)
    BY <2>1, FS_Interval DEF ProofPeriods
  <2>. QED
    BY <2>2, RewardsAssumption, FS_Product
<1>3. IsFiniteSet(Selecting(i))
  BY <1>1, <1>2, FS_Subset
<1>4. \A a \in Workers \X ProofPeriods : RewardOf[a] \in Nat \ {0}
  BY RewardsAssumption DEF RewardOf, ProofPeriods
<1>5. \A a \in Selecting(i) : RewardOf[a] \in Nat
  BY <1>1, <1>4
<1>6. Due(i) \in Nat
  BY <1>3, <1>5, TotalType DEF Due
<1>. QED
  BY <1>1, <1>3, <1>4, <1>6

LEMMA EarnedIsDue ==
  ASSUME NEW i \in Indexes
  PROVE  Earned(i) = Due(i)
<1>. DEFINE S == {a \in Workers \X ProofPeriods :
                    /\ proofs[a] # None
                    /\ LET count == checker_count(a[2])
                       IN  count # None /\ i \in Selected(a[1], a[2], proofs[a], count)}
            f == [a \in S |-> Reward(a[2])]
<1>1. \A a \in Workers \X ProofPeriods : CountOf[a[2]] = checker_count(a[2])
  BY DEF CountOf
<1>2. S = Selecting(i)
  BY <1>1 DEF Selecting
<1>3. Earned(i) = Total(f, S)
  BY DEF Earned
<1>4. \A a \in S : f[a] = RewardOf[a]
  BY DEF RewardOf
<1>. HIDE DEF f, S
<1>5. Total(f, S) = Total(RewardOf, S)
  BY <1>4, TotalSame
<1>. QED
  BY <1>2, <1>3, <1>5 DEF Due

Replay == pushes < Capacity => \A i \in Indexes : Replayable(i)

LEMMA ReplayInit == Init => Replay
<1>. SUFFICES ASSUME Init, NEW i \in Indexes PROVE Replayable(i)
  BY DEF Replay
<1>1. Selecting(i) = {}
  BY DEF Init, RewardsInit, Selecting
<1>2. Due(i) = 0
  BY <1>1, TotalZero DEF Due
<1>. QED
  BY <1>2 DEF Replayable, Init, RewardsInit

(***************************************************************************)
(* What a payout or any other step leaves of a balance is what it was.     *)
(***************************************************************************)
LEMMA ReplaySame ==
  ASSUME Replay, RewardsTypeOK, pushes' < Capacity => pushes < Capacity,
         proofs' = proofs,
         pushes' < Capacity => \A a \in Workers \X ProofPeriods :
                                  proofs[a] # None => CountOf'[a[2]] = CountOf[a[2]],
         \A i \in Indexes : checkers'[i] + paid_out'[i] = checkers[i] + paid_out[i]
  PROVE  Replay'
<1>. SUFFICES ASSUME pushes' < Capacity, NEW i \in Indexes PROVE Replayable(i)'
  BY DEF Replay
<1>1. Selecting(i)' = Selecting(i)
  BY DEF Selecting, Selected
<1>2. Due(i)' = Due(i)
  BY <1>1 DEF Due
<1>. QED
  BY <1>2 DEF Replay, Replayable

LEMMA CountsSame ==
  ASSUME UNCHANGED bmb
  PROVE  CountOf' = CountOf
BY DEF bmb, CountOf, checker_count, Bmb!get_checker_count_for_period, Bmb!Hits, Bmb!WalkSlot

(***************************************************************************)
(* A proof credits its reward to the checkers it selects and adds itself   *)
(* to what entitles them; saturation only ever leaves a balance short.     *)
(***************************************************************************)
LEMMA ReplaySubmit ==
  ASSUME Replay, RewardsTypeOK,
         NEW w \in Workers, NEW p \in ProofPeriods, NEW bits \in SUBSET Bits,
         Credits(w, p, bits)
  PROVE  Replay'
<1>. DEFINE b == <<w, p>>
            R == Reward(p)
<1>1. /\ checker_count(p) # None /\ proofs[b] = None
      /\ proofs' = [proofs EXCEPT ![b] = bits]
      /\ \A i \in Indexes : checkers'[i] = IF i \in Chosen(w, p, bits)
                                           THEN SatAdd32(checkers[i], R) ELSE checkers[i]
      /\ paid_out' = paid_out
      /\ UNCHANGED bmb
  BY DEF Credits
<1>. SUFFICES ASSUME pushes < Capacity, NEW i \in Indexes PROVE Replayable(i)'
  BY <1>1 DEF Replay, bmb
<1>2. b \in Workers \X ProofPeriods /\ b[1] = w /\ b[2] = p
  OBVIOUS
<1>3. CountOf' = CountOf /\ CountOf[p] = checker_count(p)
  BY <1>1, CountsSame DEF CountOf
<1>4. /\ checkers[i] \in Nat /\ checkers[i] <= U32 - 1 /\ paid_out[i] \in Nat
      /\ U32 \in Nat \ {0}
  BY RewardsAssumption DEF RewardsTypeOK
<1>5. R \in Nat
  BY RewardsAssumption DEF ProofPeriods
<1>6. /\ checkers[i] + paid_out[i] <= Due(i)
      /\ Due(i) < U32 => checkers[i] + paid_out[i] = Due(i)
  BY DEF Replay, Replayable
<1>7. b \notin Selecting(i)
  BY <1>1 DEF Selecting
<1>8. ASSUME NEW a \in Workers \X ProofPeriods, a # b
      PROVE  a \in Selecting(i)' <=> a \in Selecting(i)
  <2>1. proofs'[a] = proofs[a]
    BY <1>1, <1>2, <1>8 DEF RewardsTypeOK
  <2>. QED
    BY <2>1, <1>3 DEF Selecting, Selected
<1>9. b \in Selecting(i)' <=> i \in Chosen(w, p, bits)
  <2>1. proofs'[b] = bits /\ bits # None
    BY <1>1, <1>2, RewardsAssumption DEF RewardsTypeOK
  <2>2. b \in Selecting(i)' <=> /\ proofs'[b] # None /\ CountOf'[b[2]] # None
                               /\ i \in Selected(b[1], b[2], proofs'[b], CountOf'[b[2]])
    BY <1>2 DEF Selecting, Selected
  <2>3. CountOf'[b[2]] = checker_count(p)
    BY <1>2, <1>3
  <2>4. Selected(b[1], b[2], proofs'[b], CountOf'[b[2]]) = Selected(w, p, bits, checker_count(p))
    BY <1>2, <2>1, <2>3
  <2>. QED
    BY <1>1, <2>1, <2>2, <2>3, <2>4 DEF Chosen
<1>10. /\ Selecting(i)' \subseteq Workers \X ProofPeriods
       /\ Selecting(i) \subseteq Workers \X ProofPeriods
       /\ IsFiniteSet(Selecting(i))
       /\ \A a \in Workers \X ProofPeriods : RewardOf[a] \in Nat
       /\ Due(i) \in Nat
       /\ RewardOf[b] = R
  BY <1>2, SelectingFinite DEF Selecting, RewardOf
<1>11. CASE i \in Chosen(w, p, bits)
  <2>1. Selecting(i)' = Selecting(i) \cup {b}
    BY <1>2, <1>8, <1>9, <1>10, <1>11
  <2>2. Due(i)' = Due(i) + R
    <3>1. \A a \in Selecting(i) \cup {b} : RewardOf[a] \in Nat
      BY <1>2, <1>10
    <3>. HIDE DEF b
    <3>2. Total(RewardOf, Selecting(i) \cup {b}) = Total(RewardOf, Selecting(i)) + RewardOf[b]
      BY <1>7, <1>10, <3>1, TotalInsert
    <3>. QED
      BY <2>1, <1>10, <3>2 DEF Due
  <2>. HIDE DEF R
  <2>3. checkers'[i] = IF checkers[i] + R < U32 THEN checkers[i] + R ELSE U32 - 1
    BY <1>1, <1>11 DEF SatAdd32
  <2>4. /\ checkers'[i] + paid_out[i] <= Due(i) + R
        /\ Due(i) + R < U32 => checkers'[i] + paid_out[i] = Due(i) + R
    BY <2>3, <1>4, <1>5, <1>6, <1>10
  <2>. QED
    BY <2>2, <2>4, <1>1 DEF Replayable
<1>12. CASE i \notin Chosen(w, p, bits)
  <2>1. Selecting(i)' = Selecting(i)
    BY <1>2, <1>7, <1>8, <1>9, <1>10, <1>12
  <2>2. Due(i)' = Due(i)
    BY <2>1 DEF Due
  <2>3. checkers'[i] = checkers[i]
    BY <1>1, <1>12
  <2>. QED
    BY <2>2, <2>3, <1>1, <1>6 DEF Replayable
<1>. QED
  BY <1>11, <1>12

LEMMA ReplayNext ==
  ASSUME IInv, Finished, RingFilled, Replay, [Next]_vars
  PROVE  RingFilled' /\ Replay'
<1>0. RewardsTypeOK /\ Bmb!TypeOK
  BY DEF IInv, TypeOK
<1>1. ASSUME UNCHANGED bmb
      PROVE  RingFilled'
  BY <1>1 DEF bmb, RingFilled
<1>2. ASSUME UNCHANGED <<bmb, proofs>>,
             \A i \in Indexes : checkers'[i] + paid_out'[i] = checkers[i] + paid_out[i]
      PROVE  RingFilled' /\ Replay'
  BY <1>0, <1>1, <1>2, CountsSame, ReplaySame DEF bmb
<1>3. CASE AdvancePeriod \/ InitNetwork \/ UNCHANGED vars
  BY <1>2, <1>3 DEF AdvancePeriod, InitNetwork, vars, rewards
<1>4. CASE Transfer \/ ActivateLicence
  BY <1>0, <1>2, <1>4, LicencesType DEF rewards
<1>5. ASSUME NEW w \in Workers, NEW s \in Keys, NEW p \in ProofPeriods, NEW bits \in SUBSET Bits,
             Submit(w, s, p, bits)
      PROVE  RingFilled' /\ Replay'
  <2>1. Credits(w, p, bits)
    BY <1>0, <1>5, SubmitEffect
  <2>. QED
    BY <1>0, <1>1, <2>1, ReplaySubmit DEF Credits
<1>6. ASSUME NEW c \in Checkers, NEW s \in Keys, Payout(c, s)
      PROVE  RingFilled' /\ Replay'
  <2>1. /\ c \in Indexes /\ UNCHANGED <<bmb, proofs>>
        /\ checkers' = [checkers EXCEPT ![c] = 0]
        /\ paid_out' = [paid_out EXCEPT ![c] = paid_out[c] + checkers[c]]
    BY <1>6 DEF Payout, PayoutCheckerRewards, reset_checker_balance
  <2>2. ASSUME NEW i \in Indexes
        PROVE  checkers'[i] + paid_out'[i] = checkers[i] + paid_out[i]
    <3>1. checkers[i] \in Nat /\ paid_out[i] \in Nat
      BY <1>0, RewardsAssumption DEF RewardsTypeOK
    <3>2. CASE i = c
      <4>1. checkers'[i] = 0 /\ paid_out'[i] = paid_out[i] + checkers[i]
        BY <1>0, <2>1, <3>2 DEF RewardsTypeOK
      <4>. QED
        BY <3>1, <4>1
    <3>3. CASE i # c
      BY <1>0, <2>1, <3>3 DEF RewardsTypeOK
    <3>. QED
      BY <3>2, <3>3
  <2>. QED
    BY <1>2, <2>1, <2>2
<1>7. ASSUME NEW p \in Bmb!Periods, NEW c \in Counts, ActivateCheckerLicenses(p, c)
      PROVE  RingFilled' /\ Replay'
  <2>1. RingFilled'
    BY <1>0, <1>7, RingFilledNext
  <2>2. UNCHANGED rewards /\ pushes' = pushes + 1 /\ pushes \in Nat
    <3>1. pushes' = pushes + 1
      BY <1>0, <1>7, ActivateEffect
    <3>2. UNCHANGED rewards
      BY <1>7 DEF ActivateCheckerLicenses
    <3>. QED
      BY <1>0, <3>1, <3>2, PartsAssumption DEF Bmb!TypeOK
  <2>3. ASSUME pushes' < Capacity, NEW a \in Workers \X ProofPeriods, proofs[a] # None
        PROVE  CountOf'[a[2]] = CountOf[a[2]]
    <3>. DEFINE t == a[2]
    <3>1. t \in ProofPeriods /\ t < period
      BY <2>3 DEF Finished, ProofsOfFinishedDays
    <3>. HIDE DEF t
    <3>2. t \in Nat /\ t <= period
      BY <3>1, RewardsAssumption DEF Finished, ProofPeriods
    <3>3. \A u \in Nat : u <= period => checker_count(u)' = checker_count(u)
      BY <1>0, <1>7, <2>3, CountFixed
    <3>4. \A u \in ProofPeriods : CountOf[u] = checker_count(u) /\ CountOf'[u] = checker_count(u)'
      BY DEF CountOf
    <3>5. CountOf'[t] = CountOf[t]
      BY <3>1, <3>2, <3>3, <3>4
    <3>. QED
      BY <3>5 DEF t
  <2>4. Replay'
    <3>1. pushes' < Capacity => pushes < Capacity
      BY <2>2, PartsAssumption
    <3>. QED
      BY <1>0, <2>2, <2>3, <3>1, ReplaySame DEF rewards
  <2>. QED
    BY <2>1, <2>4
<1>8. ASSUME NEW k \in Treasury!Locks, Unlock(k)
      PROVE  RingFilled' /\ Replay'
  BY <1>2, <1>8 DEF Unlock, rewards
<1>9. ASSUME NEW a \in 1..Supply, Fund(a)
      PROVE  RingFilled' /\ Replay'
  BY <1>2, <1>9 DEF Fund, rewards
<1>. QED
  BY <1>3, <1>4, <1>5, <1>6, <1>7, <1>8, <1>9 DEF Next

(***************************************************************************)
(* While fewer announcements were made than the ring has slots, every      *)
(* balance and payout can be recomputed from the proofs on chain.          *)
(***************************************************************************)
THEOREM BalancesReplayableHolds ==
  ASSUME Launch # 0
  PROVE  Spec => []BalancesReplayable
<1>1. Init => Finished /\ RingFilled /\ Replay
  BY FinishedInit, RingFilledInit, ReplayInit
<1>2. IInv /\ Finished /\ RingFilled /\ Replay /\ [Next]_vars => RingFilled' /\ Replay'
  BY ReplayNext
<1>3. Replay => BalancesReplayable
  BY EarnedIsDue DEF Replay, Replayable, BalancesReplayable
<1>. QED
  BY <1>1, <1>2, <1>3, FinishedNext, ProgramInvariant, PTL DEF Spec

-----------------------------------------------------------------------------
(* The program and its parts.                                              *)

(***************************************************************************)
(* Seen from the treasury's variables the program does only what Treasury  *)
(* allows: what is proved of Treasury alone holds in the program.          *)
(***************************************************************************)
THEOREM ProgramImplementsTreasury == Spec => Treasury!Spec
<1>1. Init => Treasury!Init
  BY DEF Init
<1>2. IInv /\ [Next]_vars => [Treasury!Next]_(Treasury!vars)
  <2>. SUFFICES ASSUME IInv, [Next]_vars PROVE [Treasury!Next]_(Treasury!vars)
    OBVIOUS
  <2>1. ASSUME UNCHANGED <<period, treasury>>
        PROVE  UNCHANGED Treasury!vars
    BY <2>1 DEF treasury, Treasury!vars
  <2>2. CASE AdvancePeriod
    BY <2>2 DEF AdvancePeriod, treasury, Treasury!Next, Treasury!AdvancePeriod, Treasury!locks
  <2>3. CASE InitNetwork \/ UNCHANGED vars
    BY <2>1, <2>3 DEF InitNetwork, vars
  <2>4. ASSUME NEW p \in Bmb!Periods, NEW c \in Counts, ActivateCheckerLicenses(p, c)
        PROVE  UNCHANGED Treasury!vars
    BY <2>1, <2>4 DEF ActivateCheckerLicenses, Bmb!ActivateCheckerLicenses
  <2>5. CASE Transfer \/ ActivateLicence
    BY <2>1, <2>5, LicencesType DEF IInv, TypeOK
  <2>6. ASSUME NEW w \in Workers, NEW s \in Keys, NEW p \in ProofPeriods, NEW bits \in SUBSET Bits,
               Submit(w, s, p, bits)
        PROVE  UNCHANGED Treasury!vars
    BY <2>1, <2>6 DEF Submit, SubmitWorkerProof
  <2>7. ASSUME NEW c \in Checkers, NEW s \in Keys, Payout(c, s)
        PROVE  Treasury!Next
    <3>. DEFINE a == checkers[c]
                o == checker_owner[c]
    <3>1. Treasury!grant_locked(o, a)
      BY <2>7 DEF Payout, execute_payout, Recipient
    <3>2. o \in Owners
      BY DEF IInv, TypeOK, RewardsTypeOK
    <3>3. a \in 1..(U32 - 1)
      BY <2>7, RewardsAssumption DEF Payout, PayoutCheckerRewards, IInv, TypeOK, RewardsTypeOK
    <3>. HIDE DEF a, o
    <3>. QED
      BY <3>1, <3>2, <3>3 DEF Treasury!Next
  <2>8. ASSUME NEW k \in Treasury!Locks, Unlock(k)
        PROVE  Treasury!Next
    BY <2>8 DEF Unlock, Treasury!Next
  <2>9. ASSUME NEW a \in 1..Supply, Fund(a)
        PROVE  Treasury!Next
    BY <2>9 DEF Fund, Treasury!Next
  <2>. QED
    BY <2>2, <2>3, <2>4, <2>5, <2>6, <2>7, <2>8, <2>9 DEF Next
<1>. QED
  BY <1>1, <1>2, ProgramInvariant, PTL DEF Spec, Treasury!Spec

(***************************************************************************)
(* Seen from the schedule's variables it does only what BmbState allows.   *)
(***************************************************************************)
THEOREM ProgramImplementsBmbState == Spec => Bmb!Spec
<1>1. Init => Bmb!Init
  BY DEF Init, Bmb!Init
<1>2. IInv /\ [Next]_vars => [Bmb!Next]_(Bmb!vars)
  <2>. SUFFICES ASSUME IInv, [Next]_vars PROVE [Bmb!Next]_(Bmb!vars)
    OBVIOUS
  <2>1. ASSUME UNCHANGED <<period, bmb>>
        PROVE  UNCHANGED Bmb!vars
    BY <2>1 DEF bmb, Bmb!vars
  <2>2. CASE AdvancePeriod
    BY <2>2 DEF AdvancePeriod, bmb, Bmb!Next, Bmb!AdvancePeriod
  <2>3. CASE InitNetwork \/ UNCHANGED vars
    BY <2>1, <2>3 DEF InitNetwork, vars
  <2>4. ASSUME NEW p \in Bmb!Periods, NEW c \in Counts, ActivateCheckerLicenses(p, c)
        PROVE  Bmb!Next
    BY <2>4 DEF ActivateCheckerLicenses, Bmb!Next
  <2>5. CASE Transfer \/ ActivateLicence
    BY <2>1, <2>5, LicencesType DEF IInv, TypeOK
  <2>6. ASSUME NEW w \in Workers, NEW s \in Keys, NEW p \in ProofPeriods, NEW bits \in SUBSET Bits,
               Submit(w, s, p, bits)
        PROVE  UNCHANGED Bmb!vars
    BY <2>1, <2>6 DEF Submit, SubmitWorkerProof
  <2>7. ASSUME NEW c \in Checkers, NEW s \in Keys, Payout(c, s)
        PROVE  UNCHANGED Bmb!vars
    BY <2>1, <2>7 DEF Payout, PayoutCheckerRewards
  <2>8. ASSUME NEW k \in Treasury!Locks, Unlock(k)
        PROVE  UNCHANGED Bmb!vars
    BY <2>1, <2>8 DEF Unlock, Treasury!unlock
  <2>9. ASSUME NEW a \in 1..Supply, Fund(a)
        PROVE  UNCHANGED Bmb!vars
    BY <2>1, <2>9 DEF Fund, Treasury!Fund
  <2>. QED
    BY <2>2, <2>3, <2>4, <2>5, <2>6, <2>7, <2>8, <2>9 DEF Next
<1>. QED
  BY <1>1, <1>2, ProgramInvariant, PTL DEF Spec, Bmb!Spec
=============================================================================
