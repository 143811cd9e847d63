------------------------------- MODULE Treasury -------------------------------
(***************************************************************************)
(* The treasury: TreasuryState.locked_balance, the treasury's token        *)
(* account, and the LockedTokens accounts that reward payouts create and   *)
(* owners unlock.                                                          *)
(*                                                                         *)
(* A LockedTokens account lives at an address derived from the owner, the  *)
(* lock period and the unlock period.  The lock duration is one constant   *)
(* of the TreasuryConfig account that no instruction changes, so <<owner,  *)
(* lock period>> identifies the account.  An account that does not exist   *)
(* is one with nothing locked: grants are for positive amounts only.       *)
(***************************************************************************)
EXTENDS Naturals, FiniteSets, Totals

CONSTANTS Owners,
          MaxPeriod,    \* bound: the last day the clock reaches
          LockDays,     \* TreasuryConfig.checker_rewards_lock_days
          U16, U64,     \* the number of values of a u16 and of a u64
          Supply,       \* bound: BMB ever sent to the treasury
          Amounts,      \* bound: the reward balances paid out
          None          \* Option::None

ASSUME TreasuryAssumption == /\ IsFiniteSet(Owners)
                             /\ MaxPeriod \in Nat
                             /\ LockDays \in Nat
                             /\ U16 \in Nat \ {0}
                             /\ U64 \in Nat \ {0}
                             /\ MaxPeriod < U16
                             /\ Supply \in Nat
                             /\ Amounts \subseteq Nat \ {0}
                             /\ None \notin Nat

\* total_locked * penalty_rate does not overflow a u64.
ASSUME ProductFits == Supply * 9000 < U64

VARIABLES period,           \* get_current_period()
          ata,              \* balance of the treasury's token account
          locked_balance,   \* TreasuryState.locked_balance
          total_locked,     \* LockedTokens.total_locked of each account
          unlocked_at,      \* LockedTokens.unlocked_at, as a period
          wallet,           \* balance of each owner's token account
          funded            \* BMB ever sent to the treasury

locks == <<total_locked, unlocked_at>>
vars  == <<period, ata, locked_balance, total_locked, unlocked_at, wallet, funded>>

Periods == 0..MaxPeriod
Locks   == Owners \X Periods

TypeOK == /\ period \in Periods
          /\ ata \in 0..Supply
          /\ locked_balance \in 0..Supply
          /\ total_locked \in [Locks -> 0..Supply]
          /\ unlocked_at \in [Locks -> Periods \cup {None}]
          /\ wallet \in [Owners -> Nat]
          /\ funded \in 0..Supply

-----------------------------------------------------------------------------
(* Arithmetic of the program.                                              *)

SatAdd(a, b) == IF a + b < U64 THEN a + b ELSE U64 - 1
SatSub(a, b) == IF a >= b THEN a - b ELSE 0

unlock_period(lock_period) == (lock_period + LockDays) % U16

\* A faulty rate: nothing is deducted from a duration that runs backwards.
calculate_penalty_rate_Reversed(lock_period, current_period) ==
    LET dur       == SatSub(unlock_period(lock_period), lock_period)
        elapsed   == SatSub(current_period, lock_period)
    IN  IF dur = 0 THEN 0 ELSE (9000 * (IF elapsed < dur THEN elapsed ELSE dur)) \div dur

\* Basis points: 90 % on the day of the lock, falling linearly to 0 on the
\* unlock day.
calculate_penalty_rate(lock_period, current_period) ==
    LET dur       == SatSub(unlock_period(lock_period), lock_period)
        left      == SatSub(unlock_period(lock_period), current_period)
        remaining == IF left < dur THEN left ELSE dur
    IN  IF dur = 0 THEN 0 ELSE (9000 * remaining) \div dur

penalty_amount(k, at) ==
    ((total_locked[k] * calculate_penalty_rate(k[2], at)) % U64) \div 10000

payout_amount(k, at) == total_locked[k] - penalty_amount(k, at)

-----------------------------------------------------------------------------

Init == /\ period \in Periods
        /\ ata = 0
        /\ locked_balance = 0
        /\ total_locked = [k \in Locks |-> 0]
        /\ unlocked_at = [k \in Locks |-> None]
        /\ wallet = [o \in Owners |-> 0]
        /\ funded = 0

AdvancePeriod == /\ period < MaxPeriod
                 /\ period' = period + 1
                 /\ UNCHANGED <<ata, locked_balance, locks, wallet, funded>>

\* Somebody sends BMB to the treasury's token account.
Fund(amount) == /\ funded + amount <= Supply
                /\ funded' = funded + amount
                /\ ata' = ata + amount
                /\ UNCHANGED <<period, locked_balance, locks, wallet>>

\* A faulty balance: tokens already committed count as available.
available_balance_All == ata

\* What a grant may still commit.
available_balance == SatSub(ata, locked_balance)

add_locked_balance(amount) == locked_balance' = SatAdd(locked_balance, amount)

\* A faulty release: the penalty stays committed.
subtract_locked_balance_PayoutOnly(k) ==
    locked_balance' = SatSub(locked_balance, payout_amount(k, period))

\* Unlocking releases the whole commitment of the account.
subtract_locked_balance(k) ==
    locked_balance' = SatSub(locked_balance, total_locked[k])

\* A faulty check: an unlocked account can be used again.
NotUnlocked_Unchecked(k) == TRUE

NotUnlocked(k) == unlocked_at[k] = None

\* grant_locked: creates the account of the owner and the day, or adds to it
\* unless it was unlocked.
grant_locked(o, amount) ==
    LET k == <<o, period>>
    IN  /\ available_balance >= amount
        /\ NotUnlocked(k)
        /\ total_locked' = [total_locked EXCEPT ![k] = SatAdd(@, amount)]
        /\ add_locked_balance(amount)
        /\ UNCHANGED <<period, ata, unlocked_at, wallet, funded>>

\* The Unlock instruction, signed by the owner k[1].  The token program refuses
\* a transfer of more than the account holds.  The penalty stays in the ata.
unlock(k) ==
    LET payout == payout_amount(k, period)
    IN  /\ total_locked[k] # 0
        /\ NotUnlocked(k)
        /\ payout <= ata
        /\ ata' = ata - payout
        /\ wallet' = [wallet EXCEPT ![k[1]] = @ + payout]
        /\ subtract_locked_balance(k)
        /\ unlocked_at' = [unlocked_at EXCEPT ![k] = period]
        /\ UNCHANGED <<period, total_locked, funded>>

Next == \/ AdvancePeriod
        \/ \E a \in 1..Supply : Fund(a)
        \/ \E o \in Owners, a \in Amounts : grant_locked(o, a)
        \/ \E k \in Locks : unlock(k)

Spec == Init /\ [][Next]_vars

-----------------------------------------------------------------------------
(* Properties.                                                             *)

\* No grant commits tokens the treasury does not hold, and no unlock takes the
\* balance below what the other accounts are owed.
Solvent == locked_balance <= ata

\* The units of BMB locked in accounts that were not unlocked.
CommittedUnits == {u \in Locks \X (1..Supply) : /\ unlocked_at[u[1]] = None
                                                /\ u[2] <= total_locked[u[1]]}

\* The counter kept in TreasuryState is exactly what is locked in the accounts:
\* the saturating arithmetic never loses a commitment.
CommitmentExact == locked_balance = Cardinality(CommittedUnits)

\* What an owner received is what the records of the unlocked accounts say:
\* each was paid once, at the rate of the day it was unlocked.
WalletsArePayouts ==
    \A o \in Owners :
        LET settled == {k \in Locks : k[1] = o /\ unlocked_at[k] # None}
        IN  wallet[o] = Total([k \in settled |-> payout_amount(k, unlocked_at[k])], settled)

\* Waiting never costs an owner anything, and an account is paid in full from
\* its unlock day on.
WaitingPays ==
    \A k \in Locks : unlocked_at[k] = None =>
        \A p, q \in k[2]..MaxPeriod :
            /\ p <= q => payout_amount(k, p) <= payout_amount(k, q)
            /\ q >= unlock_period(k[2]) => payout_amount(k, q) = total_locked[k]

\* An unlocked account is closed for good: no payout adds to it, nobody unlocks
\* it again.
SettledForever ==
    [][\A k \in Locks : unlocked_at[k] # None =>
          /\ total_locked'[k] = total_locked[k]
          /\ unlocked_at'[k] = unlocked_at[k]]_vars

\* The treasury implements RewardVault: free tokens are those not committed, an
\* owner's claims are the units locked in the owner's accounts.
Claims(o) == Cardinality({u \in CommittedUnits : u[1][1] = o})

Vault == INSTANCE RewardVault WITH
             free   <- ata - locked_balance,
             claims <- [o \in Owners |-> Claims(o)],
             paid   <- wallet

RefinesVault == Vault!Spec
=============================================================================
