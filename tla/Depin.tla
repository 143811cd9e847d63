--------------------------------- MODULE Depin ---------------------------------
(***************************************************************************)
(* The DePIN program as a whole: the worker and checker instructions of    *)
(* Rewards, the checker schedule of BmbState, the Treasury and InitNetwork *)
(* on one chain with one clock.  An instruction is one transaction: it     *)
(* happens completely or, when a guard fails, not at all.                  *)
(***************************************************************************)
EXTENDS Rewards, Totals

CONSTANTS Launch,       \* the day the program is put to use
          Capacity, Counts, MaxPushes,      \* of BmbState
          LockDays, U64, Supply,            \* of Treasury
          InitialSpace, MaxIncrease,        \* 8 and 10 240 bytes in the program
          MaxTransfers  \* bound: how often licences change hands

ASSUME DepinAssumption == /\ Launch \in 0..MaxPeriod
                          /\ {InitialSpace, MaxIncrease} \subseteq Nat \ {0}
                          /\ InitialSpace <= 1 + 4 * Elements
                          /\ MaxTransfers \in Nat

\* What BmbState and Treasury assume of their constants.
ASSUME PartsAssumption == /\ Capacity \in Nat \ {0, 1}
                          /\ Counts \subseteq Nat
                          /\ MaxPushes \in Nat
                          /\ IsFiniteSet(Owners)
                          /\ LockDays \in Nat
                          /\ U64 \in Nat \ {0}
                          /\ Supply \in Nat
                          /\ Supply * 9000 < U64
                          /\ None \notin Nat

VARIABLES data, current_index, pushes,                          \* of BmbState
          ata, locked_balance, total_locked, unlocked_at, wallet, funded,
                                                                \* of Treasury
          rewards_len,  \* bytes of the GlobalRewards account, 0 before it exists
          transfers     \* how often licences changed hands

bmb      == <<data, current_index, pushes>>
treasury == <<ata, locked_balance, total_locked, unlocked_at, wallet, funded>>
vars     == <<period, licences, metadata, rewards, bmb, treasury, rewards_len, transfers>>

\* What a chain instruction reads, it uses at once: the recorded answer of
\* BmbState plays no part here.
Bmb == INSTANCE BmbState WITH answer <- [target |-> Launch, count |-> None]

Treasury == INSTANCE Treasury WITH Amounts <- 1..(U32 - 1)

\* GlobalRewards::LEN: a discriminator and a u32 for each element.
LEN == 1 + 4 * Elements

\* The balances the account has room for now.
Room == {i \in Indexes : 1 + 4 * (i + 1) <= rewards_len}

TypeOK == /\ RewardsTypeOK
          /\ rewards_len \in {0} \cup InitialSpace..LEN
          /\ \A i \in Indexes \ Room : checkers[i] = 0
          /\ Treasury!TypeOK
          /\ Bmb!TypeOK
          /\ transfers \in 0..MaxTransfers

Init == /\ RewardsInit
        /\ Bmb!Init
        /\ Treasury!Init
        /\ period = Launch
        /\ rewards_len = 0
        /\ transfers = 0

-----------------------------------------------------------------------------

AdvancePeriod == /\ period < MaxPeriod
                 /\ period' = period + 1
                 /\ UNCHANGED <<licences, metadata, rewards, bmb, treasury, rewards_len, transfers>>

\* The first call creates GlobalRewards, in part, with TreasuryState and
\* TreasuryConfig; each further call, of anybody, extends it until it has its size.
\* New bytes are zero and those there already stay.
InitNetwork == /\ rewards_len' = IF rewards_len = 0
                                 THEN InitialSpace
                                 ELSE Min({rewards_len + MaxIncrease, LEN})
               /\ UNCHANGED <<period, licences, metadata, rewards, bmb, treasury, transfers>>

ActivateCheckerLicenses(p, c) ==
    /\ Bmb!ActivateCheckerLicenses(p, c)
    /\ UNCHANGED <<licences, metadata, rewards, treasury, rewards_len, transfers>>

Transfer == /\ transfers < MaxTransfers
            /\ transfers' = transfers + 1
            /\ \/ \E w \in Workers, o \in Owners : TransferWorker(w, o)
               \/ \E c \in Checkers, o \in Owners : TransferChecker(c, o)
            /\ UNCHANGED <<bmb, treasury, rewards_len>>

ActivateLicence == /\ \/ \E w \in Workers, d \in Keys, u \in Uris : ActivateWorker(w, d, u)
                      \/ \E c \in Checkers, d \in Keys : ActivateChecker(c, d)
                      \/ \E w \in Workers, s \in Keys, u \in Uris : UpdateWorkerUri(w, s, u)
                   /\ UNCHANGED <<bmb, treasury, rewards_len, transfers>>

\* A faulty lookup: the count of today instead of the day of the proof.
checker_count_Today(p) == Bmb!get_checker_count_for_period(period)

checker_count(p) == Bmb!get_checker_count_for_period(p)

\* Nothing looks at the discriminator or the length of GlobalRewards: while it
\* grows, a proof is taken if the account reaches as far as its checkers' indexes.
Submit(w, signer, p, bits) ==
    /\ SubmitWorkerProof(w, signer, p, bits, checker_count(p))
    /\ Selected(w, p, bits, checker_count(p)) \subseteq Room
    /\ UNCHANGED <<bmb, treasury, rewards_len, transfers>>

\* A faulty recipient: whoever signs.
Recipient_Signer(c, signer) == signer

\* The tokens go to the holder of the licence, also when the delegate signs.
Recipient(c, signer) == checker_owner[c]

\* A faulty payout: when the treasury cannot cover it, it goes on.
execute_payout_ErrorIgnored(c, signer) ==
    IF Treasury!available_balance >= checkers[c]
    THEN Treasury!grant_locked(Recipient(c, signer), checkers[c])
    ELSE UNCHANGED treasury

execute_payout(c, signer) ==
    Treasury!grant_locked(Recipient(c, signer), checkers[c])

\* PayoutCheckerRewards with its call of grant_locked: the balance moves into
\* the locked tokens of the recipient, or nothing happens.
Payout(c, signer) ==
    /\ PayoutCheckerRewards(c, signer)
    /\ c \in Room
    /\ execute_payout(c, signer)
    /\ UNCHANGED <<bmb, rewards_len, transfers>>

Unlock(k) == /\ Treasury!unlock(k)
             /\ UNCHANGED <<licences, metadata, rewards, bmb, rewards_len, transfers>>

Fund(a) == /\ Treasury!Fund(a)
           /\ UNCHANGED <<licences, metadata, rewards, bmb, rewards_len, transfers>>

Next == \/ AdvancePeriod
        \/ InitNetwork
        \/ \E p \in Bmb!Periods, c \in Counts : ActivateCheckerLicenses(p, c)
        \/ Transfer
        \/ ActivateLicence
        \/ \E w \in Workers, s \in Keys, p \in ProofPeriods, bits \in SUBSET Bits :
               Submit(w, s, p, bits)
        \/ \E c \in Checkers, s \in Keys : Payout(c, s)
        \/ \E k \in Treasury!Locks : Unlock(k)
        \/ \E a \in 1..Supply : Fund(a)

Spec == Init /\ [][Next]_vars

-----------------------------------------------------------------------------
(* Properties.                                                             *)

\* What the proofs on chain entitle a checker to: the rewards of the days on
\* which a proof selected it, with the checkers counted as BMBState has them
\* now.
Earned(i) ==
    LET selecting == {a \in Workers \X ProofPeriods :
                         /\ proofs[a] # None
                         /\ LET count == checker_count(a[2])
                            IN  count # None /\ i \in Selected(a[1], a[2], proofs[a], count)}
    IN  Total([a \in selecting |-> Reward(a[2])], selecting)

\* Balances and payouts can be recomputed by anybody from the accounts on chain,
\* however late: every selected checker got its reward once, nobody else got
\* any, a payout moved it and did not repeat it, and what saturation loses is
\* the only thing lost.  It holds while BMBState answers exactly, that is while
\* fewer announcements were made than it has slots.
BalancesReplayable ==
    pushes < Capacity =>
        \A i \in Indexes :
            LET got    == checkers[i] + paid_out[i]
                earned == Earned(i)
            IN  got <= earned /\ (earned < U32 => got = earned)

\* Every reward taken out of the balances is locked in the treasury's accounts,
\* and nothing else is.
PayoutsAreLocked ==
    Total(paid_out, Indexes) = Total(total_locked, Treasury!Locks)

\* A balance only shrinks to zero, in a step that locks all of it for the holder
\* of the licence, and only after that holder activated it: the delegate an
\* earlier holder named can neither take the balance nor trigger the payout.
PaidToHolder ==
    [][\A i \in Indexes : checkers'[i] < checkers[i] =>
          /\ i \in Checkers
          /\ checkers'[i] = 0
          /\ checker_metadata[CheckerAccount(i)] # None
          /\ LET k == <<checker_owner[i], period>>
             IN  total_locked'[k] = total_locked[k] + checkers[i]]_vars

\* Proofs exist for days that are over, so nobody is rewarded for work that may
\* still be going on.
ProofsOfFinishedDays ==
    \A a \in Workers \X ProofPeriods : proofs[a] # None => a[2] < period
=============================================================================
