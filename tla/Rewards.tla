-------------------------------- MODULE Rewards --------------------------------
(***************************************************************************)
(* The worker and checker instructions: licences and their metadata        *)
(* accounts, the WorkerProof accounts and the balances in GlobalRewards.   *)
(*                                                                         *)
(* A licence is a compressed NFT; verify_license makes an instruction fail *)
(* unless the owner it names holds the licence now.  Metadata accounts are *)
(* addressed by licence and owner, proofs by licence and day, balances by  *)
(* the index of the checker licence.  The suspended_at fields are read by  *)
(* the code but no instruction sets them, so they are left out.            *)
(***************************************************************************)
EXTENDS Naturals, FiniteSets, FiniteSetsExt

CONSTANTS Workers,      \* worker licences
          Checkers,     \* checker licences, by their index
          Owners,       \* who may hold a licence
          Keys,         \* who may sign
          Uris,         \* discovery URIs
          Elements,     \* GlobalRewards::ELEMENTS
          Sample,       \* how many checkers BRAND draws (512 in the program)
          Brand(_, _, _),  \* generate_numbers(licence, period, checker count)
          Reward(_),    \* get_checker_reward(period)
          U16, U32,     \* the number of values of a u16 and of a u32
          MaxPeriod,    \* bound: the last day the clock reaches
          None          \* an account that does not exist

Bits    == 0..(Sample - 1)
Indexes == 0..(Elements - 1)

ASSUME RewardsAssumption == /\ IsFiniteSet(Workers)
                            /\ Checkers \subseteq Nat
                            /\ Owners \subseteq Keys
                            /\ Elements \in Nat
                            /\ Sample \in Nat \ {0}
                            /\ MaxPeriod \in Nat
                            /\ U16 \in Nat /\ MaxPeriod < U16
                            /\ U32 \in Nat \ {0}
                            /\ \A p \in 0..(U16 - 1) : Reward(p) \in Nat \ {0}
                            /\ None \notin Keys
                            /\ \A bits \in SUBSET Bits : bits # None
                            /\ None \notin [delegated_to : Keys, discovery_uri : Uris]

VARIABLES period,            \* get_current_period()
          worker_owner,      \* who holds each worker licence
          checker_owner,     \* who holds each checker licence
          worker_metadata,   \* WorkerMetadata of <<licence, owner>>
          checker_metadata,  \* CheckerMetadata.delegated_to of <<licence, owner>>
          proofs,            \* WorkerProof.checkers of <<licence, period>>
          checkers,          \* GlobalRewards.checkers
          paid_out           \* history: what the payouts of each index sum to

licences == <<worker_owner, checker_owner>>
metadata == <<worker_metadata, checker_metadata>>
rewards  == <<proofs, checkers, paid_out>>

ProofPeriods == 0..(U16 - 1)

RewardsTypeOK ==
    /\ worker_owner \in [Workers -> Owners]
    /\ checker_owner \in [Checkers -> Owners]
    /\ worker_metadata \in [Workers \X Owners ->
                               [delegated_to : Keys, discovery_uri : Uris] \cup {None}]
    /\ checker_metadata \in [Checkers \X Owners -> Keys \cup {None}]
    /\ proofs \in [Workers \X ProofPeriods -> (SUBSET Bits) \cup {None}]
    /\ checkers \in [Indexes -> 0..(U32 - 1)]
    /\ paid_out \in [Indexes -> Nat]

RewardsInit ==
    /\ worker_owner \in [Workers -> Owners]
    /\ checker_owner \in [Checkers -> Owners]
    /\ worker_metadata = [a \in Workers \X Owners |-> None]
    /\ checker_metadata = [a \in Checkers \X Owners |-> None]
    /\ proofs = [a \in Workers \X ProofPeriods |-> None]
    /\ checkers = [i \in Indexes |-> 0]
    /\ paid_out = [i \in Indexes |-> 0]

-----------------------------------------------------------------------------
(* Licences change hands outside the program.                              *)

TransferWorker(w, o) == /\ worker_owner[w] # o
                        /\ worker_owner' = [worker_owner EXCEPT ![w] = o]
                        /\ UNCHANGED <<period, checker_owner, metadata, rewards>>

TransferChecker(c, o) == /\ checker_owner[c] # o
                         /\ checker_owner' = [checker_owner EXCEPT ![c] = o]
                         /\ UNCHANGED <<period, worker_owner, metadata, rewards>>

-----------------------------------------------------------------------------
(* Metadata.  ActivateWorker and ActivateChecker are signed by the holder   *)
(* of the licence and create its account or overwrite it.                  *)

WorkerAccount(w)  == <<w, worker_owner[w]>>
CheckerAccount(c) == <<c, checker_owner[c]>>

ActivateWorker(w, delegate, uri) ==
    /\ worker_metadata' = [worker_metadata EXCEPT ![WorkerAccount(w)] =
                              [delegated_to |-> delegate, discovery_uri |-> uri]]
    /\ UNCHANGED <<period, licences, checker_metadata, rewards>>

ActivateChecker(c, delegate) ==
    /\ checker_metadata' = [checker_metadata EXCEPT ![CheckerAccount(c)] = delegate]
    /\ UNCHANGED <<period, licences, worker_metadata, rewards>>

\* The signer is the delegate the current holder of the licence named.
WorkerDelegate(w, signer) ==
    LET m == worker_metadata[WorkerAccount(w)]
    IN  m # None /\ m.delegated_to = signer

UpdateWorkerUri(w, signer, uri) ==
    /\ WorkerDelegate(w, signer)
    /\ worker_metadata' = [worker_metadata EXCEPT ![WorkerAccount(w)].discovery_uri = uri]
    /\ UNCHANGED <<period, licences, checker_metadata, rewards>>

-----------------------------------------------------------------------------
(* Proofs.                                                                 *)

\* A faulty guard: the day that is still running.
PreviousPeriod_Today == period

\* current_period - 1, in u16 arithmetic.
PreviousPeriod == (period + U16 - 1) % U16

\* A faulty addition: it exceeds a u32.
SatAdd32_Plain(a, b) == a + b

SatAdd32(a, b) == IF a + b < U32 THEN a + b ELSE U32 - 1

\* The checker indexes the set bits of a proof stand for.
Selected(w, p, bits, count) == {Brand(w, p, count)[b] : b \in bits}

NoProofYet(w, p) == proofs[<<w, p>>] = None

\* add_checker_balance for every set bit.  One index out of range makes the
\* transaction fail as a whole.
update_checker_rewards(p, selected) ==
    /\ selected \subseteq Indexes
    /\ checkers' = [i \in Indexes |-> IF i \in selected
                                      THEN SatAdd32(checkers[i], Reward(p))
                                      ELSE checkers[i]]

\* The SubmitWorkerProof instruction, count being what BMBState answers for p.
\* BRAND draws until it has Sample different numbers, so with fewer checkers the
\* transaction runs out of its compute budget; with none it divides by zero.
SubmitWorkerProof(w, signer, p, bits, count) ==
    /\ WorkerDelegate(w, signer)
    /\ p = PreviousPeriod
    /\ NoProofYet(w, p)
    /\ count # None
    /\ count >= Sample
    /\ proofs' = [proofs EXCEPT ![<<w, p>>] = bits]
    /\ update_checker_rewards(p, Selected(w, p, bits, count))
    /\ UNCHANGED <<period, licences, metadata, paid_out>>

-----------------------------------------------------------------------------
(* Payouts.                                                                *)

reset_checker_balance(c) == checkers' = [checkers EXCEPT ![c] = 0]

\* The holder, once it activated the checker, or the delegate it named.
MayPayOut(c, signer) ==
    /\ checker_metadata[CheckerAccount(c)] # None
    /\ signer \in {checker_owner[c], checker_metadata[CheckerAccount(c)]}

\* PayoutCheckerRewards, without the grant of locked tokens it makes of the
\* balance.
PayoutCheckerRewards(c, signer) ==
    /\ MayPayOut(c, signer)
    /\ c \in Indexes
    /\ checkers[c] # 0
    /\ reset_checker_balance(c)
    /\ paid_out' = [paid_out EXCEPT ![c] = @ + checkers[c]]
    /\ UNCHANGED <<period, licences, metadata, proofs>>
=============================================================================
