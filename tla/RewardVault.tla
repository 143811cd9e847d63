----------------------------- MODULE RewardVault -----------------------------
(***************************************************************************)
(* What the treasury promises, with no lock accounts and no calendar in    *)
(* it.  Tokens are in one of three places: free, claimed by an owner, or   *)
(* paid to an owner.  A claim is covered from the moment it is made, and   *)
(* settling it pays at least a tenth and returns the rest to the free      *)
(* tokens.                                                                 *)
(***************************************************************************)
EXTENDS Naturals

CONSTANT Owners

VARIABLES free,     \* tokens nobody has a claim on
          claims,   \* claims[o]: tokens committed to o and not settled
          paid      \* paid[o]: tokens paid out to o

vars == <<free, claims, paid>>

Init == /\ free = 0
        /\ claims = [o \in Owners |-> 0]
        /\ paid = [o \in Owners |-> 0]

Fund == /\ free' > free
        /\ UNCHANGED <<claims, paid>>

Commit(o, amount) == /\ amount <= free
                     /\ free' = free - amount
                     /\ claims' = [claims EXCEPT ![o] = @ + amount]
                     /\ UNCHANGED paid

Settle(o, claim, payout) == /\ claim <= claims[o]
                            /\ payout <= claim
                            /\ 10 * payout >= claim
                            /\ claims' = [claims EXCEPT ![o] = @ - claim]
                            /\ paid' = [paid EXCEPT ![o] = @ + payout]
                            /\ free' = free + (claim - payout)

Next == \/ Fund
        \/ \E o \in Owners :
              \/ \E amount \in 1..free : Commit(o, amount)
              \/ \E claim \in 1..claims[o] :
                    \E payout \in 0..claim : Settle(o, claim, payout)

Spec == Init /\ [][Next]_vars
=============================================================================
