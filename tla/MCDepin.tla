-------------------------------- MODULE MCDepin --------------------------------
(***************************************************************************)
(* A small instance of Depin: two owners who are also the signers, one     *)
(* worker, one of the two checkers the balances have room for.             *)
(***************************************************************************)
EXTENDS Depin, Calendar, TLC

CONSTANTS o1, o2

\* Different numbers below the count, in an order that depends on the day.
MCBrand(w, p, count) == [b \in Bits |-> (b + p) % count]

\* A day here stands for thirty, a token for 475: the reward is 2 and falls to 1.
MCReward(p) == get_checker_reward(30 * p) \div 475

Symmetry == Permutations({o1, o2})
=============================================================================
