------------------------------ MODULE MCAdmission ------------------------------
(***************************************************************************)
(* A small instance of Admission: one worker and one checker node with the *)
(* key of the same owner, a second owner, and the checker licence with     *)
(* index 1.  No proof is submitted, so the draw plays no part.             *)
(***************************************************************************)
EXTENDS Admission, TLC

CONSTANTS w1, o1, o2, h1, h2

MCWorkerNodes == {<<w1, o1>>}
MCCheckerNodes == {<<1, o1>>}
MCBrand(w, p, count) == [b \in Bits |-> 0]
MCReward(p) == 1

Symmetry == Permutations({h1, h2})
=============================================================================
