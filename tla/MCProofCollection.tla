--------------------------- MODULE MCProofCollection ---------------------------
(***************************************************************************)
(* ProofCollection with interchangeable licences.                          *)
(***************************************************************************)
EXTENDS ProofCollection, TLC

Symmetry == Permutations(Checkers)
=============================================================================
