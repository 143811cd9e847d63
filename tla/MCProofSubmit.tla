----------------------------- MODULE MCProofSubmit -----------------------------
(***************************************************************************)
(* Small instances of ProofSubmit: BRAND draws one checker every day and   *)
(* the other on the second day only.                                       *)
(***************************************************************************)
EXTENDS ProofSubmit

CONSTANTS c1, c2

MCDrawn(c, d) == c = c1 \/ d = 2
=============================================================================
