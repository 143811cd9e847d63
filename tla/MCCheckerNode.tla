----------------------------- MODULE MCCheckerNode -----------------------------
(***************************************************************************)
(* A small instance of CheckerNode: BRAND draws the checker for one worker *)
(* on every day and for the other on the first day only.                   *)
(***************************************************************************)
EXTENDS CheckerNode

CONSTANTS w1, w2

MCDrawn(w, d) == w = w1 \/ d = 1
=============================================================================
