--------------------------- MODULE MCSessionAdmission ---------------------------
(***************************************************************************)
(* Instances of SessionAdmission for TLC.                                  *)
(***************************************************************************)
EXTENDS SessionAdmission, TLC

CONSTANTS r1, r2, p1

Symmetry == Permutations(Runs)
===============================================================================
