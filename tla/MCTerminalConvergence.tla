------------------------- MODULE MCTerminalConvergence -------------------------
(***************************************************************************)
(* Instances of TerminalConvergence for TLC.                               *)
(***************************************************************************)
EXTENDS TerminalConvergence
===============================================================================
