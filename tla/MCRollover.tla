----------------------------- MODULE MCRollover -----------------------------
(* Rollover for TLC: the constants are numbers, so the cfg gives them. *)
EXTENDS Rollover
=============================================================================
