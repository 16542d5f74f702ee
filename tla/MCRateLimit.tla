---------------------------- MODULE MCRateLimit -----------------------------
(***************************************************************************)
(* Instances of RateLimit for TLC: one client bursting over a window       *)
(* boundary, and two clients sharing Redis.                                *)
(***************************************************************************)
EXTENDS RateLimit, TLC

RequestSymmetry == Permutations(Requests)
=============================================================================
