----------------------------- MODULE MCSessions -----------------------------
(***************************************************************************)
(* Instances of Sessions for TLC.                                          *)
(***************************************************************************)
EXTENDS Sessions, TLC

\* alice has an account and a session; bob can register.
MCUsers == {"alice", "bob"}
MCAlice == {"alice"}
MCOld == {"s1"}
MCOldUser == [s \in MCOld |-> "alice"]

RequestSymmetry == Permutations(Requests)
=============================================================================
