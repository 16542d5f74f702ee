----------------------------- MODULE MCLockout ------------------------------
(***************************************************************************)
(* Instances of Lockout for TLC.                                           *)
(***************************************************************************)
EXTENDS Lockout, TLC

MCUsers == {"alice"}
MCIPs == {"ip1", "ip2"}

Login(i, g) == [op |-> "login", user |-> "alice", ip |-> i, good |-> g]
Unlock == [op |-> "unlock", user |-> "alice", ip |-> "ip1", good |-> TRUE]
UnlockUnknown == [Unlock EXCEPT !.good = FALSE]

\* Failures from two addresses, a success and an administrator's unlock.
MCCalls == {Login("ip1", FALSE), Login("ip2", FALSE), Login("ip1", TRUE), Unlock,
            UnlockUnknown}
MCFailures == {Login("ip1", FALSE)}
MCOneIP == {"ip1"}

RequestSymmetry == Permutations(Requests)
=============================================================================
