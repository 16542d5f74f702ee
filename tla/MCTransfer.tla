----------------------------- MODULE MCTransfer -----------------------------
(***************************************************************************)
(* Instances of Transfer for TLC.  Accounts 1 and 2 are seeded, belonging  *)
(* to alice and bob; account 3 belongs to carol, who registers during the  *)
(* run or never does.  The balances are small enough for funds to run out  *)
(* and MaxCents is small enough for a credit to overflow.                  *)
(***************************************************************************)
EXTENDS Transfer, TLC

MCAccounts == 1..3
MCSeeded == {1, 2}
MCOwner == <<"alice", "bob", "carol">>
MCOpening == <<2, 1, 2>>
MCMaxCents == 3

Call(u, f, t, n, l) ==
    [user |-> u, from |-> f, to |-> t, amount |-> n, isolation |-> l]

\* Calls in both directions over one pair, at every level, one that only some
\* balances cover, one that overflows the destination, and the refusals.
MCCalls ==
    {Call("alice", 1, 2, 2, l) : l \in Levels}
    \cup {Call("bob", 2, 1, 1, l) : l \in Levels}
    \cup {Call("alice", 1, 3, 2, "repeatable-read"),
          Call("bob", 2, 3, 1, "read-committed"),
          Call("alice", 1, 2, 0, "serializable"),
          Call("alice", 2, 2, 1, "serializable"),
          Call("alice", 2, 1, 1, "read-committed"),
          Call("alice", 1, 2, 3, "read-committed")}

\* Requests that all contend for the same two rows, for the liveness run.
MCSame == {Call("alice", 1, 2, 1, "serializable")}
=============================================================================
