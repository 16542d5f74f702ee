-------------------------------- MODULE Bank --------------------------------
(***************************************************************************)
(* What the transfer service promises, with no transactions in sight: a    *)
(* bank whose accounts are opened once and whose money moves in single     *)
(* indivisible steps.  A posting is made for one request, only by the      *)
(* owner of the source account, only out of funds that are there, and at   *)
(* most once per request.  Transfer.tla implements this specification.     *)
(***************************************************************************)
EXTENDS Integers

CONSTANTS
    Requests,  \* the requests postings are made for
    Accounts,  \* every account id that may ever exist
    Owner,     \* the user each account belongs to
    Seeded,    \* the accounts the seed migration created
    Opening,   \* the balance each account is opened with, in cents
    MaxCents,  \* the largest amount a balance column can hold
    Calls,     \* the parameter records a request may carry
    Attempts   \* the attempt numbers a posting may come from

VARIABLES
    open,      \* the accounts that exist
    balance,   \* their committed balances
    ledger     \* the rows of the transfers table

bankVars == <<open, balance, ledger>>

\* The ledger row that attempt n of request r writes for call c.
Row(r, n, c) ==
    [req |-> r, attempt |-> n, user |-> c.user,
     from |-> c.from, to |-> c.to, amount |-> c.amount]

\* The balances after c's amount has moved.
Moved(b, c) ==
    [b EXCEPT ![c.from] = @ - c.amount, ![c.to] = @ + c.amount]

BankInit ==
    /\ open = Seeded
    /\ balance = [a \in Accounts |-> IF a \in Seeded THEN Opening[a] ELSE 0]
    /\ ledger = {}

\* A registration adds one account with its opening balance.
Open(a) ==
    /\ a \notin open
    /\ open' = open \cup {a}
    /\ balance' = [balance EXCEPT ![a] = Opening[a]]
    /\ UNCHANGED ledger

\* Request r moves money, once and for all.
Post(r, n, c) ==
    /\ c.from \in open /\ c.to \in open /\ c.from # c.to
    /\ c.amount > 0
    /\ Owner[c.from] = c.user
    /\ balance[c.from] >= c.amount
    /\ balance[c.to] + c.amount <= MaxCents
    /\ \A row \in ledger : row.req # r
    /\ balance' = Moved(balance, c)
    /\ ledger' = ledger \cup {Row(r, n, c)}
    /\ UNCHANGED open

BankNext ==
    \/ \E a \in Accounts : Open(a)
    \/ \E r \in Requests, n \in Attempts, c \in Calls : Post(r, n, c)

BankSpec == BankInit /\ [][BankNext]_bankVars
=============================================================================
