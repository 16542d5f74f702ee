------------------------------ MODULE Transfer ------------------------------
(***************************************************************************)
(* Store.Transfer of internal/store/transfer.go and its PostTransfer       *)
(* handler: requests that run concurrently, each a retry loop around one   *)
(* database transaction, over the accounts and transfers tables.           *)
(*                                                                         *)
(* PostgreSQL is modelled by what the code relies on: row locks taken by   *)
(* SELECT ... FOR UPDATE one row at a time in id order, a snapshot taken   *)
(* by the first statement, a serialization failure (40001) when a row to   *)
(* be locked changed after the snapshot (not at read committed), further   *)
(* serialization failures at the database's discretion when the level is   *)
(* serializable, and a commit that applies all writes or none.             *)
(*                                                                         *)
(* A lost connection or a cancelled context ends a request with an error   *)
(* while the server may still hold its transaction open; when that happens *)
(* during COMMIT nobody knows whether the commit took effect.              *)
(***************************************************************************)
EXTENDS Integers, FiniteSets, FiniteSetsExt

CONSTANTS
    Requests,    \* concurrent POST /transfer requests
    Accounts,    \* account ids, ordered as the ids in the database are
    Owner,       \* accounts.user_id
    Seeded,      \* accounts present at start
    Opening,     \* the balance an account is created with
    MaxCents,    \* bound of the bigint column
    Calls,       \* the parameters a request may arrive with
    MaxRetries,  \* defaultTransferMaxRetries
    PoolSize,    \* connections of the pgx pool
    None         \* nobody

Levels == {"serializable", "repeatable-read", "read-committed"}

ASSUME ConstantsAssumption ==
    /\ Accounts \subseteq Nat /\ IsFiniteSet(Accounts)
    /\ Seeded \subseteq Accounts
    /\ MaxCents \in Nat
    /\ Opening \in [Accounts -> 0..MaxCents]
    /\ MaxRetries \in Nat \ {0}
    /\ PoolSize \in Nat \ {0}
    /\ None \notin Requests

ASSUME CallsAssumption ==
    \A c \in Calls :
        /\ DOMAIN c = {"user", "from", "to", "amount", "isolation"}
        /\ c.from \in Accounts /\ c.to \in Accounts
        /\ c.amount \in Int
        /\ c.isolation \in Levels

VARIABLES
    open, balance, ledger,  \* the committed tables
    holder,    \* the request holding each account's row lock, or None
    pc,        \* where each request is
    call,      \* its parameters
    attempt,   \* its attempt counter
    seen,      \* the accounts its snapshot contains
    stale,     \* the accounts changed by others since its snapshot
    read,      \* the balances its SELECT ... FOR UPDATE returned
    written,   \* the balances its UPDATEs have set, uncommitted
    reply      \* what Transfer returned

tables == <<open, balance, ledger>>
vars == <<open, balance, ledger, holder, pc, call, attempt, seen, stale,
          read, written, reply>>

\* The results Transfer can return; "none" before it has returned.
Refusals == {"invalid", "not_found", "not_owner", "insufficient", "exhausted"}
Replies == {"none", "ok", "error"} \cup Refusals

\* The status code PostTransfer answers with; 0 stands for no answer yet.
StatusOf(code) ==
    CASE code = "none" -> 0
      [] code = "ok" -> 200
      [] code = "invalid" -> 400
      [] code = "not_owner" -> 403
      [] code = "not_found" -> 404
      [] code \in {"insufficient", "exhausted"} -> 409
      [] OTHER -> 500

\* A request with a transaction in progress that it is waiting on.
InTx == {"lock", "debit", "credit", "insert", "commit"}
\* "orphan" and "doubt": the request has returned and its transaction has not
\* ended; in "doubt" COMMIT was already on its way.
Pcs == InTx \cup {"idle", "begin", "backoff", "orphan", "doubt", "done"}

From(r) == call[r].from
To(r) == call[r].to
Amount(r) == call[r].amount
Blank == [a \in Accounts |-> 0]

B == INSTANCE Bank WITH Attempts <- 1..MaxRetries

\* The rows the transfers table can contain.
Rows == {B!Row(r, n, c) : r \in Requests, n \in 1..MaxRetries, c \in Calls}

-----------------------------------------------------------------------------
(* Database primitives.                                                    *)

Held(r) == {a \in Accounts : holder[a] = r}

\* The rows GetAccountsForUpdate still has to lock, and the one it locks next.
Wanted(r) == ({From(r), To(r)} \cap seen[r]) \ Held(r)

\* Mutant: the query lost its ORDER BY id.
NextRowUnordered(r, a) == a \in Wanted(r)

NextRow(r, a) == a \in Wanted(r) /\ \A b \in Wanted(r) : a <= b

\* r waits for q's transaction to end.
WaitsFor(r, q) ==
    /\ pc[r] = "lock"
    /\ \E a \in Wanted(r) : NextRow(r, a) /\ holder[a] = q

\* The transaction ends and its row locks go.
Release(r) == holder' = [a \in Accounts |-> IF holder[a] = r THEN None ELSE holder[a]]

\* The deferred Rollback, and the state a finished attempt leaves behind.
Forget(r) ==
    /\ Release(r)
    /\ seen' = [seen EXCEPT ![r] = {}]
    /\ stale' = [stale EXCEPT ![r] = {}]
    /\ read' = [read EXCEPT ![r] = Blank]
    /\ written' = [written EXCEPT ![r] = Blank]

\* Mutant: no deferred Rollback.
ReturnWithoutRollback(r, code) ==
    /\ pc' = [pc EXCEPT ![r] = "done"]
    /\ reply' = [reply EXCEPT ![r] = code]
    /\ UNCHANGED <<tables, holder, call, attempt, seen, stale, read, written>>

\* transferOnce returns an error that is not retried, and Transfer returns it.
Return(r, code) ==
    /\ Forget(r)
    /\ pc' = [pc EXCEPT ![r] = "done"]
    /\ reply' = [reply EXCEPT ![r] = code]
    /\ UNCHANGED <<open, balance, ledger, call, attempt>>

\* Mutant: the loop runs one attempt too many.
ConflictOffByOne(r) ==
    \/ /\ attempt[r] <= MaxRetries
       /\ Forget(r)
       /\ pc' = [pc EXCEPT ![r] = "backoff"]
       /\ UNCHANGED <<open, balance, ledger, call, attempt, reply>>
    \/ /\ attempt[r] > MaxRetries
       /\ Return(r, "exhausted")

\* transferOnce returns a retryable conflict: back off, or give up when this
\* was the last attempt.
Conflict(r) ==
    \/ /\ attempt[r] < MaxRetries
       /\ Forget(r)
       /\ pc' = [pc EXCEPT ![r] = "backoff"]
       /\ UNCHANGED <<open, balance, ledger, call, attempt, reply>>
    \/ /\ attempt[r] >= MaxRetries
       /\ Return(r, "exhausted")

-----------------------------------------------------------------------------
(* The steps of a request.                                                 *)

Init ==
    /\ B!BankInit
    /\ holder = [a \in Accounts |-> None]
    /\ pc = [r \in Requests |-> "idle"]
    /\ call \in [Requests -> Calls]
    /\ attempt = [r \in Requests |-> 0]
    /\ seen = [r \in Requests |-> {}]
    /\ stale = [r \in Requests |-> {}]
    /\ read = [r \in Requests |-> Blank]
    /\ written = [r \in Requests |-> Blank]
    /\ reply = [r \in Requests |-> "none"]

ValidCall(c) == c.amount > 0 /\ c.from # c.to

\* Transfer is entered: validation, then the first turn of the loop.
Start(r) ==
    /\ pc[r] = "idle"
    /\ IF ValidCall(call[r])
       THEN /\ pc' = [pc EXCEPT ![r] = "begin"]
            /\ attempt' = [attempt EXCEPT ![r] = 1]
            /\ UNCHANGED reply
       ELSE /\ pc' = [pc EXCEPT ![r] = "done"]
            /\ reply' = [reply EXCEPT ![r] = "invalid"]
            /\ UNCHANGED attempt
    /\ UNCHANGED <<tables, holder, call, seen, stale, read, written>>

\* BeginTx takes a connection from the pool; the SELECT ... FOR UPDATE that
\* follows takes the snapshot and is about to lock its first row.
Begin(r) ==
    /\ pc[r] = "begin"
    /\ Cardinality({q \in Requests : pc[q] \in InTx}) < PoolSize
    /\ pc' = [pc EXCEPT ![r] = "lock"]
    /\ seen' = [seen EXCEPT ![r] = open]
    /\ UNCHANGED <<tables, holder, call, attempt, stale, read, written, reply>>

\* Mutant: the SELECT lost its FOR UPDATE and waits for nobody.
LockRowUnlocked(r, a) ==
    /\ pc[r] = "lock"
    /\ NextRow(r, a)
    /\ holder' = [holder EXCEPT ![a] = r]
    /\ read' = [read EXCEPT ![r][a] = balance[a]]
    /\ UNCHANGED <<tables, pc, call, attempt, seen, stale, written, reply>>

\* The row is free.  If it changed since the snapshot, a level above read
\* committed fails with 40001; read committed reads the row as it is now.
LockRow(r, a) ==
    /\ pc[r] = "lock"
    /\ NextRow(r, a)
    /\ holder[a] = None
    /\ \/ /\ a \in stale[r] /\ call[r].isolation # "read-committed"
          /\ Conflict(r)
       \/ /\ a \notin stale[r] \/ call[r].isolation = "read-committed"
          /\ holder' = [holder EXCEPT ![a] = r]
          /\ read' = [read EXCEPT ![r][a] = balance[a]]
          /\ UNCHANGED <<tables, pc, call, attempt, seen, stale, written, reply>>

\* Mutants: transferOnce forgets to check the funds, or the owner.
CheckWithoutFunds(r) ==
    /\ pc[r] = "lock"
    /\ Wanted(r) = {} /\ {From(r), To(r)} \subseteq Held(r)
    /\ Owner[From(r)] = call[r].user
    /\ pc' = [pc EXCEPT ![r] = "debit"]
    /\ UNCHANGED <<tables, holder, call, attempt, seen, stale, read, written, reply>>

CheckWithoutOwner(r) ==
    /\ pc[r] = "lock"
    /\ Wanted(r) = {} /\ {From(r), To(r)} \subseteq Held(r)
    /\ read[r][From(r)] >= Amount(r)
    /\ pc' = [pc EXCEPT ![r] = "debit"]
    /\ UNCHANGED <<tables, holder, call, attempt, seen, stale, read, written, reply>>

\* Both rows are in: existence of source and destination, ownership, funds, in
\* that order; an optional pg_sleep holds the locks before the writes start.
Check(r) ==
    /\ pc[r] = "lock"
    /\ Wanted(r) = {}
    /\ \/ /\ ~ ({From(r), To(r)} \subseteq Held(r))
          /\ Return(r, "not_found")
       \/ /\ {From(r), To(r)} \subseteq Held(r)
          /\ Owner[From(r)] # call[r].user
          /\ Return(r, "not_owner")
       \/ /\ {From(r), To(r)} \subseteq Held(r)
          /\ Owner[From(r)] = call[r].user
          /\ read[r][From(r)] < Amount(r)
          /\ Return(r, "insufficient")
       \/ /\ {From(r), To(r)} \subseteq Held(r)
          /\ Owner[From(r)] = call[r].user
          /\ read[r][From(r)] >= Amount(r)
          /\ pc' = [pc EXCEPT ![r] = "debit"]
          /\ UNCHANGED <<tables, holder, call, attempt, seen, stale, read,
                         written, reply>>

\* AdjustBalance on the source: the row's current balance less the amount.  The
\* column's CHECK is left out: FundsStillThere says that it is never needed.
Debit(r) ==
    /\ pc[r] = "debit"
    /\ written' = [written EXCEPT ![r][From(r)] = balance[From(r)] - Amount(r)]
    /\ pc' = [pc EXCEPT ![r] = "credit"]
    /\ UNCHANGED <<tables, holder, call, attempt, seen, stale, read, reply>>

\* AdjustBalance on the destination; bigint out of range is an error, and the
\* debit already made goes with the transaction.
Credit(r) ==
    /\ pc[r] = "credit"
    /\ \/ /\ balance[To(r)] + Amount(r) > MaxCents
          /\ Return(r, "error")
       \/ /\ balance[To(r)] + Amount(r) <= MaxCents
          /\ written' = [written EXCEPT ![r][To(r)] = balance[To(r)] + Amount(r)]
          /\ pc' = [pc EXCEPT ![r] = "insert"]
          /\ UNCHANGED <<tables, holder, call, attempt, seen, stale, read, reply>>

\* InsertTransfer: the row is pending until the commit.
InsertTransfer(r) ==
    /\ pc[r] = "insert"
    /\ pc' = [pc EXCEPT ![r] = "commit"]
    /\ UNCHANGED <<tables, holder, call, attempt, seen, stale, read, written, reply>>

\* Mutant: the ledger row is written outside the transaction and lost.
ApplyWithoutLedger(r) ==
    /\ balance' = [balance EXCEPT ![From(r)] = written[r][From(r)],
                                  ![To(r)] = written[r][To(r)]]
    /\ Forget(r)
    /\ UNCHANGED <<open, ledger, call, attempt>>

\* The writes of r's transaction reach the tables; the other transactions that
\* hold a snapshot have missed them.
Apply(r) ==
    /\ balance' = [balance EXCEPT ![From(r)] = written[r][From(r)],
                                  ![To(r)] = written[r][To(r)]]
    /\ ledger' = ledger \cup {B!Row(r, attempt[r], call[r])}
    /\ stale' = [q \in Requests |->
                   IF q # r /\ pc[q] \in InTx
                   THEN stale[q] \cup {From(r), To(r)}
                   ELSE IF q = r THEN {} ELSE stale[q]]
    /\ Release(r)
    /\ seen' = [seen EXCEPT ![r] = {}]
    /\ read' = [read EXCEPT ![r] = Blank]
    /\ written' = [written EXCEPT ![r] = Blank]
    /\ UNCHANGED <<open, call, attempt>>

\* COMMIT succeeds and Transfer returns the result.
Commit(r) ==
    /\ pc[r] = "commit"
    /\ Apply(r)
    /\ pc' = [pc EXCEPT ![r] = "done"]
    /\ reply' = [reply EXCEPT ![r] = "ok"]

\* Mutant: the error returned by Commit is ignored.
SerializationFailureIgnored(r) ==
    /\ pc[r] = "commit"
    /\ call[r].isolation = "serializable"
    /\ Return(r, "ok")

\* The database refuses a serializable transaction at any of its statements.
SerializationFailure(r) ==
    /\ pc[r] \in InTx
    /\ call[r].isolation = "serializable"
    /\ Conflict(r)

\* Mutant: the attempt counter is not advanced.
RetryUncounted(r) ==
    /\ pc[r] = "backoff"
    /\ pc' = [pc EXCEPT ![r] = "begin"]
    /\ UNCHANGED <<tables, holder, call, attempt, seen, stale, read, written, reply>>

\* The backoff is over: the whole transaction is replayed.
Retry(r) ==
    /\ pc[r] = "backoff"
    /\ pc' = [pc EXCEPT ![r] = "begin"]
    /\ attempt' = [attempt EXCEPT ![r] = @ + 1]
    /\ UNCHANGED <<tables, holder, call, seen, stale, read, written, reply>>

\* Mutant: a connection lost during COMMIT is taken for a retryable conflict.
FailReplayed(r) ==
    /\ pc[r] = "commit" /\ attempt[r] < MaxRetries
    /\ Apply(r)
    /\ pc' = [pc EXCEPT ![r] = "backoff"]
    /\ UNCHANGED reply

\* The caller's context ends, or the connection is lost.  Before a transaction
\* exists the request just fails; inside one it fails and leaves the server
\* side to be cleaned up, with COMMIT in doubt if that was the statement.
Fail(r) ==
    /\ pc[r] \in {"begin", "backoff"} \cup InTx
    /\ reply' = [reply EXCEPT ![r] = "error"]
    /\ pc' = [pc EXCEPT ![r] = CASE pc[r] \in {"begin", "backoff"} -> "done"
                                 [] pc[r] = "commit" -> "doubt"
                                 [] OTHER -> "orphan"]
    /\ UNCHANGED <<tables, holder, call, attempt, seen, stale, read, written>>

\* The server notices and ends the abandoned transaction.
Reap(r) ==
    /\ pc[r] \in {"orphan", "doubt"}
    /\ Forget(r)
    /\ pc' = [pc EXCEPT ![r] = "done"]
    /\ UNCHANGED <<tables, call, attempt, reply>>

\* The COMMIT whose answer was lost had reached the server.
LateCommit(r) ==
    /\ pc[r] = "doubt"
    /\ Apply(r)
    /\ pc' = [pc EXCEPT ![r] = "done"]
    /\ UNCHANGED reply

\* RegisterUser's transaction commits a user's starter account.
OpenAccount(a) ==
    /\ B!Open(a)
    /\ UNCHANGED <<holder, pc, call, attempt, seen, stale, read, written, reply>>

\* Every request has been answered and every transaction has ended.
Quiescent ==
    /\ \A r \in Requests : pc[r] = "done"
    /\ UNCHANGED vars

RequestStep(r) ==
    \/ Start(r) \/ Begin(r) \/ (\E a \in Accounts : LockRow(r, a))
    \/ Check(r) \/ Debit(r) \/ Credit(r) \/ InsertTransfer(r) \/ Commit(r)
    \/ SerializationFailure(r) \/ Retry(r) \/ Fail(r) \/ Reap(r) \/ LateCommit(r)

Next ==
    \/ \E r \in Requests : RequestStep(r)
    \/ \E a \in Accounts : OpenAccount(a)
    \/ Quiescent

Spec == Init /\ [][Next]_vars

\* Go code runs on; PostgreSQL queues lock waiters and pgxpool queues connection
\* waiters first come first served, so neither starves; the server notices a
\* dead client.  Nothing makes failures or serialization failures happen.
Fairness ==
    \A r \in Requests :
        /\ WF_vars(Start(r) \/ Check(r) \/ Debit(r) \/ Credit(r)
                   \/ InsertTransfer(r) \/ Commit(r) \/ Retry(r))
        /\ WF_vars(Reap(r) \/ LateCommit(r))
        /\ SF_vars(Begin(r))
        /\ SF_vars(\E a \in Accounts : LockRow(r, a))

FairSpec == Spec /\ Fairness

-----------------------------------------------------------------------------
(* Properties.                                                             *)

\* Every variable has its type; a call has the parameters TransferParams has.
TypeOK ==
    /\ open \subseteq Accounts
    /\ balance \in [Accounts -> Int]
    /\ ledger \subseteq Rows
    /\ holder \in [Accounts -> Requests \cup {None}]
    /\ pc \in [Requests -> Pcs]
    /\ call \in [Requests -> Calls]
    /\ attempt \in [Requests -> 0..MaxRetries]
    /\ seen \in [Requests -> SUBSET Accounts]
    /\ stale \in [Requests -> SUBSET Accounts]
    /\ read \in [Requests -> [Accounts -> Int]]
    /\ written \in [Requests -> [Accounts -> Int]]
    /\ reply \in [Requests -> Replies]

\* No balance leaves the range of its column: the CHECK (balance_cents >= 0)
\* constraint and the bigint bound hold in every committed state.
BalancesInRange == \A a \in Accounts : balance[a] \in 0..MaxCents

\* No lost update: a balance read by GetAccountsForUpdate is still the committed
\* balance for as long as the transaction that read it is open, at every
\* isolation level, also while an abandoned transaction waits to be reaped.
LockedReadsCurrent ==
    \A r \in Requests : \A a \in Held(r) : read[r][a] = balance[a]

\* No double spend: the funds transferOnce checked are still there when the
\* debit runs and until the commit lands, so the debit never trips the CHECK.
FundsStillThere ==
    \A r \in Requests :
        pc[r] \in {"debit", "credit", "insert", "commit", "doubt"} =>
            balance[From(r)] >= Amount(r)

\* Replaying the transaction never posts a request twice.
AtMostOnce == \A x, y \in ledger : x.req = y.req => x = y

Posted(r) == \E row \in ledger : row.req = r

\* What PostTransfer answers is true and stays true: a 200 means the money
\* moved, a 400, 403, 404 or 409 that it did not and never will; only a 500
\* leaves the outcome open.
AnswersMatchLedger ==
    \A r \in Requests :
        /\ StatusOf(reply[r]) = 200 => Posted(r)
        /\ Posted(r) => StatusOf(reply[r]) \in {200, 500}
        /\ StatusOf(reply[r]) \in 400..499 => pc[r] = "done"

\* Locking both rows in id order: no set of requests waits on itself, so
\* PostgreSQL never has a deadlock (40P01) to report.
NoDeadlock ==
    \A S \in (SUBSET Requests) \ {{}} :
        \E r \in S : \A q \in S : ~ WaitsFor(r, q)

Debits(a) == {row \in ledger : row.from = a}
Credits(a) == {row \in ledger : row.to = a}
AmountOf(row) == row.amount

\* The ledger explains every balance, hence money is neither made nor lost: an
\* account holds what it was opened with plus its credits less its debits.
LedgerExplainsBalances ==
    \A a \in open :
        balance[a] = Opening[a] + MapThenSumSet(AmountOf, Credits(a))
                                - MapThenSumSet(AmountOf, Debits(a))

\* Refused for lack of funds means the committed balance does not cover the
\* amount at that very moment: the check is not made on a stale balance.
RefusalIsCurrent ==
    [][\A r \in Requests :
         reply'[r] = "insufficient" /\ reply[r] # "insufficient"
           => balance[From(r)] < Amount(r)]_vars

\* The transactions with their locks, conflicts, retries and lost answers
\* implement the bank of indivisible transfers.
ImplementsBank == B!BankSpec

\* Every request is answered, however the others interleave with it.
EveryRequestAnswered == \A r \in Requests : <>(reply[r] # "none")

\* No row lock outlives its request for ever: abandoned transactions included,
\* each lock that is taken is given back.
LocksReleased ==
    \A r \in Requests, a \in Accounts : holder[a] = r ~> holder[a] # r
=============================================================================
