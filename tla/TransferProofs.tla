--------------------------- MODULE TransferProofs ---------------------------
(***************************************************************************)
(* Proofs about Transfer, for any set of requests, accounts and calls.     *)
(***************************************************************************)
EXTENDS Transfer, WellFoundedInduction, FiniteSetTheorems, TLAPS

-----------------------------------------------------------------------------
(* The inductive invariant.                                                *)

\* The states in which the transaction of a request exists on the server, and
\* those in which transferOnce has passed its checks.
TxOpen(r) == pc[r] \in InTx \cup {"orphan", "doubt"}
Writing(r) == pc[r] \in {"debit", "credit", "insert", "commit", "doubt"}

\* A lock belongs to a transaction in progress, on a row it asked for and sees.
LockInv(r) ==
    /\ \A a \in Accounts : holder[a] = r =>
          /\ TxOpen(r)
          /\ a \in {From(r), To(r)} /\ a \in seen[r]
          /\ read[r][a] = balance[a]
    /\ seen[r] \subseteq open

\* The rows of a statement still locking are taken in ascending order.
OrderInv(r) ==
    pc[r] = "lock" => \A a \in Accounts : holder[a] = r => \A b \in Wanted(r) : a < b

\* Past the checks, both rows are locked, the caller owns the source, the funds
\* are there, and the pending writes are what the committed balances call for.
WriteInv(r) ==
    /\ Writing(r) =>
          /\ holder[From(r)] = r /\ holder[To(r)] = r
          /\ Owner[From(r)] = call[r].user
          /\ Amount(r) <= read[r][From(r)]
    /\ pc[r] \in {"credit", "insert", "commit", "doubt"} =>
          written[r][From(r)] = balance[From(r)] - Amount(r)
    /\ pc[r] \in {"insert", "commit", "doubt"} =>
          /\ written[r][To(r)] = balance[To(r)] + Amount(r)
          /\ balance[To(r)] + Amount(r) <= MaxCents

\* A request past validation has a valid call and counts its attempts.
CallInv(r) ==
    /\ pc[r] \notin {"idle", "done"} => ValidCall(call[r]) /\ attempt[r] >= 1
    /\ pc[r] = "backoff" => attempt[r] < MaxRetries

\* Answers and ledger rows appear together, and only when the request ends.
AnswerInv(r) ==
    /\ reply[r] = "none" <=> pc[r] \notin {"orphan", "doubt", "done"}
    /\ pc[r] \in {"orphan", "doubt"} => reply[r] = "error"
    /\ Posted(r) => pc[r] = "done" /\ reply[r] \in {"ok", "error"}
    /\ reply[r] = "ok" => Posted(r)

RequestInv(r) ==
    LockInv(r) /\ OrderInv(r) /\ WriteInv(r) /\ CallInv(r) /\ AnswerInv(r)

IInv ==
    /\ TypeOK
    /\ BalancesInRange
    /\ AtMostOnce
    /\ \A r \in Requests : RequestInv(r)

-----------------------------------------------------------------------------
(* Type correctness.                                                       *)

LEMMA CallTypes ==
    ASSUME TypeOK, NEW r \in Requests
    PROVE  /\ call[r] \in Calls
           /\ From(r) \in Accounts /\ To(r) \in Accounts /\ Amount(r) \in Int
           /\ call[r].isolation \in Levels
  BY CallsAssumption DEF TypeOK, From, To, Amount

LEMMA BlankType == Blank \in [Accounts -> Int]
  BY DEF Blank

LEMMA InitTypeOK == Init => TypeOK
  <1> SUFFICES ASSUME Init PROVE TypeOK
    OBVIOUS
  <1>1. open \subseteq Accounts /\ balance \in [Accounts -> Int] /\ ledger \subseteq Rows
    BY ConstantsAssumption DEF Init, B!BankInit
  <1>2. QED
    BY <1>1, BlankType, ConstantsAssumption
       DEF Init, TypeOK, Pcs, Replies

LEMMA ForgetType ==
    ASSUME TypeOK, NEW r \in Requests, Forget(r)
    PROVE  /\ holder' \in [Accounts -> Requests \cup {None}]
           /\ seen' \in [Requests -> SUBSET Accounts]
           /\ stale' \in [Requests -> SUBSET Accounts]
           /\ read' \in [Requests -> [Accounts -> Int]]
           /\ written' \in [Requests -> [Accounts -> Int]]
  BY BlankType DEF TypeOK, Forget, Release

LEMMA ReturnType ==
    ASSUME TypeOK, NEW r \in Requests, NEW code \in Replies, Return(r, code)
    PROVE  TypeOK'
  <1>1. pc' \in [Requests -> Pcs] /\ reply' \in [Requests -> Replies]
    BY DEF TypeOK, Return, Pcs
  <1>2. QED
    BY <1>1, ForgetType DEF TypeOK, Return

LEMMA ConflictType ==
    ASSUME TypeOK, NEW r \in Requests, Conflict(r)
    PROVE  TypeOK'
  <1>1. CASE attempt[r] >= MaxRetries /\ Return(r, "exhausted")
    BY <1>1, ReturnType DEF Replies, Refusals
  <1>2. CASE /\ Forget(r)
             /\ pc' = [pc EXCEPT ![r] = "backoff"]
             /\ UNCHANGED <<open, balance, ledger, call, attempt, reply>>
    <2>1. pc' \in [Requests -> Pcs]
      BY <1>2 DEF TypeOK, Pcs
    <2>2. QED
      BY <1>2, <2>1, ForgetType DEF TypeOK
  <1>3. QED
    BY <1>1, <1>2 DEF Conflict

LEMMA ApplyType ==
    ASSUME TypeOK, NEW r \in Requests, Apply(r), attempt[r] >= 1,
           pc' = [pc EXCEPT ![r] = "done"], reply' \in [Requests -> Replies]
    PROVE  TypeOK'
  <1>1. From(r) \in Accounts /\ To(r) \in Accounts /\ call[r] \in Calls
    BY CallTypes
  <1>2. balance' \in [Accounts -> Int]
    BY <1>1 DEF TypeOK, Apply
  <1>3. ledger' \subseteq Rows
    BY <1>1, ConstantsAssumption DEF TypeOK, Apply, Rows
  <1>4. stale' \in [Requests -> SUBSET Accounts]
    BY <1>1 DEF TypeOK, Apply
  <1>5. pc' \in [Requests -> Pcs]
    BY DEF TypeOK, Pcs
  <1>6. /\ holder' \in [Accounts -> Requests \cup {None}]
        /\ seen' \in [Requests -> SUBSET Accounts]
        /\ read' \in [Requests -> [Accounts -> Int]]
        /\ written' \in [Requests -> [Accounts -> Int]]
    BY BlankType DEF TypeOK, Apply, Release
  <1>7. QED
    BY <1>2, <1>3, <1>4, <1>5, <1>6 DEF TypeOK, Apply

\* The type invariant is inductive together with the attempt counts.
LEMMA NextTypeOK ==
    ASSUME IInv, [Next]_vars
    PROVE  TypeOK'
  <1> TypeOK /\ \A r \in Requests : CallInv(r)
    BY DEF IInv, RequestInv
  <1>1. ASSUME NEW r \in Requests, Start(r) PROVE TypeOK'
    <2>1. pc' \in [Requests -> Pcs]
      BY <1>1 DEF TypeOK, Start, Pcs
    <2>2. attempt' \in [Requests -> 0..MaxRetries]
      BY <1>1, ConstantsAssumption DEF TypeOK, Start
    <2>3. reply' \in [Requests -> Replies]
      BY <1>1 DEF TypeOK, Start, Replies, Refusals
    <2>4. QED
      BY <1>1, <2>1, <2>2, <2>3 DEF TypeOK, Start, tables
  <1>2. ASSUME NEW r \in Requests, Begin(r) PROVE TypeOK'
    BY <1>2 DEF TypeOK, Begin, tables, Pcs, InTx
  <1>3. ASSUME NEW r \in Requests, NEW a \in Accounts, LockRow(r, a) PROVE TypeOK'
    <2>1. CASE Conflict(r)
      BY <2>1, ConflictType
    <2>2. CASE /\ holder' = [holder EXCEPT ![a] = r]
               /\ read' = [read EXCEPT ![r][a] = balance[a]]
               /\ UNCHANGED <<tables, pc, call, attempt, seen, stale, written, reply>>
      <3>1. read' \in [Requests -> [Accounts -> Int]]
        BY <2>2 DEF TypeOK
      <3>2. QED
        BY <2>2, <3>1 DEF TypeOK, tables
    <2>3. QED
      BY <1>3, <2>1, <2>2 DEF LockRow
  <1>4. ASSUME NEW r \in Requests, Check(r) PROVE TypeOK'
    <2>1. ASSUME NEW code \in {"not_found", "not_owner", "insufficient"}, Return(r, code)
          PROVE  TypeOK'
      BY <2>1, ReturnType DEF Replies, Refusals
    <2>2. CASE /\ pc' = [pc EXCEPT ![r] = "debit"]
               /\ UNCHANGED <<tables, holder, call, attempt, seen, stale, read,
                              written, reply>>
      BY <2>2 DEF TypeOK, tables, Pcs, InTx
    <2>3. QED
      BY <1>4, <2>1, <2>2 DEF Check
  <1>5. ASSUME NEW r \in Requests, Debit(r) PROVE TypeOK'
    <2>1. written' \in [Requests -> [Accounts -> Int]]
      BY <1>5, CallTypes DEF TypeOK, Debit
    <2>2. QED
      BY <1>5, <2>1 DEF TypeOK, Debit, tables, Pcs, InTx
  <1>6. ASSUME NEW r \in Requests, Credit(r) PROVE TypeOK'
    <2>1. CASE Return(r, "error")
      BY <2>1, ReturnType DEF Replies
    <2>2. CASE /\ written' = [written EXCEPT ![r][To(r)] = balance[To(r)] + Amount(r)]
               /\ pc' = [pc EXCEPT ![r] = "insert"]
               /\ UNCHANGED <<tables, holder, call, attempt, seen, stale, read, reply>>
      <3>1. written' \in [Requests -> [Accounts -> Int]]
        BY <2>2, CallTypes DEF TypeOK
      <3>2. QED
        BY <2>2, <3>1 DEF TypeOK, tables, Pcs, InTx
    <2>3. QED
      BY <1>6, <2>1, <2>2 DEF Credit
  <1>7. ASSUME NEW r \in Requests, InsertTransfer(r) PROVE TypeOK'
    BY <1>7 DEF TypeOK, InsertTransfer, tables, Pcs, InTx
  <1>8. ASSUME NEW r \in Requests, Commit(r) PROVE TypeOK'
    <2>1. reply' \in [Requests -> Replies]
      BY <1>8 DEF TypeOK, Commit, Replies
    <2>2. QED
      BY <1>8, <2>1, ApplyType DEF Commit, CallInv
  <1>9. ASSUME NEW r \in Requests, SerializationFailure(r) PROVE TypeOK'
    BY <1>9, ConflictType DEF SerializationFailure
  <1>10. ASSUME NEW r \in Requests, Retry(r) PROVE TypeOK'
    <2>1. attempt' \in [Requests -> 0..MaxRetries]
      BY <1>10, ConstantsAssumption DEF TypeOK, Retry, CallInv
    <2>2. QED
      BY <1>10, <2>1 DEF TypeOK, Retry, tables, Pcs
  <1>11. ASSUME NEW r \in Requests, Fail(r) PROVE TypeOK'
    BY <1>11 DEF TypeOK, Fail, tables, Pcs, InTx, Replies
  <1>12. ASSUME NEW r \in Requests, Reap(r) PROVE TypeOK'
    <2>1. pc' \in [Requests -> Pcs]
      BY <1>12 DEF TypeOK, Reap, Pcs
    <2>2. QED
      BY <1>12, <2>1, ForgetType DEF TypeOK, Reap, tables
  <1>13. ASSUME NEW r \in Requests, LateCommit(r) PROVE TypeOK'
    BY <1>13, ApplyType DEF LateCommit, CallInv, TypeOK
  <1>14. ASSUME NEW a \in Accounts, OpenAccount(a) PROVE TypeOK'
    <2>1. Opening[a] \in Int
      BY ConstantsAssumption
    <2>2. balance' \in [Accounts -> Int]
      BY <1>14, <2>1 DEF TypeOK, OpenAccount, B!Open
    <2>3. open' \subseteq Accounts /\ ledger' \subseteq Rows
      BY <1>14 DEF TypeOK, OpenAccount, B!Open
    <2>4. QED
      BY <1>14, <2>2, <2>3 DEF TypeOK, OpenAccount
  <1>15. CASE UNCHANGED vars
    BY <1>15 DEF TypeOK, vars
  <1>16. QED
    BY <1>1, <1>2, <1>3, <1>4, <1>5, <1>6, <1>7, <1>8, <1>9, <1>10, <1>11,
       <1>12, <1>13, <1>14, <1>15 DEF Next, RequestStep, Quiescent

-----------------------------------------------------------------------------
(* What a step leaves alone.                                               *)

\* The step changes nothing that request q's part of the invariant depends on.
Frame(q) ==
    /\ pc'[q] = pc[q] /\ call'[q] = call[q] /\ attempt'[q] = attempt[q]
    /\ seen'[q] = seen[q] /\ read'[q] = read[q] /\ written'[q] = written[q]
    /\ reply'[q] = reply[q]
    /\ \A a \in Accounts : holder'[a] = q <=> holder[a] = q
    /\ \A a \in Accounts : holder[a] = q => balance'[a] = balance[a]
    /\ open \subseteq open' /\ ledger \subseteq ledger'
    /\ \A row \in ledger' : row.req = q => row \in ledger

LEMMA FramePreserves ==
    ASSUME TypeOK, NEW q \in Requests, RequestInv(q), Frame(q)
    PROVE  RequestInv(q)'
  <1> USE DEF Frame
  <1>1. /\ From(q) \in Accounts /\ To(q) \in Accounts
        /\ From(q)' = From(q) /\ To(q)' = To(q) /\ Amount(q)' = Amount(q)
    BY CallTypes DEF From, To, Amount
  <1>2. LockInv(q)'
    BY <1>1 DEF RequestInv, LockInv, TxOpen, InTx
  <1>3. OrderInv(q)'
    <2>1. Wanted(q)' = Wanted(q)
      BY <1>1 DEF Wanted, Held
    <2>2. QED
      BY <2>1 DEF RequestInv, OrderInv
  <1>4. WriteInv(q)'
    BY <1>1 DEF RequestInv, WriteInv, Writing
  <1>5. CallInv(q)'
    BY DEF RequestInv, CallInv
  <1>6. AnswerInv(q)'
    BY DEF RequestInv, AnswerInv, Posted
  <1>7. QED
    BY <1>2, <1>3, <1>4, <1>5, <1>6 DEF RequestInv

LEMMA ForgetFrames ==
    ASSUME TypeOK, NEW r \in Requests, NEW q \in Requests, q # r, Forget(r)
    PROVE  /\ seen'[q] = seen[q] /\ read'[q] = read[q] /\ written'[q] = written[q]
           /\ \A a \in Accounts : holder'[a] = q <=> holder[a] = q
  BY ConstantsAssumption DEF TypeOK, Forget, Release

LEMMA ReturnFrames ==
    ASSUME TypeOK, NEW r \in Requests, NEW q \in Requests, q # r,
           NEW code, Return(r, code)
    PROVE  Frame(q)
  BY ForgetFrames DEF TypeOK, Return, Frame

LEMMA ConflictFrames ==
    ASSUME TypeOK, NEW r \in Requests, NEW q \in Requests, q # r, Conflict(r)
    PROVE  Frame(q)
  <1>1. CASE Return(r, "exhausted")
    BY <1>1, ReturnFrames
  <1>2. CASE /\ Forget(r)
             /\ pc' = [pc EXCEPT ![r] = "backoff"]
             /\ UNCHANGED <<open, balance, ledger, call, attempt, reply>>
    BY <1>2, ForgetFrames DEF TypeOK, Frame
  <1>3. QED
    BY <1>1, <1>2 DEF Conflict

LEMMA ApplyFrames ==
    ASSUME IInv, NEW r \in Requests, NEW q \in Requests, q # r,
           Writing(r), Apply(r), pc'[q] = pc[q], reply'[q] = reply[q]
    PROVE  Frame(q)
  <1>1. holder[From(r)] = r /\ holder[To(r)] = r
    BY DEF IInv, RequestInv, WriteInv
  <1>2. \A a \in Accounts : holder[a] = q => balance'[a] = balance[a]
    BY <1>1, CallTypes DEF IInv, TypeOK, Apply
  <1>3. \A a \in Accounts : holder'[a] = q <=> holder[a] = q
    BY ConstantsAssumption DEF IInv, TypeOK, Apply, Release
  <1>4. \A row \in ledger' : row.req = q => row \in ledger
    BY DEF Apply, B!Row
  <1>5. /\ pc'[q] = pc[q] /\ call'[q] = call[q] /\ attempt'[q] = attempt[q]
        /\ seen'[q] = seen[q] /\ read'[q] = read[q] /\ written'[q] = written[q]
        /\ open \subseteq open' /\ ledger \subseteq ledger'
    BY DEF IInv, TypeOK, Apply
  <1>6. QED
    BY <1>2, <1>3, <1>4, <1>5 DEF Frame

\* A step of one request frames every other one.
LEMMA StepFrames ==
    ASSUME IInv, NEW r \in Requests, NEW q \in Requests, q # r, RequestStep(r)
    PROVE  Frame(q)
  <1> TypeOK
    BY DEF IInv
  <1>1. CASE Start(r)
    BY <1>1 DEF TypeOK, Start, tables, Frame
  <1>2. CASE Begin(r)
    BY <1>2 DEF TypeOK, Begin, tables, Frame
  <1>3. ASSUME NEW a \in Accounts, LockRow(r, a) PROVE Frame(q)
    <2>1. CASE Conflict(r)
      BY <2>1, ConflictFrames
    <2>2. CASE /\ holder[a] = None
               /\ holder' = [holder EXCEPT ![a] = r]
               /\ read' = [read EXCEPT ![r][a] = balance[a]]
               /\ UNCHANGED <<tables, pc, call, attempt, seen, stale, written, reply>>
      BY <2>2, ConstantsAssumption DEF TypeOK, tables, Frame
    <2>3. QED
      BY <1>3, <2>1, <2>2 DEF LockRow
  <1>4. CASE Check(r)
    <2>1. ASSUME NEW code, Return(r, code) PROVE Frame(q)
      BY <2>1, ReturnFrames
    <2>2. CASE /\ pc' = [pc EXCEPT ![r] = "debit"]
               /\ UNCHANGED <<tables, holder, call, attempt, seen, stale, read,
                              written, reply>>
      BY <2>2 DEF TypeOK, tables, Frame
    <2>3. QED
      BY <1>4, <2>1, <2>2 DEF Check
  <1>5. CASE Debit(r)
    BY <1>5 DEF TypeOK, Debit, tables, Frame
  <1>6. CASE Credit(r)
    <2>1. CASE Return(r, "error")
      BY <2>1, ReturnFrames
    <2>2. CASE /\ written' = [written EXCEPT ![r][To(r)] = balance[To(r)] + Amount(r)]
               /\ pc' = [pc EXCEPT ![r] = "insert"]
               /\ UNCHANGED <<tables, holder, call, attempt, seen, stale, read, reply>>
      BY <2>2 DEF TypeOK, tables, Frame
    <2>3. QED
      BY <1>6, <2>1, <2>2 DEF Credit
  <1>7. CASE InsertTransfer(r)
    BY <1>7 DEF TypeOK, InsertTransfer, tables, Frame
  <1>8. CASE Commit(r)
    BY <1>8, ApplyFrames DEF TypeOK, Commit, Writing
  <1>9. CASE SerializationFailure(r)
    BY <1>9, ConflictFrames DEF SerializationFailure
  <1>10. CASE Retry(r)
    BY <1>10 DEF TypeOK, Retry, tables, Frame
  <1>11. CASE Fail(r)
    BY <1>11 DEF TypeOK, Fail, tables, Frame
  <1>12. CASE Reap(r)
    BY <1>12, ForgetFrames DEF TypeOK, Reap, tables, Frame
  <1>13. CASE LateCommit(r)
    BY <1>13, ApplyFrames DEF TypeOK, LateCommit, Writing
  <1>14. QED
    BY <1>1, <1>2, <1>3, <1>4, <1>5, <1>6, <1>7, <1>8, <1>9, <1>10, <1>11,
       <1>12, <1>13 DEF RequestStep

\* Opening an account frames every request: nobody has locked a row that does
\* not exist yet.
LEMMA OpenFrames ==
    ASSUME IInv, NEW q \in Requests, NEW a \in Accounts, OpenAccount(a)
    PROVE  Frame(q)
  <1>1. holder[a] # q
    BY DEF IInv, RequestInv, LockInv, OpenAccount, B!Open
  <1>2. \A b \in Accounts : holder[b] = q => balance'[b] = balance[b]
    BY <1>1 DEF IInv, TypeOK, OpenAccount, B!Open
  <1>3. QED
    BY <1>2 DEF OpenAccount, B!Open, Frame

-----------------------------------------------------------------------------
(* What a request's own step does to its part of the invariant.            *)

LEMMA ForgetsLocks ==
    ASSUME TypeOK, NEW r \in Requests, Release(r)
    PROVE  \A a \in Accounts : holder'[a] # r
  BY ConstantsAssumption DEF TypeOK, Release

\* A request that has given up its locks owes nothing but its answer.
LEMMA ClosedInv ==
    ASSUME NEW r \in Requests, \A a \in Accounts : holder'[a] # r,
           seen'[r] = {}, pc'[r] \in {"backoff", "done"},
           CallInv(r)', AnswerInv(r)'
    PROVE  RequestInv(r)'
  BY DEF RequestInv, LockInv, OrderInv, WriteInv, Writing

LEMMA ReturnInv ==
    ASSUME IInv, NEW r \in Requests, NEW code \in Refusals \cup {"error"},
           pc[r] \in InTx, Return(r, code)
    PROVE  RequestInv(r)'
  <1>1. pc'[r] = "done" /\ reply'[r] = code /\ seen'[r] = {}
    BY DEF IInv, TypeOK, Return, Forget
  <1>2. \A a \in Accounts : holder'[a] # r
    BY ForgetsLocks DEF IInv, Return, Forget
  <1>3. ~ Posted(r)
    BY DEF IInv, RequestInv, AnswerInv, InTx
  <1>4. AnswerInv(r)'
    BY <1>1, <1>3 DEF AnswerInv, Posted, Return, Refusals
  <1>5. CallInv(r)'
    BY <1>1 DEF CallInv
  <1>6. QED
    BY <1>1, <1>2, <1>4, <1>5, ClosedInv

LEMMA ConflictInv ==
    ASSUME IInv, NEW r \in Requests, pc[r] \in InTx, Conflict(r)
    PROVE  RequestInv(r)'
  <1>1. CASE Return(r, "exhausted")
    BY <1>1, ReturnInv DEF Refusals
  <1>2. CASE /\ attempt[r] < MaxRetries
             /\ Forget(r)
             /\ pc' = [pc EXCEPT ![r] = "backoff"]
             /\ UNCHANGED <<open, balance, ledger, call, attempt, reply>>
    <2>1. pc'[r] = "backoff" /\ seen'[r] = {}
      BY <1>2 DEF IInv, TypeOK, Forget
    <2>2. \A a \in Accounts : holder'[a] # r
      BY <1>2, ForgetsLocks DEF IInv, Forget
    <2>3. CallInv(r)'
      BY <1>2, <2>1 DEF IInv, RequestInv, CallInv, InTx
    <2>4. AnswerInv(r)'
      BY <1>2, <2>1 DEF IInv, RequestInv, AnswerInv, Posted, InTx
    <2>5. QED
      BY <2>1, <2>2, <2>3, <2>4, ClosedInv
  <1>3. QED
    BY <1>1, <1>2 DEF Conflict

LEMMA ApplyInv ==
    ASSUME IInv, NEW r \in Requests, Apply(r), pc'[r] = "done",
           reply'[r] \in {"ok", "error"}
    PROVE  RequestInv(r)'
  <1>1. pc'[r] = "done" /\ seen'[r] = {}
    BY DEF IInv, TypeOK, Apply
  <1>2. \A a \in Accounts : holder'[a] # r
    BY ForgetsLocks DEF IInv, Apply
  <1>3. Posted(r)'
    <2>1. B!Row(r, attempt[r], call[r]) \in ledger'
      BY DEF Apply
    <2>2. B!Row(r, attempt[r], call[r]).req = r
      BY DEF B!Row
    <2>3. QED
      BY <2>1, <2>2 DEF Posted
  <1>4. AnswerInv(r)' /\ CallInv(r)'
    BY <1>1, <1>3 DEF AnswerInv, CallInv
  <1>5. QED
    BY <1>1, <1>2, <1>4, ClosedInv

LEMMA StepInv ==
    ASSUME IInv, NEW r \in Requests, RequestStep(r)
    PROVE  RequestInv(r)'
  <1> TypeOK /\ RequestInv(r)
    BY DEF IInv
  <1>0. From(r) \in Accounts /\ To(r) \in Accounts /\ Amount(r) \in Int
    BY CallTypes
  <1>1. CASE Start(r)
    <2> USE <1>1 DEF Start, tables, TypeOK, RequestInv
    <2>1. CallInv(r)'
      BY DEF CallInv
    <2>2. AnswerInv(r)'
      BY DEF AnswerInv, Posted
    <2>3. LockInv(r)' /\ OrderInv(r)' /\ WriteInv(r)'
      BY DEF LockInv, OrderInv, WriteInv, Writing, TxOpen, InTx
    <2>4. QED
      BY <2>1, <2>2, <2>3
  <1>2. CASE Begin(r)
    <2> USE <1>2 DEF Begin, tables, TypeOK, RequestInv
    <2>0. \A a \in Accounts : holder[a] # r
      BY DEF LockInv, TxOpen, InTx
    <2>1. CallInv(r)' /\ AnswerInv(r)'
      BY DEF CallInv, AnswerInv, Posted
    <2>2. LockInv(r)' /\ OrderInv(r)' /\ WriteInv(r)'
      BY <2>0 DEF LockInv, OrderInv, WriteInv, Writing, TxOpen, InTx
    <2>3. QED
      BY <2>1, <2>2
  <1>3. ASSUME NEW a \in Accounts, LockRow(r, a) PROVE RequestInv(r)'
    <2>1. CASE Conflict(r)
      BY <1>3, <2>1, ConflictInv DEF LockRow, InTx
    <2>2. CASE /\ pc[r] = "lock"
               /\ NextRow(r, a)
               /\ holder[a] = None
               /\ holder' = [holder EXCEPT ![a] = r]
               /\ read' = [read EXCEPT ![r][a] = balance[a]]
               /\ UNCHANGED <<tables, pc, call, attempt, seen, stale, written, reply>>
      <3> USE <2>2 DEF tables, TypeOK, RequestInv
      <3>1. CallInv(r)' /\ AnswerInv(r)' /\ WriteInv(r)'
        BY DEF CallInv, AnswerInv, Posted, WriteInv, Writing
      <3>2. LockInv(r)'
        BY DEF LockInv, TxOpen, InTx, NextRow, Wanted, From, To
      <3>3. OrderInv(r)'
        <4>1. Wanted(r)' = Wanted(r) \ {a}
          BY DEF Wanted, Held, From, To
        <4>2. \A b \in Wanted(r) : b \in Nat /\ a <= b
          BY <1>0, ConstantsAssumption DEF NextRow, Wanted
        <4>3. \A b \in Wanted(r)' : a < b
          BY <4>1, <4>2, ConstantsAssumption
        <4>4. QED
          BY <4>1, <4>3 DEF OrderInv
      <3>4. QED
        BY <3>1, <3>2, <3>3
    <2>3. QED
      BY <1>3, <2>1, <2>2 DEF LockRow
  <1>4. CASE Check(r)
    <2>1. ASSUME NEW code \in {"not_found", "not_owner", "insufficient"}, Return(r, code)
          PROVE  RequestInv(r)'
      BY <1>4, <2>1, ReturnInv DEF Check, InTx, Refusals
    <2>2. CASE /\ {From(r), To(r)} \subseteq Held(r)
               /\ Owner[From(r)] = call[r].user
               /\ read[r][From(r)] >= Amount(r)
               /\ pc[r] = "lock"
               /\ pc' = [pc EXCEPT ![r] = "debit"]
               /\ UNCHANGED <<tables, holder, call, attempt, seen, stale, read,
                              written, reply>>
      <3> USE <2>2 DEF tables, TypeOK, RequestInv
      <3>1. CallInv(r)' /\ AnswerInv(r)' /\ OrderInv(r)'
        BY DEF CallInv, AnswerInv, Posted, OrderInv
      <3>2. LockInv(r)'
        BY DEF LockInv, TxOpen, InTx, From, To
      <3>3. WriteInv(r)'
        BY <1>0 DEF WriteInv, Writing, Held, From, To, Amount
      <3>4. QED
        BY <3>1, <3>2, <3>3
    <2>3. QED
      BY <1>4, <2>1, <2>2 DEF Check
  <1>5. CASE Debit(r)
    <2> USE <1>5 DEF Debit, tables, TypeOK, RequestInv
    <2>1. CallInv(r)' /\ AnswerInv(r)' /\ OrderInv(r)'
      BY DEF CallInv, AnswerInv, Posted, OrderInv
    <2>2. LockInv(r)'
      BY DEF LockInv, TxOpen, InTx, From, To
    <2>3. WriteInv(r)'
      BY <1>0 DEF WriteInv, Writing, From, To, Amount
    <2>4. QED
      BY <2>1, <2>2, <2>3
  <1>6. CASE Credit(r)
    <2>1. CASE Return(r, "error")
      BY <1>6, <2>1, ReturnInv DEF Credit, InTx
    <2>2. CASE /\ pc[r] = "credit"
               /\ balance[To(r)] + Amount(r) <= MaxCents
               /\ written' = [written EXCEPT ![r][To(r)] = balance[To(r)] + Amount(r)]
               /\ pc' = [pc EXCEPT ![r] = "insert"]
               /\ UNCHANGED <<tables, holder, call, attempt, seen, stale, read, reply>>
      <3> USE <2>2 DEF tables, TypeOK, RequestInv
      <3>1. CallInv(r)' /\ AnswerInv(r)' /\ OrderInv(r)'
        BY DEF CallInv, AnswerInv, Posted, OrderInv
      <3>2. LockInv(r)'
        BY DEF LockInv, TxOpen, InTx, From, To
      <3>3. From(r) # To(r)
        BY DEF CallInv, ValidCall, From, To
      <3>4. WriteInv(r)'
        BY <1>0, <3>3 DEF WriteInv, Writing, From, To, Amount
      <3>5. QED
        BY <3>1, <3>2, <3>4
    <2>3. QED
      BY <1>6, <2>1, <2>2 DEF Credit
  <1>7. CASE InsertTransfer(r)
    <2> USE <1>7 DEF InsertTransfer, tables, TypeOK, RequestInv
    <2>1. CallInv(r)' /\ AnswerInv(r)' /\ OrderInv(r)'
      BY DEF CallInv, AnswerInv, Posted, OrderInv
    <2>2. LockInv(r)'
      BY DEF LockInv, TxOpen, InTx, From, To
    <2>3. WriteInv(r)'
      BY <1>0 DEF WriteInv, Writing, From, To, Amount
    <2>4. QED
      BY <2>1, <2>2, <2>3
  <1>8. CASE Commit(r)
    <2>1. reply'[r] = "ok" /\ pc'[r] = "done"
      BY <1>8 DEF Commit, TypeOK
    <2>2. QED
      BY <1>8, <2>1, ApplyInv DEF Commit
  <1>9. CASE SerializationFailure(r)
    BY <1>9, ConflictInv DEF SerializationFailure
  <1>10. CASE Retry(r)
    <2> USE <1>10 DEF Retry, tables, TypeOK, RequestInv
    <2>1. CallInv(r)'
      BY ConstantsAssumption DEF CallInv
    <2>2. AnswerInv(r)'
      BY DEF AnswerInv, Posted
    <2>3. LockInv(r)' /\ OrderInv(r)' /\ WriteInv(r)'
      BY DEF LockInv, OrderInv, WriteInv, Writing, TxOpen, InTx
    <2>4. QED
      BY <2>1, <2>2, <2>3
  <1>11. CASE Fail(r)
    <2> USE <1>11 DEF Fail, tables, TypeOK, RequestInv
    <2>0. /\ pc'[r] \in {"done", "doubt", "orphan"} /\ reply'[r] = "error"
          /\ pc'[r] = "doubt" => pc[r] = "commit"
          /\ pc'[r] = "done" => pc[r] \in {"begin", "backoff"}
      BY DEF InTx
    <2>1. CallInv(r)'
      BY <2>0 DEF CallInv, InTx
    <2>2. AnswerInv(r)'
      BY <2>0 DEF AnswerInv, Posted, InTx
    <2>3. LockInv(r)'
      BY <2>0 DEF LockInv, TxOpen, InTx, From, To
    <2>4. OrderInv(r)' /\ WriteInv(r)'
      BY <2>0 DEF OrderInv, WriteInv, Writing, From, To, Amount
    <2>5. QED
      BY <2>1, <2>2, <2>3, <2>4
  <1>12. CASE Reap(r)
    <2>1. pc'[r] = "done" /\ seen'[r] = {} /\ \A a \in Accounts : holder'[a] # r
      BY <1>12, ForgetsLocks DEF Reap, Forget, TypeOK
    <2>2. CallInv(r)' /\ AnswerInv(r)'
      BY <1>12, <2>1 DEF Reap, tables, RequestInv, CallInv, AnswerInv, Posted
    <2>3. QED
      BY <2>1, <2>2, ClosedInv
  <1>13. CASE LateCommit(r)
    <2>1. reply'[r] = "error" /\ pc'[r] = "done"
      BY <1>13 DEF LateCommit, RequestInv, AnswerInv, TypeOK
    <2>2. QED
      BY <1>13, <2>1, ApplyInv DEF LateCommit
  <1>14. QED
    BY <1>1, <1>2, <1>3, <1>4, <1>5, <1>6, <1>7, <1>8, <1>9, <1>10, <1>11,
       <1>12, <1>13 DEF RequestStep

-----------------------------------------------------------------------------
(* The tables change only as the bank's do.                                *)

LEMMA ApplyPosts ==
    ASSUME IInv, NEW r \in Requests, pc[r] \in {"commit", "doubt"}, Apply(r)
    PROVE  B!Post(r, attempt[r], call[r])
  <1> DEFINE c == call[r]
  <1>1. /\ c.from \in Accounts /\ c.to \in Accounts /\ c.amount \in Int
        /\ From(r) = c.from /\ To(r) = c.to /\ Amount(r) = c.amount
    BY CallTypes DEF IInv, From, To, Amount
  <1>2. c.amount > 0 /\ c.from # c.to
    BY DEF IInv, RequestInv, CallInv, ValidCall
  <1>3. /\ holder[c.from] = r /\ holder[c.to] = r
        /\ Owner[c.from] = c.user /\ c.amount <= read[r][c.from]
        /\ written[r][c.from] = balance[c.from] - c.amount
        /\ written[r][c.to] = balance[c.to] + c.amount
        /\ balance[c.to] + c.amount <= MaxCents
    BY <1>1 DEF IInv, RequestInv, WriteInv, Writing
  <1>4. c.from \in open /\ c.to \in open /\ read[r][c.from] = balance[c.from]
    BY <1>1, <1>3 DEF IInv, RequestInv, LockInv
  <1>5. \A row \in ledger : row.req # r
    BY DEF IInv, RequestInv, AnswerInv, Posted
  <1>6. balance' = B!Moved(balance, c)
    BY <1>1, <1>2, <1>3 DEF IInv, TypeOK, Apply, B!Moved
  <1>7. balance[c.from] >= c.amount
    BY <1>1, <1>3, <1>4 DEF IInv, TypeOK
  <1>8. QED
    BY <1>2, <1>3, <1>4, <1>5, <1>6, <1>7 DEF Apply, B!Post

LEMMA TablesStep ==
    ASSUME IInv, [Next]_vars
    PROVE  \/ UNCHANGED tables
           \/ \E a \in Accounts : B!Open(a)
           \/ \E r \in Requests : pc[r] \in {"commit", "doubt"}
                                  /\ B!Post(r, attempt[r], call[r])
  <1>1. ASSUME NEW r \in Requests, Commit(r) \/ LateCommit(r)
        PROVE  pc[r] \in {"commit", "doubt"} /\ B!Post(r, attempt[r], call[r])
    BY <1>1, ApplyPosts DEF Commit, LateCommit
  <1>2. ASSUME NEW r \in Requests,
               Start(r) \/ Begin(r) \/ Debit(r) \/ InsertTransfer(r)
               \/ Retry(r) \/ Fail(r) \/ Reap(r)
        PROVE  UNCHANGED tables
    BY <1>2 DEF Start, Begin, Debit, InsertTransfer, Retry, Fail, Reap, tables
  <1>3. ASSUME NEW r \in Requests, Conflict(r) PROVE UNCHANGED tables
    BY <1>3 DEF Conflict, Return, tables
  <1>4. ASSUME NEW r \in Requests, NEW a \in Accounts, LockRow(r, a)
        PROVE  UNCHANGED tables
    BY <1>3, <1>4 DEF LockRow, tables
  <1>5. ASSUME NEW r \in Requests, Check(r) \/ Credit(r) PROVE UNCHANGED tables
    BY <1>5 DEF Check, Credit, Return, tables
  <1>6. ASSUME NEW r \in Requests, SerializationFailure(r) PROVE UNCHANGED tables
    BY <1>3, <1>6 DEF SerializationFailure
  <1>7. ASSUME NEW a \in Accounts, OpenAccount(a) PROVE B!Open(a)
    BY <1>7 DEF OpenAccount
  <1>8. CASE UNCHANGED vars
    BY <1>8 DEF vars, tables
  <1>9. QED
    BY <1>1, <1>2, <1>4, <1>5, <1>6, <1>7, <1>8 DEF Next, RequestStep, Quiescent

\* A posting keeps the balances in range and the request's row unique.
LEMMA PostSafe ==
    ASSUME IInv, NEW r \in Requests, B!Post(r, attempt[r], call[r])
    PROVE  BalancesInRange' /\ AtMostOnce'
  <1>1. /\ From(r) \in Accounts /\ To(r) \in Accounts /\ Amount(r) \in Int
        /\ From(r) = call[r].from /\ To(r) = call[r].to /\ Amount(r) = call[r].amount
    BY CallTypes DEF IInv, From, To, Amount
  <1>2. BalancesInRange'
    BY <1>1, ConstantsAssumption DEF IInv, TypeOK, BalancesInRange, B!Post, B!Moved
  <1>3. AtMostOnce'
    <2>1. B!Row(r, attempt[r], call[r]).req = r
      BY DEF B!Row
    <2>2. QED
      BY <2>1 DEF IInv, AtMostOnce, B!Post
  <1>4. QED
    BY <1>2, <1>3

-----------------------------------------------------------------------------
(* The invariant is inductive.                                             *)

LEMMA InitIInv == Init => IInv
  <1> SUFFICES ASSUME Init PROVE IInv
    OBVIOUS
  <1>1. TypeOK
    BY InitTypeOK
  <1>2. BalancesInRange
    BY ConstantsAssumption DEF Init, B!BankInit, BalancesInRange
  <1>3. AtMostOnce
    BY DEF Init, B!BankInit, AtMostOnce
  <1>4. ASSUME NEW r \in Requests PROVE RequestInv(r)
    <2>1. LockInv(r) /\ OrderInv(r) /\ WriteInv(r) /\ CallInv(r)
      BY ConstantsAssumption
         DEF Init, LockInv, OrderInv, WriteInv, Writing, CallInv
    <2>2. AnswerInv(r)
      BY DEF Init, B!BankInit, AnswerInv, Posted
    <2>3. QED
      BY <2>1, <2>2 DEF RequestInv
  <1>5. QED
    BY <1>1, <1>2, <1>3, <1>4 DEF IInv

LEMMA NextIInv == IInv /\ [Next]_vars => IInv'
  <1> SUFFICES ASSUME IInv, [Next]_vars PROVE IInv'
    OBVIOUS
  <1>1. TypeOK'
    BY NextTypeOK
  <1>2. BalancesInRange' /\ AtMostOnce'
    <2>1. CASE UNCHANGED tables
      BY <2>1 DEF IInv, tables, BalancesInRange, AtMostOnce
    <2>2. ASSUME NEW a \in Accounts, B!Open(a) PROVE BalancesInRange' /\ AtMostOnce'
      BY <2>2, ConstantsAssumption
         DEF IInv, TypeOK, B!Open, BalancesInRange, AtMostOnce
    <2>3. QED
      BY <2>1, <2>2, TablesStep, PostSafe
  <1>3. ASSUME NEW q \in Requests PROVE RequestInv(q)'
    <2>1. TypeOK /\ RequestInv(q)
      BY DEF IInv
    <2>2. ASSUME NEW r \in Requests, RequestStep(r) PROVE RequestInv(q)'
      BY <2>1, <2>2, StepInv, StepFrames, FramePreserves
    <2>3. ASSUME NEW a \in Accounts, OpenAccount(a) PROVE RequestInv(q)'
      BY <2>1, <2>3, OpenFrames, FramePreserves
    <2>4. CASE UNCHANGED vars
      <3>1. Frame(q)
        BY <2>4 DEF vars, Frame
      <3>2. QED
        BY <2>1, <3>1, FramePreserves
    <2>5. QED
      BY <2>2, <2>3, <2>4 DEF Next, Quiescent
  <1>4. QED
    BY <1>1, <1>2, <1>3 DEF IInv

\* IInv holds throughout: the fact every theorem below rests on.
THEOREM Invariance == Spec => []IInv
  BY InitIInv, NextIInv, PTL DEF Spec

\* Type correctness of the transfer service.
THEOREM TypeCorrect == Spec => []TypeOK
  <1>1. IInv => TypeOK
    BY DEF IInv
  <1>2. QED
    BY <1>1, Invariance, PTL

\* Committed balances never leave the range of their column.
THEOREM BalancesStayInRange == Spec => []BalancesInRange
  <1>1. IInv => BalancesInRange
    BY DEF IInv
  <1>2. QED
    BY <1>1, Invariance, PTL

\* A balance read FOR UPDATE stays the committed balance while it is locked.
THEOREM NoLostUpdate == Spec => []LockedReadsCurrent
  <1>1. IInv => LockedReadsCurrent
    BY DEF IInv, RequestInv, LockInv, LockedReadsCurrent, Held
  <1>2. QED
    BY <1>1, Invariance, PTL

\* The funds that were checked are there until the commit.
THEOREM NoDoubleSpend == Spec => []FundsStillThere
  <1>1. ASSUME IInv, NEW r \in Requests, Writing(r) PROVE balance[From(r)] >= Amount(r)
    <2>1. From(r) \in Accounts /\ Amount(r) \in Int
      BY <1>1, CallTypes DEF IInv
    <2>2. Amount(r) <= read[r][From(r)] /\ read[r][From(r)] = balance[From(r)]
      BY <1>1, <2>1 DEF IInv, RequestInv, WriteInv, LockInv
    <2>3. QED
      BY <1>1, <2>1, <2>2 DEF IInv, TypeOK
  <1>2. IInv => FundsStillThere
    BY <1>1 DEF FundsStillThere, Writing
  <1>3. QED
    BY <1>2, Invariance, PTL

\* No request is posted twice, whatever is retried or lost.
THEOREM PostedAtMostOnce == Spec => []AtMostOnce
  <1>1. IInv => AtMostOnce
    BY DEF IInv
  <1>2. QED
    BY <1>1, Invariance, PTL

\* Answers tell the truth about the ledger, now and later.
THEOREM AnswersTrue == Spec => []AnswersMatchLedger
  <1>1. ASSUME IInv, NEW r \in Requests
        PROVE  /\ StatusOf(reply[r]) = 200 => Posted(r)
               /\ Posted(r) => StatusOf(reply[r]) \in {200, 500}
               /\ StatusOf(reply[r]) \in 400..499 => pc[r] = "done"
    <2>1. AnswerInv(r) /\ reply[r] \in Replies
      BY <1>1 DEF IInv, RequestInv, TypeOK
    <2>2. StatusOf(reply[r]) = 200 => reply[r] = "ok"
      BY <2>1 DEF StatusOf, Replies, Refusals
    <2>3. reply[r] \in {"ok", "error"} => StatusOf(reply[r]) \in {200, 500}
      BY DEF StatusOf
    <2>4. StatusOf(reply[r]) \in 400..499 => reply[r] \notin {"none", "error"}
      BY DEF StatusOf
    <2>5. QED
      BY <2>1, <2>2, <2>3, <2>4 DEF AnswerInv
  <1>2. IInv => AnswersMatchLedger
    BY <1>1 DEF AnswersMatchLedger
  <1>3. QED
    BY <1>2, Invariance, PTL

\* The transactions implement the bank of indivisible transfers.
THEOREM Implementation == Spec => ImplementsBank
  <1>1. Init => B!BankInit
    BY DEF Init
  <1>2. IInv /\ [Next]_vars => [B!BankNext]_(B!bankVars)
    <2> SUFFICES ASSUME IInv, [Next]_vars PROVE [B!BankNext]_(B!bankVars)
      OBVIOUS
    <2>1. ASSUME NEW r \in Requests, pc[r] \in {"commit", "doubt"}
          PROVE  attempt[r] \in 1..MaxRetries /\ call[r] \in Calls
      BY <2>1, CallTypes, ConstantsAssumption DEF IInv, TypeOK, RequestInv, CallInv
    <2>2. QED
      BY <2>1, TablesStep DEF B!BankNext, B!bankVars, tables
  <1>3. QED
    BY <1>1, <1>2, Invariance, PTL DEF Spec, ImplementsBank, B!BankSpec

-----------------------------------------------------------------------------
(* Sums over the ledger.  MapThenSumSet is a fold, a function defined by      *)
(* recursion over the subsets of its argument; that it exists and that it    *)
(* takes the rows in any order is shown by minimal counterexamples.          *)

Pick(s) == CHOOSE row \in s : TRUE
SumStep(f, s) == IF s = {} THEN 0 ELSE AmountOf(Pick(s)) + f[s \ {Pick(s)}]
IsSum(f, S) == f = [s \in SUBSET S |-> SumStep(f, s)]
Sum(S) == (CHOOSE f : IsSum(f, S))[S]

\* A nonempty set of subsets of a finite set has a minimal element.
LEMMA MinimalSubset ==
    ASSUME NEW S, IsFiniteSet(S), NEW U, U \subseteq SUBSET S, U # {}
    PROVE  \E m \in U : \A t \in U : t \subseteq m => t = m
  <1>1. IsWellFoundedOn(StrictSubsetOrdering(S), SUBSET S)
    BY FS_StrictSubsetOrderingWellFounded, FS_FiniteSubsetsOfFinite
  <1>2. PICK m \in U : \A t \in U : ~ (<<t, m>> \in StrictSubsetOrdering(S))
    BY <1>1, WFMin
  <1>3. ASSUME NEW t \in U, t \subseteq m, t # m PROVE FALSE
    <2>1. <<t, m>> \in StrictSubsetOrdering(S)
      BY <1>3 DEF StrictSubsetOrdering
    <2> QED
      BY <1>2, <2>1
  <1> QED
    BY <1>3

LEMMA SumIsFold == ASSUME NEW S PROVE MapThenSumSet(AmountOf, S) = Sum(S)
  BY DEF MapThenSumSet, MapThenFoldSet, Sum, IsSum, SumStep, Pick

LEMMA PickIn == ASSUME NEW s, s # {} PROVE Pick(s) \in s /\ s \ {Pick(s)} \in SUBSET s
  BY DEF Pick

LEMMA SumUnfolds ==
    ASSUME NEW S, NEW f, IsSum(f, S), NEW s \in SUBSET S
    PROVE  f[s] = SumStep(f, s)
  BY DEF IsSum

\* Two such functions agree wherever both are defined.
LEMMA SumsAgree ==
    ASSUME NEW S, NEW T, NEW f, NEW g, IsSum(f, S), IsSum(g, T),
           NEW U, IsFiniteSet(U), U \subseteq S, U \subseteq T
    PROVE  f[U] = g[U]
  <1> DEFINE Bad == {s \in SUBSET U : f[s] # g[s]}
  <1> SUFFICES ASSUME Bad # {} PROVE FALSE
    OBVIOUS
  <1>1. PICK m \in Bad : \A t \in Bad : t \subseteq m => t = m
    <2>1. Bad \subseteq SUBSET U
      OBVIOUS
    <2> HIDE DEF Bad
    <2> QED
      BY <2>1, MinimalSubset
  <1>2. f[m] = SumStep(f, m) /\ g[m] = SumStep(g, m)
    BY SumUnfolds
  <1>3. CASE m = {}
    BY <1>2, <1>3 DEF SumStep
  <1>4. CASE m # {}
    <2>1. Pick(m) \in m /\ m \ {Pick(m)} \in SUBSET U /\ m \ {Pick(m)} # m
      BY <1>4, PickIn
    <2>2. f[m \ {Pick(m)}] = g[m \ {Pick(m)}]
      BY <1>1, <2>1
    <2> QED
      BY <1>2, <1>4, <2>2 DEF SumStep
  <1> QED
    BY <1>3, <1>4

LEMMA SumExists ==
    ASSUME NEW S, IsFiniteSet(S)
    PROVE  \E f : IsSum(f, S)
  <1> DEFINE Bad == {s \in SUBSET S : ~ \E f : IsSum(f, s)}
  <1> SUFFICES ASSUME Bad # {} PROVE FALSE
    OBVIOUS
  <1>1. PICK m \in Bad : \A t \in Bad : t \subseteq m => t = m
    <2>1. Bad \subseteq SUBSET S
      OBVIOUS
    <2> HIDE DEF Bad
    <2> QED
      BY <2>1, MinimalSubset
  <1>2. \A t \in SUBSET m : t # m => IsSum(CHOOSE f : IsSum(f, t), t) /\ IsFiniteSet(t)
    <2> SUFFICES ASSUME NEW t \in SUBSET m, t # m
                 PROVE  IsSum(CHOOSE f : IsSum(f, t), t) /\ IsFiniteSet(t)
      OBVIOUS
    <2>1. t \in SUBSET S /\ t \notin Bad
      BY <1>1
    <2>2. \E f : IsSum(f, t)
      BY <2>1
    <2> QED
      BY <2>1, <2>2, FS_Subset
  <1> DEFINE g == [s \in SUBSET m |-> IF s = {} THEN 0
                                      ELSE AmountOf(Pick(s)) + Sum(s \ {Pick(s)})]
  <1>3. ASSUME NEW s \in SUBSET m, s # m PROVE g[s] = Sum(s)
    <2> DEFINE h == CHOOSE f : IsSum(f, s)
    <2>1. IsSum(h, s) /\ Sum(s) = h[s]
      BY <1>2, <1>3 DEF Sum
    <2> HIDE DEF h
    <2>2. h[s] = SumStep(h, s)
      BY <2>1, SumUnfolds
    <2>3. CASE s = {}
      BY <2>1, <2>2, <2>3 DEF SumStep
    <2>4. CASE s # {}
      <3> DEFINE t == s \ {Pick(s)}
                 k == CHOOSE f : IsSum(f, t)
      <3>1. t \in SUBSET s /\ t \in SUBSET m /\ t # m
        BY <1>3, <2>4, PickIn
      <3>2. IsSum(k, t) /\ Sum(t) = k[t] /\ IsFiniteSet(t)
        BY <1>2, <3>1 DEF Sum
      <3> HIDE DEF k, t
      <3>3. h[t] = Sum(t)
        BY <2>1, <3>1, <3>2, SumsAgree
      <3> QED
        BY <2>1, <2>2, <2>4, <3>3 DEF SumStep, t
    <2> QED
      BY <2>3, <2>4
  <1>4. ASSUME NEW s \in SUBSET m, s # {} PROVE g[s \ {Pick(s)}] = Sum(s \ {Pick(s)})
    <2>1. s \ {Pick(s)} \in SUBSET m /\ s \ {Pick(s)} # m
      BY <1>4, PickIn
    <2> QED
      BY <1>3, <2>1
  <1>5. \A s \in SUBSET m : g[s] = SumStep(g, s)
    BY <1>4 DEF SumStep
  <1>6. IsSum(g, m)
    BY <1>5 DEF IsSum
  <1> QED
    BY <1>1, <1>6

LEMMA SumOfNone == Sum({}) = 0
  <1>1. PICK f : IsSum(f, {})
    BY SumExists, FS_EmptySet
  <1>2. IsSum(CHOOSE g : IsSum(g, {}), {})
    BY <1>1
  <1> QED
    BY <1>2, SumUnfolds DEF Sum, SumStep

LEMMA SumPicks ==
    ASSUME NEW S, IsFiniteSet(S), S # {}
    PROVE  Sum(S) = AmountOf(Pick(S)) + Sum(S \ {Pick(S)})
  <1> DEFINE T == S \ {Pick(S)}
             f == CHOOSE h : IsSum(h, S)
             g == CHOOSE h : IsSum(h, T)
  <1>1. T \in SUBSET S /\ IsFiniteSet(T)
    BY FS_Subset
  <1>2. IsSum(f, S) /\ Sum(S) = f[S]
    BY SumExists DEF Sum
  <1>3. IsSum(g, T) /\ Sum(T) = g[T]
    BY <1>1, SumExists DEF Sum
  <1> HIDE DEF f, g
  <1>4. f[T] = g[T]
    <2> HIDE DEF T
    <2> QED
      BY <1>1, <1>2, <1>3, SumsAgree
  <1>5. f[S] = SumStep(f, S)
    BY <1>2, SumUnfolds
  <1> QED
    BY <1>2, <1>3, <1>4, <1>5 DEF SumStep

\* A set of rows whose amounts are numbers.
Amounts(S) == IsFiniteSet(S) /\ \A row \in S : AmountOf(row) \in Int

LEMMA SumType == ASSUME NEW S, Amounts(S) PROVE Sum(S) \in Int
  <1> DEFINE Bad == {s \in SUBSET S : Sum(s) \notin Int}
  <1> SUFFICES ASSUME Bad # {} PROVE FALSE
    OBVIOUS
  <1>1. PICK m \in Bad : \A t \in Bad : t \subseteq m => t = m
    <2>1. Bad \subseteq SUBSET S /\ IsFiniteSet(S)
      BY DEF Amounts
    <2> HIDE DEF Bad
    <2> QED
      BY <2>1, MinimalSubset
  <1>2. m # {}
    BY SumOfNone
  <1>3. Pick(m) \in m /\ m \ {Pick(m)} \in SUBSET S /\ m \ {Pick(m)} # m
    BY <1>2, PickIn
  <1>4. Sum(m \ {Pick(m)}) \in Int /\ AmountOf(Pick(m)) \in Int
    BY <1>1, <1>3 DEF Amounts
  <1>5. IsFiniteSet(m)
    BY FS_Subset DEF Amounts
  <1> QED
    BY <1>2, <1>4, <1>5, SumPicks

\* Whichever row is taken out, the sum falls by its amount.
LEMMA SumRemoves ==
    ASSUME NEW S, Amounts(S), NEW x \in S
    PROVE  Sum(S) = AmountOf(x) + Sum(S \ {x})
  <1> DEFINE Bad == {s \in SUBSET S : \E y \in s : Sum(s) # AmountOf(y) + Sum(s \ {y})}
  <1> SUFFICES ASSUME Bad # {} PROVE FALSE
    OBVIOUS
  <1>1. PICK m \in Bad : \A t \in Bad : t \subseteq m => t = m
    <2>1. Bad \subseteq SUBSET S /\ IsFiniteSet(S)
      BY DEF Amounts
    <2> HIDE DEF Bad
    <2> QED
      BY <2>1, MinimalSubset
  <1>2. PICK y \in m : Sum(m) # AmountOf(y) + Sum(m \ {y})
    BY <1>1
  <1> DEFINE p == Pick(m)
  <1>3. \A s \in SUBSET S : Amounts(s)
    BY FS_Subset DEF Amounts
  <1>4. Amounts(m) /\ m # {} /\ p \in m
    BY <1>2, <1>3, PickIn
  <1>5. Sum(m) = AmountOf(p) + Sum(m \ {p})
    BY <1>4, SumPicks DEF Amounts
  <1>6. p # y
    BY <1>2, <1>5
  <1> HIDE DEF p
  <1>7. /\ m \ {p} \in SUBSET S /\ m \ {p} \notin Bad /\ y \in m \ {p}
        /\ m \ {y} \in SUBSET S /\ m \ {y} \notin Bad /\ p \in m \ {y}
    BY <1>1, <1>4, <1>6
  <1>8. /\ Sum(m \ {p}) = AmountOf(y) + Sum((m \ {p}) \ {y})
        /\ Sum(m \ {y}) = AmountOf(p) + Sum((m \ {y}) \ {p})
    BY <1>7
  <1>9. (m \ {p}) \ {y} = (m \ {y}) \ {p} /\ (m \ {p}) \ {y} \in SUBSET S
    OBVIOUS
  <1>10. AmountOf(p) \in Int /\ AmountOf(y) \in Int /\ Sum((m \ {p}) \ {y}) \in Int
    BY <1>3, <1>4, <1>9, SumType DEF Amounts
  <1> DEFINE n == Sum((m \ {p}) \ {y})
  <1>11. Sum(m) = AmountOf(p) + (AmountOf(y) + n) /\ Sum(m \ {y}) = AmountOf(p) + n
    BY <1>5, <1>8, <1>9
  <1> HIDE DEF n
  <1>12. AmountOf(p) + (AmountOf(y) + n) = AmountOf(y) + (AmountOf(p) + n)
    BY <1>10 DEF n
  <1> QED
    BY <1>2, <1>11, <1>12

\* A row added to the ledger adds its amount.
LEMMA SumAdds ==
    ASSUME NEW S, Amounts(S), NEW x, x \notin S, AmountOf(x) \in Int
    PROVE  Amounts(S \cup {x}) /\ Sum(S \cup {x}) = Sum(S) + AmountOf(x)
  <1>1. Amounts(S \cup {x})
    BY FS_AddElement DEF Amounts
  <1>2. (S \cup {x}) \ {x} = S
    OBVIOUS
  <1>3. Sum(S) \in Int
    BY SumType
  <1> QED
    BY <1>1, <1>2, <1>3, SumRemoves

\* The ledger is finite and its rows are transfers between open accounts, which
\* is why a newly opened account has none; and it explains the balances.
Explained ==
    /\ IsFiniteSet(ledger)
    /\ \A row \in ledger : AmountOf(row) \in Int /\ row.from \in open /\ row.to \in open
    /\ \A a \in open : balance[a] = Opening[a] + Sum(Credits(a)) - Sum(Debits(a))

LEMMA EntriesOf ==
    ASSUME Explained, NEW a
    PROVE  /\ Amounts(Credits(a)) /\ Amounts(Debits(a))
           /\ Sum(Credits(a)) \in Int /\ Sum(Debits(a)) \in Int
  <1>1. Credits(a) \in SUBSET ledger /\ Debits(a) \in SUBSET ledger
    BY DEF Credits, Debits
  <1>2. Amounts(Credits(a)) /\ Amounts(Debits(a))
    BY <1>1, FS_Subset DEF Explained, Amounts
  <1> QED
    BY <1>2, SumType

\* A posting of Bank moves an amount and records it.
LEMMA PostExplained ==
    ASSUME TypeOK, Explained, NEW r \in Requests, NEW n \in 1..MaxRetries, NEW c \in Calls,
           B!Post(r, n, c)
    PROVE  Explained'
  <1> DEFINE row == B!Row(r, n, c)
  <1>1. /\ row.from = c.from /\ row.to = c.to /\ AmountOf(row) = c.amount /\ row.req = r
        /\ c.amount \in Int /\ c.from \in open /\ c.to \in open /\ c.from # c.to
    BY CallsAssumption DEF B!Row, B!Post, AmountOf
  <1>2. /\ row \notin ledger /\ ledger' = ledger \cup {row} /\ open' = open
        /\ balance' = [balance EXCEPT ![c.from] = @ - c.amount, ![c.to] = @ + c.amount]
    BY <1>1 DEF B!Post, B!Moved
  <1> HIDE DEF row
  <1>3. IsFiniteSet(ledger')
    BY <1>2, FS_AddElement DEF Explained
  <1>4. \A x \in ledger' : AmountOf(x) \in Int /\ x.from \in open' /\ x.to \in open'
    BY <1>1, <1>2 DEF Explained
  <1>5. ASSUME NEW a \in open
        PROVE  /\ Sum(Credits(a)') = Sum(Credits(a)) + (IF a = c.to THEN c.amount ELSE 0)
               /\ Sum(Debits(a)') = Sum(Debits(a)) + (IF a = c.from THEN c.amount ELSE 0)
    <2>1. /\ Credits(a)' = IF a = c.to THEN Credits(a) \cup {row} ELSE Credits(a)
          /\ Debits(a)' = IF a = c.from THEN Debits(a) \cup {row} ELSE Debits(a)
          /\ row \notin Credits(a) /\ row \notin Debits(a)
      BY <1>1, <1>2 DEF Credits, Debits
    <2>2. /\ Amounts(Credits(a)) /\ Amounts(Debits(a))
          /\ Sum(Credits(a)) \in Int /\ Sum(Debits(a)) \in Int
      BY EntriesOf
    <2>3. /\ Sum(Credits(a) \cup {row}) = Sum(Credits(a)) + c.amount
          /\ Sum(Debits(a) \cup {row}) = Sum(Debits(a)) + c.amount
      BY <1>1, <2>1, <2>2, SumAdds
    <2>4. CASE a = c.to
      BY <1>1, <2>1, <2>2, <2>3, <2>4
    <2>5. CASE a = c.from
      BY <1>1, <2>1, <2>2, <2>3, <2>5
    <2>6. CASE a # c.to /\ a # c.from
      BY <2>1, <2>2, <2>6
    <2> QED
      BY <2>4, <2>5, <2>6
  <1>6. ASSUME NEW a \in open
        PROVE  balance'[a] = Opening[a] + Sum(Credits(a)') - Sum(Debits(a)')
    <2>1. a \in Accounts /\ balance \in [Accounts -> Int] /\ Opening[a] \in Int
      BY ConstantsAssumption DEF TypeOK
    <2>2. balance'[a] = balance[a] + (IF a = c.to THEN c.amount ELSE 0)
                                   - (IF a = c.from THEN c.amount ELSE 0)
      BY <1>1, <1>2, <2>1
    <2>3. Sum(Credits(a)) \in Int /\ Sum(Debits(a)) \in Int
      BY EntriesOf
    <2>4. balance[a] = Opening[a] + Sum(Credits(a)) - Sum(Debits(a))
      BY DEF Explained
    <2> QED
      BY <1>1, <1>5, <2>1, <2>2, <2>3, <2>4
  <1> QED
    BY <1>2, <1>3, <1>4, <1>6 DEF Explained, Sum, IsSum, SumStep, Pick, AmountOf

\* A newly opened account has its opening balance and no entries.
LEMMA OpenExplained ==
    ASSUME TypeOK, Explained, NEW a \in Accounts, B!Open(a)
    PROVE  Explained'
  <1>1. /\ a \notin open /\ open' = open \cup {a} /\ ledger' = ledger
        /\ balance' = [balance EXCEPT ![a] = Opening[a]]
    BY DEF B!Open
  <1>2. \A b : Credits(b)' = Credits(b) /\ Debits(b)' = Debits(b)
    BY <1>1 DEF Credits, Debits
  <1>3. Credits(a) = {} /\ Debits(a) = {}
    BY <1>1 DEF Explained, Credits, Debits
  <1>4. ASSUME NEW b \in open'
        PROVE  balance'[b] = Opening[b] + Sum(Credits(b)) - Sum(Debits(b))
    <2>1. balance \in [Accounts -> Int] /\ open \subseteq Accounts /\ Opening[a] \in Int
      BY ConstantsAssumption DEF TypeOK
    <2>2. CASE b = a
      <3>1. Sum(Credits(b)) = 0 /\ Sum(Debits(b)) = 0
        BY <1>3, <2>2, SumOfNone
      <3>2. balance'[b] = Opening[a]
        BY <1>1, <2>1, <2>2
      <3> QED
        BY <2>1, <2>2, <3>1, <3>2
    <2>3. CASE b \in open
      BY <1>1, <2>1, <2>3 DEF Explained
    <2> QED
      BY <1>1, <2>2, <2>3
  <1>5. IsFiniteSet(ledger') /\ \A x \in ledger' : AmountOf(x) \in Int /\ x.from \in open' /\ x.to \in open'
    BY <1>1 DEF Explained
  <1> QED
    BY <1>2, <1>4, <1>5 DEF Explained, Sum, IsSum, SumStep, Pick, AmountOf

\* Money is neither made nor lost: every account holds what it was opened with
\* plus its credits less its debits, whatever transactions fail, are replayed or
\* are committed after their request was given up.
THEOREM LedgerExplains == Spec => []LedgerExplainsBalances
  <1>1. Init => Explained
    <2> SUFFICES ASSUME Init PROVE Explained
      OBVIOUS
    <2>1. ledger = {} /\ \A a \in open : balance[a] = Opening[a] /\ Opening[a] \in Int
      BY ConstantsAssumption DEF Init, B!BankInit
    <2>2. \A a : Credits(a) = {} /\ Debits(a) = {}
      BY <2>1 DEF Credits, Debits
    <2> QED
      BY <2>1, <2>2, SumOfNone, FS_EmptySet DEF Explained
  <1>2. TypeOK /\ Explained /\ [B!BankNext]_(B!bankVars) => Explained'
    <2> SUFFICES ASSUME TypeOK, Explained, [B!BankNext]_(B!bankVars) PROVE Explained'
      OBVIOUS
    <2>1. CASE UNCHANGED B!bankVars
      <3>1. ledger' = ledger /\ open' = open /\ balance' = balance
        BY <2>1 DEF B!bankVars
      <3>2. \A a : Credits(a)' = Credits(a) /\ Debits(a)' = Debits(a)
        BY <3>1 DEF Credits, Debits
      <3>3. /\ IsFiniteSet(ledger')
            /\ \A row \in ledger' : AmountOf(row) \in Int /\ row.from \in open' /\ row.to \in open'
            /\ \A a \in open' : balance'[a] = Opening[a] + Sum(Credits(a)) - Sum(Debits(a))
        BY <3>1 DEF Explained
      <3> QED
        BY <3>2, <3>3 DEF Explained, Sum, IsSum, SumStep, Pick, AmountOf
    <2> QED
      BY <2>1, PostExplained, OpenExplained DEF B!BankNext
  <1>3. Explained => LedgerExplainsBalances
    BY SumIsFold DEF Explained, LedgerExplainsBalances
  <1> QED
    BY <1>1, <1>2, <1>3, Implementation, TypeCorrect, PTL DEF Spec, ImplementsBank, B!BankSpec

-----------------------------------------------------------------------------
(* Refusals and deadlock.                                                  *)

LEMMA RefusalStep ==
    ASSUME IInv, NEW r \in Requests, RequestStep(r),
           reply'[r] = "insufficient", reply[r] # "insufficient"
    PROVE  balance[From(r)] < Amount(r)
  <1> TypeOK
    BY DEF IInv
  <1>1. ASSUME NEW code, Return(r, code) PROVE code = "insufficient"
    BY <1>1 DEF TypeOK, Return
  <1>2. ~ Conflict(r)
    BY <1>1 DEF TypeOK, Conflict
  <1>3. ~ Credit(r)
    BY <1>1 DEF TypeOK, Credit
  <1>4. \A a \in Accounts : ~ LockRow(r, a)
    BY <1>2 DEF TypeOK, LockRow
  <1>5. ~ (Start(r) \/ Begin(r) \/ Debit(r) \/ InsertTransfer(r) \/ Retry(r))
    BY DEF TypeOK, Start, Begin, Debit, InsertTransfer, Retry
  <1>6. ~ (Commit(r) \/ SerializationFailure(r) \/ Fail(r) \/ Reap(r) \/ LateCommit(r))
    BY <1>2 DEF TypeOK, Commit, SerializationFailure, Fail, Reap, LateCommit
  <1>7. Check(r)
    BY <1>3, <1>4, <1>5, <1>6 DEF RequestStep
  <1>8. /\ {From(r), To(r)} \subseteq Held(r)
        /\ read[r][From(r)] < Amount(r)
    BY <1>1, <1>7 DEF Check, TypeOK
  <1>9. read[r][From(r)] = balance[From(r)]
    BY <1>8 DEF IInv, RequestInv, LockInv, Held
  <1>10. QED
    BY <1>8, <1>9

\* A refusal for lack of funds is true of the committed balance.
THEOREM RefusalsCurrent == Spec => RefusalIsCurrent
  <1> DEFINE A == \A r \in Requests :
                    reply'[r] = "insufficient" /\ reply[r] # "insufficient"
                      => balance[From(r)] < Amount(r)
  <1>1. IInv /\ [Next]_vars => [A]_vars
    <2> SUFFICES ASSUME IInv, [Next]_vars, NEW r \in Requests,
                        reply'[r] = "insufficient", reply[r] # "insufficient"
                 PROVE  balance[From(r)] < Amount(r)
      OBVIOUS
    <2>1. CASE RequestStep(r)
      BY <2>1, RefusalStep
    <2>2. ASSUME NEW q \in Requests, q # r, RequestStep(q) PROVE FALSE
      BY <2>2, StepFrames DEF Frame
    <2>3. ASSUME NEW a \in Accounts, OpenAccount(a) PROVE FALSE
      BY <2>3 DEF OpenAccount
    <2>4. CASE UNCHANGED vars
      BY <2>4 DEF vars
    <2>5. QED
      BY <2>1, <2>2, <2>3, <2>4 DEF Next, Quiescent
  <1>2. QED
    BY <1>1, Invariance, PTL DEF Spec, RefusalIsCurrent

\* A nonempty finite set of account ids has a greatest element.
LEMMA GreatestAccount ==
    ASSUME NEW T, T \subseteq Accounts, T # {}
    PROVE  \E m \in T : \A a \in T : a <= m
  <1> DEFINE Above(a) == {b \in T : a < b}
             U == {Above(a) : a \in T}
             Fin == FiniteSubsetsOf(T)
  <1>1. IsFiniteSet(T) /\ T \subseteq Nat
    BY FS_Subset, ConstantsAssumption
  <1>2. IsWellFoundedOn(StrictSubsetOrdering(T), Fin)
    BY <1>1, FS_StrictSubsetOrderingWellFounded
  <1>3. U \subseteq Fin
    <2>1. ASSUME NEW a \in T PROVE IsFiniteSet(Above(a)) /\ Above(a) \in SUBSET T
      BY <1>1, FS_Subset
    <2>2. QED
      BY <2>1 DEF FiniteSubsetsOf
  <1>4. PICK x \in U : \A y \in U : ~ (<<y, x>> \in StrictSubsetOrdering(T))
    <2>1. U # {}
      OBVIOUS
    <2> HIDE DEF U, Fin
    <2>2. QED
      BY <1>2, <1>3, <2>1, WFMin
  <1>5. PICK m \in T : x = Above(m)
    BY <1>4
  <1>6. ASSUME NEW b \in T, m < b PROVE FALSE
    <2>1. Above(b) \subseteq Above(m) /\ b \in Above(m) /\ b \notin Above(b)
      <3>1. m \in Int /\ b \in Int /\ \A y \in T : y \in Int
        BY <1>1
      <3>2. \A y \in T : b < y => m < y
        BY <1>6, <3>1
      <3>3. ~ (b < b)
        BY <3>1
      <3>4. QED
        BY <1>6, <3>2, <3>3
    <2>2. <<Above(b), x>> \in StrictSubsetOrdering(T)
      <3>1. Above(b) # x /\ Above(b) \subseteq x
        BY <1>5, <2>1
      <3>2. Above(b) \in SUBSET T /\ x \in SUBSET T
        BY <1>5
      <3> HIDE DEF Above
      <3>3. QED
        BY <3>1, <3>2 DEF StrictSubsetOrdering
    <2>3. QED
      BY <1>4, <2>2
  <1>7. QED
    BY <1>1, <1>6

\* Row locks taken in id order never close a waiting cycle, for any number of
\* concurrent requests and accounts.
THEOREM DeadlockFree == Spec => []NoDeadlock
  <1>1. ASSUME IInv, NEW S \in (SUBSET Requests) \ {{}},
               \A r \in S : \E q \in S : WaitsFor(r, q)
        PROVE  FALSE
    <2> DEFINE T == {a \in Accounts :
                       \E r, q \in S : pc[r] = "lock" /\ NextRow(r, a) /\ holder[a] = q}
    <2>1. ASSUME NEW r \in S
          PROVE  /\ pc[r] = "lock"
                 /\ \E a \in T : a \in Wanted(r)
      <3>1. PICK q \in S : WaitsFor(r, q)
        BY <1>1
      <3>2. PICK a \in Wanted(r) : NextRow(r, a) /\ holder[a] = q
        BY <3>1 DEF WaitsFor
      <3>3. a \in Accounts
        BY <1>1, <3>2, CallTypes DEF Wanted, IInv
      <3>4. QED
        BY <3>1, <3>2, <3>3 DEF WaitsFor
    <2>2. T # {}
      BY <1>1, <2>1
    <2>3. PICK m \in T : \A a \in T : a <= m
      BY <2>2, GreatestAccount
    <2>4. PICK q \in S : holder[m] = q
      BY <2>3
    <2>5. PICK b \in T : b \in Wanted(q)
      BY <2>1, <2>4
    <2>6. m < b
      BY <1>1, <2>1, <2>3, <2>4, <2>5 DEF IInv, RequestInv, OrderInv
    <2>7. QED
      <3>1. m \in Int /\ b \in Int /\ b <= m
        BY <2>3, <2>5, ConstantsAssumption
      <3>2. QED
        BY <2>6, <3>1
  <1>2. IInv => NoDeadlock
    <2> SUFFICES ASSUME IInv, NEW S \in (SUBSET Requests) \ {{}}
                 PROVE  \E r \in S : \A q \in S : ~ WaitsFor(r, q)
      BY DEF NoDeadlock
    <2>1. QED
      BY <1>1
  <1>3. QED
    BY <1>2, Invariance, PTL
=============================================================================
