------------------------------- MODULE Lockout -------------------------------
(***************************************************************************)
(* The login lockout of internal/auth/lockout.go as PostAuthLogin and      *)
(* PostAdminUserUnlock drive it, one Redis command at a time.  A login     *)
(* reads the locks of its username and its IP, checks the password, and    *)
(* then either counts the failure against both or clears both; requests    *)
(* interleave between any two commands, and any command may fail.          *)
(*                                                                         *)
(* Time is counted in ticks, TicksPerSecond to the second.                 *)
(***************************************************************************)
EXTENDS Integers, Sequences, FiniteSets, FiniteSetsExt

CONSTANTS
    Requests,        \* login and unlock requests
    Users, IPs,      \* what failures are counted against
    Calls,           \* what a request may be: [op, user, ip, good]; good: the
                     \* password is right (login), the user exists (unlock)
    MaxAttempts,     \* AUTH_LOGIN_MAX_ATTEMPTS
    Window,          \* AUTH_LOGIN_WINDOW, in ticks
    LockTTL,         \* AUTH_LOCK_TTL, in ticks
    TicksPerSecond,
    MaxTime

Keys == Users \cup IPs

ASSUME LockoutAssumption ==
    /\ MaxAttempts \in Nat \ {0} /\ Window \in Nat \ {0}
    /\ LockTTL \in Nat \ {0} /\ TicksPerSecond \in Nat \ {0} /\ MaxTime \in Nat
    /\ Users \cap IPs = {} /\ IsFiniteSet(Requests)
    /\ \A c \in Calls : c.op \in {"login", "unlock"} /\ c.user \in Users
                        /\ c.ip \in IPs /\ c.good \in BOOLEAN

VARIABLES
    now,
    fails,     \* loginfail:* counters: [n, expire]
    lock,      \* lock:login:* keys: their expiry, 0 when absent
    call,      \* each request's parameters
    pc,        \* its next command
    todo,      \* the keys that command still has to visit, as in the code's order
    locked,    \* whether Locked has found a lock
    hint,      \* the longest TTL it has read, in seconds: retryAfter
    until,     \* when the lock behind that hint expires
    counted,   \* when its failure was counted against each key, or -1
    loose,     \* the keys with a filled counter whose lock was not set, a command
               \* failing, or was deleted after the counter had filled again
    reply      \* status code, and for 423 the Retry-After and when it was given

vars == <<now, fails, lock, call, pc, todo, locked, hint, until, counted, loose,
          reply>>
redis == <<fails, lock>>
reads == <<locked, hint, until>>
locals == <<reads, counted, loose>>

Absent == [n |-> 0, expire |-> 0]
NoReply == [code |-> 0, retryAfter |-> 0, at |-> 0]

\* lockKeys and RecordFailure visit the username first, then the IP; Reset
\* deletes both counters before both locks; Unlock leaves the IP alone.
LockKeys(r) == <<call[r].user, call[r].ip>>
ResetKeys(r) == <<call[r].user, call[r].ip, call[r].user, call[r].ip>>

Init ==
    /\ now = 0
    /\ fails = [k \in Keys |-> Absent]
    /\ lock = [k \in Keys |-> 0]
    /\ call \in [Requests -> Calls]
    /\ pc = [r \in Requests |-> IF call[r].op = "login" THEN "get" ELSE "lookup"]
    /\ todo = [r \in Requests |-> LockKeys(r)]
    /\ locked = [r \in Requests |-> FALSE]
    /\ hint = [r \in Requests |-> 0]
    /\ until = [r \in Requests |-> 0]
    /\ counted = [r \in Requests |-> [k \in Keys |-> -1]]
    /\ loose = {}
    /\ reply = [r \in Requests |-> NoReply]

Goto(r, p, keys) ==
    /\ pc' = [pc EXCEPT ![r] = p]
    /\ todo' = [todo EXCEPT ![r] = keys]
    /\ UNCHANGED <<now, call>>

Answer(r, code, wait) ==
    /\ Goto(r, "done", <<>>)
    /\ reply' = [reply EXCEPT ![r] =
                   [code |-> code, retryAfter |-> wait, at |-> IF code = 423 THEN now ELSE 0]]

\* RetryAfterSeconds of a duration in ticks.
RetryAfterSeconds(d) ==
    IF d <= 0 THEN 1 ELSE (d + TicksPerSecond - 1) \div TicksPerSecond

\* The TTL command answers in seconds, rounded to the nearest; 0 when absent.
TTL(k) ==
    IF lock[k] = 0 THEN 0
    ELSE (2 * (lock[k] - now) + TicksPerSecond) \div (2 * TicksPerSecond)

-----------------------------------------------------------------------------
(* Locked.                                                                 *)

\* Mutant: no hint for a lock whose TTL could not be read.
LockedNextUnhinted(r, found, seconds) ==
    IF Len(todo[r]) > 1 THEN Goto(r, "get", Tail(todo[r])) /\ UNCHANGED reply
    ELSE IF found THEN Answer(r, 423, Max({1, seconds}))
    ELSE Goto(r, "verify", <<>>) /\ UNCHANGED reply

\* The loop goes on to the next lock key, or ends: 423 when a lock was found,
\* otherwise on to the password.  A lock with no TTL read is hinted as LockTTL.
LockedNext(r, found, seconds) ==
    IF Len(todo[r]) > 1 THEN Goto(r, "get", Tail(todo[r])) /\ UNCHANGED reply
    ELSE IF found
    THEN Answer(r, 423, IF seconds > 0 THEN seconds ELSE RetryAfterSeconds(LockTTL))
    ELSE Goto(r, "verify", <<>>) /\ UNCHANGED reply

\* Get on the next lock key; a store error fails open at once.
LockedGet(r) ==
    /\ pc[r] = "get"
    /\ \/ /\ lock[Head(todo[r])] # 0
          /\ locked' = [locked EXCEPT ![r] = TRUE]
          /\ Goto(r, "ttl", todo[r])
          /\ UNCHANGED reply
       \/ /\ lock[Head(todo[r])] = 0
          /\ LockedNext(r, locked[r], hint[r])
          /\ UNCHANGED locked
       \/ /\ Goto(r, "verify", <<>>)
          /\ UNCHANGED <<locked, reply>>
    /\ UNCHANGED <<redis, hint, until, counted, loose>>

\* TTL of the lock just found; a failed command leaves the hint as it was.
LockedTTL(r) ==
    /\ pc[r] = "ttl"
    /\ LET expiry == lock[Head(todo[r])] IN
       \E seconds \in {0, TTL(Head(todo[r]))} :
         /\ hint' = [hint EXCEPT ![r] = Max({@, seconds})]
         /\ until' = [until EXCEPT ![r] =
                       IF hint[r] = 0 /\ seconds > 0 THEN expiry
                       ELSE IF hint[r] > 0 /\ seconds = 0 THEN @
                       ELSE Max({@, expiry})]
         /\ LockedNext(r, TRUE, hint'[r])
    /\ UNCHANGED <<redis, locked, counted, loose>>

\* UserByUsername and CheckPassword; a database error is a 500.
Verify(r) ==
    /\ pc[r] = "verify"
    /\ \/ /\ IF call[r].good
             THEN Goto(r, "reset", ResetKeys(r))
             ELSE Goto(r, "incr", LockKeys(r))
          /\ UNCHANGED reply
       \/ Answer(r, 500, 0)
    /\ UNCHANGED <<redis, locals>>

-----------------------------------------------------------------------------
(* RecordFailure: bump the username's counter, then the IP's.              *)

\* The next key, or the 401 when both have been bumped.
NextBump(r) ==
    IF Len(todo[r]) > 1
    THEN Goto(r, "incr", Tail(todo[r])) /\ UNCHANGED reply
    ELSE Answer(r, 401, 0)

\* incrWindowScript: the window runs from the first failure.
Incremented(cell) ==
    [n |-> cell.n + 1, expire |-> IF cell.n = 0 THEN now + Window ELSE cell.expire]

\* Mutant: the lock is set only beyond the threshold.
CrossesLate(n) == n > MaxAttempts

\* Mutant: the lock is set one failure early.
CrossesEarly(n) == n >= MaxAttempts - 1

Crosses(n) == n >= MaxAttempts

\* Incr, then on to Set when the count has reached the threshold.  An error
\* skips the key, whether the script ran or not.
BumpIncr(r) ==
    /\ pc[r] = "incr"
    /\ LET k == Head(todo[r]) IN
       \/ /\ fails' = [fails EXCEPT ![k] = Incremented(@)]
          /\ counted' = [counted EXCEPT ![r][k] = now]
          /\ IF Crosses(fails[k].n + 1)
             THEN Goto(r, "set", todo[r]) /\ UNCHANGED reply
             ELSE NextBump(r)
          /\ UNCHANGED loose
       \/ /\ fails' = [fails EXCEPT ![k] = Incremented(@)]
          /\ counted' = [counted EXCEPT ![r][k] = now]
          /\ loose' = loose \cup IF Crosses(fails[k].n + 1) THEN {k} ELSE {}
          /\ NextBump(r)
       \/ /\ NextBump(r)
          /\ UNCHANGED <<fails, counted, loose>>
    /\ UNCHANGED <<lock, reads>>

\* Set of the lock; its error is ignored.
BumpSet(r) ==
    /\ pc[r] = "set"
    /\ LET k == Head(todo[r]) IN
       \/ lock' = [lock EXCEPT ![k] = now + LockTTL] /\ loose' = loose \ {k}
       \/ loose' = loose \cup {k} /\ UNCHANGED lock
    /\ NextBump(r)
    /\ UNCHANGED <<fails, reads, counted>>

-----------------------------------------------------------------------------
(* Reset after a successful login, Unlock by an administrator.             *)

\* PostAdminUserUnlock looks the user up first.
UnlockLookup(r) ==
    /\ pc[r] = "lookup"
    /\ \/ /\ call[r].good
          /\ Goto(r, "unlock_fails", <<call[r].user>>)
          /\ UNCHANGED reply
       \/ /\ ~call[r].good
          /\ Answer(r, 404, 0)
       \/ Answer(r, 500, 0)
    /\ UNCHANGED <<redis, locals>>

\* Del of a counter, and of a lock.
CounterDeleted(k) == fails' = [fails EXCEPT ![k] = Absent] /\ loose' = loose \ {k}
LockDeleted(k) ==
    /\ lock' = [lock EXCEPT ![k] = 0]
    /\ loose' = loose \cup IF Crosses(fails[k].n) THEN {k} ELSE {}

\* The four deletes, errors ignored; startSession, which follows, is the
\* business of Sessions.tla.
ResetDel(r) ==
    /\ pc[r] = "reset"
    /\ LET k == Head(todo[r]) IN
       \/ /\ Len(todo[r]) > 2
          /\ CounterDeleted(k) /\ UNCHANGED lock
       \/ /\ Len(todo[r]) <= 2
          /\ LockDeleted(k) /\ UNCHANGED fails
       \/ UNCHANGED <<redis, loose>>
    /\ IF Len(todo[r]) > 1
       THEN Goto(r, "reset", Tail(todo[r])) /\ UNCHANGED reply
       ELSE Answer(r, 200, 0)
    /\ UNCHANGED <<reads, counted>>

\* Unlock deletes the counter, then the lock; an error ends it with a 500, also
\* when the delete has taken effect.
UnlockFails(r) ==
    /\ pc[r] = "unlock_fails"
    /\ \/ /\ CounterDeleted(call[r].user)
          /\ \/ Goto(r, "unlock_lock", todo[r]) /\ UNCHANGED reply
             \/ Answer(r, 500, 0)
       \/ /\ Answer(r, 500, 0)
          /\ UNCHANGED <<fails, loose>>
    /\ UNCHANGED <<lock, reads, counted>>

UnlockLock(r) ==
    /\ pc[r] = "unlock_lock"
    /\ \/ /\ LockDeleted(call[r].user)
          /\ Answer(r, 204, 0) \/ Answer(r, 500, 0)
       \/ /\ Answer(r, 500, 0)
          /\ UNCHANGED <<lock, loose>>
    /\ UNCHANGED <<fails, reads, counted>>

\* Time passes and Redis expires what is due.
Tick ==
    /\ now < MaxTime
    /\ now' = now + 1
    /\ fails' = [k \in Keys |-> IF fails[k].expire <= now + 1 THEN Absent ELSE fails[k]]
    /\ lock' = [k \in Keys |-> IF lock[k] <= now + 1 THEN 0 ELSE lock[k]]
    /\ loose' = {k \in loose : fails[k].expire > now + 1}
    /\ UNCHANGED <<call, pc, todo, reads, counted, reply>>

Finished ==
    /\ now = MaxTime /\ \A r \in Requests : pc[r] = "done"
    /\ UNCHANGED vars

Next ==
    \/ \E r \in Requests :
          \/ UnlockLookup(r) \/ LockedGet(r) \/ LockedTTL(r) \/ Verify(r)
          \/ BumpIncr(r) \/ BumpSet(r) \/ ResetDel(r)
          \/ UnlockFails(r) \/ UnlockLock(r)
    \/ Tick
    \/ Finished

Spec == Init /\ [][Next]_vars

-----------------------------------------------------------------------------
(* Properties.                                                             *)

Pcs == {"get", "ttl", "verify", "incr", "set", "reset", "lookup", "unlock_fails",
        "unlock_lock", "done"}
Codes == {0, 200, 204, 401, 404, 423, 500}

CounterType == [n : Nat, expire : 0..(MaxTime + Window)]
ExpiryType == 0..(MaxTime + LockTTL)
ReplyType == [code : Codes, retryAfter : Nat, at : 0..MaxTime]

\* Every variable has its type; in particular no Retry-After is negative.
TypeOK ==
    /\ now \in 0..MaxTime
    /\ fails \in [Keys -> CounterType]
    /\ lock \in [Keys -> ExpiryType]
    /\ call \in [Requests -> Calls]
    /\ pc \in [Requests -> Pcs]
    /\ todo \in [Requests -> Seq(Keys)]
    /\ locked \in [Requests -> BOOLEAN]
    /\ hint \in [Requests -> Nat]
    /\ until \in [Requests -> ExpiryType]
    /\ counted \in [Requests -> [Keys -> Int]]
    /\ loose \subseteq Keys
    /\ reply \in [Requests -> ReplyType]

\* The failures counted against k from time t on for one Window.
FailuresWithin(k, t) ==
    {r \in Requests : counted[r][k] \in t..(t + Window - 1)}

\* Nobody is locked out undeserved: behind every lock there are MaxAttempts
\* failures within one Window, whatever was cleared, expired or raced.
LocksAreEarned ==
    \A k \in Keys : lock[k] # 0 =>
        \E t \in 0..now : Cardinality(FailuresWithin(k, t)) >= MaxAttempts

\* The threshold holds (LockTTL >= Window): while a counter stands at
\* MaxAttempts or more, its key is locked or a request is about to lock it.  The
\* exceptions last no longer than the counter, or until the next failure: the
\* command that should have locked it failed, or the counter filled before the
\* lock delete of a Reset or an Unlock, whose counter delete came earlier or failed.
ThresholdLocks ==
    \A k \in Keys : fails[k].n >= MaxAttempts =>
        \/ lock[k] # 0
        \/ \E r \in Requests : pc[r] = "set" /\ Head(todo[r]) = k
        \/ k \in loose

\* A 423 tells the truth to within half a second: after the Retry-After it
\* carries, the last lock whose TTL was read (any lock, when no TTL could be
\* read) is at most half a second from expiry.
RetryAfterNearlySuffices ==
    \A r \in Requests : reply[r].code = 423 =>
        2 * (until[r] - (reply[r].at + reply[r].retryAfter * TicksPerSecond))
            <= TicksPerSecond
=============================================================================
