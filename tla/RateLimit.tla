----------------------------- MODULE RateLimit ------------------------------
(***************************************************************************)
(* Limiter.Allow of internal/ratelimit/ratelimit.go over the counters of   *)
(* internal/cache/redis.go, as GET /ratelimit uses it from any number of   *)
(* replicas.  A request reads its clock, derives the aligned window and    *)
(* the counter's key from it, and only then reaches Redis, where the       *)
(* counter's own TTL runs from the first increment.                        *)
(*                                                                         *)
(* Time is counted in ticks, TicksPerSecond to the second; the replicas    *)
(* and Redis share one clock, and a request reaches Redis no more than     *)
(* MaxDelay ticks after it read the time.                                  *)
(***************************************************************************)
EXTENDS Integers, FiniteSets

CONSTANTS
    Requests,        \* GET /ratelimit requests
    Scopes,          \* client IPs
    Limit,           \* RATELIMIT_LIMIT
    Window,          \* RATELIMIT_WINDOW, in ticks
    TicksPerSecond,
    MaxDelay,        \* bound on the delay between clock and counter
    MaxTime          \* bound of the clock

ASSUME LimitAssumption ==
    /\ Limit \in Nat \ {0} /\ Window \in Nat \ {0} /\ TicksPerSecond \in Nat \ {0}
    /\ MaxDelay \in Nat /\ MaxTime \in Nat /\ IsFiniteSet(Requests)

VARIABLES
    now,      \* the time
    counter,  \* the Redis counters: [n, expire] per scope and window second
    pc,       \* where each request is
    scope,    \* its client IP
    stamp,    \* the time it read
    reply     \* the Result of Allow

vars == <<now, counter, pc, scope, stamp, reply>>

\* now.Truncate(window), and its Unix() second, which is all the key keeps.
WindowStart(t) == (t \div Window) * Window

KeySecond(t) == WindowStart(t) \div TicksPerSecond

Reset(t) == WindowStart(t) + Window - t

\* Mutant: rounds down.
SecondsDown(d) == IF d < TicksPerSecond THEN 1 ELSE d \div TicksPerSecond

\* Seconds: whole seconds, rounded up, at least one.
Seconds(d) ==
    IF d <= 0 THEN 1 ELSE (d + TicksPerSecond - 1) \div TicksPerSecond

Keys == 0..(MaxTime \div TicksPerSecond)
Absent == [n |-> 0, expire |-> 0]
NoReply == [code |-> "none", remaining |-> 0, retryAfter |-> 0]

Init ==
    /\ now = 0
    /\ counter = [c \in Scopes |-> [k \in Keys |-> Absent]]
    /\ pc = [r \in Requests |-> "idle"]
    /\ scope \in [Requests -> Scopes]
    /\ stamp = [r \in Requests |-> 0]
    /\ reply = [r \in Requests |-> NoReply]

\* A request reads the clock.
Arrive(r) ==
    /\ pc[r] = "idle"
    /\ pc' = [pc EXCEPT ![r] = "incr"]
    /\ stamp' = [stamp EXCEPT ![r] = now]
    /\ UNCHANGED <<now, counter, scope, reply>>

\* Mutant: the expiry is a command of its own, and it is lost.
IncrementedForever(cell) ==
    [n |-> cell.n + 1, expire |-> IF cell.n = 0 THEN MaxTime + Window + 1 ELSE cell.expire]

\* Mutant: the TTL is passed in the wrong unit and comes out far too short.
IncrementedBriefly(cell) ==
    [n |-> cell.n + 1, expire |-> IF cell.n = 0 THEN now + 1 ELSE cell.expire]

\* incrWindowScript: INCR, and PEXPIRE when the new value is 1.
Incremented(cell) ==
    [n |-> cell.n + 1, expire |-> IF cell.n = 0 THEN now + Window ELSE cell.expire]

\* The counter request r increments.
Cell(r) == counter[scope[r]][KeySecond(stamp[r])]
Count(r) ==
    counter' = [counter EXCEPT ![scope[r]][KeySecond(stamp[r])] = Incremented(@)]

\* Mutant: the comparison is off by one.
ResultOffByOne(r, n) ==
    IF n >= Limit
    THEN [code |-> "rejected", remaining |-> 0, retryAfter |-> Seconds(Reset(stamp[r]))]
    ELSE [code |-> "allowed", remaining |-> Limit - n, retryAfter |-> 0]

\* What Allow returns for the count n, and GetRatelimit puts in its headers.
Result(r, n) ==
    IF n > Limit
    THEN [code |-> "rejected", remaining |-> 0, retryAfter |-> Seconds(Reset(stamp[r]))]
    ELSE [code |-> "allowed", remaining |-> Limit - n, retryAfter |-> 0]

\* The increment reaches Redis and its result comes back.
Allow(r) ==
    /\ pc[r] = "incr"
    /\ Count(r)
    /\ reply' = [reply EXCEPT ![r] = Result(r, Cell(r).n + 1)]
    /\ pc' = [pc EXCEPT ![r] = "done"]
    /\ UNCHANGED <<now, scope, stamp>>

\* Incr returns an error, whether or not Redis counted the request: fail open.
FailOpen(r) ==
    /\ pc[r] = "incr"
    /\ \/ Count(r)
       \/ UNCHANGED counter
    /\ reply' = [reply EXCEPT ![r] = [code |-> "open", remaining |-> Limit, retryAfter |-> 0]]
    /\ pc' = [pc EXCEPT ![r] = "done"]
    /\ UNCHANGED <<now, scope, stamp>>

\* Time passes and Redis drops the counters whose TTL is over.
Tick ==
    /\ now < MaxTime
    /\ \A r \in Requests : pc[r] = "incr" => now + 1 - stamp[r] <= MaxDelay
    /\ now' = now + 1
    /\ counter' = [c \in Scopes |-> [k \in Keys |->
                     IF counter[c][k].expire <= now + 1 THEN Absent ELSE counter[c][k]]]
    /\ UNCHANGED <<pc, scope, stamp, reply>>

\* The clock has reached its bound and every request is answered.
Finished ==
    /\ now = MaxTime /\ \A r \in Requests : pc[r] = "done"
    /\ UNCHANGED vars

Next ==
    \/ \E r \in Requests : Arrive(r) \/ Allow(r) \/ FailOpen(r)
    \/ Tick
    \/ Finished

Spec == Init /\ [][Next]_vars

-----------------------------------------------------------------------------
(* Properties.                                                             *)

\* Every variable has its type; in particular no Remaining header is negative.
TypeOK ==
    /\ now \in 0..MaxTime
    /\ counter \in [Scopes -> [Keys -> [n : Nat, expire : Nat]]]
    /\ pc \in [Requests -> {"idle", "incr", "done"}]
    /\ scope \in [Requests -> Scopes]
    /\ stamp \in [Requests -> 0..MaxTime]
    /\ reply \in [Requests -> [code : {"none", "allowed", "rejected", "open"},
                               remaining : 0..Limit, retryAfter : Nat]]

\* The requests a client has made in the window of r.
SameWindow(r) ==
    {q \in Requests : /\ pc[q] # "idle" /\ scope[q] = scope[r]
                      /\ WindowStart(stamp[q]) = WindowStart(stamp[r])}

\* Nobody is turned away early: a 429 means that Limit other requests of the
\* same client fell into the same aligned window, whatever other windows,
\* clients, delays and expiries did to the shared counters.
RejectedOnlyOverLimit ==
    \A r \in Requests : reply[r].code = "rejected" =>
        Cardinality(SameWindow(r) \ {r}) >= Limit

Granted(r) == {q \in SameWindow(r) : reply[q].code = "allowed"}

\* How often the counter of one window can be started: on time, and once more for
\* every window's length, or part of it, that an increment can be delayed.
Lives == 1 + (MaxDelay + Window - 1) \div Window

\* Redis grants a client Limit requests per life of the window's counter and no
\* more: exactly the limit when increments are never late, twice the limit when
\* they are late by a window at most, and seven times the limit with the default
\* window of 10s and the 60s a request may take.
GrantedWithinLives ==
    \A r \in Requests : pc[r] # "idle" => Cardinality(Granted(r)) <= Lives * Limit

\* Stale counters do not accumulate: every counter in Redis goes away by itself
\* within one window, without a sweeper.
CountersSelfExpire ==
    \A c \in Scopes, k \in Keys : counter[c][k].n > 0 =>
        /\ now < counter[c][k].expire
        /\ counter[c][k].expire <= now + Window

\* A rejected client that waits as long as Retry-After says reaches a counter
\* other than the one that rejected it.
RetryReachesNewWindow ==
    \A r \in Requests : reply[r].code = "rejected" =>
        KeySecond(stamp[r] + reply[r].retryAfter * TicksPerSecond) # KeySecond(stamp[r])
=============================================================================
