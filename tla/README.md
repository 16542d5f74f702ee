# A TLA+ verification of devopsbin

devopsbin is one Go binary that serves a demonstration HTTP API over PostgreSQL
and Redis, with a web console, and that migrates its own schema. Some of its
endpoints are stateless; what is hard is the state that concurrent requests
share, the stack every request goes through, and how the processes of a
deployment start and end.

| part | source | state | modules |
| --- | --- | --- | --- |
| money transfer | `store/transfer.go`, `httpapi/transfer.go` | `accounts` and `transfers` tables, row locks | `Bank`, `Transfer`, `TransferProofs` |
| rate limiter | `ratelimit/ratelimit.go`, `httpapi/ratelimit.go` | one Redis counter per client and window | `RateLimit`, `RateLimitProofs` |
| login lockout | `auth/lockout.go`, login and unlock handlers | failure counters and locks in Redis | `Lockout`, `LockoutProofs` |
| sessions, password change and recovery | `auth/auth.go`, `auth/recovery.go`, `httpapi/auth*.go` | session keys, per-user index sets, reset tokens in Redis; password hashes in PostgreSQL | `Sessions`, `SessionsProofs` |
| router, middleware, probes, delay, status, inspection, site | `httpapi/router.go`, `authmw.go`, `checks.go`, `delay.go`, `spa.go`, ... | one request, its timers and the dependencies it pings | `Gateway`, `GatewayProofs` |
| generated contract | `httpapi/openapi.gen.go` | none: routes, parameters, bodies, declared answers | `Api` |
| server lifecycle | `cli/run.go` | two goroutines, a channel, the signal handler, requests in flight | `Lifecycle`, `DeploymentProofs` |
| configuration | `config/config.go`, `cache/redis.go` | settings and the files they name | `Config` |
| migrations and startup | `migrate/migrate.go`, `cli/migrate.go`, `cli/run.go`, `compose.yaml` | the schema's version table and lock, the runners, the start of the server | `Deployment`, `DeploymentProofs` |
| trusted proxies | `httpapi/proxy.go`, `httpapi/inspect.go` | the forwarded headers of a request, the context values | `Proxy`, `ProxyProofs` |
| web console | `web/src/lib/auth.svelte.ts`, `Session.svelte`, `EndpointCard.svelte` | the auth store, the browser's cookie, calls in flight | `Console`, `ConsoleProofs` |

Source paths are relative to `src/internal/`, those of the console and of
`compose.yaml` to `src/`. `PROJECT.json` lists every
component, the ones left out too, and maps every definition to its lines.

## Inventory

**Transfer.** `PostTransfer` calls `Store.Transfer`, which validates its
parameters and then runs up to five attempts of `transferOnce`: begin at the
chosen isolation level, lock both accounts with `SELECT ... ORDER BY id FOR
UPDATE`, check existence, ownership and funds, debit, credit, insert the ledger
row, commit. Serialization failures and deadlocks (40001, 40P01) are retried
after a jittered backoff; everything else is returned. Hard: interleavings of
transactions at three isolation levels; lock order; the replay of a transaction;
a connection lost during `COMMIT`; the limit of the pool. Correct means: no
update lost, no funds spent twice, nothing posted twice, the ledger explains the
balances, the answer is true, nobody waits for ever.

**Rate limiter.** `Allow` reads the clock, derives the aligned window and a key
from its Unix second, and increments the key with a Lua script that sets the TTL
at the first increment. Any number of replicas share the counters. Hard: the
delay between clock and counter, the counter's own TTL against the window, windows
that are not whole seconds, Redis failing. Correct means: nobody is rejected
early, no window grants without bound, no counter stays behind, `Retry-After`
leads to a new counter.

**Lockout.** A login reads two locks, verifies the password, and bumps two
counters or deletes four keys; an administrator deletes two. No two of these
commands are atomic together, and errors are ignored except in `Unlock`. Correct
means: every lock is earned, the threshold locks, `Retry-After` is enough.

**Sessions.** The middleware loads a session, checks CSRF token and role, and
writes the session back with a new TTL. Handlers create a session (SET, then
SADD to the user's index), delete one, or revoke all that the index lists. A
reset token is consumed with GETDEL. Correct means: the absolute lifetime is
hard, logout and revocation are final, tokens work once, a change keeps the
session it has just handed out.

**Lifecycle.** The main goroutine wires everything, starts the serving goroutine
and selects on its error and on the signal context. After a signal it restores
the default handler, drains under a deadline, force-closes when the deadline
passes, and receives the serving goroutine's report. Correct means: failures
surface, clean means drained, a second signal kills, a signal always ends the
process.

**Gateway.** A request passes the logger, the recoverer, the proxy resolution, the
timeout and chi's router, which knows the API, the documentation and the console's files. The
generated wrapper binds its parameters and reads its body; `authMiddleware`
loads the session of a protected operation, checks CSRF token and role and
touches it; the handler runs; the stack unwinds. Five timeouts cut this short at
different places (read, write, request, ping, delay), the client may leave, and
the dependencies that the probes ping come and go. Two hand-kept lists say which
operations need a session and which a role; the contract says it too. Correct
means: the lists and the contract agree, every answer is declared, the probes
tell the truth, nothing outlives its deadline, every request ends.

**Configuration.** Settings come from the environment, are validated together
with the files they name, and are used later, when those files may be others.
Correct means: what was asked for (TLS, client certificates, the Redis topology)
is what is served, or nothing is.

**Migrations and startup.** Any number of `migrate up` processes share the
schema under a session lock; each may fail, crash and be run again. The server
waits for its own runner, then loads, opens and starts one thing after the other.
Correct means: every migration is applied once and in order, and no server starts
before all of them.

**Trusted proxies.** The middleware believes forwarded headers only from a peer
within the configured prefixes, walks `X-Forwarded-For` from the right past
trusted hops and stops at what it cannot parse; of `X-Forwarded-Proto` the first
entry counts. Hard: what clients and proxies write is merged in many ways.
Correct means: the address is that of the host that really reached the trusted
proxies, the scheme that of its connection.

**Console.** The store is hydrated on mount, set by the session bar's login,
register and logout, and mirrored by the cards. Calls overlap, answers are lost
or arrive in another order. Correct means: the store shows whom the cookie stands
for, or is put right by the next orderly call, and the page never hangs.

The components meet in few places. `Deployment` extends `Config` and
`Lifecycle`: its server is the one of `Lifecycle` started from a configuration.
`Gateway` extends `Api`, and the handlers that the other modules model are single
steps of it. The middleware guards `PostTransfer`; login
calls the lockout before and after verifying the password and then starts a
session; registration creates a user and its starter account in one transaction;
the request timeout bounds what every handler does with the pools; the resolved
address is the scope of the rate limiter and of the lockout.

## Models

Every model takes one step per SQL statement or Redis command, because that is
where requests interleave. Local computation between two commands belongs to the
command before or after it.

### Bank and Transfer

`Bank` is what the service promises: accounts are opened, and money moves in
single steps, by the owner, out of funds that exist, once per request.

`Transfer` is the code. `pc[r]` names the next statement of request r; `read`
holds what `SELECT ... FOR UPDATE` returned, `written` the uncommitted updates,
`attempt` the loop counter. `Start` is the validation, `Begin` takes a
connection, `LockRow` locks one row, `Check` makes the four checks and returns
the refusals, `Debit`, `Credit`, `InsertTransfer` and `Commit` are the
statements, `Retry` is the next turn of the loop. `Fail` is a cancelled context
or a lost connection at any point. Then the server side of the transaction is
either reaped (`Reap`) or, if `COMMIT` was on its way, may still take effect
(`LateCommit`). `OpenAccount` is a registration that commits meanwhile.

PostgreSQL is external and modelled by what the code relies on. Row locks are
exclusive and held to the end of the transaction. Above read committed, locking
a row changed since the snapshot fails with 40001 (`stale`). A serializable
transaction may be refused at any statement. A commit is atomic. The lock steps
of one `SELECT` are separate steps, so that lock order matters.

Abstractions: account ids are numbers ordered like the uuids; ledger rows carry
the request and the attempt they come from, which the table does not, to state
`AtMostOnce`; the column's `CHECK` is left out and `FundsStillThere` shows that
it is never needed; `HoldMs` only makes the time between two steps longer;
malformed ids, which the handler's uuid type excludes, are left out.

### RateLimit

`Arrive` reads the clock, `Allow` is the increment reaching Redis and the answer,
`FailOpen` an error, whether the script ran or not. `KeySecond` keeps the
conversion of the window start to whole seconds. `Tick` moves the one clock that
the replicas and Redis share and expires counters. Clock skew between replicas
is not modelled beyond `MaxDelay`, the longest time between the clock reading and
the increment: the request timeout at most. `Lives` says how many counters, one
after the other, a window can get when increments are that late.

### Lockout

`todo[r]` is the list of keys the current loop has still to visit. `LockedGet`
and `LockedTTL` are the loop of `Locked`, `Verify` the database and bcrypt,
`BumpIncr` and `BumpSet` are `bump`, `ResetDel` is `Reset`, `UnlockFails` and
`UnlockLock` are `Unlock`. A failing delete may have taken effect all the same; `Unlock` then reports an
error. `counted` and `until` record what happened, for the properties only, and so
does `loose`: the keys whose counter is full without a lock, because the Set
failed, or because the counter filled between the counter delete and the lock
delete of a `Reset` or an `Unlock`. A key stops being loose with its counter, or
with the next failure. The duration arithmetic is kept: `TTL`
rounds to the nearest second as Redis does, `RetryAfterSeconds` rounds up.
An empty client address, which `net/http` does not produce, is left out.

### Sessions

A request is one of `register`, `login`, `me` (any read-only protected
operation), `logout`, `change`, `forgot` and `reset` (`Start`). The middleware is
`GetSession`, `Touch` (which reads the clock) and `TouchSet` (the SET, possibly
later: up to `MaxDelay` after the request came, `InTime`; the request's timeout
ends its commands, and what a command goes on beyond its context is part of the
bound). `Register`, `Login` and `VerifyCurrent` are the handlers' database
lookups and password checks, `Update` stores a new hash. `startSession` is `Rotate`, `Mint`, `MintSet` and `IndexSession`;
`RevokeUserSessions` is `Members`, `Revoke` and `ClearIndex`. Passwords are
counted: `pw[u]` is how often the hash was set, and a session's `basis` is the
password it was opened with. A failing command either took effect (the branches
that answer 500 or 401 after it) or did not (`Fail`). Users are never deleted by
the code, so the not-found branches after a session or token was found are left
out. The middleware's role check, made where the CSRF check is, adds no state
change here and is covered by the same 403; `Gateway` tells the two apart.

`raced` is the list of sessions that bulk revocation may miss. The specification
adds to it exactly where the code loses track: a touch that revives a deleted
session, a session being started while the sessions are listed, an index entry
that is never written, an index dropped with entries it had not listed.
`RevokedUnlessRaced` says that this list is complete.

### Lifecycle

`main` starts by loading the configuration (`Configured`), before which signals
have their default effect. `main` and `serve` are the two goroutines, `serveErr` the channel, `notify`
whether signals go to `NotifyContext`. `select` may take either case when both
are ready. `net/http`, the pool and signal delivery are external. `ClosePools`
stands for the deferred closes: `pgxpool.Close` waits for borrowed connections.

### Config and Deployment

`Config` has the defaults, the rules of the validation one operator per Go
function, and the choice of the Redis client. A configuration is a flat record
whose texts are reduced to what the rules tell apart.

`Deployment` adds the processes. `RunnerOpens` is `withMigrator`, `RunnerLocks`
and `RunnerApplies` are goose's `Up` under its session lock, `RunnerDone` and
`RunnerFails` the exit codes, a crash included, and `RunnerAgain` a rerun. goose
and PostgreSQL's advisory lock are external. `Gate` is
`service_completed_successfully`, then `LoadConfig`, `OpenStore`, `OpenCache`,
`LoadAssets` and `StartServer` are the start in the order of `run.go`; each step
either goes on or is `StartFails` of `Lifecycle`. `ListenStep` loads the
certificate only after binding, as `ListenAndServeTLS` does. `FileChanges`
replaces, truncates or removes a file between any two of these. All other steps
are those of `Lifecycle` (`Running`), so `DSpec` implements `Spec`.

### Api and Gateway

`Api` is `openapi.gen.go` as four tables: the route of an operation, the
parameters its wrapper binds, how its body is read, the status codes its response
types can write; the tables are put together from one piece per group of routes with
`++`. `Gateway` follows one request through the stack, one action per
layer: `Route`, `Bind`, `ReadBody`, `LoadSession` and `SessionLoaded`, `Guard`,
`Touch`, the handlers, `Unwind`. A client that leaves while its body is being read
makes the decoding fail, a 400; later it cancels the context. Handlers that go to PostgreSQL or Redis are `EnterStored` and `Work`:
they take time and give one of their answers or an error. `middleware.Timeout`
only cancels a context, and not everything looks at it: bcrypt does not, nor does
a go-redis client, as `cache.New` builds it, while it reads a reply. So a call to
Redis and the work of a handler may go on for up to `Overrun` beyond the deadline
(`CallOut`), and a ping beyond its own; what begins when the context is already
over fails at once, except a handler that hashes a password first (`HashesFirst`). The delay, the status
and echo endpoints and the probes are modelled in full: `Duration` overflows as
Go's conversion does, to a value that depends on the architecture; `StartCheck`
takes the checks in the order of a Go map, any; `Ping` ends by an answer, a
refusal, its own deadline or the client's departure. `Unwind` is
`middleware.Timeout`'s deferred 504 and what `net/http` makes of the reply. Every
method, path, parameter, token, body and cookie that a layer distinguishes is an
initial state. `Tick` stops at the next deadline, and its overrun where there is
one: a timer that is due fires.

### Proxy

`path` is the hosts that have really sent the request on, `xff` and `proto` the
header lines as they stand. `Send` is a client with headers of its own choice,
`Forward` a reverse proxy that adds its peer's address, truthfully but in any
form, sometimes illegibly, on the same line or a new one. `trustedProxy` is the
middleware, `clientFromXFF` its walk as a recursive function over the merged
entries. `RealOrigin` defines the right answer from `path` alone, never from the
headers. Any subset of the proxies may be configured as trusted. A proxy is assumed
to overwrite a client's `X-Forwarded-Proto`, as the deployed Caddy does; what
another proxy wrote it passes on, or adds the scheme of its own connection to, on
the same line or a new one (`ReportsProto`).

### Console

A call is sent with the cookie of that moment, handled, received (the browser
stores the cookie) and applied (the awaiting code runs); other calls interleave
between any two of these. `Submit` and `SignOut` are the bar, `Trigger` a card.
The server is reduced to which sessions are alive. `Lose` is a transport error
or a 500, with or without an effect on the server, `BodyCutOff` a connection that
breaks within the body. `alone` and `skewed` record,
for `MirrorsWhenOrderly` only, which calls overlapped nothing and whether
something has happened that can put the store out of step.

## Runs

| run | size | shows |
| --- | --- | --- |
| `transfer` | 2 requests, 3 accounts, 12 calls, 2 attempts | all safety of transfers, `NoDeadlock` and `ImplementsBank` |
| `transfer_live` | 3 requests, the same 2 rows, pool of 2 | `EveryRequestAnswered`, `LocksReleased` |
| `ratelimit` | 3 requests, 2 clients, 3 windows of 1.5 s, increments up to a window late | no early 429, `GrantedWithinLives`, self-expiry, `Retry-After` |
| `lockout` | 3 requests, 1 user, 2 addresses | `LocksAreEarned`, `ThresholdLocks` |
| `lockout_retry` | 2 requests, quarter seconds | `Retry-After` within half a second |
| `sessions` | any 2 of 7 operations, 2 users, time | absolute lifetime, index lifetime |
| `sessions_revoke` | any 3 of login, me, change, forgot, reset | revocation, own session kept, token used once |
| `sessions_logout` | me and logout | violation: logout is final |
| `deployment` | 2 requests, 2 signals, 2 runners, 2 migrations, 49 configurations, 2 file changes, 1 rerun | the schema, the gate, the configuration served, exit status, signals, termination |
| `gateway` | every request of the contract, 2 dependencies, 2 request timeouts | `ContractEnforced`, `AnswerOnContract`, `ProbesTruthful`, `AnswersInTime`, `DelayHonoured`, `EveryRequestEnds` |
| `proxy` | 2 clients, 2 proxies, every choice of prefixes | `OriginIsReal`, `SchemeIsClients` |
| `console` | hydrate and 2 calls, 2 users | `MirrorsWhenOrderly`, `NothingHangs` |

**Bounds.** Two transfers on three accounts meet in every order that a pair can;
three are run where three matter, for the pool; that no larger set of requests
closes a waiting cycle is proved. Opening balances
of 1 and 2 with `MaxCents = 3` make funds run out and a credit overflow. Two
attempts cover first, replayed and last. In `ratelimit` the limit is 1 and the
clock covers three windows, none a whole number of seconds; with three requests
a window can be filled, overfilled and reopened, and `MaxDelay` is a whole window,
so that a late increment gives a window its second counter. In `lockout`, `MaxAttempts` is 2
with three requests, so that the threshold is reached, crossed and cleared;
`LockTTL` is not below `Window`, which `ThresholdLocks` needs (the default has
them equal). In `sessions`, times up to 4 exceed the absolute lifetime of 3, and
`MaxDelay` is 1, so that a delayed SET keeps a key beyond it (in the other two runs
it is 0: they do not move the clock); the
revocation run freezes the clock, since what races there is the order of
commands. In `deployment` two signals are one to start the shutdown and one to disturb it;
two runners contend for the lock with two migrations, so that one can fail half
way and the other, or a rerun, go on from there; two file changes are one after
the validation and one before the listener; the configurations are the default
with every TLS setting, every Redis topology, and each setting at the edge of
what is accepted. In `gateway` the read, write, ping and delay limits lie between
the two request timeouts, so that either may come first, and the delays are below,
at and above the cap and one that overflows. An `Overrun` of one tick is enough
for every call to end before, at and after its deadline. Two proxies
give a trusted and an untrusted one in either order, and the client's lines name
another client, a proxy, a blank and an illegible entry. In `console` two calls
besides hydrate are enough for one to disturb the store and the other to repair
it.
Symmetry is used only for safety, over requests that differ in name only.

**Fairness.** `transfer_live` assumes that Go code which can run does, that
PostgreSQL's lock queue and pgxpool's connection queue do not starve a waiter
(strong fairness of `LockRow` and `Begin`; both are first come, first served),
and that the server ends the transaction of a lost client. Nothing forces
failures, and serialization failures may strike every attempt. `deployment` has
the fairness of `Lifecycle` for the composed steps, and none for the migration
runners, the gate or the files. It
assumes that the goroutines run, that the shutdown timer fires, and that a
handler gives its database connection back, because every statement runs under a
context that the request timeout ends. It does not assume that a request ends:
`SignalEndsRun` holds with a handler that hangs for ever. `console` assumes that
the server answers or the browser gives a request up, and that the awaiting code
then runs; it does not assume that the user clicks anything. `gateway` assumes
that the goroutine of the request runs and the clock goes on, and nothing of the
client or the dependencies.

## What the violation says

`sessions_logout` compares what the code does with a sentence of the repository,
quoted in `PROJECT.json`: `TouchSession` can write a deleted session back, so a
logout is not final for a request that loaded the session before.
`RevokedUnlessRaced` and `IndexOutlivesSessions` say what holds of revocation
instead; a login in flight while a reset lists the user's sessions is on the race
list, so it may survive the reset.

Smaller observations are covered by the properties that do hold rather than by
runs of their own. The limiter's key has second resolution and the configured
window need not: windows shorter than a second share counters and reject early,
while `RejectedOnlyOverLimit` holds for a second and more. Redis rounds a TTL to
the nearest second before `RetryAfterSeconds` rounds it up, so the lockout's
`Retry-After` can be half a second short (`RetryAfterNearlySuffices`). A hydrate
that is overtaken by a login overwrites its result (`MirrorsWhenOrderly` excuses
overlapping calls). `call` reads the body of an error response in its catch
block, outside the `try`: if the connection breaks there it throws, and hydrate
leaves the store not ready, which its comment says it never does
(`NothingHangs` excuses that case, `BodyCutOff` models it). An increment that arrives after its counter's TTL recreates
the counter, so a window can grant its limit again, up to seven times with the
defaults of a 10 s window and a 60 s request timeout (`GrantedWithinLives`). A
delayed SET keeps a session's key beyond the absolute lifetime, and a request that
came before its end may be served after it; nobody who comes later is
(`AbsoluteIsHard`). A second signal between the first and `stop()` is absorbed by
`NotifyContext`; `NoSignalSwallowed` speaks of the time from `stop()` on. The lockout's window is fixed at the first failure
and does not roll, although the README's configuration table calls it rolling. A
reset deletes the index with entries added since it listed the sessions, which
puts those sessions on the race list.

Of the gateway: a number of seconds whose `Duration` overflows is answered at
once on amd64, although the document promises the cap; `DelayHonoured` demands
the exact time of every delay that fits, and of that one the cap or no time at all,
the two results a conversion can have. The request timeout cuts off nothing that
does not look at its context: `AnswersInTime` allows one such overrun, and shows
that those of the session's load, its touch and the handler do not add up. The default write timeout equals the cap of 10 s,
so the longest delays may be cut off before the reply leaves. A handler cut
short by the request timeout answers 500, since it writes before the deferred
504. `/status/1xx` is in the end answered 200, because `net/http` takes an
informational status for a preliminary one. A malformed id, a doubled CSRF
header and a body that does not decode give a 400 before the session is looked
at, which most operations do not declare (`AnswerOnContract` speaks of the
middleware and the handlers). Of the configuration: an empty or a non-PostgreSQL
URL is accepted and refused only when the store is opened; a runner started by
`compose.yaml` gets the database URL alone, so settings that the server will
refuse do not stop the migration.

## Proofs

Each proof module extends its component; the theorems hold for every value of the
constants that satisfies the component's named assumptions.

`TransferProofs` proves, for every number of requests, accounts, calls and
attempts, that `Spec` implies each of `TypeOK`, `BalancesInRange`,
`LockedReadsCurrent`, `FundsStillThere`, `AtMostOnce`, `AnswersMatchLedger`,
`RefusalIsCurrent`, `NoDeadlock` and `ImplementsBank`. The assumptions are
`ConstantsAssumption` and `CallsAssumption` of `Transfer`: accounts are finitely
many numbers, opening balances are in range, there is at least one attempt and
one connection.

The inductive invariant `IInv` is needed because none of the wanted invariants is
inductive. That funds are still there at the commit follows only from the row
locks being held; that the locks protect what was read follows only from every
writer holding them; that no request is posted twice follows only from knowing at
which steps a request can have a row in the ledger. `IInv` therefore says, for
each step of a request, which locks it holds, that what it read under them is the
committed balance, what its pending writes are in terms of the committed
balances, and what its reply says about the ledger. Two committing transactions
cannot disturb each other since a lock has one holder.

`DeadlockFree` argues by the least upper bound of what is held: a request waits
only for an account greater than those it holds, so among any set of requests
the one holding the greatest account waits for none of them.

`Implementation` maps `open`, `balance` and `ledger` to themselves: `Commit` and
`LateCommit` are postings, `OpenAccount` opens, every other step stutters.

`LedgerExplains` is `LedgerExplainsBalances`, and needs sums over the ledger. The
sum is a fold, a function defined by recursion over the subsets of its argument.
Induction is replaced by minimal counterexamples, which the library provides for
finite sets (`MinimalSubset`): that the recursion defines a function
(`SumExists`), that two such functions agree (`SumsAgree`), and that any row may be
taken out first (`SumRemoves`). The rest follows from `Bank` alone, which
`Transfer` implements: a posting adds one new row and moves its amount, and an
account that is opened has no entries, since rows are between open accounts
(`Explained`).

The first part of `DeploymentProofs`, about `Lifecycle` alone, proves `CleanMeansDrained`, `FailureSurfaces` and
`NoSignalSwallowed` for any number of requests and signals, from an invariant
that ties the shutdown flag and the signal handler to the main goroutine's phase
and says that between the end of the drain and the return nothing can become
active again.

The second part proves `AppliedOnce`, `NeverServesUnmigrated` and
`ConfigHonoured` for any number of runners, migrations, reruns and file changes.
`AppliedOnce` is not inductive: `SchemaInv` adds that the lock has one holder,
that only the holder applies, and that what it still has to apply is exactly what
follows the recorded prefix, so that a crash at any point leaves a prefix; and
that a runner which ended well has left nothing. The invariant for
`ConfigHonoured` says how far each step of the start has established what is
served. `DeploymentRunsLifecycle` is `DSpec => Spec`: every step of a deployment
is a step of `Lifecycle` or leaves it alone, and so `DeploymentEndsWell` carries
the theorems about `Lifecycle` over.

`RateLimitProofs` proves `TypeOK`, `CountersSelfExpire`, `RejectedOnlyOverLimit`
and `RetryReachesNewWindow`. The invariant is that a counter never exceeds the
number of requests that can have incremented it; the rest is arithmetic, that two
windows have different keys and that a second of the key lies in its window. The
last two theorems assume `TicksPerSecond <= Window`, windows of a second or more,
which the configuration does not demand; shorter windows share a counter and
reject early.

`WindowGrantsBounded` is `GrantedWithinLives`, for windows of a second or more and
any `MaxDelay`: a window grants a client at most `Lives * Limit` requests, `Lives`
being one if increments are never late, two if they are late by up to a window, and
one more for each further window. The invariant `BoundedLives` follows each window
through the lives of its counter: after `l` of them have ended it has granted at
most `l * Limit`, and what it has granted under the current one besides is at most
what that one counts; the counter of life `l` expires no sooner than `l + 1` windows
after the start, so that, no request being later than `MaxDelay` (`NoneLate`), none
is left to start a life beyond the last.

`LockoutProofs` proves `TypeOK`, `LocksAreEarned`, `ThresholdLocks` and
`RetryAfterNearlySuffices`. `LocksAreEarned` needs to know that a live counter
counts failures of the one window that its first failure opened (`CountInv`),
which needs that a request counts a key at most once (`Uncounted`), which needs
the order in which its loops visit the keys (`Flow`); and that a lock is deserved
already when a request is about to set it (`EarnedInv`). `ThresholdLocks`
strengthens to: the lock outlives the counter, unless the key is loose; it assumes `LockTTL >= Window`,
without which a lock can expire under a full counter. `RetryAfterNearlySuffices`
carries the bound on the rounding of `TTL` through the maximum over two locks and
through failed commands (`RetryInv`).

`SessionsProofs` proves `TypeOK` and `TokenSpentOnce`, from what
each step of a request says about its call (`CallFlow`) and from the key of a
token being gone once a reset has its user (`TokenFlow`).

Its second part is about bulk revocation: `IndexOutlivesSessions`,
`RevokedUnlessRaced` and `FreshSessionSurvives`, for any number of requests. The
invariant `RInv` says that a session id stands for one session, whoever holds a
copy of its record (`Identified`); that what is in a user's index or on a list to
revoke belongs to that user and is never the session a change has just minted
(`Owned`); that a session which revocation must find is in an index that lives as
long as the session can (`Indexed`); and, the core, that once a change or a reset
has listed the sessions of its user, every session opened with an older password
is still on its list, and no login that verified the older password is on its way
except those on the race list (`NoStale`). The last part has to be there from the
listing on, not from the answer: between the two any number of logins, touches,
changes and resets take steps. With that `RevocationHolds` proves
`RevokedWhileValid`, which is `RevokedUnlessRaced` for sessions that have lifetime
left. Without the qualification it fails when the clock passes the absolute
lifetime: a delayed SET of a touch can keep the key of a session alive that the
index no longer lists; `AbsoluteLifetime` shows for how long, and that it admits
nobody who comes then. `RevocationTotal` is `RevokedUnlessRaced` as it stands, for clocks that
end before (`MaxTime < Absolute`, as in the run that checks it).

`AbsoluteLifetime` is `AbsoluteIsHard`. A copy of a session that a request holds
says when the session was opened, whoever stored it last (`Identified`, of `RInv`);
so what a request is about to store grants nothing beyond the absolute lifetime as
counted from its arrival (`Granted`), and a request that has passed the check of
`TouchSession` came before the end of it (`Arrived`). The key is then at most
`MaxDelay` late, because the SET is.

`GatewayProofs` proves `ContractEnforced`, `AnswerOnContract`, `ProbesTruthful`,
`AnswersInTime` and `DelayHonoured` for any set of dependencies, any timeouts,
delays and status codes, and every request. First the contract is compared with
the hand-kept lists of `authmw.go`, operation by operation (`Agrees`): the lists
are those that declare a 401 or a 403, and what a handler answers is declared.
Then the invariant follows the request: where it is says which layers it has
passed (`Layers`), what has been written is declared and final (`Written`), what
the checks have seen (`Probed`), and how much time each layer has used
(`Clocked`, `ProbeClocked`: a probe with n checks behind it has used at most n
ping timeouts and overruns). `Layers` is what makes the two halves meet: a handler runs only
behind a middleware that took the operation for a protected one.

`ConsoleProofs` proves `TypeOK` and `MirrorsWhenOrderly` for any number of calls,
users and sessions. The property speaks of moments with no call in flight; the
invariant says what holds of a call in the middle (`InStep`): before the server
has handled it the store is still right, afterwards its answer tells who is signed
in under the cookie that it will leave, or nothing has changed for the store. That
holds of a call that has been alone, which is then the only one (`Queue`), and
needs that nobody presents a session id before it is minted (`Fresh`).

`ProxyProofs` proves `TypeOK`, `OriginIsReal` and `SchemeIsClients` for any number
of hosts, hops and header lines and every choice of trusted prefixes. The merge of
the lines and the walk over them are recursive functions; that they exist and what
they compute is shown by least counterexamples (`LeastNumber`, `Carries`): an entry
added to the last line, or on a line of its own, is the last of the merged entries
(`FlattenAppend`, `FlattenExtend`). The invariant `Chain` says that the last
entries are the proxies' own reports of all hops but the last, in order, and that
whatever a client wrote lies to the left of the report of the client itself, so
that a walk past trusted hops stops at that report before it reaches it. If the
request started at a proxy there is nothing to the left. `WalkFindsOrigin` follows
the walk through the reports: from the right it is carried by trusted hops down to
the last untrusted one, or to a report that cannot be read. Of the schemes,
`Protos` says that the first one reported is that of the client's own connection,
whatever proxies add behind it. Assumed is that the
lines a client can send are lists of entries, and what the model says of proxies.

`LockedReadsCurrent` of `Transfer` and the type invariants of `RateLimit`,
`Lockout`, `Sessions`, `Proxy` and `Console` are proved and not part of a run.

Only model-checked: liveness (`EveryRequestAnswered`, `LocksReleased`,
`SignalEndsRun`, `NothingHangs`, `EveryRequestEnds`), which needs fairness. Every
other property of a passing run is the statement of a theorem, some under the
conditions on the constants named above. `LogoutIsFinal` is false.

## Not modelled

- Logging and the redaction of settings for logs: formatting.
- The contents of pages, documents and reflected bodies, and headers that nothing
  in the server reads.
- The listings of accounts, users and transfers beyond their guards and answers:
  single SELECTs.
- The health-check command: one request from outside; what it asks is in
  `Gateway`.
- `migrate status` and `migrate version`, which only read.
- The resending of commands inside go-redis, which is outside `src/`.
- The client half of the generated code and the embedded document; the rendering
  of the console; build and smoke tooling.
- Hazards without a property, which the models do contain: a failing read of the
  second lock discards the first (documented as failing open), a reset that fails
  after its token was consumed has burnt it, and the later of two concurrent
  password changes wins. No sentence of the repository decides what should hold.

## Plan

1. Done: `Bank`, `Transfer`; `RateLimit`; `Lockout`; `Sessions`; `Lifecycle`;
   `Proxy`; `Console`; `Api`, `Gateway`; `Config`, `Deployment`; the proof
   modules of all of these.
2. `Auth`: login composed of lockout and sessions; registration creating user,
   account and session; a transfer under a session that is revoked meanwhile.
3. An abstract session store that `Sessions` refines up to its race list.
4. Proofs: the abstract session store and its refinement; what `Auth` promises
   from what is proved of its parts.
