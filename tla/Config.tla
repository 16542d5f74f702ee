------------------------------- MODULE Config -------------------------------
(***************************************************************************)
(* The settings of internal/config/config.go and what is accepted of them. *)
(* A configuration is a flat record.  Texts are reduced to what validation *)
(* and use tell apart: a URL is "good", "empty", "bad" (url.Parse refuses  *)
(* it) or "odd" (it parses, but it is no Postgres URL); a file setting is  *)
(* whether a path is given; a duration is a number.                        *)
(***************************************************************************)
EXTENDS Integers

\* The defaults of the struct tags.
Default ==
    [log |-> "info", addr |-> TRUE, url |-> "good",
     read |-> 5, write |-> 10, idle |-> 60, shutdown |-> 15, request |-> 60,
     cert |-> FALSE, key |-> FALSE, ca |-> FALSE, proxies |-> {},
     mode |-> "standalone", nodes |-> 1, nodesOk |-> TRUE, master |-> FALSE, db |-> 0,
     cost |-> 12, sessionIdle |-> 1800, sessionAbsolute |-> 43200,
     sessionCookie |-> "devopsbin_session", csrfCookie |-> "devopsbin_csrf",
     resetTTL |-> 900, loginWindow |-> 900, maxAttempts |-> 5, lockTTL |-> 900,
     limit |-> 5, window |-> 10]

TLSEnabled(c) == c.cert /\ c.key

MTLSEnabled(c) == TLSEnabled(c) /\ c.ca

\* A file on disk is missing, present but unusable, or good.
FileStates == {"missing", "bad", "good"}

\* Reading the client CA bundle: an unreadable file and one without a
\* certificate are errors.
ClientCAPool(files) == files.ca = "good"

\* An empty entry is skipped, an entry that is no CIDR is an error.
TrustedProxyPrefixes(c) == "malformed" \notin c.proxies

\* Mutant: a client CA without certificate and key selects plain HTTP.
ValidateTLSLax(c, files) ==
    /\ c.cert = c.key
    /\ c.cert => files.cert # "missing" /\ files.key # "missing"
    /\ c.cert /\ c.ca => ClientCAPool(files)

\* Certificate and key come together, and the client CA only with them; the
\* first two files must exist, the last must hold a certificate.
ValidateTLS(c, files) ==
    /\ c.cert = c.key
    /\ c.ca => c.cert
    /\ c.cert => files.cert # "missing" /\ files.key # "missing"
    /\ c.ca => ClientCAPool(files)

RedisValidate(c) ==
    /\ c.mode \in {"standalone", "cluster", "sentinel"}
    /\ c.nodes > 0 /\ c.nodesOk
    /\ c.mode = "standalone" => c.nodes = 1
    /\ c.mode = "sentinel" => c.master
    /\ c.mode = "cluster" => c.db = 0

bcryptMinCost == 4
bcryptMaxCost == 31

AuthValidate(c) ==
    /\ c.cost \in bcryptMinCost..bcryptMaxCost
    /\ 0 < c.sessionIdle /\ c.sessionIdle <= c.sessionAbsolute
    /\ c.sessionCookie # "" /\ c.csrfCookie # "" /\ c.sessionCookie # c.csrfCookie
    /\ c.resetTTL > 0 /\ c.loginWindow > 0
    /\ c.maxAttempts >= 1 /\ c.lockTTL > 0

RateLimitValidate(c) == c.limit >= 1 /\ c.window > 0

\* Levels are compared in lower case; an empty URL is left to whoever opens it.
Validate(c, files) ==
    /\ c.log \in {"debug", "info", "warn", "error"}
    /\ c.addr
    /\ c.url # "bad"
    /\ RedisValidate(c)
    /\ c.read > 0 /\ c.write > 0 /\ c.idle > 0 /\ c.shutdown > 0 /\ c.request > 0
    /\ ValidateTLS(c, files)
    /\ TrustedProxyPrefixes(c)
    /\ AuthValidate(c)
    /\ RateLimitValidate(c)

\* The rule by which go-redis picks a client.
UniversalClient(master, nodes) ==
    IF master THEN "sentinel" ELSE IF nodes > 1 THEN "cluster" ELSE "standalone"

\* Mutant: the master name is passed on in every mode.
NewClientInferred(c) == UniversalClient(c.master, c.nodes)

\* The kind of Redis client built: the master name is passed on only in sentinel
\* mode and a cluster client is asked for by name.
NewClient(c) ==
    IF c.mode = "cluster" THEN "cluster"
    ELSE UniversalClient(c.mode = "sentinel" /\ c.master, c.nodes)
=============================================================================
