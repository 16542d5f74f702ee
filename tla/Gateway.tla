------------------------------ MODULE Gateway -------------------------------
(***************************************************************************)
(* One request through the server of internal/httpapi: the middleware      *)
(* stack of router.go, chi's routing with the console and the              *)
(* documentation mounted beside the API, parameter binding and body        *)
(* decoding (the tables of Api), the session, CSRF and role checks of      *)
(* authmw.go, and the handlers, with the timeouts that cut each of them    *)
(* short.  Meanwhile the client may leave and the dependencies may fail,   *)
(* hang and recover.                                                       *)
(*                                                                         *)
(* What the database-backed handlers do is the business of Transfer,       *)
(* Lockout, Sessions and RateLimit; here they take time, may fail and give *)
(* one of their answers.  The clock counts from when the headers have been *)
(* read; a timer that is due fires before time goes on.  Calls do not      *)
(* always look at their context: a bcrypt hash never does, and the Redis   *)
(* client, built without ContextTimeoutEnabled, not while a command is     *)
(* under way.  Overrun bounds the longest stretch without a look.          *)
(***************************************************************************)
EXTENDS Api, FiniteSets, FiniteSetsExt

CONSTANTS
    Checks,           \* the dependencies the probes ping
    PingTimeout,      \* dependencyCheckTimeout
    ReadTimeout,      \* HTTP_READ_TIMEOUT: bounds reading the body
    WriteTimeout,     \* HTTP_WRITE_TIMEOUT: bounds everything up to the reply
    RequestTimeouts,  \* values of HTTP_REQUEST_TIMEOUT to try
    Overrun,          \* how long work goes on without a look at its context
    MaxDelay,         \* maxDelay
    Huge,             \* stands for seconds whose Duration overflows
    Methods,          \* request methods
    ApiPaths,         \* paths below the base path
    SitePaths,        \* other paths, each by the mount it falls under
    DelayArgs,        \* values of {seconds}
    StatusArgs        \* values of {code}

ASSUME GatewayAssumption ==
    /\ Checks # {} /\ IsFiniteSet(Checks)
    /\ PingTimeout \in Nat \ {0} /\ ReadTimeout \in Nat \ {0}
    /\ WriteTimeout \in Nat \ {0} /\ RequestTimeouts \subseteq Nat \ {0}
    /\ Overrun \in Nat /\ MaxDelay \in Nat /\ Huge \in Nat /\ Huge > MaxDelay
    /\ DelayArgs \subseteq Int /\ StatusArgs \subseteq Int

VARIABLES
    rt,        \* the request timeout of this server
    req,       \* [method, path, param, arg, csrf, body, cookie]
    stage,     \* where the request is
    op,        \* the operation it was routed to, or "none"
    now,
    gone,      \* the client has closed the connection
    sess,      \* the role of the session the middleware loaded, or "none"
    ran,       \* the operation's handler has been entered
    wake,      \* when the timer fires, or a call has returned at the latest
    cur,       \* the check being run
    todo,      \* the checks the probe has not finished
    failed,    \* the checks that reported an error
    dep,       \* what each dependency does with a ping: "up", "down" or "hung"
    seenUp,    \* the checks whose dependency was up at some moment of the probe
    seenBad,   \* and those whose dependency was not
    code,      \* the status written, 0 before
    by,        \* the layer that wrote it
    sent       \* what became of the reply

vars == <<rt, req, stage, op, now, gone, sess, ran, wake, cur, todo, failed,
          dep, seenUp, seenBad, code, by, sent>>
input == <<rt, req>>
local == <<sess, ran, wake, cur, todo, failed>>
world == <<dep, seenUp, seenBad>>
reply == <<code, by, sent>>

\* The requests: every method on every path, and for the operations every
\* combination of what their layers look at; a GET has no body and no token.
Requests ==
    LET api == {<<"api", p>> : p \in ApiPaths \cup {Routes[o][2] : o \in Operations}}
        args == All({"/delay/{seconds}"}, DelayArgs) ++ All({"/status/{code}"}, StatusArgs)
        Sent(o, values, absent) == IF Routes[o][1] = "GET" THEN {absent} ELSE values
    IN  [method : Methods, path : api \cup {<<"site", s>> : s \in SitePaths},
         param : {"good"}, arg : {0}, csrf : {"none"}, body : {"valid"}, cookie : {"none"}]
        \cup
        UNION {[method : {Routes[o][1]}, path : {<<"api", Routes[o][2]>>},
                param : {"good", "bad"},
                arg : IF Routes[o][2] \in DOMAIN args THEN args[Routes[o][2]] ELSE {0},
                csrf : Sent(o, {"none", "match", "wrong", "twice"}, "none"),
                body : Sent(o, {"empty", "valid", "malformed", "large"}, "empty"),
                cookie : {"none", "user", "admin"}] : o \in Operations}

Init ==
    /\ rt \in RequestTimeouts
    /\ req \in Requests
    /\ stage = "route" /\ op = "none" /\ now = 0 /\ gone = FALSE
    /\ sess = "none" /\ ran = FALSE /\ wake = 0
    /\ cur = "none" /\ todo = {} /\ failed = {}
    /\ dep = [c \in Checks |-> "up"]
    /\ seenUp = {} /\ seenBad = {}
    /\ code = 0 /\ by = "none" /\ sent = "none"

\* The request's context: cancelled by middleware.Timeout or with the connection.
Expired == now >= rt \/ gone

\* The request stays where its clock, client and dependencies are.
Aside == UNCHANGED <<rt, req, now, gone, dep, seenUp, seenBad>>

Goto(s) == stage' = s /\ UNCHANGED reply

\* A call to Redis, or the work of a handler, begins: it looks at the context by
\* the request's deadline, and then goes on for Overrun at most.
CallOut(s) == Goto(s) /\ wake' = Max({now, rt}) + Overrun

\* A layer writes a response and the stack unwinds.  net/http sends an
\* informational status at once and goes on waiting for the final one.
Write(c, layer) ==
    /\ stage' = "unwind"
    /\ code' = IF c \in 100..199 \ {101} THEN 0 ELSE c
    /\ by' = layer
    /\ UNCHANGED sent

-----------------------------------------------------------------------------
(* Routing.                                                                *)

\* mountDocs and mountSPA: the GET routes beside the API, and what they answer.
\* The file servers answer 404 for a file that is not there.
SiteRoutes ==
    [spec |-> {200}, swagger |-> {301}, swagger_file |-> {200, 404},
     redoc |-> {301}, redoc_file |-> {200, 404}, assets |-> {200, 404}, root |-> {200}]

Site(path) == IF path = <<"api", "/openapi.yaml">> THEN "spec" ELSE path[2]
OnSite(path) == path[1] = "site" \/ path = <<"api", "/openapi.yaml">>

OpsAt(path) == {o \in Operations : path = <<"api", Routes[o][2]>>}
Routed(path) == OpsAt(path) # {} \/ (OnSite(path) /\ Site(path) \in DOMAIN SiteRoutes)

\* Mutant: the shell is served for unknown API paths too.
FallbackMasking == IF req.method # "GET" THEN Write(404, "notfound") ELSE Write(200, "spa")

\* spa.fallback.
Fallback ==
    IF req.method # "GET" \/ req.path[1] = "api" \/ req.path[2] = "assets"
    THEN Write(404, "notfound")
    ELSE Write(200, "spa")

\* chi finds the route, or answers 405 when only other methods have one.
Route ==
    /\ stage = "route"
    /\ \/ \E o \in OpsAt(req.path) :
            /\ Routes[o][1] = req.method
            /\ op' = o
            /\ Goto("bind")
       \/ /\ req.method = "GET" /\ OnSite(req.path)
          /\ Site(req.path) \in DOMAIN SiteRoutes
          /\ \E c \in SiteRoutes[Site(req.path)] : Write(c, "site")
          /\ UNCHANGED op
       \/ /\ ~Routed(req.path)
          /\ Fallback
          /\ UNCHANGED op
       \/ /\ Routed(req.path)
          /\ \A o \in OpsAt(req.path) : Routes[o][1] # req.method
          /\ OnSite(req.path) => req.method # "GET"
          /\ Write(405, "router")
          /\ UNCHANGED op
    /\ Aside /\ UNCHANGED local

-----------------------------------------------------------------------------
(* The generated layers: bind the parameters, read the body.               *)

BindFails ==
    \/ req.param = "bad" /\ Binds[op] \cap {"id", "seconds", "code", "isolation", "holdMs"} # {}
    \/ req.csrf = "twice" /\ "csrf" \in Binds[op]

Bind ==
    /\ stage = "bind"
    /\ IF BindFails THEN Write(400, "wrapper") ELSE Goto("body")
    /\ Aside /\ UNCHANGED <<op, local>>

\* A body that is read may arrive late: time passes in this stage.
Reading == stage = "body" /\ Bodies[op] # "none"

\* Decode or ReadAll; the server's read deadline fails either, as does a client
\* that leaves before its body is complete.  The request's context has no say.
ReadBody ==
    /\ stage = "body"
    /\ \/ /\ Bodies[op] = "json" => req.body \in {"valid", "large"}
          /\ ~gone
          /\ Goto("session")
       \/ /\ \/ Bodies[op] = "json" /\ req.body \in {"empty", "malformed"}
             \/ Bodies[op] # "none" /\ (now >= ReadTimeout \/ gone)
          /\ Write(400, "strict")
    /\ Aside /\ UNCHANGED <<op, local>>

-----------------------------------------------------------------------------
(* authMiddleware.                                                         *)

\* Mutant: an operation is missing from the hand-kept list.
SessionProtectedOpsStale ==
    {"PostAuthLogout", "GetAuthMe", "PostAuthPasswordChange", "GetAccounts",
     "PostTransfer", "GetAdminUsers", "GetAdminAccounts", "GetAdminTransfers",
     "PostAdminUserUnlock"}

SessionProtectedOps ==
    {"PostAuthLogout", "GetAuthMe", "PostAuthPasswordChange", "GetAccounts",
     "PostTransfer", "GetAdminUsers", "GetAdminAccounts", "GetAdminTransfers",
     "PostAdminUserUnlock", "PostAdminUserPasswordReset"}

RoleProtectedOps ==
    {"GetAdminUsers", "GetAdminAccounts", "GetAdminTransfers",
     "PostAdminUserUnlock", "PostAdminUserPasswordReset"}

IsUnsafeMethod(m) == m \in {"POST", "PUT", "PATCH", "DELETE"}

\* loadSession: without a cookie 401, and without a context to ask Redis under.
LoadSession ==
    /\ stage = "session"
    /\ \/ /\ op \notin SessionProtectedOps
          /\ Goto("handle") /\ UNCHANGED wake
       \/ /\ op \in SessionProtectedOps /\ (req.cookie = "none" \/ Expired)
          /\ Write(401, "auth") /\ UNCHANGED wake
       \/ /\ op \in SessionProtectedOps /\ req.cookie # "none" /\ ~Expired
          /\ CallOut("load")
    /\ Aside /\ UNCHANGED <<op, sess, ran, cur, todo, failed>>

\* GetSession returns: with the session, or 401 for one that is unknown or when
\* the store fails.
SessionLoaded ==
    /\ stage = "load"
    /\ \/ sess' = req.cookie /\ Goto("guard")
       \/ UNCHANGED sess /\ Write(401, "auth")
    /\ Aside /\ UNCHANGED <<op, ran, wake, cur, todo, failed>>

\* The CSRF token of an unsafe method and the role are refused.
Refused ==
    \/ IsUnsafeMethod(req.method) /\ req.csrf # "match"
    \/ op \in RoleProtectedOps /\ sess # "admin"

\* The CSRF token, then the role, then TouchSession is called.
Guard ==
    /\ stage = "guard"
    /\ \/ Refused /\ Write(403, "auth") /\ UNCHANGED wake
       \/ ~Refused /\ Expired /\ Write(401, "auth") /\ UNCHANGED wake
       \/ ~Refused /\ ~Expired /\ CallOut("touch")
    /\ Aside /\ UNCHANGED <<op, sess, ran, cur, todo, failed>>

\* TouchSession returns; an error, the session having ended included, fails
\* closed.
Touch ==
    /\ stage = "touch"
    /\ Goto("handle") \/ Write(401, "auth")
    /\ Aside /\ UNCHANGED <<op, local>>

-----------------------------------------------------------------------------
(* Handlers.                                                               *)

\* What the handlers that go to Postgres or Redis answer, besides an error.
AdminAnswers ==
    All(AdminListOps, {200})
    ++ [PostAdminUserPasswordReset |-> {200, 404}, PostAdminUserUnlock |-> {204, 404}]
SessionAnswers ==
    [PostAuthRegister |-> {400, 409, 201}, PostAuthLogin |-> {400, 423, 401, 200},
     PostAuthLogout |-> {204}, GetAuthMe |-> {200}]
PasswordAnswers ==
    [PostAuthPasswordChange |-> {400, 401, 403, 200},
     PostAuthPasswordResetRequest |-> {400, 200},
     PostAuthPasswordReset |-> {400, 410, 200}]
TransferAnswers == [GetAccounts |-> {200}, PostTransfer |-> {400, 403, 404, 409, 200}]
RatelimitAnswers == [GetRatelimit |-> {200, 429}]

Answers == AdminAnswers ++ SessionAnswers ++ PasswordAnswers ++ TransferAnswers
           ++ RatelimitAnswers

\* The handlers that hash a password before they first look at their context;
\* the others fail at once when it is over.
HashesFirst == {"PostAuthRegister"}

\* Such a handler starts working.
EnterStored ==
    /\ stage = "handle" /\ op \in DOMAIN Answers
    /\ ran' = TRUE
    /\ IF Expired /\ op \notin HashesFirst
       THEN Goto("work") /\ wake' = now
       ELSE CallOut("work")
    /\ Aside /\ UNCHANGED <<op, sess, cur, todo, failed>>

\* It answers, or the error of a failed or timed out call becomes a 500; the
\* rate limiter swallows its errors.
Work ==
    /\ stage = "work"
    /\ \E c \in Answers[op] \cup (IF op = "GetRatelimit" THEN {} ELSE {500}) :
         Write(c, "handler")
    /\ Aside /\ UNCHANGED <<op, local>>

\* The handlers that only look at the request, and the liveness probe.
EnterPlain ==
    /\ stage = "handle"
    /\ op \in MetaOps \cup {"GetHeaders", "GetIp", "GetScheme", "GetLivez", "GetEcho"}
    /\ ran' = TRUE
    /\ Write(200, "handler")
    /\ Aside /\ UNCHANGED <<op, sess, wake, cur, todo, failed>>

\* echoWithBody.
EnterEcho ==
    /\ stage = "handle" /\ op \in EchoBodyOps
    /\ ran' = TRUE
    /\ Write(IF req.body = "large" THEN 413 ELSE 200, "handler")
    /\ Aside /\ UNCHANGED <<op, sess, wake, cur, todo, failed>>

EnterStatus ==
    /\ stage = "handle" /\ op = "GetStatus"
    /\ ran' = TRUE
    /\ Write(IF req.arg \notin 100..599 THEN 400 ELSE req.arg, "handler")
    /\ Aside /\ UNCHANGED <<op, sess, wake, cur, todo, failed>>

-----------------------------------------------------------------------------
(* GetDelay.                                                               *)

\* seconds * 1e9 as an int64.  What Go makes of a product that does not fit is
\* up to the architecture: amd64 gives the smallest integer, arm64 the largest.
Duration(seconds) == IF seconds = Huge THEN {-Huge, Huge} ELSE {seconds}

\* Mutant: the cap is not applied.
ClampDelayUncapped(seconds) == Duration(seconds)

ClampDelay(seconds) ==
    {IF d > MaxDelay THEN MaxDelay ELSE d : d \in Duration(seconds)}

EnterDelay ==
    /\ stage = "handle" /\ op = "GetDelay"
    /\ ran' = TRUE
    /\ \/ /\ req.arg < 0
          /\ Write(400, "handler")
          /\ UNCHANGED wake
       \/ /\ req.arg >= 0
          /\ \E d \in ClampDelay(req.arg) : wake' = now + d
          /\ Goto("sleep")
    /\ Aside /\ UNCHANGED <<op, sess, cur, todo, failed>>

\* select: the timer has fired, or the context is done.
Wake ==
    /\ stage = "sleep"
    /\ \/ now >= wake /\ Write(200, "handler")
       \/ Expired /\ Write(500, "handler")
    /\ Aside /\ UNCHANGED <<op, local>>

-----------------------------------------------------------------------------
(* GetReadyz and GetStartupz: runChecks over PingChecks.                   *)

ProbeOps == {"GetReadyz", "GetStartupz"}

EnterProbe ==
    /\ stage = "handle" /\ op \in ProbeOps
    /\ ran' = TRUE
    /\ todo' = Checks /\ failed' = {}
    /\ seenUp' = {c \in Checks : dep[c] = "up"}
    /\ seenBad' = Checks \ seenUp'
    /\ Goto("checks")
    /\ UNCHANGED <<input, op, now, gone, dep, sess, wake, cur>>

\* Mutant: the ping runs under the request's own context.
PingDeadlineMissing == rt

\* PingCheck's timeout, within the request's.
PingDeadline == Min({now + PingTimeout, rt})

\* The next check, in map order: any.  It fails at once when the request's
\* context is over.
StartCheck ==
    /\ stage = "checks" /\ todo # {}
    /\ \E c \in todo : /\ cur' = c /\ todo' = todo \ {c}
                       /\ failed' = IF Expired THEN failed \cup {c} ELSE failed
    /\ wake' = PingDeadline
    /\ Goto(IF Expired THEN "checks" ELSE "ping")
    /\ Aside /\ UNCHANGED <<op, sess, ran>>

\* Mutant: the aggregate is what the last check reported.
CheckedLast(ok) == failed' = IF ok THEN {} ELSE {cur}

\* The result of a check joins those of the others.
Checked(ok) == failed' = IF ok THEN failed ELSE failed \cup {cur}

\* Mutant: the ping ignores its context.
PingDeaf ==
    /\ stage = "ping"
    /\ \/ dep[cur] = "up" /\ Checked(TRUE)
       \/ dep[cur] = "down" /\ Checked(FALSE)
    /\ Goto("checks")
    /\ Aside /\ UNCHANGED <<op, sess, ran, wake, todo, cur>>

\* The ping returns: answered, refused, or cut off by its deadline.
Ping ==
    /\ stage = "ping"
    /\ \/ dep[cur] = "up" /\ Checked(TRUE)
       \/ (dep[cur] = "down" \/ now >= wake \/ gone) /\ Checked(FALSE)
    /\ Goto("checks")
    /\ Aside /\ UNCHANGED <<op, sess, ran, wake, todo, cur>>

AnswerProbe ==
    /\ stage = "checks" /\ todo = {}
    /\ Write(IF failed = {} THEN 200 ELSE 503, "handler")
    /\ Aside /\ UNCHANGED <<op, local>>

-----------------------------------------------------------------------------
(* The reply leaves, and the world around the request.                     *)

\* The deferred calls run on the way out: middleware.Timeout writes its 504 only
\* if nothing has been written.  net/http adds a 200 to a handler that never
\* wrote, and flushes; past the write deadline the client gets nothing.
Unwind ==
    /\ stage = "unwind"
    /\ code' = IF code # 0 THEN code ELSE IF now >= rt THEN 504 ELSE 200
    /\ \/ now <= WriteTimeout /\ ~gone /\ sent' = "delivered"
       \/ (now >= WriteTimeout \/ gone) /\ sent' = "lost"
    /\ stage' = "done"
    /\ Aside /\ UNCHANGED <<op, local, by>>

\* The body breaks off, or net/http, which watches the connection once the body
\* has been read, cancels the context.
ClientLeaves ==
    /\ Reading \/ stage \in {"session", "load", "touch", "work", "sleep", "ping"}
    /\ ~gone
    /\ gone' = TRUE
    /\ UNCHANGED <<input, stage, op, now, local, world, reply>>

\* A dependency fails, hangs or recovers.
DependencyChanges ==
    /\ op \in ProbeOps /\ stage \in {"handle", "checks", "ping"}
    /\ \E c \in Checks, s \in {"up", "down", "hung"} :
         /\ dep[c] # s
         /\ dep' = [dep EXCEPT ![c] = s]
         /\ seenUp' = IF s = "up" THEN seenUp \cup {c} ELSE seenUp
         /\ seenBad' = IF s = "up" THEN seenBad ELSE seenBad \cup {c}
    /\ UNCHANGED <<input, stage, op, now, gone, local, reply>>

\* Time passes while the request waits for something, up to the next deadline.
Tick ==
    /\ \/ Reading /\ now < ReadTimeout
       \/ stage \in {"load", "touch", "work"} /\ now < wake
       \/ stage = "sleep" /\ ~Expired /\ now < wake
       \/ stage = "ping" /\ dep[cur] = "hung" /\ now < wake + Overrun
    /\ now' = now + 1
    /\ UNCHANGED <<input, stage, op, gone, local, world, reply>>

Done == stage = "done" /\ UNCHANGED vars

Step ==
    \/ Route \/ Bind \/ ReadBody \/ LoadSession \/ SessionLoaded \/ Guard \/ Touch
    \/ EnterStored \/ Work \/ EnterPlain \/ EnterEcho \/ EnterStatus
    \/ EnterDelay \/ Wake \/ EnterProbe \/ StartCheck \/ Ping \/ AnswerProbe
    \/ Unwind

Next == Step \/ Tick \/ ClientLeaves \/ DependencyChanges \/ Done

Spec == Init /\ [][Next]_vars

\* The goroutine runs and the clock goes on; nothing is assumed of the client
\* or the dependencies.
FairSpec == Spec /\ WF_vars(Step \/ Tick)

-----------------------------------------------------------------------------
(* Properties.                                                             *)

\* The hand-kept lists of authmw.go guard what the contract says is guarded: a
\* handler whose operation declares a 401 (but login, where it means something
\* else) runs only for a session, one that declares a 403 only with the CSRF
\* token if its method is unsafe, and one below /admin only for an admin.
ContractEnforced ==
    ran => /\ 401 \in Responses[op] /\ op # "PostAuthLogin" => sess # "none"
           /\ 403 \in Responses[op] /\ IsUnsafeMethod(req.method) => req.csrf = "match"
           /\ op \in AdminListOps \cup AdminUserOps => sess = "admin"

\* What the middleware and the handlers answer is declared for the operation,
\* except the 500 of an error; and no request for the API, whatever its method
\* and however it failed, gets the console's page.
AnswerOnContract ==
    stage = "done" =>
        /\ by \in {"auth", "handler"} /\ code # 500 =>
               Responses[op] \cap {code, AnyStatus} # {}
        /\ req.path[1] = "api" => by # "spa"

\* The probes tell the truth while dependencies come and go: a 200 means each of
\* them was up at some moment of the probe, a 503 that one was not, or that the
\* request's own deadline or its client cut the checks short.
ProbesTruthful ==
    stage = "done" /\ op \in ProbeOps =>
        /\ code = 200 => seenUp = Checks
        /\ code = 503 => seenBad # {} \/ Expired

\* Nothing outlives its deadline by more than one stretch of work that does not
\* look at its context: a request is answered within the request timeout (the
\* read timeout, while its body is still coming) and one Overrun, overruns of
\* the session's load, its touch and the handler never add up, and a probe is
\* answered within the sum of its pings' timeouts and overruns, whatever hangs.
\* A delay respects the request's timeout to the tick.
AnswersInTime ==
    /\ now <= Overrun + IF op # "none" /\ Bodies[op] # "none"
                        THEN Max({ReadTimeout, rt}) ELSE rt
    /\ op \in ProbeOps => now <= Cardinality(Checks) * (PingTimeout + Overrun)
    /\ op = "GetDelay" => now <= rt

\* GetDelay: a 200 comes exactly when the delay asked for is over, at the cap for
\* longer delays.  A delay whose Duration overflows is answered at the cap where
\* the conversion saturates and at once where it wraps.
DelayHonoured ==
    by = "handler" /\ op = "GetDelay" /\ code = 200 =>
        \/ now = Min({req.arg, MaxDelay})
        \/ req.arg = Huge /\ now = 0

\* Every request is answered, unless its process ends first.
EveryRequestEnds == <>(stage = "done")
=============================================================================
