----------------------------- MODULE Lifecycle ------------------------------
(***************************************************************************)
(* The run command of internal/cli/run.go: the main goroutine, the serving *)
(* goroutine and the channel between them, signals, and the drain of the   *)
(* requests in flight.  net/http is modelled by what run.go relies on:     *)
(* Shutdown closes the listener, waits for the active connections and      *)
(* gives up at its deadline; Close drops them; ListenAndServe returns      *)
(* ErrServerClosed once either has been called.                            *)
(***************************************************************************)
EXTENDS Integers

CONSTANTS
    Requests,    \* requests that may reach the server
    MaxSignals   \* bound on the SIGINTs and SIGTERMs sent

ASSUME SignalAssumption == MaxSignals \in Nat

VARIABLES
    main,      \* where the main goroutine is
    serve,     \* the serving goroutine
    serveErr,  \* the buffered channel it reports on
    ctxDone,   \* the run context is cancelled
    notify,    \* signals go to NotifyContext rather than to the default handler
    closed,    \* the server's shutdown flag
    signals,   \* signals sent so far
    req,       \* each request: not yet here, being served, answered or cut off
    busy,      \* the requests that have a connection of the database pool
    result     \* how the command ended

vars == <<main, serve, serveErr, ctxDone, notify, closed, signals, req, busy, result>>

Init ==
    /\ main = "load"
    /\ serve = "none"
    /\ serveErr = "empty"
    /\ ctxDone = FALSE
    /\ notify = FALSE
    /\ closed = FALSE
    /\ signals = 0
    /\ req = [r \in Requests |-> "none"]
    /\ busy = {}
    /\ result = "none"

\* The command returns, and its deferred calls close the pools.
Return(how) == main' = "closing" /\ result' = how

\* The requests still being served lose their connections.
CutOff == req' = [r \in Requests |-> IF req[r] = "active" THEN "cut" ELSE req[r]]

-----------------------------------------------------------------------------
(* The main goroutine.                                                     *)

\* The configuration is loaded; from here on signals cancel the run context.
Configured ==
    /\ main = "load"
    /\ main' = "start"
    /\ notify' = TRUE
    /\ UNCHANGED <<serve, serveErr, ctxDone, closed, signals, req, busy, result>>

\* A configuration, pool, asset or CA error ends the command before it serves.
StartFails ==
    /\ main \in {"load", "start"}
    /\ Return("error")
    /\ UNCHANGED <<serve, serveErr, ctxDone, notify, closed, signals, req, busy>>

\* Everything is wired and the serving goroutine is started.
StartServing ==
    /\ main = "start"
    /\ main' = "select"
    /\ serve' = "binding"
    /\ UNCHANGED <<serveErr, ctxDone, notify, closed, signals, req, busy, result>>

\* select: the server stopped on its own.
ServerStopped ==
    /\ main = "select" /\ serveErr # "empty"
    /\ Return(IF serveErr = "error" THEN "error" ELSE "clean")
    /\ UNCHANGED <<serve, serveErr, ctxDone, notify, closed, signals, req, busy>>

\* select: a signal cancelled the context; both cases may be ready.
Cancelled ==
    /\ main = "select" /\ ctxDone
    /\ main' = "signalled"
    /\ UNCHANGED <<serve, serveErr, ctxDone, notify, closed, signals, req, busy, result>>

\* Mutant: the default signal handling is not restored.
StopNotifyForgotten ==
    /\ main = "signalled"
    /\ main' = "shutdown"
    /\ UNCHANGED <<serve, serveErr, ctxDone, notify, closed, signals, req, busy, result>>

\* stop(): the next signal terminates the process.
StopNotify ==
    /\ main = "signalled"
    /\ main' = "shutdown"
    /\ notify' = FALSE
    /\ UNCHANGED <<serve, serveErr, ctxDone, closed, signals, req, busy, result>>

\* Shutdown is called: no new requests from here on.
Shutdown ==
    /\ main = "shutdown"
    /\ main' = "drain"
    /\ closed' = TRUE
    /\ UNCHANGED <<serve, serveErr, ctxDone, notify, signals, req, busy, result>>

\* Shutdown returns nil: the listener is gone and no request is active.
Drained ==
    /\ main = "drain"
    /\ serve # "serving" /\ \A r \in Requests : req[r] # "active"
    /\ main' = "receive"
    /\ UNCHANGED <<serve, serveErr, ctxDone, notify, closed, signals, req, busy, result>>

\* Mutant: the error of Shutdown is not looked at.
DeadlineIgnored ==
    /\ main = "drain"
    /\ main' = "receive"
    /\ UNCHANGED <<serve, serveErr, ctxDone, notify, closed, signals, req, busy, result>>

\* Mutant: Shutdown is given a context without a deadline.
DeadlineMissing == FALSE /\ UNCHANGED vars

\* Shutdown returns an error: ShutdownTimeout is over.
Deadline ==
    /\ main = "drain"
    /\ main' = "force"
    /\ UNCHANGED <<serve, serveErr, ctxDone, notify, closed, signals, req, busy, result>>

\* Close drops the remaining connections and the error is returned.
ForceClose ==
    /\ main = "force"
    /\ CutOff
    /\ Return("error")
    /\ UNCHANGED <<serve, serveErr, ctxDone, notify, closed, signals, busy>>

\* Mutant: what the serving goroutine reported is received and dropped.
ReceiveDropped ==
    /\ main = "receive" /\ serveErr # "empty"
    /\ Return("clean")
    /\ UNCHANGED <<serve, serveErr, ctxDone, notify, closed, signals, req, busy>>

\* The serving goroutine's report is waited for and returned.
Receive ==
    /\ main = "receive" /\ serveErr # "empty"
    /\ Return(IF serveErr = "error" THEN "error" ELSE "clean")
    /\ UNCHANGED <<serve, serveErr, ctxDone, notify, closed, signals, req, busy>>

\* db.Close waits until every connection is back in the pool; then the process
\* exits, whatever else it was still doing.
ClosePools ==
    /\ main = "closing" /\ busy = {}
    /\ main' = "exited"
    /\ CutOff
    /\ UNCHANGED <<serve, serveErr, ctxDone, notify, closed, signals, busy, result>>

-----------------------------------------------------------------------------
(* The serving goroutine, requests and signals.                            *)

\* ListenAndServe returns: its error, or nil for ErrServerClosed, is reported.
ServeReturns(how) ==
    /\ serve' = IF how = "error" THEN "failed" ELSE "stopped"
    /\ serveErr' = how
    /\ UNCHANGED <<main, ctxDone, notify, closed, signals, req, busy, result>>

\* The address is bound, unless the server has been shut down meanwhile.
Listen ==
    /\ main # "exited" /\ serve = "binding" /\ ~closed
    /\ serve' = "serving"
    /\ UNCHANGED <<main, serveErr, ctxDone, notify, closed, signals, req, busy, result>>

\* Binding fails, or accepting does.
ServeFails ==
    /\ main # "exited"
    /\ serve = "binding" \/ (serve = "serving" /\ ~closed)
    /\ ServeReturns("error")

\* ErrServerClosed.
ServeClosed ==
    /\ main # "exited" /\ serve \in {"binding", "serving"} /\ closed
    /\ ServeReturns("nil")

Accept(r) ==
    /\ main # "exited" /\ serve = "serving" /\ ~closed
    /\ req[r] = "none"
    /\ req' = [req EXCEPT ![r] = "active"]
    /\ UNCHANGED <<main, serve, serveErr, ctxDone, notify, closed, signals, busy, result>>

Finish(r) ==
    /\ main # "exited" /\ req[r] = "active" /\ r \notin busy
    /\ req' = [req EXCEPT ![r] = "answered"]
    /\ UNCHANGED <<main, serve, serveErr, ctxDone, notify, closed, signals, busy, result>>

\* A handler takes a connection, which a closing pool does not hand out.
Borrow(r) ==
    /\ main \notin {"closing", "exited"} /\ req[r] = "active"
    /\ busy' = busy \cup {r}
    /\ UNCHANGED <<main, serve, serveErr, ctxDone, notify, closed, signals, req, result>>

\* It gives the connection back: its statement ends, or its context does, by
\* the request timeout or because the client's connection was dropped.
GiveBack(r) ==
    /\ main # "exited" /\ r \in busy
    /\ busy' = busy \ {r}
    /\ UNCHANGED <<main, serve, serveErr, ctxDone, notify, closed, signals, req, result>>

\* A signal cancels the context while NotifyContext catches it, whether or not
\* it already is cancelled; otherwise it kills the process.
Signal ==
    /\ main # "exited" /\ signals < MaxSignals
    /\ signals' = signals + 1
    /\ IF notify
       THEN ctxDone' = TRUE /\ UNCHANGED <<main, req, result>>
       ELSE /\ main' = "exited" /\ result' = "killed"
            /\ CutOff
            /\ UNCHANGED ctxDone
    /\ UNCHANGED <<serve, serveErr, notify, closed, busy>>

Exited == main = "exited" /\ UNCHANGED vars

\* The main goroutine up to the select, and from there on.
BootStep == Configured \/ StartFails \/ StartServing

RunStep ==
    \/ ServerStopped \/ Cancelled \/ StopNotify
    \/ Shutdown \/ Drained \/ Deadline \/ ForceClose \/ Receive \/ ClosePools

ServeStep == Listen \/ ServeFails \/ ServeClosed

RequestStep == \E r \in Requests : Accept(r) \/ Finish(r) \/ Borrow(r) \/ GiveBack(r)

Next ==
    \/ BootStep
    \/ RunStep
    \/ ServeStep
    \/ RequestStep
    \/ Signal
    \/ Exited

Spec == Init /\ [][Next]_vars

\* The goroutines run and the shutdown timer fires.  Requests may hang, but not
\* on the database: every statement runs under the request's context.
Fairness ==
    /\ WF_vars(BootStep)
    /\ WF_vars(Cancelled \/ ServerStopped)
    /\ WF_vars(StopNotify) /\ WF_vars(Shutdown)
    /\ WF_vars(Deadline) /\ WF_vars(ForceClose) /\ WF_vars(Receive)
    /\ WF_vars(Listen) /\ WF_vars(ServeClosed) /\ WF_vars(ClosePools)
    /\ \A r \in Requests : WF_vars(GiveBack(r))

FairSpec == Spec /\ Fairness

-----------------------------------------------------------------------------
(* Properties.                                                             *)

\* Every variable has its type; what is on the channel is what ended serving.
TypeOK ==
    /\ main \in {"load", "start", "select", "signalled", "shutdown", "drain", "force",
                 "receive", "closing", "exited"}
    /\ serve \in {"none", "binding", "serving", "failed", "stopped"}
    /\ serveErr \in {"empty", "error", "nil"}
    /\ serveErr = "error" <=> serve = "failed"
    /\ serveErr = "nil" <=> serve = "stopped"
    /\ ctxDone \in BOOLEAN /\ notify \in BOOLEAN /\ closed \in BOOLEAN
    /\ signals \in 0..MaxSignals
    /\ req \in [Requests -> {"none", "active", "answered", "cut"}]
    /\ busy \subseteq Requests
    /\ result \in {"none", "clean", "error", "killed"}

\* "server stopped cleanly" is the truth: every request that was accepted has
\* been answered, also those that arrived while the signal was being handled.
CleanMeansDrained ==
    result = "clean" => \A r \in Requests : req[r] # "cut"

\* A server that could not bind or accept never exits with success, also when
\* the failure and a signal race in the select or during the shutdown.
FailureSurfaces ==
    serve = "failed" /\ main = "exited" => result \in {"error", "killed"}

\* The comment on stop(): once draining, a signal is not swallowed.  One that
\* follows the first before stop() is: NotifyContext has taken it already.
NoSignalSwallowed ==
    [][signals' # signals /\ main \in {"shutdown", "drain", "force", "receive"}
         => main' = "exited"]_vars

\* A signal ends the process, even if a request hangs for ever.
SignalEndsRun == ctxDone ~> main = "exited"
=============================================================================
