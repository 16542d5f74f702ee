----------------------------- MODULE Deployment -----------------------------
(***************************************************************************)
(* One deployment: the migration runners of `devopsbin migrate up`, the    *)
(* schema they share, the gate of compose.yaml, and the start of the       *)
(* server up to the steps of Lifecycle, over a configuration and TLS files *)
(* that may change between the moments they are looked at.                 *)
(*                                                                         *)
(* goose and Postgres are modelled by what internal/migrate relies on: the *)
(* session lock has one holder and goes with its session, what is pending  *)
(* is read under the lock, and a migration and its version row commit      *)
(* together.                                                               *)
(***************************************************************************)
EXTENDS Config, Lifecycle, Sequences

CONSTANTS
    Configs,      \* configurations the environment may give the server
    Runners,      \* the processes that run `migrate up`
    Own,          \* the one this server waits for
    Migrations,   \* how many migrations the binary embeds
    MaxReruns,    \* bound on the times a runner is started again
    MaxChanges    \* bound on the changes of the TLS files

ASSUME OwnAssumption == Own \in Runners
ASSUME MigrationsAssumption == Migrations \in Nat
ASSUME ConfigsAssumption ==
    \A c \in Configs :
        /\ {c.cert, c.key, c.ca, c.master} \subseteq BOOLEAN
        /\ c.nodes \in Nat
ASSUME DeploymentBounds == MaxReruns \in Nat /\ MaxChanges \in Nat

VARIABLES
    cfg,        \* the server's environment
    files,      \* the certificate, the key and the client CA on disk
    changes,    \* changes made to them so far
    boot,       \* how far the start of the server has come
    client,     \* the kind of Redis client it built
    listener,   \* what it was set up to serve
    runner,     \* each migration runner
    pending,    \* the versions it found to apply
    holder,     \* the runners that hold the session lock
    applied,    \* the migrations committed, in order
    reruns

deployVars ==
    <<cfg, files, changes, boot, client, listener, runner, pending, holder,
      applied, reruns>>
serverVars == <<cfg, files, changes, boot, client, listener>>
schemaVars == <<runner, pending, holder, applied, reruns>>
allVars == <<vars, deployVars>>

DInit ==
    /\ Init
    /\ cfg \in Configs
    /\ files = [f \in {"cert", "key", "ca"} |-> "good"]
    /\ changes = 0
    /\ boot = "gate"
    /\ client = "none"
    /\ listener = [tls |-> FALSE, mtls |-> FALSE]
    /\ runner = [r \in Runners |-> "load"]
    /\ pending = [r \in Runners |-> {}]
    /\ holder = {}
    /\ applied = <<>>
    /\ reruns = 0

-----------------------------------------------------------------------------
(* Migration runners.                                                      *)

\* compose.yaml gives a runner the database URL and nothing else.
RunnerConfig == [Default EXCEPT !.url = cfg.url]

\* withMigrator: the configuration is loaded and the provider is built, which
\* refuses an empty URL and does not look at any other.
RunnerOpens(r) ==
    /\ runner[r] = "load"
    /\ runner' = [runner EXCEPT ![r] =
                    IF Validate(RunnerConfig, files) /\ cfg.url # "empty"
                    THEN "lock" ELSE "failed"]
    /\ UNCHANGED <<pending, holder, applied, reruns>>

\* The embedded migrations whose version is not recorded.
Unapplied == {v \in 1..Migrations : \A k \in DOMAIN applied : applied[k] # v}

\* Mutant: the provider is built without the session locker.
LockFree == TRUE

LockAvailable == holder = {}

\* Up takes the session lock and lists what is pending.
RunnerLocks(r) ==
    /\ runner[r] = "lock" /\ cfg.url = "good"
    /\ LockAvailable
    /\ holder' = holder \cup {r}
    /\ pending' = [pending EXCEPT ![r] = Unapplied]
    /\ runner' = [runner EXCEPT ![r] = "apply"]
    /\ UNCHANGED <<applied, reruns>>

\* The next migration and its version row commit.
RunnerApplies(r) ==
    /\ runner[r] = "apply"
    /\ \E v \in pending[r] :
         /\ \A w \in pending[r] : v <= w
         /\ applied' = Append(applied, v)
         /\ pending' = [pending EXCEPT ![r] = @ \ {v}]
    /\ UNCHANGED <<runner, holder, reruns>>

\* The process ends, and its session and the lock with it.
RunnerEnds(r, how) ==
    /\ runner' = [runner EXCEPT ![r] = how]
    /\ pending' = [pending EXCEPT ![r] = {}]
    /\ holder' = holder \ {r}
    /\ UNCHANGED <<applied, reruns>>

\* Up returns: exit code 0.
RunnerDone(r) == runner[r] = "apply" /\ pending[r] = {} /\ RunnerEnds(r, "ok")

\* Mutant: an error of Up is printed and the command still succeeds.
RunnerFailsQuietly(r) == runner[r] \in {"lock", "apply"} /\ RunnerEnds(r, "ok")

\* An error of Up (no connection, the lock not obtained in time, a migration
\* rolled back, the unlock) is exit code 1; a crash is no 0 either.
RunnerFails(r) == runner[r] \in {"lock", "apply"} /\ RunnerEnds(r, "failed")

\* It is run once more, by hand or by another replica.
RunnerAgain(r) ==
    /\ runner[r] \in {"ok", "failed"} /\ reruns < MaxReruns
    /\ runner' = [runner EXCEPT ![r] = "load"]
    /\ reruns' = reruns + 1
    /\ UNCHANGED <<pending, holder, applied>>

RunnerStep(r) ==
    \/ RunnerOpens(r) \/ RunnerLocks(r) \/ RunnerApplies(r) \/ RunnerDone(r)
    \/ RunnerFails(r) \/ RunnerAgain(r)

-----------------------------------------------------------------------------
(* The start of the server.                                                *)

Fail == StartFails /\ UNCHANGED <<boot, client, listener>>

\* service_completed_successfully.
Gate ==
    /\ boot = "gate" /\ runner[Own] = "ok"
    /\ boot' = "load"
    /\ UNCHANGED <<vars, client, listener>>

LoadConfig ==
    /\ boot = "load" /\ main = "load"
    /\ IF Validate(cfg, files)
       THEN Configured /\ boot' = "store" /\ UNCHANGED <<client, listener>>
       ELSE Fail

\* store.New parses the URL; it does not connect.
OpenStore ==
    /\ boot = "store" /\ main = "start"
    /\ IF cfg.url = "good"
       THEN boot' = "cache" /\ UNCHANGED <<vars, client, listener>>
       ELSE Fail

OpenCache ==
    /\ boot = "cache" /\ main = "start"
    /\ IF RedisValidate(cfg)
       THEN /\ boot' = "assets" /\ client' = NewClient(cfg)
            /\ UNCHANGED <<vars, listener>>
       ELSE Fail

\* The embedded site and documentation, and the trusted proxies once more.
LoadAssets ==
    /\ boot = "assets" /\ main = "start"
    /\ \/ /\ TrustedProxyPrefixes(cfg)
          /\ boot' = "tls" /\ UNCHANGED <<vars, client, listener>>
       \/ Fail

\* The client CA is read again; then the server starts to serve.
StartServer ==
    /\ boot = "tls" /\ main = "start"
    /\ IF MTLSEnabled(cfg) => ClientCAPool(files)
       THEN /\ StartServing
            /\ boot' = "serve"
            /\ listener' = [tls |-> TLSEnabled(cfg), mtls |-> MTLSEnabled(cfg)]
            /\ UNCHANGED client
       ELSE Fail

\* ListenAndServeTLS loads the certificate and the key after binding.
ListenStep == (listener.tls => files.cert = "good" /\ files.key = "good") /\ Listen

BootSequence ==
    LoadConfig \/ OpenStore \/ OpenCache \/ LoadAssets \/ StartServer

\* A step of Lifecycle in an otherwise unchanged deployment.
Running(A) == A /\ UNCHANGED deployVars

\* A step of the start.
Booting(A) == A /\ UNCHANGED <<cfg, files, changes, schemaVars>>

\* A file the configuration names is replaced, truncated or removed while it can
\* still matter.
FileChanges(f, s) ==
    /\ changes < MaxChanges
    /\ cfg[f] /\ files[f] # s
    /\ main \in {"load", "start"} \/ serve = "binding"
    /\ files' = [files EXCEPT ![f] = s]
    /\ changes' = changes + 1
    /\ UNCHANGED <<vars, cfg, boot, client, listener, schemaVars>>

\* Nothing starts a server whose runner failed for good.
GivenUp == boot = "gate" /\ runner[Own] = "failed" /\ UNCHANGED allVars

DNext ==
    \/ Booting(Gate \/ BootSequence)
    \/ Running(RunStep \/ ListenStep \/ ServeFails \/ ServeClosed \/ RequestStep)
    \/ boot # "gate" /\ Running(Signal)
    \/ Running(Exited)
    \/ \E r \in Runners : RunnerStep(r) /\ UNCHANGED <<vars, serverVars>>
    \/ \E f \in {"cert", "key", "ca"}, s \in FileStates : FileChanges(f, s)
    \/ GivenUp

DSpec == DInit /\ [][DNext]_allVars

\* The fairness of Lifecycle, for the composed steps.
DFairness ==
    /\ WF_allVars(Booting(BootSequence))
    /\ WF_allVars(Running(Cancelled \/ ServerStopped))
    /\ WF_allVars(Running(StopNotify)) /\ WF_allVars(Running(Shutdown))
    /\ WF_allVars(Running(Deadline)) /\ WF_allVars(Running(ForceClose))
    /\ WF_allVars(Running(Receive)) /\ WF_allVars(Running(ListenStep))
    /\ WF_allVars(Running(ServeClosed)) /\ WF_allVars(Running(ClosePools))
    /\ \A r \in Requests : WF_allVars(Running(GiveBack(r)))

DFairSpec == DSpec /\ DFairness

-----------------------------------------------------------------------------
(* Properties.                                                             *)

\* The package comment of migrate.go: whatever the number of runners and
\* wherever they crash, every migration is applied at most once, in order and
\* without a gap.
AppliedOnce ==
    \A k \in DOMAIN applied : applied[k] = k

\* compose.yaml: the server "never serves against an un-migrated schema", also
\* when its runner failed half way and was run again.
NeverServesUnmigrated ==
    boot # "gate" => Len(applied) = Migrations

\* Whoever configures a certificate, a key or a client CA gets TLS, and with a
\* client CA the demand for client certificates, or no server at all; the Redis
\* client has the configured topology.  Files that change between the
\* validation and their use cannot weaken this.
ConfigHonoured ==
    serve = "serving" =>
        /\ cfg.cert \/ cfg.key \/ cfg.ca => listener.tls
        /\ cfg.ca => listener.mtls
        /\ client = cfg.mode
=============================================================================
