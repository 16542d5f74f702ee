-------------------------- MODULE DeploymentProofs --------------------------
(***************************************************************************)
(* Safety of the run command of Lifecycle for any number of requests and   *)
(* signals; the schema is complete before a server starts, for any number  *)
(* of migrations, runners and reruns; a server serves what its             *)
(* configuration says; and the server of a deployment is the one of        *)
(* Lifecycle, so what is proved of that one holds here too.                *)
(***************************************************************************)
EXTENDS Deployment, TLAPS

-----------------------------------------------------------------------------
(* The run command.                                                        *)

\* The shutdown flag and the signal handler follow the main goroutine.
PhaseInv ==
    /\ main \in {"load", "start"} => serve = "none"
    /\ main \in {"load", "start", "select", "signalled", "shutdown"} => ~closed
    /\ main \in {"drain", "force"} => closed
    /\ main \in {"shutdown", "drain", "force", "receive"} => ~notify
    /\ serve = "stopped" => closed
    /\ main \in {"closing", "exited"} <=> result # "none"

\* Nothing is cut off before the command returns; between the drain and the
\* return nothing can become active again.
DrainInv ==
    /\ result = "none" => \A r \in Requests : req[r] # "cut"
    /\ main = "receive" =>
         closed /\ serve # "serving" /\ \A r \in Requests : req[r] # "active"
    /\ result = "clean" =>
         serve = "stopped" /\ \A r \in Requests : req[r] \notin {"active", "cut"}

LInv == TypeOK /\ PhaseInv /\ DrainInv

\* The inductive invariant holds initially.
LEMMA LInit == Init => LInv
<1> SUFFICES ASSUME Init PROVE LInv
  OBVIOUS
<1>1. TypeOK
  <2>1. ctxDone \in BOOLEAN /\ notify \in BOOLEAN /\ closed \in BOOLEAN
    BY Zenon DEF Init
  <2>2. QED
    BY <2>1, SignalAssumption DEF Init, TypeOK
<1>2. ~closed
  BY Zenon DEF Init
<1>3. QED
  BY <1>1, <1>2 DEF Init, LInv, PhaseInv, DrainInv

\* It implies what is wanted of the states.
LEMMA LConsequences == LInv => CleanMeansDrained /\ FailureSurfaces
  BY DEF LInv, TypeOK, PhaseInv, DrainInv, CleanMeansDrained, FailureSurfaces

\* Every step keeps it.
LEMMA LStep == LInv /\ [Next]_vars => LInv'
<1> SUFFICES ASSUME LInv, [Next]_vars PROVE LInv'
  OBVIOUS
<1> USE SignalAssumption DEF LInv, TypeOK, PhaseInv, DrainInv
<1>0. CASE Configured
  <2>1. notify' \in BOOLEAN
    BY <1>0, Zenon DEF Configured
  <2>2. QED
    BY <1>0, <2>1 DEF Configured
<1>1. CASE StartFails
  BY <1>1 DEF StartFails, Return
<1>2. CASE StartServing
  BY <1>2 DEF StartServing
<1>3. CASE ServerStopped
  BY <1>3 DEF ServerStopped, Return
<1>4. CASE Cancelled
  BY <1>4 DEF Cancelled
<1>5. CASE StopNotify
  BY <1>5 DEF StopNotify
<1>6. CASE Shutdown
  BY <1>6 DEF Shutdown
<1>7. CASE Drained
  BY <1>7 DEF Drained
<1>8. CASE Deadline
  BY <1>8 DEF Deadline
<1>9. CASE ForceClose
  BY <1>9 DEF ForceClose, Return, CutOff
<1>10. CASE Receive
  BY <1>10 DEF Receive, Return
<1>11. CASE ClosePools
  BY <1>11 DEF ClosePools, CutOff
<1>12. CASE Listen
  BY <1>12 DEF Listen
<1>13. CASE ServeFails
  BY <1>13 DEF ServeFails, ServeReturns
<1>14. CASE ServeClosed
  BY <1>14 DEF ServeClosed, ServeReturns
<1>15. ASSUME NEW r \in Requests, Accept(r) PROVE LInv'
  BY <1>15 DEF Accept
<1>16. ASSUME NEW r \in Requests, Finish(r) PROVE LInv'
  BY <1>16 DEF Finish
<1>17. ASSUME NEW r \in Requests, Borrow(r) \/ GiveBack(r) PROVE LInv'
  BY <1>17 DEF Borrow, GiveBack
<1>18. CASE Signal
  <2>1. CASE notify
    <3>1. ctxDone' \in BOOLEAN
      BY <1>18, <2>1, Zenon DEF Signal
    <3>2. UNCHANGED <<main, req, result>>
      BY <1>18, <2>1 DEF Signal
    <3>3. QED
      BY <1>18, <3>1, <3>2 DEF Signal
  <2>2. CASE ~notify
    BY <1>18, <2>2 DEF Signal, CutOff
  <2>3. QED
    BY <2>1, <2>2
<1>19. CASE UNCHANGED vars
  BY <1>19 DEF vars
<1>20. QED
  BY <1>0, <1>1, <1>2, <1>3, <1>4, <1>5, <1>6, <1>7, <1>8, <1>9, <1>10, <1>11, <1>12,
     <1>13, <1>14, <1>15, <1>16, <1>17, <1>18, <1>19
     DEF Next, BootStep, RunStep, ServeStep, RequestStep, Exited

\* A run that reports a clean stop has answered every request it accepted.
THEOREM CleanIsDrained == Spec => []CleanMeansDrained
  BY LInit, LStep, LConsequences, PTL DEF Spec

\* A server that failed to bind or to accept never ends in success.
THEOREM FailureIsReported == Spec => []FailureSurfaces
  BY LInit, LStep, LConsequences, PTL DEF Spec

\* Once the drain is on, a signal ends the process at once.
THEOREM SignalsWork == Spec => NoSignalSwallowed
<1>1. LInv /\ [Next]_vars =>
        [signals' # signals /\ main \in {"shutdown", "drain", "force", "receive"}
           => main' = "exited"]_vars
  <2> SUFFICES ASSUME LInv, Next, signals' # signals,
                      main \in {"shutdown", "drain", "force", "receive"}
               PROVE  main' = "exited"
    BY DEF vars
  <2>1. Signal
    BY DEF Next, BootStep, RunStep, ServeStep, RequestStep, Configured, StartFails,
           StartServing, ServerStopped,
           Cancelled, StopNotify, Shutdown, Drained, Deadline, ForceClose, Receive,
           ClosePools, Listen, ServeFails, ServeClosed, ServeReturns, Accept, Finish,
           Borrow, GiveBack, Exited, vars
  <2>2. QED
    BY <2>1 DEF Signal, LInv, PhaseInv
<1>2. QED
  BY <1>1, LInit, LStep, PTL DEF Spec, NoSignalSwallowed

-----------------------------------------------------------------------------
(* The schema.                                                             *)

\* The types of what the runners share.
SchemaTypes ==
    /\ runner \in [Runners -> {"load", "lock", "apply", "ok", "failed"}]
    /\ pending \in [Runners -> SUBSET (1..Migrations)]
    /\ holder \subseteq Runners
    /\ applied \in Seq(1..Migrations)
    /\ Len(applied) <= Migrations

\* Only the holder of the lock applies, and it applies what is left.
LockInv ==
    /\ \A r, q \in holder : r = q
    /\ \A r \in Runners : runner[r] = "apply" <=> r \in holder
    /\ \A r \in holder : pending[r] = (Len(applied) + 1)..Migrations

\* A runner that ended well, and a started server, leave nothing to apply.
CompleteInv ==
    /\ \A r \in Runners : runner[r] = "ok" => Len(applied) = Migrations
    /\ boot # "gate" => Len(applied) = Migrations

SchemaInv == SchemaTypes /\ AppliedOnce /\ LockInv /\ CompleteInv

\* What is not recorded is what follows the recorded prefix.
LEMMA UnappliedIsTail ==
    ASSUME SchemaTypes, AppliedOnce
    PROVE  Unapplied = (Len(applied) + 1)..Migrations
<1> USE MigrationsAssumption
<1>1. /\ DOMAIN applied = 1..Len(applied)
      /\ Len(applied) \in Nat /\ Len(applied) <= Migrations
  BY DEF SchemaTypes
<1>2. ASSUME NEW v \in Unapplied PROVE v \in (Len(applied) + 1)..Migrations
  <2>1. v \in 1..Migrations /\ \A k \in DOMAIN applied : applied[k] # v
    BY <1>2 DEF Unapplied
  <2>2. v \notin 1..Len(applied)
    BY <1>1, <2>1 DEF AppliedOnce
  <2>3. QED
    BY <1>1, <2>1, <2>2
<1>3. ASSUME NEW v \in (Len(applied) + 1)..Migrations PROVE v \in Unapplied
  <2>1. v \in 1..Migrations /\ v > Len(applied)
    BY <1>1, <1>3
  <2>2. ASSUME NEW k \in DOMAIN applied PROVE applied[k] # v
    BY <1>1, <2>1, <2>2 DEF AppliedOnce
  <2>3. QED
    BY <2>1, <2>2 DEF Unapplied
<1>4. QED
  BY <1>2, <1>3

\* The schema invariant holds initially.
LEMMA SchemaInit == DInit => SchemaInv
<1> SUFFICES ASSUME DInit PROVE SchemaInv
  OBVIOUS
<1> USE MigrationsAssumption DEF DInit
<1>1. SchemaTypes
  BY DEF SchemaTypes
<1>2. QED
  BY <1>1 DEF SchemaInv, AppliedOnce, LockInv, CompleteInv

\* Every step of a runner keeps it.
LEMMA SchemaRunner ==
    ASSUME SchemaInv, NEW r \in Runners, RunnerStep(r), UNCHANGED boot
    PROVE  SchemaInv'
<1> USE MigrationsAssumption DEF SchemaInv
<1>1. CASE RunnerOpens(r)
  <2>1. UNCHANGED <<pending, holder, applied>> /\ runner[r] = "load"
    BY <1>1 DEF RunnerOpens
  <2>2. PICK s \in {"lock", "failed"} : runner' = [runner EXCEPT ![r] = s]
    BY <1>1 DEF RunnerOpens
  <2>3. QED
    BY <2>1, <2>2 DEF SchemaTypes, AppliedOnce, LockInv, CompleteInv
<1>2. CASE RunnerLocks(r)
  <2>1. holder = {} /\ holder' = {r} /\ UNCHANGED applied
    BY <1>2 DEF RunnerLocks, LockAvailable
  <2>2. Unapplied = (Len(applied) + 1)..Migrations
    BY UnappliedIsTail
  <2>3. SchemaTypes'
    BY <1>2, <2>1, <2>2 DEF RunnerLocks, SchemaTypes
  <2>4. LockInv'
    BY <1>2, <2>1, <2>2 DEF RunnerLocks, SchemaTypes, LockInv
  <2>5. QED
    BY <1>2, <2>1, <2>3, <2>4 DEF RunnerLocks, SchemaTypes, AppliedOnce, CompleteInv
<1>3. CASE RunnerApplies(r)
  <2>1. PICK v \in pending[r] :
            /\ \A w \in pending[r] : v <= w
            /\ applied' = Append(applied, v)
            /\ pending' = [pending EXCEPT ![r] = @ \ {v}]
    BY <1>3 DEF RunnerApplies
  <2>2. r \in holder /\ pending[r] = (Len(applied) + 1)..Migrations
    BY <1>3 DEF RunnerApplies, LockInv
  <2>3. Len(applied) \in Nat /\ Len(applied) + 1 <= Migrations
    BY <2>1, <2>2 DEF SchemaTypes
  <2>4. v = Len(applied) + 1
    BY <2>1, <2>2, <2>3
  <2>5. /\ applied' \in Seq(1..Migrations)
        /\ Len(applied') = Len(applied) + 1
        /\ \A k \in DOMAIN applied' : applied'[k] = k
    BY <2>1, <2>3, <2>4 DEF SchemaTypes, AppliedOnce
  <2>6. SchemaTypes'
    BY <1>3, <2>1, <2>3, <2>5 DEF RunnerApplies, SchemaTypes
  <2>7. pending'[r] = (Len(applied') + 1)..Migrations
    <3>1. pending'[r] = ((Len(applied) + 1)..Migrations) \ {Len(applied) + 1}
      BY <2>1, <2>2, <2>4 DEF SchemaTypes
    <3>2. QED
      BY <3>1, <2>3, <2>5
  <2>8. LockInv'
    BY <1>3, <2>1, <2>2, <2>7 DEF RunnerApplies, SchemaTypes, LockInv
  <2>9. CompleteInv'
    BY <1>3, <2>3 DEF RunnerApplies, CompleteInv
  <2>10. QED
    BY <2>5, <2>6, <2>8, <2>9 DEF AppliedOnce
<1>4. ASSUME NEW how \in {"ok", "failed"}, runner[r] \in {"lock", "apply"},
             how = "ok" => Len(applied) = Migrations, RunnerEnds(r, how)
      PROVE  SchemaInv'
  <2>1. SchemaTypes'
    BY <1>4 DEF RunnerEnds, SchemaTypes
  <2>2. LockInv'
    BY <1>4 DEF RunnerEnds, SchemaTypes, LockInv
  <2>3. QED
    BY <1>4, <2>1, <2>2 DEF RunnerEnds, SchemaTypes, AppliedOnce, CompleteInv
<1>5. CASE RunnerDone(r)
  <2>1. pending[r] = (Len(applied) + 1)..Migrations /\ pending[r] = {}
    BY <1>5 DEF RunnerDone, LockInv
  <2>2. Len(applied) = Migrations
    BY <2>1 DEF SchemaTypes
  <2>3. QED
    BY <1>4, <1>5, <2>2 DEF RunnerDone
<1>6. CASE RunnerFails(r)
  BY <1>4, <1>6 DEF RunnerFails
<1>7. CASE RunnerAgain(r)
  BY <1>7 DEF RunnerAgain, SchemaTypes, AppliedOnce, LockInv, CompleteInv
<1>8. QED
  BY <1>1, <1>2, <1>3, <1>5, <1>6, <1>7 DEF RunnerStep

\* So does every other step: only the gate looks at the runners.
LEMMA SchemaStep == SchemaInv /\ [DNext]_allVars => SchemaInv'
<1> SUFFICES ASSUME SchemaInv, [DNext]_allVars PROVE SchemaInv'
  OBVIOUS
<1>1. ASSUME UNCHANGED schemaVars, boot' # "gate" => Len(applied) = Migrations
      PROVE  SchemaInv'
  BY <1>1 DEF schemaVars, SchemaInv, SchemaTypes, AppliedOnce, LockInv, CompleteInv
<1>2. CASE Booting(Gate)
  <2>1. Len(applied) = Migrations
    BY <1>2, OwnAssumption DEF Booting, Gate, SchemaInv, CompleteInv
  <2>2. QED
    BY <1>1, <1>2, <2>1 DEF Booting
<1>3. CASE Booting(BootSequence)
  <2>1. boot # "gate"
    BY <1>3 DEF Booting, BootSequence, LoadConfig, OpenStore, OpenCache, LoadAssets,
                StartServer
  <2>2. QED
    BY <1>1, <1>3, <2>1 DEF Booting, SchemaInv, CompleteInv
<1>4. ASSUME NEW r \in Runners, RunnerStep(r), UNCHANGED <<vars, serverVars>>
      PROVE  SchemaInv'
  BY <1>4, SchemaRunner DEF serverVars
<1>5. CASE UNCHANGED <<boot, schemaVars>>
  BY <1>1, <1>5 DEF SchemaInv, CompleteInv
<1>6. QED
  BY <1>2, <1>3, <1>4, <1>5
     DEF DNext, Booting, Running, deployVars, schemaVars, allVars, FileChanges, GivenUp

\* Migrations are applied once and in order, by any number of runners.
THEOREM SchemaAppliedOnce == DSpec => []AppliedOnce
<1>1. SchemaInv => AppliedOnce
  BY DEF SchemaInv
<1>2. QED
  BY <1>1, SchemaInit, SchemaStep, PTL DEF DSpec

\* A server starts only on a complete schema.
THEOREM SchemaBeforeServer == DSpec => []NeverServesUnmigrated
<1>1. SchemaInv => NeverServesUnmigrated
  BY DEF SchemaInv, CompleteInv, NeverServesUnmigrated
<1>2. QED
  BY <1>1, SchemaInit, SchemaStep, PTL DEF DSpec

-----------------------------------------------------------------------------
(* The configuration.                                                      *)

\* What has been checked of the configuration, and what has been set up from it,
\* as the start goes on.
BootInv ==
    /\ cfg \in Configs
    /\ boot \in {"gate", "load", "store", "cache", "assets", "tls", "serve"}
    /\ boot \notin {"gate", "load"} =>
         cfg.cert = cfg.key /\ (cfg.ca => cfg.cert) /\ RedisValidate(cfg)
    /\ boot \in {"assets", "tls", "serve"} => client = NewClient(cfg)
    /\ boot = "serve" => listener = [tls |-> TLSEnabled(cfg), mtls |-> MTLSEnabled(cfg)]
    /\ boot # "serve" => serve = "none"

\* In an accepted configuration the client has the configured topology.
LEMMA ClientFollowsMode ==
    ASSUME NEW c \in Configs, RedisValidate(c)
    PROVE  NewClient(c) = c.mode
<1>1. CASE c.mode = "cluster"
  BY <1>1 DEF NewClient
<1>2. CASE c.mode = "sentinel"
  <2>1. UniversalClient(c.mode = "sentinel" /\ c.master, c.nodes)
          = UniversalClient(TRUE, c.nodes)
    BY <1>2 DEF RedisValidate
  <2>2. QED
    BY <1>2, <2>1 DEF NewClient, UniversalClient
<1>3. CASE c.mode = "standalone"
  <2>1. UniversalClient(c.mode = "sentinel" /\ c.master, c.nodes)
          = UniversalClient(FALSE, 1)
    BY <1>3 DEF RedisValidate
  <2>2. QED
    BY <1>3, <2>1 DEF NewClient, UniversalClient
<1>4. QED
  BY <1>1, <1>2, <1>3 DEF RedisValidate

\* A failing start leaves everything else as it is.
LEMMA FailKeeps ==
    ASSUME Fail
    PROVE  UNCHANGED <<boot, client, listener, serve>>
  BY DEF Fail, StartFails

\* The configuration invariant holds initially.
LEMMA BootInit == DInit => BootInv
  BY DEF DInit, Init, BootInv

\* Every step keeps it.
LEMMA BootKept == BootInv /\ [DNext]_allVars => BootInv'
<1> SUFFICES ASSUME BootInv, [DNext]_allVars PROVE BootInv'
  OBVIOUS
<1> USE DEF BootInv
<1>0. CASE UNCHANGED <<cfg, boot, client, listener, serve>>
  BY <1>0
<1>1. ASSUME UNCHANGED cfg, Fail PROVE BootInv'
  BY <1>0, <1>1, FailKeeps
<1>2. CASE Booting(Gate)
  BY <1>2 DEF Booting, Gate, vars
<1>3. CASE Booting(LoadConfig)
  <2>1. CASE Validate(cfg, files)
    BY <1>3, <2>1 DEF Booting, LoadConfig, Configured, Validate, ValidateTLS
  <2>2. CASE ~Validate(cfg, files)
    BY <1>1, <1>3, <2>2 DEF Booting, LoadConfig
  <2>3. QED
    BY <2>1, <2>2
<1>4. CASE Booting(OpenStore)
  BY <1>1, <1>4 DEF Booting, OpenStore, vars
<1>5. CASE Booting(OpenCache)
  BY <1>1, <1>5 DEF Booting, OpenCache, vars
<1>6. CASE Booting(LoadAssets)
  BY <1>1, <1>6 DEF Booting, LoadAssets, vars
<1>7. CASE Booting(StartServer)
  <2>1. CASE MTLSEnabled(cfg) => ClientCAPool(files)
    BY <1>7, <2>1 DEF Booting, StartServer
  <2>2. CASE ~(MTLSEnabled(cfg) => ClientCAPool(files))
    BY <1>1, <1>7, <2>2 DEF Booting, StartServer
  <2>3. QED
    BY <2>1, <2>2
<1>8. CASE Running(RunStep \/ ListenStep \/ ServeFails \/ ServeClosed \/ RequestStep)
  <2>1. UNCHANGED <<cfg, boot, client, listener>>
    BY <1>8 DEF Running, deployVars
  <2>2. serve = "none" => serve' = "none"
    BY <1>8 DEF Running, RunStep, ServerStopped, Cancelled, StopNotify, Shutdown,
                Drained, Deadline, ForceClose, Receive, ClosePools, ListenStep, Listen,
                ServeFails, ServeClosed, RequestStep, Accept, Finish, Borrow, GiveBack
  <2>3. QED
    BY <2>1, <2>2
<1>9. CASE Running(Signal)
  BY <1>0, <1>9 DEF Running, Signal, deployVars
<1>10. CASE UNCHANGED <<cfg, boot, client, listener, vars>>
  BY <1>0, <1>10 DEF vars
<1>11. QED
  BY <1>2, <1>3, <1>4, <1>5, <1>6, <1>7, <1>8, <1>9, <1>10
     DEF DNext, Booting, BootSequence, Running, Exited, FileChanges, GivenUp, allVars,
         deployVars, serverVars

\* A server serves what its configuration asks for, or does not serve.
THEOREM ServesAsConfigured == DSpec => []ConfigHonoured
<1>1. BootInv => ConfigHonoured
  <2> SUFFICES ASSUME BootInv, serve = "serving"
               PROVE  /\ cfg.cert \/ cfg.key \/ cfg.ca => listener.tls
                      /\ cfg.ca => listener.mtls
                      /\ client = cfg.mode
    BY DEF ConfigHonoured
  <2>1. cfg \in Configs /\ boot = "serve"
    BY DEF BootInv
  <2>2. client = cfg.mode
    BY <2>1, ClientFollowsMode DEF BootInv
  <2>3. {cfg.cert, cfg.key, cfg.ca} \subseteq BOOLEAN
    BY <2>1, ConfigsAssumption
  <2>4. (cfg.cert \/ cfg.key \/ cfg.ca => listener.tls) /\ (cfg.ca => listener.mtls)
    BY <2>1, <2>3 DEF BootInv, TLSEnabled, MTLSEnabled
  <2>5. QED
    BY <2>2, <2>4
<1>2. QED
  BY <1>1, BootInit, BootKept, PTL DEF DSpec

-----------------------------------------------------------------------------
(* The server of a deployment is the server of Lifecycle.                  *)

\* A step of the deployment is a step of the run command or leaves it alone.
LEMMA ServerStepIsLifecycle == [DNext]_allVars => [Next]_vars
<1> SUFFICES ASSUME DNext PROVE [Next]_vars
  BY DEF allVars
<1>1. Fail => BootStep
  BY DEF Fail, BootStep
<1>2. CASE Booting(Gate \/ BootSequence)
  BY <1>1, <1>2 DEF Booting, BootSequence, Gate, LoadConfig, OpenStore, OpenCache,
                    LoadAssets, StartServer, BootStep, Next
<1>3. CASE Running(RunStep \/ ListenStep \/ ServeFails \/ ServeClosed \/ RequestStep)
  BY <1>3 DEF Running, ListenStep, ServeStep, Next
<1>4. CASE Running(Signal) \/ Running(Exited)
  BY <1>4 DEF Running, Next
<1>5. CASE UNCHANGED vars
  BY <1>5
<1>6. QED
  BY <1>2, <1>3, <1>4, <1>5 DEF DNext, FileChanges, GivenUp, allVars

\* The deployment implements the run command of Lifecycle.
THEOREM DeploymentRunsLifecycle == DSpec => Spec
<1>1. DInit => Init
  BY DEF DInit
<1>2. QED
  BY <1>1, ServerStepIsLifecycle, PTL DEF DSpec, Spec

\* What is proved of the run command therefore holds in every deployment.
THEOREM DeploymentEndsWell ==
    DSpec => []CleanMeansDrained /\ []FailureSurfaces /\ NoSignalSwallowed
  BY DeploymentRunsLifecycle, CleanIsDrained, FailureIsReported, SignalsWork, PTL
=============================================================================
