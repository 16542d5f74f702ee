--------------------------- MODULE GatewayProofs ----------------------------
(***************************************************************************)
(* Proofs about Gateway, for every set of requests, any timeouts and any   *)
(* dependencies.                                                           *)
(***************************************************************************)
EXTENDS Gateway, FiniteSetTheorems, TLAPS

-----------------------------------------------------------------------------
(* What the tables of the contract say.  A statement about every entry of  *)
(* a table is proved for its groups and carried over to the whole.         *)

\* Two tables side by side have the entries of both and no others.
LEMMA SideBySide ==
    ASSUME NEW f, NEW g
    PROVE  /\ DOMAIN (f ++ g) = DOMAIN f \cup DOMAIN g
           /\ \A o \in DOMAIN (f ++ g) :
                \/ o \in DOMAIN f /\ (f ++ g)[o] = f[o]
                \/ o \in DOMAIN g /\ (f ++ g)[o] = g[o]
  <1> DEFINE h == f ++ g
  <1>1. h = Beside(f, g)
    BY DEF ++
  <1>2. DOMAIN Beside(f, g) = DOMAIN f \cup DOMAIN g
    BY DEF Beside
  <1>3. ASSUME NEW o \in DOMAIN f \cup DOMAIN g
        PROVE  \/ o \in DOMAIN f /\ Beside(f, g)[o] = f[o]
               \/ o \in DOMAIN g /\ Beside(f, g)[o] = g[o]
    BY DEF Beside
  <1> HIDE DEF h
  <1>4. /\ DOMAIN h = DOMAIN f \cup DOMAIN g
        /\ \A o \in DOMAIN h : \/ o \in DOMAIN f /\ h[o] = f[o]
                               \/ o \in DOMAIN g /\ h[o] = g[o]
    BY <1>1, <1>2, <1>3
  <1> QED
    BY <1>4 DEF h

\* No entry is lost.
LEMMA Entries ==
    ASSUME NEW f, NEW g
    PROVE  DOMAIN f \subseteq DOMAIN (f ++ g) /\ DOMAIN g \subseteq DOMAIN (f ++ g)
  <1>1. DOMAIN (f ++ g) = DOMAIN f \cup DOMAIN g
    BY SideBySide
  <1> QED
    BY <1>1

\* The statuses with which the handler of an operation may answer.
MayAnswer(o, answers) ==
    \/ o \in AdminListOps \cup {"GetAccounts", "GetAuthMe"} /\ answers = {200}
    \/ o = "PostAdminUserPasswordReset" /\ answers = {200, 404}
    \/ o = "PostAdminUserUnlock" /\ answers = {204, 404}
    \/ o = "PostAuthRegister" /\ answers = {400, 409, 201}
    \/ o = "PostAuthLogin" /\ answers = {400, 423, 401, 200}
    \/ o = "PostAuthLogout" /\ answers = {204}
    \/ o = "PostAuthPasswordChange" /\ answers = {400, 401, 403, 200}
    \/ o = "PostAuthPasswordResetRequest" /\ answers = {400, 200}
    \/ o = "PostAuthPasswordReset" /\ answers = {400, 410, 200}
    \/ o = "PostTransfer" /\ answers = {400, 403, 404, 409, 200}
    \/ o = "GetRatelimit" /\ answers = {200, 429}

\* So says the table of the handlers.
LEMMA AnswersTable == \A o \in DOMAIN Answers : MayAnswer(o, Answers[o])
  <1> DEFINE Known(t) == \A o \in DOMAIN t : MayAnswer(o, t[o])
  <1>1. ASSUME NEW f, NEW g, Known(f), Known(g) PROVE Known(f ++ g)
    BY <1>1, SideBySide
  <1>2. Known(All(AdminListOps, {200}))
    BY DEF All, MayAnswer
  <1>3. Known([PostAdminUserPasswordReset |-> {200, 404}, PostAdminUserUnlock |-> {204, 404}])
    BY DEF MayAnswer
  <1>4. Known(SessionAnswers)
    BY DEF SessionAnswers, MayAnswer
  <1>5. Known(PasswordAnswers)
    BY DEF PasswordAnswers, MayAnswer
  <1>6. Known(TransferAnswers)
    BY DEF TransferAnswers, MayAnswer
  <1>7. Known(RatelimitAnswers)
    BY DEF RatelimitAnswers, MayAnswer
  <1> HIDE DEF Known
  <1>8. Known(AdminAnswers)
    BY <1>1, <1>2, <1>3 DEF AdminAnswers
  <1>9. Known(Answers)
    BY <1>1, <1>4, <1>5, <1>6, <1>7, <1>8 DEF Answers
  <1> QED
    BY <1>9 DEF Known

\* The operations whose handler answers without looking anything up.
PlainOps == MetaOps \cup {"GetHeaders", "GetIp", "GetScheme", "GetLivez", "GetEcho"}

\* The contract of one operation, as the layers below it need it.  The operations
\* of authmw.go's hand-kept lists are those that declare a 401 (but login), no
\* other declares a 403, and those that may be refused with one do; and what a
\* handler answers is declared.
Agrees(o, declared) ==
    /\ 401 \in declared /\ o # "PostAuthLogin" => o \in SessionProtectedOps
    /\ 403 \in declared => o \in SessionProtectedOps
    /\ o \in SessionProtectedOps => 401 \in declared
    /\ o \in SessionProtectedOps \ {"GetAuthMe", "GetAccounts"} => 403 \in declared
    /\ \A answers : MayAnswer(o, answers) => answers \subseteq declared
    /\ o \in PlainOps \cup EchoBodyOps \cup ProbeOps \cup {"GetDelay"} => 200 \in declared
    /\ o \in EchoBodyOps => 413 \in declared
    /\ o \in ProbeOps => 503 \in declared
    /\ o \in {"GetDelay", "GetStatus"} => 400 \in declared
    /\ o = "GetStatus" => AnyStatus \in declared

\* The lists, the handlers and the contract agree on every operation.
LEMMA ContractTable == \A o \in Operations : Agrees(o, Responses[o])
  <1> DEFINE Holds(t) == \A o \in DOMAIN t : Agrees(o, t[o])
  <1>1. ASSUME NEW f, NEW g, Holds(f), Holds(g) PROVE Holds(f ++ g)
    BY <1>1, SideBySide
  <1> USE DEF Agrees, MayAnswer, SessionProtectedOps, PlainOps, MetaOps, EchoBodyOps,
              AdminListOps, ProbeOps, AnyStatus, All
  <1>2. Holds(AccountResponses)
    BY DEF AccountResponses
  <1>3. Holds(AdminListResponses)
    BY DEF AdminListResponses
  <1>4. Holds(AdminUserResponses)
    BY DEF AdminUserResponses
  <1>5. Holds(SessionResponses)
    BY DEF SessionResponses
  <1>6. Holds(PasswordResponses)
    BY DEF PasswordResponses
  <1>7. Holds(RegisterDelayResponses)
    BY DEF RegisterDelayResponses
  <1>8. Holds(All(EchoBodyOps, {200, 413})) /\ Holds([GetEcho |-> {200}])
    OBVIOUS
  <1>9. /\ Holds(All({"GetHeaders", "GetIp", "GetLivez"}, {200}))
        /\ Holds([GetRatelimit |-> {200, 429}])
    OBVIOUS
  <1>10. /\ Holds(All({"GetReadyz", "GetStartupz"}, {200, 503}))
         /\ Holds([GetScheme |-> {200}])
    OBVIOUS
  <1>11. Holds(StatusResponses)
    BY DEF StatusResponses
  <1>12. Holds(TransferResponses)
    BY DEF TransferResponses
  <1>13. Holds(MetaResponses)
    BY DEF MetaResponses
  <1> HIDE DEF Holds, Agrees, MayAnswer, SessionProtectedOps, PlainOps, MetaOps, EchoBodyOps,
               AdminListOps, ProbeOps, AnyStatus, All
  <1>14. Holds(EchoResponses)
    BY <1>1, <1>8 DEF EchoResponses
  <1>15. Holds(InspectResponses)
    BY <1>1, <1>9 DEF InspectResponses
  <1>16. Holds(ProbeResponses)
    BY <1>1, <1>10 DEF ProbeResponses
  <1>17. Holds(AccountResponses ++ AdminListResponses ++ AdminUserResponses
               ++ SessionResponses ++ PasswordResponses ++ RegisterDelayResponses)
    BY <1>1, <1>2, <1>3, <1>4, <1>5, <1>6, <1>7
  <1>18. Holds(Responses)
    BY <1>1, <1>17, <1>14, <1>15, <1>16, <1>11, <1>12, <1>13 DEF Responses
  <1>19. Operations \subseteq DOMAIN Responses
    <2>1. /\ DOMAIN EchoResponses = EchoBodyOps \cup {"GetEcho"}
          /\ DOMAIN InspectResponses = {"GetHeaders", "GetIp", "GetLivez", "GetRatelimit"}
          /\ DOMAIN ProbeResponses = {"GetReadyz", "GetStartupz", "GetScheme"}
      <3>1. DOMAIN EchoResponses = EchoBodyOps \cup {"GetEcho"}
        <4> DEFINE a == All(EchoBodyOps, {200, 413})
                   b == [GetEcho |-> {200}]
        <4>1. EchoResponses = a ++ b
          BY DEF EchoResponses
        <4> HIDE DEF a, b
        <4>2. DOMAIN EchoResponses = DOMAIN a \cup DOMAIN b
          BY <4>1, SideBySide
        <4> QED
          BY <4>2 DEF All, a, b
      <3>2. DOMAIN InspectResponses = {"GetHeaders", "GetIp", "GetLivez", "GetRatelimit"}
        <4> DEFINE a == All({"GetHeaders", "GetIp", "GetLivez"}, {200})
                   b == [GetRatelimit |-> {200, 429}]
        <4>1. InspectResponses = a ++ b
          BY DEF InspectResponses
        <4> HIDE DEF a, b
        <4>2. DOMAIN InspectResponses = DOMAIN a \cup DOMAIN b
          BY <4>1, SideBySide
        <4> QED
          BY <4>2 DEF All, a, b
      <3>3. DOMAIN ProbeResponses = {"GetReadyz", "GetStartupz", "GetScheme"}
        <4> DEFINE a == All({"GetReadyz", "GetStartupz"}, {200, 503})
                   b == [GetScheme |-> {200}]
        <4>1. ProbeResponses = a ++ b
          BY DEF ProbeResponses
        <4> HIDE DEF a, b
        <4>2. DOMAIN ProbeResponses = DOMAIN a \cup DOMAIN b
          BY <4>1, SideBySide
        <4> QED
          BY <4>2 DEF All, a, b
      <3> QED
        BY <3>1, <3>2, <3>3
    <2>2. /\ DOMAIN AccountResponses = {"GetAccounts"}
          /\ DOMAIN AdminListResponses = AdminListOps
          /\ DOMAIN AdminUserResponses = AdminUserOps
          /\ DOMAIN SessionResponses = {"PostAuthLogin", "PostAuthLogout", "GetAuthMe"}
          /\ DOMAIN PasswordResponses = {"PostAuthPasswordChange", "PostAuthPasswordReset",
                                         "PostAuthPasswordResetRequest"}
          /\ DOMAIN RegisterDelayResponses = {"PostAuthRegister", "GetDelay"}
          /\ DOMAIN StatusResponses = {"GetStatus"}
          /\ DOMAIN TransferResponses = {"PostTransfer"}
          /\ DOMAIN MetaResponses = MetaOps
      BY DEF AccountResponses, AdminListResponses, AdminUserResponses, SessionResponses,
             PasswordResponses, RegisterDelayResponses, StatusResponses, TransferResponses,
             MetaResponses, All, AdminUserOps
    <2>3. /\ DOMAIN AccountResponses \subseteq DOMAIN Responses
          /\ DOMAIN AdminListResponses \subseteq DOMAIN Responses
          /\ DOMAIN AdminUserResponses \subseteq DOMAIN Responses
          /\ DOMAIN SessionResponses \subseteq DOMAIN Responses
          /\ DOMAIN PasswordResponses \subseteq DOMAIN Responses
          /\ DOMAIN RegisterDelayResponses \subseteq DOMAIN Responses
          /\ DOMAIN EchoResponses \subseteq DOMAIN Responses
          /\ DOMAIN InspectResponses \subseteq DOMAIN Responses
          /\ DOMAIN ProbeResponses \subseteq DOMAIN Responses
          /\ DOMAIN StatusResponses \subseteq DOMAIN Responses
          /\ DOMAIN TransferResponses \subseteq DOMAIN Responses
          /\ DOMAIN MetaResponses \subseteq DOMAIN Responses
      BY Entries, ZenonT(60) DEF Responses
    <2>4. Operations =
            {"GetAccounts", "GetAdminAccounts", "GetAdminTransfers", "GetAdminUsers",
             "PostAdminUserPasswordReset", "PostAdminUserUnlock", "PostAuthLogin",
             "PostAuthLogout", "GetAuthMe", "PostAuthPasswordChange",
             "PostAuthPasswordReset", "PostAuthPasswordResetRequest", "PostAuthRegister",
             "GetDelay", "DeleteEcho", "GetEcho", "PatchEcho", "PostEcho", "PutEcho",
             "GetHeaders", "GetIp", "GetLivez", "GetRatelimit", "GetReadyz", "GetScheme",
             "GetStartupz", "GetStatus", "PostTransfer", "GetUserAgent", "GetUuid",
             "GetVersion"}
      BY DEF Operations, Routes
    <2>5. AdminListOps \cup AdminUserOps \cup EchoBodyOps \cup MetaOps \subseteq DOMAIN Responses
      BY <2>1, <2>2, <2>3
    <2>6. {"GetAccounts", "PostAuthLogin", "PostAuthLogout", "GetAuthMe",
           "PostAuthPasswordChange", "PostAuthPasswordReset",
           "PostAuthPasswordResetRequest", "PostAuthRegister", "GetDelay"}
            \subseteq DOMAIN Responses
      BY <2>2, <2>3
    <2>7. {"GetEcho", "GetHeaders", "GetIp", "GetLivez", "GetRatelimit", "GetReadyz",
           "GetStartupz", "GetScheme", "GetStatus", "PostTransfer"} \subseteq DOMAIN Responses
      BY <2>1, <2>2, <2>3
    <2> QED
      BY <2>4, <2>5, <2>6, <2>7 DEF AdminListOps, AdminUserOps, EchoBodyOps, MetaOps
  <1> QED
    BY <1>18, <1>19 DEF Holds

\* "none" marks a request that was routed nowhere.
LEMMA NoneIsNoOperation == "none" \notin Operations
  BY DEF Operations, Routes

\* The two session-protected operations without a 403 are read-only.
LEMMA ReadOnlyOps == \A o \in {"GetAuthMe", "GetAccounts"} : Routes[o][1] = "GET"
  <1>1. Routes["GetAuthMe"][1] = "GET"
    BY DEF Routes
  <1>2. Routes["GetAccounts"][1] = "GET"
    BY DEF Routes
  <1> QED
    BY <1>1, <1>2, Zenon

\* The probes and the delay read no body.
LEMMA BodiesTable == \A o \in ProbeOps \cup {"GetDelay"} : Bodies[o] = "none"
  <1> DEFINE Bodiless == ProbeOps \cup {"GetDelay"}
             Unread(o, body) == o \in Bodiless => body = "none"
             NoneRead(t) == \A o \in DOMAIN t : Unread(o, t[o])
  <1>1. ASSUME NEW f, NEW g, NoneRead(f), NoneRead(g) PROVE NoneRead(f ++ g)
    <2> HIDE DEF Unread
    <2> QED
      BY <1>1, SideBySide
  <1>2. /\ NoneRead(AccountBodies) /\ NoneRead(AdminBodies) /\ NoneRead(DelayBodies)
        /\ NoneRead(InspectBodies) /\ NoneRead(MetaBodies)
    BY DEF AccountBodies, AdminBodies, DelayBodies, InspectBodies, MetaBodies, All
  <1>3. NoneRead(SessionBodies) /\ NoneRead(StatusTransferBodies)
    BY DEF SessionBodies, StatusTransferBodies, ProbeOps
  <1>4. NoneRead(PasswordBodies)
    BY DEF PasswordBodies, All, ProbeOps
  <1>5. NoneRead(All(EchoBodyOps, "text")) /\ NoneRead([GetEcho |-> "none"])
    BY DEF All, EchoBodyOps, ProbeOps
  <1> HIDE DEF NoneRead
  <1>6. NoneRead(EchoBodies)
    BY <1>1, <1>5 DEF EchoBodies
  <1>7. NoneRead(Bodies)
    BY <1>1, <1>2, <1>3, <1>4, <1>6 DEF Bodies
  <1>8. DOMAIN DelayBodies \cup DOMAIN InspectBodies \subseteq DOMAIN Bodies
    BY Entries DEF Bodies
  <1>9. Bodiless \subseteq DOMAIN DelayBodies \cup DOMAIN InspectBodies
    BY DEF ProbeOps, DelayBodies, InspectBodies, All, InspectOps
  <1>10. Bodiless \subseteq DOMAIN Bodies
    <2> HIDE DEF Bodiless
    <2> QED
      BY <1>8, <1>9, Zenon
  <1> QED
    BY <1>7, <1>10 DEF NoneRead

-----------------------------------------------------------------------------
(* The inductive invariants.                                               *)

Stages == {"route", "bind", "body", "session", "load", "guard", "touch", "handle", "work",
           "sleep", "checks", "ping", "unwind", "done"}

Types ==
    /\ rt \in RequestTimeouts /\ req \in Requests
    /\ stage \in Stages
    /\ now \in Nat /\ wake \in Int
    /\ gone \in BOOLEAN /\ ran \in BOOLEAN
    /\ dep \in [Checks -> {"up", "down", "hung"}]
    /\ todo \subseteq Checks /\ failed \subseteq Checks
    /\ seenUp \subseteq Checks /\ seenBad \subseteq Checks
    /\ stage = "ping" => cur \in Checks

\* authMiddleware has let the request through.
Cleared ==
    op \in SessionProtectedOps =>
        /\ sess # "none"
        /\ IsUnsafeMethod(req.method) => req.csrf = "match"
        /\ op \in RoleProtectedOps => sess = "admin"

\* Where a request is says which layers it has passed.
Layers ==
    /\ stage = "route" => op = "none"
    /\ op = "none" => stage \in {"route", "unwind", "done"} /\ ~ran
    /\ op # "none" => op \in Operations /\ req.method = Routes[op][1]
    /\ stage = "load" => op \in SessionProtectedOps /\ req.cookie # "none"
    /\ stage \in {"guard", "touch"} => op \in SessionProtectedOps /\ sess # "none"
    /\ stage = "touch" => Cleared
    /\ ran => stage \in {"work", "sleep", "checks", "ping", "unwind", "done"}
    /\ stage \in {"handle", "work", "sleep", "checks", "ping"} \/ ran => Cleared
    /\ stage = "work" => op \in DOMAIN Answers
    /\ stage = "sleep" => op = "GetDelay"
    /\ stage \in {"checks", "ping"} => op \in ProbeOps

\* What has been written is declared, and is final unless the handler sent an
\* informational status only.
Written ==
    /\ by = "auth" => op \in Operations /\ code \in Responses[op]
    /\ by = "handler" =>
         /\ op \in Operations
         /\ code \in Responses[op] \cup {500} \/ AnyStatus \in Responses[op]
    /\ stage \in {"unwind", "done"} /\ code = 0 => by = "handler" /\ op = "GetStatus"
    /\ stage \notin {"unwind", "done"} => by = "none" /\ code = 0
    /\ req.path[1] = "api" => by # "spa"

\* What the checks run so far tell of the dependencies.
Probed ==
    /\ stage \in {"checks", "ping"} =>
         /\ \A c \in Checks : IF dep[c] = "up" THEN c \in seenUp ELSE c \in seenBad
         /\ \A c \in Checks \ todo : c \in failed \cup seenUp \/ (stage = "ping" /\ c = cur)
         /\ failed # {} => seenBad # {} \/ Expired
    /\ stage = "ping" /\ now >= wake => seenBad # {} \/ Expired
    /\ stage \in {"unwind", "done"} /\ op \in ProbeOps =>
         /\ code = 200 => seenUp = Checks
         /\ code = 503 => seenBad # {} \/ Expired

\* How long a request may have taken so far.
Limits == IF op # "none" /\ Bodies[op] # "none" THEN Max({ReadTimeout, rt}) ELSE rt

Clocked ==
    /\ now <= Limits + Overrun
    /\ stage \in {"bind", "body", "session"} => now <= Limits
    /\ stage = "handle" /\ op \notin SessionProtectedOps => now <= Limits
    /\ stage \in {"load", "touch", "work"} => wake <= Limits + Overrun
    /\ stage = "ping" => wake <= Limits
    /\ op = "none" \/ stage = "bind" => now = 0
    /\ op \in ProbeOps \cup {"GetDelay"} /\ stage \in {"body", "session", "handle"} => now = 0
    /\ op = "GetDelay" => now <= rt
    /\ stage = "sleep" =>
         /\ req.arg >= 0 /\ (now <= wake \/ now = 0)
         /\ wake = Min({req.arg, MaxDelay}) \/ (req.arg = Huge /\ wake < 0)

\* The checks done or under way, and the time so many of them may take.
Pings == Cardinality(Checks) - Cardinality(todo)
Budget(n) == n * (PingTimeout + Overrun)

ProbeClocked ==
    op \in ProbeOps =>
        /\ stage = "checks" => now <= Budget(Pings)
        /\ stage = "ping" => now <= wake + Overrun /\ wake + Overrun <= Budget(Pings)
        /\ stage \in {"unwind", "done"} => now <= Budget(Cardinality(Checks))

-----------------------------------------------------------------------------
(* Lemmas about the operators.                                             *)

\* Min and Max of two numbers.
LEMMA MinOfTwo ==
    ASSUME NEW a \in Int, NEW b \in Int
    PROVE  Min({a, b}) = IF a <= b THEN a ELSE b
  BY DEF Min

LEMMA MaxOfTwo ==
    ASSUME NEW a \in Int, NEW b \in Int
    PROVE  Max({a, b}) = IF a >= b THEN a ELSE b
  BY DEF Max

\* The number in a path is a number.
LEMMA ArgIsInt == \A q \in Requests : q.arg \in Int
  <1> DEFINE args == All({"/delay/{seconds}"}, DelayArgs) ++ All({"/status/{code}"}, StatusArgs)
             Sent(o, values, absent) == IF Routes[o][1] = "GET" THEN {absent} ELSE values
             Of(o) == [method : {Routes[o][1]}, path : {<<"api", Routes[o][2]>>},
                param : {"good", "bad"},
                arg : IF Routes[o][2] \in DOMAIN args THEN args[Routes[o][2]] ELSE {0},
                csrf : Sent(o, {"none", "match", "wrong", "twice"}, "none"),
                body : Sent(o, {"empty", "valid", "malformed", "large"}, "empty"),
                cookie : {"none", "user", "admin"}]
  <1>1. \A p \in DOMAIN args : args[p] \subseteq Int
    <2> DEFINE d == All({"/delay/{seconds}"}, DelayArgs)
               s == All({"/status/{code}"}, StatusArgs)
    <2>1. \A p \in DOMAIN d : d[p] \subseteq Int
      BY GatewayAssumption DEF All
    <2>2. \A p \in DOMAIN s : s[p] \subseteq Int
      BY GatewayAssumption DEF All
    <2> HIDE DEF d, s
    <2>3. \A p \in DOMAIN (d ++ s) : (d ++ s)[p] \subseteq Int
      BY <2>1, <2>2, SideBySide
    <2> QED
      BY <2>3 DEF d, s
  <1> HIDE DEF args
  <1>2. ASSUME NEW o, NEW q \in Of(o) PROVE q.arg \in Int
    BY <1>1, <1>2
  <1> SUFFICES ASSUME NEW q \in Requests PROVE q.arg \in Int
    OBVIOUS
  <1>3. q.arg = 0 \/ \E o \in Operations : q \in Of(o)
    BY DEF Requests, args
  <1> QED
    BY <1>2, <1>3

\* A delay is the one asked for or the cap, or negative when its Duration wraps.
LEMMA ClampBounds ==
    ASSUME NEW seconds \in Int, NEW d \in ClampDelay(seconds)
    PROVE  /\ d \in Int
           /\ d = Min({seconds, MaxDelay}) \/ (seconds = Huge /\ d < 0)
  <1>1. PICK e \in Duration(seconds) : d = IF e > MaxDelay THEN MaxDelay ELSE e
    BY DEF ClampDelay
  <1>2. e = seconds \/ (seconds = Huge /\ e = -Huge)
    BY <1>1 DEF Duration
  <1>3. e \in Int
    BY <1>2, GatewayAssumption
  <1>4. Min({seconds, MaxDelay}) = IF seconds <= MaxDelay THEN seconds ELSE MaxDelay
    BY MinOfTwo, GatewayAssumption
  <1> QED
    BY <1>1, <1>2, <1>3, <1>4, GatewayAssumption

\* A ping ends by its own timeout and by the request's.
LEMMA PingDeadlineIs ==
    ASSUME Types
    PROVE  /\ PingDeadline \in Nat
           /\ PingDeadline <= now + PingTimeout /\ PingDeadline <= rt
           /\ PingDeadline = now + PingTimeout \/ PingDeadline = rt
  <1>1. now + PingTimeout \in Nat /\ rt \in Nat
    BY GatewayAssumption DEF Types
  <1> QED
    BY <1>1, MinOfTwo DEF PingDeadline

\* When a call has returned at the latest.
LEMMA CallOutIs ==
    ASSUME Types, NEW s, CallOut(s)
    PROVE  /\ wake' \in Nat
           /\ wake' = IF now >= rt THEN now + Overrun ELSE rt + Overrun
  <1>1. now \in Nat /\ rt \in Nat /\ Overrun \in Nat
    BY GatewayAssumption DEF Types
  <1> QED
    BY <1>1, MaxOfTwo DEF CallOut

\* How long a request may take, without Max.
LEMMA LimitsAre ==
    ASSUME NEW r \in RequestTimeouts
    PROVE  Max({ReadTimeout, r}) = IF ReadTimeout >= r THEN ReadTimeout ELSE r
  BY MaxOfTwo, GatewayAssumption

\* The kinds of operations do not overlap.
LEMMA KindsApart ==
    /\ \A o \in DOMAIN Answers : o \notin ProbeOps \cup {"GetDelay", "GetStatus"}
    /\ \A o \in PlainOps \cup EchoBodyOps \cup {"GetStatus"} : o \notin ProbeOps \cup {"GetDelay"}
    /\ \A o \in SessionProtectedOps : o \notin ProbeOps \cup {"GetDelay"}
    /\ "GetDelay" \notin ProbeOps /\ "none" \notin ProbeOps
    /\ RoleProtectedOps \subseteq SessionProtectedOps \ {"GetAuthMe", "GetAccounts"}
    /\ AdminListOps \cup AdminUserOps \subseteq RoleProtectedOps
  <1>1. \A o \in DOMAIN Answers : o \notin ProbeOps \cup {"GetDelay", "GetStatus"}
    BY AnswersTable DEF MayAnswer, ProbeOps, AdminListOps
  <1>2. \A o \in PlainOps \cup EchoBodyOps \cup {"GetStatus"} :
          o \notin ProbeOps \cup {"GetDelay"}
    BY DEF PlainOps, MetaOps, EchoBodyOps, ProbeOps
  <1>3. \A o \in SessionProtectedOps : o \notin ProbeOps \cup {"GetDelay"}
    BY DEF SessionProtectedOps, ProbeOps
  <1>4. "GetDelay" \notin ProbeOps /\ "none" \notin ProbeOps
    BY DEF ProbeOps
  <1>5. RoleProtectedOps \subseteq SessionProtectedOps \ {"GetAuthMe", "GetAccounts"}
    BY DEF RoleProtectedOps, SessionProtectedOps
  <1>6. AdminListOps \cup AdminUserOps \subseteq RoleProtectedOps
    BY DEF RoleProtectedOps, AdminListOps, AdminUserOps
  <1> QED
    BY <1>1, <1>2, <1>3, <1>4, <1>5, <1>6, Zenon

\* The time pings may take adds up.
LEMMA BudgetAdds ==
    /\ Budget(0) = 0
    /\ \A n \in Nat : Budget(n) \in Nat /\ Budget(n + 1) = Budget(n) + PingTimeout + Overrun
  BY GatewayAssumption DEF Budget

\* Routing finds an operation, or a layer writes the answer.
LEMMA RouteOrWrite ==
    ASSUME Route
    PROVE  \/ stage' = "bind" /\ UNCHANGED <<code, by>>
           \/ stage' = "unwind" /\ UNCHANGED op /\ \E c, layer : Write(c, layer)
  <1>1. Fallback => \E c, layer : Write(c, layer)
    <2>1. Fallback => Write(404, "notfound") \/ Write(200, "spa")
      BY DEF Fallback
    <2> QED
      BY <2>1
  <1>2. \A c, layer : Write(c, layer) => stage' = "unwind"
    BY DEF Write
  <1>3. Goto("bind") => stage' = "bind" /\ UNCHANGED <<code, by>>
    BY DEF Goto, reply
  <1>4. Goto("bind") \/ (UNCHANGED op /\ \E c, layer : Write(c, layer))
    BY <1>1, Zenon DEF Route
  <1> QED
    BY <1>2, <1>3, <1>4

\* More pings may take longer.
LEMMA BudgetMonotone ==
    ASSUME NEW m \in Nat, NEW n \in Nat, m <= n
    PROVE  Budget(m) \in Nat /\ Budget(n) \in Nat /\ Budget(m) <= Budget(n)
  BY GatewayAssumption DEF Budget

\* A write by a middleware or a handler of something declared, or of an error.
LEMMA DeclaredWrite ==
    ASSUME NEW c \in Nat \ {0}, NEW layer \in {"auth", "handler"}, Write(c, layer),
           UNCHANGED <<op, req>>, op \in Operations, c \notin 100..199,
           c \in Responses[op] \/ (layer = "handler" /\ c = 500)
    PROVE  Written'
  BY DEF Write, Written

\* A write by a layer the contract does not speak of.
LEMMA OuterWrite ==
    ASSUME NEW c \in Nat \ {0}, NEW layer, Write(c, layer), c \notin 100..199,
           layer \notin {"auth", "handler"}, UNCHANGED req,
           layer = "spa" => req.path[1] # "api"
    PROVE  Written'
  BY DEF Write, Written

-----------------------------------------------------------------------------
(* Types and layers.                                                       *)

\* No step leaves the types.
LEMMA TypesStep == Types /\ Layers /\ [Next]_vars => Types'
  <1> SUFFICES ASSUME Types, Layers, [Next]_vars PROVE Types'
    OBVIOUS
  <1> USE GatewayAssumption DEF Types, Stages, Goto, Write, Aside, local, reply, input, world
  <1>1. ASSUME Route PROVE Types'
    BY <1>1 DEF Route, Fallback
  <1>2. ASSUME Bind PROVE Types'
    BY <1>2 DEF Bind
  <1>3. ASSUME ReadBody PROVE Types'
    BY <1>3 DEF ReadBody
  <1>4. ASSUME LoadSession PROVE Types'
    <2>1. wake' \in Int
      BY <1>4, CallOutIs DEF LoadSession
    <2> QED
      BY <1>4, <2>1 DEF LoadSession, CallOut
  <1>23. ASSUME SessionLoaded PROVE Types'
    BY <1>23 DEF SessionLoaded
  <1>5. ASSUME Guard PROVE Types'
    <2>1. wake' \in Int
      BY <1>5, CallOutIs DEF Guard
    <2> QED
      BY <1>5, <2>1 DEF Guard, CallOut
  <1>6. ASSUME Touch PROVE Types'
    BY <1>6 DEF Touch
  <1>7. ASSUME EnterStored PROVE Types'
    <2>1. wake' \in Int
      BY <1>7, CallOutIs DEF EnterStored
    <2> QED
      BY <1>7, <2>1 DEF EnterStored, CallOut
  <1>8. ASSUME Work PROVE Types'
    BY <1>8 DEF Work
  <1>9. ASSUME EnterPlain PROVE Types'
    BY <1>9 DEF EnterPlain
  <1>10. ASSUME EnterEcho PROVE Types'
    BY <1>10 DEF EnterEcho
  <1>11. ASSUME EnterStatus PROVE Types'
    BY <1>11 DEF EnterStatus
  <1>12. ASSUME EnterDelay PROVE Types'
    <2>1. CASE req.arg >= 0
      <3>1. PICK d \in ClampDelay(req.arg) : wake' = now + d
        BY <1>12, <2>1, ArgIsInt DEF EnterDelay
      <3>2. d \in Int
        BY <3>1, ArgIsInt, ClampBounds
      <3> QED
        BY <1>12, <3>1, <3>2 DEF EnterDelay
    <2>2. CASE req.arg < 0
      BY <1>12, <2>2, ArgIsInt DEF EnterDelay
    <2> QED
      BY <1>12, <2>1, <2>2 DEF EnterDelay
  <1>13. ASSUME Wake PROVE Types'
    BY <1>13 DEF Wake
  <1>14. ASSUME EnterProbe PROVE Types'
    BY <1>14 DEF EnterProbe
  <1>15. ASSUME StartCheck PROVE Types'
    <2>1. wake' \in Int
      BY <1>15, PingDeadlineIs DEF StartCheck
    <2> QED
      BY <1>15, <2>1 DEF StartCheck
  <1>16. ASSUME Ping PROVE Types'
    BY <1>16 DEF Ping, Checked
  <1>17. ASSUME AnswerProbe PROVE Types'
    BY <1>17 DEF AnswerProbe
  <1>18. ASSUME Unwind PROVE Types'
    BY <1>18 DEF Unwind
  <1>19. ASSUME Tick PROVE Types'
    BY <1>19 DEF Tick
  <1>20. ASSUME ClientLeaves PROVE Types'
    BY <1>20 DEF ClientLeaves
  <1>21. ASSUME DependencyChanges PROVE Types'
    BY <1>21 DEF DependencyChanges
  <1>22. ASSUME UNCHANGED vars PROVE Types'
    BY <1>22 DEF vars
  <1> QED
    BY <1>1, <1>2, <1>3, <1>4, <1>5, <1>6, <1>7, <1>8, <1>9, <1>10, <1>11, <1>12, <1>13, <1>14,
       <1>15, <1>16, <1>17, <1>18, <1>19, <1>20, <1>21, <1>22, <1>23, Zenon DEF Next, Step, Done

\* A request passes the layers in their order.
LEMMA LayersStep == Types /\ Layers /\ [Next]_vars => Layers'
  <1> SUFFICES ASSUME Types, Layers, [Next]_vars PROVE Layers'
    OBVIOUS
  <1> USE DEF Layers, Cleared, Goto, Write, Aside, local, reply, input, world
  <1>1. ASSUME Route PROVE Layers'
    BY <1>1, NoneIsNoOperation DEF Route, Fallback, OpsAt
  <1>2. ASSUME Bind PROVE Layers'
    BY <1>2 DEF Bind
  <1>3. ASSUME ReadBody PROVE Layers'
    BY <1>3 DEF ReadBody
  <1>4. ASSUME LoadSession PROVE Layers'
    BY <1>4 DEF LoadSession, CallOut
  <1>23. ASSUME SessionLoaded PROVE Layers'
    BY <1>23 DEF SessionLoaded
  <1>5. ASSUME Guard PROVE Layers'
    BY <1>5 DEF Guard, CallOut, Refused
  <1>6. ASSUME Touch PROVE Layers'
    BY <1>6 DEF Touch
  <1>7. ASSUME EnterStored PROVE Layers'
    BY <1>7 DEF EnterStored, CallOut
  <1>8. ASSUME Work PROVE Layers'
    BY <1>8 DEF Work
  <1>9. ASSUME EnterPlain PROVE Layers'
    BY <1>9 DEF EnterPlain
  <1>10. ASSUME EnterEcho PROVE Layers'
    BY <1>10 DEF EnterEcho
  <1>11. ASSUME EnterStatus PROVE Layers'
    BY <1>11 DEF EnterStatus
  <1>12. ASSUME EnterDelay PROVE Layers'
    BY <1>12 DEF EnterDelay
  <1>13. ASSUME Wake PROVE Layers'
    BY <1>13 DEF Wake
  <1>14. ASSUME EnterProbe PROVE Layers'
    BY <1>14 DEF EnterProbe
  <1>15. ASSUME StartCheck PROVE Layers'
    BY <1>15 DEF StartCheck
  <1>16. ASSUME Ping PROVE Layers'
    BY <1>16 DEF Ping
  <1>17. ASSUME AnswerProbe PROVE Layers'
    BY <1>17 DEF AnswerProbe
  <1>18. ASSUME Unwind PROVE Layers'
    BY <1>18 DEF Unwind
  <1>19. ASSUME Tick PROVE Layers'
    BY <1>19 DEF Tick
  <1>20. ASSUME ClientLeaves PROVE Layers'
    BY <1>20 DEF ClientLeaves
  <1>21. ASSUME DependencyChanges PROVE Layers'
    BY <1>21 DEF DependencyChanges
  <1>22. ASSUME UNCHANGED vars PROVE Layers'
    BY <1>22 DEF vars
  <1> QED
    BY <1>1, <1>2, <1>3, <1>4, <1>5, <1>6, <1>7, <1>8, <1>9, <1>10, <1>11, <1>12, <1>13, <1>14,
       <1>15, <1>16, <1>17, <1>18, <1>19, <1>20, <1>21, <1>22, <1>23, Zenon DEF Next, Step, Done

-----------------------------------------------------------------------------
(* The contract.                                                           *)

\* What is written is on the contract.
LEMMA WrittenStep == Types /\ Layers /\ Written /\ [Next]_vars => Written'
  <1> SUFFICES ASSUME Types, Layers, Written, [Next]_vars PROVE Written'
    OBVIOUS
  <1> USE DEF Aside
  <1>0. ASSUME UNCHANGED <<req, op, code, by>>, stage \notin {"unwind", "done"},
               stage' \notin {"unwind", "done"}
        PROVE  Written'
    BY <1>0 DEF Written
  <1>1. ASSUME Route PROVE Written'
    <2>1. ASSUME NEW o, op' = o, Goto("bind") PROVE Written'
      BY <1>1, <2>1 DEF Route, Goto, Written, reply
    <2>2. ASSUME Site(req.path) \in DOMAIN SiteRoutes,
                 NEW c \in SiteRoutes[Site(req.path)], Write(c, "site")
          PROVE  Written'
      <3>1. c \in {200, 301, 404}
        BY <2>2 DEF SiteRoutes
      <3> QED
        BY <1>1, <2>2, <3>1, OuterWrite DEF Route
    <2>3. ASSUME Fallback PROVE Written'
      BY <1>1, <2>3, OuterWrite DEF Route, Fallback
    <2>4. ASSUME Write(405, "router") PROVE Written'
      BY <1>1, <2>4, OuterWrite DEF Route
    <2> QED
      BY <1>1, <2>1, <2>2, <2>3, <2>4 DEF Route
  <1>2. ASSUME Bind PROVE Written'
    BY <1>2, <1>0, OuterWrite DEF Bind, Goto, reply
  <1>3. ASSUME ReadBody PROVE Written'
    BY <1>3, <1>0, OuterWrite DEF ReadBody, Goto, reply
  <1>4. ASSUME LoadSession PROVE Written'
    <2>1. ASSUME op \in SessionProtectedOps, Write(401, "auth") PROVE Written'
      <3>1. op \in Operations
        BY <1>4 DEF LoadSession, Layers
      <3>2. 401 \in Responses[op]
        BY <2>1, <3>1, ContractTable DEF Agrees
      <3> QED
        BY <1>4, <2>1, <3>1, <3>2, DeclaredWrite DEF LoadSession
    <2> QED
      BY <1>4, <1>0, <2>1 DEF LoadSession, CallOut, Goto, reply
  <1>23. ASSUME SessionLoaded PROVE Written'
    <2>1. op \in Operations /\ op \in SessionProtectedOps
      BY <1>23 DEF SessionLoaded, Layers
    <2>2. 401 \in Responses[op]
      BY <2>1, ContractTable DEF Agrees
    <2>3. ASSUME Write(401, "auth") PROVE Written'
      BY <1>23, <2>1, <2>2, <2>3, DeclaredWrite DEF SessionLoaded
    <2> QED
      BY <1>23, <1>0, <2>3 DEF SessionLoaded, Goto, reply
  <1>5. ASSUME Guard PROVE Written'
    <2>1. op \in Operations /\ op \in SessionProtectedOps /\ req.method = Routes[op][1]
      BY <1>5 DEF Guard, Layers
    <2>2. ASSUME \/ IsUnsafeMethod(req.method)
                 \/ op \in RoleProtectedOps
          PROVE  403 \in Responses[op]
      <3>1. op \notin {"GetAuthMe", "GetAccounts"}
        BY <2>1, <2>2, ReadOnlyOps, KindsApart DEF IsUnsafeMethod
      <3> QED
        BY <2>1, <3>1, ContractTable DEF Agrees
    <2>3. ASSUME Write(403, "auth"), 403 \in Responses[op] PROVE Written'
      BY <1>5, <2>1, <2>3, DeclaredWrite DEF Guard
    <2>4. ASSUME Write(401, "auth") PROVE Written'
      <3>1. 401 \in Responses[op]
        BY <2>1, ContractTable DEF Agrees
      <3> QED
        BY <1>5, <2>1, <2>4, <3>1, DeclaredWrite DEF Guard
    <2>5. Refused => 403 \in Responses[op]
      BY <2>2 DEF Refused
    <2> QED
      BY <1>5, <1>0, <2>3, <2>4, <2>5 DEF Guard, CallOut, Goto, reply
  <1>6. ASSUME Touch PROVE Written'
    <2>1. op \in Operations /\ op \in SessionProtectedOps
      BY <1>6 DEF Touch, Layers
    <2>2. 401 \in Responses[op]
      BY <2>1, ContractTable DEF Agrees
    <2>3. ASSUME Write(401, "auth") PROVE Written'
      BY <1>6, <2>1, <2>2, <2>3, DeclaredWrite DEF Touch
    <2> QED
      BY <1>6, <1>0, <2>3 DEF Touch, Goto, reply
  <1>7. ASSUME EnterStored PROVE Written'
    BY <1>7, <1>0 DEF EnterStored, CallOut, Goto, reply
  <1>8. ASSUME Work PROVE Written'
    <2>1. op \in Operations /\ op \in DOMAIN Answers
      BY <1>8 DEF Work, Layers
    <2>2. PICK c \in Answers[op] \cup {500} : Write(c, "handler")
      BY <1>8 DEF Work
    <2>3. MayAnswer(op, Answers[op]) /\ Answers[op] \subseteq Responses[op]
      BY <2>1, AnswersTable, ContractTable DEF Agrees
    <2>4. c \in Nat \ {0} /\ c \notin 100..199
      BY <2>2, <2>3 DEF MayAnswer
    <2> QED
      BY <1>8, <2>1, <2>2, <2>3, <2>4, DeclaredWrite DEF Work
  <1>9. ASSUME EnterPlain PROVE Written'
    <2>1. op \in Operations /\ op \in PlainOps
      BY <1>9, NoneIsNoOperation DEF EnterPlain, Layers, PlainOps
    <2>2. 200 \in Responses[op]
      BY <2>1, ContractTable DEF Agrees
    <2> QED
      BY <1>9, <2>1, <2>2, DeclaredWrite DEF EnterPlain
  <1>10. ASSUME EnterEcho PROVE Written'
    <2>1. op \in Operations /\ op \in EchoBodyOps
      BY <1>10 DEF EnterEcho, Layers
    <2>2. 200 \in Responses[op] /\ 413 \in Responses[op]
      BY <2>1, ContractTable DEF Agrees
    <2> QED
      BY <1>10, <2>1, <2>2, DeclaredWrite DEF EnterEcho
  <1>11. ASSUME EnterStatus PROVE Written'
    <2>1. op \in Operations /\ op = "GetStatus"
      BY <1>11 DEF EnterStatus, Layers
    <2>2. AnyStatus \in Responses[op]
      BY <2>1, ContractTable DEF Agrees
    <2> QED
      BY <1>11, <2>1, <2>2 DEF EnterStatus, Write, Written
  <1>12. ASSUME EnterDelay PROVE Written'
    <2>1. op \in Operations /\ op = "GetDelay"
      BY <1>12 DEF EnterDelay, Layers
    <2>2. 400 \in Responses[op]
      BY <2>1, ContractTable DEF Agrees
    <2>3. ASSUME Write(400, "handler") PROVE Written'
      BY <1>12, <2>1, <2>2, <2>3, DeclaredWrite DEF EnterDelay
    <2> QED
      BY <1>12, <1>0, <2>3 DEF EnterDelay, Goto, reply
  <1>13. ASSUME Wake PROVE Written'
    <2>1. op \in Operations /\ op = "GetDelay"
      BY <1>13 DEF Wake, Layers
    <2>2. 200 \in Responses[op]
      BY <2>1, ContractTable DEF Agrees
    <2>3. ASSUME NEW c \in {200, 500}, Write(c, "handler") PROVE Written'
      BY <1>13, <2>1, <2>2, <2>3, DeclaredWrite DEF Wake
    <2> QED
      BY <1>13, <2>3 DEF Wake
  <1>14. ASSUME EnterProbe PROVE Written'
    BY <1>14, <1>0 DEF EnterProbe, Goto, reply, input
  <1>15. ASSUME StartCheck PROVE Written'
    BY <1>15, <1>0 DEF StartCheck, Goto, reply
  <1>16. ASSUME Ping PROVE Written'
    BY <1>16, <1>0 DEF Ping, Goto, reply
  <1>17. ASSUME AnswerProbe PROVE Written'
    <2>1. op \in Operations /\ op \in ProbeOps
      BY <1>17, KindsApart DEF AnswerProbe, Layers
    <2>2. 200 \in Responses[op] /\ 503 \in Responses[op]
      BY <2>1, ContractTable DEF Agrees
    <2>3. ASSUME NEW c \in {200, 503}, Write(c, "handler") PROVE Written'
      BY <1>17, <2>1, <2>2, <2>3, DeclaredWrite DEF AnswerProbe
    <2> QED
      BY <1>17, <2>3 DEF AnswerProbe
  <1>18. ASSUME Unwind PROVE Written'
    <2>1. code = 0 => op \in Operations /\ op = "GetStatus" /\ by = "handler"
      BY <1>18 DEF Unwind, Written
    <2>2. code = 0 => AnyStatus \in Responses[op]
      BY <2>1, ContractTable DEF Agrees
    <2>3. code' = code \/ (code = 0 /\ code' # 0)
      BY <1>18 DEF Unwind
    <2> QED
      BY <1>18, <2>1, <2>2, <2>3 DEF Unwind, Written
  <1>19. ASSUME Tick PROVE Written'
    BY <1>19 DEF Tick, Written, input, reply
  <1>20. ASSUME ClientLeaves PROVE Written'
    BY <1>20 DEF ClientLeaves, Written, input, reply
  <1>21. ASSUME DependencyChanges PROVE Written'
    BY <1>21 DEF DependencyChanges, Written, input, reply
  <1>22. ASSUME UNCHANGED vars PROVE Written'
    BY <1>22 DEF vars, Written
  <1> QED
    BY <1>1, <1>2, <1>3, <1>4, <1>5, <1>6, <1>7, <1>8, <1>9, <1>10, <1>11, <1>12, <1>13, <1>14,
       <1>15, <1>16, <1>17, <1>18, <1>19, <1>20, <1>21, <1>22, <1>23, Zenon DEF Next, Step, Done

-----------------------------------------------------------------------------
(* The probes.                                                             *)

\* The probes keep track of what they saw.
LEMMA ProbedStep == Types /\ Layers /\ Written /\ Probed /\ [Next]_vars => Probed'
  <1> SUFFICES ASSUME Types, Layers, Written, Probed, [Next]_vars PROVE Probed'
    OBVIOUS
  <1> USE DEF Aside
  <1>0. ASSUME stage' \notin {"checks", "ping", "unwind", "done"} PROVE Probed'
    BY <1>0 DEF Probed
  <1>00. ASSUME NEW c, NEW layer, Write(c, layer), op' \notin ProbeOps \/ c \notin {200, 503}
         PROVE  Probed'
    BY <1>00 DEF Write, Probed
  <1>1. ASSUME Route PROVE Probed'
    <2>1. op = "none" /\ "none" \notin ProbeOps
      BY <1>1, KindsApart DEF Route, Layers
    <2>2. stage' = "bind" \/ (op' = op /\ \E c, layer : Write(c, layer))
      BY <1>1, RouteOrWrite
    <2> QED
      BY <1>0, <1>00, <2>1, <2>2
  <1>2. ASSUME Bind PROVE Probed'
    BY <1>2, <1>0, <1>00 DEF Bind, Goto
  <1>3. ASSUME ReadBody PROVE Probed'
    BY <1>3, <1>0, <1>00 DEF ReadBody, Goto
  <1>4. ASSUME LoadSession PROVE Probed'
    BY <1>4, <1>0, <1>00 DEF LoadSession, CallOut, Goto
  <1>23. ASSUME SessionLoaded PROVE Probed'
    BY <1>23, <1>0, <1>00 DEF SessionLoaded, Goto
  <1>5. ASSUME Guard PROVE Probed'
    BY <1>5, <1>0, <1>00 DEF Guard, CallOut, Goto
  <1>6. ASSUME Touch PROVE Probed'
    BY <1>6, <1>0, <1>00 DEF Touch, Goto
  <1>7. ASSUME EnterStored PROVE Probed'
    BY <1>7, <1>0 DEF EnterStored, CallOut, Goto
  <1>8. ASSUME Work PROVE Probed'
    <2>1. op' \notin ProbeOps
      BY <1>8, KindsApart DEF Work, Layers
    <2> QED
      BY <1>8, <1>00, <2>1 DEF Work
  <1>9. ASSUME EnterPlain PROVE Probed'
    <2>1. op' \notin ProbeOps
      BY <1>9, KindsApart DEF EnterPlain, PlainOps
    <2> QED
      BY <1>9, <1>00, <2>1 DEF EnterPlain
  <1>10. ASSUME EnterEcho PROVE Probed'
    <2>1. op' \notin ProbeOps
      BY <1>10, KindsApart DEF EnterEcho
    <2> QED
      BY <1>10, <1>00, <2>1 DEF EnterEcho
  <1>11. ASSUME EnterStatus PROVE Probed'
    <2>1. op' \notin ProbeOps
      BY <1>11, KindsApart DEF EnterStatus
    <2> QED
      BY <1>11, <1>00, <2>1 DEF EnterStatus
  <1>12. ASSUME EnterDelay PROVE Probed'
    BY <1>12, <1>0, <1>00 DEF EnterDelay, Goto
  <1>13. ASSUME Wake PROVE Probed'
    <2>1. op' \notin ProbeOps
      BY <1>13, KindsApart DEF Wake, Layers
    <2> QED
      BY <1>13, <1>00, <2>1 DEF Wake
  <1>14. ASSUME EnterProbe PROVE Probed'
    BY <1>14 DEF EnterProbe, Goto, Probed, Types
  <1>15. ASSUME StartCheck PROVE Probed'
    <2>1. PICK c \in todo : /\ cur' = c /\ todo' = todo \ {c}
                            /\ failed' = IF Expired THEN failed \cup {c} ELSE failed
      BY <1>15 DEF StartCheck
    <2>2. now >= wake' => Expired
      BY <1>15, PingDeadlineIs, GatewayAssumption DEF StartCheck, Expired, Types
    <2>3. /\ UNCHANGED <<dep, seenUp, seenBad, now, gone, rt>> /\ stage = "checks"
          /\ stage' = IF Expired THEN "checks" ELSE "ping"
      BY <1>15 DEF StartCheck, Goto
    <2>4. Expired' = Expired
      BY <2>3 DEF Expired
    <2>5. CASE Expired
      BY <2>1, <2>3, <2>4, <2>5 DEF Probed
    <2>6. CASE ~Expired
      BY <2>1, <2>2, <2>3, <2>4, <2>6 DEF Probed
    <2> QED
      BY <2>5, <2>6
  <1>16. ASSUME Ping PROVE Probed'
    <2>1. /\ UNCHANGED <<dep, seenUp, seenBad, now, gone, rt, todo, cur>>
          /\ stage = "ping" /\ stage' = "checks" /\ cur \in Checks
      BY <1>16 DEF Ping, Goto, Types
    <2>2. Expired' = Expired
      BY <2>1 DEF Expired
    <2>3. CASE failed' = failed /\ dep[cur] = "up"
      BY <2>1, <2>2, <2>3 DEF Probed
    <2>4. CASE failed' = failed \cup {cur} /\ (dep[cur] = "down" \/ now >= wake \/ gone)
      <3>1. seenBad # {} \/ Expired
        BY <2>1, <2>4 DEF Probed, Expired
      <3> QED
        BY <2>1, <2>2, <2>4, <3>1 DEF Probed
    <2> QED
      BY <1>16, <2>3, <2>4 DEF Ping, Checked
  <1>17. ASSUME AnswerProbe PROVE Probed'
    <2>1. /\ UNCHANGED <<dep, seenUp, seenBad, now, gone, rt>>
          /\ stage = "checks" /\ stage' = "unwind" /\ todo = {}
          /\ code' = IF failed = {} THEN 200 ELSE 503
      BY <1>17 DEF AnswerProbe, Write
    <2>2. Expired' = Expired
      BY <2>1 DEF Expired
    <2>3. failed = {} => seenUp = Checks
      BY <2>1 DEF Probed, Types
    <2> QED
      BY <2>1, <2>2, <2>3 DEF Probed
  <1>18. ASSUME Unwind PROVE Probed'
    <2>1. /\ UNCHANGED <<op, dep, seenUp, seenBad, now, gone, rt>>
          /\ stage = "unwind" /\ stage' = "done"
          /\ code # 0 => code' = code
      BY <1>18 DEF Unwind
    <2>2. Expired' = Expired
      BY <2>1 DEF Expired
    <2>3. code = 0 => op \notin ProbeOps
      BY <2>1, KindsApart DEF Written
    <2> QED
      BY <2>1, <2>2, <2>3 DEF Probed
  <1>19. ASSUME Tick PROVE Probed'
    <2>1. UNCHANGED <<op, stage, code, dep, seenUp, seenBad, gone, rt, todo, cur, failed>>
      BY <1>19 DEF Tick, input, local, world, reply
    <2>2. Expired => Expired'
      BY <1>19, <2>1, GatewayAssumption DEF Tick, Expired, Types
    <2>3. stage \notin {"unwind", "done", "checks"} /\ (stage = "ping" => dep[cur] = "hung")
      BY <1>19 DEF Tick, Reading
    <2>4. stage = "ping" => seenBad # {}
      BY <2>3 DEF Probed, Types
    <2> QED
      BY <2>1, <2>2, <2>3, <2>4 DEF Probed
  <1>20. ASSUME ClientLeaves PROVE Probed'
    <2>1. /\ UNCHANGED <<op, stage, code, dep, seenUp, seenBad, rt, now, todo, cur, failed, wake>>
          /\ gone'
      BY <1>20 DEF ClientLeaves, input, local, world, reply
    <2>2. Expired'
      BY <2>1 DEF Expired
    <2> QED
      BY <2>1, <2>2 DEF Probed
  <1>21. ASSUME DependencyChanges PROVE Probed'
    <2>1. /\ UNCHANGED <<op, stage, code, gone, rt, now, todo, cur, failed, wake>>
          /\ stage \in {"handle", "checks", "ping"}
      BY <1>21 DEF DependencyChanges, input, local, reply
    <2>2. Expired' = Expired
      BY <2>1 DEF Expired
    <2>3. PICK c \in Checks, s \in {"up", "down", "hung"} :
            /\ dep' = [dep EXCEPT ![c] = s]
            /\ seenUp' = IF s = "up" THEN seenUp \cup {c} ELSE seenUp
            /\ seenBad' = IF s = "up" THEN seenBad ELSE seenBad \cup {c}
      BY <1>21 DEF DependencyChanges
    <2> QED
      BY <2>1, <2>2, <2>3 DEF Probed, Types
  <1>22. ASSUME UNCHANGED vars PROVE Probed'
    BY <1>22 DEF vars, Probed, Expired
  <1> QED
    BY <1>1, <1>2, <1>3, <1>4, <1>5, <1>6, <1>7, <1>8, <1>9, <1>10, <1>11, <1>12, <1>13, <1>14,
       <1>15, <1>16, <1>17, <1>18, <1>19, <1>20, <1>21, <1>22, <1>23, Zenon DEF Next, Step, Done

-----------------------------------------------------------------------------
(* The clock.                                                              *)

\* The clock keeps within the deadlines.
LEMMA ClockedStep == Types /\ Layers /\ Clocked /\ [Next]_vars => Clocked'
  <1> SUFFICES ASSUME Types, Layers, Clocked, [Next]_vars PROVE Clocked'
    OBVIOUS
  <1> USE DEF Aside
  <1>0. ASSUME UNCHANGED <<op, rt, now>>, stage' \in {"guard", "checks", "unwind", "done"},
               op = "none" => now = 0
        PROVE  Clocked'
    BY <1>0 DEF Clocked, Limits
  <1>00. ASSUME UNCHANGED <<op, rt, now>>, stage' \in {"body", "session", "handle"},
                op \in ProbeOps \cup {"GetDelay"} => now = 0,
                (stage' = "handle" /\ op \in SessionProtectedOps) \/ now <= Limits
         PROVE  Clocked'
    BY <1>00 DEF Clocked, Limits
  <1>01. ASSUME UNCHANGED <<op, rt, now>>, stage' \in {"load", "touch", "work"}, op # "none",
                wake' <= Limits + Overrun
         PROVE  Clocked'
    BY <1>01 DEF Clocked, Limits
  <1>02. /\ rt \in Nat /\ now \in Nat /\ ReadTimeout \in Nat /\ Overrun \in Nat
         /\ Limits \in Nat /\ rt <= Limits
    BY LimitsAre, GatewayAssumption DEF Types, Limits
  <1>03. ASSUME NEW st, CallOut(st), now <= Limits PROVE wake' <= Limits + Overrun
    BY <1>02, <1>03, CallOutIs
  <1>04. ~Expired => now <= Limits
    BY <1>02 DEF Expired
  <1>000. op = "none" => now = 0
    BY DEF Clocked
  <1>001. op \in SessionProtectedOps => op \notin ProbeOps \cup {"GetDelay"}
    BY KindsApart
  <1>1. ASSUME Route PROVE Clocked'
    <2>1. op = "none" /\ now = 0 /\ now' = now /\ rt' = rt
      BY <1>1 DEF Route, Layers, Clocked
    <2>2. (stage' = "unwind" /\ op' = op) \/ stage' = "bind"
      BY <1>1, RouteOrWrite
    <2>3. Max({ReadTimeout, rt}) \in Nat /\ rt \in Nat /\ Overrun \in Nat
      BY LimitsAre, GatewayAssumption DEF Types
    <2>4. PICK m \in Nat : Limits' = m
      BY <2>1, <2>3 DEF Limits
    <2>5. now' <= Limits' /\ now' <= Limits' + Overrun /\ now' <= rt'
      <3>1. now' = 0 /\ 0 <= m /\ 0 <= m + Overrun /\ 0 <= rt
        BY <2>1, <2>3
      <3> QED
        BY <2>1, <2>4, <3>1
    <2>6. op' = "none" \/ stage' = "bind" => now' = 0
      BY <2>1
    <2> QED
      BY <2>1, <2>2, <2>5, <2>6 DEF Clocked
  <1>2. ASSUME Bind PROVE Clocked'
    <2>1. now = 0 /\ now <= Limits
      BY <1>2 DEF Bind, Clocked
    <2> QED
      BY <1>2, <2>1, <1>0, <1>00 DEF Bind, Goto, Write
  <1>3. ASSUME ReadBody PROVE Clocked'
    <2>1. (op \in ProbeOps \cup {"GetDelay"} => now = 0) /\ now <= Limits
      BY <1>3 DEF ReadBody, Clocked
    <2> QED
      BY <1>3, <2>1, <1>0, <1>00, <1>000 DEF ReadBody, Goto, Write
  <1>4. ASSUME LoadSession PROVE Clocked'
    <2>1. /\ op \in ProbeOps \cup {"GetDelay"} => now = 0
          /\ now <= Limits /\ op # "none" /\ UNCHANGED <<op, rt, now>>
      BY <1>4 DEF LoadSession, Clocked, Layers
    <2>2. CASE Goto("handle")
      BY <2>1, <2>2, <1>00 DEF Goto
    <2>3. CASE Write(401, "auth")
      BY <2>1, <2>3, <1>0 DEF Write
    <2>4. CASE CallOut("load")
      BY <2>1, <2>4, <1>01, <1>03 DEF CallOut, Goto
    <2> QED
      BY <1>4, <2>2, <2>3, <2>4 DEF LoadSession
  <1>23. ASSUME SessionLoaded PROVE Clocked'
    BY <1>23, <1>0, <1>000 DEF SessionLoaded, Goto, Write
  <1>5. ASSUME Guard PROVE Clocked'
    <2>1. op # "none" /\ UNCHANGED <<op, rt, now>>
      BY <1>5 DEF Guard, Layers
    <2>2. CASE \E c : Write(c, "auth")
      BY <2>1, <2>2, <1>0 DEF Write
    <2>3. CASE ~Expired /\ CallOut("touch")
      BY <2>1, <2>3, <1>01, <1>03, <1>04 DEF CallOut, Goto
    <2> QED
      BY <1>5, <2>2, <2>3 DEF Guard
  <1>6. ASSUME Touch PROVE Clocked'
    <2>1. op \notin ProbeOps \cup {"GetDelay"} /\ op \in SessionProtectedOps
      BY <1>6, <1>001 DEF Touch, Layers
    <2> QED
      BY <1>6, <2>1, <1>0, <1>00, <1>000 DEF Touch, Goto, Write
  <1>7. ASSUME EnterStored PROVE Clocked'
    <2>1. op # "none" /\ UNCHANGED <<op, rt, now>> /\ stage' = "work"
      BY <1>7 DEF EnterStored, Layers, CallOut, Goto
    <2>2. CASE CallOut("work") /\ (~Expired \/ op \in HashesFirst)
      <3>1. op \in HashesFirst => op \notin SessionProtectedOps
        BY DEF HashesFirst, SessionProtectedOps
      <3>2. now <= Limits
        BY <1>7, <2>2, <3>1, <1>04 DEF EnterStored, Clocked
      <3> QED
        BY <2>1, <2>2, <3>2, <1>01, <1>03
    <2>3. CASE wake' = now
      <3>1. now <= Limits + Overrun
        BY DEF Clocked
      <3> QED
        BY <2>1, <2>3, <3>1, <1>01
    <2> QED
      BY <1>7, <2>2, <2>3 DEF EnterStored
  <1>8. ASSUME Work PROVE Clocked'
    BY <1>8, <1>0, <1>000 DEF Work, Write
  <1>9. ASSUME EnterPlain PROVE Clocked'
    BY <1>9, <1>0, <1>000 DEF EnterPlain, Write
  <1>10. ASSUME EnterEcho PROVE Clocked'
    BY <1>10, <1>0, <1>000 DEF EnterEcho, Write
  <1>11. ASSUME EnterStatus PROVE Clocked'
    BY <1>11, <1>0, <1>000 DEF EnterStatus, Write
  <1>12. ASSUME EnterDelay PROVE Clocked'
    <2>0. req.arg \in Int
      BY ArgIsInt DEF Types
    <2>1. CASE req.arg >= 0
      <3>1. PICK d \in ClampDelay(req.arg) : wake' = now + d /\ stage' = "sleep"
        BY <1>12, <2>0, <2>1 DEF EnterDelay, Goto
      <3>2. now = 0 /\ UNCHANGED <<op, rt, now, req>>
        BY <1>12 DEF EnterDelay, Clocked
      <3>3. wake' = d /\ (d = Min({req.arg, MaxDelay}) \/ (req.arg = Huge /\ d < 0))
        <4>1. d \in Int /\ (d = Min({req.arg, MaxDelay}) \/ (req.arg = Huge /\ d < 0))
          BY <2>0, <3>1, ClampBounds
        <4> QED
          BY <3>1, <3>2, <4>1
      <3>4. Limits' = Limits /\ now <= Limits + Overrun
        BY <3>2 DEF Clocked, Limits
      <3>5. now' = 0 /\ now' <= rt' /\ req'.arg >= 0 /\ op' # "none"
        BY <1>12, <1>02, <2>1, <3>2 DEF EnterDelay
      <3>6. wake' = Min({req'.arg, MaxDelay}) \/ (req'.arg = Huge /\ wake' < 0)
        BY <3>2, <3>3
      <3> QED
        BY <3>1, <3>2, <3>4, <3>5, <3>6 DEF Clocked
    <2>2. CASE req.arg < 0
      BY <1>12, <1>0, <1>000, <2>0, <2>2 DEF EnterDelay, Write
    <2> QED
      BY <2>0, <2>1, <2>2
  <1>13. ASSUME Wake PROVE Clocked'
    BY <1>13, <1>0, <1>000 DEF Wake, Write
  <1>14. ASSUME EnterProbe PROVE Clocked'
    BY <1>14, <1>0, <1>000 DEF EnterProbe, Goto, input
  <1>15. ASSUME StartCheck PROVE Clocked'
    <2>1. UNCHANGED <<op, rt, now>> /\ op # "none" /\ op # "GetDelay"
      BY <1>15, KindsApart DEF StartCheck, Layers
    <2>2. wake' <= Limits
      BY <1>15, <1>02, PingDeadlineIs DEF StartCheck
    <2>3. Limits' = Limits /\ now <= Limits + Overrun
      BY <2>1 DEF Clocked, Limits
    <2>4. stage' \in {"checks", "ping"}
      BY <1>15 DEF StartCheck, Goto
    <2> QED
      BY <2>1, <2>2, <2>3, <2>4 DEF Clocked
  <1>16. ASSUME Ping PROVE Clocked'
    BY <1>16, <1>0, <1>000 DEF Ping, Goto
  <1>17. ASSUME AnswerProbe PROVE Clocked'
    BY <1>17, <1>0, <1>000 DEF AnswerProbe, Write
  <1>18. ASSUME Unwind PROVE Clocked'
    BY <1>18, <1>0, <1>000 DEF Unwind
  <1>19. ASSUME Tick PROVE Clocked'
    <2>1. UNCHANGED <<op, rt, stage, req, wake>> /\ now' = now + 1 /\ Limits' = Limits
      BY <1>19 DEF Tick, input, local, Limits
    <2>2. stage \in {"body", "load", "touch", "work", "sleep", "ping"} /\ op # "none"
      BY <1>19 DEF Tick, Reading, Layers
    <2>3. stage = "body" => Reading /\ now < ReadTimeout
      BY <1>19 DEF Tick, Reading
    <2>4. stage = "sleep" => now < rt /\ now < wake
      BY <1>19, <1>02 DEF Tick, Reading, Expired
    <2>5. /\ stage \in {"load", "touch", "work"} => now < wake
          /\ stage = "ping" => now < wake + Overrun
      BY <1>19 DEF Tick, Reading
    <2>6. stage = "body" => now' <= Limits
      <3>1. ReadTimeout <= Max({ReadTimeout, rt}) /\ Max({ReadTimeout, rt}) \in Nat
        BY LimitsAre, GatewayAssumption DEF Types
      <3> QED
        BY <1>02, <2>1, <2>2, <2>3, <3>1 DEF Limits, Reading
    <2>7. wake \in Int
      BY DEF Types
    <2>8. now' <= Limits + Overrun
      <3>1. CASE stage = "body"
        BY <1>02, <2>1, <2>6, <3>1
      <3>2. CASE stage \in {"load", "touch", "work"}
        BY <1>02, <2>1, <2>5, <2>7, <3>2 DEF Clocked
      <3>3. CASE stage = "ping"
        BY <1>02, <2>1, <2>5, <2>7, <3>3 DEF Clocked
      <3>4. CASE stage = "sleep"
        BY <1>02, <2>1, <2>4, <3>4
      <3> QED
        BY <2>2, <3>1, <3>2, <3>3, <3>4
    <2>9. op \in ProbeOps \cup {"GetDelay"} => stage \notin {"body", "load", "touch", "work"}
      BY <2>3, KindsApart, BodiesTable DEF Reading, Layers
    <2>10. op = "GetDelay" => now' <= rt
      BY <1>02, <2>1, <2>2, <2>4, <2>9, KindsApart DEF Layers
    <2>11. stage = "sleep" => now' <= wake
      BY <1>02, <2>1, <2>4, <2>7
    <2> QED
      BY <2>1, <2>2, <2>6, <2>8, <2>9, <2>10, <2>11 DEF Clocked
  <1>20. ASSUME ClientLeaves PROVE Clocked'
    BY <1>20 DEF ClientLeaves, Clocked, Limits, input, local
  <1>21. ASSUME DependencyChanges PROVE Clocked'
    BY <1>21 DEF DependencyChanges, Clocked, Limits, input, local
  <1>22. ASSUME UNCHANGED vars PROVE Clocked'
    BY <1>22 DEF vars, Clocked, Limits
  <1> QED
    BY <1>1, <1>2, <1>3, <1>4, <1>5, <1>6, <1>7, <1>8, <1>9, <1>10, <1>11, <1>12, <1>13, <1>14,
       <1>15, <1>16, <1>17, <1>18, <1>19, <1>20, <1>21, <1>22, <1>23, Zenon DEF Next, Step, Done

\* The clock keeps within the pings' timeouts.
LEMMA ProbeClockedStep ==
    Types /\ Layers /\ Clocked /\ ProbeClocked /\ [Next]_vars => ProbeClocked'
  <1> SUFFICES ASSUME Types, Layers, Clocked, ProbeClocked, [Next]_vars PROVE ProbeClocked'
    OBVIOUS
  <1> USE DEF Aside
  <1>a. /\ Cardinality(Checks) \in Nat /\ Cardinality(todo) \in Nat /\ IsFiniteSet(todo)
        /\ Pings \in Nat /\ Budget(Cardinality(Checks)) \in Nat
    <2>1. todo \in SUBSET Checks
      BY DEF Types
    <2>2. IsFiniteSet(todo) /\ Cardinality(todo) <= Cardinality(Checks)
      BY <2>1, FS_Subset, GatewayAssumption
    <2>3. Cardinality(Checks) \in Nat /\ Cardinality(todo) \in Nat
      BY <2>2, FS_CardinalityType, GatewayAssumption
    <2> QED
      BY <2>2, <2>3, BudgetAdds DEF Pings
  <1>b. ASSUME op' \notin ProbeOps \/ stage' \notin {"checks", "ping", "unwind", "done"}
        PROVE  ProbeClocked'
    BY <1>b DEF ProbeClocked
  <1>c. ASSUME now' = 0, stage' \notin {"checks", "ping"} PROVE ProbeClocked'
    BY <1>a, <1>c DEF ProbeClocked
  <1>d. op \in ProbeOps /\ stage \in {"bind", "body", "session", "handle"} => now = 0
    BY DEF Clocked
  <1>1. ASSUME Route PROVE ProbeClocked'
    <2>1. stage' = "bind" \/ (stage' = "unwind" /\ now' = 0)
      BY <1>1, RouteOrWrite DEF Route, Layers, Clocked
    <2> QED
      BY <2>1, <1>b, <1>c
  <1>2. ASSUME Bind PROVE ProbeClocked'
    BY <1>2, <1>b, <1>c, <1>d DEF Bind, Goto, Write
  <1>3. ASSUME ReadBody PROVE ProbeClocked'
    BY <1>3, <1>b, <1>c, <1>d DEF ReadBody, Goto, Write
  <1>4. ASSUME LoadSession PROVE ProbeClocked'
    BY <1>4, <1>b, <1>c, <1>d DEF LoadSession, CallOut, Goto, Write
  <1>23. ASSUME SessionLoaded PROVE ProbeClocked'
    BY <1>23, <1>b, KindsApart DEF SessionLoaded, Layers
  <1>5. ASSUME Guard PROVE ProbeClocked'
    BY <1>5, <1>b, KindsApart DEF Guard, Layers
  <1>6. ASSUME Touch PROVE ProbeClocked'
    BY <1>6, <1>b, KindsApart DEF Touch, Layers
  <1>7. ASSUME EnterStored PROVE ProbeClocked'
    BY <1>7, <1>b DEF EnterStored, CallOut, Goto
  <1>8. ASSUME Work PROVE ProbeClocked'
    BY <1>8, <1>b, KindsApart DEF Work, Layers
  <1>9. ASSUME EnterPlain PROVE ProbeClocked'
    BY <1>9, <1>b, KindsApart DEF EnterPlain, PlainOps
  <1>10. ASSUME EnterEcho PROVE ProbeClocked'
    BY <1>10, <1>b, KindsApart DEF EnterEcho
  <1>11. ASSUME EnterStatus PROVE ProbeClocked'
    BY <1>11, <1>b, KindsApart DEF EnterStatus
  <1>12. ASSUME EnterDelay PROVE ProbeClocked'
    BY <1>12, <1>b, KindsApart DEF EnterDelay
  <1>13. ASSUME Wake PROVE ProbeClocked'
    BY <1>13, <1>b, KindsApart DEF Wake, Layers
  <1>14. ASSUME EnterProbe PROVE ProbeClocked'
    <2>1. now' = 0 /\ todo' = Checks /\ stage' = "checks"
      BY <1>14, <1>d DEF EnterProbe, Goto
    <2>2. Pings' = 0
      BY <1>a, <2>1 DEF Pings
    <2> QED
      BY <2>1, <2>2, BudgetAdds DEF ProbeClocked
  <1>15. ASSUME StartCheck PROVE ProbeClocked'
    <2>1. PICK c \in todo : todo' = todo \ {c}
      BY <1>15 DEF StartCheck
    <2>2. Cardinality(todo') = Cardinality(todo) - 1
      BY <1>a, <2>1, FS_RemoveElement
    <2>3. Pings' = Pings + 1
      BY <1>a, <2>2 DEF Pings
    <2>4. /\ op \in ProbeOps /\ op' = op /\ now' = now /\ now <= Budget(Pings)
          /\ stage' = IF Expired THEN "checks" ELSE "ping"
      BY <1>15 DEF StartCheck, Goto, Layers, ProbeClocked
    <2>5. /\ wake' \in Nat /\ wake' <= now + PingTimeout
          /\ ~Expired => now <= wake'
      <3>1. now \in Nat /\ rt \in Nat /\ (~Expired => now < rt)
        BY GatewayAssumption DEF Types, Expired
      <3> QED
        BY <1>15, <3>1, PingDeadlineIs, GatewayAssumption DEF StartCheck
    <2>6. /\ Budget(Pings') = Budget(Pings) + PingTimeout + Overrun /\ Budget(Pings) \in Nat
          /\ PingTimeout \in Nat /\ Overrun \in Nat /\ now \in Nat
      BY <1>a, <2>3, BudgetAdds, GatewayAssumption DEF Types
    <2>7. /\ now' <= Budget(Pings') /\ wake' + Overrun <= Budget(Pings')
          /\ ~Expired => now' <= wake' + Overrun
      <3>1. PICK m \in Nat, n \in Nat : m = Budget(Pings) /\ n = Budget(Pings')
        BY <2>6, <1>a, <2>3, BudgetAdds
      <3>2. now' = now /\ PingTimeout \in Nat /\ Overrun \in Nat /\ now \in Nat
        BY <2>4, <2>6
      <3>3. n = m + PingTimeout + Overrun /\ now <= m
        BY <2>4, <2>6, <3>1, <3>2
      <3>4. PICK w \in Nat : wake' = w
        BY <2>5
      <3>5. w <= now + PingTimeout
        BY <2>5, <3>4
      <3>6. now <= n /\ w + Overrun <= n
        BY <3>2, <3>3, <3>5
      <3>7. ASSUME ~Expired PROVE now <= w + Overrun
        <4>1. now <= w
          BY <2>5, <3>4, <3>7, Zenon
        <4> QED
          BY <3>2, <4>1
      <3>8. n = Budget(Pings')
        BY <3>1
      <3> QED
        BY <3>2, <3>4, <3>6, <3>7, <3>8, Zenon
    <2> QED
      BY <2>4, <2>7 DEF ProbeClocked
  <1>16. ASSUME Ping PROVE ProbeClocked'
    <2>1. /\ op \in ProbeOps /\ UNCHANGED <<op, now, todo>>
          /\ stage = "ping" /\ stage' = "checks"
      BY <1>16 DEF Ping, Goto, Layers
    <2>2. now <= wake + Overrun /\ wake + Overrun <= Budget(Pings) /\ Pings' = Pings
      BY <2>1 DEF ProbeClocked, Pings
    <2>3. now <= Budget(Pings)
      <3>1. now \in Nat /\ wake + Overrun \in Int /\ Budget(Pings) \in Nat
        BY <1>a, BudgetAdds, GatewayAssumption DEF Types
      <3> QED
        BY <2>2, <3>1
    <2> QED
      BY <2>1, <2>2, <2>3 DEF ProbeClocked
  <1>17. ASSUME AnswerProbe PROVE ProbeClocked'
    <2>1. /\ op \in ProbeOps /\ UNCHANGED <<op, now>> /\ todo = {}
          /\ stage = "checks" /\ stage' = "unwind"
      BY <1>17 DEF AnswerProbe, Write, Layers
    <2>2. Pings = Cardinality(Checks)
      BY <1>a, <2>1, FS_EmptySet DEF Pings
    <2> QED
      BY <2>1, <2>2 DEF ProbeClocked
  <1>18. ASSUME Unwind PROVE ProbeClocked'
    BY <1>18 DEF Unwind, ProbeClocked
  <1>19. ASSUME Tick PROVE ProbeClocked'
    <2>1. UNCHANGED <<op, stage, wake, todo>> /\ now' = now + 1 /\ Pings' = Pings
      BY <1>19 DEF Tick, local, Pings
    <2>2. stage \in {"body", "load", "touch", "work", "sleep", "ping"}
      BY <1>19 DEF Tick, Reading
    <2>3. stage = "ping" => now' <= wake + Overrun
      BY <1>19, <2>1, GatewayAssumption DEF Tick, Reading, Types
    <2> QED
      BY <2>1, <2>2, <2>3 DEF ProbeClocked
  <1>20. ASSUME ClientLeaves PROVE ProbeClocked'
    BY <1>20 DEF ClientLeaves, ProbeClocked, Pings, local
  <1>21. ASSUME DependencyChanges PROVE ProbeClocked'
    BY <1>21 DEF DependencyChanges, ProbeClocked, Pings, local
  <1>22. ASSUME UNCHANGED vars PROVE ProbeClocked'
    BY <1>22 DEF vars, ProbeClocked, Pings
  <1> QED
    BY <1>1, <1>2, <1>3, <1>4, <1>5, <1>6, <1>7, <1>8, <1>9, <1>10, <1>11, <1>12, <1>13, <1>14,
       <1>15, <1>16, <1>17, <1>18, <1>19, <1>20, <1>21, <1>22, <1>23, Zenon DEF Next, Step, Done

\* A delay is answered when its time has come.
LEMMA DelayStep ==
    Types /\ Layers /\ Written /\ Clocked /\ DelayHonoured /\ [Next]_vars => DelayHonoured'
  <1> SUFFICES ASSUME Types, Layers, Written, Clocked, DelayHonoured, [Next]_vars
               PROVE  DelayHonoured'
    OBVIOUS
  <1> USE DEF Aside
  <1>a. ASSUME by' # "handler" \/ op' # "GetDelay" \/ code' # 200 PROVE DelayHonoured'
    BY <1>a DEF DelayHonoured
  <1>b. ASSUME stage \notin {"unwind", "done"}, UNCHANGED by PROVE DelayHonoured'
    BY <1>b, <1>a DEF Written
  <1>c. ASSUME NEW c, NEW layer, Write(c, layer),
               layer # "handler" \/ op' # "GetDelay" \/ c # 200
        PROVE  DelayHonoured'
    BY <1>a, <1>c DEF Write
  <1>1. ASSUME Route PROVE DelayHonoured'
    <2>1. UNCHANGED by \/ (op' = op /\ \E c, layer : Write(c, layer))
      BY <1>1, RouteOrWrite
    <2>2. op # "GetDelay"
      BY <1>1 DEF Route, Layers
    <2> QED
      BY <1>1, <1>b, <1>c, <2>1, <2>2 DEF Route
  <1>2. ASSUME Bind PROVE DelayHonoured'
    BY <1>2, <1>b, <1>c DEF Bind, Goto, reply
  <1>3. ASSUME ReadBody PROVE DelayHonoured'
    BY <1>3, <1>b, <1>c DEF ReadBody, Goto, reply
  <1>4. ASSUME LoadSession PROVE DelayHonoured'
    BY <1>4, <1>b, <1>c DEF LoadSession, CallOut, Goto, reply
  <1>23. ASSUME SessionLoaded PROVE DelayHonoured'
    BY <1>23, <1>b, <1>c DEF SessionLoaded, Goto, reply
  <1>5. ASSUME Guard PROVE DelayHonoured'
    BY <1>5, <1>b, <1>c DEF Guard, CallOut, Goto, reply
  <1>6. ASSUME Touch PROVE DelayHonoured'
    BY <1>6, <1>b, <1>c DEF Touch, Goto, reply
  <1>7. ASSUME EnterStored PROVE DelayHonoured'
    BY <1>7, <1>b DEF EnterStored, CallOut, Goto, reply
  <1>8. ASSUME Work PROVE DelayHonoured'
    BY <1>8, <1>c, KindsApart DEF Work, Layers
  <1>9. ASSUME EnterPlain PROVE DelayHonoured'
    BY <1>9, <1>c, KindsApart DEF EnterPlain, PlainOps
  <1>10. ASSUME EnterEcho PROVE DelayHonoured'
    BY <1>10, <1>c, KindsApart DEF EnterEcho
  <1>11. ASSUME EnterStatus PROVE DelayHonoured'
    BY <1>11, <1>c DEF EnterStatus
  <1>12. ASSUME EnterDelay PROVE DelayHonoured'
    BY <1>12, <1>b, <1>c DEF EnterDelay, Goto, reply
  <1>13. ASSUME Wake PROVE DelayHonoured'
    <2>1. CASE now >= wake /\ Write(200, "handler")
      <3>1. /\ stage = "sleep" /\ UNCHANGED <<now, req>> /\ req.arg \in Int
            /\ now \in Nat /\ wake \in Int /\ MaxDelay \in Nat
        BY <1>13, ArgIsInt, GatewayAssumption DEF Wake, Types
      <3>2. /\ req.arg >= 0 /\ (now <= wake \/ now = 0)
            /\ wake = Min({req.arg, MaxDelay}) \/ (req.arg = Huge /\ wake < 0)
        BY <3>1 DEF Clocked
      <3>3. Min({req.arg, MaxDelay}) = IF req.arg <= MaxDelay THEN req.arg ELSE MaxDelay
        BY <3>1, MinOfTwo
      <3>4. now = Min({req.arg, MaxDelay}) \/ (req.arg = Huge /\ now = 0)
        BY <2>1, <3>1, <3>2, <3>3
      <3> QED
        BY <3>1, <3>4 DEF DelayHonoured
    <2>2. CASE Write(500, "handler")
      BY <1>c, <2>2
    <2> QED
      BY <1>13, <2>1, <2>2 DEF Wake
  <1>14. ASSUME EnterProbe PROVE DelayHonoured'
    BY <1>14, <1>b DEF EnterProbe, Goto, reply
  <1>15. ASSUME StartCheck PROVE DelayHonoured'
    BY <1>15, <1>b DEF StartCheck, Goto, reply
  <1>16. ASSUME Ping PROVE DelayHonoured'
    BY <1>16, <1>b DEF Ping, Goto, reply
  <1>17. ASSUME AnswerProbe PROVE DelayHonoured'
    BY <1>17, <1>c, KindsApart DEF AnswerProbe, Layers
  <1>18. ASSUME Unwind PROVE DelayHonoured'
    <2>1. code = 0 => op # "GetDelay"
      BY <1>18 DEF Unwind, Written
    <2>2. UNCHANGED <<op, by, now, req>> /\ (code # 0 => code' = code)
      BY <1>18 DEF Unwind, local
    <2> QED
      BY <1>a, <2>1, <2>2 DEF DelayHonoured
  <1>19. ASSUME Tick PROVE DelayHonoured'
    BY <1>19, <1>b DEF Tick, Reading, reply
  <1>20. ASSUME ClientLeaves PROVE DelayHonoured'
    BY <1>20 DEF ClientLeaves, DelayHonoured, input, reply
  <1>21. ASSUME DependencyChanges PROVE DelayHonoured'
    BY <1>21 DEF DependencyChanges, DelayHonoured, input, reply
  <1>22. ASSUME UNCHANGED vars PROVE DelayHonoured'
    BY <1>22 DEF vars, DelayHonoured
  <1> QED
    BY <1>1, <1>2, <1>3, <1>4, <1>5, <1>6, <1>7, <1>8, <1>9, <1>10, <1>11, <1>12, <1>13, <1>14,
       <1>15, <1>16, <1>17, <1>18, <1>19, <1>20, <1>21, <1>22, <1>23, Zenon DEF Next, Step, Done

-----------------------------------------------------------------------------
(* The theorems.                                                           *)

IInv == Types /\ Layers /\ Written /\ Probed /\ Clocked /\ ProbeClocked /\ DelayHonoured

\* The inductive invariant holds throughout.
LEMMA Invariant == Spec => []IInv
  <1>1. Init => IInv
    <2> SUFFICES ASSUME Init PROVE IInv
      OBVIOUS
    <2>1. Types
      <3>1. gone \in BOOLEAN /\ ran \in BOOLEAN
        BY DEF Init
      <3>2. dep \in [Checks -> {"up", "down", "hung"}]
        BY DEF Init
      <3>3. now \in Nat /\ wake \in Int
        BY DEF Init
      <3>4. todo \subseteq Checks /\ failed \subseteq Checks /\ seenUp \subseteq Checks
            /\ seenBad \subseteq Checks /\ stage # "ping" /\ stage \in Stages
        BY DEF Init, Stages
      <3> QED
        BY <3>1, <3>2, <3>3, <3>4, Zenon DEF Init, Types
    <2>2. Layers
      BY DEF Init, Layers
    <2>3. Written
      BY DEF Init, Written
    <2>4. Probed
      BY DEF Init, Probed
    <2>5. Clocked
      <3>1. rt \in Nat /\ Overrun \in Nat
        BY <2>1, GatewayAssumption DEF Types
      <3> QED
        BY <3>1 DEF Init, Clocked, Limits
    <2>6. ProbeClocked
      BY KindsApart DEF Init, ProbeClocked
    <2>7. DelayHonoured
      BY DEF Init, DelayHonoured
    <2> QED
      BY <2>1, <2>2, <2>3, <2>4, <2>5, <2>6, <2>7, Zenon DEF IInv
  <1>2. IInv /\ [Next]_vars => IInv'
    BY TypesStep, LayersStep, WrittenStep, ProbedStep, ClockedStep, ProbeClockedStep,
       DelayStep, Zenon DEF IInv
  <1> QED
    BY <1>1, <1>2, PTL DEF Spec

\* No handler of the API runs without what its contract demands, for any request
\* and any failure on the way: a session where it declares a 401, the CSRF token
\* where it declares a 403 and its method is unsafe, an admin below /admin.
THEOREM GuardedAsDeclared == Spec => []ContractEnforced
  <1>1. IInv => ContractEnforced
    <2> SUFFICES ASSUME IInv, ran PROVE ContractEnforced
      BY DEF ContractEnforced
    <2>1. op \in Operations /\ Cleared
      BY DEF IInv, Layers
    <2>2. Agrees(op, Responses[op])
      BY <2>1, ContractTable
    <2>3. op \in AdminListOps \cup AdminUserOps => op \in RoleProtectedOps
      BY KindsApart
    <2>4. op \in RoleProtectedOps => op \in SessionProtectedOps
      BY KindsApart
    <2> QED
      BY <2>1, <2>2, <2>3, <2>4 DEF ContractEnforced, Cleared, Agrees
  <1> QED
    BY <1>1, Invariant, PTL

\* What the session middleware and the handlers answer is declared in the
\* contract, but for the 500 of an error, and the console's page is never the
\* answer to a request for the API.
THEOREM AnswersAsDeclared == Spec => []AnswerOnContract
  <1>1. IInv => AnswerOnContract
    BY DEF IInv, Written, AnswerOnContract, AnyStatus
  <1> QED
    BY <1>1, Invariant, PTL

\* GetReadyz and GetStartupz tell the truth, for any set of dependencies that
\* come and go in any way while they are being pinged.
THEOREM ProbesTellTheTruth == Spec => []ProbesTruthful
  <1>1. IInv => ProbesTruthful
    BY DEF IInv, Probed, ProbesTruthful
  <1> QED
    BY <1>1, Invariant, PTL

\* Every request is within its deadlines and one overrun, for any values of the
\* timeouts, a probe within the timeouts and overruns of its pings, and a delay
\* within the request timeout to the tick.
THEOREM WithinDeadlines == Spec => []AnswersInTime
  <1>1. IInv => AnswersInTime
    <2> SUFFICES ASSUME IInv PROVE AnswersInTime
      OBVIOUS
    <2>1. now <= Overrun + Limits
      <3>1. Limits \in Nat /\ Overrun \in Nat
        BY LimitsAre, GatewayAssumption DEF IInv, Types, Limits
      <3> QED
        BY <3>1 DEF IInv, Clocked
    <2>2. ASSUME op \in ProbeOps PROVE now <= Budget(Cardinality(Checks))
      <3> DEFINE N == Cardinality(Checks)
                 T == Cardinality(todo)
      <3>1. todo \in SUBSET Checks /\ now \in Nat /\ wake \in Int
        BY DEF IInv, Types
      <3>2. IsFiniteSet(todo) /\ T <= N
        BY <3>1, FS_Subset, GatewayAssumption
      <3>3. N \in Nat /\ T \in Nat /\ Pings \in Nat /\ Pings <= N
        BY <3>2, FS_CardinalityType, GatewayAssumption DEF Pings
      <3>4. Budget(Pings) \in Nat /\ Budget(N) \in Nat /\ Budget(Pings) <= Budget(N)
        <4> HIDE DEF N
        <4> QED
          BY <3>3, GatewayAssumption, BudgetMonotone
      <3>5. CASE stage \in {"checks", "ping", "unwind", "done"}
        <4>1. wake + Overrun \in Int
          BY <3>1, GatewayAssumption
        <4> QED
          BY <2>2, <3>1, <3>4, <3>5, <4>1 DEF IInv, ProbeClocked
      <3>6. CASE stage \notin {"checks", "ping", "unwind", "done"}
        <4>1. now = 0
          BY <2>2, <3>6, KindsApart DEF IInv, Types, Stages, Layers, Clocked
        <4> QED
          BY <4>1, <3>4
      <3> QED
        BY <3>5, <3>6
    <2>3. op = "GetDelay" => now <= rt
      BY DEF IInv, Clocked
    <2> QED
      BY <2>1, <2>2, <2>3, Zenon DEF AnswersInTime, Budget, Limits
  <1> QED
    BY <1>1, Invariant, PTL

\* GetDelay answers a 200 exactly when the delay it was asked for is over, or at
\* the cap, for any delays that fit a Duration; one that overflows is answered at
\* the cap or at once, as the architecture converts it.
THEOREM DelaysHonoured == Spec => []DelayHonoured
  <1>1. IInv => DelayHonoured
    BY DEF IInv
  <1> QED
    BY <1>1, Invariant, PTL
=============================================================================
