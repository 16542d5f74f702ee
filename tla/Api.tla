-------------------------------- MODULE Api ---------------------------------
(***************************************************************************)
(* The HTTP contract that oapi-codegen compiled into                       *)
(* internal/httpapi/openapi.gen.go, as tables over the operations: the     *)
(* route of each (HandlerWithOptions), the parameters its wrapper binds    *)
(* (ServerInterfaceWrapper), how its strict handler reads the body         *)
(* (strictHandler), and the status codes its response types can write      *)
(* (the Visit methods).  The groups follow the order of that file.         *)
(***************************************************************************)
EXTENDS Integers

-----------------------------------------------------------------------------
(* Routes, below the base path.                                            *)

Routes ==
    [GetAccounts                  |-> <<"GET", "/accounts">>,
     GetAdminAccounts             |-> <<"GET", "/admin/accounts">>,
     GetAdminTransfers            |-> <<"GET", "/admin/transfers">>,
     GetAdminUsers                |-> <<"GET", "/admin/users">>,
     PostAdminUserPasswordReset   |-> <<"POST", "/admin/users/{id}/password-reset">>,
     PostAdminUserUnlock          |-> <<"POST", "/admin/users/{id}/unlock">>,
     PostAuthLogin                |-> <<"POST", "/auth/login">>,
     PostAuthLogout               |-> <<"POST", "/auth/logout">>,
     GetAuthMe                    |-> <<"GET", "/auth/me">>,
     PostAuthPasswordChange       |-> <<"POST", "/auth/password/change">>,
     PostAuthPasswordReset        |-> <<"POST", "/auth/password/reset">>,
     PostAuthPasswordResetRequest |-> <<"POST", "/auth/password/reset-request">>,
     PostAuthRegister             |-> <<"POST", "/auth/register">>,
     GetDelay                     |-> <<"GET", "/delay/{seconds}">>,
     DeleteEcho                   |-> <<"DELETE", "/echo">>,
     GetEcho                      |-> <<"GET", "/echo">>,
     PatchEcho                    |-> <<"PATCH", "/echo">>,
     PostEcho                     |-> <<"POST", "/echo">>,
     PutEcho                      |-> <<"PUT", "/echo">>,
     GetHeaders                   |-> <<"GET", "/headers">>,
     GetIp                        |-> <<"GET", "/ip">>,
     GetLivez                     |-> <<"GET", "/livez">>,
     GetRatelimit                 |-> <<"GET", "/ratelimit">>,
     GetReadyz                    |-> <<"GET", "/readyz">>,
     GetScheme                    |-> <<"GET", "/scheme">>,
     GetStartupz                  |-> <<"GET", "/startupz">>,
     GetStatus                    |-> <<"GET", "/status/{code}">>,
     PostTransfer                 |-> <<"POST", "/transfer">>,
     GetUserAgent                 |-> <<"GET", "/user-agent">>,
     GetUuid                      |-> <<"GET", "/uuid">>,
     GetVersion                   |-> <<"GET", "/version">>]

Operations == DOMAIN Routes

\* Every operation of a group has the same entry.
All(ops, entry) == [o \in ops |-> entry]

\* Two tables side by side (what TLC calls @@, which the provers cannot expand).
Beside(f, g) == [x \in DOMAIN f \cup DOMAIN g |-> IF x \in DOMAIN f THEN f[x] ELSE g[x]]
f ++ g == Beside(f, g)

InspectOps == {"GetHeaders", "GetIp", "GetLivez", "GetRatelimit", "GetReadyz",
               "GetScheme", "GetStartupz"}
MetaOps == {"GetUserAgent", "GetUuid", "GetVersion"}
EchoBodyOps == {"DeleteEcho", "PatchEcho", "PostEcho", "PutEcho"}
AdminListOps == {"GetAdminAccounts", "GetAdminTransfers", "GetAdminUsers"}
AdminUserOps == {"PostAdminUserPasswordReset", "PostAdminUserUnlock"}

-----------------------------------------------------------------------------
(* Bound parameters: a path parameter must parse; of "csrf", the header    *)
(* X-CSRF-Token, there may be at most one value; a query parameter is      *)
(* optional and must parse.                                                *)

AccountBinds == All({"GetAccounts"}, {})
AdminBinds == All(AdminListOps, {}) ++ All(AdminUserOps, {"id", "csrf"})
AuthBinds ==
    All({"PostAuthLogout", "PostAuthPasswordChange"}, {"csrf"})
    ++ All({"PostAuthLogin", "GetAuthMe", "PostAuthPasswordReset",
            "PostAuthPasswordResetRequest", "PostAuthRegister"}, {})
DelayEchoBinds == [GetDelay |-> {"seconds"}, GetEcho |-> {}] ++ All(EchoBodyOps, {})
InspectBinds == All(InspectOps, {}) ++ [GetStatus |-> {"code"}]
TransferBinds == [PostTransfer |-> {"isolation", "holdMs", "csrf"}]
MetaBinds == All(MetaOps, {})

Binds == AccountBinds ++ AdminBinds ++ AuthBinds ++ DelayEchoBinds
         ++ InspectBinds ++ TransferBinds ++ MetaBinds

-----------------------------------------------------------------------------
(* Request bodies: "json" is decoded, "text" is read whole, "none" is left *)
(* unread.  Both happen before the strict middlewares run.                 *)

AccountBodies == All({"GetAccounts"}, "none")
AdminBodies == All(AdminListOps \cup AdminUserOps, "none")
SessionBodies ==
    [PostAuthLogin |-> "json", PostAuthLogout |-> "none", GetAuthMe |-> "none"]
PasswordBodies ==
    All({"PostAuthPasswordChange", "PostAuthPasswordReset",
         "PostAuthPasswordResetRequest", "PostAuthRegister"}, "json")
DelayBodies == [GetDelay |-> "none"]
EchoBodies == All(EchoBodyOps, "text") ++ [GetEcho |-> "none"]
InspectBodies == All(InspectOps, "none")
StatusTransferBodies == [GetStatus |-> "none", PostTransfer |-> "json"]
MetaBodies == All(MetaOps, "none")

Bodies == AccountBodies ++ AdminBodies ++ SessionBodies ++ PasswordBodies
          ++ DelayBodies ++ EchoBodies ++ InspectBodies ++ StatusTransferBodies
          ++ MetaBodies

-----------------------------------------------------------------------------
(* Declared responses: the status codes the generated response types write.*)

\* A response type that takes its status from the handler.
AnyStatus == 0

AccountResponses == [GetAccounts |-> {200, 401}]
AdminListResponses == All(AdminListOps, {200, 401, 403})
AdminUserResponses ==
    [PostAdminUserPasswordReset |-> {200, 401, 403, 404},
     PostAdminUserUnlock        |-> {204, 401, 403, 404}]
SessionResponses ==
    [PostAuthLogin  |-> {200, 400, 401, 423},
     PostAuthLogout |-> {204, 401, 403},
     GetAuthMe      |-> {200, 401}]
PasswordResponses ==
    [PostAuthPasswordChange       |-> {200, 400, 401, 403},
     PostAuthPasswordReset        |-> {200, 400, 410},
     PostAuthPasswordResetRequest |-> {200, 400}]
RegisterDelayResponses == [PostAuthRegister |-> {201, 400, 409}, GetDelay |-> {200, 400}]
EchoResponses == All(EchoBodyOps, {200, 413}) ++ [GetEcho |-> {200}]
InspectResponses ==
    All({"GetHeaders", "GetIp", "GetLivez"}, {200}) ++ [GetRatelimit |-> {200, 429}]
ProbeResponses ==
    All({"GetReadyz", "GetStartupz"}, {200, 503}) ++ [GetScheme |-> {200}]
StatusResponses == [GetStatus |-> {400, AnyStatus}]
TransferResponses == [PostTransfer |-> {200, 400, 401, 403, 404, 409}]
MetaResponses == All(MetaOps, {200})

Responses ==
    AccountResponses ++ AdminListResponses ++ AdminUserResponses
    ++ SessionResponses ++ PasswordResponses ++ RegisterDelayResponses
    ++ EchoResponses ++ InspectResponses ++ ProbeResponses ++ StatusResponses
    ++ TransferResponses ++ MetaResponses
=============================================================================
