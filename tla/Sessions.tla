------------------------------ MODULE Sessions ------------------------------
(***************************************************************************)
(* Sessions, password changes and password recovery: internal/auth/auth.go *)
(* and recovery.go as authMiddleware and the handlers of httpapi/auth.go   *)
(* and auth_password.go drive them, one Redis command or SQL statement at  *)
(* a time.  Requests interleave between any two of them, time passes       *)
(* between reading the clock and the command that uses it, and any command *)
(* may fail with or without having taken effect.                           *)
(*                                                                         *)
(* A request mints at most one session and one token, named after it.      *)
(***************************************************************************)
EXTENDS Integers, FiniteSets

CONSTANTS
    Requests,
    Users,
    Old,         \* sessions that exist from the start
    OldUser,     \* and the users they belong to
    Ops,         \* the operations this instance exercises
    Idle,        \* AUTH_SESSION_IDLE_TTL
    Absolute,    \* AUTH_SESSION_ABSOLUTE_TTL
    ResetTTL,    \* AUTH_RESET_TTL
    MaxDelay,    \* how long after its arrival a request can still store a session:
                 \* its context's timeout, with the time its last command is under way
    MaxTime,
    None

Sids == Requests \cup Old
AllOps == {"register", "login", "me", "logout", "change", "forgot", "reset"}
\* sessionProtectedOps; the unsafe ones among them also need a CSRF token.
Protected == {"me", "logout", "change"}
Unsafe == {"logout", "change"}

ASSUME SessionsAssumption ==
    /\ Idle \in Nat \ {0} /\ Absolute \in Nat /\ Idle <= Absolute
    /\ ResetTTL \in Nat \ {0} /\ MaxDelay \in Nat /\ MaxTime \in Nat
    /\ Ops \subseteq AllOps /\ Requests \cap Old = {} /\ None \notin Sids \cup Users \cup AllOps
    /\ OldUser \in [Old -> Users]

VARIABLES
    now,
    pw,       \* users.password_hash: how often it was set, 0 for no such user
    sess,     \* session:* keys
    index,    \* user_sessions:* sets
    token,    \* pwreset:* keys
    call, pc,
    held,     \* the session a request has loaded or is minting
    todo,     \* the session ids RevokeUserSessions has still to delete
    reply,
    raced     \* the sessions bulk revocation may miss: RevokedUnlessRaced says why

db == <<pw>>
redis == <<sess, index, token>>
vars == <<now, pw, sess, index, token, call, pc, held, todo, reply, raced>>

NoSession == [user |-> None, created |-> 0, basis |-> 0, expire |-> 0]
NoIndex == [members |-> {}, expire |-> 0]
NoToken == [user |-> None, expire |-> 0]
NoCall == [op |-> None, user |-> None, cookie |-> None, token |-> None, at |-> 0]
NotHeld == [user |-> None, created |-> 0, basis |-> 0, ttl |-> 0]

Live(s) == sess[s].user # None

Init ==
    /\ now = 0
    /\ pw = [u \in Users |-> IF \E s \in Old : OldUser[s] = u THEN 1 ELSE 0]
    /\ sess = [s \in Sids |->
                 IF s \in Old
                 THEN [user |-> OldUser[s], created |-> 0, basis |-> 1, expire |-> Idle]
                 ELSE NoSession]
    /\ index = [u \in Users |->
                  IF pw[u] = 1
                  THEN [members |-> {s \in Old : OldUser[s] = u}, expire |-> Absolute]
                  ELSE NoIndex]
    /\ token = [r \in Requests |-> NoToken]
    /\ call = [r \in Requests |-> NoCall]
    /\ pc = [r \in Requests |-> "idle"]
    /\ held = [r \in Requests |-> NotHeld]
    /\ todo = [r \in Requests |-> {}]
    /\ reply = [r \in Requests |-> 0]
    /\ raced = {}

Goto(r, p) == pc' = [pc EXCEPT ![r] = p] /\ UNCHANGED reply

Answer(r, code) ==
    /\ pc' = [pc EXCEPT ![r] = "done"]
    /\ reply' = [reply EXCEPT ![r] = code]

-----------------------------------------------------------------------------
(* A request arrives.                                                      *)

\* Session cookies and reset tokens that have been handed out.
Minting == {"register", "login", "change"}
Cookies == Old \cup {r \in Requests : reply[r] \in {200, 201} /\ call[r].op \in Minting}
Tokens == {r \in Requests : reply[r] = 200 /\ call[r].op = "forgot"}

FirstStep(op) ==
    CASE op \in Protected -> "get"
      [] op = "register" -> "register"
      [] op = "login" -> "login"
      [] op = "forgot" -> "lookup"
      [] op = "reset" -> "consume"

Start(r) ==
    /\ pc[r] = "idle"
    /\ \E op \in Ops, u \in Users \cup {None}, c \in Cookies \cup {None},
          t \in Tokens \cup {None} :
         /\ (u # None) = (op \in {"register", "login", "forgot"})
         /\ op \in Protected => c # None
         /\ op \in {"forgot", "reset"} => c = None
         /\ (t # None) = (op = "reset")
         /\ call' = [call EXCEPT ![r] =
                      [op |-> op, user |-> u, cookie |-> c, token |-> t, at |-> now]]
         /\ Goto(r, FirstStep(op))
    /\ UNCHANGED <<now, db, redis, held, todo, raced>>

-----------------------------------------------------------------------------
(* authMiddleware.                                                         *)

\* GetSession, then the CSRF check.
GetSession(r) ==
    /\ pc[r] = "get"
    /\ LET s == sess[call[r].cookie] IN
       \/ /\ ~ Live(call[r].cookie)
          /\ Answer(r, 401)
          /\ UNCHANGED held
       \/ /\ Live(call[r].cookie) /\ now - s.created > Absolute
          /\ Goto(r, "expired")
          /\ UNCHANGED held
       \/ /\ Live(call[r].cookie) /\ now - s.created <= Absolute
          /\ held' = [held EXCEPT ![r] = [user |-> s.user, created |-> s.created,
                                          basis |-> s.basis, ttl |-> 0]]
          /\ \/ call[r].op \in Unsafe /\ Answer(r, 403)
             \/ Goto(r, "touch")
    /\ UNCHANGED <<now, db, redis, call, todo, raced>>

\* Mutant: the touch is not capped by the absolute lifetime.
RemainingTTLUncapped(created) == Idle

RemainingTTL(created) ==
    IF Absolute - (now - created) < Idle THEN Absolute - (now - created) ELSE Idle

\* TouchSession reads the clock and works out the new TTL.
Touch(r) ==
    /\ pc[r] = "touch"
    /\ LET ttl == RemainingTTL(held[r].created) IN
       \/ /\ ttl <= 0
          /\ Goto(r, "expired")
          /\ UNCHANGED held
       \/ /\ ttl > 0
          /\ held' = [held EXCEPT ![r].ttl = ttl]
          /\ Goto(r, "touch_set")
    /\ UNCHANGED <<now, db, redis, call, todo, raced>>

\* The best-effort delete of a session past its absolute lifetime.
DeleteExpired(r) ==
    /\ pc[r] = "expired"
    /\ sess' \in {sess, [sess EXCEPT ![call[r].cookie] = NoSession]}
    /\ Answer(r, 401)
    /\ UNCHANGED <<now, db, index, token, call, held, todo, raced>>

\* A SET reaches Redis while the context of its request lasts, or shortly after.
InTime(r) == now <= call[r].at + MaxDelay

\* Mutant: the session stored anew is a new session.
SavedRenewed(r) == [user |-> held[r].user, created |-> now,
                    basis |-> held[r].basis, expire |-> now + held[r].ttl]

\* What save stores for r; the TTL counts from the moment SET arrives.
Saved(r) == [user |-> held[r].user, created |-> held[r].created,
             basis |-> held[r].basis, expire |-> now + held[r].ttl]

\* The SET of TouchSession, unconditional, and the step of the handler it lets
\* the request on to; an error is a 401, also when the SET took effect.
TouchSet(r) ==
    /\ pc[r] = "touch_set" /\ InTime(r)
    /\ LET c == call[r].cookie IN
       /\ sess' = [sess EXCEPT ![c] = Saved(r)]
       /\ raced' = IF Live(c) THEN raced ELSE raced \cup {c}
    /\ \/ call[r].op = "me" /\ Answer(r, 200)
       \/ call[r].op = "logout" /\ Goto(r, "logout")
       \/ call[r].op = "change" /\ Goto(r, "verify")
       \/ Answer(r, 401)
    /\ UNCHANGED <<now, db, index, token, call, held, todo>>

-----------------------------------------------------------------------------
(* The handlers.                                                           *)

\* PostAuthLogout.
Logout(r) ==
    /\ pc[r] = "logout"
    /\ sess' = [sess EXCEPT ![call[r].cookie] = NoSession]
    /\ Answer(r, 204) \/ Answer(r, 500)
    /\ UNCHANGED <<now, db, index, token, call, held, todo, raced>>

\* RegisterUser: the user and the starter account in one transaction, whose
\* COMMIT may take effect although its answer is lost.
Register(r) ==
    /\ pc[r] = "register"
    /\ LET u == call[r].user IN
       \/ /\ pw[u] = 0
          /\ pw' = [pw EXCEPT ![u] = 1]
          /\ held' = [held EXCEPT ![r].user = u, ![r].basis = 1]
          /\ Goto(r, "rotate") \/ Answer(r, 500)
       \/ /\ pw[u] > 0
          /\ Answer(r, 409)
          /\ UNCHANGED <<pw, held>>
    /\ UNCHANGED <<now, redis, call, todo, raced>>

\* PostAuthLogin: UserByUsername, then CheckPassword against the hash just read;
\* the password given may be wrong.
Login(r) ==
    /\ pc[r] = "login"
    /\ LET u == call[r].user IN
       \/ /\ pw[u] > 0
          /\ held' = [held EXCEPT ![r].user = u, ![r].basis = pw[u]]
          /\ Goto(r, "rotate")
       \/ Answer(r, 401) /\ UNCHANGED held
    /\ UNCHANGED <<now, db, redis, call, todo, raced>>

\* PostAuthPasswordChange: UserByID, then CheckPassword of the current password.
\* No user is ever deleted, so the session's user is found.
VerifyCurrent(r) ==
    /\ pc[r] = "verify"
    /\ Goto(r, "update") \/ Answer(r, 403)
    /\ UNCHANGED <<now, db, redis, call, held, todo, raced>>

\* HashPassword and UpdatePassword of a change or a reset.
Update(r) ==
    /\ pc[r] = "update"
    /\ LET u == held[r].user IN
       /\ pw' = [pw EXCEPT ![u] = @ + 1]
       /\ held' = [held EXCEPT ![r].basis = pw[u] + 1]
    /\ \/ call[r].op = "change" /\ Goto(r, "rotate")
       \/ call[r].op = "reset" /\ Goto(r, "members")
       \/ Answer(r, 500)
    /\ UNCHANGED <<now, redis, call, todo, raced>>

\* startSession: revokeRequestSession, best effort.
Rotate(r) ==
    /\ pc[r] = "rotate"
    /\ sess' \in IF call[r].cookie = None THEN {sess}
                 ELSE {sess, [sess EXCEPT ![call[r].cookie] = NoSession]}
    /\ Goto(r, "mint")
    /\ UNCHANGED <<now, db, index, token, call, held, todo, raced>>

\* CreateSession reads the clock.
Mint(r) ==
    /\ pc[r] = "mint"
    /\ held' = [held EXCEPT ![r].created = now, ![r].ttl = Idle]
    /\ Goto(r, "mint_set")
    /\ UNCHANGED <<now, db, redis, call, todo, raced>>

\* The SET of CreateSession.
MintSet(r) ==
    /\ pc[r] = "mint_set" /\ InTime(r)
    /\ sess' = [sess EXCEPT ![r] = Saved(r)]
    /\ \/ Goto(r, "index") /\ UNCHANGED raced
       \/ Answer(r, 500) /\ raced' = raced \cup {r}
    /\ UNCHANGED <<now, db, index, token, call, held, todo>>

\* Mutant: the index lives as long as an idle session.
IndexWithBriefly(entry, s) == [members |-> entry.members \cup {s}, expire |-> now + Idle]

\* SAdd with the absolute lifetime as its TTL.
IndexWith(entry, s) == [members |-> entry.members \cup {s}, expire |-> now + Absolute]

IndexSession(r) ==
    /\ pc[r] = "index"
    /\ index' = [index EXCEPT ![held[r].user] = IndexWith(@, r)]
    /\ \/ call[r].op = "login" /\ Answer(r, 200)
       \/ call[r].op = "register" /\ Answer(r, 201)
       \/ call[r].op = "change" /\ Goto(r, "members")
       \/ Answer(r, 500)
    /\ UNCHANGED <<now, db, sess, token, call, held, todo, raced>>

-----------------------------------------------------------------------------
(* RevokeUserSessions.                                                     *)

\* The sessions of u being started at this moment.
Starting(u) ==
    {q \in Requests : held[q].user = u /\ pc[q] \in {"rotate", "mint", "mint_set", "index"}}

\* Mutant: the new session is revoked with the others.
DoomedAll(r, ids) == ids

\* Mutant: the loop leaves after its first delete.
DoomedFirst(r, ids) == LET a == ids \ {r} IN IF a = {} THEN {} ELSE {CHOOSE s \in a : TRUE}

\* A change spares the session it has minted; a reset has minted none.
Doomed(r, ids) == ids \ {r}

NextRevoke(r, left) ==
    /\ todo' = [todo EXCEPT ![r] = left]
    /\ IF left # {} THEN Goto(r, "revoke")
       ELSE IF call[r].op = "reset" THEN Goto(r, "clear")
       ELSE Answer(r, 200)

\* SMembers.
Members(r) ==
    /\ pc[r] = "members"
    /\ NextRevoke(r, Doomed(r, index[held[r].user].members))
    /\ raced' = raced \cup Starting(held[r].user)
    /\ UNCHANGED <<now, db, redis, call, held>>

\* DeleteSession of one of them; an error ends the loop.
Revoke(r) ==
    /\ pc[r] = "revoke"
    /\ \E s \in todo[r] :
         /\ sess' = [sess EXCEPT ![s] = NoSession]
         /\ \/ NextRevoke(r, todo[r] \ {s})
            \/ Answer(r, 500) /\ UNCHANGED todo
    /\ UNCHANGED <<now, db, index, token, call, held, raced>>

\* A reset removes the index, with whatever was added to it meanwhile.
ClearIndex(r) ==
    /\ pc[r] = "clear"
    /\ LET u == held[r].user IN
       /\ index' = [index EXCEPT ![u] = NoIndex]
       /\ raced' = raced \cup {s \in index[u].members :
                                 Live(s) /\ sess[s].basis >= held[r].basis}
    /\ Answer(r, 200) \/ Answer(r, 500)
    /\ UNCHANGED <<now, db, sess, token, call, held, todo>>

-----------------------------------------------------------------------------
(* Recovery.                                                               *)

\* PostAuthPasswordResetRequest looks the user up.
Lookup(r) ==
    /\ pc[r] = "lookup"
    /\ \/ pw[call[r].user] > 0 /\ Goto(r, "issue")
       \/ pw[call[r].user] = 0 /\ Answer(r, 200)
    /\ UNCHANGED <<now, db, redis, call, held, todo, raced>>

\* CreateResetToken.
Issue(r) ==
    /\ pc[r] = "issue"
    /\ token' = [token EXCEPT ![r] = [user |-> call[r].user, expire |-> now + ResetTTL]]
    /\ Answer(r, 200) \/ Answer(r, 500)
    /\ UNCHANGED <<now, db, sess, index, call, held, todo, raced>>

\* Mutant: GET in place of GETDEL.
SpentKept(t) == UNCHANGED token

Spent(t) == token' = [token EXCEPT ![t] = NoToken]

\* ConsumeResetToken: GETDEL.
Consume(r) ==
    /\ pc[r] = "consume"
    /\ LET t == call[r].token IN
       \/ /\ token[t].user = None
          /\ Answer(r, 410)
          /\ UNCHANGED <<token, held>>
       \/ /\ token[t].user # None
          /\ Spent(t)
          /\ held' = [held EXCEPT ![r].user = token[t].user]
          /\ Goto(r, "update") \/ Answer(r, 500)
    /\ UNCHANGED <<now, db, sess, index, call, todo, raced>>

-----------------------------------------------------------------------------
\* A command fails without having taken effect: fail closed in the middleware,
\* a 500 in a handler.  The best-effort deletes have no such branch.
Fail(r) ==
    /\ \/ pc[r] \in {"get", "touch_set"} /\ Answer(r, 401)
       \/ /\ pc[r] \in {"logout", "register", "login", "verify", "update", "mint_set",
                        "index", "members", "revoke", "clear", "lookup", "issue", "consume"}
          /\ Answer(r, 500)
    /\ raced' = IF pc[r] = "index" THEN raced \cup {r} ELSE raced
    /\ UNCHANGED <<now, db, redis, call, held, todo>>

\* Time passes and Redis expires what is due.
Tick ==
    /\ now < MaxTime
    /\ now' = now + 1
    /\ sess' = [s \in Sids |-> IF sess[s].expire <= now + 1 THEN NoSession ELSE sess[s]]
    /\ index' = [u \in Users |-> IF index[u].expire <= now + 1 THEN NoIndex ELSE index[u]]
    /\ token' = [r \in Requests |-> IF token[r].expire <= now + 1 THEN NoToken ELSE token[r]]
    /\ UNCHANGED <<db, call, pc, held, todo, reply, raced>>

Finished ==
    /\ now = MaxTime /\ \A r \in Requests : pc[r] \in {"idle", "done"}
    /\ UNCHANGED vars

RequestStep(r) ==
    \/ Start(r) \/ GetSession(r) \/ Touch(r) \/ DeleteExpired(r) \/ TouchSet(r)
    \/ Logout(r) \/ Register(r) \/ Login(r) \/ VerifyCurrent(r) \/ Update(r)
    \/ Rotate(r) \/ Mint(r) \/ MintSet(r) \/ IndexSession(r)
    \/ Members(r) \/ Revoke(r) \/ ClearIndex(r)
    \/ Lookup(r) \/ Issue(r) \/ Consume(r) \/ Fail(r)

Next ==
    \/ \E r \in Requests : RequestStep(r)
    \/ Tick
    \/ Finished

Spec == Init /\ [][Next]_vars

-----------------------------------------------------------------------------
(* Properties.                                                             *)

Pcs == {"idle", "get", "touch", "touch_set", "expired", "logout", "register", "login",
        "verify", "update", "rotate", "mint", "mint_set", "index", "members", "revoke", "clear",
        "lookup", "issue", "consume", "done"}
Codes == {0, 200, 201, 204, 401, 403, 409, 410, 500}
Names == Users \cup {None}
SessionType ==
    [user : Names, created : 0..MaxTime, basis : Nat, expire : 0..(MaxTime + Idle)]
IndexType == [members : SUBSET Sids, expire : 0..(MaxTime + Absolute)]
TokenType == [user : Names, expire : 0..(MaxTime + ResetTTL)]
CallType ==
    [op : Ops \cup {None}, user : Names, cookie : Sids \cup {None},
     token : Requests \cup {None}, at : 0..MaxTime]
HeldType == [user : Names, created : 0..MaxTime, basis : Nat, ttl : 0..Idle]

\* Every variable has its type, and no key outlives the longest TTL given it.
TypeOK ==
    /\ now \in 0..MaxTime
    /\ pw \in [Users -> Nat]
    /\ sess \in [Sids -> SessionType]
    /\ index \in [Users -> IndexType]
    /\ token \in [Requests -> TokenType]
    /\ call \in [Requests -> CallType]
    /\ pc \in [Requests -> Pcs]
    /\ held \in [Requests -> HeldType]
    /\ todo \in [Requests -> SUBSET Sids]
    /\ reply \in [Requests -> Codes]
    /\ raced \subseteq Sids

\* When a session was opened: by Init, or by the request that minted it.
Opened(s) == IF s \in Old THEN 0 ELSE held[s].created

\* The middleware has let the request through: a handler is at work for it, or
\* has answered.  A 403 may be the middleware's own.
Admitted(r) ==
    /\ call[r].op \in Protected
    /\ \/ pc[r] \notin {"idle", "get", "touch", "touch_set", "expired", "done"}
       \/ reply[r] \in {200, 204, 500}

\* The absolute lifetime is hard, counted from when the session was opened and
\* whatever requests have stored it since: nobody who comes after its end gets
\* past the middleware.  Its key may outlive it, because time passes between
\* computing the TTL and the SET that grants it, but by no more than the time a
\* request has for its commands.
AbsoluteIsHard ==
    /\ \A r \in Requests : Admitted(r) => call[r].at < Opened(call[r].cookie) + Absolute
    /\ \A s \in Sids : Live(s) => sess[s].expire <= Opened(s) + Absolute + MaxDelay

\* Bulk revocation can find what it must: a session that is indexed and still
\* has lifetime left is in its user's index, and the index will not expire
\* before the session does.  Sessions on the race list are excused.
IndexOutlivesSessions ==
    \A s \in Sids \ raced :
        Live(s) /\ now < sess[s].created + Absolute /\ (s \in Old \/ pc[s] # "index") =>
            /\ s \in index[sess[s].user].members
            /\ \/ index[sess[s].user].expire >= sess[s].expire
               \/ index[sess[s].user].expire >= sess[s].created + Absolute

\* After a change or a reset has answered 200, no session opened with an older
\* password is alive, except those on the race list: revived by a touch that
\* had loaded them before they were deleted, being started while the sessions
\* were listed, never indexed because a command failed, or dropped from the
\* index by a reset that had not listed them.
RevokedUnlessRaced ==
    \A r \in Requests :
        call[r].op \in {"change", "reset"} /\ reply[r] = 200 =>
            \A s \in Sids \ raced :
                Live(s) /\ sess[s].user = held[r].user => sess[s].basis >= held[r].basis

\* A reset token works once, however many requests present it at the same time.
TokenSpentOnce ==
    \A q, r \in Requests :
        /\ q # r /\ call[q].op = "reset" /\ call[r].op = "reset"
        /\ call[q].token = call[r].token
        => held[q].user = None \/ held[r].user = None

\* A change hands out a session that works: it does not revoke the one it has
\* just minted.  Only its expiry or another revocation of that user can have.
FreshSessionSurvives ==
    [][\A r \in Requests :
         call[r].op = "change" /\ reply'[r] = 200 /\ reply[r] # 200 =>
            \/ Live(r)'
            \/ now >= held[r].created + held[r].ttl
            \/ \E q \in Requests \ {r} :
                  call[q].op \in {"change", "reset"} /\ held[q].user = held[r].user]_vars

\* The README: logout revokes the session server-side immediately.
LogoutIsFinal ==
    \A r \in Requests :
        call[r].op = "logout" /\ reply[r] = 204 => ~ Live(call[r].cookie)
=============================================================================
