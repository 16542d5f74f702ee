------------------------------ MODULE Console -------------------------------
(***************************************************************************)
(* The web console's idea of who is signed in: web/src/lib/auth.svelte.ts, *)
(* driven by App.svelte (hydrate on mount), Session.svelte (the session    *)
(* bar) and EndpointCard.svelte (one card per endpoint), over api.ts.      *)
(*                                                                         *)
(* A call carries the cookie the browser has when it is sent.  The server  *)
(* handles it, the browser stores the cookie that comes with the response, *)
(* and only when the body has been read does the awaiting code run; other  *)
(* calls get in between.  The server is abstracted to the sessions that    *)
(* are alive; a call mints at most one, named after it.                    *)
(***************************************************************************)
EXTENDS Integers, FiniteSets

CONSTANTS
    Calls,
    Hydrate,   \* the /auth/me of the mount, one of Calls
    Users,
    Before,    \* the session an earlier visit left in the cookie
    None

ASSUME ConsoleAssumption ==
    Hydrate \in Calls /\ Before \notin Calls /\ None \notin Calls \cup Users \cup {Before}

Sids == Calls \cup {Before}
Ops == {"me", "login", "register", "logout", "change"}
Origins == {"mount", "bar", "card"}

VARIABLES
    live,      \* the server: whose session each id is, None for no session
    cookie,    \* the browser: the session id (and with it the CSRF token)
    user, ready,        \* the auth store
    busy,      \* Session.svelte
    loading,   \* EndpointCard.svelte: the cards awaiting an answer
    call, pc,
    alone,     \* the calls that have overlapped no other call and no expiry
    skewed     \* the store may be out of step: MirrorsWhenOrderly says why

ui == <<user, ready, busy, loading>>
vars == <<live, cookie, user, ready, busy, loading, call, pc, alone, skewed>>

NoCall == [op |-> None, from |-> None, user |-> None, cookie |-> None,
           status |-> 0, body |-> None, set |-> None]
Settled == {"idle", "done", "thrown"}
InFlight == {c \in Calls : pc[c] \notin Settled}

\* Whom the server would take the browser for.
Identity(s) == IF s = None THEN None ELSE live[s]

\* The page has just been mounted and hydrate has called /auth/me.
Init ==
    /\ \E u \in Users \cup {None}, s \in {Before, None} :
         /\ live = [x \in Sids |-> IF x = Before THEN u ELSE None]
         /\ cookie = s
         /\ call = [c \in Calls |-> IF c = Hydrate
                      THEN [NoCall EXCEPT !.op = "me", !.from = "mount", !.cookie = s]
                      ELSE NoCall]
    /\ pc = [c \in Calls |-> IF c = Hydrate THEN "sent" ELSE "idle"]
    /\ user = None /\ ready = FALSE /\ busy = FALSE /\ loading = {}
    /\ alone = {Hydrate} /\ skewed = TRUE

-----------------------------------------------------------------------------
(* The user acts.                                                          *)

\* Calls have no identity before they are made: the next one is any fixed one.
Sent(c, op, from, u) ==
    /\ pc[c] = "idle" /\ c = CHOOSE x \in Calls : pc[x] = "idle"
    /\ call' = [call EXCEPT ![c] = [NoCall EXCEPT !.op = op, !.from = from, !.user = u,
                                                  !.cookie = cookie]]
    /\ pc' = [pc EXCEPT ![c] = "sent"]
    /\ alone' = IF InFlight = {} THEN {c} ELSE {}
    /\ skewed' = (skewed \/ InFlight # {})
    /\ UNCHANGED <<live, cookie, user, ready>>

\* The bar shows the form when signed out and the button when signed in.
Submit(c) ==
    /\ ready /\ user = None /\ ~busy
    /\ \E op \in {"login", "register"}, u \in Users : Sent(c, op, "bar", u)
    /\ busy' = TRUE
    /\ UNCHANGED loading

SignOut(c) ==
    /\ ready /\ user # None /\ ~busy
    /\ Sent(c, "logout", "bar", None)
    /\ busy' = TRUE
    /\ UNCHANGED loading

\* The cards work whatever the bar shows; one that is loading is disabled.
Trigger(c) ==
    /\ \E op \in Ops \ loading :
         /\ loading' = loading \cup {op}
         /\ \E u \in IF op \in {"login", "register"} THEN Users ELSE {None} :
              Sent(c, op, "card", u)
    /\ UNCHANGED busy

-----------------------------------------------------------------------------
(* The server, abstracted.                                                 *)

Answered(c, status, body, set) ==
    /\ call' = [call EXCEPT ![c].status = status, ![c].body = body, ![c].set = set]
    /\ pc' = [pc EXCEPT ![c] = "answered"]

\* startSession: the caller's session is replaced by a new one.
Rotated(c, u) ==
    [s \in Sids |-> IF s = c THEN u ELSE IF s = call[c].cookie THEN None ELSE live[s]]

Handle(c) ==
    /\ pc[c] = "sent"
    /\ LET op == call[c].op
           who == Identity(call[c].cookie)
       IN
       \/ /\ op = "me" /\ who # None
          /\ Answered(c, 200, who, call[c].cookie)
          /\ UNCHANGED live
       \/ /\ op \in {"login", "register"}
          /\ live' = Rotated(c, call[c].user)
          /\ Answered(c, IF op = "login" THEN 200 ELSE 201, call[c].user, c)
       \/ /\ op \in {"login", "register"}     \* wrong, locked or taken
          /\ Answered(c, IF op = "login" THEN 401 ELSE 409, None, call[c].cookie)
          /\ UNCHANGED live
       \/ /\ op = "logout" /\ who # None
          /\ live' = [live EXCEPT ![call[c].cookie] = None]
          /\ Answered(c, 204, None, None)
       \/ /\ op = "change" /\ who # None
          /\ live' = Rotated(c, who)
          /\ Answered(c, 200, who, c)
       \/ /\ op = "change" /\ who # None
          /\ Answered(c, 403, None, call[c].cookie)
          /\ UNCHANGED live
       \/ /\ op \in {"me", "logout", "change"} /\ who = None
          /\ Answered(c, 401, None, call[c].cookie)
          /\ UNCHANGED live
    /\ UNCHANGED <<cookie, ui, alone, skewed>>

\* A session ends on its own, or is revoked from elsewhere.
Expire(s) ==
    /\ live[s] # None
    /\ live' = [live EXCEPT ![s] = None]
    /\ alone' = {} /\ skewed' = TRUE
    /\ UNCHANGED <<cookie, ui, call, pc>>

-----------------------------------------------------------------------------
(* The browser and api.ts.                                                 *)

\* The response arrives with its Set-Cookie; responses that set none leave the
\* cookie as it has become meanwhile.
Receive(c) ==
    /\ pc[c] = "answered"
    /\ cookie' = IF call[c].set # call[c].cookie THEN call[c].set ELSE cookie
    /\ pc' = [pc EXCEPT ![c] = "received"]
    /\ UNCHANGED <<live, ui, call, alone, skewed>>

\* The call fails: in transport (call answers status 0), before or after the
\* server has handled it, or with a 500.
Lose(c) ==
    /\ pc[c] \in {"sent", "answered"}
    /\ \E status \in {0, 500} :
         call' = [call EXCEPT ![c].status = status, ![c].body = None]
    /\ pc' = [pc EXCEPT ![c] = "received"]
    /\ skewed' = TRUE
    /\ UNCHANGED <<live, cookie, ui, alone>>

-----------------------------------------------------------------------------
(* The awaiting code.                                                      *)

Done(c, p) ==
    /\ pc' = [pc EXCEPT ![c] = p]
    /\ call' = [call EXCEPT ![c] = NoCall]
    /\ alone' = alone \ {c}

\* auth.setUser and auth.clear.
SetUser(body) == user' = body /\ ready' = TRUE
Clear == user' = None /\ ready' = TRUE

\* Mutant: only a live session makes the store ready.
HydratedIfLive(c) ==
    /\ user' = IF call[c].status = 200 THEN call[c].body ELSE None
    /\ ready' = (ready \/ call[c].status = 200)

\* auth.hydrate.
Hydrated(c) == SetUser(IF call[c].status = 200 THEN call[c].body ELSE None)

\* auth.login, auth.register, auth.logout.
BarResult(c) ==
    \/ /\ call[c].op = "logout"
       /\ user' = None
       /\ UNCHANGED ready
    \/ /\ call[c].op # "logout" /\ call[c].body # None
       /\ SetUser(call[c].body)
    \/ /\ call[c].op # "logout" /\ call[c].body = None
       /\ UNCHANGED <<user, ready>>

\* Mutant: a card that is told there is no session does not tell the store.
SyncAuthForgetful(c) ==
    LET r == call[c] IN
    \/ r.op = "logout" /\ r.status = 204 /\ Clear
    \/ r.body # None /\ SetUser(r.body)
    \/ /\ r.body = None /\ ~(r.op = "logout" /\ r.status = 204)
       /\ UNCHANGED <<user, ready>>

\* syncAuth of a card: clear, setUser, or nothing.
SyncAuth(c) ==
    LET r == call[c]
        clears == <<r.op, r.status>> \in {<<"logout", 204>>, <<"me", 401>>}
    IN
    \/ clears /\ Clear
    \/ r.body # None /\ SetUser(r.body)
    \/ /\ r.body = None /\ ~clears
       /\ UNCHANGED <<user, ready>>

\* The answers that tell who is signed in.
Tells(c) ==
    \/ call[c].body # None
    \/ call[c].op = "logout" /\ call[c].status = 204
    \/ call[c].op = "me" /\ call[c].status = 401

Apply(c) ==
    /\ pc[c] = "received"
    /\ \/ /\ call[c].from = "mount"
          /\ Hydrated(c)
          /\ UNCHANGED <<busy, loading>>
       \/ /\ call[c].from = "bar"
          /\ BarResult(c)
          /\ busy' = FALSE
          /\ UNCHANGED loading
       \/ /\ call[c].from = "card"
          /\ SyncAuth(c)
          /\ loading' = loading \ {call[c].op}
          /\ UNCHANGED busy
    /\ Done(c, "done")
    /\ skewed' = (skewed /\ ~(c \in alone /\ Tells(c)))
    /\ UNCHANGED <<live, cookie>>

\* The connection breaks while the body is read.  call turns that into status 0
\* for a 2xx; the body of an error it reads in its catch block, so that it throws
\* itself, and of the awaiting code only the finally blocks run.
BodyCutOff(c) ==
    /\ pc[c] = "received" /\ call[c].status \notin {0, 204}
    /\ \/ /\ call[c].status < 300
          /\ call' = [call EXCEPT ![c].status = 0, ![c].body = None]
          /\ UNCHANGED <<busy, loading, pc, alone>>
       \/ /\ call[c].status >= 400
          /\ busy' = (busy /\ call[c].from # "bar")
          /\ loading' = IF call[c].from = "card" THEN loading \ {call[c].op} ELSE loading
          /\ Done(c, "thrown")
    /\ skewed' = TRUE
    /\ UNCHANGED <<live, cookie, user, ready>>

Finished ==
    /\ InFlight = {}
    /\ UNCHANGED vars

Next ==
    \/ \E c \in Calls : \/ Submit(c) \/ SignOut(c) \/ Trigger(c)
                        \/ Handle(c) \/ Receive(c) \/ Lose(c)
                        \/ Apply(c) \/ BodyCutOff(c)
    \/ \E s \in Sids : Expire(s)
    \/ Finished

\* The server answers, or the browser gives the call up, and the awaiting code
\* then runs; nobody has to click.
Fairness == \A c \in Calls : WF_vars(Handle(c)) /\ WF_vars(Receive(c)) /\ WF_vars(Apply(c))

Spec == Init /\ [][Next]_vars /\ Fairness

-----------------------------------------------------------------------------
(* Properties.                                                             *)

\* Every variable has its type.
TypeOK ==
    /\ live \in [Sids -> Users \cup {None}] /\ cookie \in Sids \cup {None}
    /\ user \in Users \cup {None} /\ ready \in BOOLEAN /\ busy \in BOOLEAN
    /\ loading \subseteq Ops
    /\ \A c \in Calls : /\ call[c].op \in Ops \cup {None}
                        /\ call[c].from \in Origins \cup {None}
                        /\ call[c].body \in Users \cup {None}
    /\ pc \in [Calls -> {"idle", "sent", "answered", "received"} \cup Settled]
    /\ alone \subseteq InFlight /\ skewed \in BOOLEAN

\* The store mirrors the session the cookie stands for.  What can put it out of
\* step is a call that overlaps another, a call that fails and a session that
\* ends elsewhere; the next call that runs by itself and is told who is signed
\* in, by the bar or by a card, puts it right again.
MirrorsWhenOrderly ==
    ready /\ ~skewed /\ InFlight = {} => user = Identity(cookie)

\* The console does not hang: the page becomes usable whatever hydrate is
\* answered, unless the error it is answered is cut off and hydrate throws, and
\* the bar's form or button is always given back.
NothingHangs ==
    /\ <>(ready \/ pc[Hydrate] = "thrown")
    /\ busy ~> ~busy
=============================================================================
