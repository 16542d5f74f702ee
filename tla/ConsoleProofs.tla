--------------------------- MODULE ConsoleProofs ----------------------------
(***************************************************************************)
(* Proofs about Console, for any number of calls, users and sessions.      *)
(***************************************************************************)
EXTENDS Console, TLAPS

-----------------------------------------------------------------------------
(* The inductive invariant.                                                *)

Pcs == {"idle", "sent", "answered", "received"} \cup Settled
CallType ==
    [op : Ops \cup {None}, from : Origins \cup {None}, user : Users \cup {None},
     cookie : Sids \cup {None}, status : Nat, body : Users \cup {None},
     set : Sids \cup {None}]

Types ==
    /\ live \in [Sids -> Users \cup {None}] /\ cookie \in Sids \cup {None}
    /\ user \in Users \cup {None} /\ ready \in BOOLEAN /\ busy \in BOOLEAN
    /\ loading \subseteq Ops
    /\ call \in [Calls -> CallType]
    /\ pc \in [Calls -> Pcs]
    /\ skewed \in BOOLEAN

\* Nobody knows a session id before the server has minted it.
Fresh ==
    \A c \in Calls : pc[c] \in {"idle", "sent"} =>
        /\ cookie # c
        /\ \A d \in Calls : call[d].cookie # c /\ call[d].set # c

\* What a request asks for and what an answer can say go together.
Plausible(c) ==
    /\ call[c].from = "mount" => call[c].op = "me"
    /\ call[c].from = "bar" => call[c].op # "me"
    /\ call[c].op \in {"login", "register"} => call[c].user \in Users
    /\ call[c].op = "me" /\ call[c].status # 200 => call[c].body = None
    /\ call[c].op = "logout" => call[c].body = None

Answers == \A c \in InFlight : Plausible(c)

\* A call that has been alone is the only one, and as long as nothing is out of
\* step any call has been alone.
Queue ==
    /\ \A c \in alone : InFlight = {c}
    /\ ~skewed => InFlight \subseteq alone

\* The cookie once the answer to c has been received.
Kept(c) ==
    IF pc[c] = "answered" /\ call[c].set # call[c].cookie THEN call[c].set ELSE cookie

\* A call that has been alone knows how things stand: its answer, if it tells
\* who is signed in, tells the truth, and if it does not, nothing has changed
\* for the store.  Only an answer that was lost leaves hydrate or a logout of
\* the bar in the dark.
InStep(c) ==
    \/ /\ pc[c] = "sent" /\ call[c].cookie = cookie
       /\ ~skewed => user = Identity(cookie)
    \/ /\ pc[c] # "sent"
       /\ Tells(c) => Identity(Kept(c)) = call[c].body
       /\ ~Tells(c) /\ ~skewed =>
            /\ user = Identity(Kept(c))
            /\ call[c].op # "me"
            /\ call[c].op = "logout" => Identity(Kept(c)) = None

Mirror ==
    /\ \A c \in alone : InStep(c)
    /\ ~skewed /\ InFlight = {} => user = Identity(cookie)

Inv == Types /\ Fresh /\ Answers /\ Queue /\ Mirror

-----------------------------------------------------------------------------
(* How the calls in flight change.                                         *)

LEMMA StaysInFlight ==
    ASSUME Types, NEW c \in InFlight, NEW p \in Pcs \ Settled,
           pc' = [pc EXCEPT ![c] = p]
    PROVE  /\ pc' \in [Calls -> Pcs] /\ InFlight' = InFlight
           /\ pc'[c] = p /\ \A d \in Calls \ {c} : pc'[d] = pc[d]
           /\ p # "idle"
  BY DEF Types, InFlight, Pcs, Settled

LEMMA LeavesFlight ==
    ASSUME Types, NEW c \in InFlight, NEW p \in Settled \ {"idle"},
           pc' = [pc EXCEPT ![c] = p]
    PROVE  /\ pc' \in [Calls -> Pcs] /\ InFlight' = InFlight \ {c}
           /\ pc'[c] = p /\ \A d \in Calls \ {c} : pc'[d] = pc[d]
           /\ p \notin {"idle", "sent"}
  BY DEF Types, InFlight, Pcs, Settled

\* What the server's answer leaves of a call.
LEMMA AnswerRecorded ==
    ASSUME NEW c \in Calls, NEW st \in Nat, NEW b \in Users \cup {None},
           NEW s \in Sids \cup {None}, call \in [Calls -> CallType], Answered(c, st, b, s)
    PROVE  /\ call' \in [Calls -> CallType]
           /\ \A d \in Calls \ {c} : call'[d] = call[d]
           /\ call'[c].op = call[c].op /\ call'[c].from = call[c].from
           /\ call'[c].user = call[c].user /\ call'[c].cookie = call[c].cookie
           /\ call'[c].status = st /\ call'[c].body = b /\ call'[c].set = s
  <1>1. call[c] \in CallType
    OBVIOUS
  <1> DEFINE r == [[[call[c] EXCEPT !.status = st] EXCEPT !.body = b] EXCEPT !.set = s]
  <1>2. call' = [call EXCEPT ![c] = r]
    BY DEF Answered
  <1>3. /\ r \in CallType
        /\ r.op = call[c].op /\ r.from = call[c].from
        /\ r.user = call[c].user /\ r.cookie = call[c].cookie
        /\ r.status = st /\ r.body = b /\ r.set = s
    BY <1>1 DEF CallType
  <1> HIDE DEF r
  <1> QED
    BY <1>2, <1>3

\* What a lost answer leaves of a call.
Lost(c, st) == call' = [call EXCEPT ![c].status = st, ![c].body = None]

LEMMA LossRecorded ==
    ASSUME NEW c \in Calls, NEW st \in Nat, call \in [Calls -> CallType], Lost(c, st)
    PROVE  /\ call' \in [Calls -> CallType]
           /\ \A d \in Calls \ {c} : call'[d] = call[d]
           /\ call'[c].op = call[c].op /\ call'[c].from = call[c].from
           /\ call'[c].user = call[c].user /\ call'[c].cookie = call[c].cookie
           /\ call'[c].status = st /\ call'[c].body = None /\ call'[c].set = call[c].set
  <1>1. call[c] \in CallType
    OBVIOUS
  <1> DEFINE r == [[call[c] EXCEPT !.status = st] EXCEPT !.body = None]
  <1>2. call' = [call EXCEPT ![c] = r]
    BY DEF Lost
  <1>3. /\ r \in CallType
        /\ r.op = call[c].op /\ r.from = call[c].from
        /\ r.user = call[c].user /\ r.cookie = call[c].cookie
        /\ r.status = st /\ r.body = None /\ r.set = call[c].set
    BY <1>1 DEF CallType
  <1> HIDE DEF r
  <1> QED
    BY <1>2, <1>3

\* What is known of a call that has been made, and of one that is forgotten.
LEMMA CallRecorded ==
    ASSUME NEW c \in Calls, NEW r, call \in [Calls -> CallType],
           call' = [call EXCEPT ![c] = r], r \in CallType
    PROVE  /\ call' \in [Calls -> CallType]
           /\ call'[c] = r /\ \A d \in Calls \ {c} : call'[d] = call[d]
  OBVIOUS

LEMMA Blank ==
    NoCall \in CallType /\ NoCall.cookie = None /\ NoCall.set = None
  BY DEF NoCall, CallType

-----------------------------------------------------------------------------
(* The steps.                                                              *)

\* A new call does not disturb what holds, whoever makes it.
LEMMA SentStep ==
    ASSUME ConsoleAssumption, Inv, NEW c \in Calls, NEW op \in Ops,
           NEW from \in {"bar", "card"}, NEW u \in Users \cup {None},
           op \in {"login", "register"} => u \in Users,
           from = "bar" => op # "me",
           Sent(c, op, from, u)
    PROVE  /\ call' \in [Calls -> CallType] /\ pc' \in [Calls -> Pcs]
           /\ skewed' \in BOOLEAN
           /\ Fresh' /\ Answers' /\ Queue' /\ Mirror'
  <1> USE DEF Inv
  <1> DEFINE r == [[[[NoCall EXCEPT !.op = op] EXCEPT !.from = from] EXCEPT !.user = u]
                     EXCEPT !.cookie = cookie]
  <1>1. /\ r \in CallType /\ r.op = op /\ r.from = from /\ r.user = u
        /\ r.cookie = cookie /\ r.set = None /\ r.status = 0 /\ r.body = None
    BY DEF Types, NoCall, CallType, Origins
  <1>2. call' = [call EXCEPT ![c] = r]
    BY DEF Sent
  <1> HIDE DEF r
  <1>3. /\ call' \in [Calls -> CallType]
        /\ call'[c] = r /\ \A d \in Calls \ {c} : call'[d] = call[d]
    BY <1>1, <1>2, CallRecorded DEF Types
  <1>4. /\ pc' \in [Calls -> Pcs] /\ InFlight' = InFlight \cup {c} /\ c \notin InFlight
        /\ pc'[c] = "sent" /\ \A d \in Calls \ {c} : pc'[d] = pc[d]
        /\ pc[c] = "idle"
    BY DEF Types, Sent, InFlight, Pcs, Settled
  <1>5. /\ cookie' = cookie /\ live' = live /\ user' = user
        /\ alone' = (IF InFlight = {} THEN {c} ELSE {})
        /\ skewed' = (skewed \/ InFlight # {})
    BY DEF Sent
  <1>6. skewed' \in BOOLEAN
    BY <1>5
  <1>7. Fresh'
    <2> SUFFICES ASSUME NEW d \in Calls, pc'[d] \in {"idle", "sent"}
                 PROVE  /\ cookie' # d
                        /\ \A e \in Calls : call'[e].cookie # d /\ call'[e].set # d
      BY DEF Fresh
    <2>1. pc[d] \in {"idle", "sent"}
      BY <1>4
    <2>2. cookie # d /\ \A e \in Calls : call[e].cookie # d /\ call[e].set # d
      BY <2>1 DEF Fresh
    <2> QED
      BY <2>2, <1>1, <1>3, <1>5 DEF ConsoleAssumption
  <1>8. Answers'
    <2> SUFFICES ASSUME NEW d \in InFlight' PROVE Plausible(d)'
      BY DEF Answers
    <2>1. CASE d = c
      BY <2>1, <1>1, <1>3 DEF Plausible
    <2>2. CASE d # c
      BY <2>2, <1>3, <1>4 DEF Answers, Plausible, InFlight
    <2> QED
      BY <2>1, <2>2
  <1>9. Queue'
    BY <1>4, <1>5 DEF Queue
  <1>10. Mirror'
    <2>1. ASSUME NEW d \in alone' PROVE InStep(d)'
      <3>1. d = c /\ InFlight = {} /\ skewed' = skewed
        BY <2>1, <1>5 DEF Types
      <3>2. skewed \/ user' = Identity(cookie)'
        BY <3>1, <1>5 DEF Mirror, Identity
      <3> QED
        BY <3>1, <3>2, <1>1, <1>3, <1>4, <1>5 DEF InStep
    <2> QED
      BY <2>1, <1>4 DEF Mirror
  <1> QED
    BY <1>3, <1>4, <1>6, <1>7, <1>8, <1>9, <1>10

LEMMA SubmitStep ==
    ASSUME ConsoleAssumption, Inv, NEW c \in Calls, Submit(c)
    PROVE  Inv'
  <1>1. PICK op \in {"login", "register"}, u \in Users : Sent(c, op, "bar", u)
    BY DEF Submit
  <1>2. op \in Ops /\ op # "me"
    BY DEF Ops
  <1>3. /\ call' \in [Calls -> CallType] /\ pc' \in [Calls -> Pcs]
        /\ skewed' \in BOOLEAN
        /\ Fresh' /\ Answers' /\ Queue' /\ Mirror'
    BY <1>1, <1>2, SentStep
  <1>4. Types'
    BY <1>1, <1>3 DEF Inv, Types, Submit, Sent
  <1> QED
    BY <1>3, <1>4 DEF Inv

LEMMA SignOutStep ==
    ASSUME ConsoleAssumption, Inv, NEW c \in Calls, SignOut(c)
    PROVE  Inv'
  <1>1. Sent(c, "logout", "bar", None)
    BY DEF SignOut
  <1>2. "logout" \in Ops
    BY DEF Ops
  <1>3. /\ call' \in [Calls -> CallType] /\ pc' \in [Calls -> Pcs]
        /\ skewed' \in BOOLEAN
        /\ Fresh' /\ Answers' /\ Queue' /\ Mirror'
    BY <1>1, <1>2, SentStep
  <1>4. Types'
    BY <1>1, <1>3 DEF Inv, Types, SignOut, Sent
  <1> QED
    BY <1>3, <1>4 DEF Inv

LEMMA TriggerStep ==
    ASSUME ConsoleAssumption, Inv, NEW c \in Calls, Trigger(c)
    PROVE  Inv'
  <1>1. PICK op \in Ops \ loading :
          /\ loading' = loading \cup {op}
          /\ \E u \in IF op \in {"login", "register"} THEN Users ELSE {None} :
               Sent(c, op, "card", u)
    BY DEF Trigger
  <1>2. PICK u \in Users \cup {None} :
          (op \in {"login", "register"} => u \in Users) /\ Sent(c, op, "card", u)
    BY <1>1
  <1>3. /\ call' \in [Calls -> CallType] /\ pc' \in [Calls -> Pcs]
        /\ skewed' \in BOOLEAN
        /\ Fresh' /\ Answers' /\ Queue' /\ Mirror'
    BY <1>2, SentStep
  <1>4. Types'
    BY <1>1, <1>2, <1>3 DEF Inv, Types, Trigger, Sent
  <1> QED
    BY <1>3, <1>4 DEF Inv

\* Whom the answer makes the cookie s stand for.
Becomes(s) == IF s = None THEN None ELSE live'[s]

Telling(op, st, b) ==
    b # None \/ (op = "logout" /\ st = 204) \/ (op = "me" /\ st = 401)

\* The answer to c is plausible and, if nothing has happened since c was sent, true.
Truthful(c, st, b, s) ==
    /\ call[c].op = "me" /\ st # 200 => b = None
    /\ call[c].op = "logout" => b = None
    /\ call[c].cookie = cookie /\ (skewed \/ user = Identity(cookie)) =>
         /\ Telling(call[c].op, st, b) => Becomes(s) = b
         /\ ~Telling(call[c].op, st, b) /\ ~skewed =>
              /\ user = Becomes(s)
              /\ call[c].op # "me"
              /\ call[c].op = "logout" => Becomes(s) = None

\* Such an answer keeps the invariant.
LEMMA AnsweredStep ==
    ASSUME ConsoleAssumption, Inv, NEW c \in Calls, pc[c] = "sent",
           NEW st \in Nat, NEW b \in Users \cup {None}, NEW s \in {c, call[c].cookie, None},
           Answered(c, st, b, s),
           live' \in [Sids -> Users \cup {None}], UNCHANGED <<cookie, ui, alone, skewed>>,
           Truthful(c, st, b, s)
    PROVE  Inv'
  <1> USE DEF Inv
  <1>1. c \in InFlight /\ "answered" \in Pcs \ Settled
    BY DEF InFlight, Settled, Pcs
  <1>2. /\ pc' \in [Calls -> Pcs] /\ InFlight' = InFlight
        /\ pc'[c] = "answered" /\ \A d \in Calls \ {c} : pc'[d] = pc[d]
    BY <1>1, StaysInFlight DEF Answered
  <1>3. s \in Sids \cup {None}
    BY DEF Types, Sids, CallType
  <1>4. /\ call' \in [Calls -> CallType]
        /\ \A d \in Calls \ {c} : call'[d] = call[d]
        /\ call'[c].op = call[c].op /\ call'[c].from = call[c].from
        /\ call'[c].user = call[c].user /\ call'[c].cookie = call[c].cookie
        /\ call'[c].status = st /\ call'[c].body = b /\ call'[c].set = s
    BY <1>3, AnswerRecorded DEF Types
  <1>5. /\ cookie' = cookie /\ user' = user /\ alone' = alone /\ skewed' = skewed
        /\ ready' = ready /\ busy' = busy /\ loading' = loading
    BY DEF ui
  <1>6. Types'
    BY <1>2, <1>4, <1>5 DEF Types
  <1>7. Fresh'
    <2> SUFFICES ASSUME NEW d \in Calls, pc'[d] \in {"idle", "sent"}
                 PROVE  /\ cookie' # d
                        /\ \A e \in Calls : call'[e].cookie # d /\ call'[e].set # d
      BY DEF Fresh
    <2>1. d # c /\ pc[d] \in {"idle", "sent"}
      BY <1>2
    <2>2. cookie # d /\ \A e \in Calls : call[e].cookie # d /\ call[e].set # d
      BY <2>1 DEF Fresh
    <2> QED
      BY <2>1, <2>2, <1>4, <1>5 DEF ConsoleAssumption
  <1>8. Answers'
    <2> SUFFICES ASSUME NEW d \in InFlight' PROVE Plausible(d)'
      BY DEF Answers
    <2>1. Plausible(d) /\ d \in Calls
      BY <1>2 DEF Answers, InFlight
    <2>2. CASE d = c
      BY <2>1, <2>2, <1>4 DEF Plausible, Truthful
    <2>3. CASE d # c
      BY <2>1, <2>3, <1>4 DEF Plausible
    <2> QED
      BY <2>2, <2>3
  <1>9. Queue'
    BY <1>2, <1>5 DEF Queue
  <1>10. Mirror'
    <2>1. ASSUME NEW d \in alone' PROVE InStep(d)'
      <3>1. d = c /\ c \in alone
        BY <1>1, <1>5 DEF Queue
      <3>2. call[c].cookie = cookie /\ (skewed \/ user = Identity(cookie))
        BY <3>1 DEF Mirror, InStep
      <3>3. Kept(c)' = s
        BY <3>2, <1>2, <1>4, <1>5 DEF Kept
      <3>4. Identity(Kept(c))' = Becomes(s)
        BY <3>3 DEF Identity, Becomes
      <3>5. Tells(c)' <=> Telling(call[c].op, st, b)
        BY <1>4 DEF Tells, Telling
      <3> QED
        BY <3>1, <3>2, <3>4, <3>5, <1>2, <1>4, <1>5 DEF InStep, Truthful
    <2> QED
      BY <2>1, <1>1, <1>2 DEF Mirror
  <1> QED
    BY <1>6, <1>7, <1>8, <1>9, <1>10

LEMMA HandleStep ==
    ASSUME ConsoleAssumption, Inv, NEW c \in Calls, Handle(c)
    PROVE  Inv'
  <1> DEFINE op == call[c].op
             who == Identity(call[c].cookie)
             own == call[c].cookie
  <1>1. /\ pc[c] = "sent" /\ UNCHANGED <<cookie, ui, alone, skewed>>
        /\ live \in [Sids -> Users \cup {None}] /\ c \in Sids
        /\ own \in Sids \cup {None} /\ None \notin Sids /\ None \notin Users
    BY DEF Handle, Inv, Types, CallType, Sids, ConsoleAssumption
  <1>2. who \in Users \cup {None} /\ (who # None => own \in Sids)
    BY <1>1 DEF Identity
  <1>3. own # c
    BY <1>1 DEF Inv, Fresh
  <1>4. op \in {"login", "register"} => call[c].user \in Users
    BY <1>1 DEF Inv, Answers, Plausible, InFlight, Settled
  <1>5. ASSUME NEW u \in Users \cup {None}
        PROVE  /\ Rotated(c, u) \in [Sids -> Users \cup {None}]
               /\ Rotated(c, u)[c] = u
    BY <1>1 DEF Rotated
  <1>6. CASE op = "me" /\ who # None /\ Answered(c, 200, who, own) /\ UNCHANGED live
    <2>1. own = cookie => Becomes(own) = who
      BY <1>6 DEF Becomes, Identity
    <2>2. Truthful(c, 200, who, own)
      BY <1>6, <2>1, <1>1, <1>2, <1>4 DEF Truthful, Telling
    <2> QED
      BY <1>6, <2>1, <2>2, <1>1, <1>2, <1>4, AnsweredStep
  <1>7. ASSUME op \in {"login", "register"}, live' = Rotated(c, call[c].user),
               NEW st \in {200, 201}, Answered(c, st, call[c].user, c)
        PROVE  Inv'
    <2>1. Becomes(c) = call[c].user /\ call[c].user # None
      BY <1>1, <1>4, <1>5, <1>7 DEF Becomes
    <2>2. live' \in [Sids -> Users \cup {None}]
      BY <1>4, <1>5, <1>7
    <2>3. Truthful(c, st, call[c].user, c)
      BY <1>7, <2>1, <1>1, <1>2, <1>4 DEF Truthful, Telling
    <2> DEFINE b == call[c].user
    <2>4. /\ b \in Users \cup {None} /\ st \in Nat
          /\ Answered(c, st, b, c) /\ Truthful(c, st, b, c)
      BY <1>4, <1>7, <2>3
    <2> HIDE DEF b
    <2> QED
      BY <2>4, <2>2, <1>1, AnsweredStep
  <1>8. ASSUME op \in {"login", "register"}, NEW st \in {401, 409},
               Answered(c, st, None, own), UNCHANGED live
        PROVE  Inv'
    <2>1. own = cookie => Becomes(own) = Identity(cookie)
      BY <1>8 DEF Becomes, Identity
    <2>2. Truthful(c, st, None, own)
      BY <1>8, <2>1, <1>1, <1>2, <1>4 DEF Truthful, Telling
    <2> QED
      BY <1>8, <2>1, <2>2, <1>1, <1>2, <1>4, AnsweredStep
  <1>9. CASE /\ op = "logout" /\ who # None
              /\ live' = [live EXCEPT ![own] = None] /\ Answered(c, 204, None, None)
    <2>1. Becomes(None) = None /\ live' \in [Sids -> Users \cup {None}]
      BY <1>1, <1>2, <1>9 DEF Becomes
    <2>2. Truthful(c, 204, None, None)
      BY <1>9, <2>1, <1>1, <1>2, <1>4 DEF Truthful, Telling
    <2> QED
      BY <1>9, <2>1, <2>2, <1>1, <1>2, <1>4, AnsweredStep
  <1>10. CASE /\ op = "change" /\ who # None
              /\ live' = Rotated(c, who) /\ Answered(c, 200, who, c)
    <2>1. Becomes(c) = who /\ live' \in [Sids -> Users \cup {None}]
      BY <1>1, <1>2, <1>5, <1>10 DEF Becomes
    <2>2. Truthful(c, 200, who, c)
      BY <1>10, <2>1, <1>1, <1>2, <1>4 DEF Truthful, Telling
    <2> QED
      BY <1>10, <2>1, <2>2, <1>1, <1>2, <1>4, AnsweredStep
  <1>11. CASE op = "change" /\ who # None /\ Answered(c, 403, None, own) /\ UNCHANGED live
    <2>1. own = cookie => Becomes(own) = Identity(cookie)
      BY <1>11 DEF Becomes, Identity
    <2>2. Truthful(c, 403, None, own)
      BY <1>11, <2>1, <1>1, <1>2, <1>4 DEF Truthful, Telling
    <2> QED
      BY <1>11, <2>1, <2>2, <1>1, <1>2, <1>4, AnsweredStep
  <1>12. CASE /\ op \in {"me", "logout", "change"} /\ who = None
              /\ Answered(c, 401, None, own) /\ UNCHANGED live
    <2>1. own = cookie => Becomes(own) = Identity(cookie) /\ Becomes(own) = None
      BY <1>12 DEF Becomes, Identity
    <2>2. Truthful(c, 401, None, own)
      BY <1>12, <2>1, <1>1, <1>2, <1>4 DEF Truthful, Telling
    <2> QED
      BY <1>12, <2>1, <2>2, <1>1, <1>2, <1>4, AnsweredStep
  <1>13. CASE /\ op \in {"login", "register"} /\ live' = Rotated(c, call[c].user)
              /\ Answered(c, IF op = "login" THEN 200 ELSE 201, call[c].user, c)
    BY <1>7, <1>13
  <1>14. CASE /\ op \in {"login", "register"} /\ UNCHANGED live
              /\ Answered(c, IF op = "login" THEN 401 ELSE 409, None, own)
    BY <1>8, <1>14
  <1> QED
    BY <1>6, <1>9, <1>10, <1>11, <1>12, <1>13, <1>14 DEF Handle

LEMMA ExpireStep ==
    ASSUME ConsoleAssumption, Inv, NEW s \in Sids, Expire(s)
    PROVE  Inv'
  <1> USE DEF Inv
  <1>1. /\ live' = [live EXCEPT ![s] = None] /\ alone' = {} /\ skewed' = TRUE
        /\ cookie' = cookie /\ call' = call /\ pc' = pc
        /\ user' = user /\ ready' = ready /\ busy' = busy /\ loading' = loading
    BY DEF Expire, ui
  <1>2. Types'
    BY <1>1 DEF Types
  <1>3. Fresh'
    BY <1>1 DEF Fresh
  <1>4. InFlight' = InFlight
    BY <1>1 DEF InFlight
  <1>5. Answers'
    BY <1>1, <1>4 DEF Answers, Plausible
  <1>6. Queue' /\ Mirror'
    BY <1>1 DEF Queue, Mirror
  <1> QED
    BY <1>2, <1>3, <1>5, <1>6

LEMMA ReceiveStep ==
    ASSUME ConsoleAssumption, Inv, NEW c \in Calls, Receive(c)
    PROVE  Inv'
  <1> USE DEF Inv
  <1>1. /\ pc[c] = "answered" /\ cookie' = Kept(c) /\ call' = call /\ live' = live
        /\ alone' = alone /\ skewed' = skewed
        /\ user' = user /\ ready' = ready /\ busy' = busy /\ loading' = loading
    BY DEF Receive, ui, Kept
  <1>2. c \in InFlight /\ "received" \in Pcs \ Settled
    BY <1>1 DEF InFlight, Settled, Pcs
  <1>3. /\ pc' \in [Calls -> Pcs] /\ InFlight' = InFlight
        /\ pc'[c] = "received" /\ \A d \in Calls \ {c} : pc'[d] = pc[d]
    BY <1>2, StaysInFlight DEF Receive
  <1>4. Kept(c) \in Sids \cup {None} /\ Kept(c) \in {call[c].set, cookie}
    BY DEF Kept, Types, CallType
  <1>5. Types'
    BY <1>1, <1>3, <1>4 DEF Types
  <1>6. Fresh'
    BY <1>1, <1>3, <1>4 DEF Fresh
  <1>7. Answers'
    BY <1>1, <1>3 DEF Answers, Plausible
  <1>8. Queue'
    BY <1>1, <1>3 DEF Queue
  <1>9. Mirror'
    <2>1. ASSUME NEW d \in alone' PROVE InStep(d)'
      <3>1. d = c /\ InStep(c)
        BY <1>1, <1>2 DEF Queue, Mirror
      <3>2. Identity(Kept(c))' = Identity(Kept(c))
        BY <1>1, <1>3 DEF Kept, Identity
      <3>3. Tells(c)' <=> Tells(c)
        BY <1>1 DEF Tells
      <3> QED
        BY <3>1, <3>2, <3>3, <1>1, <1>3 DEF InStep
    <2> QED
      BY <2>1, <1>2, <1>3 DEF Mirror
  <1> QED
    BY <1>5, <1>6, <1>7, <1>8, <1>9

\* A call that fails, whether its answer or only its body is lost.
LostOnTheWay(c, st) ==
    /\ Lost(c, st) /\ pc' = [pc EXCEPT ![c] = "received"]
    /\ skewed' = TRUE /\ UNCHANGED <<live, cookie, ui, alone>>

LEMMA LostStep ==
    ASSUME ConsoleAssumption, Inv, NEW c \in Calls, c \in InFlight, NEW st \in {0, 500},
           LostOnTheWay(c, st)
    PROVE  Inv'
  <1> USE DEF Inv
  <1>1. /\ live' = live /\ alone' = alone /\ cookie' = cookie
        /\ user' = user /\ ready' = ready /\ busy' = busy /\ loading' = loading
        /\ skewed' = TRUE
    BY DEF ui, LostOnTheWay
  <1>2. c \in Calls /\ "received" \in Pcs \ Settled /\ st \in Nat /\ Types
    BY DEF Settled, Pcs
  <1>3. /\ pc' \in [Calls -> Pcs] /\ InFlight' = InFlight
        /\ pc'[c] = "received" /\ \A d \in Calls \ {c} : pc'[d] = pc[d]
    BY <1>2 DEF Types, InFlight, Pcs, Settled, LostOnTheWay
  <1>4. /\ call' \in [Calls -> CallType]
        /\ \A d \in Calls \ {c} : call'[d] = call[d]
        /\ call'[c].op = call[c].op /\ call'[c].from = call[c].from
        /\ call'[c].user = call[c].user /\ call'[c].cookie = call[c].cookie
        /\ call'[c].status = st /\ call'[c].body = None /\ call'[c].set = call[c].set
    BY <1>2, LossRecorded DEF Types, LostOnTheWay
  <1>5. Types'
    BY <1>1, <1>3, <1>4 DEF Types
  <1>6. Fresh'
    <2> SUFFICES ASSUME NEW d \in Calls, pc'[d] \in {"idle", "sent"}
                 PROVE  /\ cookie' # d
                        /\ \A e \in Calls : call'[e].cookie # d /\ call'[e].set # d
      BY DEF Fresh
    <2>1. cookie # d /\ \A e \in Calls : call[e].cookie # d /\ call[e].set # d
      BY <1>3 DEF Fresh
    <2> QED
      BY <2>1, <1>1, <1>2, <1>4
  <1>7. Answers'
    <2> SUFFICES ASSUME NEW d \in InFlight' PROVE Plausible(d)'
      BY DEF Answers
    <2>1. Plausible(d) /\ d \in Calls
      BY <1>3 DEF Answers, InFlight
    <2>2. CASE d = c
      BY <2>1, <2>2, <1>4 DEF Plausible
    <2>3. CASE d # c
      BY <2>1, <2>3, <1>4 DEF Plausible
    <2> QED
      BY <2>2, <2>3
  <1>8. Queue'
    BY <1>1, <1>3 DEF Queue
  <1>9. Mirror'
    <2>1. ASSUME NEW d \in alone' PROVE InStep(d)'
      <3>1. d = c
        BY <1>1 DEF Queue
      <3>2. ~Tells(c)'
        BY <1>4 DEF Tells
      <3> QED
        BY <3>1, <3>2, <1>1, <1>3 DEF InStep
    <2> QED
      BY <2>1, <1>1 DEF Mirror
  <1> QED
    BY <1>5, <1>6, <1>7, <1>8, <1>9

LEMMA LoseStep ==
    ASSUME ConsoleAssumption, Inv, NEW c \in Calls, Lose(c)
    PROVE  Inv'
  <1>1. PICK st \in {0, 500} : Lost(c, st)
    BY DEF Lose, Lost
  <1>2. c \in InFlight
    BY DEF Lose, InFlight, Settled
  <1>3. LostOnTheWay(c, st)
    BY <1>1 DEF Lose, LostOnTheWay
  <1> QED
    BY <1>2, <1>3, LostStep

\* A call that is over is forgotten; what it leaves in the store is the question.
LEMMA DoneStep ==
    ASSUME ConsoleAssumption, Inv, NEW c \in Calls, pc[c] = "received",
           NEW p \in {"done", "thrown"}, Done(c, p),
           user' \in Users \cup {None}, ready' \in BOOLEAN, busy' \in BOOLEAN,
           loading' \subseteq Ops, skewed' \in BOOLEAN, UNCHANGED <<live, cookie>>,
           ~skewed' => c \in alone /\ user' = Identity(cookie)
    PROVE  Inv'
  <1> USE DEF Inv
  <1>1. c \in InFlight /\ p \in Settled \ {"idle"}
    BY DEF InFlight, Settled
  <1>2. /\ pc' \in [Calls -> Pcs] /\ InFlight' = InFlight \ {c}
        /\ pc'[c] = p /\ \A d \in Calls \ {c} : pc'[d] = pc[d]
    BY <1>1, LeavesFlight DEF Done
  <1>3. /\ call' \in [Calls -> CallType]
        /\ call'[c] = NoCall /\ \A d \in Calls \ {c} : call'[d] = call[d]
    BY CallRecorded, Blank DEF Done, Types
  <1>4. live' = live /\ cookie' = cookie /\ alone' = alone \ {c}
    BY DEF Done
  <1>5. Types'
    BY <1>2, <1>3, <1>4 DEF Types
  <1>6. Fresh'
    <2> SUFFICES ASSUME NEW d \in Calls, pc'[d] \in {"idle", "sent"}
                 PROVE  /\ cookie' # d
                        /\ \A e \in Calls : call'[e].cookie # d /\ call'[e].set # d
      BY DEF Fresh
    <2>1. cookie # d /\ \A e \in Calls : call[e].cookie # d /\ call[e].set # d
      BY <1>2 DEF Fresh
    <2> QED
      BY <2>1, <1>3, <1>4, Blank DEF ConsoleAssumption
  <1>7. Answers'
    <2> SUFFICES ASSUME NEW d \in InFlight' PROVE Plausible(d)'
      BY DEF Answers
    <2> QED
      BY <1>2, <1>3 DEF Answers, Plausible, InFlight
  <1>8. alone' = {}
    BY <1>1, <1>4 DEF Queue
  <1>9. Queue'
    BY <1>1, <1>2, <1>8 DEF Queue
  <1>10. Mirror'
    BY <1>4, <1>8 DEF Mirror, Identity
  <1> QED
    BY <1>5, <1>6, <1>7, <1>9, <1>10

LEMMA ApplyStep ==
    ASSUME ConsoleAssumption, Inv, NEW c \in Calls, Apply(c)
    PROVE  Inv'
  <1>1. /\ pc[c] = "received" /\ Done(c, "done") /\ UNCHANGED <<live, cookie>>
        /\ skewed' = (skewed /\ ~(c \in alone /\ Tells(c)))
        /\ c \in InFlight
    BY DEF Apply, InFlight, Settled
  <1>2. /\ user \in Users \cup {None} /\ ready \in BOOLEAN /\ busy \in BOOLEAN
        /\ loading \subseteq Ops /\ skewed \in BOOLEAN
        /\ call[c].body \in Users \cup {None}
    BY DEF Inv, Types, CallType
  <1>3. /\ user' \in Users \cup {None} /\ ready' \in BOOLEAN /\ busy' \in BOOLEAN
        /\ loading' \subseteq Ops /\ skewed' \in BOOLEAN
    <2>1. skewed' \in BOOLEAN
      BY <1>1
    <2>2. CASE call[c].from = "mount" /\ Hydrated(c) /\ UNCHANGED <<busy, loading>>
      BY <2>1, <2>2, <1>2 DEF Hydrated, SetUser
    <2>3. CASE call[c].from = "bar" /\ BarResult(c) /\ busy' = FALSE /\ UNCHANGED loading
      <3>1. user' \in Users \cup {None} /\ ready' \in {TRUE, ready}
        BY <2>3, <1>2 DEF BarResult, SetUser
      <3>2. ready' \in BOOLEAN
        BY <3>1, <1>2
      <3> QED
        BY <2>1, <2>3, <3>1, <3>2, <1>2
    <2>4. CASE /\ call[c].from = "card" /\ SyncAuth(c)
               /\ loading' = loading \ {call[c].op} /\ UNCHANGED busy
      <3>1. Clear \/ SetUser(call[c].body) \/ UNCHANGED <<user, ready>>
        BY <2>4, Zenon DEF SyncAuth
      <3>2. user' \in Users \cup {None} /\ ready' \in {TRUE, ready}
        BY <3>1, <1>2 DEF SetUser, Clear
      <3>3. ready' \in BOOLEAN
        BY <3>2, <1>2
      <3> QED
        BY <2>1, <2>4, <3>2, <3>3, <1>2
    <2> QED
      BY <2>2, <2>3, <2>4 DEF Apply
  <1>4. ASSUME ~skewed' PROVE c \in alone /\ user' = Identity(cookie)
    <2>1. c \in alone
      BY <1>1, <1>2, <1>4 DEF Inv, Queue
    <2>2. Kept(c) = cookie
      BY <1>1 DEF Kept
    <2>3. /\ Tells(c) => Identity(cookie) = call[c].body
          /\ ~Tells(c) => /\ user = Identity(cookie) /\ call[c].op # "me"
                          /\ call[c].op = "logout" => Identity(cookie) = None
      BY <2>1, <2>2, <1>1, <1>2, <1>4 DEF Inv, Mirror, InStep
    <2>4. Plausible(c)
      BY <1>1 DEF Inv, Answers
    <2>5. CASE call[c].from = "mount" /\ Hydrated(c)
      BY <2>1, <2>3, <2>4, <2>5 DEF Hydrated, SetUser, Plausible, Tells
    <2>6. CASE call[c].from = "bar" /\ BarResult(c)
      BY <2>1, <2>3, <2>4, <2>6 DEF BarResult, SetUser, Plausible, Tells
    <2>7. CASE call[c].from = "card" /\ SyncAuth(c)
      BY <2>1, <2>3, <2>4, <2>7 DEF SyncAuth, SetUser, Clear, Plausible, Tells
    <2> QED
      BY <2>1, <2>5, <2>6, <2>7 DEF Apply
  <1> QED
    BY <1>1, <1>3, <1>4, DoneStep

LEMMA BodyCutOffStep ==
    ASSUME ConsoleAssumption, Inv, NEW c \in Calls, BodyCutOff(c)
    PROVE  Inv'
  <1>1. /\ pc[c] = "received" /\ skewed' = TRUE /\ UNCHANGED <<live, cookie, user, ready>>
        /\ c \in InFlight /\ pc \in [Calls -> Pcs]
    BY DEF BodyCutOff, InFlight, Settled, Inv, Types
  <1>2. CASE /\ Lost(c, 0)
             /\ UNCHANGED <<busy, loading, pc, alone>>
    <2>1. pc' = [pc EXCEPT ![c] = "received"]
      BY <1>1, <1>2
    <2>2. LostOnTheWay(c, 0)
      BY <1>1, <1>2, <2>1 DEF ui, LostOnTheWay
    <2> QED
      BY <1>1, <2>2, LostStep
  <1>3. CASE /\ busy' = (busy /\ call[c].from # "bar")
             /\ loading' = IF call[c].from = "card" THEN loading \ {call[c].op} ELSE loading
             /\ Done(c, "thrown")
    <2>1. /\ user' \in Users \cup {None} /\ ready' \in BOOLEAN /\ busy' \in BOOLEAN
          /\ loading' \subseteq Ops
      BY <1>1, <1>3 DEF Inv, Types
    <2> QED
      BY <1>1, <1>3, <2>1, DoneStep
  <1> QED
    BY <1>2, <1>3 DEF BodyCutOff, Lost

-----------------------------------------------------------------------------
(* The theorems.                                                           *)

LEMMA InitInv == ConsoleAssumption /\ Init => Inv
  <1> SUFFICES ASSUME ConsoleAssumption, Init PROVE Inv
    OBVIOUS
  <1> DEFINE m == [[[NoCall EXCEPT !.op = "me"] EXCEPT !.from = "mount"] EXCEPT !.cookie = cookie]
  <1>1. PICK u \in Users \cup {None}, s \in {Before, None} :
          /\ live = [x \in Sids |-> IF x = Before THEN u ELSE None]
          /\ cookie = s
          /\ call = [c \in Calls |-> IF c = Hydrate
                       THEN [NoCall EXCEPT !.op = "me", !.from = "mount", !.cookie = s]
                       ELSE NoCall]
    BY DEF Init
  <1>2. cookie \in {Before, None} /\ cookie \in Sids \cup {None}
    BY <1>1 DEF Sids
  <1>3. /\ m \in CallType /\ m.op = "me" /\ m.from = "mount" /\ m.cookie = cookie
        /\ m.set = None /\ m.status = 0 /\ m.body = None
    BY <1>2 DEF NoCall, CallType, Ops, Origins
  <1>4. call = [c \in Calls |-> IF c = Hydrate THEN m ELSE NoCall]
    BY <1>1
  <1> HIDE DEF m
  <1>5. call \in [Calls -> CallType]
    BY <1>3, <1>4, Blank
  <1>6. live \in [Sids -> Users \cup {None}]
    BY <1>1
  <1>7. Types
    BY <1>2, <1>5, <1>6 DEF Types, Init, Pcs, Settled
  <1>8. InFlight = {Hydrate} /\ Hydrate \in Calls /\ pc[Hydrate] = "sent"
    BY DEF Init, InFlight, Settled, ConsoleAssumption
  <1>9. Fresh
    BY <1>2, <1>3, <1>4, Blank DEF Fresh, ConsoleAssumption
  <1>10. Answers
    BY <1>3, <1>4, <1>8 DEF Answers, Plausible
  <1>11. Queue
    BY <1>8 DEF Queue, Init
  <1>12. Mirror
    BY <1>3, <1>4, <1>8 DEF Mirror, InStep, Init
  <1> QED
    BY <1>7, <1>9, <1>10, <1>11, <1>12 DEF Inv

LEMMA NextInv == ConsoleAssumption /\ Inv /\ [Next]_vars => Inv'
  <1> SUFFICES ASSUME ConsoleAssumption, Inv, [Next]_vars PROVE Inv'
    OBVIOUS
  <1>1. ASSUME NEW c \in Calls,
               \/ Submit(c) \/ SignOut(c) \/ Trigger(c)
               \/ Handle(c) \/ Receive(c) \/ Lose(c)
               \/ Apply(c) \/ BodyCutOff(c)
        PROVE  Inv'
    BY <1>1, SubmitStep, SignOutStep, TriggerStep, HandleStep, ReceiveStep, LoseStep,
       ApplyStep, BodyCutOffStep
  <1>2. CASE \E s \in Sids : Expire(s)
    BY <1>2, ExpireStep
  <1>3. CASE UNCHANGED vars
    BY <1>3 DEF vars, Inv, Types, Fresh, Answers, Plausible, Queue, Mirror, InStep, Kept,
                Tells, Identity, InFlight
  <1> QED
    BY <1>1, <1>2, <1>3 DEF Next, Finished

LEMMA InvHolds == Spec => []Inv
  <1>1. Init => Inv
    BY InitInv, ConsoleAssumption
  <1>2. Inv /\ [Next]_vars => Inv'
    BY NextInv, ConsoleAssumption
  <1> QED
    BY <1>1, <1>2, PTL DEF Spec

\* Every variable has its type.
THEOREM TypesHold == Spec => []TypeOK
  <1>1. ASSUME Inv PROVE TypeOK
    <2>1. \A c \in Calls : /\ call[c].op \in Ops \cup {None}
                           /\ call[c].from \in Origins \cup {None}
                           /\ call[c].body \in Users \cup {None}
      BY <1>1 DEF Inv, Types, CallType
    <2>2. alone \subseteq InFlight
      BY <1>1 DEF Inv, Queue
    <2> QED
      BY <1>1, <2>1, <2>2 DEF Inv, Types, TypeOK, Pcs
  <1> QED
    BY <1>1, InvHolds, PTL

\* The auth store of the console mirrors the session the cookie stands for: with
\* no call in flight the bar shows whom the server would take the browser for,
\* unless calls have overlapped, one has failed or a session has ended elsewhere
\* since the last call that ran by itself and was told who is signed in.
THEOREM StoreMirrorsSession == Spec => []MirrorsWhenOrderly
  <1>1. Inv => MirrorsWhenOrderly
    BY DEF Inv, Mirror, MirrorsWhenOrderly
  <1> QED
    BY <1>1, InvHolds, PTL
=============================================================================
