--------------------------- MODULE SessionsProofs ----------------------------
(***************************************************************************)
(* Proofs about Sessions, for any number of requests, users and sessions   *)
(* and any lifetimes.                                                      *)
(***************************************************************************)
EXTENDS Sessions, TLAPS

\* The steps at which a request knows whom it acts for.
Acting == {"touch", "touch_set", "logout", "verify", "update", "rotate", "mint",
           "mint_set", "index", "members", "revoke", "clear"}

\* What a request has before it starts, and what its step says about its call.
CallFlow(r) ==
    /\ pc[r] = "idle" => call[r] = NoCall /\ held[r] = NotHeld
    /\ reply[r] # 0 => pc[r] = "done"
    /\ pc[r] \in {"get", "touch", "touch_set", "expired", "logout", "verify"} =>
           call[r].op \in Protected /\ call[r].cookie \in Sids
    /\ pc[r] \in {"register", "login", "lookup", "issue"} =>
           call[r].op # "reset" /\ call[r].user \in Users
    /\ pc[r] = "consume" => call[r].op = "reset" /\ held[r].user = None
    /\ pc[r] \in Acting => held[r].user \in Users
    /\ call[r].op = "reset" =>
           pc[r] \in {"consume", "update", "members", "revoke", "clear", "done"}

\* A reset names a token that was issued by a request which has ended, and whose
\* key is gone once the reset has its user.
TokenFlow(r) ==
    call[r].op = "reset" =>
        /\ call[r].token \in Requests
        /\ pc[call[r].token] = "done"
        /\ held[r].user # None => token[call[r].token].user = None

\* The inductive invariant.
IInv ==
    /\ TypeOK
    /\ \A r \in Requests : CallFlow(r) /\ TokenFlow(r)
    /\ TokenSpentOnce

-----------------------------------------------------------------------------
(* Type correctness.                                                       *)

\* Constants that the steps write.
LEMMA Blanks ==
    /\ NoSession \in SessionType /\ NoIndex \in IndexType /\ NoToken \in TokenType
    /\ NoCall \in CallType /\ NotHeld \in HeldType
  BY SessionsAssumption
     DEF NoSession, NoIndex, NoToken, NoCall, NotHeld, SessionType, IndexType,
         TokenType, CallType, HeldType, Names

\* The initial states are well typed.
LEMMA TypeInit == Init => TypeOK
  <1> SUFFICES ASSUME Init PROVE TypeOK
    OBVIOUS
  <1>1. sess \in [Sids -> SessionType]
    <2>1. \A s \in Old :
            [user |-> OldUser[s], created |-> 0, basis |-> 1, expire |-> Idle] \in SessionType
      BY SessionsAssumption DEF SessionType, Names
    <2> QED
      BY <2>1, Blanks DEF Init
  <1>2. pw \in [Users -> Nat]
    BY DEF Init
  <1>3. index \in [Users -> IndexType]
    <2>1. \A u : [members |-> {s \in Old : OldUser[s] = u}, expire |-> Absolute] \in IndexType
      BY SessionsAssumption DEF IndexType, Sids
    <2> QED
      BY <2>1, Blanks DEF Init
  <1> QED
    BY <1>1, <1>2, <1>3, Blanks, SessionsAssumption DEF Init, TypeOK, Pcs, Codes

\* Goto and Answer keep the types of pc and reply.
LEMMA GotoType ==
    ASSUME TypeOK, NEW r \in Requests, NEW p \in Pcs, Goto(r, p)
    PROVE  pc' \in [Requests -> Pcs] /\ reply' \in [Requests -> Codes]
  BY DEF TypeOK, Goto

LEMMA AnswerType ==
    ASSUME TypeOK, NEW r \in Requests, NEW c \in Codes, Answer(r, c)
    PROVE  pc' \in [Requests -> Pcs] /\ reply' \in [Requests -> Codes]
  BY DEF TypeOK, Answer, Pcs

\* What save stores is a session.
LEMMA SavedType ==
    ASSUME TypeOK, NEW r \in Requests
    PROVE  Saved(r) \in SessionType
  <1>1. held[r] \in HeldType /\ now \in 0..MaxTime
    BY DEF TypeOK
  <1> QED
    BY <1>1, SessionsAssumption DEF Saved, SessionType, HeldType

\* The lifetime a touch gives a session.
LEMMA TTLType ==
    ASSUME TypeOK, NEW c \in 0..MaxTime, RemainingTTL(c) > 0
    PROVE  RemainingTTL(c) \in 0..Idle /\ now < c + Absolute
  BY SessionsAssumption DEF TypeOK, RemainingTTL

\* What a request that starts has been given.
LEMMA Called ==
    ASSUME NEW r \in Requests, Start(r)
    PROVE  \E op \in Ops, u \in Users \cup {None}, c \in Cookies \cup {None},
                 t \in Tokens \cup {None} :
                 /\ op \in Protected => c # None
                 /\ call' = [call EXCEPT ![r] =
                               [op |-> op, user |-> u, cookie |-> c, token |-> t, at |-> now]]
                 /\ Goto(r, FirstStep(op))
  BY Zenon DEF Start

\* No step leaves the types.
LEMMA TypeStep ==
    ASSUME TypeOK, \A r \in Requests : CallFlow(r) /\ TokenFlow(r), [Next]_vars
    PROVE  TypeOK'
  <1>1. ASSUME NEW r \in Requests, Start(r) PROVE TypeOK'
    <2>1. pc' \in [Requests -> Pcs] /\ reply' \in [Requests -> Codes]
      BY <1>1, SessionsAssumption, GotoType, AnswerType DEF Start, Pcs, Codes, FirstStep, Protected, AllOps
    <2>2. call' \in [Requests -> CallType]
      <3>1. PICK op \in Ops, u \in Users \cup {None}, c \in Cookies \cup {None},
                 t \in Tokens \cup {None} :
                 /\ op \in Protected => c # None
                 /\ call' = [call EXCEPT ![r] =
                               [op |-> op, user |-> u, cookie |-> c, token |-> t, at |-> now]]
                 /\ Goto(r, FirstStep(op))
        BY <1>1, Called
      <3>2. [op |-> op, user |-> u, cookie |-> c, token |-> t, at |-> now] \in CallType
        BY DEF CallType, Cookies, Tokens, Sids, TypeOK, Names
      <3>3. call \in [Requests -> CallType]
        BY DEF TypeOK
      <3> QED
        BY <3>1, <3>2, <3>3
    <2> QED
      BY <1>1, <2>1, <2>2 DEF Start, TypeOK, db, redis
  <1>2. ASSUME NEW r \in Requests, GetSession(r) PROVE TypeOK'
    <2>0. CallFlow(r) /\ TokenFlow(r)
      OBVIOUS
    <2>1. pc' \in [Requests -> Pcs] /\ reply' \in [Requests -> Codes]
      BY <1>2, GotoType, AnswerType DEF GetSession, Pcs, Codes
    <2>2. held' \in [Requests -> HeldType]
      <3> DEFINE s == sess[call[r].cookie]
      <3>1. s \in SessionType
        BY <1>2, <2>0 DEF GetSession, CallFlow, TypeOK
      <3>2. [user |-> s.user, created |-> s.created, basis |-> s.basis, ttl |-> 0] \in HeldType
        BY <3>1, SessionsAssumption DEF SessionType, HeldType
      <3> QED
        BY <1>2, <3>2 DEF GetSession, TypeOK
    <2> QED
      BY <1>2, <2>1, <2>2 DEF GetSession, TypeOK, db, redis
  <1>3. ASSUME NEW r \in Requests, Touch(r) PROVE TypeOK'
    <2>1. pc' \in [Requests -> Pcs] /\ reply' \in [Requests -> Codes]
      BY <1>3, GotoType, AnswerType DEF Touch, Pcs, Codes
    <2>2. held' \in [Requests -> HeldType]
      <3>1. held[r] \in HeldType /\ held[r].created \in 0..MaxTime
        BY DEF TypeOK, HeldType
      <3>2. \A ttl \in 0..Idle : [held[r] EXCEPT !.ttl = ttl] \in HeldType
        BY <3>1 DEF HeldType
      <3> QED
        BY <1>3, <3>1, <3>2, TTLType DEF Touch, TypeOK
    <2> QED
      BY <1>3, <2>1, <2>2 DEF Touch, TypeOK, db, redis
  <1>4. ASSUME NEW r \in Requests, DeleteExpired(r) PROVE TypeOK'
    <2>1. pc' \in [Requests -> Pcs] /\ reply' \in [Requests -> Codes]
      BY <1>4, GotoType, AnswerType DEF DeleteExpired, Pcs, Codes
    <2>2. sess' \in [Sids -> SessionType]
      BY <1>4, Blanks DEF DeleteExpired, TypeOK
    <2> QED
      BY <1>4, <2>1, <2>2 DEF DeleteExpired, TypeOK, db, redis
  <1>5. ASSUME NEW r \in Requests, TouchSet(r) PROVE TypeOK'
    <2>0. CallFlow(r) /\ TokenFlow(r)
      OBVIOUS
    <2>1. pc' \in [Requests -> Pcs] /\ reply' \in [Requests -> Codes]
      BY <1>5, GotoType, AnswerType DEF TouchSet, Pcs, Codes
    <2>2. sess' \in [Sids -> SessionType]
      BY <1>5, SavedType DEF TouchSet, TypeOK
    <2>3. raced' \subseteq Sids
      BY <1>5, <2>0 DEF TouchSet, TypeOK, CallFlow
    <2> QED
      BY <1>5, <2>1, <2>2, <2>3 DEF TouchSet, TypeOK, db, redis
  <1>6. ASSUME NEW r \in Requests, Logout(r) PROVE TypeOK'
    <2>1. pc' \in [Requests -> Pcs] /\ reply' \in [Requests -> Codes]
      BY <1>6, GotoType, AnswerType DEF Logout, Pcs, Codes
    <2>2. sess' \in [Sids -> SessionType]
      BY <1>6, Blanks DEF Logout, TypeOK
    <2> QED
      BY <1>6, <2>1, <2>2 DEF Logout, TypeOK, db, redis
  <1>7. ASSUME NEW r \in Requests, Register(r) PROVE TypeOK'
    <2>1. pc' \in [Requests -> Pcs] /\ reply' \in [Requests -> Codes]
      BY <1>7, GotoType, AnswerType DEF Register, Pcs, Codes
    <2>2. pw' \in [Users -> Nat]
      BY <1>7 DEF Register, db, TypeOK
    <2>3. held' \in [Requests -> HeldType]
      <3>1. held[r] \in HeldType /\ call[r].user \in Names
        BY DEF TypeOK, CallType
      <3>2. [held[r] EXCEPT !.user = call[r].user, !.basis = 1] \in HeldType
        BY <3>1 DEF HeldType
      <3>3. held' \in {held, [held EXCEPT ![r] = [held[r] EXCEPT !.user = call[r].user, !.basis = 1]]}
        BY <1>7, <3>1 DEF Register, TypeOK, HeldType
      <3> QED
        BY <3>2, <3>3 DEF TypeOK
    <2> QED
      BY <1>7, <2>1, <2>2, <2>3 DEF Register, TypeOK, db, redis
  <1>8. ASSUME NEW r \in Requests, Login(r) PROVE TypeOK'
    <2>0. CallFlow(r) /\ TokenFlow(r)
      OBVIOUS
    <2>1. pc' \in [Requests -> Pcs] /\ reply' \in [Requests -> Codes]
      BY <1>8, GotoType, AnswerType DEF Login, Pcs, Codes
    <2>2. held' \in [Requests -> HeldType]
      <3>1. held[r] \in HeldType /\ call[r].user \in Names /\ pw[call[r].user] \in Nat
        BY <1>8, <2>0 DEF TypeOK, CallType, CallFlow, Login
      <3>2. [held[r] EXCEPT !.user = call[r].user, !.basis = pw[call[r].user]] \in HeldType
        BY <3>1 DEF HeldType
      <3>3. held' \in {held, [held EXCEPT ![r] =
                               [held[r] EXCEPT !.user = call[r].user, !.basis = pw[call[r].user]]]}
        BY <1>8, <3>1 DEF Login, TypeOK, HeldType
      <3> QED
        BY <3>2, <3>3 DEF TypeOK
    <2> QED
      BY <1>8, <2>1, <2>2 DEF Login, TypeOK, db, redis
  <1>9. ASSUME NEW r \in Requests, VerifyCurrent(r) PROVE TypeOK'
    <2>1. pc' \in [Requests -> Pcs] /\ reply' \in [Requests -> Codes]
      BY <1>9, GotoType, AnswerType DEF VerifyCurrent, Pcs, Codes
    <2> QED
      BY <1>9, <2>1 DEF VerifyCurrent, TypeOK, db, redis
  <1>10. ASSUME NEW r \in Requests, Update(r) PROVE TypeOK'
    <2>0. CallFlow(r) /\ TokenFlow(r)
      OBVIOUS
    <2>1. pc' \in [Requests -> Pcs] /\ reply' \in [Requests -> Codes]
      BY <1>10, GotoType, AnswerType DEF Update, Pcs, Codes
    <2>2. pw' \in [Users -> Nat]
      BY <1>10, <2>0 DEF Update, TypeOK, CallFlow, Acting
    <2>3. held' \in [Requests -> HeldType]
      <3>1. held[r] \in HeldType /\ pw[held[r].user] + 1 \in Nat
        BY <1>10, <2>0 DEF TypeOK, CallFlow, Acting, Update
      <3>2. [held[r] EXCEPT !.basis = pw[held[r].user] + 1] \in HeldType
        BY <3>1 DEF HeldType
      <3> QED
        BY <1>10, <3>2 DEF Update, TypeOK
    <2> QED
      BY <1>10, <2>1, <2>2, <2>3 DEF Update, TypeOK, db, redis
  <1>11. ASSUME NEW r \in Requests, Rotate(r) PROVE TypeOK'
    <2>1. pc' \in [Requests -> Pcs] /\ reply' \in [Requests -> Codes]
      BY <1>11, GotoType, AnswerType DEF Rotate, Pcs, Codes
    <2>2. sess' \in [Sids -> SessionType]
      BY <1>11, Blanks DEF Rotate, TypeOK
    <2> QED
      BY <1>11, <2>1, <2>2 DEF Rotate, TypeOK, db, redis
  <1>12. ASSUME NEW r \in Requests, Mint(r) PROVE TypeOK'
    <2>1. pc' \in [Requests -> Pcs] /\ reply' \in [Requests -> Codes]
      BY <1>12, GotoType, AnswerType DEF Mint, Pcs, Codes
    <2>2. held' \in [Requests -> HeldType]
      <3>1. held[r] \in HeldType /\ now \in 0..MaxTime /\ Idle \in 0..Idle
        BY SessionsAssumption DEF TypeOK
      <3>2. [held[r] EXCEPT !.created = now, !.ttl = Idle] \in HeldType
        BY <3>1 DEF HeldType
      <3>3. held' = [held EXCEPT ![r] = [held[r] EXCEPT !.created = now, !.ttl = Idle]]
        BY <1>12, <3>1 DEF Mint, TypeOK, HeldType
      <3> QED
        BY <3>2, <3>3 DEF TypeOK
    <2> QED
      BY <1>12, <2>1, <2>2 DEF Mint, TypeOK, db, redis
  <1>13. ASSUME NEW r \in Requests, MintSet(r) PROVE TypeOK'
    <2>1. pc' \in [Requests -> Pcs] /\ reply' \in [Requests -> Codes]
      BY <1>13, GotoType, AnswerType DEF MintSet, Pcs, Codes
    <2>2. sess' \in [Sids -> SessionType]
      BY <1>13, SavedType DEF MintSet, TypeOK
    <2>3. raced' \subseteq Sids
      BY <1>13 DEF MintSet, TypeOK, Sids
    <2> QED
      BY <1>13, <2>1, <2>2, <2>3 DEF MintSet, TypeOK, db, redis
  <1>14. ASSUME NEW r \in Requests, IndexSession(r) PROVE TypeOK'
    <2>1. pc' \in [Requests -> Pcs] /\ reply' \in [Requests -> Codes]
      BY <1>14, GotoType, AnswerType DEF IndexSession, Pcs, Codes
    <2>2. index' \in [Users -> IndexType]
      <3>1. \A e \in IndexType : IndexWith(e, r) \in IndexType
        BY SessionsAssumption DEF IndexType, IndexWith, Sids, TypeOK
      <3> QED
        BY <1>14, <3>1 DEF IndexSession, TypeOK
    <2> QED
      BY <1>14, <2>1, <2>2 DEF IndexSession, TypeOK, db, redis
  <1>15. ASSUME NEW r \in Requests, Members(r) PROVE TypeOK'
    <2>0. CallFlow(r) /\ TokenFlow(r)
      OBVIOUS
    <2>1. pc' \in [Requests -> Pcs] /\ reply' \in [Requests -> Codes]
      BY <1>15, GotoType, AnswerType DEF Members, Pcs, Codes, NextRevoke
    <2>2. todo' \in [Requests -> SUBSET Sids]
      <3>1. held[r].user \in Users
        BY <1>15, <2>0 DEF Members, CallFlow, Acting
      <3>2. Doomed(r, index[held[r].user].members) \subseteq Sids
        BY <3>1 DEF Doomed, TypeOK, IndexType
      <3> QED
        BY <1>15, <3>2 DEF Members, NextRevoke, TypeOK
    <2>3. raced' \subseteq Sids
      BY <1>15 DEF Members, TypeOK, Sids, Starting
    <2> QED
      BY <1>15, <2>1, <2>2, <2>3 DEF Members, TypeOK, db, redis
  <1>16. ASSUME NEW r \in Requests, Revoke(r) PROVE TypeOK'
    <2>1. pc' \in [Requests -> Pcs] /\ reply' \in [Requests -> Codes]
      BY <1>16, GotoType, AnswerType DEF Revoke, Pcs, Codes, NextRevoke
    <2>2. sess' \in [Sids -> SessionType]
      BY <1>16, Blanks DEF Revoke, TypeOK
    <2>3. todo' \in [Requests -> SUBSET Sids]
      BY <1>16 DEF Revoke, NextRevoke, TypeOK
    <2> QED
      BY <1>16, <2>1, <2>2, <2>3 DEF Revoke, TypeOK, db, redis
  <1>17. ASSUME NEW r \in Requests, ClearIndex(r) PROVE TypeOK'
    <2>0. CallFlow(r) /\ TokenFlow(r)
      OBVIOUS
    <2>1. pc' \in [Requests -> Pcs] /\ reply' \in [Requests -> Codes]
      BY <1>17, GotoType, AnswerType DEF ClearIndex, Pcs, Codes
    <2>2. index' \in [Users -> IndexType]
      BY <1>17, Blanks DEF ClearIndex, TypeOK
    <2>3. raced' \subseteq Sids
      <3>1. held[r].user \in Users
        BY <1>17, <2>0 DEF ClearIndex, CallFlow, Acting
      <3>2. index[held[r].user].members \subseteq Sids
        BY <3>1 DEF TypeOK, IndexType
      <3> QED
        BY <1>17, <3>2 DEF ClearIndex, TypeOK
    <2> QED
      BY <1>17, <2>1, <2>2, <2>3 DEF ClearIndex, TypeOK, db, redis
  <1>18. ASSUME NEW r \in Requests, Lookup(r) PROVE TypeOK'
    <2>1. pc' \in [Requests -> Pcs] /\ reply' \in [Requests -> Codes]
      BY <1>18, GotoType, AnswerType DEF Lookup, Pcs, Codes
    <2> QED
      BY <1>18, <2>1 DEF Lookup, TypeOK, db, redis
  <1>19. ASSUME NEW r \in Requests, Issue(r) PROVE TypeOK'
    <2>1. pc' \in [Requests -> Pcs] /\ reply' \in [Requests -> Codes]
      BY <1>19, GotoType, AnswerType DEF Issue, Pcs, Codes
    <2>2. token' \in [Requests -> TokenType]
      <3>1. [user |-> call[r].user, expire |-> now + ResetTTL] \in TokenType
        BY SessionsAssumption DEF TokenType, TypeOK, CallType
      <3> QED
        BY <1>19, <3>1 DEF Issue, TypeOK
    <2> QED
      BY <1>19, <2>1, <2>2 DEF Issue, TypeOK, db, redis
  <1>20. ASSUME NEW r \in Requests, Consume(r) PROVE TypeOK'
    <2>0. CallFlow(r) /\ TokenFlow(r)
      OBVIOUS
    <2>1. pc' \in [Requests -> Pcs] /\ reply' \in [Requests -> Codes]
      BY <1>20, GotoType, AnswerType DEF Consume, Pcs, Codes
    <2>2. token' \in [Requests -> TokenType]
      BY <1>20, Blanks DEF Consume, Spent, TypeOK
    <2>3. held' \in [Requests -> HeldType]
      <3>1. held[r] \in HeldType
        BY DEF TypeOK
      <3>2. token[call[r].token].user \in Names
        BY <1>20, <2>0 DEF Consume, TypeOK, TokenType, TokenFlow, CallFlow
      <3>3. [held[r] EXCEPT !.user = token[call[r].token].user] \in HeldType
        BY <3>1, <3>2 DEF HeldType
      <3> QED
        BY <1>20, <3>3 DEF Consume, TypeOK
    <2> QED
      BY <1>20, <2>1, <2>2, <2>3 DEF Consume, TypeOK, db, redis
  <1>21. ASSUME NEW r \in Requests, Fail(r) PROVE TypeOK'
    <2>1. pc' \in [Requests -> Pcs] /\ reply' \in [Requests -> Codes]
      BY <1>21, GotoType, AnswerType DEF Fail, Pcs, Codes
    <2>2. raced' \subseteq Sids
      BY <1>21 DEF Fail, TypeOK, Sids
    <2> QED
      BY <1>21, <2>1, <2>2 DEF Fail, TypeOK, db, redis
  <1>22. ASSUME Tick PROVE TypeOK'
    <2>1. now' \in 0..MaxTime
      BY <1>22, SessionsAssumption DEF Tick, TypeOK
    <2>2. sess' \in [Sids -> SessionType] /\ index' \in [Users -> IndexType]
          /\ token' \in [Requests -> TokenType]
      BY <1>22, Blanks DEF Tick, TypeOK
    <2> QED
      BY <1>22, <2>1, <2>2 DEF Tick, TypeOK, db
  <1>23. ASSUME UNCHANGED vars PROVE TypeOK'
    BY <1>23 DEF vars, TypeOK
  <1> QED
    BY <1>1, <1>2, <1>3, <1>4, <1>5, <1>6, <1>7, <1>8, <1>9, <1>10, <1>11, <1>12, <1>13, <1>14, <1>15, <1>16, <1>17, <1>18, <1>19, <1>20, <1>21, <1>22, <1>23
       DEF Next, RequestStep, Finished

-----------------------------------------------------------------------------
(* Control flow and tokens.                                                *)

\* A request's step leaves the other requests alone, and an ended request takes
\* none.
LEMMA OthersKeep ==
    ASSUME TypeOK, NEW r \in Requests, RequestStep(r)
    PROVE  /\ pc[r] # "done"
           /\ \A q \in Requests \ {r} :
                /\ pc'[q] = pc[q] /\ reply'[q] = reply[q]
                /\ call'[q] = call[q] /\ held'[q] = held[q]
  <1> USE DEF TypeOK, Goto, Answer
  <1>1. CASE Start(r)
    BY <1>1 DEF Start
  <1>2. CASE GetSession(r)
    BY <1>2 DEF GetSession
  <1>3. CASE Touch(r)
    BY <1>3 DEF Touch
  <1>4. CASE DeleteExpired(r)
    BY <1>4 DEF DeleteExpired
  <1>5. CASE TouchSet(r)
    BY <1>5 DEF TouchSet
  <1>6. CASE Logout(r)
    BY <1>6 DEF Logout
  <1>7. CASE Register(r)
    BY <1>7 DEF Register
  <1>8. CASE Login(r)
    BY <1>8 DEF Login
  <1>9. CASE VerifyCurrent(r)
    BY <1>9 DEF VerifyCurrent
  <1>10. CASE Update(r)
    BY <1>10 DEF Update
  <1>11. CASE Rotate(r)
    BY <1>11 DEF Rotate
  <1>12. CASE Mint(r)
    BY <1>12 DEF Mint
  <1>13. CASE MintSet(r)
    BY <1>13 DEF MintSet
  <1>14. CASE IndexSession(r)
    BY <1>14 DEF IndexSession
  <1>15. CASE Members(r)
    BY <1>15 DEF Members, NextRevoke
  <1>16. CASE Revoke(r)
    BY <1>16 DEF Revoke, NextRevoke
  <1>17. CASE ClearIndex(r)
    BY <1>17 DEF ClearIndex
  <1>18. CASE Lookup(r)
    BY <1>18 DEF Lookup
  <1>19. CASE Issue(r)
    BY <1>19 DEF Issue
  <1>20. CASE Consume(r)
    BY <1>20 DEF Consume
  <1>21. CASE Fail(r)
    BY <1>21 DEF Fail
  <1> QED
    BY <1>1, <1>2, <1>3, <1>4, <1>5, <1>6, <1>7, <1>8, <1>9, <1>10, <1>11, <1>12, <1>13, <1>14, <1>15, <1>16, <1>17, <1>18, <1>19, <1>20, <1>21
       DEF RequestStep

\* The request that takes a step stays within the flow of its operation.
LEMMA CallFlowStep ==
    ASSUME TypeOK, NEW r \in Requests, CallFlow(r), TokenFlow(r), RequestStep(r)
    PROVE  CallFlow(r)'
  <1> USE SessionsAssumption DEF TypeOK, Goto, Answer, CallFlow, Acting
  <1>1. CASE Start(r)
    BY <1>1 DEF Start, FirstStep, Cookies, Tokens, Protected, AllOps, NoCall, NotHeld, Sids
  <1>2. CASE GetSession(r)
    BY <1>2 DEF GetSession, Live, SessionType, Names
  <1>3. CASE Touch(r)
    <2>1. held'[r].user = held[r].user
      BY <1>3 DEF Touch, HeldType
    <2> QED
      BY <1>3, <2>1 DEF Touch, Protected
  <1>4. CASE DeleteExpired(r)
    BY <1>4 DEF DeleteExpired
  <1>5. CASE TouchSet(r)
    BY <1>5 DEF TouchSet, Protected
  <1>6. CASE Logout(r)
    BY <1>6 DEF Logout
  <1>7. CASE Register(r)
    <2>1. call[r].user \in Users /\ call[r].op # "reset"
      BY <1>7 DEF Register
    <2>2. held'[r].user = call[r].user \/ pc'[r] = "done"
      BY <1>7 DEF Register, HeldType
    <2> QED
      BY <1>7, <2>1, <2>2 DEF Register
  <1>8. CASE Login(r)
    <2>1. call[r].user \in Users /\ call[r].op # "reset"
      BY <1>8 DEF Login
    <2>2. held'[r].user = call[r].user \/ pc'[r] = "done"
      BY <1>8 DEF Login, HeldType
    <2> QED
      BY <1>8, <2>1, <2>2 DEF Login
  <1>9. CASE VerifyCurrent(r)
    BY <1>9 DEF VerifyCurrent
  <1>10. CASE Update(r)
    BY <1>10 DEF Update
  <1>11. CASE Rotate(r)
    BY <1>11 DEF Rotate
  <1>12. CASE Mint(r)
    BY <1>12 DEF Mint
  <1>13. CASE MintSet(r)
    BY <1>13 DEF MintSet
  <1>14. CASE IndexSession(r)
    BY <1>14 DEF IndexSession
  <1>15. CASE Members(r)
    BY <1>15 DEF Members, NextRevoke
  <1>16. CASE Revoke(r)
    BY <1>16 DEF Revoke, NextRevoke
  <1>17. CASE ClearIndex(r)
    BY <1>17 DEF ClearIndex
  <1>18. CASE Lookup(r)
    BY <1>18 DEF Lookup
  <1>19. CASE Issue(r)
    BY <1>19 DEF Issue
  <1>20. CASE Consume(r)
    <2>1. call[r].op = "reset" /\ call[r].token \in Requests
      BY <1>20 DEF Consume, TokenFlow
    <2>2. token[call[r].token].user \in Users \cup {None}
      BY <2>1 DEF TokenType, Names
    <2>3. pc'[r] = "done" \/ (pc'[r] = "update" /\ held'[r].user \in Users)
      BY <1>20, <2>2 DEF Consume, HeldType
    <2> QED
      BY <1>20, <2>1, <2>3 DEF Consume
  <1>21. CASE Fail(r)
    BY <1>21 DEF Fail
  <1> QED
    BY <1>1, <1>2, <1>3, <1>4, <1>5, <1>6, <1>7, <1>8, <1>9, <1>10, <1>11, <1>12, <1>13, <1>14, <1>15, <1>16, <1>17, <1>18, <1>19, <1>20, <1>21
       DEF RequestStep

\* A token's key, once gone, stays gone: only the request it is named after
\* writes it, and that one has ended.
LEMMA TokenStaysSpent ==
    ASSUME TypeOK, NEW t \in Requests, pc[t] = "done", token[t].user = None,
           NEW r \in Requests, RequestStep(r), CallFlow(r), TokenFlow(r)
    PROVE  token'[t].user = None
  <1>1. pc[r] # "done"
    BY OthersKeep
  <1>2. CASE Issue(r)
    BY <1>1, <1>2 DEF Issue, TypeOK
  <1>3. CASE Consume(r)
    BY <1>3 DEF Consume, Spent, NoToken, TypeOK
  <1>4. CASE UNCHANGED token
    BY <1>4
  <1> QED
    BY <1>2, <1>3, <1>4
    DEF RequestStep, redis, Start, GetSession, Touch, DeleteExpired, TouchSet, Logout,
        Register, Login, VerifyCurrent, Update, Rotate, Mint, MintSet, IndexSession,
        Members, Revoke, ClearIndex, Lookup, Fail

\* A reset gets its user in no other way than by consuming the token, which was
\* there until then.
LEMMA ConsumeOnly ==
    ASSUME TypeOK, NEW r \in Requests, RequestStep(r), CallFlow(r), TokenFlow(r),
           call'[r].op = "reset", held'[r].user # None
    PROVE  /\ call'[r] = call[r] /\ call[r].op = "reset"
           /\ \/ held[r].user # None
              \/ /\ token[call[r].token].user # None
                 /\ token' = [token EXCEPT ![call[r].token] = NoToken]
  <1> USE SessionsAssumption DEF TypeOK, CallFlow
  <1>1. ASSUME Start(r) PROVE FALSE
    BY <1>1 DEF Start, NotHeld, Goto
  <1>2. CASE Consume(r)
    BY <1>2 DEF Consume, Spent
  <1>3. ASSUME GetSession(r) \/ Register(r) \/ Login(r) PROVE FALSE
    BY <1>3 DEF GetSession, Register, Login, Protected
  <1>4. CASE Touch(r) \/ Update(r) \/ Mint(r)
    <2>1. held'[r].user = held[r].user
      BY <1>4 DEF Touch, Update, Mint, HeldType
    <2> QED
      BY <1>4, <2>1 DEF Touch, Update, Mint
  <1>5. CASE UNCHANGED <<call, held>>
    BY <1>5
  <1> QED
    BY <1>1, <1>2, <1>3, <1>4, <1>5
    DEF RequestStep, DeleteExpired, TouchSet, Logout, VerifyCurrent, Rotate, MintSet,
        IndexSession, Members, Revoke, ClearIndex, Lookup, Issue, Fail

\* A new reset names a token that was handed out.
LEMMA StartedToken ==
    ASSUME TypeOK, \A q \in Requests : CallFlow(q), NEW r \in Requests, RequestStep(r),
           call'[r].op = "reset", call[r].op # "reset"
    PROVE  call'[r].token \in Requests /\ pc[call'[r].token] = "done"
  <1>1. CASE Start(r)
    <2>1. call'[r].token \in Tokens
      BY <1>1, SessionsAssumption DEF Start, TypeOK
    <2> QED
      BY <2>1 DEF Tokens, CallFlow
  <1>2. CASE UNCHANGED call
    BY <1>2
  <1> QED
    BY <1>1, <1>2
    DEF RequestStep, GetSession, Touch, DeleteExpired, TouchSet, Logout, Register, Login,
        VerifyCurrent, Update, Rotate, Mint, MintSet, IndexSession, Members, Revoke,
        ClearIndex, Lookup, Issue, Consume, Fail

\* A reset keeps its call.
LEMMA CallKept ==
    ASSUME TypeOK, NEW r \in Requests, RequestStep(r), CallFlow(r), call[r].op = "reset"
    PROVE  call'[r] = call[r]
  BY SessionsAssumption
  DEF RequestStep, Start, GetSession, Touch, DeleteExpired, TouchSet, Logout, Register,
      Login, VerifyCurrent, Update, Rotate, Mint, MintSet, IndexSession, Members, Revoke,
      ClearIndex, Lookup, Issue, Consume, Fail, CallFlow, NoCall

\* Tokens stay within their flow, whoever takes a step.
LEMMA TokenFlowStep ==
    ASSUME IInv, NEW r \in Requests, RequestStep(r), NEW q \in Requests
    PROVE  TokenFlow(q)'
  <1> USE DEF IInv
  <1> SUFFICES ASSUME call'[q].op = "reset"
               PROVE  /\ call'[q].token \in Requests
                      /\ pc'[call'[q].token] = "done"
                      /\ held'[q].user # None => token'[call'[q].token].user = None
    BY DEF TokenFlow
  <1>1. call'[q].token \in Requests /\ pc[call'[q].token] = "done"
    <2>1. CASE q = r /\ call[r].op # "reset"
      BY <2>1, StartedToken
    <2>2. CASE q = r /\ call[r].op = "reset"
      BY <2>2, CallKept DEF TokenFlow
    <2>3. CASE q # r
      BY <2>3, OthersKeep DEF TokenFlow
    <2> QED
      BY <2>1, <2>2, <2>3
  <1>2. pc'[call'[q].token] = "done"
    BY <1>1, OthersKeep
  <1>3. ASSUME held'[q].user # None PROVE token'[call'[q].token].user = None
    <2>1. CASE call'[q] = call[q] /\ held[q].user # None
      <3>1. token[call[q].token].user = None
        BY <2>1 DEF TokenFlow
      <3> QED
        BY <1>1, <2>1, <3>1, TokenStaysSpent
    <2>2. CASE q = r /\ held[q].user = None
      <3>1. call'[r] = call[r] /\ token' = [token EXCEPT ![call[r].token] = NoToken]
        BY <1>3, <2>2, ConsumeOnly
      <3> QED
        BY <1>1, <2>2, <3>1 DEF NoToken, TypeOK
    <2>3. CASE q = r /\ held[q].user # None
      BY <1>3, <2>1, <2>3, ConsumeOnly
    <2>4. CASE q # r
      BY <1>3, <2>1, <2>4, OthersKeep
    <2> QED
      BY <2>2, <2>3, <2>4
  <1> QED
    BY <1>1, <1>2, <1>3

\* A second reset finds the token gone.
LEMMA SpentOnceStep ==
    ASSUME IInv, NEW r \in Requests, RequestStep(r)
    PROVE  TokenSpentOnce'
  <1> USE DEF IInv
  <1>1. ASSUME NEW p \in Requests, NEW q \in Requests, p # q,
               call'[p].op = "reset", call'[q].op = "reset",
               call'[p].token = call'[q].token,
               held'[p].user # None, held'[q].user # None
        PROVE  FALSE
    <2>1. ASSUME NEW x \in Requests, NEW y \in Requests, x # y, x = r,
                 call'[x].op = "reset", call'[y].op = "reset",
                 call'[x].token = call'[y].token,
                 held'[x].user # None, held'[y].user # None
          PROVE  FALSE
      <3>1. call[y] = call'[y] /\ held[y] = held'[y]
        BY <2>1, OthersKeep
      <3>2. call'[x] = call[x] /\ call[x].op = "reset"
        BY <2>1, ConsumeOnly
      <3>3. held[x].user = None
        BY <2>1, <3>1, <3>2 DEF TokenSpentOnce
      <3>4. token[call[x].token].user # None
        BY <2>1, <3>3, ConsumeOnly
      <3>5. token[call[y].token].user = None
        BY <2>1, <3>1 DEF TokenFlow
      <3> QED
        BY <2>1, <3>1, <3>2, <3>4, <3>5
    <2>2. CASE p = r
      BY <1>1, <2>1, <2>2
    <2>3. CASE q = r
      BY <1>1, <2>1, <2>3
    <2>4. CASE p # r /\ q # r
      <3>1. /\ call[p] = call'[p] /\ held[p] = held'[p]
            /\ call[q] = call'[q] /\ held[q] = held'[q]
        BY <2>4, OthersKeep
      <3> QED
        BY <1>1, <3>1 DEF TokenSpentOnce
    <2> QED
      BY <2>2, <2>3, <2>4
  <1> QED
    BY <1>1 DEF TokenSpentOnce

\* Time only removes keys.
LEMMA TickStep ==
    ASSUME IInv, Tick
    PROVE  (\A r \in Requests : CallFlow(r) /\ TokenFlow(r))' /\ TokenSpentOnce'
  <1> USE DEF IInv
  <1>1. UNCHANGED <<call, pc, held, reply>>
    BY DEF Tick
  <1>2. \A t \in Requests : token[t].user = None => token'[t].user = None
    BY DEF Tick, NoToken
  <1>3. ASSUME NEW r \in Requests PROVE CallFlow(r)'
    BY <1>1 DEF CallFlow
  <1>4. ASSUME NEW r \in Requests PROVE TokenFlow(r)'
    BY <1>1, <1>2 DEF TokenFlow
  <1> QED
    BY <1>1, <1>3, <1>4 DEF TokenSpentOnce

\* The inductive invariant holds at the start and is kept by every step.
LEMMA InitIInv == Init => IInv
  <1> SUFFICES ASSUME Init PROVE IInv
    OBVIOUS
  <1>1. \A r \in Requests : pc[r] = "idle" /\ call[r] = NoCall /\ held[r] = NotHeld
                            /\ reply[r] = 0 /\ call[r].op # "reset"
    BY SessionsAssumption DEF Init, NoCall, AllOps
  <1> QED
    BY <1>1, TypeInit DEF IInv, CallFlow, TokenFlow, TokenSpentOnce, Acting

LEMMA NextIInv ==
    ASSUME IInv, [Next]_vars
    PROVE  IInv'
  <1>1. TypeOK'
    BY TypeStep DEF IInv
  <1>2. ASSUME NEW r \in Requests, RequestStep(r) PROVE IInv'
    <2>1. \A q \in Requests : CallFlow(q)'
      <3> SUFFICES ASSUME NEW q \in Requests PROVE CallFlow(q)'
        OBVIOUS
      <3>1. CASE q = r
        BY <1>2, <3>1, CallFlowStep DEF IInv
      <3>2. CASE q # r
        BY <1>2, <3>2, OthersKeep DEF IInv, CallFlow
      <3> QED
        BY <3>1, <3>2
    <2>2. \A q \in Requests : TokenFlow(q)'
      BY <1>2, TokenFlowStep
    <2>3. TokenSpentOnce'
      BY <1>2, SpentOnceStep
    <2> QED
      BY <1>1, <2>1, <2>2, <2>3 DEF IInv
  <1>3. CASE Tick
    BY <1>1, <1>3, TickStep DEF IInv
  <1>4. CASE UNCHANGED vars
    BY <1>1, <1>4 DEF vars, IInv, CallFlow, TokenFlow, TokenSpentOnce
  <1> QED
    BY <1>2, <1>3, <1>4 DEF Next, Finished

\* The inductive invariant holds throughout.
LEMMA Invariant == Spec => []IInv
  <1>1. Init => IInv
    BY InitIInv
  <1>2. IInv /\ [Next]_vars => IInv'
    BY NextIInv
  <1> QED
    BY <1>1, <1>2, PTL DEF Spec

-----------------------------------------------------------------------------
(* The theorems.                                                           *)

\* Every variable keeps its type: no session, index or token outlives the
\* longest lifetime CreateSession, TouchSession and CreateResetToken give it.
THEOREM TypeCorrect == Spec => []TypeOK
  BY Invariant, PTL DEF IInv

\* A reset token works once, however many resets present it at the same time
\* and whatever else fails: ConsumeResetToken's GETDEL is enough.
THEOREM TokenWorksOnce == Spec => []TokenSpentOnce
  BY Invariant, PTL DEF IInv

-----------------------------------------------------------------------------
(* Revocation: the inductive invariant.                                    *)

\* The steps of startSession before the session is indexed, and the steps at
\* which it may exist.
Starts == {"rotate", "mint", "mint_set", "index"}
Late == {"index", "members", "revoke", "clear", "done"}

\* Which operations reach which steps; a cookie is one that was handed out.
OpFlow(r) ==
    /\ pc[r] \in {"get", "register", "login", "lookup", "issue", "consume"} => held[r] = NotHeld
    /\ pc[r] = "register" => call[r].op = "register"
    /\ pc[r] = "login" => call[r].op = "login"
    /\ pc[r] \in {"lookup", "issue"} => call[r].op = "forgot"
    /\ pc[r] \in Starts => call[r].op \in Minting
    /\ pc[r] = "verify" => call[r].op = "change"
    /\ pc[r] \in {"update", "members", "revoke"} => call[r].op \in {"change", "reset"}
    /\ pc[r] = "clear" => call[r].op = "reset"
    /\ call[r].cookie \in Requests => pc[call[r].cookie] = "done"

\* A session id stands for one session: whose, from when, on which password.
BornTo(s) == IF s \in Old THEN OldUser[s] ELSE held[s].user
BornWith(s) == IF s \in Old THEN 1 ELSE held[s].basis
Agrees(x, s) == x.user = BornTo(s) /\ x.created = Opened(s) /\ x.basis = BornWith(s)

Identified ==
    /\ \A s \in Sids : Live(s) => Agrees(sess[s], s) /\ (s \in Requests => pc[s] \in Late)
    /\ \A r \in Requests : pc[r] \in {"touch", "touch_set"} => Agrees(held[r], call[r].cookie)

\* Nothing is from the future, and no session knows a password not yet set.
Ages ==
    /\ \A r \in Requests : /\ held[r].created <= now
                           /\ held[r].user \in Users => held[r].basis <= pw[held[r].user]
    /\ \A s \in Old : pw[OldUser[s]] >= 1

\* The ids in the index and on a list to revoke are of sessions of that user,
\* and never of the session a change has minted itself.
Owned ==
    /\ \A u \in Users : \A s \in index[u].members :
         s \in Requests => pc[s] \in Late /\ held[s].user = u
    /\ \A r \in Requests : \A s \in todo[r] :
         /\ pc[r] \in Late
         /\ s \in Requests => s # r /\ pc[s] \in Late /\ held[s].user = held[r].user

\* A session that revocation must find, and where it finds it.
Counted(s) == s \notin raced /\ Live(s) /\ now < sess[s].created + Absolute

Indexed ==
    \A s \in Sids : Counted(s) /\ (s \in Old \/ pc[s] # "index") =>
        /\ s \in index[sess[s].user].members
        /\ index[sess[s].user].expire >= sess[s].created + Absolute

\* A change or a reset that has listed the sessions of its user: the older ones
\* are on its list, and no older one is still being started.
Listed(r) ==
    \/ pc[r] \in {"revoke", "clear"}
    \/ pc[r] = "done" /\ reply[r] = 200 /\ call[r].op \in {"change", "reset"}

NoStaleStart(r) ==
    \A q \in Requests : pc[q] \in Starts /\ held[q].user = held[r].user =>
        q \in raced \/ held[q].basis >= held[r].basis

NoStaleSession(r) ==
    \A s \in Sids :
        Counted(s) /\ sess[s].user = held[r].user /\ sess[s].basis < held[r].basis =>
            pc[r] = "revoke" /\ s \in todo[r]

NoStale == \A r \in Requests : Listed(r) => NoStaleStart(r) /\ NoStaleSession(r)

\* A session that has been minted lasts, unless somebody else revokes it.
Rival(r) ==
    \E q \in Requests \ {r} : call[q].op \in {"change", "reset"} /\ held[q].user = held[r].user

Surviving ==
    \A r \in Requests : pc[r] \in {"index", "members", "revoke"} /\ call[r].op \in Minting =>
        \/ Live(r) /\ sess[r].expire >= held[r].created + held[r].ttl
        \/ now >= held[r].created + held[r].ttl
        \/ Rival(r)

Flows == IInv /\ \A r \in Requests : OpFlow(r)

RInv == Flows /\ Identified /\ Ages /\ Owned /\ Indexed /\ NoStale /\ Surviving

-----------------------------------------------------------------------------
(* What a step can change.                                                 *)

LEMMA Scalars ==
    ASSUME TypeOK
    PROVE  /\ now \in Nat /\ Absolute \in Nat /\ Idle \in Nat
           /\ \A u \in Users : /\ pw[u] \in Nat /\ index[u].expire \in Nat
                               /\ index[u].members \subseteq Sids
           /\ \A r \in Requests : /\ held[r].user \in Names /\ held[r].created \in Nat
                                  /\ held[r].basis \in Nat /\ held[r].ttl \in Nat
                                  /\ todo[r] \subseteq Sids
           /\ \A s \in Sids : /\ sess[s].user \in Names /\ sess[s].created \in Nat
                              /\ sess[s].basis \in Nat /\ sess[s].expire \in Nat
  BY SessionsAssumption DEF TypeOK, HeldType, SessionType, IndexType

LEMMA Writers ==
    ASSUME NEW r \in Requests, RequestStep(r)
    PROVE  /\ now' = now
           /\ \/ sess' = sess \/ DeleteExpired(r) \/ TouchSet(r) \/ Logout(r) \/ Rotate(r)
              \/ MintSet(r) \/ Revoke(r)
           /\ index' = index \/ IndexSession(r) \/ ClearIndex(r)
           /\ pw' = pw \/ Register(r) \/ Update(r)
           /\ \/ held' = held \/ GetSession(r) \/ Touch(r) \/ Register(r) \/ Login(r)
              \/ Update(r) \/ Mint(r) \/ Consume(r)
           /\ todo' = todo \/ Members(r) \/ Revoke(r)
           /\ call' = call \/ Start(r)
  <1>1. now' = now
    BY DEF RequestStep, redis, db, Start, GetSession, Touch, DeleteExpired,
           TouchSet, Logout, Register, Login, VerifyCurrent, Update, Rotate, Mint,
           MintSet, IndexSession, Members, Revoke, ClearIndex, Lookup, Issue,
           Consume, Fail
  <1>2. \/ sess' = sess \/ DeleteExpired(r) \/ TouchSet(r) \/ Logout(r) \/ Rotate(r)
        \/ MintSet(r) \/ Revoke(r)
    BY DEF RequestStep, redis, db, Start, GetSession, Touch, Register, Login,
           VerifyCurrent, Update, Mint, IndexSession, Members, ClearIndex, Lookup,
           Issue, Consume, Fail
  <1>3. index' = index \/ IndexSession(r) \/ ClearIndex(r)
    BY DEF RequestStep, redis, db, Start, GetSession, Touch, DeleteExpired,
           TouchSet, Logout, Register, Login, VerifyCurrent, Update, Rotate, Mint,
           MintSet, Members, Revoke, Lookup, Issue, Consume, Fail
  <1>4. pw' = pw \/ Register(r) \/ Update(r)
    BY DEF RequestStep, redis, db, Start, GetSession, Touch, DeleteExpired,
           TouchSet, Logout, Login, VerifyCurrent, Rotate, Mint, MintSet,
           IndexSession, Members, Revoke, ClearIndex, Lookup, Issue, Consume, Fail
  <1>5. \/ held' = held \/ GetSession(r) \/ Touch(r) \/ Register(r) \/ Login(r)
        \/ Update(r) \/ Mint(r) \/ Consume(r)
    BY DEF RequestStep, redis, db, Start, DeleteExpired, TouchSet, Logout,
           VerifyCurrent, Rotate, MintSet, IndexSession, Members, Revoke,
           ClearIndex, Lookup, Issue, Fail
  <1>6. todo' = todo \/ Members(r) \/ Revoke(r)
    BY DEF RequestStep, redis, db, Start, GetSession, Touch, DeleteExpired,
           TouchSet, Logout, Register, Login, VerifyCurrent, Update, Rotate, Mint,
           MintSet, IndexSession, ClearIndex, Lookup, Issue, Consume, Fail
  <1>7. call' = call \/ Start(r)
    BY DEF RequestStep, redis, db, GetSession, Touch, DeleteExpired, TouchSet,
           Logout, Register, Login, VerifyCurrent, Update, Rotate, Mint, MintSet,
           IndexSession, Members, Revoke, ClearIndex, Lookup, Issue, Consume, Fail
  <1> QED
    BY <1>1, <1>2, <1>3, <1>4, <1>5, <1>6, <1>7

LEMMA RacedGrows ==
    ASSUME NEW r \in Requests, RequestStep(r)
    PROVE  raced \subseteq raced'
  BY DEF RequestStep, Start, GetSession, Touch, DeleteExpired, TouchSet, Logout,
         Register, Login, VerifyCurrent, Update, Rotate, Mint, MintSet, IndexSession,
         Members, Revoke, ClearIndex, Lookup, Issue, Consume, Fail

\* Where each step leads.
LEMMA Leads ==
    ASSUME TypeOK, NEW r \in Requests
    PROVE  /\ Start(r) => pc'[r] \in {"get", "register", "login", "lookup", "consume"}
           /\ GetSession(r) => pc'[r] \in {"done", "expired", "touch"}
           /\ Touch(r) => pc'[r] \in {"expired", "touch_set"}
           /\ DeleteExpired(r) => pc'[r] \in {"done"}
           /\ TouchSet(r) => pc'[r] \in {"done", "logout", "verify"}
           /\ Logout(r) => pc'[r] \in {"done"}
           /\ Register(r) => pc'[r] \in {"rotate", "done"}
           /\ Login(r) => pc'[r] \in {"rotate", "done"}
           /\ VerifyCurrent(r) => pc'[r] \in {"update", "done"}
           /\ Update(r) => pc'[r] \in {"rotate", "members", "done"}
           /\ Rotate(r) => pc'[r] \in {"mint"}
           /\ Mint(r) => pc'[r] \in {"mint_set"}
           /\ MintSet(r) => pc'[r] \in {"index", "done"}
           /\ IndexSession(r) => pc'[r] \in {"done", "members"}
           /\ Members(r) => pc'[r] \in {"revoke", "clear", "done"}
           /\ Revoke(r) => pc'[r] \in {"revoke", "clear", "done"}
           /\ ClearIndex(r) => pc'[r] \in {"done"}
           /\ Lookup(r) => pc'[r] \in {"issue", "done"}
           /\ Issue(r) => pc'[r] \in {"done"}
           /\ Consume(r) => pc'[r] \in {"update", "done"}
           /\ Fail(r) => pc'[r] \in {"done"}
  <1> USE DEF TypeOK, Goto, Answer
  <1>1. Start(r) => pc'[r] \in {"get", "register", "login", "lookup", "consume"}
    BY SessionsAssumption DEF Start, FirstStep, AllOps, Protected
  <1>2. GetSession(r) => pc'[r] \in {"done", "expired", "touch"}
    BY DEF GetSession
  <1>3. Touch(r) => pc'[r] \in {"expired", "touch_set"}
    BY DEF Touch
  <1>4. DeleteExpired(r) => pc'[r] \in {"done"}
    BY DEF DeleteExpired
  <1>5. TouchSet(r) => pc'[r] \in {"done", "logout", "verify"}
    BY DEF TouchSet
  <1>6. Logout(r) => pc'[r] \in {"done"}
    BY DEF Logout
  <1>7. Register(r) => pc'[r] \in {"rotate", "done"}
    BY DEF Register
  <1>8. Login(r) => pc'[r] \in {"rotate", "done"}
    BY DEF Login
  <1>9. VerifyCurrent(r) => pc'[r] \in {"update", "done"}
    BY DEF VerifyCurrent
  <1>10. Update(r) => pc'[r] \in {"rotate", "members", "done"}
    BY DEF Update
  <1>11. Rotate(r) => pc'[r] \in {"mint"}
    BY DEF Rotate
  <1>12. Mint(r) => pc'[r] \in {"mint_set"}
    BY DEF Mint
  <1>13. MintSet(r) => pc'[r] \in {"index", "done"}
    BY DEF MintSet
  <1>14. IndexSession(r) => pc'[r] \in {"done", "members"}
    BY DEF IndexSession
  <1>15. Members(r) => pc'[r] \in {"revoke", "clear", "done"}
    BY DEF Members, NextRevoke
  <1>16. Revoke(r) => pc'[r] \in {"revoke", "clear", "done"}
    BY DEF Revoke, NextRevoke
  <1>17. ClearIndex(r) => pc'[r] \in {"done"}
    BY DEF ClearIndex
  <1>18. Lookup(r) => pc'[r] \in {"issue", "done"}
    BY DEF Lookup
  <1>19. Issue(r) => pc'[r] \in {"done"}
    BY DEF Issue
  <1>20. Consume(r) => pc'[r] \in {"update", "done"}
    BY DEF Consume
  <1>21. Fail(r) => pc'[r] \in {"done"}
    BY DEF Fail
  <1> QED
    BY <1>1, <1>2, <1>3, <1>4, <1>5, <1>6, <1>7, <1>8, <1>9, <1>10, <1>11, <1>12, <1>13,
       <1>14, <1>15, <1>16, <1>17, <1>18, <1>19, <1>20, <1>21

LEMMA HeldEffects ==
    ASSUME TypeOK, NEW r \in Requests, CallFlow(r), TokenFlow(r)
    PROVE  /\ GetSession(r) =>
                \/ held' = held /\ pc'[r] # "touch"
                \/ /\ Live(call[r].cookie) /\ held'[r].user = sess[call[r].cookie].user
                   /\ held'[r].created = sess[call[r].cookie].created
                   /\ held'[r].basis = sess[call[r].cookie].basis
           /\ Touch(r) => /\ held'[r].user = held[r].user
                          /\ held'[r].created = held[r].created
                          /\ held'[r].basis = held[r].basis
           /\ Register(r) =>
                \/ held' = held /\ pc'[r] = "done"
                \/ /\ held'[r].user = call[r].user /\ held'[r].basis = 1
                   /\ held'[r].created = held[r].created
                   /\ pw[call[r].user] = 0 /\ pw'[call[r].user] = 1
           /\ Login(r) =>
                \/ held' = held /\ pc'[r] = "done"
                \/ /\ held'[r].user = call[r].user /\ held'[r].basis = pw[call[r].user]
                   /\ held'[r].created = held[r].created
           /\ Update(r) => /\ held'[r].user = held[r].user
                           /\ held'[r].created = held[r].created
                           /\ held'[r].basis = pw[held[r].user] + 1
                           /\ pw'[held[r].user] = pw[held[r].user] + 1
           /\ Mint(r) => /\ held'[r].user = held[r].user /\ held'[r].basis = held[r].basis
                         /\ held'[r].created = now
           /\ Consume(r) => held' = held \/ /\ held'[r].basis = held[r].basis
                                            /\ held'[r].created = held[r].created
  <1> DEFINE h == held[r]
  <1>1. held \in [Requests -> HeldType] /\ h \in HeldType /\ pw \in [Users -> Nat]
        /\ pc \in [Requests -> Pcs]
    BY DEF TypeOK
  <1>2. ASSUME GetSession(r)
        PROVE  \/ held' = held /\ pc'[r] # "touch"
               \/ /\ Live(call[r].cookie) /\ held'[r].user = sess[call[r].cookie].user
                  /\ held'[r].created = sess[call[r].cookie].created
                  /\ held'[r].basis = sess[call[r].cookie].basis
    BY <1>1, <1>2 DEF GetSession, Goto, Answer
  <1>3. ASSUME Touch(r)
        PROVE  /\ held'[r].user = held[r].user /\ held'[r].created = held[r].created
               /\ held'[r].basis = held[r].basis
    <2>1. PICK t : held' = held \/ held' = [held EXCEPT ![r] = [h EXCEPT !.ttl = t]]
      BY <1>3, Zenon DEF Touch
    <2>2. /\ [h EXCEPT !.ttl = t].user = h.user /\ [h EXCEPT !.ttl = t].created = h.created
          /\ [h EXCEPT !.ttl = t].basis = h.basis
      BY <1>1 DEF HeldType
    <2> QED
      BY <1>1, <2>1, <2>2
  <1>4. ASSUME Register(r)
        PROVE  \/ held' = held /\ pc'[r] = "done"
               \/ /\ held'[r].user = call[r].user /\ held'[r].basis = 1
                  /\ held'[r].created = held[r].created
                  /\ pw[call[r].user] = 0 /\ pw'[call[r].user] = 1
    <2> DEFINE g == [[h EXCEPT !.user = call[r].user] EXCEPT !.basis = 1]
    <2>1. g.user = call[r].user /\ g.basis = 1 /\ g.created = h.created
      BY <1>1 DEF HeldType
    <2>2. call[r].user \in Users
      BY <1>4 DEF Register, CallFlow
    <2>3. \/ held' = held /\ pc'[r] = "done"
          \/ held' = [held EXCEPT ![r] = g] /\ pw[call[r].user] = 0 /\ pw'[call[r].user] = 1
      BY <1>1, <1>4, <2>2 DEF Register, Answer
    <2> HIDE DEF g
    <2> QED
      BY <1>1, <2>1, <2>3
  <1>5. ASSUME Login(r)
        PROVE  \/ held' = held /\ pc'[r] = "done"
               \/ /\ held'[r].user = call[r].user /\ held'[r].basis = pw[call[r].user]
                  /\ held'[r].created = held[r].created
    <2> DEFINE g == [[h EXCEPT !.user = call[r].user] EXCEPT !.basis = pw[call[r].user]]
    <2>1. g.user = call[r].user /\ g.basis = pw[call[r].user] /\ g.created = h.created
      BY <1>1 DEF HeldType
    <2>2. (held' = held /\ pc'[r] = "done") \/ held' = [held EXCEPT ![r] = g]
      <3> DEFINE e == [held EXCEPT ![r].user = call[r].user, ![r].basis = pw[call[r].user]]
      <3>1. (held' = held /\ Answer(r, 401)) \/ held' = e
        BY <1>5, Zenon DEF Login
      <3>2. e = [held EXCEPT ![r] = g]
        BY <1>1
      <3> HIDE DEF e, g
      <3> QED
        BY <1>1, <3>1, <3>2 DEF Answer
    <2> HIDE DEF g
    <2> QED
      BY <1>1, <2>1, <2>2
  <1>6. ASSUME Update(r)
        PROVE  /\ held'[r].user = held[r].user /\ held'[r].created = held[r].created
               /\ held'[r].basis = pw[held[r].user] + 1
               /\ pw'[held[r].user] = pw[held[r].user] + 1
    <2> DEFINE g == [h EXCEPT !.basis = pw[h.user] + 1]
    <2>1. g.user = h.user /\ g.basis = pw[h.user] + 1 /\ g.created = h.created
      BY <1>1 DEF HeldType
    <2>2. h.user \in Users
      BY <1>6 DEF Update, CallFlow, Acting
    <2>3. held' = [held EXCEPT ![r] = g] /\ pw'[h.user] = pw[h.user] + 1
      BY <1>1, <1>6, <2>2 DEF Update
    <2> HIDE DEF g
    <2> QED
      BY <1>1, <2>1, <2>3
  <1>7. ASSUME Mint(r)
        PROVE  /\ held'[r].user = held[r].user /\ held'[r].basis = held[r].basis
               /\ held'[r].created = now
    <2> DEFINE g == [[h EXCEPT !.created = now] EXCEPT !.ttl = Idle]
    <2>1. g.user = h.user /\ g.basis = h.basis /\ g.created = now
      BY <1>1 DEF HeldType
    <2>2. held' = [held EXCEPT ![r] = g]
      BY <1>1, <1>7 DEF Mint
    <2> HIDE DEF g
    <2> QED
      BY <1>1, <2>1, <2>2
  <1>8. ASSUME Consume(r)
        PROVE  held' = held \/ /\ held'[r].basis = held[r].basis
                               /\ held'[r].created = held[r].created
    <2>1. PICK u : held' = held \/ held' = [held EXCEPT ![r] = [h EXCEPT !.user = u]]
      BY <1>8, Zenon DEF Consume
    <2>2. /\ [h EXCEPT !.user = u].basis = h.basis /\ [h EXCEPT !.user = u].created = h.created
      BY <1>1 DEF HeldType
    <2> QED
      BY <1>1, <2>1, <2>2
  <1> QED
    BY <1>2, <1>3, <1>4, <1>5, <1>6, <1>7, <1>8

\* A request past startSession keeps what it holds and who it acts for.
LEMMA LateStays ==
    ASSUME TypeOK, NEW r \in Requests, RequestStep(r), pc[r] \in Late
    PROVE  /\ pc'[r] \in Late /\ held'[r] = held[r] /\ call'[r] = call[r]
           /\ IndexSession(r) \/ Members(r) \/ Revoke(r) \/ ClearIndex(r) \/ Fail(r)
  <1>1. IndexSession(r) \/ Members(r) \/ Revoke(r) \/ ClearIndex(r) \/ Fail(r)
    BY DEF RequestStep, Late, Start, GetSession, Touch, DeleteExpired, TouchSet,
           Logout, Register, Login, VerifyCurrent, Update, Rotate, Mint, MintSet,
           Lookup, Issue, Consume
  <1>2. pc'[r] \in Late
    BY <1>1 DEF IndexSession, Members, Revoke, ClearIndex, Fail, NextRevoke, Goto, Answer,
                Late, TypeOK
  <1>3. held'[r] = held[r] /\ call'[r] = call[r]
    BY <1>1 DEF IndexSession, Members, Revoke, ClearIndex, Fail
  <1> QED
    BY <1>1, <1>2, <1>3

\* Once a request has a user it keeps it, and its call.
LEMMA UserKept ==
    ASSUME TypeOK, NEW r \in Requests, RequestStep(r), CallFlow(r), TokenFlow(r), OpFlow(r),
           held[r].user \in Users
    PROVE  held'[r].user = held[r].user /\ call'[r] = call[r]
  <1>1. held[r] # NotHeld
    BY SessionsAssumption DEF NotHeld
  <1>2. ~Start(r)
    BY <1>1 DEF Start, CallFlow
  <1>3. ~(GetSession(r) \/ Register(r) \/ Login(r) \/ Consume(r))
    BY <1>1 DEF GetSession, Register, Login, Consume, OpFlow
  <1>4. held' = held \/ Touch(r) \/ Update(r) \/ Mint(r)
    BY <1>3, Writers
  <1> QED
    BY <1>2, <1>4, Writers, HeldEffects

\* The request that takes a step stays within the flow of its operation.
LEMMA OpFlowStep ==
    ASSUME TypeOK, \A q \in Requests : CallFlow(q), NEW r \in Requests, TokenFlow(r),
           OpFlow(r), RequestStep(r)
    PROVE  OpFlow(r)'
  <1> USE SessionsAssumption DEF TypeOK, Goto, Answer, Starts, Minting
  <1>0. CallFlow(r)
    OBVIOUS
  <1>1. CASE Start(r)
    <2>1. PICK op \in Ops, u \in Users \cup {None}, c \in Cookies \cup {None},
               t \in Tokens \cup {None} :
               /\ op \in Protected => c # None
               /\ call' = [call EXCEPT ![r] =
                             [op |-> op, user |-> u, cookie |-> c, token |-> t, at |-> now]]
               /\ Goto(r, FirstStep(op))
      BY <1>1, Called
    <2>2. call'[r].op = op /\ call'[r].cookie = c /\ pc'[r] = FirstStep(op) /\ pc[r] = "idle"
          /\ held'[r] = held[r] /\ held[r] = NotHeld
      BY <1>0, <1>1, <2>1 DEF Start, CallFlow
    <2>3. ASSUME c \in Requests PROVE pc'[c] = "done"
      <3>1. pc[c] = "done"
        <4>1. reply[c] \in {200, 201}
          BY <2>3 DEF Cookies, Sids
        <4> QED
          BY <2>3, <4>1 DEF CallFlow
      <3> QED
        BY <2>1, <2>2, <2>3, <3>1
    <2>4. op \in AllOps
      OBVIOUS
    <2> QED
      BY <2>2, <2>3, <2>4 DEF OpFlow, FirstStep, AllOps, Protected
  <1>2. ASSUME ~Start(r) PROVE OpFlow(r)'
    <2>1. call' = call
      BY <1>2, Writers
    <2>2. call'[r].cookie \in Requests => pc'[call'[r].cookie] = "done"
      <3>1. call[r].cookie \in Requests => pc[call[r].cookie] = "done" /\ call[r].cookie # r
        BY OthersKeep DEF OpFlow
      <3> QED
        BY <2>1, <3>1, OthersKeep
    <2>3. pc'[r] \notin {"get", "register", "login", "lookup", "consume"}
      BY <1>2, Leads DEF RequestStep
    <2>4. pc'[r] = "issue" => held'[r] = NotHeld /\ call'[r].op = "forgot"
      <3>1. pc'[r] = "issue" => Lookup(r)
        BY <1>2, Leads DEF RequestStep
      <3> QED
        BY <3>1 DEF Lookup, OpFlow
    <2>5. pc'[r] \in Starts => call'[r].op \in Minting
      <3>1. pc'[r] \in Starts =>
              \/ Register(r) \/ Login(r) \/ Update(r) \/ Rotate(r) \/ Mint(r) \/ MintSet(r)
        BY <1>2, Leads DEF RequestStep
      <3>2. Update(r) /\ pc'[r] \in Starts => call[r].op = "change"
        BY DEF Update
      <3> QED
        BY <2>1, <3>1, <3>2 DEF Register, Login, Rotate, Mint, MintSet, OpFlow
    <2>6. pc'[r] = "verify" => call'[r].op = "change"
      <3>1. pc'[r] = "verify" => TouchSet(r)
        BY <1>2, Leads DEF RequestStep
      <3> QED
        BY <3>1 DEF TouchSet
    <2>7. pc'[r] \in {"update", "members", "revoke"} => call'[r].op \in {"change", "reset"}
      <3>1. pc'[r] \in {"update", "members", "revoke"} =>
              \/ VerifyCurrent(r) \/ Consume(r) \/ Update(r) \/ IndexSession(r)
              \/ Members(r) \/ Revoke(r)
        BY <1>2, Leads DEF RequestStep
      <3>2. IndexSession(r) /\ pc'[r] = "members" => call[r].op = "change"
        BY DEF IndexSession
      <3>3. IndexSession(r) => pc'[r] \notin {"update", "revoke"}
        BY Leads
      <3> QED
        BY <1>0, <2>1, <3>1, <3>2, <3>3
        DEF VerifyCurrent, Consume, Update, Members, Revoke, OpFlow, CallFlow
    <2>8. pc'[r] = "clear" => call'[r].op = "reset"
      <3>1. pc'[r] = "clear" => Members(r) \/ Revoke(r)
        BY <1>2, Leads DEF RequestStep
      <3> QED
        BY <3>1 DEF Members, Revoke, NextRevoke
    <2> QED
      BY <2>2, <2>3, <2>4, <2>5, <2>6, <2>7, <2>8 DEF OpFlow
  <1> QED
    BY <1>1, <1>2

LEMMA FlowsStep ==
    ASSUME Flows, IInv', NEW r \in Requests, RequestStep(r)
    PROVE  Flows'
  <1> SUFFICES ASSUME NEW q \in Requests PROVE OpFlow(q)'
    BY DEF Flows
  <1> USE DEF Flows, IInv
  <1>1. CASE q = r
    BY <1>1, OpFlowStep
  <1>2. CASE q # r
    <2>1. pc'[q] = pc[q] /\ call'[q] = call[q] /\ held'[q] = held[q]
      BY <1>2, OthersKeep
    <2>2. call[q].cookie \in Requests => pc'[call[q].cookie] = "done"
      BY OthersKeep DEF OpFlow
    <2> QED
      BY <2>1, <2>2 DEF OpFlow
  <1> QED
    BY <1>1, <1>2

-----------------------------------------------------------------------------
(* Sessions and what they are.                                             *)

\* A session that may exist stays what it is.
LEMMA BornStays ==
    ASSUME TypeOK, NEW r \in Requests, RequestStep(r), NEW s \in Sids,
           s \in Requests => pc[s] \in Late
    PROVE  /\ BornTo(s)' = BornTo(s) /\ Opened(s)' = Opened(s) /\ BornWith(s)' = BornWith(s)
           /\ s \in Requests => pc'[s] \in Late /\ held'[s] = held[s]
  <1>1. s \in Requests => pc'[s] \in Late /\ held'[s] = held[s]
    BY LateStays, OthersKeep
  <1>2. s \notin Old => s \in Requests
    BY DEF Sids
  <1> QED
    BY <1>1, <1>2 DEF BornTo, Opened, BornWith

\* What save stores.
LEMMA SavedFields ==
    ASSUME TypeOK, NEW r \in Requests
    PROVE  /\ Saved(r).user = held[r].user /\ Saved(r).created = held[r].created
           /\ Saved(r).basis = held[r].basis /\ Saved(r).expire = now + held[r].ttl
  BY DEF Saved

\* Whose session a step can write.
LEMMA SessEffects ==
    ASSUME TypeOK, NEW r \in Requests, RequestStep(r), CallFlow(r), NEW s \in Sids
    PROVE  \/ sess'[s] = sess[s]
           \/ sess'[s] = NoSession /\ s = call[r].cookie
           \/ sess'[s] = NoSession /\ Revoke(r) /\ s \in todo[r]
           \/ sess'[s] = Saved(r) /\ s = call[r].cookie /\ TouchSet(r)
           \/ sess'[s] = Saved(r) /\ s = r /\ MintSet(r)
  <1>1. sess \in [Sids -> SessionType]
    BY DEF TypeOK
  <1>2. CASE DeleteExpired(r)
    BY <1>1, <1>2 DEF DeleteExpired
  <1>3. CASE TouchSet(r)
    BY <1>1, <1>3 DEF TouchSet
  <1>4. CASE Logout(r)
    BY <1>1, <1>4 DEF Logout
  <1>5. CASE Rotate(r)
    BY <1>1, <1>5 DEF Rotate
  <1>6. CASE MintSet(r)
    BY <1>1, <1>6 DEF MintSet
  <1>7. CASE Revoke(r)
    <2>1. PICK x \in todo[r] : sess' = [sess EXCEPT ![x] = NoSession]
      BY <1>7 DEF Revoke
    <2> QED
      BY <1>1, <1>7, <2>1
  <1> QED
    BY <1>2, <1>3, <1>4, <1>5, <1>6, <1>7, Writers

\* A session that is alive after a step was so before, or was brought back by a
\* touch and is on the race list, or has just been minted.
LEMMA LiveAfter ==
    ASSUME Flows, Identified, NEW r \in Requests, RequestStep(r), NEW s \in Sids, Live(s)'
    PROVE  \/ Live(s) /\ sess'[s] = sess[s]
           \/ /\ s = call[r].cookie /\ TouchSet(r) /\ held' = held
              /\ sess'[s].user = held[r].user /\ sess'[s].created = held[r].created
              /\ sess'[s].basis = held[r].basis
              /\ s \in raced' \/ Live(s)
           \/ /\ s = r /\ MintSet(r) /\ held' = held
              /\ sess'[s].user = held[r].user /\ sess'[s].created = held[r].created
              /\ sess'[s].basis = held[r].basis
              /\ pc'[r] \in Late /\ (pc'[r] = "index" \/ r \in raced')
  <1> USE DEF Flows, IInv
  <1>1. sess'[s] # NoSession
    BY DEF Live, NoSession
  <1>2. CASE sess'[s] = sess[s]
    BY <1>2 DEF Live
  <1>3. CASE sess'[s] = Saved(r) /\ s = call[r].cookie /\ TouchSet(r)
    <2>1. held' = held /\ (s \in raced' \/ Live(s))
      BY <1>3 DEF TouchSet
    <2> QED
      BY <1>3, <2>1, SavedFields
  <1>4. CASE sess'[s] = Saved(r) /\ s = r /\ MintSet(r)
    <2>1. held' = held /\ pc'[r] \in Late /\ (pc'[r] = "index" \/ r \in raced')
      BY <1>4 DEF MintSet, Goto, Answer, Late, TypeOK
    <2> QED
      BY <1>4, <2>1, SavedFields
  <1> QED
    BY <1>1, <1>2, <1>3, <1>4, SessEffects

\* A cookie stands for a session that has been started.
LEMMA CookieIsOld ==
    ASSUME Flows, NEW r \in Requests, pc[r] \in {"get", "touch", "touch_set"}
    PROVE  /\ call[r].cookie \in Sids
           /\ call[r].cookie \in Requests => pc[call[r].cookie] = "done"
  BY DEF Flows, IInv, CallFlow, OpFlow

LEMMA IdentifiedStep ==
    ASSUME Flows, Identified, NEW r \in Requests, RequestStep(r)
    PROVE  Identified'
  <1> USE DEF Flows, IInv
  <1>1. ASSUME NEW s \in Sids, Live(s)'
        PROVE  Agrees(sess[s], s)' /\ (s \in Requests => pc'[s] \in Late)
    <2>1. CASE Live(s) /\ sess'[s] = sess[s]
      BY <2>1, BornStays DEF Identified, Agrees
    <2>2. CASE /\ s = call[r].cookie /\ TouchSet(r)
               /\ sess'[s].user = held[r].user /\ sess'[s].created = held[r].created
               /\ sess'[s].basis = held[r].basis
      <3>1. pc[r] = "touch_set"
        BY <2>2 DEF TouchSet
      <3>2. Agrees(held[r], s) /\ (s \in Requests => pc[s] \in Late)
        BY <2>2, <3>1, CookieIsOld DEF Identified, Late
      <3> QED
        BY <2>2, <3>2, BornStays DEF Agrees
    <2>3. CASE /\ s = r /\ held' = held /\ pc'[r] \in Late
               /\ sess'[s].user = held[r].user /\ sess'[s].created = held[r].created
               /\ sess'[s].basis = held[r].basis
      <3>1. s \notin Old
        BY <2>3, SessionsAssumption
      <3> QED
        BY <2>3, <3>1 DEF Agrees, BornTo, Opened, BornWith
    <2> QED
      BY <1>1, <2>1, <2>2, <2>3, LiveAfter
  <1>2. ASSUME NEW q \in Requests, pc'[q] \in {"touch", "touch_set"}
        PROVE  Agrees(held[q], call[q].cookie)'
    <2>1. CASE q # r
      <3>1. /\ pc[q] \in {"touch", "touch_set"} /\ held'[q] = held[q] /\ call'[q] = call[q]
        BY <1>2, <2>1, OthersKeep
      <3>2. /\ call[q].cookie \in Sids
            /\ call[q].cookie \in Requests => pc[call[q].cookie] \in Late
        BY <3>1, CookieIsOld DEF Late
      <3>3. Agrees(held[q], call[q].cookie)
        BY <3>1 DEF Identified
      <3> QED
        BY <3>1, <3>2, <3>3, BornStays DEF Agrees
    <2>2. CASE q = r
      <3>1. GetSession(r) \/ Touch(r)
        BY <1>2, <2>2, Leads DEF RequestStep
      <3>2. call' = call /\ pc[r] \in {"get", "touch"}
        BY <3>1 DEF GetSession, Touch
      <3> DEFINE c == call[r].cookie
      <3>3. /\ c \in Sids
            /\ c \in Requests => pc[c] \in Late
        BY <3>2, CookieIsOld DEF Late
      <3>4. /\ held'[r].user = BornTo(c) /\ held'[r].created = Opened(c)
            /\ held'[r].basis = BornWith(c)
        <4>1. CASE GetSession(r)
          <5>1. pc'[r] = "touch"
            BY <1>2, <2>2, <4>1 DEF GetSession, Goto, Answer, TypeOK
          <5>2. Live(c) /\ held'[r].user = sess[c].user /\ held'[r].created = sess[c].created
                /\ held'[r].basis = sess[c].basis
            BY <4>1, <5>1, HeldEffects
          <5> QED
            BY <3>3, <5>2 DEF Identified, Agrees
        <4>2. CASE Touch(r)
          <5>1. pc[r] = "touch"
            BY <4>2 DEF Touch
          <5> QED
            BY <4>2, <5>1, HeldEffects DEF Identified, Agrees
        <4> QED
          BY <3>1, <4>1, <4>2
      <3> QED
        BY <2>2, <3>2, <3>3, <3>4, BornStays DEF Agrees
    <2> QED
      BY <2>1, <2>2
  <1> QED
    BY <1>1, <1>2 DEF Identified

\* Passwords are only ever set again.
LEMMA PasswordsGrow ==
    ASSUME TypeOK, NEW r \in Requests, RequestStep(r), CallFlow(r), NEW u \in Users
    PROVE  pw'[u] \in Nat /\ pw'[u] >= pw[u]
  <1>1. pw \in [Users -> Nat]
    BY DEF TypeOK
  <1>2. CASE pw' = pw
    BY <1>1, <1>2
  <1>3. CASE Register(r)
    BY <1>1, <1>3 DEF Register, CallFlow
  <1>4. CASE Update(r)
    BY <1>1, <1>4 DEF Update, CallFlow, Acting
  <1> QED
    BY <1>2, <1>3, <1>4, Writers

LEMMA AgesStep ==
    ASSUME Flows, Flows', Identified, Ages, NEW r \in Requests, RequestStep(r)
    PROVE  Ages'
  <1> USE DEF Flows, IInv
  <1>1. now' = now /\ now \in Nat
    BY Writers, Scalars
  <1>2. ASSUME NEW q \in Requests
        PROVE  /\ held[q].created <= now /\ held[q].created \in Nat /\ held[q].basis \in Nat
               /\ held[q].user \in Users =>
                    held[q].basis <= pw[held[q].user] /\ pw[held[q].user] \in Nat
    BY Scalars DEF Ages
  <1>3. ASSUME NEW q \in Requests, held'[q] = held[q]
        PROVE  /\ held'[q].created <= now'
               /\ held'[q].user \in Users => held'[q].basis <= pw'[held'[q].user]
    BY <1>1, <1>2, <1>3, PasswordsGrow
  <1>4. ASSUME held'[r] # held[r]
        PROVE  /\ held'[r].created <= now'
               /\ held'[r].user \in Users => held'[r].basis <= pw'[held'[r].user]
    <2>1. CASE GetSession(r)
      <3> DEFINE c == call[r].cookie
      <3>1. /\ Live(c) /\ held'[r].user = sess[c].user
            /\ held'[r].created = sess[c].created /\ held'[r].basis = sess[c].basis
        BY <1>4, <2>1, HeldEffects
      <3>2. /\ c \in Sids
            /\ c \in Requests => pc[c] = "done"
        BY <2>1, CookieIsOld DEF GetSession
      <3>3. /\ held'[r].user = BornTo(c) /\ held'[r].created = Opened(c)
            /\ held'[r].basis = BornWith(c)
        BY <3>1, <3>2 DEF Identified, Agrees
      <3>4. pw' = pw
        BY <2>1 DEF GetSession, db
      <3> HIDE DEF c
      <3>5. CASE c \in Old
        <4>1. /\ held'[r].user = OldUser[c] /\ held'[r].created = 0 /\ held'[r].basis = 1
              /\ pw[OldUser[c]] >= 1
          BY <3>3, <3>5 DEF BornTo, Opened, BornWith, Ages
        <4> QED
          BY <1>1, <3>4, <4>1
      <3>6. CASE c \notin Old
        <4>1. c \in Requests
          BY <3>2, <3>6 DEF Sids
        <4>2. /\ held'[r].user = held[c].user /\ held'[r].created = held[c].created
              /\ held'[r].basis = held[c].basis
          BY <3>3, <3>6 DEF BornTo, Opened, BornWith
        <4> QED
          BY <1>1, <1>2, <3>4, <4>1, <4>2
      <3> QED
        BY <3>5, <3>6
    <2>2. CASE Touch(r)
      BY <1>1, <1>2, <2>2, HeldEffects, PasswordsGrow
    <2>3. CASE Register(r)
      BY <1>1, <1>2, <1>4, <2>3, HeldEffects
    <2>4. CASE Login(r)
      <3>1. /\ held'[r].user = call[r].user /\ held'[r].basis = pw[call[r].user]
            /\ held'[r].created = held[r].created /\ call[r].user \in Users /\ pw' = pw
        BY <1>4, <2>4, HeldEffects DEF Login, db, CallFlow
      <3> QED
        BY <1>1, <1>2, <3>1, Scalars
    <2>5. CASE Update(r)
      <3>1. /\ held'[r].user = held[r].user /\ held'[r].created = held[r].created
            /\ held'[r].basis = pw[held[r].user] + 1
            /\ pw'[held[r].user] = pw[held[r].user] + 1
        BY <2>5, HeldEffects
      <3> QED
        BY <1>1, <1>2, <3>1
    <2>6. CASE Mint(r)
      <3>1. /\ held'[r].user = held[r].user /\ held'[r].created = now
            /\ held'[r].basis = held[r].basis
        BY <2>6, HeldEffects
      <3> QED
        BY <1>1, <1>2, <3>1, PasswordsGrow
    <2>7. CASE Consume(r)
      <3>1. held'[r].basis = held[r].basis /\ held'[r].created = held[r].created
        BY <1>4, <2>7, HeldEffects
      <3>2. held[r].basis = 0
        BY <2>7 DEF Consume, OpFlow, NotHeld
      <3>3. held'[r].user \in Users => pw'[held'[r].user] \in Nat
        BY Scalars, PasswordsGrow
      <3> QED
        BY <1>1, <1>2, <3>1, <3>2, <3>3
    <2> QED
      BY <1>4, <2>1, <2>2, <2>3, <2>4, <2>5, <2>6, <2>7, Writers
  <1>5. ASSUME NEW s \in Old PROVE pw'[OldUser[s]] >= 1
    <2>1. OldUser[s] \in Users
      BY SessionsAssumption
    <2>2. pw[OldUser[s]] >= 1 /\ pw[OldUser[s]] \in Nat
      BY <2>1, Scalars DEF Ages
    <2> QED
      BY <2>1, <2>2, PasswordsGrow
  <1>6. ASSUME NEW q \in Requests
        PROVE  /\ held'[q].created <= now'
               /\ held'[q].user \in Users => held'[q].basis <= pw'[held'[q].user]
    <2>1. CASE held'[q] = held[q]
      BY <1>3, <2>1
    <2>2. CASE held'[q] # held[q]
      BY <1>4, <2>2, OthersKeep
    <2> QED
      BY <2>1, <2>2
  <1> QED
    BY <1>5, <1>6 DEF Ages

\* The index and the lists of what is to be revoked.
LEMMA IndexEffects ==
    ASSUME TypeOK, NEW r \in Requests, RequestStep(r), CallFlow(r), NEW u \in Users
    PROVE  \/ index'[u] = index[u]
           \/ /\ IndexSession(r) /\ u = held[r].user
              /\ index'[u].members = index[u].members \cup {r}
              /\ index'[u].expire = now + Absolute
           \/ ClearIndex(r) /\ u = held[r].user /\ index'[u].members = {}
  <1>1. index \in [Users -> IndexType]
    BY DEF TypeOK
  <1>2. CASE index' = index
    BY <1>2
  <1>3. CASE IndexSession(r)
    <2>1. index' = [index EXCEPT ![held[r].user] = IndexWith(index[held[r].user], r)]
      BY <1>3 DEF IndexSession
    <2>2. /\ IndexWith(index[u], r).members = index[u].members \cup {r}
          /\ IndexWith(index[u], r).expire = now + Absolute
      BY DEF IndexWith
    <2> QED
      BY <1>1, <1>3, <2>1, <2>2
  <1>4. CASE ClearIndex(r)
    BY <1>1, <1>4 DEF ClearIndex, NoIndex
  <1> QED
    BY <1>2, <1>3, <1>4, Writers

LEMMA TodoEffects ==
    ASSUME TypeOK, NEW r \in Requests, RequestStep(r), CallFlow(r), NEW q \in Requests
    PROVE  \/ todo'[q] = todo[q]
           \/ q = r /\ Members(r) /\ todo'[q] = index[held[r].user].members \ {r}
           \/ q = r /\ Revoke(r) /\ todo'[q] \subseteq todo[q]
  <1>1. todo \in [Requests -> SUBSET Sids]
    BY DEF TypeOK
  <1>2. CASE todo' = todo
    BY <1>2
  <1>3. CASE Members(r)
    BY <1>1, <1>3 DEF Members, NextRevoke, Doomed
  <1>4. CASE Revoke(r)
    BY <1>1, <1>4 DEF Revoke, NextRevoke
  <1> QED
    BY <1>2, <1>3, <1>4, Writers

LEMMA OwnedStep ==
    ASSUME Flows, Owned, NEW r \in Requests, RequestStep(r)
    PROVE  Owned'
  <1> USE DEF Flows, IInv
  <1>1. ASSUME NEW s \in Requests, pc[s] \in Late
        PROVE  pc'[s] \in Late /\ held'[s] = held[s]
    BY <1>1, LateStays, OthersKeep
  <1>2. ASSUME NEW u \in Users, NEW s \in index'[u].members, s \in Requests
        PROVE  pc'[s] \in Late /\ held'[s].user = u
    <2>1. CASE s \in index[u].members
      BY <1>1, <1>2, <2>1 DEF Owned
    <2>2. CASE IndexSession(r) /\ u = held[r].user /\ s = r
      BY <1>1, <2>2 DEF IndexSession, Late
    <2> QED
      BY <1>2, <2>1, <2>2, IndexEffects
  <1>3. ASSUME NEW q \in Requests, NEW s \in todo'[q]
        PROVE  /\ pc'[q] \in Late
               /\ s \in Requests => s # q /\ pc'[s] \in Late /\ held'[s].user = held'[q].user
    <2>1. CASE s \in todo[q]
      BY <1>1, <2>1 DEF Owned
    <2>2. CASE q = r /\ Members(r) /\ s \in index[held[r].user].members \ {r}
      <3>1. pc[r] \in Late /\ held[r].user \in Users
        BY <2>2 DEF Members, Late, CallFlow, Acting
      <3> QED
        BY <1>1, <2>2, <3>1 DEF Owned
    <2> QED
      BY <1>3, <2>1, <2>2, TodoEffects
  <1> QED
    BY <1>2, <1>3 DEF Owned

-----------------------------------------------------------------------------
(* Revocation finds what it must.                                          *)

\* A session that counts after a step counted before it as the same session,
\* unless it is only now being started.
LEMMA CountedBefore ==
    ASSUME Flows, Identified, NEW r \in Requests, RequestStep(r), NEW s \in Sids, Counted(s)'
    PROVE  \/ /\ Counted(s) /\ sess'[s].user = sess[s].user
              /\ sess'[s].created = sess[s].created /\ sess'[s].basis = sess[s].basis
           \/ /\ s = r /\ MintSet(r) /\ pc'[r] = "index" /\ pc[r] = "mint_set"
              /\ sess'[s].user = held[r].user /\ sess'[s].basis = held[r].basis
  <1>1. s \notin raced /\ s \notin raced' /\ Live(s)' /\ now' = now
    BY RacedGrows, Writers DEF Counted
  <1>2. CASE Live(s) /\ sess'[s] = sess[s]
    BY <1>1, <1>2 DEF Counted
  <1>3. CASE /\ s = call[r].cookie /\ TouchSet(r)
             /\ sess'[s].user = held[r].user /\ sess'[s].created = held[r].created
             /\ sess'[s].basis = held[r].basis /\ Live(s)
    <2>1. Agrees(held[r], s) /\ Agrees(sess[s], s)
      BY <1>3 DEF TouchSet, Identified
    <2>2. /\ sess'[s].user = sess[s].user /\ sess'[s].created = sess[s].created
          /\ sess'[s].basis = sess[s].basis
      BY <1>3, <2>1 DEF Agrees
    <2> QED
      BY <1>1, <1>3, <2>2 DEF Counted
  <1>4. CASE /\ s = r /\ MintSet(r) /\ pc'[r] = "index"
             /\ sess'[s].user = held[r].user /\ sess'[s].basis = held[r].basis
    BY <1>4 DEF MintSet
  <1> QED
    BY <1>1, <1>2, <1>3, <1>4, LiveAfter

\* Live sessions are of users and not from the future.
LEMMA LiveAge ==
    ASSUME Flows, Identified, Ages, NEW s \in Sids, Live(s)
    PROVE  sess[s].user \in Users /\ sess[s].created <= now
  <1> USE DEF Flows, IInv
  <1>1. sess[s].user \in Users
    BY Scalars DEF Live, Names
  <1>2. CASE s \in Old
    BY <1>1, <1>2, Scalars DEF Identified, Agrees, Opened
  <1>3. CASE s \notin Old
    BY <1>1, <1>3 DEF Identified, Agrees, Opened, Sids, Ages
  <1> QED
    BY <1>1, <1>2, <1>3

LEMMA IndexedStep ==
    ASSUME Flows, Identified, Ages, Indexed, NoStale, NEW r \in Requests, RequestStep(r)
    PROVE  Indexed'
  <1> USE DEF Flows, IInv
  <1> SUFFICES ASSUME NEW s \in Sids, Counted(s)', s \in Old \/ pc'[s] # "index"
               PROVE  /\ s \in index'[sess'[s].user].members
                      /\ index'[sess'[s].user].expire >= sess'[s].created + Absolute
    BY DEF Indexed
  <1> DEFINE u == sess[s].user
             t == sess[s].created
  <1>1. /\ Counted(s) /\ sess'[s].user = u /\ sess'[s].created = t
    BY CountedBefore, SessionsAssumption
  <1>2. /\ u \in Users /\ t <= now /\ t \in Nat /\ now \in Nat /\ Absolute \in Nat
        /\ s \notin raced'
    BY <1>1, LiveAge, Scalars DEF Counted
  <1>3. CASE s \in Requests /\ pc[s] = "index"
    <2>1. s = r
      BY <1>3, OthersKeep, SessionsAssumption
    <2>2. IndexSession(r)
      <3>1. IndexSession(r) \/ Fail(r)
        BY <1>3, <2>1, LateStays DEF Late, Members, Revoke, ClearIndex
      <3>2. Fail(r) => s \in raced'
        BY <1>3, <2>1 DEF Fail
      <3> QED
        BY <1>2, <3>1, <3>2
    <2>3. u = held[r].user
      <3>1. s \notin Old
        BY <2>1, SessionsAssumption
      <3> QED
        BY <1>1, <2>1, <3>1 DEF Identified, Agrees, BornTo, Counted
    <2>4. index'[u].members = index[u].members \cup {r} /\ index'[u].expire = now + Absolute
      <3>1. index \in [Users -> IndexType]
        BY DEF TypeOK
      <3>2. index' = [index EXCEPT ![u] = IndexWith(index[u], r)]
        BY <2>2, <2>3 DEF IndexSession
      <3>3. index'[u] = IndexWith(index[u], r)
        BY <1>2, <3>1, <3>2
      <3> QED
        BY <3>3 DEF IndexWith
    <2> QED
      BY <1>1, <1>2, <2>1, <2>4
  <1>4. CASE s \in Old \/ pc[s] # "index"
    <2>1. s \in index[u].members /\ index[u].expire >= t + Absolute
      BY <1>1, <1>4 DEF Indexed
    <2>2. CASE index'[u] = index[u]
      BY <1>1, <2>1, <2>2
    <2>3. CASE /\ index'[u].members = index[u].members \cup {r}
               /\ index'[u].expire = now + Absolute
      BY <1>1, <1>2, <2>1, <2>3
    <2>4. ASSUME ClearIndex(r), u = held[r].user PROVE FALSE
      <3>1. Live(s) /\ sess[s].basis < held[r].basis
        <4>1. Live(s) /\ ~(sess[s].basis >= held[r].basis)
          BY <1>1, <1>2, <2>1, <2>4 DEF ClearIndex, Counted
        <4> QED
          BY <4>1, Scalars
      <3>2. pc[r] = "clear"
        BY <2>4 DEF ClearIndex
      <3> QED
        BY <1>1, <2>4, <3>1, <3>2 DEF NoStale, Listed, NoStaleSession
    <2> QED
      BY <1>2, <2>2, <2>3, <2>4, IndexEffects
  <1> QED
    BY <1>3, <1>4 DEF Sids

\* The sessions of a user get listed by Members and by nothing else.
LEMMA ListedBy ==
    ASSUME Flows, NEW r \in Requests, RequestStep(r), NEW p \in Requests, Listed(p)'
    PROVE  \/ Listed(p) /\ held'[p] = held[p]
           \/ p = r /\ Members(r) /\ held' = held
  <1> USE DEF Flows, IInv
  <1>1. CASE p # r
    <2>1. pc'[p] = pc[p] /\ reply'[p] = reply[p] /\ call'[p] = call[p] /\ held'[p] = held[p]
      BY <1>1, OthersKeep
    <2> QED
      BY <2>1 DEF Listed
  <1>2. CASE p = r
    <2>1. Members(r) \/ Revoke(r) \/ ClearIndex(r)
      <3> USE DEF Goto, Answer, TypeOK, Listed
      <3>1. CASE pc'[r] \in {"revoke", "clear"}
        BY <1>2, <3>1, Leads DEF RequestStep
      <3>2. CASE pc'[r] = "done" /\ reply'[r] = 200 /\ call'[r].op \in {"change", "reset"}
        <4>1. ~(Start(r) \/ Touch(r) \/ Rotate(r) \/ Mint(r))
          BY <3>2, Leads
        <4>2. ~(GetSession(r) \/ DeleteExpired(r) \/ Logout(r) \/ Register(r) \/ Login(r)
                \/ VerifyCurrent(r) \/ Update(r) \/ MintSet(r) \/ Consume(r) \/ Fail(r))
          BY <3>2 DEF GetSession, DeleteExpired, Logout, Register, Login, VerifyCurrent,
                      Update, MintSet, Consume, Fail
        <4>3. ~(TouchSet(r) \/ IndexSession(r) \/ Lookup(r) \/ Issue(r))
          BY <3>2 DEF TouchSet, IndexSession, Lookup, Issue, OpFlow
        <4> QED
          BY <4>1, <4>2, <4>3 DEF RequestStep
      <3> QED
        BY <1>2, <3>1, <3>2
    <2> QED
      BY <1>2, <2>1 DEF Members, Revoke, ClearIndex, Listed
  <1> QED
    BY <1>1, <1>2

\* A session starts on the password it was let in with, no older than the one any
\* change that has listed the sessions of its user has set.
LEMMA NoStaleStartStep ==
    ASSUME Flows, Flows', Ages, NoStale, NEW r \in Requests, RequestStep(r),
           NEW p \in Requests, Listed(p), held'[p] = held[p]
    PROVE  NoStaleStart(p)'
  <1> USE DEF Flows, IInv
  <1> SUFFICES ASSUME NEW q \in Requests, pc'[q] \in Starts, held'[q].user = held'[p].user
               PROVE  q \in raced' \/ held'[q].basis >= held'[p].basis
    BY DEF NoStaleStart
  <1>1. NoStaleStart(p)
    BY DEF NoStale
  <1>2. CASE pc[q] \in Starts /\ held'[q].user = held[q].user /\ held'[q].basis = held[q].basis
    BY <1>1, <1>2, RacedGrows DEF NoStaleStart
  <1>3. CASE q # r
    BY <1>2, <1>3, OthersKeep
  <1>4. CASE q = r
    <2>1. \/ Register(r) \/ Login(r) \/ Update(r) \/ Rotate(r) \/ Mint(r) \/ MintSet(r)
      BY <1>4, Leads DEF RequestStep, Starts
    <2>2. CASE Rotate(r) \/ Mint(r) \/ MintSet(r)
      <3>1. pc[r] \in Starts
        BY <2>2 DEF Rotate, Mint, MintSet, Starts
      <3>2. held'[r].user = held[r].user /\ held'[r].basis = held[r].basis
        BY <2>2, HeldEffects DEF Rotate, MintSet
      <3> QED
        BY <1>2, <1>4, <3>1, <3>2
    <2>3. ASSUME NEW u \in Users, held'[r].user = u, NEW b \in Nat, held'[r].basis = b, b >= pw[u]
          PROVE  held'[r].basis >= held'[p].basis
      <3>1. held[p].basis <= pw[u] /\ held[p].basis \in Nat /\ pw[u] \in Nat
        BY <1>4, <2>3, Scalars DEF Ages
      <3> QED
        BY <2>3, <3>1
    <2>4. CASE Register(r)
      <3>1. call[r].user \in Users /\ pc'[r] # "done"
        BY <1>4, <2>4 DEF Register, CallFlow, Starts
      <3> QED
        BY <1>4, <2>3, <2>4, <3>1, HeldEffects
    <2>5. CASE Login(r)
      <3>1. call[r].user \in Users /\ pc'[r] # "done" /\ pw[call[r].user] \in Nat
        BY <1>4, <2>5, Scalars DEF Login, CallFlow, Starts
      <3>2. pw[call[r].user] >= pw[call[r].user]
        BY <3>1
      <3> QED
        BY <1>4, <2>3, <2>5, <3>1, <3>2, HeldEffects
    <2>6. CASE Update(r)
      <3>1. held[r].user \in Users
        BY <2>6 DEF Update, CallFlow, Acting
      <3>2. pw[held[r].user] + 1 \in Nat /\ pw[held[r].user] + 1 >= pw[held[r].user]
        BY <3>1, Scalars
      <3> QED
        BY <1>4, <2>3, <2>6, <3>1, <3>2, HeldEffects
    <2> QED
      BY <2>1, <2>2, <2>4, <2>5, <2>6
  <1> QED
    BY <1>3, <1>4

\* An older session stays on the list until it is deleted.
LEMMA NoStaleSessionStep ==
    ASSUME Flows, Identified, NoStale, NEW r \in Requests, RequestStep(r),
           NEW p \in Requests, Listed(p), Listed(p)', held'[p] = held[p]
    PROVE  NoStaleSession(p)'
  <1> USE DEF Flows, IInv
  <1> SUFFICES ASSUME NEW s \in Sids, Counted(s)', sess'[s].user = held'[p].user,
                      sess'[s].basis < held'[p].basis
               PROVE  pc'[p] = "revoke" /\ s \in todo'[p]
    BY DEF NoStaleSession
  <1>1. NoStaleStart(p) /\ NoStaleSession(p)
    BY DEF NoStale
  <1>2. Counted(s) /\ sess'[s].user = sess[s].user /\ sess'[s].basis = sess[s].basis
    <2>1. ASSUME s = r, pc[r] = "mint_set", sess'[s].user = held[r].user,
                 sess'[s].basis = held[r].basis
          PROVE  FALSE
      <3>1. r \in raced \/ held[r].basis >= held[p].basis
        BY <1>1, <2>1 DEF NoStaleStart, Starts
      <3>2. r \notin raced
        BY <2>1, RacedGrows DEF Counted
      <3> QED
        BY <2>1, <3>1, <3>2, Scalars
    <2> QED
      BY <2>1, CountedBefore
  <1>3. pc[p] = "revoke" /\ s \in todo[p]
    BY <1>1, <1>2 DEF NoStaleSession
  <1>4. CASE p # r
    BY <1>3, <1>4, OthersKeep, TodoEffects
  <1>5. CASE p = r
    <2>1. Revoke(r)
      <3>1. Revoke(r) \/ Fail(r)
        BY <1>3, <1>5, LateStays DEF Late, Members, IndexSession, ClearIndex
      <3>2. ~Fail(r)
        BY <1>3, <1>5 DEF Fail, Listed, Answer, TypeOK
      <3> QED
        BY <3>1, <3>2
    <2>2. PICK x \in todo[r] :
            /\ sess' = [sess EXCEPT ![x] = NoSession]
            /\ \/ NextRevoke(r, todo[r] \ {x})
               \/ Answer(r, 500) /\ UNCHANGED todo
      BY <2>1 DEF Revoke
    <2>3. x # s
      <3>1. sess \in [Sids -> SessionType]
        BY DEF TypeOK
      <3> QED
        BY <2>2, <3>1 DEF Counted, Live, NoSession
    <2>4. NextRevoke(r, todo[r] \ {x})
      BY <1>5, <2>2 DEF Answer, Listed, TypeOK
    <2> QED
      BY <1>3, <1>5, <2>3, <2>4 DEF NextRevoke, Goto, TypeOK
  <1> QED
    BY <1>4, <1>5

LEMMA NoStaleStep ==
    ASSUME Flows, Flows', Identified, Ages, Indexed, NoStale,
           NEW r \in Requests, RequestStep(r)
    PROVE  NoStale'
  <1> USE DEF Flows, IInv
  <1> SUFFICES ASSUME NEW p \in Requests, Listed(p)'
               PROVE  NoStaleStart(p)' /\ NoStaleSession(p)'
    BY DEF NoStale
  <1>1. CASE Listed(p) /\ held'[p] = held[p]
    BY <1>1, NoStaleStartStep, NoStaleSessionStep
  <1>2. CASE p = r /\ Members(r) /\ held' = held
    <2> DEFINE u == held[r].user
    <2>1. /\ pc[r] = "members" /\ u \in Users /\ sess' = sess /\ now' = now
          /\ NextRevoke(r, Doomed(r, index[u].members))
          /\ raced' = raced \cup Starting(u)
      BY <1>2, Writers DEF Members, redis, CallFlow, Acting
    <2>2. ASSUME NEW q \in Requests, pc[q] \in Starts, held[q].user = u
          PROVE  q \in raced'
      BY <2>1, <2>2 DEF Starting, Starts
    <2>3. NoStaleStart(r)'
      <3>1. ASSUME NEW q \in Requests, pc'[q] \in Starts PROVE pc[q] \in Starts
        <4>1. CASE q # r
          BY <3>1, <4>1, OthersKeep
        <4>2. CASE q = r
          BY <2>1, <3>1, <4>2 DEF NextRevoke, Goto, Answer, Starts, TypeOK
        <4> QED
          BY <4>1, <4>2
      <3> QED
        BY <1>2, <2>2, <3>1 DEF NoStaleStart
    <2>4. NoStaleSession(r)'
      <3> SUFFICES ASSUME NEW s \in Sids, Counted(s)', sess[s].user = u,
                          sess[s].basis < held[r].basis
                   PROVE  pc'[r] = "revoke" /\ s \in todo'[r]
        BY <1>2, <2>1 DEF NoStaleSession
      <3>1. s \notin raced' /\ Counted(s) /\ Live(s)
        BY <2>1 DEF Counted, Live
      <3>2. s # r
        <4>1. ASSUME s = r PROVE FALSE
          <5>1. sess[s].basis = held[r].basis
            BY <3>1, <4>1, SessionsAssumption DEF Identified, Agrees, BornWith
          <5> QED
            BY <5>1, Scalars
        <4> QED
          BY <4>1
      <3>3. s \in Old \/ pc[s] # "index"
        <4>1. ASSUME s \in Requests, s \notin Old, pc[s] = "index" PROVE FALSE
          <5>1. held[s].user = u
            BY <3>1, <4>1 DEF Identified, Agrees, BornTo
          <5> QED
            BY <2>2, <3>1, <4>1, <5>1 DEF Starts
        <4> QED
          BY <4>1 DEF Sids
      <3>4. s \in index[u].members \ {r}
        BY <3>1, <3>2, <3>3 DEF Indexed
      <3> QED
        BY <2>1, <3>4 DEF NextRevoke, Doomed, Goto, TypeOK
    <2> QED
      BY <1>2, <2>3, <2>4
  <1> QED
    BY <1>1, <1>2, ListedBy

-----------------------------------------------------------------------------
(* A new session lasts.                                                    *)

\* Who else revokes the sessions of a user goes on doing so.
LEMMA RivalStays ==
    ASSUME Flows, NEW r \in Requests, RequestStep(r),
           NEW p \in Requests, held[p].user \in Users, Rival(p)
    PROVE  Rival(p)'
  <1> USE DEF Flows, IInv
  <1>1. ASSUME NEW q \in Requests, held[q].user \in Users
        PROVE  held'[q].user = held[q].user /\ call'[q] = call[q]
    BY <1>1, UserKept, OthersKeep
  <1>2. PICK q \in Requests \ {p} :
          call[q].op \in {"change", "reset"} /\ held[q].user = held[p].user
    BY DEF Rival
  <1>3. held'[q].user = held'[p].user /\ call'[q] = call[q]
    BY <1>1, <1>2
  <1> QED
    BY <1>2, <1>3 DEF Rival

\* A session that has not been handed out can be deleted by a revocation of
\* another request only.
LEMMA UnknownSession ==
    ASSUME Flows, Owned, NEW r \in Requests, RequestStep(r),
           NEW p \in Requests, pc[p] \in {"index", "members", "revoke"}
    PROVE  sess'[p] = sess[p] \/ Rival(p)
  <1> USE DEF Flows, IInv
  <1>1. p \in Sids
    BY DEF Sids
  <1>2. p # call[r].cookie
    BY DEF OpFlow
  <1>3. ~(p = r /\ MintSet(r))
    BY DEF MintSet
  <1>4. ASSUME Revoke(r), p \in todo[r] PROVE Rival(p)
    <2>1. p # r /\ held[p].user = held[r].user
      BY <1>4 DEF Owned
    <2>2. call[r].op \in {"change", "reset"}
      BY <1>4 DEF Revoke, OpFlow
    <2> QED
      BY <2>1, <2>2 DEF Rival
  <1> QED
    BY <1>1, <1>2, <1>3, <1>4, SessEffects

LEMMA SurvivingStep ==
    ASSUME Flows, Ages, Owned, Surviving, NEW r \in Requests, RequestStep(r)
    PROVE  Surviving'
  <1> USE DEF Flows, IInv
  <1> SUFFICES ASSUME NEW p \in Requests, pc'[p] \in {"index", "members", "revoke"},
                      call'[p].op \in Minting
               PROVE  \/ Live(p)' /\ sess'[p].expire >= held'[p].created + held'[p].ttl
                      \/ now' >= held'[p].created + held'[p].ttl
                      \/ Rival(p)'
    BY DEF Surviving
  <1>1. CASE pc[p] \in {"index", "members", "revoke"}
    <2>1. held'[p] = held[p] /\ call'[p] = call[p] /\ held[p].user \in Users /\ now' = now
      <3>1. held[p].user \in Users
        BY <1>1 DEF CallFlow, Acting
      <3> QED
        BY <1>1, <3>1, LateStays, OthersKeep, Writers DEF Late
    <2>2. CASE Rival(p)
      BY <2>1, <2>2, RivalStays
    <2>3. CASE ~Rival(p)
      BY <1>1, <2>1, <2>3, UnknownSession DEF Surviving, Live
    <2> QED
      BY <2>2, <2>3
  <1>2. CASE pc[p] \notin {"index", "members", "revoke"}
    <2>1. p = r
      BY <1>2, OthersKeep
    <2>2. MintSet(r) \/ (Update(r) /\ call[r].op = "reset")
      <3>1. ~(IndexSession(r) \/ Members(r) \/ Revoke(r))
        BY <1>2, <2>1 DEF IndexSession, Members, Revoke
      <3>2. MintSet(r) \/ Update(r)
        BY <2>1, <3>1, Leads DEF RequestStep
      <3>3. Update(r) => call[r].op = "reset"
        BY <2>1 DEF Update, Goto, Answer, TypeOK
      <3> QED
        BY <3>2, <3>3
    <2>3. ~(Update(r) /\ call[r].op = "reset")
      BY <2>1 DEF Update, Minting
    <2>4. MintSet(r)
      BY <2>2, <2>3
    <2>5. /\ held'[r] = held[r] /\ sess' = [sess EXCEPT ![r] = Saved(r)]
          /\ held[r].user \in Users /\ r \in Sids /\ sess \in [Sids -> SessionType]
      BY <2>4 DEF MintSet, CallFlow, Acting, TypeOK, Sids
    <2>6. sess'[r].user = held[r].user /\ sess'[r].expire = now + held[r].ttl
      BY <2>5, SavedFields
    <2>7. Live(r)'
      BY <2>5, <2>6, SessionsAssumption DEF Live
    <2>8. now + held[r].ttl >= held[r].created + held[r].ttl
      BY Scalars DEF Ages
    <2> QED
      BY <2>1, <2>5, <2>6, <2>7, <2>8
  <1> QED
    BY <1>1, <1>2

-----------------------------------------------------------------------------
(* Time.                                                                   *)

LEMMA RevocationTick ==
    ASSUME RInv, IInv', Tick
    PROVE  RInv'
  <1> USE DEF RInv, Flows, IInv
  <1>1. /\ call' = call /\ pc' = pc /\ held' = held /\ todo' = todo /\ reply' = reply
        /\ raced' = raced /\ pw' = pw /\ now' = now + 1
    BY DEF Tick, db
  <1>2. ASSUME NEW s \in Sids
        PROVE  /\ sess[s].expire <= now + 1 => ~Live(s)'
               /\ ~(sess[s].expire <= now + 1) => sess'[s] = sess[s]
               /\ Live(s)' => Live(s) /\ sess'[s] = sess[s]
    BY DEF Tick, Live, NoSession
  <1>3. ASSUME NEW u \in Users
        PROVE  \/ index[u].expire <= now + 1 /\ index'[u].members = {}
               \/ index'[u] = index[u]
    BY DEF Tick, NoIndex
  <1>4. ASSUME NEW s \in Sids, Counted(s)'
        PROVE  Counted(s) /\ sess'[s] = sess[s] /\ now + 1 < sess[s].created + Absolute
    <2>1. Live(s) /\ sess'[s] = sess[s] /\ s \notin raced /\ now + 1 < sess[s].created + Absolute
      BY <1>1, <1>2, <1>4 DEF Counted
    <2> QED
      BY <2>1, Scalars DEF Counted
  <1>5. \A r \in Requests : OpFlow(r)'
    BY <1>1 DEF OpFlow
  <1>6. Identified'
    <2>1. \A s : BornTo(s)' = BornTo(s) /\ Opened(s)' = Opened(s) /\ BornWith(s)' = BornWith(s)
      BY <1>1 DEF BornTo, Opened, BornWith
    <2> QED
      BY <1>1, <1>2, <2>1 DEF Identified, Agrees
  <1>7. Ages'
    BY <1>1, Scalars DEF Ages
  <1>8. Owned'
    BY <1>1, <1>3 DEF Owned
  <1>9. Indexed'
    <2> SUFFICES ASSUME NEW s \in Sids, Counted(s)', s \in Old \/ pc'[s] # "index"
                 PROVE  /\ s \in index'[sess'[s].user].members
                        /\ index'[sess'[s].user].expire >= sess'[s].created + Absolute
      BY DEF Indexed
    <2>1. Counted(s) /\ sess'[s] = sess[s] /\ now + 1 < sess[s].created + Absolute
      BY <1>4
    <2>2. /\ s \in index[sess[s].user].members
          /\ index[sess[s].user].expire >= sess[s].created + Absolute
      BY <1>1, <2>1 DEF Indexed
    <2>3. sess[s].user \in Users
      BY <2>1, LiveAge DEF Counted
    <2>4. ~(index[sess[s].user].expire <= now + 1)
      BY <2>1, <2>2, <2>3, Scalars
    <2> QED
      BY <1>3, <2>1, <2>2, <2>3, <2>4
  <1>10. NoStale'
    <2>1. ASSUME NEW r \in Requests, Listed(r)' PROVE NoStaleStart(r)' /\ NoStaleSession(r)'
      <3>1. NoStaleStart(r) /\ NoStaleSession(r)
        BY <1>1, <2>1 DEF Listed, NoStale
      <3>2. NoStaleStart(r)'
        BY <1>1, <3>1 DEF NoStaleStart
      <3>3. NoStaleSession(r)'
        BY <1>1, <1>4, <3>1 DEF NoStaleSession
      <3> QED
        BY <3>2, <3>3
    <2> QED
      BY <2>1 DEF NoStale
  <1>11. Surviving'
    <2> SUFFICES ASSUME NEW r \in Requests, pc[r] \in {"index", "members", "revoke"},
                        call[r].op \in Minting
                 PROVE  \/ Live(r)' /\ sess'[r].expire >= held[r].created + held[r].ttl
                        \/ now' >= held[r].created + held[r].ttl
                        \/ Rival(r)'
      BY <1>1 DEF Surviving
    <2>1. /\ now \in Nat /\ held[r].created + held[r].ttl \in Nat /\ r \in Sids
          /\ sess[r].expire \in Nat
      BY Scalars DEF Sids
    <2>2. CASE Rival(r)
      BY <1>1, <2>2 DEF Rival
    <2>3. CASE now >= held[r].created + held[r].ttl
      BY <1>1, <2>1, <2>3
    <2>4. CASE Live(r) /\ sess[r].expire >= held[r].created + held[r].ttl
      <3>1. CASE sess[r].expire <= now + 1
        BY <1>1, <2>1, <2>4, <3>1
      <3>2. CASE ~(sess[r].expire <= now + 1)
        BY <1>2, <2>1, <2>4, <3>2 DEF Live
      <3> QED
        BY <3>1, <3>2
    <2> QED
      BY <2>2, <2>3, <2>4 DEF Surviving
  <1> QED
    BY <1>5, <1>6, <1>7, <1>8, <1>9, <1>10, <1>11

LEMMA RevocationInit == Init => RInv
  <1> SUFFICES ASSUME Init PROVE RInv
    OBVIOUS
  <1>1. IInv
    BY InitIInv
  <1>2. \A r \in Requests : /\ pc[r] = "idle" /\ call[r].op = None /\ call[r].cookie = None
                            /\ held[r].user = None /\ held[r].created = 0
                            /\ todo[r] = {} /\ reply[r] = 0
    BY DEF Init, NoCall, NotHeld
  <1>3. None \notin Sids /\ None \notin Users /\ Old \subseteq Sids /\ Requests \cap Old = {}
    BY SessionsAssumption DEF Sids
  <1>4. ASSUME NEW s \in Sids, Live(s)
        PROVE  /\ s \in Old /\ s \notin Requests /\ sess[s].user = OldUser[s]
               /\ sess[s].created = 0 /\ sess[s].basis = 1
    BY <1>3, <1>4 DEF Init, Live, NoSession
  <1>5. now = 0 /\ \A s \in Old : OldUser[s] \in Users /\ pw[OldUser[s]] = 1
    BY SessionsAssumption DEF Init
  <1>6. \A r \in Requests : OpFlow(r)
    BY <1>2, <1>3 DEF OpFlow, Starts, Sids
  <1>7. Identified
    BY <1>2, <1>4 DEF Identified, Agrees, BornTo, Opened, BornWith
  <1>8. Ages
    BY <1>2, <1>3, <1>5 DEF Ages
  <1>9. Owned
    <2>1. ASSUME NEW u \in Users, NEW s \in index[u].members PROVE s \in Old
      BY <2>1 DEF Init, NoIndex
    <2> QED
      BY <1>2, <1>3, <2>1 DEF Owned
  <1>10. Indexed
    <2> SUFFICES ASSUME NEW s \in Sids, Live(s)
                 PROVE  /\ s \in index[sess[s].user].members
                        /\ index[sess[s].user].expire >= sess[s].created + Absolute
      BY DEF Indexed, Counted
    <2>1. /\ s \in Old /\ sess[s].user = OldUser[s] /\ sess[s].created = 0
          /\ OldUser[s] \in Users /\ pw[OldUser[s]] = 1
      BY <1>4, <1>5
    <2>2. index[OldUser[s]] = [members |-> {x \in Old : OldUser[x] = OldUser[s]},
                               expire |-> Absolute]
      BY <2>1 DEF Init
    <2> QED
      BY <2>1, <2>2, SessionsAssumption
  <1>11. NoStale
    BY <1>2 DEF NoStale, Listed
  <1>12. Surviving
    BY <1>2 DEF Surviving
  <1> QED
    BY <1>1, <1>6, <1>7, <1>8, <1>9, <1>10, <1>11, <1>12 DEF RInv, Flows

LEMMA Revocation == Spec => []RInv
  <1>1. Init => RInv
    BY RevocationInit
  <1>2. ASSUME RInv, [Next]_vars PROVE RInv'
    <2>1. IInv'
      BY <1>2, NextIInv DEF RInv, Flows
    <2>2. ASSUME NEW r \in Requests, RequestStep(r) PROVE RInv'
      <3>1. Flows'
        BY <1>2, <2>1, <2>2, FlowsStep DEF RInv
      <3>2. Identified' /\ Owned'
        BY <1>2, <2>2, IdentifiedStep, OwnedStep DEF RInv
      <3>3. Ages'
        BY <1>2, <2>2, <3>1, AgesStep DEF RInv
      <3>4. Indexed'
        BY <1>2, <2>2, IndexedStep DEF RInv
      <3>5. NoStale'
        BY <1>2, <2>2, <3>1, NoStaleStep DEF RInv
      <3>6. Surviving'
        BY <1>2, <2>2, SurvivingStep DEF RInv
      <3> QED
        BY <3>1, <3>2, <3>3, <3>4, <3>5, <3>6 DEF RInv
    <2>3. CASE Tick
      BY <1>2, <2>1, <2>3, RevocationTick
    <2>4. CASE UNCHANGED vars
      <3>1. UNCHANGED <<now, pw, sess, index, token, call, pc, held, todo, reply, raced>>
        BY <2>4 DEF vars
      <3>2. \A r \in Requests : OpFlow(r)'
        BY <1>2, <3>1 DEF RInv, Flows, OpFlow
      <3>3. Identified'
        BY <1>2, <3>1 DEF RInv, Identified, Agrees, BornTo, Opened, BornWith, Live
      <3>4. Ages' /\ Owned'
        BY <1>2, <3>1 DEF RInv, Ages, Owned
      <3>5. Indexed'
        BY <1>2, <3>1 DEF RInv, Indexed, Counted, Live
      <3>6. NoStale'
        BY <1>2, <3>1 DEF RInv, NoStale, NoStaleStart, NoStaleSession, Listed, Counted, Live
      <3>7. Surviving'
        BY <1>2, <3>1 DEF RInv, Surviving, Rival, Live
      <3> QED
        BY <2>1, <3>2, <3>3, <3>4, <3>5, <3>6, <3>7 DEF RInv, Flows
    <2> QED
      BY <1>2, <2>2, <2>3, <2>4 DEF Next, Finished
  <1> QED
    BY <1>1, <1>2, PTL DEF Spec

\* Bulk revocation can find what it must: RevokeUserSessions reads the index, and
\* every session with lifetime left is in it, which CreateSession's SADD keeps
\* alive for long enough, whatever time passes between the commands and whichever
\* of them fail; the sessions on the race list are excused.
THEOREM IndexComplete == Spec => []IndexOutlivesSessions
  <1>1. ASSUME RInv PROVE IndexOutlivesSessions
    BY <1>1 DEF RInv, Indexed, Counted, IndexOutlivesSessions
  <1> QED
    BY <1>1, Revocation, PTL

\* RevokedUnlessRaced, of the sessions with lifetime left: a delayed touch can keep
\* the key of one without for longer than the index lists it, but no request gets
\* past the middleware with that one (AbsoluteIsHard).
RevokedWhileValid ==
    \A r \in Requests :
        call[r].op \in {"change", "reset"} /\ reply[r] = 200 =>
            \A s \in Sids \ raced :
                /\ Live(s) /\ now < sess[s].created + Absolute
                /\ sess[s].user = held[r].user
                => sess[s].basis >= held[r].basis

\* After a change or a reset has answered 200, no session opened with an older
\* password that has lifetime left is alive, except those on the race list: the
\* list SMEMBERS returned, deleted key by key while other requests log in, touch,
\* change and reset, covers all of them.
THEOREM RevocationHolds == Spec => []RevokedWhileValid
  <1>1. ASSUME RInv PROVE RevokedWhileValid
    <2> SUFFICES ASSUME NEW r \in Requests,
                        call[r].op \in {"change", "reset"}, reply[r] = 200,
                        NEW s \in Sids, s \notin raced, Live(s),
                        now < sess[s].created + Absolute, sess[s].user = held[r].user,
                        sess[s].basis < held[r].basis
                 PROVE  FALSE
      BY <1>1, Scalars DEF RevokedWhileValid, RInv, Flows, IInv
    <2>1. pc[r] = "done"
      BY <1>1 DEF RInv, Flows, IInv, CallFlow
    <2> QED
      BY <1>1, <2>1 DEF RInv, NoStale, Listed, NoStaleSession, Counted
  <1> QED
    BY <1>1, Revocation, PTL

\* As long as no session has reached its absolute lifetime that is every session.
THEOREM RevocationTotal ==
    ASSUME MaxTime < Absolute
    PROVE  Spec => []RevokedUnlessRaced
  <1>1. ASSUME RevokedWhileValid, TypeOK PROVE RevokedUnlessRaced
    <2>1. ASSUME NEW s \in Sids PROVE now < sess[s].created + Absolute
      <3>1. now \in 0..MaxTime /\ sess[s].created \in Nat /\ Absolute \in Nat /\ MaxTime \in Nat
        BY <1>1, SessionsAssumption, Scalars DEF TypeOK
      <3> QED
        BY <3>1
    <2> QED
      BY <1>1, <2>1 DEF RevokedWhileValid, RevokedUnlessRaced
  <1> QED
    BY <1>1, RevocationHolds, TypeCorrect, PTL

\* A change hands out a session that works: PostAuthPasswordChange does not revoke
\* the one it has just minted, nor does anybody but another revocation of that user.
THEOREM FreshSessionLasts == Spec => FreshSessionSurvives
  <1>1. ASSUME RInv, [Next]_vars, NEW r \in Requests,
               call[r].op = "change", reply'[r] = 200, reply[r] # 200
        PROVE  \/ Live(r)'
               \/ now >= held[r].created + held[r].ttl
               \/ Rival(r)
    <2> USE DEF RInv, Flows, IInv
    <2>1. PICK q \in Requests : RequestStep(q)
      BY <1>1 DEF Next, Tick, Finished, vars
    <2>2. q = r
      BY <1>1, <2>1, OthersKeep
    <2>3. pc[r] \in {"members", "revoke"}
      <3>1. ~Start(r)
        BY <1>1 DEF Start, Goto
      <3>2. ~(TouchSet(r) \/ IndexSession(r) \/ Lookup(r) \/ Issue(r) \/ ClearIndex(r))
        BY <1>1 DEF TouchSet, IndexSession, Lookup, Issue, ClearIndex, Answer, Goto, OpFlow, TypeOK
      <3>3. Members(r) \/ Revoke(r)
        BY <1>1, <2>1, <2>2, <3>1, <3>2
        DEF RequestStep, GetSession, Touch, DeleteExpired, Logout, Register, Login,
            VerifyCurrent, Update, Rotate, Mint, MintSet, Consume, Fail, Goto, Answer, TypeOK
      <3> QED
        BY <3>3 DEF Members, Revoke
    <2>4. sess'[r] = sess[r] \/ Rival(r)
      BY <1>1, <2>1, <2>2, <2>3, UnknownSession
    <2>5. \/ Live(r) \/ now >= held[r].created + held[r].ttl \/ Rival(r)
      BY <1>1, <2>3 DEF Surviving, Minting
    <2> QED
      BY <2>4, <2>5 DEF Live
  <1>2. RInv /\ [Next]_vars =>
          [\A r \in Requests :
             call[r].op = "change" /\ reply'[r] = 200 /\ reply[r] # 200 =>
                \/ Live(r)'
                \/ now >= held[r].created + held[r].ttl
                \/ \E q \in Requests \ {r} :
                      call[q].op \in {"change", "reset"} /\ held[q].user = held[r].user]_vars
    BY <1>1 DEF Rival
  <1> QED
    BY <1>2, Revocation, PTL DEF Spec, FreshSessionSurvives

-----------------------------------------------------------------------------
(* The absolute lifetime.                                                  *)

\* What a request that is about to store a session may grant it, counted from
\* the arrival of the request: Touch and Mint read the clock after it.
Granted(r) ==
    pc[r] \in {"touch_set", "mint_set"} =>
        call[r].at + held[r].ttl <= held[r].created + Absolute

\* A request that has reached the SET of its touch found lifetime left.
Arrived(r) ==
    /\ call[r].at <= now
    /\ call[r].op \in Protected => call[r].cookie \in Sids
    /\ pc[r] = "touch_set" => call[r].at < held[r].created + Absolute

Lifetimes == (\A r \in Requests : Granted(r) /\ Arrived(r)) /\ AbsoluteIsHard

LEMMA Times ==
    ASSUME TypeOK
    PROVE  /\ Absolute \in Nat /\ MaxDelay \in Nat /\ now \in Nat
           /\ \A r \in Requests : call[r].at \in Nat /\ held[r].ttl \in Nat
                                  /\ held[r].created \in Nat
           /\ \A s \in Sids : Opened(s) \in Nat /\ sess[s].expire \in Nat
  <1>1. \A s \in Sids : s \notin Old => s \in Requests
    BY DEF Sids
  <1>2. /\ \A r \in Requests : held[r].created \in Nat /\ held[r].ttl \in Nat
        /\ \A s \in Sids : sess[s].expire \in Nat
    BY Scalars
  <1>3. \A r \in Requests : call[r].at \in Nat
    BY SessionsAssumption DEF TypeOK, CallType
  <1> QED
    BY <1>1, <1>2, <1>3, Scalars, SessionsAssumption DEF Opened

\* The request that takes a step grants no more than is left, and has arrived.
LEMMA GrantedStep ==
    ASSUME Flows, Ages, NEW r \in Requests, Granted(r), Arrived(r), RequestStep(r)
    PROVE  Granted(r)' /\ Arrived(r)'
  <1> USE DEF Flows, IInv
  <1>1. now' = now /\ (call' = call \/ Start(r))
    BY Writers
  <1>2. CASE Start(r)
    <2>1. PICK op \in Ops, u \in Users \cup {None}, c \in Cookies \cup {None},
               t \in Tokens \cup {None} :
               /\ op \in Protected => c # None
               /\ call' = [call EXCEPT ![r] =
                             [op |-> op, user |-> u, cookie |-> c, token |-> t, at |-> now]]
               /\ Goto(r, FirstStep(op))
      BY <1>2, Called
    <2>2. call'[r].at = now /\ call'[r].op = op /\ call'[r].cookie = c
      BY <2>1 DEF TypeOK
    <2>3. op \in Protected => c \in Sids
      BY <2>1 DEF Cookies, Sids
    <2>4. pc'[r] \notin {"touch_set", "mint_set"}
      BY <1>2, Leads
    <2> QED
      BY <1>1, <2>2, <2>3, <2>4, Times DEF Granted, Arrived
  <1>3. CASE Touch(r)
    <2>1. pc[r] = "touch" /\ call' = call
      BY <1>3 DEF Touch
    <2>2. pc'[r] = "touch_set" =>
            /\ RemainingTTL(held[r].created) > 0
            /\ held'[r].ttl = RemainingTTL(held[r].created)
            /\ held'[r].created = held[r].created
      BY <1>3 DEF Touch, Goto, TypeOK, HeldType
    <2>3. RemainingTTL(held[r].created) <= held[r].created + Absolute - now
      BY Times, SessionsAssumption DEF RemainingTTL
    <2>4. RemainingTTL(held[r].created) > 0 => now < held[r].created + Absolute
      BY <2>3, Times, SessionsAssumption DEF RemainingTTL
    <2>5. pc'[r] # "mint_set"
      BY <1>3, Leads
    <2>6. RemainingTTL(held[r].created) \in Int
      BY Times, SessionsAssumption DEF RemainingTTL
    <2> HIDE DEF Flows, IInv
    <2>7. call[r].at <= now /\ call[r].at \in Nat /\ now \in Nat /\ held[r].created \in Nat
          /\ Absolute \in Nat
      BY Times DEF Arrived, Flows, IInv
    <2>8. Granted(r)'
      BY <2>1, <2>2, <2>3, <2>5, <2>6, <2>7 DEF Granted
    <2>9. Arrived(r)'
      BY <1>1, <2>1, <2>2, <2>4, <2>7 DEF Arrived
    <2> QED
      BY <2>8, <2>9
  <1>4. CASE Mint(r)
    <2>1. /\ held'[r].created = now /\ held'[r].ttl = Idle /\ call' = call
          /\ pc'[r] = "mint_set"
      BY <1>4 DEF Mint, Goto, TypeOK, HeldType
    <2> QED
      BY <1>1, <2>1, Times, SessionsAssumption DEF Granted, Arrived
  <1>5. CASE ~Start(r) /\ ~Touch(r) /\ ~Mint(r)
    <2>1. pc'[r] \notin {"touch_set", "mint_set"}
      BY <1>5, Leads DEF RequestStep
    <2> QED
      BY <1>1, <1>5, <2>1 DEF Granted, Arrived
  <1> QED
    BY <1>2, <1>3, <1>4, <1>5

\* Who is admitted by a step was so before, or has just stored the session again.
LEMMA AdmittedBefore ==
    ASSUME Flows, NEW r \in Requests, RequestStep(r), NEW q \in Requests, Admitted(q)'
    PROVE  /\ call'[q] = call[q]
           /\ Admitted(q) \/ (pc[q] = "touch_set" /\ call[q].op \in Protected)
  <1> USE DEF Flows, IInv
  <1>1. CASE q # r
    BY <1>1, OthersKeep DEF Admitted
  <1>2. CASE q = r
    <2>1. ~Start(r)
      <3>1. ASSUME Start(r) PROVE FALSE
        <4>1. PICK op \in Ops, u \in Users \cup {None}, c \in Cookies \cup {None},
                   t \in Tokens \cup {None} :
                   /\ op \in Protected => c # None
                   /\ call' = [call EXCEPT ![r] =
                                 [op |-> op, user |-> u, cookie |-> c, token |-> t, at |-> now]]
                   /\ Goto(r, FirstStep(op))
          BY <3>1, Called
        <4>2. call'[r].op = op /\ pc'[r] = FirstStep(op) /\ reply' = reply
          BY <4>1 DEF TypeOK, Goto
        <4>3. reply[r] = 0
          BY <3>1 DEF Start, CallFlow, TypeOK
        <4> QED
          BY <1>2, <4>2, <4>3 DEF Admitted, FirstStep, Protected
      <3> QED
        BY <3>1
    <2>2. call' = call
      BY <2>1, Writers
    <2>3. pc[r] # "idle" /\ pc[r] # "done"
      <3>1. pc[r] # "done"
        BY OthersKeep
      <3>2. pc[r] # "idle"
        BY <2>1 DEF RequestStep, GetSession, Touch, DeleteExpired,
             TouchSet, Logout, Register, Login, VerifyCurrent, Update, Rotate, Mint,
             MintSet, IndexSession, Members, Revoke, ClearIndex, Lookup, Issue, Consume, Fail
      <3> QED
        BY <3>1, <3>2
    <2>4. ASSUME pc[r] \in {"get", "touch", "expired"} PROVE FALSE
      <3>1. GetSession(r) \/ Touch(r) \/ DeleteExpired(r) \/ Fail(r)
        BY <2>4 DEF RequestStep, Start,
             TouchSet, Logout, Register, Login, VerifyCurrent, Update, Rotate, Mint,
             MintSet, IndexSession, Members, Revoke, ClearIndex, Lookup, Issue, Consume
      <3>2. reply[r] = 0
        BY <2>4 DEF CallFlow
      <3>3. reply'[r] \in {0, 401, 403}
        BY <2>4, <3>1, <3>2 DEF GetSession, Touch, DeleteExpired, Fail, Goto, Answer, TypeOK
      <3>4. pc'[r] \in {"done", "expired", "touch", "touch_set"}
        BY <3>1, Leads
      <3> QED
        BY <1>2, <3>3, <3>4 DEF Admitted
    <2> QED
      BY <1>2, <2>2, <2>3, <2>4 DEF Admitted
  <1> QED
    BY <1>1, <1>2

LEMMA LifetimesStep ==
    ASSUME RInv, RInv', Lifetimes, NEW r \in Requests, RequestStep(r)
    PROVE  Lifetimes'
  <1> USE DEF RInv, Flows, IInv
  <1>1. ASSUME NEW q \in Requests PROVE Granted(q)' /\ Arrived(q)'
    <2>1. CASE q = r
      BY <2>1, GrantedStep DEF Lifetimes
    <2>2. CASE q # r
      <3>1. pc'[q] = pc[q] /\ call'[q] = call[q] /\ held'[q] = held[q] /\ now' = now
        BY <2>2, OthersKeep, Writers
      <3> QED
        BY <3>1 DEF Lifetimes, Granted, Arrived
    <2> QED
      BY <2>1, <2>2
  <1>2. ASSUME NEW q \in Requests, Admitted(q)'
        PROVE  (call[q].at < Opened(call[q].cookie) + Absolute)'
    <2> DEFINE c == call[q].cookie
    <2>1. /\ call'[q] = call[q]
          /\ Admitted(q) \/ (pc[q] = "touch_set" /\ call[q].op \in Protected)
      BY <1>2, AdmittedBefore
    <2>2. c \in Sids
      BY <2>1 DEF Lifetimes, Arrived, Admitted
    <2>3. Opened(c)' = Opened(c)
      BY <2>1, <2>2, BornStays DEF OpFlow, Late
    <2>4. call[q].at < Opened(c) + Absolute
      BY <2>1 DEF Lifetimes, AbsoluteIsHard, Arrived, Identified, Agrees
    <2> QED
      BY <2>1, <2>3, <2>4
  <1>3. ASSUME NEW s \in Sids, Live(s)'
        PROVE  (sess[s].expire <= Opened(s) + Absolute + MaxDelay)'
    <2>1. Opened(s)' = sess'[s].created
      BY <1>3 DEF Identified, Agrees
    <2>2. CASE sess'[s] = sess[s]
      <3>1. Live(s)
        BY <1>3, <2>2 DEF Live
      <3>2. sess[s].created = Opened(s)
        BY <3>1 DEF Identified, Agrees
      <3> QED
        BY <2>1, <2>2, <3>1, <3>2 DEF Lifetimes, AbsoluteIsHard
    <2>3. CASE sess'[s] = Saved(r) /\ (TouchSet(r) \/ MintSet(r))
      <3>1. pc[r] \in {"touch_set", "mint_set"} /\ now <= call[r].at + MaxDelay
        BY <2>3 DEF TouchSet, MintSet, InTime
      <3>2. sess'[s].created = held[r].created /\ sess'[s].expire = now + held[r].ttl
        BY <2>3, SavedFields
      <3>3. call[r].at + held[r].ttl <= held[r].created + Absolute
        BY <3>1 DEF Lifetimes, Granted
      <3>4. now + held[r].ttl <= held[r].created + Absolute + MaxDelay
        BY <3>1, <3>3, Times
      <3> QED
        BY <2>1, <3>2, <3>4
    <2>4. sess'[s] # NoSession
      BY <1>3 DEF Live, NoSession
    <2> QED
      BY <2>2, <2>3, <2>4, SessEffects
  <1> QED
    BY <1>1, <1>2, <1>3 DEF Lifetimes, AbsoluteIsHard

LEMMA LifetimesHold == Spec => []Lifetimes
  <1>1. ASSUME Init PROVE Lifetimes
    <2>1. RInv
      BY <1>1, RevocationInit
    <2>2. \A r \in Requests : /\ pc[r] = "idle" /\ call[r].op = None /\ reply[r] = 0
                              /\ call[r].at = 0 /\ now = 0
      BY <1>1 DEF Init, NoCall
    <2>3. None \notin Protected
      BY SessionsAssumption DEF Protected, AllOps
    <2>4. ASSUME NEW s \in Sids, Live(s) PROVE sess[s].expire <= Opened(s) + Absolute + MaxDelay
      <3>1. s \in Old
        BY <1>1, <2>4 DEF Init, Live, NoSession
      <3>2. sess[s].expire = Idle /\ Opened(s) = 0
        BY <1>1, <3>1, <2>4 DEF Init, Opened
      <3> QED
        BY <3>2, SessionsAssumption
    <2> QED
      BY <2>2, <2>3, <2>4 DEF Lifetimes, Granted, Arrived, AbsoluteIsHard, Admitted
  <1>2. ASSUME Lifetimes, RInv, RInv', [Next]_vars PROVE Lifetimes'
    <2>1. ASSUME NEW r \in Requests, RequestStep(r) PROVE Lifetimes'
      BY <1>2, <2>1, LifetimesStep
    <2>2. CASE Tick
      <3>1. /\ call' = call /\ pc' = pc /\ held' = held /\ reply' = reply /\ now' = now + 1
        BY <2>2 DEF Tick
      <3>2. \A s : Opened(s)' = Opened(s)
        BY <3>1 DEF Opened
      <3>3. \A s \in Sids : Live(s)' => Live(s) /\ sess'[s] = sess[s]
        BY <2>2 DEF Tick, Live, NoSession
      <3>4. \A r \in Requests : Granted(r)' /\ Arrived(r)'
        BY <1>2, <3>1, Times DEF Lifetimes, Granted, Arrived, RInv, Flows, IInv
      <3>5. AbsoluteIsHard'
        BY <1>2, <3>1, <3>2, <3>3 DEF Lifetimes, AbsoluteIsHard, Admitted
      <3> QED
        BY <3>4, <3>5 DEF Lifetimes
    <2>3. CASE UNCHANGED vars
      <3>1. UNCHANGED <<now, pw, sess, index, token, call, pc, held, todo, reply, raced>>
        BY <2>3 DEF vars
      <3>2. \A s : Opened(s)' = Opened(s)
        BY <3>1 DEF Opened
      <3> QED
        BY <1>2, <3>1, <3>2 DEF Lifetimes, Granted, Arrived, AbsoluteIsHard, Admitted, Live
    <2> QED
      BY <1>2, <2>1, <2>2, <2>3 DEF Next, Finished
  <1> QED
    BY <1>1, <1>2, Revocation, PTL DEF Spec

\* Nobody who comes after the end of a session's absolute lifetime gets past
\* authMiddleware with it, whatever touches of earlier requests have stored the
\* session again; and TouchSession's cap keeps the key within that lifetime and
\* the time a request has for its commands.
THEOREM AbsoluteLifetime == Spec => []AbsoluteIsHard
  BY LifetimesHold, PTL DEF Lifetimes
=============================================================================
