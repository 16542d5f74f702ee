---------------------------- MODULE LockoutProofs ----------------------------
(***************************************************************************)
(* Proofs about Lockout, for any number of requests, users and addresses   *)
(* and any threshold, window and lock duration.                            *)
(***************************************************************************)
EXTENDS Lockout, FiniteSetTheorems, TLAPS

\* The rest of the loop over the username and the address.
Rest(r) == {<<call[r].user, call[r].ip>>, <<call[r].ip>>}
ResetRest(r) ==
    {<<call[r].user, call[r].ip, call[r].user, call[r].ip>>,
     <<call[r].ip, call[r].user, call[r].ip>>} \cup Rest(r)

\* Where a request can be, and the keys it has still to visit there.
Flow(r) ==
    /\ pc[r] \in {"get", "ttl", "incr", "set"} => todo[r] \in Rest(r)
    /\ pc[r] = "reset" => todo[r] \in ResetRest(r)
    /\ pc[r] \in {"get", "ttl", "verify", "incr", "set", "reset"} => call[r].op = "login"
    /\ pc[r] \in {"lookup", "unlock_fails", "unlock_lock"} => call[r].op = "unlock"
    /\ pc[r] # "done" => reply[r].code = 0

\* A key is counted once by a request: what it has still to bump it has not
\* counted yet.
Uncounted(r) ==
    /\ pc[r] \in {"get", "ttl", "verify"} =>
           counted[r][call[r].user] = -1 /\ counted[r][call[r].ip] = -1
    /\ pc[r] = "incr" /\ todo[r] = <<call[r].user, call[r].ip>> =>
           counted[r][call[r].user] = -1
    /\ pc[r] = "incr" => counted[r][call[r].ip] = -1
    /\ pc[r] = "set" /\ todo[r] = <<call[r].user, call[r].ip>> =>
           counted[r][call[r].ip] = -1

\* A live counter counts failures of the Window that began with its first one,
\* at t.
Opened(k, t) ==
    /\ fails[k].expire = t + Window /\ now < t + Window
    /\ fails[k].n <= Cardinality(FailuresWithin(k, t))

CountInv == \A k \in Keys : fails[k].n > 0 => \E t \in 0..now : Opened(k, t)

\* There have been MaxAttempts failures against k within one Window.
Deserved(k) == \E t \in 0..now : Cardinality(FailuresWithin(k, t)) >= MaxAttempts

\* Locks are deserved when they are set, and before: when a request is about to.
EarnedInv ==
    \A k \in Keys :
        lock[k] # 0 \/ (\E r \in Requests : pc[r] = "set" /\ Head(todo[r]) = k) =>
            Deserved(k)

\* The inductive invariant.
IInv ==
    /\ TypeOK
    /\ \A r \in Requests : Flow(r) /\ Uncounted(r)
    /\ CountInv
    /\ EarnedInv

-----------------------------------------------------------------------------
(* Sequences, maxima, rounding.                                            *)

\* The loops' sequences.
LEMMA Pair ==
    ASSUME NEW a, NEW b
    PROVE  /\ Head(<<a, b>>) = a /\ Tail(<<a, b>>) = <<b>> /\ Len(<<a, b>>) = 2
           /\ Head(<<b>>) = b /\ Len(<<b>>) = 1
  OBVIOUS

LEMMA Four ==
    ASSUME NEW a, NEW b
    PROVE  /\ Head(<<a, b, a, b>>) = a /\ Tail(<<a, b, a, b>>) = <<b, a, b>>
           /\ Len(<<a, b, a, b>>) = 4
           /\ Head(<<b, a, b>>) = b /\ Tail(<<b, a, b>>) = <<a, b>>
           /\ Len(<<b, a, b>>) = 3
  OBVIOUS

\* The larger of two integers.
LEMMA MaxOfTwo ==
    ASSUME NEW a \in Int, NEW b \in Int
    PROVE  Max({a, b}) \in {a, b} /\ Max({a, b}) >= a /\ Max({a, b}) >= b
  <1>1. \E x \in {a, b} : \A y \in {a, b} : x >= y
    OBVIOUS
  <1>2. Max({a, b}) \in {a, b} /\ \A y \in {a, b} : Max({a, b}) >= y
    BY <1>1, Zenon DEF Max
  <1> QED
    BY <1>2

\* The parameters of a request.
LEMMA Parameters ==
    ASSUME TypeOK, NEW r \in Requests
    PROVE  /\ call[r].user \in Keys /\ call[r].ip \in Keys
           /\ call[r].user # call[r].ip
           /\ call[r].op \in {"login", "unlock"}
  BY LockoutAssumption DEF TypeOK, Keys

\* The key a loop visits next.
LEMMA HeadKey ==
    ASSUME TypeOK, NEW r \in Requests, Flow(r),
           pc[r] \in {"get", "ttl", "incr", "set", "reset"}
    PROVE  /\ Head(todo[r]) \in {call[r].user, call[r].ip} /\ Head(todo[r]) \in Keys
           /\ todo[r] = <<call[r].user, call[r].ip>> => Head(todo[r]) = call[r].user
           /\ todo[r] = <<call[r].ip>> => Head(todo[r]) = call[r].ip
           /\ Len(todo[r]) > 1 => Tail(todo[r]) \in Seq(Keys)
  <1>1. call[r].user \in Keys /\ call[r].ip \in Keys
    BY Parameters
  <1>2. todo[r] \in ResetRest(r)
    BY DEF Flow, ResetRest
  <1> DEFINE u == call[r].user
             i == call[r].ip
  <1>3. Head(todo[r]) \in {u, i}
    BY <1>2, Pair, Four DEF ResetRest, Rest
  <1>4. ASSUME Len(todo[r]) > 1 PROVE Tail(todo[r]) \in Seq(Keys)
    <2>0. /\ Len(<<i>>) = 1 /\ Tail(<<u, i>>) = <<i>>
          /\ Tail(<<u, i, u, i>>) = <<i, u, i>> /\ Tail(<<i, u, i>>) = <<u, i>>
      BY Pair, Four
    <2>1. ASSUME todo[r] = <<i>> PROVE FALSE
      <3>1. Len(todo[r]) = 1
        BY <2>0, <2>1, Zenon
      <3> QED
        BY <1>4, <3>1
    <2>2. todo[r] \in {<<u, i, u, i>>, <<i, u, i>>, <<u, i>>}
      BY <1>2, <2>1 DEF ResetRest, Rest
    <2>3. Tail(todo[r]) \in {<<i, u, i>>, <<u, i>>, <<i>>}
      BY <2>0, <2>2
    <2>4. <<i, u, i>> \in Seq(Keys) /\ <<u, i>> \in Seq(Keys) /\ <<i>> \in Seq(Keys)
      BY <1>1
    <2> QED
      BY <2>3, <2>4
  <1> QED
    BY <1>1, <1>3, <1>4, Pair

-----------------------------------------------------------------------------
(* Type correctness.                                                       *)

ControlOK ==
    /\ now \in 0..MaxTime
    /\ call \in [Requests -> Calls]
    /\ pc \in [Requests -> Pcs]
    /\ todo \in [Requests -> Seq(Keys)]

RepliesOK == reply \in [Requests -> ReplyType]

\* What the steps write into Redis.
LEMMA Written ==
    ASSUME TypeOK
    PROVE  /\ Absent \in CounterType /\ 0 \in ExpiryType /\ now + LockTTL \in ExpiryType
           /\ \A c \in CounterType : Incremented(c) \in CounterType
           /\ now \in Int /\ RepliesOK
  BY LockoutAssumption DEF TypeOK, CounterType, ExpiryType, Absent, Incremented, RepliesOK

\* A larger expiry is an expiry.
LEMMA LaterExpiry ==
    ASSUME NEW a \in ExpiryType, NEW b \in ExpiryType
    PROVE  Max({a, b}) \in ExpiryType
  <1>1. a \in Int /\ b \in Int
    BY LockoutAssumption DEF ExpiryType
  <1>2. Max({a, b}) \in {a, b}
    BY <1>1, MaxOfTwo
  <1> QED
    BY <1>2

LEMMA GotoType ==
    ASSUME TypeOK, NEW r \in Requests, NEW p \in Pcs, NEW keys \in Seq(Keys),
           Goto(r, p, keys)
    PROVE  ControlOK'
  BY DEF TypeOK, ControlOK, Goto

LEMMA AnswerType ==
    ASSUME TypeOK, NEW r \in Requests, NEW c \in Codes, NEW wait \in Nat,
           Answer(r, c, wait)
    PROVE  ControlOK' /\ RepliesOK'
  <1>1. ControlOK'
    <2>1. <<>> \in Seq(Keys) /\ "done" \in Pcs
      BY DEF Pcs
    <2> QED
      BY <2>1, GotoType DEF Answer
  <1>2. [code |-> c, retryAfter |-> wait, at |-> IF c = 423 THEN now ELSE 0]
          \in ReplyType
    BY LockoutAssumption DEF TypeOK, ReplyType
  <1> QED
    BY <1>1, <1>2 DEF Answer, RepliesOK, TypeOK

\* RetryAfterSeconds of the lock's duration.
LEMMA HintType == RetryAfterSeconds(LockTTL) \in Nat
  BY LockoutAssumption DEF RetryAfterSeconds

LEMMA LockedNextType ==
    ASSUME TypeOK, NEW r \in Requests, Flow(r), pc[r] \in {"get", "ttl"},
           NEW found, NEW seconds \in Nat, LockedNext(r, found, seconds)
    PROVE  ControlOK' /\ RepliesOK'
  <1>1. CASE Len(todo[r]) > 1
    <2>1. Tail(todo[r]) \in Seq(Keys) /\ "get" \in Pcs
      BY <1>1, HeadKey DEF Pcs
    <2> QED
      BY <1>1, <2>1, GotoType DEF LockedNext, TypeOK, RepliesOK
  <1>2. CASE ~(Len(todo[r]) > 1) /\ found
    <2>1. (IF seconds > 0 THEN seconds ELSE RetryAfterSeconds(LockTTL)) \in Nat
      BY HintType
    <2>2. 423 \in Codes
      BY DEF Codes
    <2> QED
      BY <1>2, <2>1, <2>2, AnswerType DEF LockedNext
  <1>3. CASE ~(Len(todo[r]) > 1) /\ ~found
    <2>1. <<>> \in Seq(Keys) /\ "verify" \in Pcs
      BY DEF Pcs
    <2> QED
      BY <1>3, <2>1, GotoType DEF LockedNext, TypeOK, RepliesOK
  <1> QED
    BY <1>1, <1>2, <1>3

LEMMA NextBumpType ==
    ASSUME TypeOK, NEW r \in Requests, Flow(r), pc[r] \in {"incr", "set"}, NextBump(r)
    PROVE  ControlOK' /\ RepliesOK'
  <1>1. CASE Len(todo[r]) > 1
    <2>1. Tail(todo[r]) \in Seq(Keys) /\ "incr" \in Pcs
      BY <1>1, HeadKey DEF Pcs
    <2> QED
      BY <1>1, <2>1, GotoType DEF NextBump, TypeOK, RepliesOK
  <1>2. CASE ~(Len(todo[r]) > 1)
    <2>1. 401 \in Codes /\ 0 \in Nat
      BY DEF Codes
    <2> QED
      BY <1>2, <2>1, AnswerType DEF NextBump
  <1> QED
    BY <1>1, <1>2

\* The TTL of a lock, in seconds.
LEMMA TTLType ==
    ASSUME TypeOK, NEW k \in Keys
    PROVE  TTL(k) \in Int
  <1>1. lock[k] \in Int /\ now \in Int
    BY LockoutAssumption DEF TypeOK, ExpiryType
  <1> QED
    BY <1>1, LockoutAssumption DEF TTL

\* No step leaves the types.
LEMMA TypeStep ==
    ASSUME TypeOK, \A r \in Requests : Flow(r), [Next]_vars
    PROVE  TypeOK'
  <1>0. RepliesOK /\ (UNCHANGED reply => RepliesOK')
    BY Written DEF RepliesOK
  <1> DEFINE Typed == ControlOK' /\ RepliesOK'
  <1> USE DEF redis, reads, locals
  <1>1. ASSUME NEW r \in Requests, UnlockLookup(r) PROVE TypeOK'
    <2>1. <<call[r].user>> \in Seq(Keys)
      BY Parameters
    <2>2. Typed
      <3>1. 404 \in Codes /\ 500 \in Codes /\ 0 \in Nat /\ "unlock_fails" \in Pcs
        BY DEF Codes, Pcs
      <3>2. CASE Goto(r, "unlock_fails", <<call[r].user>>) /\ UNCHANGED reply
        BY <1>0, <2>1, <3>1, <3>2, GotoType
      <3>3. CASE Answer(r, 404, 0)
        BY <3>1, <3>3, AnswerType
      <3>4. CASE Answer(r, 500, 0)
        BY <3>1, <3>4, AnswerType
      <3> QED
        BY <1>1, <3>2, <3>3, <3>4 DEF UnlockLookup
    <2> QED
      BY <1>1, <2>2 DEF UnlockLookup, TypeOK, ControlOK, RepliesOK
  <1>2. ASSUME NEW r \in Requests, LockedGet(r) PROVE TypeOK'
    <2>1. hint[r] \in Nat /\ todo[r] \in Seq(Keys) /\ <<>> \in Seq(Keys)
      BY DEF TypeOK
    <2>2. Typed
      BY <1>2, <2>1, <1>0, GotoType, LockedNextType DEF LockedGet, Pcs
    <2> QED
      BY <1>2, <2>2 DEF LockedGet, TypeOK, ControlOK, RepliesOK
  <1>3. ASSUME NEW r \in Requests, LockedTTL(r) PROVE TypeOK'
    <2>1. Head(todo[r]) \in Keys
      BY <1>3, HeadKey DEF LockedTTL
    <2>2. PICK seconds \in {0, TTL(Head(todo[r]))} :
            /\ hint' = [hint EXCEPT ![r] = Max({hint[r], seconds})]
            /\ until' = [until EXCEPT ![r] =
                          IF hint[r] = 0 /\ seconds > 0 THEN lock[Head(todo[r])]
                          ELSE IF hint[r] > 0 /\ seconds = 0 THEN until[r]
                          ELSE Max({until[r], lock[Head(todo[r])]})]
            /\ LockedNext(r, TRUE, hint'[r])
      BY <1>3 DEF LockedTTL
    <2>3. seconds \in Int /\ hint[r] \in Nat
      BY <2>1, TTLType DEF TypeOK
    <2>4. Max({hint[r], seconds}) \in Nat
      <3>1. hint[r] \in Int
        BY <2>3
      <3>2. Max({hint[r], seconds}) \in {hint[r], seconds} /\ Max({hint[r], seconds}) >= hint[r]
        BY <2>3, <3>1, MaxOfTwo
      <3> QED
        BY <2>3, <3>2
    <2>5. hint' \in [Requests -> Nat] /\ hint'[r] \in Nat
      BY <2>2, <2>4 DEF TypeOK
    <2>6. until[r] \in ExpiryType /\ lock[Head(todo[r])] \in ExpiryType
      BY <2>1 DEF TypeOK
    <2>7. Max({until[r], lock[Head(todo[r])]}) \in ExpiryType
      BY <2>6, LaterExpiry
    <2>8. until' \in [Requests -> ExpiryType]
      BY <2>2, <2>6, <2>7 DEF TypeOK
    <2>9. Typed
      BY <1>3, <2>2, <2>5, LockedNextType DEF LockedTTL
    <2> QED
      BY <1>3, <2>5, <2>8, <2>9 DEF LockedTTL, TypeOK, ControlOK, RepliesOK
  <1>4. ASSUME NEW r \in Requests, Verify(r) PROVE TypeOK'
    <2>1. ResetKeys(r) \in Seq(Keys) /\ LockKeys(r) \in Seq(Keys)
      BY Parameters DEF ResetKeys, LockKeys
    <2>2. Typed
      BY <1>4, <2>1, <1>0, GotoType, AnswerType DEF Verify, Pcs, Codes
    <2> QED
      BY <1>4, <2>2 DEF Verify, TypeOK, ControlOK, RepliesOK
  <1>5. ASSUME NEW r \in Requests, BumpIncr(r) PROVE TypeOK'
    <2> DEFINE k == Head(todo[r])
    <2>1. k \in Keys /\ todo[r] \in Seq(Keys)
      BY <1>5, HeadKey DEF BumpIncr, TypeOK
    <2>2. Typed
      BY <1>5, <2>1, <1>0, GotoType, NextBumpType DEF BumpIncr, Pcs
    <2>3. fails' \in [Keys -> CounterType]
      <3>1. Incremented(fails[k]) \in CounterType
        BY <2>1, Written DEF TypeOK
      <3>2. fails' = fails \/ fails' = [fails EXCEPT ![k] = Incremented(fails[k])]
        BY <1>5 DEF BumpIncr
      <3> QED
        BY <3>1, <3>2 DEF TypeOK
    <2>4. counted' \in [Requests -> [Keys -> Int]]
      <3>1. counted' = counted \/ counted' = [counted EXCEPT ![r][k] = now]
        BY <1>5 DEF BumpIncr
      <3>2. now \in Int
        BY Written
      <3>3. [counted[r] EXCEPT ![k] = now] \in [Keys -> Int]
        BY <3>2 DEF TypeOK
      <3> QED
        BY <3>1, <3>3 DEF TypeOK
    <2>5. loose' \subseteq Keys
      BY <1>5, <2>1 DEF BumpIncr, TypeOK
    <2> QED
      BY <1>5, <2>2, <2>3, <2>4, <2>5 DEF BumpIncr, TypeOK, ControlOK, RepliesOK
  <1>6. ASSUME NEW r \in Requests, BumpSet(r) PROVE TypeOK'
    <2>1. Head(todo[r]) \in Keys
      BY <1>6, HeadKey DEF BumpSet
    <2>2. Typed
      BY <1>6, NextBumpType DEF BumpSet
    <2>3. lock' \in [Keys -> ExpiryType] /\ loose' \subseteq Keys
      <3>2. now + LockTTL \in ExpiryType
        BY Written
      <3>3. lock \in [Keys -> ExpiryType] /\ loose \subseteq Keys
        BY DEF TypeOK
      <3>4. lock' = lock \/ lock' = [lock EXCEPT ![Head(todo[r])] = now + LockTTL]
        BY <1>6 DEF BumpSet
      <3>5. loose' \subseteq loose \cup {Head(todo[r])}
        BY <1>6 DEF BumpSet
      <3> QED
        BY <2>1, <3>2, <3>3, <3>4, <3>5
    <2> QED
      BY <1>6, <2>2, <2>3 DEF BumpSet, TypeOK, ControlOK, RepliesOK
  <1>7. ASSUME NEW r \in Requests, ResetDel(r) PROVE TypeOK'
    <2>1. Head(todo[r]) \in Keys /\ (Len(todo[r]) > 1 => Tail(todo[r]) \in Seq(Keys))
      BY <1>7, HeadKey DEF ResetDel
    <2>2. Typed
      <3>1. 200 \in Codes /\ 0 \in Nat /\ "reset" \in Pcs
        BY DEF Codes, Pcs
      <3>2. CASE Len(todo[r]) > 1
        BY <1>0, <1>7, <2>1, <3>1, <3>2, GotoType DEF ResetDel
      <3>3. CASE ~(Len(todo[r]) > 1)
        BY <1>7, <3>1, <3>3, AnswerType DEF ResetDel
      <3> QED
        BY <3>2, <3>3
    <2>3. /\ fails' \in [Keys -> CounterType]
          /\ lock' \in [Keys -> ExpiryType] /\ loose' \subseteq Keys
      BY <1>7, <2>1, Written DEF ResetDel, CounterDeleted, LockDeleted, TypeOK
    <2> QED
      BY <1>7, <2>2, <2>3 DEF ResetDel, TypeOK, ControlOK, RepliesOK
  <1>8. ASSUME NEW r \in Requests, UnlockFails(r) PROVE TypeOK'
    <2>1. todo[r] \in Seq(Keys)
      BY DEF TypeOK
    <2>2. Typed
      BY <1>8, <2>1, <1>0, GotoType, AnswerType DEF UnlockFails, Pcs, Codes
    <2>3. fails' \in [Keys -> CounterType] /\ loose' \subseteq Keys
      BY <1>8, Written DEF UnlockFails, CounterDeleted, TypeOK
    <2> QED
      BY <1>8, <2>2, <2>3 DEF UnlockFails, TypeOK, ControlOK, RepliesOK
  <1>9. ASSUME NEW r \in Requests, UnlockLock(r) PROVE TypeOK'
    <2>1. Typed
      BY <1>9, AnswerType DEF UnlockLock, Codes
    <2>2. lock' \in [Keys -> ExpiryType]
      BY <1>9, Written DEF UnlockLock, LockDeleted, TypeOK
    <2>3. loose' \subseteq Keys
      <3>1. call[r].user \in Keys
        BY Parameters
      <3> QED
        BY <1>9, <3>1 DEF UnlockLock, LockDeleted, TypeOK
    <2> QED
      BY <1>9, <2>1, <2>2, <2>3 DEF UnlockLock, TypeOK, ControlOK, RepliesOK
  <1>10. ASSUME Tick PROVE TypeOK'
    <2>1. now' \in 0..MaxTime
      BY <1>10, LockoutAssumption DEF Tick, TypeOK
    <2>2. /\ fails' \in [Keys -> CounterType]
          /\ lock' \in [Keys -> ExpiryType] /\ loose' \subseteq Keys
      BY <1>10, Written DEF Tick, TypeOK
    <2> QED
      BY <1>10, <2>1, <2>2 DEF Tick, TypeOK
  <1>11. ASSUME UNCHANGED vars PROVE TypeOK'
    BY <1>11 DEF vars, TypeOK
  <1> QED
    BY <1>1, <1>2, <1>3, <1>4, <1>5, <1>6, <1>7, <1>8, <1>9, <1>10, <1>11
    DEF Next, Finished

\* The initial states are well typed.
LEMMA TypeInit == Init => TypeOK
  <1> SUFFICES ASSUME Init PROVE TypeOK
    OBVIOUS
  <1>1. call \in [Requests -> Calls] /\ now = 0
    BY DEF Init
  <1>2. \A r \in Requests : LockKeys(r) \in Seq(Keys)
    BY <1>1, LockoutAssumption DEF LockKeys, Keys
  <1> QED
    BY <1>1, <1>2, LockoutAssumption
    DEF Init, TypeOK, Absent, NoReply, Pcs, Codes, CounterType, ExpiryType, ReplyType

-----------------------------------------------------------------------------
(* Control flow.                                                           *)

\* One step of request r.
RequestStep(r) ==
    \/ UnlockLookup(r) \/ LockedGet(r) \/ LockedTTL(r) \/ Verify(r)
    \/ BumpIncr(r) \/ BumpSet(r) \/ ResetDel(r) \/ UnlockFails(r) \/ UnlockLock(r)

\* It leaves the other requests alone, and an ended request takes none.
LEMMA OthersKeep ==
    ASSUME TypeOK, NEW r \in Requests, RequestStep(r)
    PROVE  /\ pc[r] # "done" /\ now' = now /\ call' = call
           /\ \A q \in Requests \ {r} :
                /\ pc'[q] = pc[q] /\ todo'[q] = todo[q] /\ reply'[q] = reply[q]
                /\ counted'[q] = counted[q]
  <1> USE DEF TypeOK, Goto, Answer, locals
  <1>1. CASE UnlockLookup(r)
    BY <1>1 DEF UnlockLookup
  <1>2. CASE LockedGet(r)
    BY <1>2 DEF LockedGet, LockedNext
  <1>3. CASE LockedTTL(r)
    BY <1>3 DEF LockedTTL, LockedNext
  <1>4. CASE Verify(r)
    BY <1>4 DEF Verify
  <1>5. CASE BumpIncr(r)
    BY <1>5 DEF BumpIncr, NextBump
  <1>6. CASE BumpSet(r)
    BY <1>6 DEF BumpSet, NextBump
  <1>7. CASE ResetDel(r)
    BY <1>7 DEF ResetDel
  <1>8. CASE UnlockFails(r)
    BY <1>8 DEF UnlockFails
  <1>9. CASE UnlockLock(r)
    BY <1>9 DEF UnlockLock
  <1> QED
    BY <1>1, <1>2, <1>3, <1>4, <1>5, <1>6, <1>7, <1>8, <1>9 DEF RequestStep

\* After a visit the loop is over or has the address left.
LEMMA RestShrinks ==
    ASSUME TypeOK, NEW r \in Requests, todo[r] \in Rest(r), Len(todo[r]) > 1
    PROVE  /\ todo[r] = <<call[r].user, call[r].ip>>
           /\ Tail(todo[r]) = <<call[r].ip>>
  <1> DEFINE u == call[r].user
             i == call[r].ip
  <1>1. Len(<<i>>) = 1 /\ Tail(<<u, i>>) = <<i>>
    BY Pair
  <1>2. ASSUME todo[r] = <<i>> PROVE FALSE
    <2>1. Len(todo[r]) = 1
      BY <1>1, <1>2, Zenon
    <2> QED
      BY <2>1
  <1>3. todo[r] = <<u, i>>
    BY <1>2 DEF Rest
  <1> QED
    BY <1>1, <1>3, Zenon

LEMMA ResetShrinks ==
    ASSUME TypeOK, NEW r \in Requests, todo[r] \in ResetRest(r), Len(todo[r]) > 1
    PROVE  Tail(todo[r]) \in ResetRest(r)
  <1> DEFINE u == call[r].user
             i == call[r].ip
  <1>1. /\ Len(<<i>>) = 1 /\ Tail(<<u, i>>) = <<i>>
        /\ Tail(<<u, i, u, i>>) = <<i, u, i>> /\ Tail(<<i, u, i>>) = <<u, i>>
    BY Pair, Four
  <1>2. ASSUME todo[r] = <<i>> PROVE FALSE
    <2>1. Len(todo[r]) = 1
      BY <1>1, <1>2, Zenon
    <2> QED
      BY <2>1
  <1>3. todo[r] \in {<<u, i, u, i>>, <<i, u, i>>, <<u, i>>}
    BY <1>2 DEF ResetRest, Rest
  <1>4. Tail(todo[r]) \in {<<i, u, i>>, <<u, i>>, <<i>>}
    BY <1>1, <1>3, Zenon
  <1> QED
    BY <1>4 DEF ResetRest, Rest

\* Where the loops go on.
LEMMA LockedNextFlow ==
    ASSUME TypeOK, NEW r \in Requests, Flow(r), pc[r] \in {"get", "ttl"},
           NEW found, NEW seconds, LockedNext(r, found, seconds)
    PROVE  /\ pc'[r] \in {"get", "verify", "done"}
           /\ pc'[r] = "get" => todo'[r] = <<call[r].ip>>
           /\ pc'[r] # "done" => reply' = reply
  <1>1. CASE Len(todo[r]) > 1
    BY <1>1, RestShrinks DEF LockedNext, Goto, TypeOK, Flow
  <1>2. CASE ~(Len(todo[r]) > 1)
    BY <1>2 DEF LockedNext, Goto, Answer, TypeOK
  <1> QED
    BY <1>1, <1>2

LEMMA NextBumpFlow ==
    ASSUME TypeOK, NEW r \in Requests, Flow(r), pc[r] \in {"incr", "set"}, NextBump(r)
    PROVE  \/ pc'[r] = "done"
           \/ /\ pc'[r] = "incr" /\ reply' = reply
              /\ todo[r] = <<call[r].user, call[r].ip>> /\ todo'[r] = <<call[r].ip>>
  <1>1. CASE Len(todo[r]) > 1
    BY <1>1, RestShrinks DEF NextBump, Goto, TypeOK, Flow
  <1>2. CASE ~(Len(todo[r]) > 1)
    BY <1>2 DEF NextBump, Goto, Answer, TypeOK
  <1> QED
    BY <1>1, <1>2

\* The two sequences of the loop differ.
LEMMA LoopsDiffer ==
    ASSUME NEW a, NEW b
    PROVE  <<a, b>> # <<b>>
  OBVIOUS

\* A step keeps its request within the flow.
LEMMA FlowStep ==
    ASSUME TypeOK, NEW r \in Requests, Flow(r), Uncounted(r), RequestStep(r)
    PROVE  Flow(r)' /\ Uncounted(r)'
  <1> DEFINE u == call[r].user
             i == call[r].ip
  <1>0. /\ call'[r] = call[r] /\ Rest(r)' = Rest(r) /\ ResetRest(r)' = ResetRest(r)
        /\ <<u, i>> # <<i>> /\ u # i /\ u \in Keys /\ i \in Keys
        /\ <<u, i>> \in Rest(r) /\ <<i>> \in Rest(r)
    BY OthersKeep, LoopsDiffer, Parameters DEF Rest, ResetRest
  <1>1. CASE UnlockLookup(r)
    BY <1>0, <1>1 DEF UnlockLookup, Goto, Answer, TypeOK, Flow, Uncounted
  <1>2. CASE LockedGet(r)
    <2>1. /\ pc'[r] \in {"get", "ttl", "verify", "done"}
          /\ pc'[r] \in {"get", "ttl"} => todo'[r] \in Rest(r)
          /\ pc'[r] # "done" => reply' = reply
      <3>1. CASE LockedNext(r, locked[r], hint[r])
        BY <1>0, <1>2, <3>1, LockedNextFlow DEF LockedGet
      <3>2. CASE Goto(r, "ttl", todo[r]) /\ UNCHANGED reply
        BY <1>2, <3>2 DEF LockedGet, Goto, TypeOK, Flow
      <3>3. CASE Goto(r, "verify", <<>>) /\ UNCHANGED reply
        BY <3>3 DEF Goto, TypeOK
      <3> QED
        BY <1>2, <3>1, <3>2, <3>3 DEF LockedGet
    <2>2. counted' = counted /\ pc[r] = "get"
      BY <1>2 DEF LockedGet
    <2> QED
      BY <1>0, <2>1, <2>2 DEF Flow, Uncounted
  <1>3. CASE LockedTTL(r)
    <2>1. /\ pc'[r] \in {"get", "verify", "done"}
          /\ pc'[r] = "get" => todo'[r] \in Rest(r)
          /\ pc'[r] # "done" => reply' = reply
      BY <1>0, <1>3, LockedNextFlow DEF LockedTTL
    <2>2. counted' = counted /\ pc[r] = "ttl"
      BY <1>3 DEF LockedTTL
    <2> QED
      BY <1>0, <2>1, <2>2 DEF Flow, Uncounted
  <1>4. CASE Verify(r)
    <2>1. LockKeys(r) \in Rest(r) /\ ResetKeys(r) \in ResetRest(r)
      BY DEF LockKeys, ResetKeys, Rest, ResetRest
    <2>2. counted' = counted /\ pc[r] = "verify"
      BY <1>4 DEF Verify, locals
    <2>3. \/ pc'[r] = "done"
          \/ pc'[r] = "incr" /\ todo'[r] \in Rest(r) /\ reply' = reply
          \/ pc'[r] = "reset" /\ todo'[r] \in ResetRest(r) /\ reply' = reply
      BY <1>4, <2>1 DEF Verify, Goto, Answer, TypeOK
    <2> QED
      BY <1>0, <2>2, <2>3 DEF Flow, Uncounted
  <1>5. CASE BumpIncr(r)
    <2> DEFINE k == Head(todo[r])
    <2>1. /\ todo[r] \in {<<u, i>>, <<i>>} /\ call[r].op = "login" /\ reply[r].code = 0
          /\ counted[r][i] = -1
          /\ pc[r] = "incr"
      BY <1>5 DEF BumpIncr, Flow, Uncounted, Rest
    <2>2. todo[r] = <<u, i>> => k = u
      BY <2>1, Pair
    <2>3. \A x \in Keys : x # k => counted'[r][x] = counted[r][x]
      BY <1>5 DEF BumpIncr, TypeOK
    <2>4. CASE pc'[r] = "set" /\ todo'[r] = todo[r] /\ reply' = reply
      BY <1>0, <2>1, <2>2, <2>3, <2>4 DEF Flow, Uncounted
    <2>5. CASE NextBump(r)
      <3>1. CASE pc'[r] = "done"
        BY <3>1 DEF Flow, Uncounted
      <3>2. CASE /\ pc'[r] = "incr" /\ reply' = reply
                 /\ todo[r] = <<u, i>> /\ todo'[r] = <<i>>
        BY <1>0, <2>1, <2>2, <2>3, <3>2 DEF Flow, Uncounted
      <3> QED
        BY <2>1, <2>5, <3>1, <3>2, NextBumpFlow
    <2> QED
      BY <1>5, <2>4, <2>5 DEF BumpIncr, Goto, TypeOK
  <1>6. CASE BumpSet(r)
    <2>1. /\ todo[r] \in Rest(r) /\ call[r].op = "login" /\ reply[r].code = 0
          /\ pc[r] = "set" /\ counted' = counted
          /\ todo[r] = <<u, i>> => counted[r][i] = -1
      BY <1>6 DEF BumpSet, Flow, Uncounted
    <2>2. CASE pc'[r] = "done"
      BY <2>2 DEF Flow, Uncounted
    <2>3. CASE /\ pc'[r] = "incr" /\ reply' = reply
               /\ todo[r] = <<u, i>> /\ todo'[r] = <<i>>
      BY <1>0, <2>1, <2>3 DEF Flow, Uncounted
    <2> QED
      BY <1>6, <2>1, <2>2, <2>3, NextBumpFlow DEF BumpSet
  <1>7. CASE ResetDel(r)
    <2>1. todo[r] \in ResetRest(r) /\ call[r].op = "login" /\ reply[r].code = 0
      BY <1>7 DEF ResetDel, Flow
    <2>2. CASE Len(todo[r]) > 1
      <3>1. pc'[r] = "reset" /\ todo'[r] \in ResetRest(r) /\ reply' = reply
        BY <1>7, <2>1, <2>2, ResetShrinks DEF ResetDel, Goto, TypeOK
      <3> QED
        BY <1>0, <2>1, <3>1 DEF Flow, Uncounted
    <2>3. CASE ~(Len(todo[r]) > 1)
      <3>1. pc'[r] = "done"
        BY <1>7, <2>3 DEF ResetDel, Answer, Goto, TypeOK
      <3> QED
        BY <3>1 DEF Flow, Uncounted
    <2> QED
      BY <2>2, <2>3
  <1>8. CASE UnlockFails(r)
    BY <1>0, <1>8 DEF UnlockFails, Goto, Answer, TypeOK, Flow, Uncounted
  <1>9. CASE UnlockLock(r)
    BY <1>0, <1>9 DEF UnlockLock, Goto, Answer, TypeOK, Flow, Uncounted
  <1> QED
    BY <1>1, <1>2, <1>3, <1>4, <1>5, <1>6, <1>7, <1>8, <1>9 DEF RequestStep

-----------------------------------------------------------------------------
(* Counting.                                                               *)

\* Failures within a window are finitely many, and only -1 is ever replaced in
\* counted, so that their number never falls.
LEMMA FailuresGrow ==
    ASSUME TypeOK, TypeOK', NEW k \in Keys, NEW t \in Nat,
           \A q \in Requests : counted'[q][k] = counted[q][k] \/ counted[q][k] = -1
    PROVE  /\ FailuresWithin(k, t) \subseteq FailuresWithin(k, t)'
           /\ IsFiniteSet(FailuresWithin(k, t)) /\ IsFiniteSet(FailuresWithin(k, t)')
           /\ Cardinality(FailuresWithin(k, t)) \in Nat
           /\ Cardinality(FailuresWithin(k, t)') \in Nat
           /\ Cardinality(FailuresWithin(k, t)) <= Cardinality(FailuresWithin(k, t)')
  <1> DEFINE A == FailuresWithin(k, t)
             B == FailuresWithin(k, t)'
  <1>1. A \subseteq B
    <2>1. -1 \notin t..(t + Window - 1)
      BY LockoutAssumption
    <2> QED
      BY <2>1, Zenon DEF FailuresWithin
  <1>2. A \subseteq Requests /\ B \subseteq Requests
    BY Zenon DEF FailuresWithin
  <1>3. IsFiniteSet(A) /\ IsFiniteSet(B)
    BY <1>2, LockoutAssumption, FS_Subset
  <1> HIDE DEF A, B
  <1>4. Cardinality(A) \in Nat /\ Cardinality(B) \in Nat /\ Cardinality(A) <= Cardinality(B)
    BY <1>1, <1>3, FS_CardinalityType, FS_Subset
  <1> QED
    BY <1>1, <1>3, <1>4 DEF A, B

\* A request counts only what it has still to bump.
LEMMA CountedOnce ==
    ASSUME TypeOK, NEW r \in Requests, Flow(r), Uncounted(r), RequestStep(r)
    PROVE  \A q \in Requests, k \in Keys :
              counted'[q][k] = counted[q][k] \/ counted[q][k] = -1
  <1>1. CASE BumpIncr(r)
    <2> DEFINE h == Head(todo[r])
    <2>1. counted[r][h] = -1
      <3>1. todo[r] \in {<<call[r].user, call[r].ip>>, <<call[r].ip>>} /\ pc[r] = "incr"
        BY <1>1 DEF BumpIncr, Flow, Rest
      <3>2. /\ todo[r] = <<call[r].user, call[r].ip>> => h = call[r].user
            /\ todo[r] = <<call[r].ip>> => h = call[r].ip
        BY <3>1, HeadKey
      <3> QED
        BY <3>1, <3>2 DEF Uncounted
    <2>2. counted' = counted \/ counted' = [counted EXCEPT ![r][h] = now]
      BY <1>1 DEF BumpIncr
    <2>3. CASE counted' = counted
      BY <2>3
    <2>4. CASE counted' = [counted EXCEPT ![r][h] = now]
      <3>1. counted'[r] = [counted[r] EXCEPT ![h] = now]
        BY <2>4 DEF TypeOK
      <3>2. \A q \in Requests \ {r} : counted'[q] = counted[q]
        BY OthersKeep
      <3>3. counted[r] \in [Keys -> Int]
        BY DEF TypeOK
      <3>4. \A k \in Keys : counted'[r][k] = counted[r][k] \/ k = h
        BY <3>1, <3>3
      <3> QED
        BY <2>1, <3>2, <3>4, Zenon
    <2> QED
      BY <2>2, <2>3, <2>4
  <1>2. CASE ~BumpIncr(r)
    BY <1>2 DEF RequestStep, UnlockLookup, LockedGet, LockedTTL, Verify, BumpSet,
                ResetDel, UnlockFails, UnlockLock, locals
  <1> QED
    BY <1>1, <1>2

\* A counter left alone keeps what it counts.
LEMMA CounterKept ==
    ASSUME TypeOK, TypeOK', NEW k \in Keys, fails'[k] = fails[k], now' = now,
           \A q \in Requests : counted'[q][k] = counted[q][k] \/ counted[q][k] = -1,
           NEW t \in 0..now, Opened(k, t)
    PROVE  Opened(k, t)'
  <1>1. t \in Nat /\ fails[k].n \in Nat
    BY DEF TypeOK, CounterType
  <1>2. /\ Cardinality(FailuresWithin(k, t)) \in Nat
        /\ Cardinality(FailuresWithin(k, t)') \in Nat
        /\ Cardinality(FailuresWithin(k, t)) <= Cardinality(FailuresWithin(k, t)')
    BY <1>1, FailuresGrow
  <1> DEFINE A == Cardinality(FailuresWithin(k, t))
             B == Cardinality(FailuresWithin(k, t)')
  <1>3. /\ fails[k].expire = t + Window /\ now < t + Window
        /\ fails[k].n <= A
    BY Zenon DEF Opened
  <1> HIDE DEF A, B
  <1>4. fails[k].n <= B
    BY <1>1, <1>2, <1>3 DEF A, B
  <1>5. fails'[k].n <= B /\ fails'[k].expire = t + Window /\ now' < t + Window
    BY <1>3, <1>4, Zenon
  <1> QED
    BY <1>5, Zenon DEF Opened, B

\* A failure is counted in the window of its counter.
LEMMA CounterBumped ==
    ASSUME TypeOK, TypeOK', CountInv, NEW k \in Keys, now' = now, NEW r \in Requests,
           fails'[k] = Incremented(fails[k]), counted[r][k] = -1, counted'[r][k] = now,
           \A q \in Requests : counted'[q][k] = counted[q][k] \/ counted[q][k] = -1
    PROVE  \E t \in 0..now : Opened(k, t)'
  <1>0. now \in Nat /\ Window \in Nat \ {0} /\ fails[k].n \in Nat /\ fails[k].expire \in Nat
    BY LockoutAssumption DEF TypeOK, CounterType
  <1>1. CASE fails[k].n = 0
    <2>1. /\ fails'[k].n = 1 /\ fails'[k].expire = now + Window
      BY <1>0, <1>1 DEF Incremented
    <2> PICK t \in 0..now : t = now
      BY <1>0
    <2>2. r \in FailuresWithin(k, t)'
      <3>1. now \in t..(t + Window - 1)
        BY <1>0
      <3>2. counted'[r][k] \in t..(t + Window - 1)
        BY <3>1
      <3> QED
        BY <3>2, Zenon DEF FailuresWithin
    <2>3. /\ IsFiniteSet(FailuresWithin(k, t)')
          /\ Cardinality(FailuresWithin(k, t)') \in Nat
      BY <1>0, FailuresGrow
    <2>4. Cardinality(FailuresWithin(k, t)') # 0
      BY <2>2, <2>3, FS_EmptySet
    <2>5. 1 <= Cardinality(FailuresWithin(k, t)')
      BY <2>3, <2>4
    <2>6. fails'[k].n <= Cardinality(FailuresWithin(k, t)')
      BY <2>1, <2>5, Zenon
    <2>7. fails'[k].expire = t + Window /\ now' < t + Window
      BY <1>0, <2>1
    <2> QED
      BY <2>6, <2>7, Zenon DEF Opened
  <1>2. CASE fails[k].n > 0
    <2>1. PICK t \in 0..now : Opened(k, t)
      BY <1>2 DEF CountInv
    <2> DEFINE A == FailuresWithin(k, t)
               B == FailuresWithin(k, t)'
    <2>2. /\ A \subseteq B /\ IsFiniteSet(A) /\ IsFiniteSet(B)
          /\ Cardinality(A) \in Nat /\ Cardinality(B) \in Nat
      BY <1>0, FailuresGrow
    <2>3. r \notin A
      <3>1. -1 \notin t..(t + Window - 1)
        BY <1>0
      <3> QED
        BY <3>1, Zenon DEF FailuresWithin
    <2>4. r \in B
      <3>1. now \in t..(t + Window - 1)
        BY <1>0, <2>1 DEF Opened
      <3> QED
        BY <3>1, Zenon DEF FailuresWithin
    <2>5. fails[k].expire = t + Window /\ now < t + Window /\ fails[k].n <= Cardinality(A)
      BY <2>1, Zenon DEF Opened
    <2> HIDE DEF A, B
    <2>6. Cardinality(A) + 1 <= Cardinality(B)
      <3>1. A \cup {r} \subseteq B /\ IsFiniteSet(A \cup {r})
            /\ Cardinality(A \cup {r}) = Cardinality(A) + 1
        BY <2>2, <2>3, <2>4, FS_AddElement
      <3>2. Cardinality(A \cup {r}) <= Cardinality(B)
        BY <2>2, <3>1, FS_Subset
      <3> QED
        BY <3>1, <3>2
    <2>7. fails'[k].n = fails[k].n + 1 /\ fails'[k].expire = fails[k].expire
      BY <1>0, <1>2 DEF Incremented
    <2>8. fails'[k].n <= Cardinality(B)
      BY <1>0, <2>2, <2>5, <2>6, <2>7
    <2>9. fails'[k].expire = t + Window /\ now' < t + Window
      BY <2>5, <2>7
    <2>10. Opened(k, t)'
      BY <2>8, <2>9, Zenon DEF Opened, B
    <2> QED
      BY <2>10
  <1> QED
    BY <1>0, <1>1, <1>2

\* What a step of a request does to a counter.
LEMMA CounterSteps ==
    ASSUME TypeOK, NEW r \in Requests, Flow(r), Uncounted(r), RequestStep(r), NEW k \in Keys
    PROVE  \/ fails'[k] = fails[k]
           \/ fails'[k] = Absent
           \/ /\ fails'[k] = Incremented(fails[k])
              /\ counted[r][k] = -1 /\ counted'[r][k] = now
              /\ BumpIncr(r) /\ Head(todo[r]) = k
  <1>1. CASE BumpIncr(r)
    <2> DEFINE h == Head(todo[r])
    <2>0. h \in Keys
      BY <1>1, HeadKey DEF BumpIncr
    <2>1. \/ fails' = fails
          \/ /\ fails' = [fails EXCEPT ![h] = Incremented(fails[h])]
             /\ counted' = [counted EXCEPT ![r][h] = now]
      BY <1>1 DEF BumpIncr
    <2>2. CASE k # h
      BY <2>0, <2>1, <2>2 DEF TypeOK
    <2>3. CASE k = h /\ fails' = fails
      BY <2>3
    <2>4. CASE /\ k = h /\ fails' = [fails EXCEPT ![h] = Incremented(fails[h])]
               /\ counted' = [counted EXCEPT ![r][h] = now]
      <3>1. fails'[k] = Incremented(fails[k])
        BY <2>0, <2>4 DEF TypeOK
      <3>2. counted'[r] = [counted[r] EXCEPT ![k] = now]
        BY <2>4 DEF TypeOK
      <3>3. counted'[r][k] = now
        BY <3>2 DEF TypeOK
      <3>4. counted[r][k] = -1
        <4>1. todo[r] \in {<<call[r].user, call[r].ip>>, <<call[r].ip>>} /\ pc[r] = "incr"
          BY <1>1 DEF BumpIncr, Flow, Rest
        <4>2. /\ todo[r] = <<call[r].user, call[r].ip>> => h = call[r].user
              /\ todo[r] = <<call[r].ip>> => h = call[r].ip
          BY <4>1, HeadKey
        <4> QED
          BY <2>4, <4>1, <4>2 DEF Uncounted
      <3> QED
        BY <1>1, <2>4, <3>1, <3>3, <3>4
    <2> QED
      BY <2>1, <2>2, <2>3, <2>4
  <1>2. CASE ResetDel(r)
    <2>1. Head(todo[r]) \in Keys
      BY <1>2, HeadKey DEF ResetDel
    <2> QED
      BY <1>2, <2>1 DEF ResetDel, CounterDeleted, redis, TypeOK
  <1>3. CASE UnlockFails(r)
    BY <1>3, Parameters DEF UnlockFails, CounterDeleted, TypeOK
  <1>4. CASE ~(BumpIncr(r) \/ ResetDel(r) \/ UnlockFails(r))
    BY <1>4 DEF RequestStep, UnlockLookup, LockedGet, LockedTTL, Verify, BumpSet,
                UnlockLock, redis
  <1> QED
    BY <1>1, <1>2, <1>3, <1>4

\* Counters go on counting failures of one window.
LEMMA CountStep ==
    ASSUME TypeOK, TypeOK', CountInv, NEW r \in Requests, Flow(r), Uncounted(r),
           RequestStep(r)
    PROVE  CountInv'
  <1>0. /\ now' = now
        /\ \A q \in Requests, k \in Keys :
              counted'[q][k] = counted[q][k] \/ counted[q][k] = -1
    BY OthersKeep, CountedOnce
  <1> SUFFICES ASSUME NEW k \in Keys, fails'[k].n > 0
               PROVE  \E t \in 0..now : Opened(k, t)'
    BY <1>0 DEF CountInv
  <1>1. CASE fails'[k] = fails[k]
    <2>1. PICK t \in 0..now : Opened(k, t)
      BY <1>1 DEF CountInv
    <2>2. Opened(k, t)'
      BY <1>0, <1>1, <2>1, CounterKept
    <2> QED
      BY <2>2
  <1>2. CASE fails'[k] = Absent
    BY <1>2 DEF Absent
  <1>3. CASE /\ fails'[k] = Incremented(fails[k])
             /\ counted[r][k] = -1 /\ counted'[r][k] = now
    BY <1>0, <1>3, CounterBumped
  <1> QED
    BY <1>1, <1>2, <1>3, CounterSteps

LEMMA CountTick ==
    ASSUME TypeOK, CountInv, Tick
    PROVE  CountInv'
  <1>0. now \in Nat /\ now' = now + 1 /\ counted' = counted
    BY DEF Tick, locals, TypeOK
  <1> SUFFICES ASSUME NEW k \in Keys, fails'[k].n > 0
               PROVE  \E t \in 0..now : Opened(k, t)'
    <2>1. 0..now \subseteq 0..(now + 1)
      BY <1>0
    <2> QED
      BY <1>0, <2>1 DEF CountInv
  <1>1. fails'[k] = fails[k] /\ ~(fails[k].expire <= now + 1)
    BY DEF Tick, Absent
  <1>2. PICK t \in 0..now : Opened(k, t)
    BY <1>1 DEF CountInv
  <1>3. fails'[k].expire = t + Window /\ now' < t + Window
    BY <1>0, <1>1, <1>2, LockoutAssumption DEF Opened
  <1>4. FailuresWithin(k, t)' = FailuresWithin(k, t)
    BY <1>0, Zenon DEF FailuresWithin
  <1>5. fails'[k].n <= Cardinality(FailuresWithin(k, t)')
    BY <1>1, <1>2, <1>4, Zenon DEF Opened
  <1> QED
    BY <1>3, <1>5, Zenon DEF Opened

-----------------------------------------------------------------------------
(* Locks are earned.                                                       *)

\* What was deserved stays deserved.
LEMMA DeservedStays ==
    ASSUME TypeOK, TypeOK', NEW k \in Keys, now <= now', Deserved(k),
           \A q \in Requests : counted'[q][k] = counted[q][k] \/ counted[q][k] = -1
    PROVE  Deserved(k)'
  <1>1. PICK t \in 0..now : Cardinality(FailuresWithin(k, t)) >= MaxAttempts
    BY DEF Deserved
  <1>2. t \in Nat /\ t \in 0..now' /\ MaxAttempts \in Nat
    BY LockoutAssumption DEF TypeOK
  <1> DEFINE A == Cardinality(FailuresWithin(k, t))
             B == Cardinality(FailuresWithin(k, t)')
  <1>3. A \in Nat /\ B \in Nat /\ A <= B
    BY <1>2, FailuresGrow
  <1>4. A >= MaxAttempts
    BY <1>1
  <1> HIDE DEF A, B
  <1>5. B >= MaxAttempts
    BY <1>2, <1>3, <1>4
  <1> QED
    BY <1>2, <1>5, Zenon DEF Deserved, B

\* What a step of a request does to a lock, and who is about to set one.
LEMMA LockSteps ==
    ASSUME TypeOK, NEW r \in Requests, Flow(r), RequestStep(r), NEW k \in Keys
    PROVE  /\ \/ lock'[k] = lock[k]
              \/ lock'[k] = 0
              \/ pc[r] = "set" /\ Head(todo[r]) = k
           /\ pc'[r] = "set" =>
                /\ BumpIncr(r) /\ todo'[r] = todo[r]
                /\ Crosses(fails[Head(todo[r])].n + 1)
                /\ fails' = [fails EXCEPT ![Head(todo[r])] = Incremented(@)]
  <1>1. CASE UnlockLookup(r)
    BY <1>1 DEF UnlockLookup, Goto, Answer, TypeOK, redis
  <1>2. CASE LockedGet(r)
    BY <1>2, LockedNextFlow DEF LockedGet, Goto, Answer, TypeOK, redis
  <1>3. CASE LockedTTL(r)
    BY <1>3, LockedNextFlow DEF LockedTTL, TypeOK, redis
  <1>4. CASE Verify(r)
    BY <1>4 DEF Verify, Goto, Answer, TypeOK, redis
  <1>5. CASE BumpIncr(r)
    <2>1. NextBump(r) => pc'[r] # "set"
      BY <1>5, NextBumpFlow DEF BumpIncr
    <2> QED
      BY <1>5, <2>1 DEF BumpIncr, Goto, TypeOK
  <1>6. CASE BumpSet(r)
    <2>1. Head(todo[r]) \in Keys /\ pc'[r] # "set" /\ pc[r] = "set"
      BY <1>6, HeadKey, NextBumpFlow DEF BumpSet
    <2> QED
      BY <1>6, <2>1 DEF BumpSet, TypeOK
  <1>7. CASE ResetDel(r)
    <2>1. Head(todo[r]) \in Keys
      BY <1>7, HeadKey DEF ResetDel
    <2>2. pc'[r] # "set"
      BY <1>7 DEF ResetDel, Goto, Answer, TypeOK
    <2> QED
      BY <1>7, <2>1, <2>2 DEF ResetDel, LockDeleted, redis, TypeOK
  <1>8. CASE UnlockFails(r)
    BY <1>8 DEF UnlockFails, Goto, Answer, TypeOK
  <1>9. CASE UnlockLock(r)
    BY <1>9, Parameters DEF UnlockLock, LockDeleted, Goto, Answer, TypeOK
  <1> QED
    BY <1>1, <1>2, <1>3, <1>4, <1>5, <1>6, <1>7, <1>8, <1>9 DEF RequestStep

LEMMA EarnedStep ==
    ASSUME TypeOK, TypeOK', CountInv', EarnedInv, NEW r \in Requests, Flow(r), Uncounted(r),
           RequestStep(r)
    PROVE  EarnedInv'
  <1>0. /\ now' = now /\ now \in Nat
        /\ \A q \in Requests, k \in Keys :
              counted'[q][k] = counted[q][k] \/ counted[q][k] = -1
        /\ \A q \in Requests \ {r} : pc'[q] = pc[q] /\ todo'[q] = todo[q]
    <2>1. \A q \in Requests, k \in Keys :
            counted'[q][k] = counted[q][k] \/ counted[q][k] = -1
      BY CountedOnce
    <2>2. now' = now /\ \A q \in Requests \ {r} : pc'[q] = pc[q] /\ todo'[q] = todo[q]
      BY OthersKeep
    <2>3. now \in Nat
      BY DEF TypeOK
    <2> QED
      BY <2>1, <2>2, <2>3
  <1>1. ASSUME NEW k \in Keys, Deserved(k) PROVE Deserved(k)'
    BY <1>0, <1>1, DeservedStays
  <1>2. ASSUME NEW k \in Keys, lock'[k] # 0 PROVE Deserved(k)'
    <2>1. lock[k] # 0 \/ (pc[r] = "set" /\ Head(todo[r]) = k)
      BY <1>2, LockSteps
    <2> QED
      BY <1>1, <2>1 DEF EarnedInv
  <1>3. ASSUME NEW k \in Keys, NEW q \in Requests, pc'[q] = "set", Head(todo'[q]) = k
        PROVE  Deserved(k)'
    <2>1. CASE q # r
      <3>1. pc[q] = "set" /\ Head(todo[q]) = k
        BY <1>0, <1>3, <2>1
      <3> QED
        BY <1>1, <3>1 DEF EarnedInv
    <2>2. CASE q = r
      <3>1. /\ Head(todo[r]) = k /\ Crosses(fails[k].n + 1)
            /\ fails' = [fails EXCEPT ![k] = Incremented(fails[k])]
        BY <1>3, <2>2, LockSteps
      <3>2. fails[k].n \in Nat /\ MaxAttempts \in Nat \ {0}
        BY LockoutAssumption DEF TypeOK, CounterType
      <3>3. fails'[k].n = fails[k].n + 1
        BY <3>1 DEF TypeOK, Incremented
      <3>4. fails'[k].n >= MaxAttempts /\ fails'[k].n > 0 /\ fails'[k].n \in Nat
        BY <3>1, <3>2, <3>3 DEF Crosses
      <3>5. PICK t \in 0..now : Opened(k, t)'
        BY <1>0, <3>4 DEF CountInv
      <3>6. fails'[k].n <= Cardinality(FailuresWithin(k, t)')
        BY <3>5, Zenon DEF Opened
      <3>7. Cardinality(FailuresWithin(k, t)') \in Nat
        BY <1>0, FailuresGrow
      <3>8. Cardinality(FailuresWithin(k, t)') >= MaxAttempts
        BY <3>2, <3>4, <3>6, <3>7
      <3> QED
        BY <1>0, <3>8, Zenon DEF Deserved
    <2> QED
      BY <2>1, <2>2
  <1> QED
    BY <1>2, <1>3 DEF EarnedInv

LEMMA EarnedTick ==
    ASSUME TypeOK, TypeOK', EarnedInv, Tick
    PROVE  EarnedInv'
  <1>0. now \in Nat /\ now' = now + 1 /\ counted' = counted /\ pc' = pc /\ todo' = todo
    BY DEF Tick, locals, TypeOK
  <1>1. ASSUME NEW k \in Keys, Deserved(k) PROVE Deserved(k)'
    <2>1. now <= now'
      BY <1>0
    <2> QED
      BY <1>0, <1>1, <2>1, DeservedStays
  <1>2. \A k \in Keys : lock'[k] # 0 => lock[k] # 0
    BY DEF Tick
  <1> QED
    BY <1>0, <1>1, <1>2 DEF EarnedInv

\* The invariant is inductive.
LEMMA InvariantInit == Init => IInv
  <1> SUFFICES ASSUME Init PROVE IInv
    OBVIOUS
  <1>1. TypeOK
    BY TypeInit
  <1>2. ASSUME NEW r \in Requests PROVE Flow(r) /\ Uncounted(r)
    <2>1. /\ call[r].op \in {"login", "unlock"}
          /\ call[r].user \in Keys /\ call[r].ip \in Keys
      BY <1>1, Parameters
    <2>2. /\ pc[r] = IF call[r].op = "login" THEN "get" ELSE "lookup"
          /\ todo[r] = <<call[r].user, call[r].ip>> /\ reply[r] = NoReply
          /\ \A k \in Keys : counted[r][k] = -1
      BY DEF Init, LockKeys
    <2> QED
      BY <2>1, <2>2 DEF Flow, Uncounted, Rest, NoReply
  <1>3. CountInv
    BY DEF Init, CountInv, Absent
  <1>4. EarnedInv
    BY DEF Init, EarnedInv
  <1> QED
    BY <1>1, <1>2, <1>3, <1>4 DEF IInv

LEMMA InvariantStep == IInv /\ [Next]_vars => IInv'
  <1> SUFFICES ASSUME IInv, [Next]_vars PROVE IInv'
    OBVIOUS
  <1>0. TypeOK /\ TypeOK' /\ CountInv /\ EarnedInv
        /\ \A r \in Requests : Flow(r) /\ Uncounted(r)
    BY TypeStep DEF IInv
  <1>1. ASSUME NEW r \in Requests, RequestStep(r) PROVE IInv'
    <2>1. ASSUME NEW q \in Requests \ {r} PROVE Flow(q)' /\ Uncounted(q)'
      <3>1. /\ call' = call /\ pc'[q] = pc[q] /\ todo'[q] = todo[q]
            /\ reply'[q] = reply[q] /\ counted'[q] = counted[q]
        BY <1>0, <1>1, OthersKeep
      <3> QED
        BY <1>0, <3>1 DEF Flow, Uncounted, Rest, ResetRest
    <2>2. Flow(r)' /\ Uncounted(r)'
      BY <1>0, <1>1, FlowStep
    <2>3. CountInv'
      BY <1>0, <1>1, CountStep
    <2>4. EarnedInv'
      BY <1>0, <1>1, <2>3, EarnedStep
    <2> QED
      BY <1>0, <2>1, <2>2, <2>3, <2>4 DEF IInv
  <1>2. CASE Tick
    <2>1. call' = call /\ pc' = pc /\ todo' = todo /\ reply' = reply /\ counted' = counted
      BY <1>2 DEF Tick, locals
    <2>2. \A r \in Requests : Flow(r)' /\ Uncounted(r)'
      BY <1>0, <2>1 DEF Flow, Uncounted, Rest, ResetRest
    <2> QED
      BY <1>0, <1>2, <2>2, CountTick, EarnedTick DEF IInv
  <1>3. CASE UNCHANGED vars
    <2>1. \A r \in Requests : Flow(r)' /\ Uncounted(r)'
      BY <1>0, <1>3 DEF Flow, Uncounted, Rest, ResetRest, vars
    <2>2. CountInv'
      BY <1>0, <1>3 DEF CountInv, Opened, FailuresWithin, vars
    <2>3. EarnedInv'
      BY <1>0, <1>3 DEF EarnedInv, Deserved, FailuresWithin, vars
    <2> QED
      BY <1>0, <2>1, <2>2, <2>3 DEF IInv
  <1> QED
    BY <1>1, <1>2, <1>3 DEF Next, Finished, RequestStep

THEOREM Invariant == Spec => []IInv
  BY InvariantInit, InvariantStep, PTL DEF Spec

\* Every variable keeps its type: in particular no Retry-After is negative,
\* whatever the rounding of TTL and whatever commands failed.
THEOREM TypeCorrect == Spec => []TypeOK
  <1>1. IInv => TypeOK
    BY DEF IInv
  <1> QED
    BY <1>1, Invariant, PTL

\* Nobody is locked out undeserved: behind every lock that bump has set
\* there are MaxAttempts failures within one window, whatever was cleared,
\* expired or raced.
THEOREM LocksEarned == Spec => []LocksAreEarned
  <1>1. IInv => LocksAreEarned
    BY DEF IInv, EarnedInv, Deserved, LocksAreEarned
  <1> QED
    BY <1>1, Invariant, PTL

-----------------------------------------------------------------------------
(* The threshold.                                                          *)

\* A lock outlives the counter that earned it, unless its Set is pending or the
\* key is loose.
ThresholdInv ==
    \A k \in Keys : fails[k].n >= MaxAttempts =>
        \/ lock[k] >= fails[k].expire
        \/ \E r \in Requests : pc[r] = "set" /\ Head(todo[r]) = k
        \/ k \in loose

\* A filled counter that stays keeps its lock, gets it anew or is loose; and what
\* is loose stays so until it is locked.
LEMMA LooseSteps ==
    ASSUME TypeOK, NEW r \in Requests, Flow(r), RequestStep(r), NEW k \in Keys,
           fails'[k] = fails[k], fails[k].n >= MaxAttempts
    PROVE  /\ lock'[k] = lock[k] \/ lock'[k] = now + LockTTL \/ k \in loose'
           /\ k \in loose => k \in loose' \/ lock'[k] = now + LockTTL
  <1>0. Crosses(fails[k].n) /\ fails[k] # Absent /\ lock \in [Keys -> ExpiryType]
        /\ fails \in [Keys -> CounterType]
    BY LockoutAssumption DEF Crosses, Absent, TypeOK
  <1>1. CASE BumpSet(r)
    <2>1. Head(todo[r]) \in Keys
      BY <1>1, HeadKey DEF BumpSet
    <2> QED
      BY <1>0, <1>1, <2>1 DEF BumpSet
  <1>2. CASE ResetDel(r)
    <2>1. Head(todo[r]) \in Keys
      BY <1>2, HeadKey DEF ResetDel
    <2> QED
      BY <1>0, <1>2, <2>1 DEF ResetDel, CounterDeleted, LockDeleted, redis
  <1>3. CASE UnlockFails(r)
    BY <1>0, <1>3, Parameters DEF UnlockFails, CounterDeleted
  <1>4. CASE UnlockLock(r)
    BY <1>0, <1>4, Parameters DEF UnlockLock, LockDeleted
  <1>5. CASE BumpIncr(r)
    BY <1>5 DEF BumpIncr
  <1>6. CASE ~(BumpSet(r) \/ ResetDel(r) \/ UnlockFails(r) \/ UnlockLock(r) \/ BumpIncr(r))
    BY <1>6 DEF RequestStep, UnlockLookup, LockedGet, LockedTTL, Verify, redis, locals
  <1> QED
    BY <1>1, <1>2, <1>3, <1>4, <1>5, <1>6

\* A lock set now outlives the counter.
LEMMA LockOutlives ==
    ASSUME LockTTL >= Window, TypeOK, CountInv, NEW k \in Keys, fails[k].n >= MaxAttempts
    PROVE  now + LockTTL >= fails[k].expire
  <1>1. fails[k].n > 0
    BY LockoutAssumption DEF TypeOK, CounterType
  <1>2. PICK t \in 0..now : fails[k].expire = t + Window
    BY <1>1 DEF CountInv, Opened
  <1> QED
    BY <1>2, LockoutAssumption DEF TypeOK

LEMMA ThresholdStep ==
    ASSUME LockTTL >= Window, TypeOK, CountInv, ThresholdInv, NEW r \in Requests, Flow(r),
           Uncounted(r), RequestStep(r)
    PROVE  ThresholdInv'
  <1> SUFFICES ASSUME NEW k \in Keys, fails'[k].n >= MaxAttempts
               PROVE  \/ lock'[k] >= fails'[k].expire
                      \/ \E q \in Requests : pc'[q] = "set" /\ Head(todo'[q]) = k
                      \/ k \in loose'
    BY DEF ThresholdInv
  <1>1. CASE fails'[k] = fails[k]
    <2>0. now + LockTTL >= fails[k].expire
      BY <1>1, LockOutlives
    <2>1. CASE lock[k] >= fails[k].expire
      BY <1>1, <2>0, <2>1, LooseSteps
    <2>2. ASSUME NEW q \in Requests, pc[q] = "set", Head(todo[q]) = k
          PROVE  \/ lock'[k] >= fails'[k].expire
                 \/ pc'[q] = "set" /\ Head(todo'[q]) = k
                 \/ k \in loose'
      <3>1. CASE q # r
        BY <2>2, <3>1, OthersKeep
      <3>2. CASE q = r
        <4>1. BumpSet(r)
          BY <2>2, <3>2 DEF RequestStep, UnlockLookup, LockedGet, LockedTTL, Verify,
                            BumpIncr, ResetDel, UnlockFails, UnlockLock
        <4>2. lock'[k] = now + LockTTL \/ k \in loose'
          BY <2>2, <3>2, <4>1 DEF BumpSet, TypeOK
        <4> QED
          BY <1>1, <2>0, <3>2, <4>2
      <3> QED
        BY <3>1, <3>2
    <2>3. CASE k \in loose
      BY <1>1, <2>0, <2>3, LooseSteps
    <2> QED
      BY <1>1, <2>1, <2>2, <2>3 DEF ThresholdInv
  <1>2. CASE fails'[k] = Absent
    BY <1>2, LockoutAssumption DEF Absent
  <1>3. CASE /\ fails'[k] = Incremented(fails[k]) /\ BumpIncr(r) /\ Head(todo[r]) = k
    <2>1. fails[k].n \in Nat /\ fails'[k].n = fails[k].n + 1
      BY <1>3 DEF Incremented, TypeOK, CounterType
    <2>2. Crosses(fails[k].n + 1) /\ fails' # fails
      BY <2>1 DEF Crosses
    <2> QED
      BY <1>3, <2>2 DEF BumpIncr, Goto, TypeOK
  <1> QED
    BY <1>1, <1>2, <1>3, CounterSteps

LEMMA ThresholdTick ==
    ASSUME TypeOK, ThresholdInv, Tick
    PROVE  ThresholdInv'
  <1>0. /\ pc' = pc /\ todo' = todo /\ now \in Nat
        /\ loose' = {x \in loose : fails[x].expire > now + 1}
    BY DEF Tick, TypeOK
  <1> SUFFICES ASSUME NEW k \in Keys, fails'[k].n >= MaxAttempts
               PROVE  \/ lock'[k] >= fails'[k].expire
                      \/ \E q \in Requests : pc'[q] = "set" /\ Head(todo'[q]) = k
                      \/ k \in loose'
    BY DEF ThresholdInv
  <1>1. fails'[k] = fails[k] /\ ~(fails[k].expire <= now + 1)
    BY LockoutAssumption DEF Tick, Absent
  <1>2. lock[k] \in Nat /\ fails[k].expire \in Nat
    BY LockoutAssumption DEF TypeOK, ExpiryType, CounterType
  <1>3. lock[k] >= fails[k].expire => lock'[k] = lock[k]
    <2>1. lock[k] >= fails[k].expire => ~(lock[k] <= now + 1)
      BY <1>0, <1>1, <1>2
    <2> QED
      BY <2>1 DEF Tick
  <1>4. k \in loose => k \in loose'
    BY <1>0, <1>1, <1>2
  <1> QED
    BY <1>0, <1>1, <1>3, <1>4 DEF ThresholdInv

\* The threshold holds when locks last at least a window, as they do by default:
\* while a counter stands at MaxAttempts or more its key is locked or about to be,
\* unless bump's command failed for that counter, or it filled before the lock
\* delete of a Reset or an Unlock.
THEOREM ThresholdHolds ==
    ASSUME LockTTL >= Window
    PROVE  Spec => []ThresholdLocks
  <1>1. Init => ThresholdInv
    BY LockoutAssumption DEF Init, ThresholdInv, Absent
  <1>2. IInv /\ ThresholdInv /\ [Next]_vars => ThresholdInv'
    <2> SUFFICES ASSUME IInv, ThresholdInv, [Next]_vars PROVE ThresholdInv'
      OBVIOUS
    <2>1. ASSUME NEW r \in Requests, RequestStep(r) PROVE ThresholdInv'
      BY <2>1, ThresholdStep DEF IInv
    <2>2. CASE Tick
      BY <2>2, ThresholdTick DEF IInv
    <2>3. CASE UNCHANGED vars
      BY <2>3 DEF vars, ThresholdInv
    <2> QED
      BY <2>1, <2>2, <2>3 DEF Next, Finished, RequestStep
  <1>3. IInv /\ ThresholdInv => ThresholdLocks
    <2> SUFFICES ASSUME IInv, ThresholdInv, NEW k \in Keys, fails[k].n >= MaxAttempts,
                        lock[k] >= fails[k].expire
                 PROVE  lock[k] # 0
      BY DEF ThresholdInv, ThresholdLocks
    <2>1. fails[k].n > 0 /\ now \in Nat
      BY LockoutAssumption DEF IInv, TypeOK, CounterType
    <2>2. PICK t \in 0..now : fails[k].expire = t + Window
      BY <2>1 DEF IInv, CountInv, Opened
    <2>3. fails[k].expire > 0
      BY <2>2, LockoutAssumption
    <2> QED
      BY <2>3 DEF IInv, TypeOK, CounterType
  <1> QED
    BY <1>1, <1>2, <1>3, Invariant, PTL DEF Spec

-----------------------------------------------------------------------------
(* The Retry-After of a 423.                                               *)

\* The hint of a request, against the lock it has read it from: the TTL is
\* rounded to the nearest second, and with no TTL read the lock is at most
\* LockTTL long.
Tells(seconds, expiry, time) ==
    /\ seconds = 0 => expiry <= time + LockTTL
    /\ seconds > 0 =>
         2 * (expiry - time) <= 2 * (seconds * TicksPerSecond) + TicksPerSecond

HintOK(r) == Tells(hint[r], until[r], now)

\* The lock the hint stands for once another, until e, has been read.
Behind(h, s, u, e) ==
    IF h = 0 /\ s > 0 THEN e ELSE IF h > 0 /\ s = 0 THEN u ELSE Max({u, e})

TruthOK(r) ==
    reply[r].code = 423 =>
        2 * (until[r] - (reply[r].at + reply[r].retryAfter * TicksPerSecond))
            <= TicksPerSecond

RetryInv ==
    /\ \A k \in Keys : lock[k] = 0 \/ (now < lock[k] /\ lock[k] <= now + LockTTL)
    /\ \A r \in Requests : HintOK(r) /\ TruthOK(r)

\* A product with a natural is monotone.
LEMMA Scaled ==
    ASSUME NEW a \in Nat, NEW b \in Nat, a <= b, NEW c \in Nat
    PROVE  a * c <= b * c /\ a * c \in Nat /\ b * c \in Nat
  <1>1. PICK d \in Nat : b = a + d
    <2>1. b - a \in Nat /\ b = a + (b - a)
      OBVIOUS
    <2> QED
      BY <2>1
  <1>2. b * c = a * c + d * c
    BY <1>1
  <1>3. a * c \in Nat /\ d * c \in Nat
    OBVIOUS
  <1> QED
    BY <1>2, <1>3

\* What \div means.
LEMMA Quotient ==
    ASSUME NEW a \in Nat, NEW b \in Nat \ {0}
    PROVE  a \div b \in Nat /\ a < (a \div b) * b + b
  OBVIOUS

\* Rounding to the nearest second loses at most half of one.
LEMMA Rounded ==
    ASSUME NEW d \in Nat, NEW c \in Nat \ {0}
    PROVE  /\ (2 * d + c) \div (2 * c) \in Nat
           /\ 2 * d <= 2 * (((2 * d + c) \div (2 * c)) * c) + c
  <1> DEFINE q == (2 * d + c) \div (2 * c)
  <1>1. 2 * d + c \in Nat /\ 2 * c \in Nat \ {0}
    OBVIOUS
  <1>2. q \in Nat /\ 2 * d + c < q * (2 * c) + 2 * c
    BY <1>1, Quotient
  <1> HIDE DEF q
  <1>3. q * (2 * c) = 2 * (q * c) /\ q * c \in Nat
    BY <1>2
  <1>4. 2 * d <= 2 * (q * c) + c
    BY <1>2, <1>3
  <1> QED
    BY <1>2, <1>4 DEF q

\* Rounding up loses nothing.
LEMMA HintCovers ==
    /\ RetryAfterSeconds(LockTTL) \in Nat
    /\ LockTTL <= RetryAfterSeconds(LockTTL) * TicksPerSecond
  <1> DEFINE a == LockTTL + TicksPerSecond - 1
             q == a \div TicksPerSecond
  <1>1. a \in Nat /\ TicksPerSecond \in Nat \ {0} /\ LockTTL \in Nat \ {0}
    BY LockoutAssumption
  <1>2. RetryAfterSeconds(LockTTL) = q
    BY <1>1 DEF RetryAfterSeconds
  <1> HIDE DEF a
  <1>3. q \in Nat /\ a < q * TicksPerSecond + TicksPerSecond
    BY <1>1, Quotient
  <1> HIDE DEF q
  <1>4. q * TicksPerSecond \in Nat
    BY <1>1, <1>3
  <1>5. LockTTL <= q * TicksPerSecond
    BY <1>1, <1>3, <1>4 DEF a
  <1> QED
    BY <1>2, <1>3, <1>5

\* The hint that Locked returns covers the lock behind it.
LEMMA HintTells ==
    ASSUME NEW h \in Nat, NEW u \in Nat, NEW n \in Nat, NEW w, Tells(h, u, n),
           w = IF h > 0 THEN h ELSE RetryAfterSeconds(LockTTL)
    PROVE  2 * (u - (n + w * TicksPerSecond)) <= TicksPerSecond
  <1> DEFINE p == w * TicksPerSecond
  <1>1. TicksPerSecond \in Nat /\ LockTTL \in Nat
    BY LockoutAssumption
  <1>2. CASE h = 0
    <2>1. LockTTL <= p /\ p \in Nat
      <3>1. w = RetryAfterSeconds(LockTTL)
        BY <1>2
      <3>2. w \in Nat /\ LockTTL <= p
        BY <3>1, HintCovers
      <3> QED
        BY <1>1, <3>2
    <2> HIDE DEF p
    <2>2. 2 * (u - (n + p)) <= TicksPerSecond
      BY <1>1, <1>2, <2>1 DEF Tells
    <2> QED
      BY <2>2 DEF p
  <1>3. CASE h > 0
    <2>1. p \in Nat /\ 2 * (u - n) <= 2 * p + TicksPerSecond
      BY <1>1, <1>3 DEF Tells
    <2> HIDE DEF p
    <2>2. 2 * (u - (n + p)) <= TicksPerSecond
      BY <1>1, <2>1
    <2> QED
      BY <2>2 DEF p
  <1> QED
    BY <1>2, <1>3

LEMMA LockedNextTruth ==
    ASSUME TypeOK, NEW r \in Requests, reply[r].code = 0, NEW found, NEW h \in Nat,
           NEW u \in Nat, LockedNext(r, found, h), Tells(h, u, now),
           reply'[r].code = 423
    PROVE  2 * (u - (reply'[r].at + reply'[r].retryAfter * TicksPerSecond))
              <= TicksPerSecond
  <1>1. /\ reply'[r].at = now
        /\ reply'[r].retryAfter = IF h > 0 THEN h ELSE RetryAfterSeconds(LockTTL)
    BY DEF LockedNext, Answer, TypeOK
  <1>2. now \in Nat
    BY DEF TypeOK
  <1> DEFINE w == reply'[r].retryAfter
  <1>3. 2 * (u - (now + w * TicksPerSecond)) <= TicksPerSecond
    <2>1. w = IF h > 0 THEN h ELSE RetryAfterSeconds(LockTTL)
      BY <1>1
    <2> HIDE DEF w
    <2> QED
      BY <1>2, <2>1, HintTells, Zenon
  <1> QED
    BY <1>1, <1>3, Zenon

\* Reading another lock's TTL keeps the hint true.
LEMMA HintRead ==
    ASSUME NEW n \in Nat, NEW e \in Nat, NEW h \in Nat, NEW u \in Nat, NEW s \in Nat,
           e <= n + LockTTL, Tells(h, u, n), s > 0 => Tells(s, e, n)
    PROVE  Tells(Max({h, s}), Behind(h, s, u, e), n)
  <1> DEFINE T == TicksPerSecond
             h2 == Max({h, s})
             u2 == Behind(h, s, u, e)
  <1>1. T \in Nat /\ LockTTL \in Nat
    BY LockoutAssumption
  <1>2. h2 \in {h, s} /\ h2 >= h /\ h2 >= s /\ h2 \in Nat
    <2>1. h \in Int /\ s \in Int
      OBVIOUS
    <2> QED
      BY <2>1, MaxOfTwo
  <1>3. Max({u, e}) \in {u, e} /\ Max({u, e}) \in Nat
    <2>1. u \in Int /\ e \in Int
      OBVIOUS
    <2> QED
      BY <2>1, MaxOfTwo
  <1> HIDE DEF h2
  <1>4. CASE h = 0 /\ s = 0
    <2>1. h2 = 0 /\ u2 \in {u, e}
      BY <1>2, <1>3, <1>4 DEF Behind
    <2>2. u <= n + LockTTL
      BY <1>4 DEF Tells
    <2>3. u2 <= n + LockTTL
      BY <2>1, <2>2
    <2> HIDE DEF u2
    <2> QED
      BY <2>1, <2>3 DEF Tells, h2, u2
  <1>5. CASE h = 0 /\ s > 0
    <2>1. h2 = s /\ u2 = e
      BY <1>2, <1>5 DEF Behind
    <2> HIDE DEF u2
    <2> QED
      BY <1>5, <2>1, Zenon DEF h2, u2
  <1>6. CASE h > 0 /\ s = 0
    <2>1. h2 = h /\ u2 = u
      BY <1>2, <1>6 DEF Behind
    <2> HIDE DEF u2
    <2> QED
      BY <1>6, <2>1, Zenon DEF h2, u2
  <1>7. CASE h > 0 /\ s > 0
    <2>1. u2 \in {u, e} /\ h2 # 0
      BY <1>2, <1>3, <1>7 DEF Behind
    <2> DEFINE a == h * T
               b == s * T
               c == h2 * T
    <2>2. a <= c /\ b <= c /\ a \in Nat /\ b \in Nat /\ c \in Nat
      BY <1>1, <1>2, Scaled
    <2>3. 2 * (u - n) <= 2 * a + T /\ 2 * (e - n) <= 2 * b + T
      BY <1>7 DEF Tells
    <2> HIDE DEF a, b, c, T
    <2>4. 2 * (u - n) <= 2 * c + T /\ 2 * (e - n) <= 2 * c + T
      BY <1>1, <2>2, <2>3
    <2> HIDE DEF u2
    <2>5. 2 * (u2 - n) <= 2 * c + T
      BY <2>1, <2>4
    <2>6. Tells(h2, u2, n)
      BY <2>1, <2>5 DEF Tells, c, T
    <2> QED
      BY <2>6 DEF h2, u2
  <1> QED
    BY <1>4, <1>5, <1>6, <1>7

\* A lock that stands has between nothing and LockTTL to go.
LEMMA LocksStep ==
    ASSUME TypeOK, RetryInv, NEW r \in Requests, Flow(r), RequestStep(r)
    PROVE  \A k \in Keys : lock'[k] = 0 \/ (now' < lock'[k] /\ lock'[k] <= now' + LockTTL)
  <1> SUFFICES ASSUME NEW k \in Keys
               PROVE  lock'[k] = 0 \/ (now' < lock'[k] /\ lock'[k] <= now' + LockTTL)
    OBVIOUS
  <1>0. now' = now /\ now \in Nat /\ LockTTL \in Nat \ {0}
    BY OthersKeep, LockoutAssumption DEF TypeOK
  <1>1. CASE lock'[k] = lock[k]
    BY <1>0, <1>1 DEF RetryInv
  <1>2. CASE lock'[k] = 0
    BY <1>2
  <1>3. CASE pc[r] = "set" /\ Head(todo[r]) = k
    <2>1. BumpSet(r)
      BY <1>3 DEF RequestStep, UnlockLookup, LockedGet, LockedTTL, Verify,
                  BumpIncr, ResetDel, UnlockFails, UnlockLock
    <2>2. lock'[k] = now + LockTTL \/ lock'[k] = lock[k]
      BY <1>3, <2>1 DEF BumpSet, TypeOK
    <2>3. CASE lock'[k] = now + LockTTL
      BY <1>0, <2>3
    <2> QED
      BY <1>1, <2>2, <2>3
  <1> QED
    BY <1>1, <1>2, <1>3, LockSteps

\* A step keeps the hints and the answers true.
LEMMA HintStep ==
    ASSUME TypeOK, RetryInv, NEW r \in Requests, Flow(r), RequestStep(r)
    PROVE  \A q \in Requests : HintOK(q)' /\ TruthOK(q)'
  <1>0. /\ now' = now /\ now \in Nat /\ reply[r].code = 0 /\ TicksPerSecond \in Nat \ {0}
        /\ hint[r] \in Nat /\ until[r] \in Nat /\ HintOK(r)
    BY OthersKeep, LockoutAssumption DEF TypeOK, ExpiryType, Flow, RetryInv
  <1>1. ASSUME NEW q \in Requests \ {r} PROVE HintOK(q)' /\ TruthOK(q)'
    <2>1. hint'[q] = hint[q] /\ until'[q] = until[q]
      BY DEF RequestStep, UnlockLookup, LockedGet, LockedTTL, Verify, BumpIncr, BumpSet,
             ResetDel, UnlockFails, UnlockLock, locals, reads, TypeOK
    <2>2. reply'[q] = reply[q]
      BY OthersKeep
    <2>3. HintOK(q) /\ TruthOK(q)
      BY DEF RetryInv
    <2>4. HintOK(q)'
      BY <1>0, <2>1, <2>3, Zenon DEF HintOK
    <2>5. TruthOK(q)'
      BY <2>1, <2>2, <2>3, Zenon DEF TruthOK
    <2> QED
      BY <2>4, <2>5
  <1>2. CASE LockedTTL(r)
    <2> DEFINE k == Head(todo[r])
    <2>1. k \in Keys /\ pc[r] = "ttl"
      BY <1>2, HeadKey DEF LockedTTL
    <2>2. PICK s \in {0, TTL(k)} :
            /\ hint' = [hint EXCEPT ![r] = Max({hint[r], s})]
            /\ until' = [until EXCEPT ![r] = Behind(hint[r], s, until[r], lock[k])]
            /\ LockedNext(r, TRUE, hint'[r])
      BY <1>2 DEF LockedTTL, Behind
    <2>3. /\ hint'[r] = Max({hint[r], s})
          /\ until'[r] = Behind(hint[r], s, until[r], lock[k])
      BY <2>2 DEF TypeOK
    <2>4. /\ lock[k] \in Nat /\ lock[k] <= now + LockTTL
          /\ lock[k] = 0 \/ now < lock[k]
      BY <1>0, <2>1, LockoutAssumption DEF TypeOK, ExpiryType, RetryInv
    <2>5. /\ s \in Nat
          /\ s > 0 => Tells(s, lock[k], now)
      <3>1. CASE s = 0
        BY <3>1
      <3>2. CASE s # 0
        <4>1. s = TTL(k) /\ lock[k] # 0
          BY <2>2, <3>2 DEF TTL
        <4> DEFINE d == lock[k] - now
        <4>2. d \in Nat
          BY <1>0, <2>4, <4>1
        <4>3. s = (2 * d + TicksPerSecond) \div (2 * TicksPerSecond)
          BY <4>1 DEF TTL
        <4> HIDE DEF d
        <4>4. s \in Nat /\ 2 * d <= 2 * (s * TicksPerSecond) + TicksPerSecond
          BY <1>0, <4>2, <4>3, Rounded
        <4> QED
          BY <3>2, <4>4 DEF d, Tells
      <3> QED
        BY <3>1, <3>2
    <2>6. hint'[r] \in Nat /\ until'[r] \in Nat
      <3>1. Max({hint[r], s}) \in Nat /\ Max({until[r], lock[k]}) \in Nat
        <4>1. hint[r] \in Int /\ s \in Int /\ until[r] \in Int /\ lock[k] \in Int
          BY <1>0, <2>4, <2>5
        <4> QED
          BY <1>0, <2>4, <2>5, <4>1, MaxOfTwo
      <3> QED
        BY <1>0, <2>3, <2>4, <3>1 DEF Behind
    <2>7. Tells(hint'[r], until'[r], now)
      <3>1. Tells(hint[r], until[r], now)
        BY <1>0 DEF HintOK
      <3>2. Tells(Max({hint[r], s}), Behind(hint[r], s, until[r], lock[k]), now)
        BY <1>0, <2>4, <2>5, <3>1, HintRead
      <3> QED
        BY <2>3, <3>2, Zenon
    <2>8. HintOK(r)'
      BY <1>0, <2>7, Zenon DEF HintOK
    <2>9. TruthOK(r)'
      <3>1. reply'[r].code = 423 =>
              2 * (until'[r] - (reply'[r].at + reply'[r].retryAfter * TicksPerSecond))
                <= TicksPerSecond
        <4> SUFFICES ASSUME reply'[r].code = 423
                     PROVE  2 * (until'[r] - (reply'[r].at
                                 + reply'[r].retryAfter * TicksPerSecond))
                              <= TicksPerSecond
          OBVIOUS
        <4>1. LockedNext(r, TRUE, hint'[r])
          BY <2>2
        <4>2. /\ reply'[r].at = now
              /\ reply'[r].retryAfter =
                   IF hint'[r] > 0 THEN hint'[r] ELSE RetryAfterSeconds(LockTTL)
          BY <1>0, <4>1 DEF LockedNext, Answer, TypeOK
        <4> DEFINE w == reply'[r].retryAfter
        <4>3. 2 * (until'[r] - (now + w * TicksPerSecond)) <= TicksPerSecond
          <5> DEFINE h == hint'[r]
                     u == until'[r]
          <5>1. /\ w = IF h > 0 THEN h ELSE RetryAfterSeconds(LockTTL)
                /\ now \in Nat /\ h \in Nat /\ u \in Nat /\ Tells(h, u, now)
            BY <1>0, <2>6, <2>7, <4>2
          <5> HIDE DEF w, h, u
          <5>2. 2 * (u - (now + w * TicksPerSecond)) <= TicksPerSecond
            BY <5>1, HintTells, Zenon
          <5> QED
            BY <5>2 DEF u
        <4> QED
          BY <4>2, <4>3, Zenon
      <3> QED
        BY <3>1, Zenon DEF TruthOK
    <2> QED
      BY <1>1, <2>8, <2>9
  <1>3. CASE ~LockedTTL(r)
    <2>1. hint' = hint /\ until' = until
      BY <1>3 DEF RequestStep, UnlockLookup, LockedGet, Verify, BumpIncr, BumpSet,
                  ResetDel, UnlockFails, UnlockLock, locals, reads
    <2>2. HintOK(r)'
      BY <1>0, <2>1, Zenon DEF HintOK
    <2>3. CASE LockedGet(r) /\ LockedNext(r, locked[r], hint[r])
      <3>1. Tells(hint[r], until[r], now)
        BY <1>0 DEF HintOK
      <3>2. reply'[r].code = 423 =>
              2 * (until[r] - (reply'[r].at + reply'[r].retryAfter * TicksPerSecond))
                <= TicksPerSecond
        BY <1>0, <2>3, <3>1, LockedNextTruth
      <3>3. TruthOK(r)'
        BY <2>1, <3>2, Zenon DEF TruthOK
      <3> QED
        BY <1>1, <2>2, <3>3
    <2>4. CASE ~(LockedGet(r) /\ LockedNext(r, locked[r], hint[r]))
      <3>1. reply'[r].code # 423
        BY <1>0, <1>3, <2>4
        DEF RequestStep, UnlockLookup, LockedGet, Verify, BumpIncr, BumpSet, NextBump,
            ResetDel, UnlockFails, UnlockLock, Answer, TypeOK
      <3>2. TruthOK(r)'
        BY <3>1, Zenon DEF TruthOK
      <3> QED
        BY <1>1, <2>2, <3>2
    <2> QED
      BY <2>3, <2>4
  <1> QED
    BY <1>2, <1>3

LEMMA RetryTick ==
    ASSUME TypeOK, RetryInv, Tick
    PROVE  RetryInv'
  <1>0. /\ now \in Nat /\ now' = now + 1 /\ hint' = hint /\ until' = until /\ reply' = reply
        /\ TicksPerSecond \in Nat /\ LockTTL \in Nat
    BY LockoutAssumption DEF Tick, locals, reads, TypeOK
  <1>1. ASSUME NEW k \in Keys
        PROVE  lock'[k] = 0 \/ (now' < lock'[k] /\ lock'[k] <= now' + LockTTL)
    <2>1. lock'[k] = IF lock[k] <= now + 1 THEN 0 ELSE lock[k]
      BY DEF Tick
    <2>2. lock[k] \in Nat /\ (lock[k] = 0 \/ lock[k] <= now + LockTTL)
      BY DEF TypeOK, ExpiryType, RetryInv
    <2> QED
      BY <1>0, <2>1, <2>2
  <1>2. ASSUME NEW r \in Requests PROVE HintOK(r)' /\ TruthOK(r)'
    <2>1. HintOK(r) /\ TruthOK(r) /\ hint[r] \in Nat /\ until[r] \in Nat
      BY DEF RetryInv, TypeOK, ExpiryType
    <2> DEFINE p == hint[r] * TicksPerSecond
    <2>2. p \in Nat
      BY <1>0, <2>1
    <2>3. /\ hint[r] = 0 => until[r] <= now + LockTTL
          /\ hint[r] > 0 => 2 * (until[r] - now) <= 2 * p + TicksPerSecond
      BY <2>1, Zenon DEF HintOK, Tells
    <2> HIDE DEF p
    <2>4. /\ hint[r] = 0 => until[r] <= (now + 1) + LockTTL
          /\ hint[r] > 0 => 2 * (until[r] - (now + 1)) <= 2 * p + TicksPerSecond
      BY <1>0, <2>1, <2>2, <2>3
    <2>5. HintOK(r)'
      BY <1>0, <2>4, Zenon DEF HintOK, Tells, p
    <2> QED
      BY <1>0, <2>1, <2>5, Zenon DEF TruthOK
  <1> QED
    BY <1>1, <1>2 DEF RetryInv

\* A 423 tells the truth to within half a second, for any clock resolution and
\* lock duration: after the Retry-After it carries, the lock it was read from is
\* at most half a second from its expiry, whichever TTL commands failed.
THEOREM RetryAfterTrue == Spec => []RetryAfterNearlySuffices
  <1>1. Init => RetryInv
    <2> SUFFICES ASSUME Init PROVE RetryInv
      OBVIOUS
    <2>1. \A r \in Requests : hint[r] = 0 /\ until[r] = 0 /\ reply[r].code = 0 /\ now = 0
      BY DEF Init, NoReply
    <2>2. \A r \in Requests : HintOK(r) /\ TruthOK(r)
      BY <2>1, LockoutAssumption DEF HintOK, Tells, TruthOK
    <2> QED
      BY <2>2 DEF Init, RetryInv
  <1>2. IInv /\ RetryInv /\ [Next]_vars => RetryInv'
    <2> SUFFICES ASSUME IInv, RetryInv, [Next]_vars PROVE RetryInv'
      OBVIOUS
    <2>1. ASSUME NEW r \in Requests, RequestStep(r) PROVE RetryInv'
      BY <2>1, LocksStep, HintStep DEF IInv, RetryInv
    <2>2. CASE Tick
      BY <2>2, RetryTick DEF IInv
    <2>3. CASE UNCHANGED vars
      BY <2>3 DEF vars, RetryInv, HintOK, TruthOK
    <2> QED
      BY <2>1, <2>2, <2>3 DEF Next, Finished, RequestStep
  <1>3. RetryInv => RetryAfterNearlySuffices
    BY DEF RetryInv, TruthOK, RetryAfterNearlySuffices
  <1> QED
    BY <1>1, <1>2, <1>3, Invariant, PTL DEF Spec
=============================================================================
