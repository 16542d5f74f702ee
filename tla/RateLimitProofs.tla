--------------------------- MODULE RateLimitProofs ---------------------------
(***************************************************************************)
(* Proofs about RateLimit, for any number of requests and clients and any  *)
(* limit, window, delay and length of the clock.                           *)
(***************************************************************************)
EXTENDS RateLimit, FiniteSetTheorems, TLAPS

\* The requests whose increment can have reached the counter of c and k.
Counted(c, k) ==
    {q \in Requests : pc[q] = "done" /\ scope[q] = c /\ KeySecond(stamp[q]) = k}

\* A counter never exceeds the number of requests that may have incremented it.
CountInv ==
    \A c \in Scopes, k \in Keys : counter[c][k].n <= Cardinality(Counted(c, k))

\* An answer is the last thing that happens to a request.
AnsweredDone == \A r \in Requests : pc[r] # "done" => reply[r].code = "none"

\* The inductive invariant.
IInv == TypeOK /\ AnsweredDone /\ CountInv

-----------------------------------------------------------------------------
(* Arithmetic of windows.                                                  *)

\* What \div means.
LEMMA DivBounds ==
    ASSUME NEW a \in Nat, NEW b \in Nat \ {0}
    PROVE  /\ a \div b \in Nat
           /\ (a \div b) * b <= a
           /\ a < (a \div b) * b + b
  OBVIOUS

\* Products are monotone.
LEMMA TimesMonotone ==
    ASSUME NEW x \in Int, NEW y \in Int, NEW b \in Nat, x <= y
    PROVE  x * b <= y * b
  OBVIOUS

\* A lower bound on the quotient.
LEMMA DivLower ==
    ASSUME NEW a \in Nat, NEW b \in Nat \ {0}, NEW q \in Nat, q * b <= a
    PROVE  q <= a \div b
  <1> DEFINE d == a \div b
  <1>1. d \in Nat /\ a < d * b + b
    BY DivBounds
  <1>2. SUFFICES ASSUME q >= d + 1 PROVE FALSE
    BY <1>1
  <1>3. (d + 1) * b <= q * b
    BY <1>1, <1>2, TimesMonotone
  <1>4. (d + 1) * b = d * b + b
    BY <1>1
  <1> QED
    BY <1>1, <1>3, <1>4

\* \div is monotone.
LEMMA DivMonotone ==
    ASSUME NEW a \in Nat, NEW c \in Nat, NEW b \in Nat \ {0}, a <= c
    PROVE  a \div b <= c \div b
  <1>1. a \div b \in Nat /\ (a \div b) * b <= a
    BY DivBounds
  <1> QED
    BY <1>1, DivLower

\* A window starts at or before any of its moments and ends after it.
LEMMA WindowBounds ==
    ASSUME NEW t \in Nat
    PROVE  /\ WindowStart(t) \in Nat
           /\ WindowStart(t) <= t
           /\ t < WindowStart(t) + Window
  BY DivBounds, LimitAssumption DEF WindowStart

\* The key of a moment within the clock is a key of the store.
LEMMA KeyType ==
    ASSUME NEW t \in 0..MaxTime
    PROVE  KeySecond(t) \in Keys
  <1>1. WindowStart(t) \in Nat /\ WindowStart(t) <= MaxTime
    BY WindowBounds, LimitAssumption
  <1>2. KeySecond(t) \in Nat
    BY <1>1, DivBounds, LimitAssumption DEF KeySecond
  <1>3. KeySecond(t) <= MaxTime \div TicksPerSecond
    BY <1>1, DivMonotone, LimitAssumption DEF KeySecond
  <1>4. MaxTime \div TicksPerSecond \in Nat
    BY DivBounds, LimitAssumption
  <1> QED
    BY <1>2, <1>3, <1>4 DEF Keys

\* Where windows last a second or more, a later window has a later key.
LEMMA LaterWindowLaterKey ==
    ASSUME TicksPerSecond <= Window,
           NEW s \in Nat, NEW t \in Nat, WindowStart(s) + Window <= WindowStart(t)
    PROVE  KeySecond(s) < KeySecond(t)
  <1> DEFINE w == WindowStart(s)
  <1>1. w \in Nat /\ WindowStart(t) \in Nat
    BY WindowBounds
  <1>2. KeySecond(s) \in Nat /\ KeySecond(s) * TicksPerSecond <= w
    BY <1>1, DivBounds, LimitAssumption DEF KeySecond
  <1>3. (KeySecond(s) + 1) * TicksPerSecond = KeySecond(s) * TicksPerSecond + TicksPerSecond
    BY <1>2, LimitAssumption
  <1>4. (KeySecond(s) + 1) * TicksPerSecond <= WindowStart(t)
    BY <1>1, <1>2, <1>3, LimitAssumption
  <1>5. KeySecond(s) + 1 <= WindowStart(t) \div TicksPerSecond
    BY <1>1, <1>2, <1>4, DivLower, LimitAssumption
  <1>6. KeySecond(t) \in Nat
    BY <1>1, DivBounds, LimitAssumption DEF KeySecond
  <1> QED
    BY <1>2, <1>5, <1>6 DEF KeySecond

\* Windows are aligned: two that start differently are a whole window apart.
LEMMA WindowsAligned ==
    ASSUME NEW s \in Nat, NEW t \in Nat, WindowStart(s) < WindowStart(t)
    PROVE  WindowStart(s) + Window <= WindowStart(t)
  <1> DEFINE i == s \div Window
             j == t \div Window
  <1>1. i \in Nat /\ j \in Nat /\ WindowStart(s) = i * Window /\ WindowStart(t) = j * Window
    BY DivBounds, LimitAssumption DEF WindowStart
  <1>2. CASE j <= i
    <2>1. j * Window <= i * Window
      BY <1>1, <1>2, TimesMonotone, LimitAssumption
    <2> QED
      BY <2>1, <1>1, LimitAssumption
  <1>3. CASE i + 1 <= j
    <2>1. (i + 1) * Window <= j * Window
      BY <1>1, <1>3, TimesMonotone, LimitAssumption
    <2>2. (i + 1) * Window = i * Window + Window
      BY <1>1, LimitAssumption
    <2> QED
      BY <2>1, <2>2, <1>1
  <1> QED
    BY <1>1, <1>2, <1>3

\* So one counter belongs to one window.
LEMMA SameKeySameWindow ==
    ASSUME TicksPerSecond <= Window,
           NEW s \in Nat, NEW t \in Nat, KeySecond(s) = KeySecond(t)
    PROVE  WindowStart(s) = WindowStart(t)
  <1>1. WindowStart(s) \in Nat /\ WindowStart(t) \in Nat
    BY WindowBounds
  <1>2. KeySecond(s) \in Nat /\ KeySecond(t) \in Nat
    BY <1>1, DivBounds, LimitAssumption DEF KeySecond
  <1>3. ~(WindowStart(s) < WindowStart(t))
    BY <1>2, WindowsAligned, LaterWindowLaterKey
  <1>4. ~(WindowStart(t) < WindowStart(s))
    BY <1>2, WindowsAligned, LaterWindowLaterKey
  <1> QED
    BY <1>1, <1>3, <1>4

\* Seconds rounds up.
LEMMA SecondsEnough ==
    ASSUME NEW d \in Nat \ {0}
    PROVE  Seconds(d) \in Nat /\ d <= Seconds(d) * TicksPerSecond
  <1> DEFINE q == (d + TicksPerSecond - 1) \div TicksPerSecond
  <1>1. q \in Nat /\ d + TicksPerSecond - 1 < q * TicksPerSecond + TicksPerSecond
    <2>1. d + TicksPerSecond - 1 \in Nat
      BY LimitAssumption
    <2> QED
      BY <2>1, DivBounds, LimitAssumption
  <1>2. q * TicksPerSecond \in Nat
    BY <1>1, LimitAssumption
  <1>3. Seconds(d) = q
    BY DEF Seconds
  <1> QED
    BY <1>1, <1>2, <1>3, LimitAssumption

\* A rejection's wait leads past the end of the window.
LEMMA RetryLemma ==
    ASSUME TicksPerSecond <= Window, NEW t \in Nat
    PROVE  KeySecond(t + Seconds(Reset(t)) * TicksPerSecond) # KeySecond(t)
  <1> DEFINE w == WindowStart(t)
             u == t + Seconds(Reset(t)) * TicksPerSecond
  <1>1. w \in Nat /\ w <= t /\ t < w + Window
    BY WindowBounds
  <1>2. Reset(t) \in Nat \ {0}
    BY <1>1, LimitAssumption DEF Reset
  <1>3. Seconds(Reset(t)) \in Nat /\ Reset(t) <= Seconds(Reset(t)) * TicksPerSecond
    BY <1>2, SecondsEnough
  <1>4. Seconds(Reset(t)) * TicksPerSecond \in Nat
    BY <1>3, LimitAssumption
  <1>5. u \in Nat /\ w + Window <= u
    BY <1>1, <1>3, <1>4, LimitAssumption DEF Reset
  <1>6. w + Window <= WindowStart(u)
    <2>1. (t \div Window) \in Nat /\ w = (t \div Window) * Window
      BY DivBounds, LimitAssumption DEF WindowStart
    <2>2. (t \div Window + 1) * Window = w + Window
      BY <2>1, LimitAssumption
    <2>3. t \div Window + 1 <= u \div Window
      <3> DEFINE q == t \div Window + 1
      <3>1. q \in Nat /\ q * Window <= u /\ Window \in Nat \ {0}
        BY <1>5, <2>1, <2>2, LimitAssumption
      <3> HIDE DEF q, u
      <3>2. q <= u \div Window
        BY <1>5, <3>1, DivLower
      <3> QED
        BY <3>2 DEF q
    <2>4. u \div Window \in Nat
      BY <1>5, DivBounds, LimitAssumption
    <2>5. (t \div Window + 1) * Window <= (u \div Window) * Window
      BY <2>1, <2>3, <2>4, TimesMonotone, LimitAssumption
    <2> QED
      BY <2>2, <2>5 DEF WindowStart
  <1>7. KeySecond(t) < KeySecond(u)
    BY <1>5, <1>6, LaterWindowLaterKey
  <1>8. KeySecond(t) \in Nat
    BY <1>1, DivBounds, LimitAssumption DEF KeySecond
  <1> QED
    BY <1>7, <1>8

-----------------------------------------------------------------------------
(* Type correctness.                                                       *)

\* The counter a waiting request will increment is a counter of the store.
LEMMA CellType ==
    ASSUME TypeOK, NEW r \in Requests
    PROVE  /\ KeySecond(stamp[r]) \in Keys
           /\ Cell(r).n \in Nat
           /\ Incremented(Cell(r)) \in [n : Nat, expire : Nat]
  <1>1. KeySecond(stamp[r]) \in Keys
    BY KeyType DEF TypeOK
  <1>2. counter[scope[r]][KeySecond(stamp[r])] \in [n : Nat, expire : Nat]
    BY <1>1 DEF TypeOK
  <1>3. now \in Nat /\ Window \in Nat
    BY LimitAssumption DEF TypeOK
  <1> QED
    BY <1>1, <1>2, <1>3 DEF Cell, Incremented

\* Counting keeps the counters well formed.
LEMMA CountType ==
    ASSUME TypeOK, NEW r \in Requests, Count(r)
    PROVE  counter' \in [Scopes -> [Keys -> [n : Nat, expire : Nat]]]
  <1>1. KeySecond(stamp[r]) \in Keys /\ scope[r] \in Scopes
    BY CellType DEF TypeOK
  <1>2. counter' = [counter EXCEPT ![scope[r]][KeySecond(stamp[r])] = Incremented(Cell(r))]
    BY <1>1 DEF Count, Cell, TypeOK
  <1> QED
    BY <1>1, <1>2, CellType DEF TypeOK

\* What Allow answers is a well-formed result.
LEMMA ResultType ==
    ASSUME TypeOK, NEW r \in Requests
    PROVE  Result(r, Cell(r).n + 1) \in
             [code : {"allowed", "rejected"}, remaining : 0..Limit, retryAfter : Nat]
  <1>1. stamp[r] \in Nat
    BY LimitAssumption DEF TypeOK
  <1>2. Reset(stamp[r]) \in Nat \ {0}
    BY <1>1, WindowBounds, LimitAssumption DEF Reset
  <1>3. Seconds(Reset(stamp[r])) \in Nat
    BY <1>2, SecondsEnough
  <1> QED
    BY <1>3, CellType, LimitAssumption DEF Result

\* No step leaves the types.
LEMMA TypeStep == TypeOK /\ [Next]_vars => TypeOK'
  <1> SUFFICES ASSUME TypeOK, [Next]_vars PROVE TypeOK'
    OBVIOUS
  <1>1. ASSUME NEW r \in Requests, Arrive(r) PROVE TypeOK'
    BY <1>1 DEF Arrive, TypeOK
  <1>2. ASSUME NEW r \in Requests, Allow(r) PROVE TypeOK'
    <2>1. counter' \in [Scopes -> [Keys -> [n : Nat, expire : Nat]]]
      BY <1>2, CountType DEF Allow
    <2>2. reply' \in [Requests -> [code : {"none", "allowed", "rejected", "open"},
                                   remaining : 0..Limit, retryAfter : Nat]]
      BY <1>2, ResultType DEF Allow, TypeOK
    <2> QED
      BY <1>2, <2>1, <2>2 DEF Allow, TypeOK
  <1>3. ASSUME NEW r \in Requests, FailOpen(r) PROVE TypeOK'
    <2>1. counter' \in [Scopes -> [Keys -> [n : Nat, expire : Nat]]]
      BY <1>3, CountType DEF FailOpen, TypeOK
    <2>2. reply' \in [Requests -> [code : {"none", "allowed", "rejected", "open"},
                                   remaining : 0..Limit, retryAfter : Nat]]
      BY <1>3, LimitAssumption DEF FailOpen, TypeOK
    <2> QED
      BY <1>3, <2>1, <2>2 DEF FailOpen, TypeOK
  <1>4. ASSUME Tick PROVE TypeOK'
    <2>1. counter' \in [Scopes -> [Keys -> [n : Nat, expire : Nat]]]
      BY <1>4 DEF Tick, TypeOK, Absent
    <2>2. now' \in 0..MaxTime
      BY <1>4, LimitAssumption DEF Tick, TypeOK
    <2> QED
      BY <1>4, <2>1, <2>2 DEF Tick, TypeOK
  <1>5. ASSUME UNCHANGED vars PROVE TypeOK'
    BY <1>5 DEF vars, TypeOK
  <1> QED
    BY <1>1, <1>2, <1>3, <1>4, <1>5 DEF Next, Finished

\* The initial states are well typed.
LEMMA TypeInit == Init => TypeOK
  BY LimitAssumption DEF Init, TypeOK, Absent, NoReply

\* Every variable keeps its type: no Remaining header of GetRatelimit is ever
\* negative, no counter is addressed outside the store.
THEOREM TypeCorrect == Spec => []TypeOK
  BY TypeInit, TypeStep, PTL DEF Spec

-----------------------------------------------------------------------------
(* Expiry.                                                                 *)

\* An increment starts a TTL of one window or leaves a running one alone.
LEMMA ExpireStep == TypeOK /\ CountersSelfExpire /\ [Next]_vars => CountersSelfExpire'
  <1> SUFFICES ASSUME TypeOK, CountersSelfExpire, [Next]_vars,
                      NEW c \in Scopes, NEW k \in Keys, counter'[c][k].n > 0
               PROVE  now' < counter'[c][k].expire /\ counter'[c][k].expire <= now' + Window
    BY DEF CountersSelfExpire
  <1> USE LimitAssumption
  <1>1. ASSUME NEW r \in Requests, Count(r), now' = now
        PROVE  now' < counter'[c][k].expire /\ counter'[c][k].expire <= now' + Window
    <2>1. CASE c = scope[r] /\ k = KeySecond(stamp[r])
      <3>1. counter'[c][k] = Incremented(counter[c][k])
        BY <1>1, <2>1 DEF Count, TypeOK
      <3>2. counter[c][k].n = 0 \/ counter[c][k].n > 0
        BY DEF TypeOK
      <3> QED
        BY <1>1, <3>1, <3>2 DEF Incremented, CountersSelfExpire, TypeOK
    <2>2. CASE ~(c = scope[r] /\ k = KeySecond(stamp[r]))
      <3>1. counter'[c][k] = counter[c][k]
        BY <1>1, <2>2 DEF Count, TypeOK
      <3> QED
        BY <1>1, <3>1 DEF CountersSelfExpire
    <2> QED
      BY <2>1, <2>2
  <1>2. ASSUME UNCHANGED <<now, counter>>
        PROVE  now' < counter'[c][k].expire /\ counter'[c][k].expire <= now' + Window
    BY <1>2 DEF CountersSelfExpire
  <1>3. ASSUME Tick
        PROVE  now' < counter'[c][k].expire /\ counter'[c][k].expire <= now' + Window
    BY <1>3 DEF Tick, CountersSelfExpire, TypeOK, Absent
  <1> QED
    BY <1>1, <1>2, <1>3 DEF Next, vars, Arrive, Allow, FailOpen, Finished

\* Every counter the limiter leaves in Redis goes away by itself within one
\* window, however increments, failures and expiries interleave.
THEOREM CountersExpire == Spec => []CountersSelfExpire
  <1>1. Init => CountersSelfExpire
    BY DEF Init, CountersSelfExpire, Absent
  <1> QED
    BY <1>1, ExpireStep, TypeCorrect, PTL DEF Spec

-----------------------------------------------------------------------------
(* Counting.                                                               *)

\* A counter holds no more than the requests that have been counted.
LEMMA CountStep ==
    ASSUME IInv, [Next]_vars
    PROVE  (AnsweredDone /\ CountInv)'
  <1> USE LimitAssumption
  <1>0. \A c, k : IsFiniteSet(Counted(c, k)) /\ Cardinality(Counted(c, k)) \in Nat
    <2> TAKE c, k
    <2>1. Counted(c, k) \in SUBSET Requests
      BY DEF Counted
    <2> QED
      BY <2>1, FS_Subset, FS_CardinalityType
  <1>1. ASSUME NEW r \in Requests, Arrive(r) PROVE (AnsweredDone /\ CountInv)'
    <2>1. \A c, k : Counted(c, k)' = Counted(c, k)
      BY <1>1 DEF Arrive, Counted, IInv, TypeOK
    <2> QED
      BY <1>1, <2>1 DEF Arrive, AnsweredDone, CountInv, IInv, TypeOK
  <1>2. ASSUME NEW r \in Requests, pc[r] = "incr", Count(r) \/ UNCHANGED counter,
               pc' = [pc EXCEPT ![r] = "done"], UNCHANGED <<scope, stamp>>,
               \A q \in Requests \ {r} : reply'[q] = reply[q]
        PROVE  (AnsweredDone /\ CountInv)'
    <2> DEFINE key == KeySecond(stamp[r])
    <2>1. \A c, k : Counted(c, k)' = IF c = scope[r] /\ k = key
                                     THEN Counted(c, k) \cup {r} ELSE Counted(c, k)
      BY <1>2 DEF Counted, IInv, TypeOK
    <2>2. r \notin Counted(scope[r], key)
      BY <1>2 DEF Counted
    <2>3. ASSUME NEW c, NEW k, c = scope[r], k = key
          PROVE  Cardinality(Counted(c, k)') = Cardinality(Counted(c, k)) + 1
      <3>1. Counted(c, k)' = Counted(c, k) \cup {r} /\ r \notin Counted(c, k)
        BY <2>1, <2>2, <2>3
      <3> QED
        BY <1>0, <3>1, FS_AddElement
    <2>4. ASSUME NEW c \in Scopes, NEW k \in Keys
          PROVE  counter'[c][k].n <= Cardinality(Counted(c, k)')
      <3>0. counter[c][k].n <= Cardinality(Counted(c, k)) /\ counter[c][k].n \in Nat
        BY DEF IInv, CountInv, TypeOK
      <3>1. CASE c = scope[r] /\ k = key
        <4>1. counter'[c][k].n \in {counter[c][k].n, counter[c][k].n + 1}
          BY <1>2, <3>1 DEF Count, Incremented, IInv, TypeOK
        <4> QED
          BY <4>1, <3>0, <3>1, <2>3, <1>0
      <3>2. CASE ~(c = scope[r] /\ k = key)
        <4>1. counter'[c][k] = counter[c][k]
          <5>1. CASE Count(r)
            BY <5>1, <3>2 DEF Count, IInv, TypeOK
          <5>2. CASE UNCHANGED counter
            BY <5>2
          <5> QED
            BY <1>2, <5>1, <5>2
        <4>2. Counted(c, k)' = Counted(c, k)
          BY <3>2, <2>1
        <4> QED
          BY <4>1, <4>2, <3>0
      <3> QED
        BY <3>1, <3>2
    <2>5. AnsweredDone'
      BY <1>2 DEF AnsweredDone, IInv, TypeOK
    <2> QED
      BY <2>4, <2>5 DEF CountInv
  <1>3. ASSUME Tick PROVE (AnsweredDone /\ CountInv)'
    <2>1. \A c, k : Counted(c, k)' = Counted(c, k)
      BY <1>3 DEF Tick, Counted
    <2>2. \A c \in Scopes, k \in Keys : counter'[c][k].n \in {0, counter[c][k].n}
      BY <1>3 DEF Tick, Absent
    <2>3. CountInv'
      BY <1>0, <2>1, <2>2 DEF CountInv, IInv
    <2> QED
      BY <1>3, <2>3 DEF Tick, AnsweredDone, IInv
  <1>4. ASSUME UNCHANGED vars PROVE (AnsweredDone /\ CountInv)'
    <2>1. \A c, k : Counted(c, k)' = Counted(c, k)
      BY <1>4 DEF vars, Counted
    <2> QED
      BY <1>4, <2>1 DEF vars, AnsweredDone, CountInv, IInv
  <1>5. ASSUME NEW r \in Requests, Allow(r) PROVE (AnsweredDone /\ CountInv)'
    BY <1>5, <1>2 DEF Allow, IInv, TypeOK
  <1>6. ASSUME NEW r \in Requests, FailOpen(r) PROVE (AnsweredDone /\ CountInv)'
    BY <1>6, <1>2 DEF FailOpen, IInv, TypeOK
  <1> QED
    BY <1>1, <1>3, <1>4, <1>5, <1>6 DEF Next, Finished

\* The inductive invariant holds throughout.
LEMMA Invariant == Spec => []IInv
  <1>1. Init => IInv
    <2> SUFFICES ASSUME Init PROVE IInv
      OBVIOUS
    <2>1. \A c, k : Counted(c, k) = {}
      BY DEF Init, Counted
    <2>2. CountInv
      <3> SUFFICES ASSUME NEW c \in Scopes, NEW k \in Keys
                   PROVE  counter[c][k].n <= Cardinality(Counted(c, k))
        BY DEF CountInv
      <3>1. counter[c][k].n = 0
        BY DEF Init, Absent
      <3>2. Cardinality(Counted(c, k)) = 0
        BY <2>1, FS_EmptySet
      <3> QED
        BY <3>1, <3>2
    <2> QED
      BY <2>2, TypeInit DEF Init, IInv, AnsweredDone, NoReply
  <1>2. IInv /\ [Next]_vars => IInv'
    BY TypeStep, CountStep DEF IInv
  <1> QED
    BY <1>1, <1>2, PTL DEF Spec

-----------------------------------------------------------------------------
(* What a rejection means.                                                 *)

\* The requests of a window become more, never fewer, and an answered request
\* keeps its window.
LEMMA SameWindowGrows ==
    ASSUME IInv, [Next]_vars, NEW r \in Requests, pc[r] # "idle"
    PROVE  SameWindow(r) \subseteq SameWindow(r)' /\ stamp'[r] = stamp[r]
  <1>1. ASSUME NEW q \in Requests, pc[q] # "idle"
        PROVE  pc'[q] # "idle" /\ stamp'[q] = stamp[q] /\ scope'[q] = scope[q]
    BY <1>1 DEF Next, vars, Arrive, Allow, FailOpen, Tick, Finished, IInv, TypeOK
  <1>2. ASSUME NEW q \in SameWindow(r) PROVE q \in SameWindow(r)'
    <2>1. q \in Requests /\ pc[q] # "idle" /\ scope[q] = scope[r]
          /\ WindowStart(stamp[q]) = WindowStart(stamp[r])
      BY DEF SameWindow
    <2>2. pc'[q] # "idle" /\ stamp'[q] = stamp[q] /\ scope'[q] = scope[q]
      BY <2>1, <1>1
    <2>3. stamp'[r] = stamp[r] /\ scope'[r] = scope[r]
      BY <1>1
    <2> QED
      BY <2>1, <2>2, <2>3 DEF SameWindow, WindowStart
  <1> QED
    BY <1>1, <1>2

\* An answer other than the first stays, and a rejection is an Allow whose count
\* is over the limit.
LEMMA RejectionStep ==
    ASSUME IInv, [Next]_vars, NEW r \in Requests, reply'[r].code = "rejected"
    PROVE  \/ reply'[r] = reply[r] /\ pc[r] # "idle"
           \/ /\ pc[r] = "incr" /\ Limit < Cell(r).n + 1
              /\ reply'[r].retryAfter = Seconds(Reset(stamp[r]))
  <1>1. ASSUME reply'[r] = reply[r] PROVE pc[r] # "idle"
    BY <1>1 DEF IInv, AnsweredDone
  <1>2. ASSUME NEW q \in Requests, Allow(q)
        PROVE  \/ reply'[r] = reply[r]
               \/ /\ pc[r] = "incr" /\ Limit < Cell(r).n + 1
                  /\ reply'[r].retryAfter = Seconds(Reset(stamp[r]))
    <2>1. CASE q = r
      <3>1. reply'[r] = Result(r, Cell(r).n + 1) /\ pc[r] = "incr"
        BY <1>2, <2>1 DEF Allow, IInv, TypeOK
      <3> QED
        BY <3>1, CellType, LimitAssumption DEF Result, IInv
    <2>2. CASE q # r
      BY <1>2, <2>2 DEF Allow, IInv, TypeOK
    <2> QED
      BY <2>1, <2>2
  <1>3. ASSUME NEW q \in Requests, FailOpen(q) PROVE reply'[r] = reply[r]
    BY <1>3 DEF FailOpen, IInv, TypeOK
  <1>4. ASSUME NEW q \in Requests, Arrive(q) PROVE reply'[r] = reply[r]
    BY <1>4 DEF Arrive
  <1>5. ASSUME Tick \/ UNCHANGED vars PROVE reply'[r] = reply[r]
    BY <1>5 DEF Tick, vars
  <1> QED
    BY <1>1, <1>2, <1>3, <1>4, <1>5 DEF Next, Finished

\* Nobody is turned away early, for windows of a second and more: behind every
\* 429 of GetRatelimit there are Limit other requests of the same client in the
\* same window.
THEOREM NobodyRejectedEarly ==
    ASSUME TicksPerSecond <= Window
    PROVE  Spec => []RejectedOnlyOverLimit
  <1>1. Init => RejectedOnlyOverLimit
    BY DEF Init, RejectedOnlyOverLimit, NoReply
  <1>2. IInv /\ RejectedOnlyOverLimit /\ [Next]_vars => RejectedOnlyOverLimit'
    <2> SUFFICES ASSUME IInv, RejectedOnlyOverLimit, [Next]_vars,
                        NEW r \in Requests, reply'[r].code = "rejected"
                 PROVE  Cardinality((SameWindow(r) \ {r})') >= Limit
      BY DEF RejectedOnlyOverLimit
    <2> USE LimitAssumption
    <2>1. pc[r] # "idle" /\ SameWindow(r) \subseteq SameWindow(r)'
      BY RejectionStep, SameWindowGrows
    <2>2. IsFiniteSet((SameWindow(r) \ {r})')
      <3>1. (SameWindow(r) \ {r})' \in SUBSET Requests
        BY DEF SameWindow
      <3> QED
        BY <3>1, FS_Subset
    <2>3. SameWindow(r) \ {r} \in SUBSET (SameWindow(r) \ {r})'
      BY <2>1
    <2>4. /\ Cardinality(SameWindow(r) \ {r}) <= Cardinality((SameWindow(r) \ {r})')
          /\ IsFiniteSet(SameWindow(r) \ {r})
      BY <2>2, <2>3, FS_Subset
    <2>5. /\ Cardinality(SameWindow(r) \ {r}) \in Nat
          /\ Cardinality((SameWindow(r) \ {r})') \in Nat
      BY <2>2, <2>4, FS_CardinalityType
    <2>6. CASE reply'[r] = reply[r]
      <3>1. Cardinality(SameWindow(r) \ {r}) >= Limit
        BY <2>6 DEF RejectedOnlyOverLimit
      <3> QED
        BY <2>4, <2>5, <3>1
    <2>7. CASE pc[r] = "incr" /\ Limit < Cell(r).n + 1
      <3> DEFINE C == Counted(scope[r], KeySecond(stamp[r]))
      <3>1. Cell(r).n <= Cardinality(C)
        BY CellType DEF IInv, CountInv, Cell, TypeOK
      <3>2. C \in SUBSET (SameWindow(r) \ {r})
        <4> SUFFICES ASSUME NEW q \in C PROVE q \in SameWindow(r) /\ q # r
          OBVIOUS
        <4>1. q \in Requests /\ pc[q] = "done" /\ scope[q] = scope[r]
              /\ KeySecond(stamp[q]) = KeySecond(stamp[r])
          BY DEF Counted
        <4>2. stamp[q] \in Nat /\ stamp[r] \in Nat
          BY <4>1 DEF IInv, TypeOK
        <4>3. WindowStart(stamp[q]) = WindowStart(stamp[r])
          BY <4>1, <4>2, SameKeySameWindow
        <4> QED
          BY <4>1, <4>3, <2>7 DEF SameWindow
      <3>3. Cardinality(C) <= Cardinality(SameWindow(r) \ {r}) /\ IsFiniteSet(C)
        BY <3>2, <2>4, FS_Subset
      <3>4. Cardinality(C) \in Nat /\ Cell(r).n \in Nat
        BY <3>3, FS_CardinalityType, CellType DEF IInv
      <3> QED
        BY <3>1, <3>3, <3>4, <2>4, <2>5, <2>7
    <2> QED
      BY <2>6, <2>7, RejectionStep
  <1> QED
    BY <1>1, <1>2, Invariant, PTL DEF Spec

\* Whoever waits as long as the Retry-After of a 429 says gets a fresh counter,
\* for windows of a second and more.
THEOREM RetryAfterSuffices ==
    ASSUME TicksPerSecond <= Window
    PROVE  Spec => []RetryReachesNewWindow
  <1>1. Init => RetryReachesNewWindow
    BY DEF Init, RetryReachesNewWindow, NoReply
  <1>2. IInv /\ RetryReachesNewWindow /\ [Next]_vars => RetryReachesNewWindow'
    <2> SUFFICES ASSUME IInv, RetryReachesNewWindow, [Next]_vars,
                        NEW r \in Requests, reply'[r].code = "rejected"
                 PROVE  KeySecond(stamp'[r] + reply'[r].retryAfter * TicksPerSecond)
                          # KeySecond(stamp'[r])
      BY DEF RetryReachesNewWindow, KeySecond, WindowStart
    <2>1. pc[r] # "idle" /\ stamp'[r] = stamp[r]
      BY RejectionStep, SameWindowGrows
    <2>2. CASE reply'[r] = reply[r]
      BY <2>1, <2>2 DEF RetryReachesNewWindow
    <2>3. CASE reply'[r].retryAfter = Seconds(Reset(stamp[r]))
      <3>1. stamp[r] \in Nat
        BY LimitAssumption DEF IInv, TypeOK
      <3> QED
        BY <2>1, <2>3, <3>1, RetryLemma
    <2> QED
      BY <2>2, <2>3, RejectionStep
  <1> QED
    BY <1>1, <1>2, Invariant, PTL DEF Spec

-----------------------------------------------------------------------------
(* What a window grants.  While a counter lives it grants Limit requests   *)
(* at most; a window's first counter starts no earlier than the window,    *)
(* each further one no earlier than the last has ended, and none once the  *)
(* window is over and every increment for it has reached Redis.            *)

\* The requests granted to client c in the window of the moment t.
GrantedIn(c, t) ==
    {q \in Requests : /\ reply[q].code = "allowed" /\ scope[q] = c
                      /\ WindowStart(stamp[q]) = WindowStart(t)}

\* l counters of a window that starts at w have ended and a counter that stands
\* at n and expires at e (none if n = 0) may be running: the window has granted g.
Life(l, g, n, e, w, clock) ==
    IF n > 0
    THEN /\ l < Lives /\ e >= w + l * Window + Window
         /\ g <= l * Limit + n /\ g <= l * Limit + Limit
    ELSE /\ l = 0 \/ clock >= w + l * Window
         /\ g <= l * Limit

LivesBound(g, n, e, w, clock) == \E l \in 0..Lives : Life(l, g, n, e, w, clock)

BoundedLives ==
    \A c \in Scopes, t \in 0..MaxTime :
        LivesBound(Cardinality(GrantedIn(c, t)), counter[c][KeySecond(t)].n,
                   counter[c][KeySecond(t)].expire, WindowStart(t), now)

\* A request waits for Redis no longer than MaxDelay.
NoneLate == \A r \in Requests : pc[r] = "incr" => stamp[r] <= now /\ now <= stamp[r] + MaxDelay

\* The first increment of a counter gives it one window to live.
NewExpire(n, e, clock) == IF n = 0 THEN clock + Window ELSE e

\* The number of lives is a number.
LEMMA LivesType == Lives \in Nat /\ Lives > 0
  <1>1. (MaxDelay + Window - 1) \div Window \in Nat
    BY DivBounds, LimitAssumption
  <1> QED
    BY <1>1 DEF Lives

\* A counter that starts while an increment for its window may be on the way is
\* not one too many.
LEMMA LivesEnough ==
    ASSUME NEW l \in Nat, l * Window < MaxDelay + Window
    PROVE  l < Lives
  <1>1. l * Window \in Nat
    BY LimitAssumption
  <1>2. l * Window <= MaxDelay + Window - 1 /\ MaxDelay + Window - 1 \in Nat
    BY <1>1, LimitAssumption
  <1>3. l <= (MaxDelay + Window - 1) \div Window /\ (MaxDelay + Window - 1) \div Window \in Nat
    BY <1>2, DivLower, DivBounds, LimitAssumption
  <1> QED
    BY <1>3 DEF Lives

\* An increment for the window of w, granted (d = 1) or not (d = 0).
LEMMA IncrementBound ==
    ASSUME NEW g \in Nat, NEW n \in Nat, NEW e \in Nat, NEW w \in Nat, NEW clock \in Nat,
           NEW d \in {0, 1}, d = 1 => n + 1 <= Limit,
           w <= clock, clock < w + Window + MaxDelay,
           LivesBound(g, n, e, w, clock)
    PROVE  LivesBound(g + d, n + 1, NewExpire(n, e, clock), w, clock)
  <1>1. PICK l \in 0..Lives : Life(l, g, n, e, w, clock)
    BY DEF LivesBound
  <1> DEFINE lw == l * Window
             ll == l * Limit
  <1>2. l \in Nat /\ lw \in Nat /\ ll \in Nat /\ (l = 0 => lw = 0)
    BY LivesType, LimitAssumption
  <1>3. l < Lives
    <2>1. CASE n > 0
      BY <1>1, <2>1 DEF Life
    <2>2. CASE n = 0
      <3>1. l = 0 \/ clock >= w + lw
        BY <1>1, <2>2 DEF Life
      <3> HIDE DEF lw
      <3>2. lw < MaxDelay + Window
        BY <3>1, <1>2, LimitAssumption
      <3> QED
        BY <3>2, <1>2, LivesEnough DEF lw
    <2> QED
      BY <2>1, <2>2
  <1>4. Life(l, g + d, n + 1, NewExpire(n, e, clock), w, clock)
    <2>1. /\ n > 0 => e >= w + lw + Window /\ g <= ll + n /\ g <= ll + Limit
          /\ n = 0 => (l = 0 \/ clock >= w + lw) /\ g <= ll
      BY <1>1 DEF Life
    <2> HIDE DEF lw, ll
    <2>2. NewExpire(n, e, clock) >= w + lw + Window
      BY <2>1, <1>2, LimitAssumption DEF NewExpire
    <2>3. g + d <= ll + (n + 1) /\ g + d <= ll + Limit /\ n + 1 > 0
      BY <2>1, <1>2, LimitAssumption
    <2> QED
      BY <2>2, <2>3, <1>3 DEF Life, lw, ll
  <1> QED
    BY <1>4 DEF LivesBound

\* The clock moves on and may end the counter.
LEMMA ClockBound ==
    ASSUME NEW g \in Nat, NEW n \in Nat, NEW e \in Nat, NEW w \in Nat, NEW clock \in Nat,
           LivesBound(g, n, e, w, clock)
    PROVE  /\ LivesBound(g, n, e, w, clock + 1)
           /\ e <= clock + 1 => LivesBound(g, 0, 0, w, clock + 1)
  <1>1. PICK l \in 0..Lives : Life(l, g, n, e, w, clock)
    BY DEF LivesBound
  <1> DEFINE lw == l * Window
             ll == l * Limit
  <1>2. l \in Nat /\ lw \in Nat /\ ll \in Nat
    BY LivesType, LimitAssumption
  <1>3. /\ n > 0 => l < Lives /\ e >= w + lw + Window /\ g <= ll + n /\ g <= ll + Limit
        /\ n = 0 => (l = 0 \/ clock >= w + lw) /\ g <= ll
    BY <1>1 DEF Life
  <1>4. Life(l, g, n, e, w, clock + 1)
    <2> HIDE DEF lw, ll
    <2>1. n = 0 => l = 0 \/ clock + 1 >= w + lw
      BY <1>2, <1>3
    <2> QED
      BY <1>3, <2>1, <1>2 DEF Life, lw, ll
  <1>5. ASSUME n > 0, e <= clock + 1 PROVE LivesBound(g, 0, 0, w, clock + 1)
    <2>1. (l + 1) * Window = lw + Window /\ (l + 1) * Limit = ll + Limit /\ l + 1 \in 0..Lives
      BY <1>2, <1>3, <1>5, LivesType, LimitAssumption
    <2>2. clock + 1 >= w + (lw + Window) /\ g <= ll + Limit
      <3> HIDE DEF lw, ll
      <3> QED
        BY <1>2, <1>3, <1>5, LimitAssumption
    <2>3. clock + 1 >= w + (l + 1) * Window /\ g <= (l + 1) * Limit
      BY <2>1, <2>2, Zenon
    <2>4. Life(l + 1, g, 0, 0, w, clock + 1)
      BY <2>3 DEF Life
    <2> QED
      BY <2>1, <2>4 DEF LivesBound
  <1>6. ASSUME n = 0 PROVE LivesBound(g, 0, 0, w, clock + 1)
    BY <1>4, <1>6 DEF Life, LivesBound
  <1> QED
    BY <1>4, <1>5, <1>6 DEF LivesBound

\* The cardinalities involved are numbers.
LEMMA GrantedFinite ==
    ASSUME NEW c, NEW t
    PROVE  /\ IsFiniteSet(GrantedIn(c, t)) /\ Cardinality(GrantedIn(c, t)) \in Nat
           /\ IsFiniteSet(GrantedIn(c, t)') /\ Cardinality(GrantedIn(c, t)') \in Nat
  <1>1. GrantedIn(c, t) \in SUBSET Requests /\ GrantedIn(c, t)' \in SUBSET Requests
    BY DEF GrantedIn
  <1> QED
    BY <1>1, FS_Subset, FS_CardinalityType, LimitAssumption

\* Nobody waits longer than MaxDelay.
LEMMA NoneLateStep == TypeOK /\ NoneLate /\ [Next]_vars => NoneLate'
  <1> SUFFICES ASSUME TypeOK, NoneLate, [Next]_vars, NEW r \in Requests, pc'[r] = "incr"
               PROVE  stamp'[r] <= now' /\ now' <= stamp'[r] + MaxDelay
    BY DEF NoneLate
  <1> USE LimitAssumption DEF TypeOK, NoneLate
  <1>1. ASSUME NEW q \in Requests, Arrive(q)
        PROVE  stamp'[r] <= now' /\ now' <= stamp'[r] + MaxDelay
    BY <1>1 DEF Arrive
  <1>2. ASSUME NEW q \in Requests, Allow(q) \/ FailOpen(q)
        PROVE  stamp'[r] <= now' /\ now' <= stamp'[r] + MaxDelay
    BY <1>2 DEF Allow, FailOpen
  <1>3. ASSUME Tick PROVE stamp'[r] <= now' /\ now' <= stamp'[r] + MaxDelay
    BY <1>3 DEF Tick
  <1>4. ASSUME UNCHANGED vars PROVE stamp'[r] <= now' /\ now' <= stamp'[r] + MaxDelay
    BY <1>4 DEF vars
  <1> QED
    BY <1>1, <1>2, <1>3, <1>4 DEF Next, Finished

\* A step that answers one request r of a window: every other window keeps its
\* grants and its counter, and the window of r is counted on.
LEMMA AnswerBound ==
    ASSUME TicksPerSecond <= Window, IInv, NoneLate, BoundedLives,
           NEW r \in Requests, pc[r] = "incr",
           UNCHANGED <<now, scope, stamp>>,
           \A q \in Requests \ {r} : reply'[q] = reply[q],
           \/ Count(r) /\ reply'[r].code # "allowed"
           \/ Count(r) /\ reply'[r].code = "allowed" /\ Cell(r).n + 1 <= Limit
           \/ UNCHANGED counter /\ reply'[r].code # "allowed"
    PROVE  BoundedLives'
  <1> SUFFICES ASSUME NEW c \in Scopes, NEW t \in 0..MaxTime
               PROVE  LivesBound(Cardinality(GrantedIn(c, t)'), counter'[c][KeySecond(t)].n,
                                 counter'[c][KeySecond(t)].expire, WindowStart(t), now)
    BY Zenon DEF BoundedLives
  <1> DEFINE g == Cardinality(GrantedIn(c, t))
             k == KeySecond(t)
             w == WindowStart(t)
  <1>1. LivesBound(g, counter[c][k].n, counter[c][k].expire, w, now)
    BY DEF BoundedLives
  <1>2. /\ t \in Nat /\ k \in Keys /\ w \in Nat /\ now \in Nat /\ g \in Nat
        /\ counter[c][k].n \in Nat /\ counter[c][k].expire \in Nat
    BY KeyType, WindowBounds, GrantedFinite, LimitAssumption DEF IInv, TypeOK
  <1>3. reply[r].code = "none" /\ stamp[r] \in Nat
    BY DEF IInv, AnsweredDone, TypeOK
  <1>4. CASE c = scope[r] /\ k = KeySecond(stamp[r])
    <2>1. w = WindowStart(stamp[r])
      BY <1>2, <1>3, <1>4, SameKeySameWindow
    <2>2. w <= now /\ now < w + Window + MaxDelay
      BY <1>2, <1>3, <2>1, WindowBounds, LimitAssumption DEF NoneLate
    <2>3. Cell(r) = counter[c][k]
      BY <1>4 DEF Cell
    <2>4. ASSUME Count(r)
          PROVE  /\ counter'[c][k].n = counter[c][k].n + 1
                 /\ counter'[c][k].expire
                      = NewExpire(counter[c][k].n, counter[c][k].expire, now)
      <3>1. counter'[c][k] = Incremented(counter[c][k])
        BY <2>4, <1>2, <1>4 DEF Count, IInv, TypeOK
      <3> QED
        BY <3>1 DEF Incremented, NewExpire
    <2>5. CASE reply'[r].code # "allowed"
      <3>1. GrantedIn(c, t)' = GrantedIn(c, t)
        BY <2>5, <1>3 DEF GrantedIn
      <3>2. CASE Count(r)
        <4>1. LivesBound(g + 0, counter[c][k].n + 1,
                         NewExpire(counter[c][k].n, counter[c][k].expire, now), w, now)
          <5>1. 0 \in {0, 1} /\ (0 = 1 => counter[c][k].n + 1 <= Limit)
            OBVIOUS
          <5> HIDE DEF g, k, w
          <5> QED
            BY <1>1, <1>2, <2>2, <5>1, IncrementBound, Zenon
        <4>2. g + 0 = g
          BY <1>2
        <4> QED
          BY <3>1, <3>2, <4>1, <4>2, <2>4
      <3>3. CASE UNCHANGED counter
        BY <3>1, <3>3, <1>1
      <3> QED
        BY <2>5, <3>2, <3>3
    <2>6. CASE Count(r) /\ reply'[r].code = "allowed" /\ Cell(r).n + 1 <= Limit
      <3>1. GrantedIn(c, t)' = GrantedIn(c, t) \cup {r} /\ r \notin GrantedIn(c, t)
        BY <2>6, <2>1, <1>3, <1>4 DEF GrantedIn
      <3>2. Cardinality(GrantedIn(c, t)') = g + 1
        BY <3>1, GrantedFinite, FS_AddElement
      <3>3. LivesBound(g + 1, counter[c][k].n + 1,
                       NewExpire(counter[c][k].n, counter[c][k].expire, now), w, now)
        <4>1. 1 \in {0, 1} /\ (1 = 1 => counter[c][k].n + 1 <= Limit)
          BY <2>3, <2>6
        <4> HIDE DEF g, k, w
        <4> QED
          BY <1>1, <1>2, <2>2, <4>1, IncrementBound, Zenon
      <3> QED
        BY <3>2, <3>3, <2>4, <2>6
    <2> QED
      BY <2>5, <2>6
  <1>5. CASE ~(c = scope[r] /\ k = KeySecond(stamp[r]))
    <2>1. counter'[c][k] = counter[c][k]
      <3>1. CASE Count(r)
        BY <3>1, <1>5 DEF Count, IInv, TypeOK
      <3> QED
        BY <3>1
    <2>2. ~(c = scope[r] /\ w = WindowStart(stamp[r]))
      BY <1>5 DEF KeySecond
    <2>3. GrantedIn(c, t)' = GrantedIn(c, t)
      BY <1>3, <2>2 DEF GrantedIn
    <2> QED
      BY <2>1, <2>3, <1>1
  <1> QED
    BY <1>4, <1>5

\* No step starts one counter too many.
LEMMA BoundedLivesStep ==
    ASSUME TicksPerSecond <= Window, IInv, NoneLate, BoundedLives, [Next]_vars
    PROVE  BoundedLives'
  <1>1. ASSUME UNCHANGED <<now, counter, scope, reply>>,
               \A q \in Requests : reply[q].code = "allowed" => stamp'[q] = stamp[q]
        PROVE  BoundedLives'
    <2>1. ASSUME NEW c, NEW t PROVE GrantedIn(c, t)' = GrantedIn(c, t)
      BY <1>1 DEF GrantedIn
    <2> QED
      BY <1>1, <2>1, Zenon DEF BoundedLives
  <1>2. ASSUME NEW r \in Requests, Arrive(r) PROVE BoundedLives'
    <2>1. reply[r].code = "none"
      BY <1>2 DEF Arrive, IInv, AnsweredDone
    <2> QED
      BY <1>1, <1>2, <2>1 DEF Arrive, IInv, TypeOK
  <1>3. ASSUME NEW r \in Requests, Allow(r) PROVE BoundedLives'
    <2>1. /\ pc[r] = "incr" /\ Count(r) /\ UNCHANGED <<now, scope, stamp>>
          /\ reply'[r] = Result(r, Cell(r).n + 1)
          /\ \A q \in Requests \ {r} : reply'[q] = reply[q]
      BY <1>3 DEF Allow, IInv, TypeOK
    <2>2. reply'[r].code = "allowed" => Cell(r).n + 1 <= Limit
      BY <2>1, CellType, LimitAssumption DEF Result, IInv
    <2> QED
      BY <2>1, <2>2, AnswerBound
  <1>4. ASSUME NEW r \in Requests, FailOpen(r) PROVE BoundedLives'
    <2>1. /\ pc[r] = "incr" /\ (Count(r) \/ UNCHANGED counter)
          /\ UNCHANGED <<now, scope, stamp>>
          /\ reply'[r].code # "allowed"
          /\ \A q \in Requests \ {r} : reply'[q] = reply[q]
      BY <1>4 DEF FailOpen, IInv, TypeOK
    <2> QED
      BY <2>1, AnswerBound
  <1>5. ASSUME Tick PROVE BoundedLives'
    <2> SUFFICES ASSUME NEW c \in Scopes, NEW t \in 0..MaxTime
                 PROVE  LivesBound(Cardinality(GrantedIn(c, t)'), counter'[c][KeySecond(t)].n,
                                   counter'[c][KeySecond(t)].expire, WindowStart(t), now')
      BY Zenon DEF BoundedLives
    <2> DEFINE g == Cardinality(GrantedIn(c, t))
               k == KeySecond(t)
               w == WindowStart(t)
               n == counter[c][k].n
               e == counter[c][k].expire
    <2>1. LivesBound(g, n, e, w, now)
      BY DEF BoundedLives
    <2>2. /\ k \in Keys /\ w \in Nat /\ now \in Nat /\ g \in Nat /\ n \in Nat /\ e \in Nat
      BY KeyType, WindowBounds, GrantedFinite, LimitAssumption DEF IInv, TypeOK
    <2>3. GrantedIn(c, t)' = GrantedIn(c, t) /\ now' = now + 1
      BY <1>5 DEF Tick, GrantedIn
    <2>4. counter'[c][k] = IF e <= now + 1 THEN Absent ELSE counter[c][k]
      BY <1>5, <2>2 DEF Tick
    <2>5. LivesBound(g, n, e, w, now + 1) /\ (e <= now + 1 => LivesBound(g, 0, 0, w, now + 1))
      BY <2>1, <2>2, ClockBound
    <2> QED
      BY <2>3, <2>4, <2>5 DEF Absent
  <1>6. ASSUME UNCHANGED vars PROVE BoundedLives'
    BY <1>1, <1>6 DEF vars
  <1> QED
    BY <1>2, <1>3, <1>4, <1>5, <1>6 DEF Next, Finished

\* Redis grants a client no more than Limit requests per life of the window's
\* counter, for windows of a second and more and whatever the delay MaxDelay of
\* an increment: Lives follows from the delay, and an increment that is later
\* than a window only makes it larger.
THEOREM WindowGrantsBounded ==
    ASSUME TicksPerSecond <= Window
    PROVE  Spec => []GrantedWithinLives
  <1>1. Init => NoneLate /\ BoundedLives
    <2> SUFFICES ASSUME Init PROVE NoneLate /\ BoundedLives
      OBVIOUS
    <2>1. ASSUME NEW c, NEW t PROVE Cardinality(GrantedIn(c, t)) = 0
      <3>1. GrantedIn(c, t) = {}
        BY DEF Init, GrantedIn, NoReply
      <3> QED
        BY <3>1, FS_EmptySet
    <2>2. ASSUME NEW c \in Scopes, NEW t \in 0..MaxTime
          PROVE  counter[c][KeySecond(t)].n = 0
      BY KeyType DEF Init, Absent
    <2>3. ASSUME NEW e, NEW w, NEW clock PROVE LivesBound(0, 0, e, w, clock)
      <3>1. 0 \in 0..Lives /\ 0 * Limit = 0
        BY LivesType, LimitAssumption
      <3>2. Life(0, 0, 0, e, w, clock)
        BY <3>1 DEF Life
      <3> QED
        BY <3>1, <3>2, Zenon DEF LivesBound
    <2>4. BoundedLives
      BY <2>1, <2>2, <2>3, Zenon DEF BoundedLives
    <2> QED
      BY <2>4 DEF Init, NoneLate
  <1>2. IInv /\ NoneLate /\ BoundedLives /\ [Next]_vars => (NoneLate /\ BoundedLives)'
    BY NoneLateStep, BoundedLivesStep DEF IInv
  <1>3. IInv /\ BoundedLives => GrantedWithinLives
    <2> SUFFICES ASSUME IInv, BoundedLives, NEW r \in Requests
                 PROVE  Cardinality(Granted(r)) <= Lives * Limit
      BY DEF GrantedWithinLives
    <2> DEFINE g == Cardinality(GrantedIn(scope[r], stamp[r]))
               n == counter[scope[r]][KeySecond(stamp[r])].n
    <2>1. scope[r] \in Scopes /\ stamp[r] \in 0..MaxTime
      BY DEF IInv, TypeOK
    <2>2. LivesBound(g, n, counter[scope[r]][KeySecond(stamp[r])].expire,
                     WindowStart(stamp[r]), now)
      BY <2>1 DEF BoundedLives
    <2>3. g <= Lives * Limit
      <3>1. PICK l \in 0..Lives :
              Life(l, g, n, counter[scope[r]][KeySecond(stamp[r])].expire,
                   WindowStart(stamp[r]), now)
        BY <2>2 DEF LivesBound
      <3>2. PICK m \in 0..Lives : g <= m * Limit
        <4>1. CASE n > 0
          <5>1. l + 1 \in 0..Lives /\ (l + 1) * Limit = l * Limit + Limit
            BY <3>1, <4>1, LivesType, LimitAssumption DEF Life
          <5> QED
            BY <3>1, <4>1, <5>1 DEF Life
        <4>2. CASE ~(n > 0)
          BY <3>1, <4>2 DEF Life
        <4> QED
          BY <4>1, <4>2
      <3>3. m * Limit <= Lives * Limit
        BY LivesType, TimesMonotone, LimitAssumption
      <3>4. g \in Nat /\ m * Limit \in Nat /\ Lives * Limit \in Nat
        BY GrantedFinite, LivesType, LimitAssumption
      <3> QED
        BY <3>2, <3>3, <3>4
    <2>4. Granted(r) = GrantedIn(scope[r], stamp[r])
      BY DEF Granted, GrantedIn, SameWindow, IInv, AnsweredDone
    <2> QED
      BY <2>3, <2>4
  <1> QED
    BY <1>1, <1>2, <1>3, Invariant, PTL DEF Spec
=============================================================================
