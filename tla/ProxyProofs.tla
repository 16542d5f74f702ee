---------------------------- MODULE ProxyProofs -----------------------------
(***************************************************************************)
(* The address and the scheme that the server works out of the forwarded   *)
(* headers are the real ones, for any number of clients, proxies, hops and *)
(* header lines and any choice of trusted prefixes.                        *)
(***************************************************************************)
EXTENDS Proxy, WellFoundedInduction, TLAPS

-----------------------------------------------------------------------------
(* Recursion and induction over the natural numbers.                       *)

LEMMA LeastNumber ==
    ASSUME NEW T, T \subseteq Nat, T # {}
    PROVE  \E m \in T : \A y \in T : m <= y
  <1>1. PICK m \in T : \A y \in T : ~ (<<y, m>> \in OpToRel(<, Nat))
    BY NatLessThanWellFounded, WFMin
  <1>2. ASSUME NEW y \in T, y < m PROVE FALSE
    <2>1. <<y, m>> \in OpToRel(<, Nat)
      BY <1>2 DEF OpToRel
    <2> QED
      BY <1>1, <2>1
  <1> QED
    BY <1>2

\* What holds of the first number and is handed on holds of the last.
LEMMA Carries ==
    ASSUME NEW b \in Nat, NEW m \in Nat, b <= m, NEW T, b \in T,
           \A k \in Nat : b < k /\ k <= m /\ k - 1 \in T => k \in T
    PROVE  m \in T
  <1> DEFINE Bad == {k \in Nat : b <= k /\ k <= m /\ k \notin T}
  <1> SUFFICES ASSUME Bad # {} PROVE FALSE
    OBVIOUS
  <1>1. PICK k \in Bad : \A j \in Bad : k <= j
    <2>1. Bad \subseteq Nat
      OBVIOUS
    <2> HIDE DEF Bad
    <2> QED
      BY <2>1, LeastNumber
  <1>2. k # b /\ b < k /\ k <= m /\ k - 1 \in Nat /\ k \in Nat /\ b <= k - 1
    OBVIOUS
  <1>3. k - 1 \notin Bad
    BY <1>1, <1>2
  <1>4. k - 1 \in T
    BY <1>2, <1>3
  <1> QED
    BY <1>1, <1>2, <1>4

-----------------------------------------------------------------------------
(* The merged lines.                                                       *)

FlatStep(f, lines, i) == IF i = 1 THEN lines[i] ELSE f[i - 1] \o lines[i]
IsFlat(f, lines, n) == f = [i \in 1..n |-> FlatStep(f, lines, i)]

LEMMA FlattenIs ==
    ASSUME NEW lines, Len(lines) # 0
    PROVE  FlattenSeq(lines) = (CHOOSE f : IsFlat(f, lines, Len(lines)))[Len(lines)]
  BY DEF FlattenSeq, IsFlat, FlatStep

LEMMA FlatExists ==
    ASSUME NEW lines, NEW n \in Nat
    PROVE  \E f : IsFlat(f, lines, n)
  <1> DEFINE T == {k \in Nat : \E f : IsFlat(f, lines, k)}
  <1>1. 0 \in T
    <2>1. IsFlat([i \in 1..0 |-> 0], lines, 0)
      BY DEF IsFlat
    <2> QED
      BY <2>1
  <1>2. ASSUME NEW k \in Nat, 0 < k, k - 1 \in T PROVE k \in T
    <2>1. PICK f : IsFlat(f, lines, k - 1)
      BY <1>2
    <2> DEFINE g == [i \in 1..k |-> FlatStep(f, lines, i)]
    <2>2. \A i \in 1..(k - 1) : f[i] = FlatStep(f, lines, i)
      BY <2>1 DEF IsFlat
    <2>3. \A i \in 1..k : g[i] = FlatStep(g, lines, i)
      <3> SUFFICES ASSUME NEW i \in 1..k PROVE g[i] = FlatStep(g, lines, i)
        OBVIOUS
      <3>1. CASE i = 1
        BY <3>1 DEF FlatStep
      <3>2. CASE i # 1
        <4>1. i - 1 \in 1..(k - 1) /\ i - 1 \in 1..k
          BY <1>2, <3>2
        <4>2. g[i - 1] = f[i - 1]
          BY <2>2, <4>1
        <4> QED
          BY <4>2 DEF FlatStep
      <3> QED
        BY <3>1, <3>2
    <2>4. IsFlat(g, lines, k)
      BY <2>3 DEF IsFlat
    <2> QED
      BY <2>4
  <1>3. n \in T
    <2> HIDE DEF T
    <2> QED
      BY <1>1, <1>2, Carries
  <1> QED
    BY <1>3

\* The merge of some lines, and that it depends on those only.
Flat(lines, n) == IF n = 0 THEN <<>> ELSE (CHOOSE f : IsFlat(f, lines, n))[n]

LEMMA FlatUnfolds ==
    ASSUME NEW lines, NEW n \in Nat, NEW f, IsFlat(f, lines, n), NEW i \in 1..n
    PROVE  f[i] = FlatStep(f, lines, i)
  BY DEF IsFlat

LEMMA FlatsAgree ==
    ASSUME NEW k, NEW l, NEW m \in Nat, NEW n \in Nat, NEW f, NEW g,
           IsFlat(f, k, m), IsFlat(g, l, n),
           NEW j \in Nat, 1 <= j, j <= m, j <= n, \A i \in 1..j : k[i] = l[i]
    PROVE  f[j] = g[j]
  <1> DEFINE T == {i \in Nat : 1 <= i /\ i <= j => f[i] = g[i]}
  <1>1. 0 \in T
    OBVIOUS
  <1>2. ASSUME NEW i \in Nat, 0 < i, i <= j, i - 1 \in T PROVE i \in T
    <2>1. f[i] = FlatStep(f, k, i) /\ g[i] = FlatStep(g, l, i) /\ k[i] = l[i]
      BY <1>2, FlatUnfolds
    <2>2. CASE i = 1
      BY <2>1, <2>2 DEF FlatStep
    <2>3. CASE i # 1
      <3>1. f[i - 1] = g[i - 1]
        BY <1>2, <2>3
      <3> QED
        BY <2>1, <3>1 DEF FlatStep
    <2> QED
      BY <2>2, <2>3
  <1>3. j \in T
    <2> HIDE DEF T
    <2> QED
      BY <1>1, <1>2, Carries
  <1> QED
    BY <1>3

LEMMA FlatAgrees ==
    ASSUME NEW k, NEW l, NEW n \in Nat, \A i \in 1..n : k[i] = l[i]
    PROVE  Flat(k, n) = Flat(l, n)
  <1>1. CASE n = 0
    BY <1>1 DEF Flat
  <1>2. CASE n # 0
    <2> DEFINE f == CHOOSE h : IsFlat(h, k, n)
               g == CHOOSE h : IsFlat(h, l, n)
    <2>1. IsFlat(f, k, n) /\ IsFlat(g, l, n)
      BY FlatExists
    <2>2. Flat(k, n) = f[n] /\ Flat(l, n) = g[n]
      BY <1>2 DEF Flat
    <2> HIDE DEF f, g
    <2> QED
      BY <1>2, <2>1, <2>2, FlatsAgree
  <1> QED
    BY <1>1, <1>2

LEMMA FlatNext ==
    ASSUME NEW E, NEW lines, NEW n \in Nat, n # 0, \A i \in 1..n : lines[i] \in Seq(E)
    PROVE  Flat(lines, n) = Flat(lines, n - 1) \o lines[n]
  <1> DEFINE f == CHOOSE h : IsFlat(h, lines, n)
             g == CHOOSE h : IsFlat(h, lines, n - 1)
  <1>1. IsFlat(f, lines, n) /\ IsFlat(g, lines, n - 1)
    <2>1. n - 1 \in Nat
      OBVIOUS
    <2>2. (\E h : IsFlat(h, lines, n)) /\ (\E h : IsFlat(h, lines, n - 1))
      BY <2>1, FlatExists
    <2> QED
      BY <2>2
  <1>2. Flat(lines, n) = f[n]
    BY DEF Flat
  <1>3. n # 1 => Flat(lines, n - 1) = g[n - 1]
    BY DEF Flat
  <1>4. n = 1 => Flat(lines, n - 1) = <<>>
    BY DEF Flat
  <1> HIDE DEF f, g
  <1>5. f[n] = FlatStep(f, lines, n)
    BY <1>1, FlatUnfolds
  <1>6. CASE n = 1
    BY <1>2, <1>4, <1>5, <1>6 DEF FlatStep
  <1>7. CASE n # 1
    <2>1. f[n - 1] = g[n - 1]
      BY <1>1, <1>7, FlatsAgree
    <2> QED
      BY <1>2, <1>3, <1>5, <1>7, <2>1 DEF FlatStep
  <1> QED
    BY <1>6, <1>7

LEMMA FlatType ==
    ASSUME NEW E, NEW lines, NEW n \in Nat, \A i \in 1..n : lines[i] \in Seq(E)
    PROVE  Flat(lines, n) \in Seq(E)
  <1> DEFINE T == {i \in Nat : Flat(lines, i) \in Seq(E)}
  <1>1. 0 \in T
    BY DEF Flat
  <1>2. ASSUME NEW i \in Nat, 0 < i, i <= n, i - 1 \in T PROVE i \in T
    <2>1. i # 0 /\ \A j \in 1..i : lines[j] \in Seq(E)
      BY <1>2
    <2>2. Flat(lines, i) = Flat(lines, i - 1) \o lines[i]
      BY <2>1, FlatNext
    <2>3. Flat(lines, i - 1) \in Seq(E) /\ lines[i] \in Seq(E)
      BY <1>2, <2>1
    <2>4. Flat(lines, i) \in Seq(E)
      BY <2>2, <2>3
    <2> QED
      BY <2>4
  <1>3. n \in T
    <2> HIDE DEF T
    <2> QED
      BY <1>1, <1>2, Carries
  <1> QED
    BY <1>3

LEMMA FlattenIsFlat ==
    ASSUME NEW E, NEW lines \in Seq(Seq(E))
    PROVE  FlattenSeq(lines) = Flat(lines, Len(lines)) /\ FlattenSeq(lines) \in Seq(E)
  <1>1. CASE Len(lines) = 0
    BY <1>1 DEF FlattenSeq, Flat
  <1>2. CASE Len(lines) # 0
    <2>1. FlattenSeq(lines) = Flat(lines, Len(lines))
      BY <1>2, FlattenIs DEF Flat
    <2>2. Flat(lines, Len(lines)) \in Seq(E)
      BY FlatType
    <2> QED
      BY <2>1, <2>2
  <1> QED
    BY <1>1, <1>2

\* An entry on a line of its own, or at the end of the last line, becomes the
\* last of the merged entries.
LEMMA FlattenAppend ==
    ASSUME NEW E, NEW lines \in Seq(Seq(E)), NEW e \in E
    PROVE  FlattenSeq(Append(lines, <<e>>)) = Append(FlattenSeq(lines), e)
  <1> DEFINE more == Append(lines, <<e>>)
             n == Len(lines)
  <1>1. /\ more \in Seq(Seq(E)) /\ Len(more) = n + 1 /\ more[n + 1] = <<e>>
        /\ \A i \in 1..n : more[i] = lines[i]
    OBVIOUS
  <1> HIDE DEF more
  <1>2. FlattenSeq(more) = Flat(more, n) \o <<e>>
    <2>1. FlattenSeq(more) = Flat(more, n + 1)
      BY <1>1, FlattenIsFlat
    <2>2. \A i \in 1..(n + 1) : more[i] \in Seq(E)
      BY <1>1
    <2>3. n + 1 \in Nat /\ n + 1 # 0 /\ (n + 1) - 1 = n
      OBVIOUS
    <2> HIDE DEF n
    <2> QED
      BY <1>1, <2>1, <2>2, <2>3, FlatNext
  <1>3. Flat(more, n) = FlattenSeq(lines) /\ FlattenSeq(lines) \in Seq(E)
    <2>1. Flat(more, n) = Flat(lines, n)
      <3>1. n \in Nat /\ \A i \in 1..n : more[i] = lines[i]
        BY <1>1
      <3> HIDE DEF n
      <3> QED
        BY <3>1, FlatAgrees
    <2>2. FlattenSeq(lines) = Flat(lines, n) /\ FlattenSeq(lines) \in Seq(E)
      BY FlattenIsFlat
    <2> QED
      BY <2>1, <2>2
  <1> QED
    BY <1>2, <1>3 DEF more

LEMMA FlattenExtend ==
    ASSUME NEW E, NEW lines \in Seq(Seq(E)), lines # <<>>, NEW e \in E
    PROVE  FlattenSeq([lines EXCEPT ![Len(lines)] = Append(@, e)])
             = Append(FlattenSeq(lines), e)
  <1> DEFINE n == Len(lines)
             more == [lines EXCEPT ![n] = Append(@, e)]
  <1>1. /\ n \in Nat /\ n # 0 /\ more \in Seq(Seq(E)) /\ Len(more) = n
        /\ more[n] = Append(lines[n], e)
        /\ \A i \in 1..(n - 1) : more[i] = lines[i]
        /\ \A i \in 1..n : lines[i] \in Seq(E) /\ more[i] \in Seq(E)
    OBVIOUS
  <1> HIDE DEF more
  <1>2. /\ FlattenSeq(more) = Flat(more, n - 1) \o Append(lines[n], e)
        /\ FlattenSeq(lines) = Flat(lines, n - 1) \o lines[n]
    <2>1. Flat(more, n) = Flat(more, n - 1) \o more[n]
      BY <1>1, FlatNext
    <2>2. Flat(lines, n) = Flat(lines, n - 1) \o lines[n]
      BY <1>1, FlatNext
    <2>3. FlattenSeq(more) = Flat(more, n)
      BY <1>1, FlattenIsFlat
    <2>4. FlattenSeq(lines) = Flat(lines, n)
      BY FlattenIsFlat
    <2> QED
      BY <1>1, <2>1, <2>2, <2>3, <2>4
  <1>3. Flat(more, n - 1) = Flat(lines, n - 1) /\ Flat(lines, n - 1) \in Seq(E)
    <2>1. n - 1 \in Nat /\ \A i \in 1..(n - 1) : lines[i] \in Seq(E)
      BY <1>1
    <2>2. \A i \in 1..(n - 1) : more[i] = lines[i]
      BY <1>1
    <2> HIDE DEF n
    <2>3. Flat(more, n - 1) = Flat(lines, n - 1)
      BY <2>1, <2>2, FlatAgrees
    <2>4. Flat(lines, n - 1) \in Seq(E)
      BY <2>1, FlatType
    <2> QED
      BY <2>3, <2>4
  <1>4. lines[n] \in Seq(E)
    BY <1>1
  <1>5. \A s, t \in Seq(E) : s \o Append(t, e) = Append(s \o t, e)
    OBVIOUS
  <1>6. FlattenSeq(more) = Append(FlattenSeq(lines), e)
    BY <1>2, <1>3, <1>4, <1>5
  <1> QED
    BY <1>6 DEF more

LEMMA FlattenSingle ==
    ASSUME NEW E, NEW e \in E
    PROVE  FlattenSeq(<< <<e>> >>) = <<e>>
  <1>1. FlattenSeq(<<>>) = <<>>
    BY DEF FlattenSeq
  <1>2. Append(<<>>, <<e>>) = << <<e>> >> /\ Append(<<>>, e) = <<e>> /\ <<>> \in Seq(Seq(E))
    OBVIOUS
  <1>3. FlattenSeq(Append(<<>>, <<e>>)) = Append(FlattenSeq(<<>>), e)
    BY <1>2, FlattenAppend
  <1> QED
    BY <1>1, <1>2, <1>3

-----------------------------------------------------------------------------
(* The walk of clientFromXFF.                                              *)

VisitStep(f, es, i) ==
    IF i = 0 \/ es[i] = Garbage THEN Blank
    ELSE IF es[i] = Blank \/ inAnyPrefix(Unmap(es[i])) THEN f[i - 1]
    ELSE Unmap(es[i])
IsVisit(f, es, n) == f = [i \in 0..n |-> VisitStep(f, es, i)]

LEMMA VisitExists ==
    ASSUME NEW es, NEW n \in Nat
    PROVE  \E f : IsVisit(f, es, n)
  <1> DEFINE T == {k \in Nat : \E f : IsVisit(f, es, k)}
  <1>1. 0 \in T
    <2>1. IsVisit([i \in 0..0 |-> Blank], es, 0)
      BY DEF IsVisit, VisitStep
    <2> QED
      BY <2>1
  <1>2. ASSUME NEW k \in Nat, 0 < k, k - 1 \in T PROVE k \in T
    <2>1. PICK f : IsVisit(f, es, k - 1)
      BY <1>2
    <2> DEFINE g == [i \in 0..k |-> VisitStep(f, es, i)]
    <2>2. \A i \in 0..(k - 1) : f[i] = VisitStep(f, es, i)
      BY <2>1 DEF IsVisit
    <2>3. \A i \in 0..k : g[i] = VisitStep(g, es, i)
      <3> SUFFICES ASSUME NEW i \in 0..k PROVE g[i] = VisitStep(g, es, i)
        OBVIOUS
      <3>1. CASE i = 0
        BY <3>1 DEF VisitStep
      <3>2. CASE i # 0
        <4>1. i - 1 \in 0..(k - 1) /\ i - 1 \in 0..k
          BY <1>2, <3>2
        <4>2. g[i - 1] = f[i - 1]
          BY <2>2, <4>1
        <4> QED
          BY <4>2 DEF VisitStep
      <3> QED
        BY <3>1, <3>2
    <2>4. IsVisit(g, es, k)
      BY <2>3 DEF IsVisit
    <2> QED
      BY <2>4
  <1>3. n \in T
    <2> HIDE DEF T
    <2> QED
      BY <1>1, <1>2, Carries
  <1> QED
    BY <1>3

\* The walk stands where it began as long as every entry is passed over.
LEMMA ClientIs ==
    ASSUME NEW lines, Len(walkXFF(lines)) \in Nat
    PROVE  \E v : /\ clientFromXFF(lines) = v[Len(walkXFF(lines))]
                  /\ \A i \in 0..Len(walkXFF(lines)) : v[i] = VisitStep(v, walkXFF(lines), i)
  <1> DEFINE es == walkXFF(lines)
             v == CHOOSE f : IsVisit(f, es, Len(es))
  <1>1. clientFromXFF(lines) = v[Len(es)]
    BY DEF clientFromXFF, IsVisit, VisitStep
  <1>2. IsVisit(v, es, Len(es))
    BY VisitExists
  <1> HIDE DEF v
  <1> QED
    BY <1>1, <1>2 DEF IsVisit

LEMMA Coasts ==
    ASSUME NEW v, NEW b \in Nat, NEW m \in Nat, b <= m, NEW x, v[b] = x,
           \A k \in Nat : b < k /\ k <= m => v[k] = v[k - 1] \/ v[k] = x
    PROVE  v[m] = x
  <1> DEFINE T == {k \in Nat : v[k] = x}
  <1>1. b \in T
    OBVIOUS
  <1>2. \A k \in Nat : b < k /\ k <= m /\ k - 1 \in T => k \in T
    OBVIOUS
  <1>3. m \in T
    <2> HIDE DEF T
    <2> QED
      BY <1>1, <1>2, Carries
  <1> QED
    BY <1>3

-----------------------------------------------------------------------------
(* The inductive invariant.                                                *)

\* How a request travels: a client can only be where it starts.
Route ==
    /\ prefixes \subseteq Proxies /\ served \in BOOLEAN
    /\ path \in Seq(Hosts) /\ legs \in Seq(Schemes) /\ Len(legs) = Len(path)
    /\ \A i \in 2..Len(path) : path[i] \in Proxies
    /\ obscured \subseteq 1..(Len(path) - 1)
    /\ path = <<>> => xff = <<>> /\ proto = <<>> /\ ~served

\* What the header says of hop i.
Entry(i) == walkXFF(xff)[Len(walkXFF(xff)) - Len(path) + 1 + i]
Reported(e, i) == IF i \in obscured THEN e = Garbage ELSE e \in [addr : {path[i]}, form : Forms]

\* The last entries are the proxies' reports of all hops but the last, and if a
\* proxy made the request there are no others.
Chain ==
    /\ xff \in Seq(Seq(Entries))
    /\ path # <<>> =>
         /\ Len(walkXFF(xff)) >= Len(path) - 1
         /\ \A i \in 1..(Len(path) - 1) : Reported(Entry(i), i)
         /\ path[1] \in Proxies => Len(walkXFF(xff)) = Len(path) - 1

\* The schemes that proxies report start with s.
StartsWith(lines, s) ==
    /\ lines \in Seq(Seq(Schemes)) /\ lines # <<>>
    /\ FlattenSeq(lines) \in Seq(Schemes) /\ FlattenSeq(lines) # <<>>
    /\ FlattenSeq(lines)[1] = s

\* Behind the first proxy the first scheme is the one the client used.
Protos ==
    /\ Len(path) = 1 /\ path[1] \in Proxies => proto = <<>>
    /\ Len(path) > 1 => StartsWith(proto, legs[1])

IInv == Route /\ Chain /\ Protos /\ OriginIsReal /\ SchemeIsClients

-----------------------------------------------------------------------------
(* The walk finds the origin.                                              *)

LEMMA EntryTypes == ASSUME Chain PROVE walkXFF(xff) \in Seq(Entries)
  BY FlattenIsFlat DEF Chain, walkXFF

\* The last of the untrusted hops is what RealOrigin chooses.
LEMMA LastUntrusted ==
    ASSUME Route, NEW i \in Untrusted, \A j \in Untrusted : j <= i
    PROVE  (CHOOSE k \in Untrusted : \A j \in Untrusted : j <= k) = i
  <1>1. Untrusted \subseteq Int
    BY DEF Untrusted, Route
  <1> DEFINE c == CHOOSE k \in Untrusted : \A j \in Untrusted : j <= k
  <1>2. c \in Untrusted /\ \A j \in Untrusted : j <= c
    OBVIOUS
  <1>3. i <= c /\ c <= i /\ i \in Int /\ c \in Int
    BY <1>1, <1>2
  <1> HIDE DEF c
  <1>4. c = i
    BY <1>3
  <1> QED
    BY <1>4 DEF c

LEMMA GreatestUntrusted ==
    ASSUME Route, Untrusted # {}
    PROVE  \E i \in Untrusted : \A j \in Untrusted : j <= i
  <1> DEFINE T == {Len(path) - i : i \in Untrusted}
  <1>1. Untrusted \subseteq 1..Len(path) /\ Len(path) \in Nat
    BY DEF Route, Untrusted
  <1>2. T \subseteq Nat /\ T # {}
    <2>1. \A i \in Untrusted : Len(path) - i \in Nat
      BY <1>1
    <2> QED
      BY <2>1
  <1>3. PICK m \in T : \A y \in T : m <= y
    <2> HIDE DEF T
    <2> QED
      BY <1>2, LeastNumber
  <1>4. PICK i \in Untrusted : m = Len(path) - i
    BY <1>3
  <1>5. ASSUME NEW j \in Untrusted PROVE j <= i
    <2>1. Len(path) - j \in T
      OBVIOUS
    <2>2. Len(path) - i <= Len(path) - j /\ i \in Int /\ j \in Int
      BY <1>1, <1>3, <1>4, <2>1
    <2> HIDE DEF T
    <2> QED
      BY <1>1, <2>2
  <1> QED
    BY <1>5

\* Nobody in front of the server is trusted.
LEMMA PeerIsOrigin ==
    ASSUME Route, path # <<>>, path[Len(path)] \notin prefixes
    PROVE  RealOrigin = path[Len(path)]
  <1> DEFINE n == Len(path)
  <1>1. n \in Nat /\ n >= 1 /\ n \in Untrusted /\ \A j \in Untrusted : j <= n
    BY DEF Route, Untrusted
  <1>2. (CHOOSE k \in Untrusted : \A j \in Untrusted : j <= k) = n
    BY <1>1, LastUntrusted
  <1> QED
    BY <1>2 DEF RealOrigin, Last

\* What the walk does at the entry of a hop.
LEMMA VisitHop ==
    ASSUME Route, Chain, path # <<>>, NEW v, NEW k \in Nat, 1 <= k, k <= Len(path) - 1,
           \A i \in 0..Len(walkXFF(xff)) : v[i] = VisitStep(v, walkXFF(xff), i)
    PROVE  LET at == Len(walkXFF(xff)) - Len(path) + 1 + k
           IN  /\ at \in 1..Len(walkXFF(xff))
               /\ k \in obscured => v[at] = Blank
               /\ k \notin obscured /\ path[k] \in prefixes => v[at] = v[at - 1]
               /\ k \notin obscured /\ path[k] \notin prefixes => v[at] = Addr(path[k])
  <1> DEFINE es == walkXFF(xff)
             at == Len(es) - Len(path) + 1 + k
  <1>1. /\ es \in Seq(Entries) /\ Len(es) \in Nat /\ Len(path) \in Nat
        /\ Len(es) >= Len(path) - 1
    BY EntryTypes DEF Route, Chain
  <1>2. at \in 1..Len(es) /\ at # 0 /\ at \in 0..Len(es)
    BY <1>1
  <1>3. Reported(es[at], k)
    BY DEF Chain, Entry
  <1>4. v[at] = VisitStep(v, es, at)
    BY <1>2
  <1>5. Hosts \cap {None} = {} /\ path[k] \in Hosts
    BY ProxyAssumption DEF Route
  <1> HIDE DEF es, at
  <1>6. CASE k \in obscured
    BY <1>2, <1>3, <1>4, <1>6 DEF Reported, VisitStep, es, at
  <1>7. CASE k \notin obscured
    <2> DEFINE e == es[at]
    <2>1. e \in [addr : {path[k]}, form : Forms]
      BY <1>3, <1>7 DEF Reported
    <2>2. e # Garbage /\ e # Blank /\ Unmap(e) = Addr(path[k])
      BY <1>5, <2>1 DEF Garbage, Blank, Unmap, Addr, Forms
    <2>3. inAnyPrefix(Unmap(e)) <=> path[k] \in prefixes
      BY <2>2 DEF inAnyPrefix, Addr
    <2> QED
      BY <1>2, <1>4, <1>7, <2>2, <2>3 DEF VisitStep, es, at
  <1> QED
    BY <1>6, <1>7 DEF es, at

\* The peer is trusted, and the walk ends where RealOrigin says.
LEMMA WalkFindsOrigin ==
    ASSUME Route, Chain, path # <<>>, path[Len(path)] \in prefixes
    PROVE  (IF clientFromXFF(xff) # Blank THEN clientFromXFF(xff) ELSE Addr(path[Len(path)]))
             = Addr(RealOrigin)
  <1> DEFINE es == walkXFF(xff)
             n == Len(path)
             off == Len(es) - n + 1
  <1>1. /\ es \in Seq(Entries) /\ Len(es) \in Nat /\ n \in Nat /\ n >= 1 /\ Len(es) >= n - 1
        /\ off \in Nat /\ off + (n - 1) = Len(es) /\ n \notin Untrusted
        /\ Untrusted \subseteq 1..n
    BY EntryTypes DEF Route, Chain, Untrusted
  <1>2. PICK v : /\ clientFromXFF(xff) = v[Len(es)]
                 /\ \A i \in 0..Len(es) : v[i] = VisitStep(v, es, i)
    BY <1>1, ClientIs
  <1>3. ASSUME NEW k \in Nat, 1 <= k, k <= n - 1
        PROVE  /\ k \in obscured => v[off + k] = Blank
               /\ k \notin obscured /\ path[k] \in prefixes => v[off + k] = v[off + k - 1]
               /\ k \notin obscured /\ path[k] \notin prefixes => v[off + k] = Addr(path[k])
    BY <1>2, <1>3, VisitHop
  <1>4. \A k \in Nat : 1 <= k /\ k <= n => (k \in Untrusted <=> path[k] \notin prefixes)
    BY DEF Untrusted, Route
  <1>5. \A a : Addr(a) # Blank
    BY DEF Addr, Blank
  <1> DEFINE Legible(i) == \A j \in i..n : j \notin obscured /\ (j > i => j \notin Untrusted)
  \* From a hop b on, all hops are trusted.
  <1>6. ASSUME NEW b \in Nat, b <= n - 1, NEW x, v[off + b] = x,
               \A k \in Nat : b < k /\ k <= n - 1 =>
                   k \notin Untrusted /\ (k \in obscured => x = Blank)
        PROVE  clientFromXFF(xff) = x
    <2> DEFINE u == [k \in Nat |-> v[off + k]]
    <2>1. ASSUME NEW k \in Nat, b < k, k <= n - 1 PROVE u[k] = u[k - 1] \/ u[k] = x
      <3>1. k - 1 \in Nat /\ 1 <= k /\ off + (k - 1) = off + k - 1
        BY <1>1, <2>1
      <3>2. k \notin Untrusted /\ (k \in obscured => x = Blank) /\ path[k] \in prefixes
        BY <1>1, <1>4, <1>6, <2>1, <3>1
      <3> QED
        BY <1>3, <2>1, <3>1, <3>2
    <2>2. n - 1 \in Nat /\ u[b] = x /\ u[n - 1] = v[Len(es)]
      BY <1>1, <1>6
    <2> HIDE DEF u, n
    <2>3. u[n - 1] = x
      BY <1>6, <2>1, <2>2, Coasts
    <2> QED
      BY <1>2, <2>2, <2>3
  <1>7. CASE \E i \in Untrusted : Legible(i)
    <2>1. PICK i \in Untrusted : Legible(i)
      BY <1>7
    <2>2. i \in Nat /\ 1 <= i /\ i <= n - 1 /\ i \notin obscured /\ path[i] \notin prefixes
      BY <1>1, <1>4, <2>1
    <2>3. \A j \in Untrusted : j <= i
      BY <1>1, <2>1, <2>2
    <2>4. v[off + i] = Addr(path[i])
      BY <1>3, <2>2
    <2>5. \A k \in Nat : i < k /\ k <= n - 1 => k \notin Untrusted /\ k \notin obscured
      BY <1>1, <2>1, <2>2
    <2>6. clientFromXFF(xff) = Addr(path[i])
      BY <1>6, <2>2, <2>4, <2>5
    <2>7. RealOrigin = path[i]
      BY <1>7, <2>3, LastUntrusted DEF RealOrigin
    <2> QED
      BY <1>5, <2>6, <2>7
  <1>8. CASE ~ \E i \in Untrusted : Legible(i)
    <2>1. RealOrigin = path[n]
      BY <1>8 DEF RealOrigin, Last
    <2>2. CASE Untrusted = {}
      <3>1. path[1] \in Proxies
        BY <1>1, <1>4, <2>2 DEF Route
      <3>2. Len(es) = n - 1 /\ off = 0
        BY <1>1, <3>1 DEF Chain
      <3>3. v[0] = Blank
        BY <1>1, <1>2 DEF VisitStep
      <3>4. clientFromXFF(xff) = Blank
        BY <1>1, <1>6, <2>2, <3>2, <3>3
      <3> QED
        BY <2>1, <3>4
    <2>3. CASE Untrusted # {}
      <3>1. PICK i \in Untrusted : \A j \in Untrusted : j <= i
        BY <2>3, GreatestUntrusted
      <3>2. PICK j \in i..n : j \in obscured
        BY <1>1, <1>8, <3>1
      <3>3. j \in Nat /\ 1 <= j /\ j <= n - 1
        BY <1>1, <3>2 DEF Route
      <3>4. v[off + j] = Blank
        BY <1>3, <3>2, <3>3
      <3>5. \A k \in Nat : j < k /\ k <= n - 1 => k \notin Untrusted
        BY <1>1, <3>1, <3>2
      <3>6. clientFromXFF(xff) = Blank
        BY <1>6, <3>3, <3>4, <3>5
      <3> QED
        BY <2>1, <3>6
    <2> QED
      BY <2>2, <2>3
  <1> QED
    BY <1>7, <1>8

-----------------------------------------------------------------------------
(* The steps.                                                              *)

LEMMA NothingWalked == walkXFF(<<>>) = <<>>
  BY DEF walkXFF, FlattenSeq

LEMMA InitIInv == Init => IInv
  <1> SUFFICES ASSUME Init PROVE IInv
    OBVIOUS
  <1>1. path = <<>> /\ legs = <<>> /\ xff = <<>> /\ proto = <<>> /\ obscured = {} /\ served = FALSE
        /\ Len(path) = 0 /\ prefixes \subseteq Proxies
    BY DEF Init
  <1>2. Route
    <2>1. path \in Seq(Hosts) /\ legs \in Seq(Schemes) /\ Len(legs) = 0
      BY <1>1
    <2>2. \A i \in 2..Len(path) : FALSE
      BY <1>1
    <2> QED
      BY <1>1, <2>1, <2>2 DEF Route
  <1>3. Chain
    <2>1. xff \in Seq(Seq(Entries))
      BY <1>1
    <2> QED
      BY <1>1, <2>1 DEF Chain
  <1>4. Protos
    BY <1>1 DEF Protos
  <1> QED
    BY <1>1, <1>2, <1>3, <1>4 DEF IInv, OriginIsReal, SchemeIsClients

LEMMA SendStep == ASSUME IInv, Send PROVE IInv'
  <1>1. PICK h \in Hosts, s \in Schemes :
            /\ path' = <<h>> /\ legs' = <<s>>
            /\ xff' \in IF h \in Clients THEN ClientXFF ELSE {<<>>}
            /\ proto' \in IF h \in Clients THEN ClientProto ELSE {<<>>}
    BY DEF Send
  <1>2. path = <<>> /\ ~served /\ UNCHANGED <<prefixes, obscured, served>>
    BY DEF Send, IInv, Route
  <1>3. Len(path) = 0 /\ Len(path') = 1 /\ path'[1] = h /\ Len(legs') = 1
    BY <1>1, <1>2
  <1>4. Route'
    <2>1. obscured = {}
      BY <1>3 DEF IInv, Route
    <2>2. path' \in Seq(Hosts) /\ legs' \in Seq(Schemes)
      BY <1>1
    <2>3. path' # <<>>
      BY <1>3
    <2> QED
      BY <1>2, <1>3, <2>1, <2>2, <2>3 DEF IInv, Route
  <1>5. xff' \in Seq(Seq(Entries))
    BY <1>1, ProxyAssumption
  <1>6. walkXFF(xff') \in Seq(Entries)
    BY <1>5, FlattenIsFlat DEF walkXFF
  <1>7. h \in Proxies => xff' = <<>> /\ proto' = <<>>
    BY <1>1, ProxyAssumption
  <1>8. Chain'
    <2>1. Len(walkXFF(xff')) \in Nat
      BY <1>6
    <2>2. path'[1] \in Proxies => Len(walkXFF(xff')) = 0
      BY <1>3, <1>7, NothingWalked
    <2>3. \A i \in 1..(Len(path') - 1) : FALSE
      BY <1>3
    <2> QED
      BY <1>3, <1>5, <2>1, <2>2, <2>3 DEF Chain
  <1>9. Protos'
    BY <1>3, <1>7 DEF Protos
  <1> QED
    BY <1>2, <1>4, <1>8, <1>9 DEF IInv, OriginIsReal, SchemeIsClients

\* A proxy's report is the last entry afterwards, and the only one if the proxy
\* has discarded what a client wrote.
LEMMA ReportAdds ==
    ASSUME NEW lines \in Seq(Seq(Entries)), NEW e \in Entries, NEW peer,
           NEW more \in Reports(lines, e, peer)
    PROVE  /\ more \in Seq(Seq(Entries))
           /\ \/ walkXFF(more) = Append(walkXFF(lines), e)
              \/ peer \in Clients /\ walkXFF(more) = <<e>>
  <1>1. CASE more = Append(lines, <<e>>)
    <2>1. more \in Seq(Seq(Entries))
      BY <1>1
    <2> QED
      BY <1>1, <2>1, FlattenAppend DEF walkXFF
  <1>2. CASE lines # <<>> /\ more = [lines EXCEPT ![Len(lines)] = Append(@, e)]
    <2>1. more \in Seq(Seq(Entries))
      BY <1>2
    <2> QED
      BY <1>2, <2>1, FlattenExtend DEF walkXFF
  <1>3. CASE peer \in Clients /\ more = << <<e>> >>
    <2>1. more \in Seq(Seq(Entries))
      BY <1>3
    <2>2. walkXFF(more) = <<e>>
      BY <1>3, FlattenSingle DEF walkXFF
    <2> QED
      BY <1>3, <2>1, <2>2
  <1> QED
    BY <1>1, <1>2, <1>3 DEF Reports

\* What a proxy adds to X-Forwarded-Proto does not come first.
LEMMA SchemeAdds ==
    ASSUME NEW lines, NEW s \in Schemes, NEW first, NEW peer, peer \notin Clients,
           StartsWith(lines, first), NEW more \in ReportsProto(lines, s, peer)
    PROVE  StartsWith(more, first)
  <1>1. /\ lines \in Seq(Seq(Schemes)) /\ lines # <<>>
        /\ FlattenSeq(lines) \in Seq(Schemes) /\ FlattenSeq(lines) # <<>>
        /\ FlattenSeq(lines)[1] = first
    BY DEF StartsWith
  <1> DEFINE es == FlattenSeq(lines)
  <1>2. ASSUME more \in Seq(Seq(Schemes)), more # <<>>, FlattenSeq(more) = Append(es, s)
        PROVE  StartsWith(more, first)
    <2>1. es \in Seq(Schemes) /\ es # <<>> /\ es[1] = first
      BY <1>1
    <2> HIDE DEF es
    <2>2. Append(es, s) \in Seq(Schemes) /\ Append(es, s) # <<>> /\ Append(es, s)[1] = first
      BY <2>1
    <2> QED
      BY <1>2, <2>2 DEF StartsWith
  <1>3. CASE more = lines
    BY <1>3
  <1>4. CASE more = Append(lines, <<s>>)
    <2>1. more \in Seq(Seq(Schemes)) /\ Len(more) = Len(lines) + 1 /\ Len(lines) \in Nat
      BY <1>1, <1>4
    <2>2. FlattenSeq(more) = Append(es, s)
      BY <1>1, <1>4, FlattenAppend
    <2>3. more # <<>>
      BY <2>1
    <2> QED
      BY <1>2, <2>1, <2>2, <2>3
  <1>5. CASE more = [lines EXCEPT ![Len(lines)] = Append(@, s)]
    <2>1. more \in Seq(Seq(Schemes)) /\ more # <<>>
      BY <1>1, <1>5
    <2>2. FlattenSeq(more) = Append(es, s)
      BY <1>1, <1>5, FlattenExtend
    <2> QED
      BY <1>2, <2>1, <2>2
  <1> QED
    BY <1>1, <1>3, <1>4, <1>5 DEF ReportsProto

LEMMA ForwardStep == ASSUME IInv, NEW p \in Proxies, Forward(p) PROVE IInv'
  <1> DEFINE n == Len(path)
             es == walkXFF(xff)
  <1>1. PICK f \in Forms \cup {"garbage"}, s \in Schemes :
            /\ xff' \in Reports(xff, IF f = "garbage" THEN Garbage
                                     ELSE [addr |-> Last(path), form |-> f], Last(path))
            /\ obscured' = IF f = "garbage" THEN obscured \cup {Len(path)} ELSE obscured
            /\ legs' = Append(legs, s)
    BY DEF Forward
  <1> DEFINE e == IF f = "garbage" THEN Garbage ELSE [addr |-> path[n], form |-> f]
  <1>2. /\ path # <<>> /\ ~served /\ path' = Append(path, p)
        /\ UNCHANGED <<prefixes, served>>
        /\ proto' \in ReportsProto(proto, legs[n], path[n])
    BY DEF Forward, Last, IInv, Route
  <1>3. /\ n \in Nat /\ n >= 1 /\ path \in Seq(Hosts) /\ legs \in Seq(Schemes) /\ Len(legs) = n
        /\ path[n] \in Hosts /\ obscured \subseteq 1..(n - 1) /\ p \in Hosts
        /\ \A i \in 2..n : path[i] \in Proxies
    BY <1>2 DEF IInv, Route, Hosts
  <1>4. /\ path' \in Seq(Hosts) /\ Len(path') = n + 1 /\ path'[n + 1] = p
        /\ \A i \in 1..n : path'[i] = path[i]
        /\ legs' \in Seq(Schemes) /\ Len(legs') = n + 1 /\ legs'[1] = legs[1]
    BY <1>1, <1>2, <1>3
  <1>5. path[n] \in Clients => n = 1
    BY <1>3, ProxyAssumption
  <1>6. e \in Entries /\ xff' \in Reports(xff, e, path[n])
    BY <1>1, <1>3 DEF Last, Entries, Garbage
  <1> HIDE DEF e
  <1> DEFINE w == walkXFF(xff')
  <1>7. /\ xff' \in Seq(Seq(Entries))
        /\ w = Append(es, e) \/ (n = 1 /\ path[1] \in Clients /\ w = <<e>>)
    BY <1>5, <1>6, ReportAdds DEF IInv, Chain
  <1>8. /\ es \in Seq(Entries) /\ Len(es) >= n - 1
        /\ path[1] \in Proxies => Len(es) = n - 1
    BY <1>2, EntryTypes DEF IInv, Chain
  <1>9. Route'
    <2>1. obscured' \subseteq 1..((n + 1) - 1)
      <3>1. n \in 1..((n + 1) - 1) /\ 1..(n - 1) \subseteq 1..((n + 1) - 1)
        BY <1>3
      <3>2. obscured' \subseteq obscured \cup {n}
        BY <1>1
      <3> QED
        BY <1>3, <3>1, <3>2
    <2>2. \A i \in 2..(n + 1) : path'[i] \in Proxies
      BY <1>3, <1>4
    <2>3. path' # <<>>
      BY <1>3, <1>4
    <2> QED
      BY <1>2, <1>4, <2>1, <2>2, <2>3 DEF IInv, Route
  <1> DEFINE x(i) == w[Len(w) - n + i]
  <1>10. ASSUME NEW i \in 1..n
         PROVE  IF i \in obscured' THEN x(i) = Garbage
                ELSE x(i) \in [addr : {path'[i]}, form : Forms]
    <2>1. CASE i = n
      <3>1. x(i) = e
        <4>1. Len(w) - n + n = Len(w)
          BY <1>7, <1>8, <1>3
        <4>2. w[Len(w)] = e
          BY <1>7, <1>8
        <4> QED
          BY <2>1, <4>1, <4>2
      <3>2. IF n \in obscured' THEN e = Garbage ELSE e \in [addr : {path[n]}, form : Forms]
        BY <1>1, <1>3 DEF e
      <3>3. path'[i] = path[n]
        BY <1>4, <2>1
      <3> HIDE DEF x
      <3> QED
        BY <2>1, <3>1, <3>2, <3>3
    <2>2. CASE i # n
      <3>1. i \in 1..(n - 1)
        BY <1>3, <2>2
      <3>2. w = Append(es, e)
        <4>1. n # 1
          BY <1>3, <3>1
        <4> HIDE DEF n, w, es
        <4> QED
          BY <1>7, <4>1
      <3>3. x(i) = Entry(i)
        <4>1. Len(w) = Len(es) + 1
          BY <1>8, <3>2
        <4>2. Len(w) - n + i = Len(es) - n + 1 + i /\ Len(es) - n + 1 + i \in 1..Len(es)
          BY <1>3, <1>8, <3>1, <4>1
        <4>3. \A k \in 1..Len(es) : w[k] = es[k]
          BY <1>8, <3>2
        <4> QED
          BY <4>2, <4>3 DEF Entry
      <3>4. Reported(Entry(i), i)
        BY <1>2, <3>1 DEF IInv, Chain
      <3>5. (i \in obscured' <=> i \in obscured) /\ path'[i] = path[i]
        BY <1>1, <1>3, <1>4, <2>2
      <3> HIDE DEF x
      <3> QED
        BY <3>3, <3>4, <3>5 DEF Reported
    <2> QED
      BY <2>1, <2>2
  <1>11. Chain'
    <2>1. Len(w) >= n /\ Len(w) \in Nat
      <3>1. CASE w = Append(es, e)
        BY <1>3, <1>8, <3>1
      <3>2. CASE n = 1 /\ w = <<e>>
        BY <3>2
      <3> QED
        BY <1>7, <3>1, <3>2
    <2>2. path'[1] \in Proxies => Len(w) = n
      <3> SUFFICES ASSUME path'[1] \in Proxies PROVE Len(w) = n
        OBVIOUS
      <3>1. path[1] \in Proxies /\ path[1] \notin Clients
        BY <1>3, <1>4, ProxyAssumption
      <3>2. w = Append(es, e) /\ Len(es) = n - 1
        BY <1>7, <1>8, <3>1
      <3> QED
        BY <1>3, <1>8, <3>2
    <2>3. ASSUME NEW i \in 1..((n + 1) - 1) PROVE Reported(Entry(i), i)'
      <3>1. i \in 1..n /\ Len(w) - (n + 1) + 1 + i = Len(w) - n + i
        BY <1>3, <2>1
      <3>2. Entry(i)' = x(i)
        BY <1>4, <3>1 DEF Entry, walkXFF
      <3>3. IF i \in obscured' THEN x(i) = Garbage
            ELSE x(i) \in [addr : {path'[i]}, form : Forms]
        BY <1>10, <3>1
      <3> HIDE DEF x
      <3> QED
        BY <3>2, <3>3 DEF Reported, Garbage, Forms
    <2> QED
      BY <1>3, <1>4, <1>7, <2>1, <2>2, <2>3 DEF Chain
  <1>12. Protos'
    <2>1. CASE n = 1
      <3>1. path[1] \in Clients \/ proto = <<>>
        BY <1>3, <2>1 DEF IInv, Protos, Hosts
      <3>2. proto' = << <<legs[1]>> >> /\ legs[1] \in Schemes
        BY <1>2, <1>3, <2>1, <3>1 DEF ReportsProto
      <3>3. FlattenSeq(proto') = <<legs[1]>>
        BY <3>2, FlattenSingle
      <3>4. /\ proto' \in Seq(Seq(Schemes)) /\ proto' # <<>>
            /\ <<legs[1]>> \in Seq(Schemes) /\ <<legs[1]>> # <<>> /\ <<legs[1]>>[1] = legs[1]
        BY <3>2
      <3>5. StartsWith(proto', legs[1])
        BY <3>3, <3>4 DEF StartsWith
      <3> QED
        BY <1>3, <1>4, <2>1, <3>5 DEF Protos, StartsWith
    <2>2. CASE n # 1
      <3>1. path[n] \notin Clients /\ StartsWith(proto, legs[1]) /\ legs[n] \in Schemes
        BY <1>3, <1>5, <2>2 DEF IInv, Protos
      <3>2. StartsWith(proto', legs[1])
        BY <1>2, <3>1, SchemeAdds
      <3> QED
        BY <1>3, <1>4, <2>2, <3>2 DEF Protos, StartsWith
    <2> QED
      BY <2>1, <2>2
  <1> QED
    BY <1>2, <1>9, <1>11, <1>12 DEF IInv, OriginIsReal, SchemeIsClients

\* X-Forwarded-Proto as the proxies leave it.
LEMMA SchemeRead ==
    /\ forwardedProto(<<>>) = None
    /\ \A lines, s : StartsWith(lines, s) => forwardedProto(lines) = s
  <1>1. forwardedProto(<<>>) = None
    <2>1. FlattenSeq(<<>>) = <<>>
      BY DEF FlattenSeq
    <2>2. {i \in DOMAIN <<>> : <<>>[i] # ""} = {}
      OBVIOUS
    <2> QED
      BY <2>1, <2>2 DEF forwardedProto
  <1>2. ASSUME NEW lines, NEW s, StartsWith(lines, s) PROVE forwardedProto(lines) = s
    <2> DEFINE es == FlattenSeq(lines)
               real == {i \in DOMAIN es : es[i] # ""}
    <2>1. es \in Seq(Schemes) /\ es # <<>> /\ es[1] = s
      BY <1>2 DEF StartsWith
    <2>2. real = 1..Len(es) /\ Len(es) \in Nat /\ Len(es) >= 1 /\ s \in Schemes
      <3> HIDE DEF es
      <3>1. DOMAIN es = 1..Len(es) /\ Len(es) \in Nat /\ Len(es) >= 1
        BY <2>1
      <3>2. \A i \in 1..Len(es) : es[i] \in Schemes
        BY <2>1
      <3>3. "" \notin Schemes
        BY DEF Schemes
      <3>4. s \in Schemes
        BY <2>1, <3>1, <3>2
      <3>5. real = 1..Len(es)
        BY <3>1, <3>2, <3>3
      <3> QED
        BY <3>1, <3>4, <3>5
    <2>3. real # {} /\ Min(real) = 1
      <3> HIDE DEF real
      <3>1. 1 \in real /\ \A i \in real : i \in Nat /\ 1 <= i
        BY <2>2
      <3> QED
        BY <3>1 DEF Min
    <2> QED
      BY <2>1, <2>2, <2>3 DEF forwardedProto
  <1> QED
    BY <1>1, <1>2

LEMMA ServeStep == ASSUME IInv, trustedProxy, None \notin Schemes PROVE IInv'
  <1> DEFINE n == Len(path)
  <1>1. /\ path # <<>> /\ served' /\ UNCHANGED <<prefixes, path, legs, obscured, xff, proto>>
        /\ clientIP' = IF path[n] \in prefixes THEN clientFromXFF(xff) ELSE Blank
        /\ clientScheme' = IF path[n] \in prefixes THEN forwardedProto(proto) ELSE None
    BY DEF trustedProxy, TrustsPeer, inAnyPrefix, Unmap, Addr, Last
  <1>2. Route' /\ Chain' /\ Protos'
    BY <1>1 DEF trustedProxy, IInv, Route, Chain, Protos, StartsWith, Entry, Reported, walkXFF, Garbage
  <1>3. RealOrigin' = RealOrigin
    BY <1>1 DEF RealOrigin, Untrusted
  <1>4. originIP' = Addr(RealOrigin)
    <2>1. originIP' = IF clientIP' # Blank THEN clientIP' ELSE Addr(path[n])
      BY <1>1 DEF originIP, Last, Blank, Addr
    <2>2. CASE path[n] \in prefixes
      BY <1>1, <2>1, <2>2, WalkFindsOrigin DEF IInv
    <2>3. CASE path[n] \notin prefixes
      BY <1>1, <2>1, <2>3, PeerIsOrigin DEF IInv
    <2> QED
      BY <2>2, <2>3
  <1>5. OriginIsReal'
    BY <1>3, <1>4 DEF OriginIsReal, Addr
  <1>6. SchemeIsClients'
    <2>1. n \in Nat /\ n >= 1 /\ Len(legs) = n /\ legs \in Seq(Schemes) /\ legs[1] \in Schemes
      BY <1>1 DEF IInv, Route
    <2>2. requestScheme' = IF clientScheme' # None THEN clientScheme' ELSE legs[n]
      BY <1>1, <2>1 DEF requestScheme, Last
    <2>3. CASE path[n] \notin prefixes
      BY <1>1, <2>1, <2>2, <2>3 DEF SchemeIsClients, Last
    <2>4. CASE path[n] \in prefixes
      <3>1. clientScheme' = forwardedProto(proto) /\ Head(legs) = legs[1]
        BY <1>1, <2>1, <2>4
      <3>2. CASE n = 1
        <4>1. proto = <<>>
          BY <2>4, <3>2 DEF IInv, Route, Protos
        <4> QED
          BY <1>1, <2>1, <2>2, <2>4, <3>1, <3>2, <4>1, SchemeRead DEF SchemeIsClients
      <3>3. CASE n # 1
        <4>1. StartsWith(proto, legs[1])
          BY <2>1, <3>3 DEF IInv, Protos
        <4>2. clientScheme' = legs[1]
          BY <2>1, <3>1, <4>1, SchemeRead
        <4> QED
          BY <1>1, <2>1, <2>2, <2>4, <3>1, <4>2 DEF SchemeIsClients
      <3> QED
        BY <3>2, <3>3
    <2> QED
      BY <2>3, <2>4
  <1> QED
    BY <1>2, <1>5, <1>6 DEF IInv

LEMMA Invariant == Spec => []IInv
  <1>1. IInv /\ [Next]_vars => IInv'
    <2> SUFFICES ASSUME IInv, [Next]_vars PROVE IInv'
      OBVIOUS
    <2>1. CASE UNCHANGED vars
      BY <2>1 DEF vars, IInv, Route, Chain, Protos, StartsWith, Entry, Reported, walkXFF, Garbage, Blank,
                  OriginIsReal, SchemeIsClients, originIP, requestScheme, RealOrigin, Untrusted,
                  Addr, Last
    <2> QED
      BY <2>1, SendStep, ForwardStep, ServeStep, ProxyAssumption DEF Next, Finished
  <1> QED
    BY <1>1, InitIInv, PTL DEF Spec

\* GET /ip, the rate limiter and the lockout see the host that really sent the
\* request to the trusted proxies, however long the chain and whatever the
\* client wrote into X-Forwarded-For.
THEOREM OriginResolved == Spec => []OriginIsReal
  BY Invariant, PTL DEF IInv

\* The scheme that decides whether cookies are Secure is that of the client's
\* own connection behind a trusted proxy, and of the server's otherwise.
THEOREM SchemeResolved == Spec => []SchemeIsClients
  BY Invariant, PTL DEF IInv

\* The rest of the types.
Bounds ==
    /\ Len(path) <= MaxHops
    /\ clientIP = Blank \/ clientIP.form = "plain"
    /\ clientScheme \in Schemes \cup {None}

\* Every variable has its type; an address the walk has settled on is canonical,
\* in whichever form it was written.
THEOREM TypesHold == Spec => []TypeOK
  <1>1. Init => Bounds
    BY ProxyAssumption DEF Init, Bounds
  <1>2. IInv /\ Bounds /\ [Next]_vars => Bounds'
    <2> SUFFICES ASSUME IInv, Bounds, [Next]_vars PROVE Bounds'
      OBVIOUS
    <2>1. CASE Send
      <3>1. Len(path') = 1 /\ 1 <= MaxHops
        BY <2>1, ProxyAssumption DEF Send
      <3> QED
        BY <2>1, <3>1 DEF Send, Bounds, Blank
    <2>2. ASSUME NEW p \in Proxies, Forward(p) PROVE Bounds'
      <3>1. Len(path) < MaxHops /\ path' = Append(path, p) /\ UNCHANGED <<clientIP, clientScheme>>
        BY <2>2 DEF Forward
      <3>2. Len(path') = Len(path) + 1 /\ Len(path) \in Nat
        BY <3>1 DEF IInv, Route
      <3> QED
        BY <3>1, <3>2, ProxyAssumption DEF Bounds, Blank
    <2>3. CASE trustedProxy
      <3>1. path' = path /\ path # <<>>
        BY <2>3 DEF trustedProxy
      <3>2. clientScheme' \in Schemes \cup {None}
        BY <2>3 DEF trustedProxy, forwardedProto
      <3>3. clientIP' = Blank \/ clientIP'.form = "plain"
        <4>1. CASE path[Len(path)] \in prefixes
          <5>1. clientFromXFF(xff) = Blank \/ clientFromXFF(xff) = Addr(RealOrigin)
            BY <3>1, <4>1, WalkFindsOrigin DEF IInv
          <5>2. clientIP' \in {clientFromXFF(xff), Blank}
            BY <2>3 DEF trustedProxy
          <5> QED
            BY <5>1, <5>2 DEF Addr
        <4>2. CASE path[Len(path)] \notin prefixes
          BY <2>3, <4>2 DEF trustedProxy, TrustsPeer, inAnyPrefix, Unmap, Addr, Last
        <4> QED
          BY <4>1, <4>2
      <3> QED
        BY <3>1, <3>2, <3>3 DEF Bounds, Blank
    <2>4. CASE UNCHANGED vars
      BY <2>4 DEF vars, Bounds, Blank
    <2> QED
      BY <2>1, <2>2, <2>3, <2>4 DEF Next, Finished
  <1>3. IInv /\ Bounds => TypeOK
    <2> SUFFICES ASSUME IInv, Bounds PROVE TypeOK
      OBVIOUS
    <2>1. path \in Seq(Hosts) /\ Len(path) \in 0..MaxHops /\ MaxHops \in Nat
      BY ProxyAssumption DEF IInv, Route, Bounds
    <2>2. path \in BoundedSeq(Hosts, MaxHops)
      <3>1. path \in [1..Len(path) -> Hosts]
        BY <2>1
      <3> QED
        BY <2>1, <3>1 DEF BoundedSeq, SeqOf
    <2>3. obscured \subseteq 1..(MaxHops - 1)
      <3>1. 1..(Len(path) - 1) \subseteq 1..(MaxHops - 1)
        BY <2>1
      <3> QED
        BY <3>1 DEF IInv, Route
    <2> QED
      BY <2>2, <2>3 DEF TypeOK, IInv, Route, Chain, Bounds
  <1> QED
    BY <1>1, <1>2, <1>3, Invariant, PTL DEF Spec
=============================================================================
