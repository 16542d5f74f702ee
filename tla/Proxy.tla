------------------------------- MODULE Proxy --------------------------------
(***************************************************************************)
(* Who the caller is: httpapi/proxy.go and originIP and requestScheme of   *)
(* inspect.go.  A request travels from a client over reverse proxies to    *)
(* the server, and the server works the client's address and scheme out of *)
(* the forwarded headers.  The address is the scope of the rate limiter    *)
(* and of the login lockout, and the scheme decides whether cookies are    *)
(* Secure.                                                                 *)
(*                                                                         *)
(* An address is what netip.Addr denotes; a header entry is an address in  *)
(* one of the forms it can be written in, blank, or not an address at all. *)
(* The reverse proxies are outside the repository: they are modelled as    *)
(* its README and compose.yaml deploy them.                                *)
(***************************************************************************)
EXTENDS Integers, Sequences, SequencesExt

CONSTANTS
    Clients,   \* the hosts that are not reverse proxies
    Proxies,   \* the reverse proxies, which report their peer truthfully
    ClientXFF,     \* the X-Forwarded-For lines a client may send
    ClientProto,   \* the X-Forwarded-Proto lines a client may send
    MaxHops,
    None

Hosts == Clients \cup Proxies
Forms == {"plain", "mapped"}       \* 192.0.2.1 and ::ffff:192.0.2.1
Addr(a) == [addr |-> a, form |-> "plain"]
Blank == [addr |-> None, form |-> "blank"]
Garbage == [addr |-> None, form |-> "garbage"]
Entries == [addr : Hosts, form : Forms] \cup {Blank, Garbage}
Schemes == {"http", "https"}

ASSUME ProxyAssumption ==
    /\ Clients \cap Proxies = {} /\ None \notin Hosts \cup Schemes /\ MaxHops \in Nat \ {0}
    /\ <<>> \in ClientXFF /\ <<>> \in ClientProto
    /\ ClientXFF \subseteq Seq(Seq(Entries))

VARIABLES
    prefixes,   \* the hosts within HTTP_TRUSTED_PROXIES
    path,       \* the hosts that have sent the request on, the server's peer last
    legs,       \* the scheme of the connection each of them sent it over
    obscured,   \* the positions of path that a proxy reported illegibly
    xff, proto, \* the header lines as they stand
    clientIP, clientScheme,   \* the context values trustedProxy sets
    served

vars == <<prefixes, path, legs, obscured, xff, proto, clientIP, clientScheme, served>>

Init ==
    /\ prefixes \in SUBSET Proxies
    /\ path = <<>> /\ legs = <<>> /\ obscured = {}
    /\ xff = <<>> /\ proto = <<>>
    /\ clientIP = Blank /\ clientScheme = None
    /\ served = FALSE

\* A client sends the request, with any headers it likes; a proxy that
\* originates one (a health probe) adds none.
Send ==
    /\ path = <<>>
    /\ \E h \in Hosts, s \in Schemes :
         /\ path' = <<h>> /\ legs' = <<s>>
         /\ xff' \in IF h \in Clients THEN ClientXFF ELSE {<<>>}
         /\ proto' \in IF h \in Clients THEN ClientProto ELSE {<<>>}
    /\ UNCHANGED <<prefixes, obscured, clientIP, clientScheme, served>>

\* A proxy adds the address of its peer to X-Forwarded-For, at the end of the
\* last line or on a line of its own; what a client wrote it may also discard.
Reports(lines, entry, peer) ==
    {Append(lines, <<entry>>)}
        \cup (IF lines = <<>> THEN {}
              ELSE {[lines EXCEPT ![Len(lines)] = Append(@, entry)]})
        \cup (IF peer \in Clients THEN {<< <<entry>> >>} ELSE {})

\* It overwrites a client's X-Forwarded-Proto; another proxy's it passes on as
\* it is, or with the scheme it was reached over added like an address.
ReportsProto(lines, scheme, peer) ==
    IF peer \in Clients \/ lines = <<>> THEN {<< <<scheme>> >>}
    ELSE {lines, Append(lines, <<scheme>>), [lines EXCEPT ![Len(lines)] = Append(@, scheme)]}

Forward(p) ==
    /\ path # <<>> /\ Len(path) < MaxHops /\ ~served
    /\ \E f \in Forms \cup {"garbage"}, s \in Schemes :
         /\ xff' \in Reports(xff, IF f = "garbage" THEN Garbage
                                  ELSE [addr |-> Last(path), form |-> f], Last(path))
         /\ obscured' = IF f = "garbage" THEN obscured \cup {Len(path)} ELSE obscured
         /\ legs' = Append(legs, s)
    /\ proto' \in ReportsProto(proto, Last(legs), Last(path))
    /\ path' = Append(path, p)
    /\ UNCHANGED <<prefixes, clientIP, clientScheme, served>>

-----------------------------------------------------------------------------
(* The server.                                                             *)

\* ParseAddr, Unmap and WithZone.
Unmap(e) == [e EXCEPT !.form = "plain"]

inAnyPrefix(ip) == ip.form = "plain" /\ ip.addr \in prefixes

\* walkXFF: the entries of all lines are visited from the last, blank ones are
\* passed over.
walkXFF(lines) == FlattenSeq(lines)

\* Mutant: an entry that does not parse is passed over.
ClientSkippingGarbage(lines) ==
    LET es == SelectSeq(walkXFF(lines), LAMBDA e : e # Garbage)
        visit[i \in 0..Len(es)] ==
            IF i = 0 THEN Blank
            ELSE IF es[i] = Blank \/ inAnyPrefix(Unmap(es[i])) THEN visit[i - 1]
            ELSE Unmap(es[i])
    IN visit[Len(es)]

\* The first entry from the right that is not a trusted hop; Blank when there
\* is none, or when an entry that does not parse comes first.
clientFromXFF(lines) ==
    LET es == walkXFF(lines)
        visit[i \in 0..Len(es)] ==
            IF i = 0 \/ es[i] = Garbage THEN Blank
            ELSE IF es[i] = Blank \/ inAnyPrefix(Unmap(es[i])) THEN visit[i - 1]
            ELSE Unmap(es[i])
    IN visit[Len(es)]

\* Mutant: the last entry counts, as in X-Forwarded-For.
forwardedProtoLast(lines) ==
    LET es == FlattenSeq(lines)
        real == {i \in DOMAIN es : es[i] # ""}
    IN IF real # {} /\ es[Max(real)] \in Schemes THEN es[Max(real)] ELSE None

\* Only the first entry counts, and only if it is a scheme.
forwardedProto(lines) ==
    LET es == FlattenSeq(lines)
        real == {i \in DOMAIN es : es[i] # ""}
    IN IF real # {} /\ es[Min(real)] \in Schemes THEN es[Min(real)] ELSE None

\* Mutant: the headers are believed whoever the peer is.
TrustsAnyone(peer) == TRUE

\* An empty list of prefixes trusts nobody.
TrustsPeer(peer) == inAnyPrefix(Unmap(Addr(peer)))

\* The trustedProxy middleware.
trustedProxy ==
    /\ path # <<>> /\ ~served
    /\ clientIP' = IF TrustsPeer(Last(path)) THEN clientFromXFF(xff) ELSE Blank
    /\ clientScheme' = IF TrustsPeer(Last(path)) THEN forwardedProto(proto) ELSE None
    /\ served' = TRUE
    /\ UNCHANGED <<prefixes, path, legs, obscured, xff, proto>>

originIP == IF clientIP # Blank THEN clientIP ELSE Addr(Last(path))

requestScheme == IF clientScheme # None THEN clientScheme ELSE Last(legs)

Finished == served /\ UNCHANGED vars

Next ==
    \/ Send
    \/ \E p \in Proxies : Forward(p)
    \/ trustedProxy
    \/ Finished

Spec == Init /\ [][Next]_vars

-----------------------------------------------------------------------------
(* Properties.                                                             *)

\* Every variable has its type; an address the server settled on is canonical.
TypeOK ==
    /\ prefixes \subseteq Proxies
    /\ path \in BoundedSeq(Hosts, MaxHops) /\ Len(legs) = Len(path)
    /\ obscured \subseteq 1..(MaxHops - 1)
    /\ xff \in Seq(Seq(Entries))
    /\ clientIP = Blank \/ clientIP.form = "plain"
    /\ clientScheme \in Schemes \cup {None}
    /\ served \in BOOLEAN

\* The hops the configuration does not vouch for.
Untrusted == {i \in DOMAIN path : path[i] \notin prefixes}

\* The last hop before the trusted proxies, when they reported legibly all the
\* way from it; the server's peer otherwise.
RealOrigin ==
    IF \E i \in Untrusted : \A j \in i..Len(path) :
          j \notin obscured /\ (j > i => j \notin Untrusted)
    THEN path[CHOOSE i \in Untrusted : \A j \in Untrusted : j <= i]
    ELSE Last(path)

\* /ip, the rate limiter and the lockout see the host that really sent the
\* request to the trusted proxies, and never an address that a client wrote
\* into a header: however many lines and blanks it sent, however the proxies
\* merge them, and in whichever form they write an address.
OriginIsReal == served => originIP = Addr(RealOrigin)

\* The scheme is the one of the connection the client opened, when the request
\* came through a trusted proxy, and of the server's own connection otherwise,
\* however many proxies have added theirs to the list.
SchemeIsClients ==
    served => requestScheme = IF path[Len(path)] \in prefixes THEN Head(legs) ELSE Last(legs)
=============================================================================
