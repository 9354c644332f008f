------------------------------ MODULE Admission ------------------------------
(***************************************************************************)
(* What the admission agent makes of a request (internal/runtime/          *)
(* admission/agent.go): who the client is, whether its proxies are         *)
(* trusted, and which of its credentials the endpoint takes; and the       *)
(* caller that the cache key is made of (internal/runtime/helpers.go).     *)
(*                                                                         *)
(* An endpoint is a record:                                                *)
(*   required     whether a credential has to be presented                 *)
(*   schemes, headers, queries, none   the credentials it allows           *)
(*   trusted, development              its proxy policy                    *)
(* A request is a record:                                                  *)
(*   peer                     the address the connection comes from        *)
(*   forwarded, forwardedFor  the chain each of the two headers tells,     *)
(*                            the client first, then the proxies           *)
(*   proto                    whether another X-Forwarded header is there  *)
(*   authorization, headers, queries   where credentials may be            *)
(* Names of headers are taken without their case, lists as sanitized.      *)
(***************************************************************************)
EXTENDS Naturals, Sequences

CONSTANTS
  Addrs,         \* IP addresses
  Secrets,       \* what credentials are told apart by
  HeaderNames, QueryNames,
  Absent,        \* the request or the configuration does not have it
  Blank,         \* it is there, but nothing that can be used is in it
  Malformed,     \* it does not parse
  NoKey          \* verdicts on the request are not cached

ASSUME SentinelsApart ==
  /\ {Absent, Blank} \intersect Secrets = {}
  /\ Malformed \notin Addrs

Schemes == {"basic", "bearer"}

Chains == Seq(Addrs) \ {<<>>}

\* An Authorization header: a Blank secret is no token, or no user and password.
Authorizations == [scheme : Schemes \union {"other"}, secret : Secrets \union {Blank}]

Asks ==
  [peer : Addrs \union {Malformed},
   forwarded : Chains \union {Absent, Malformed},
   forwardedFor : Chains \union {Absent, Malformed},
   proto : BOOLEAN,
   authorization : Authorizations \union {Absent},
   headers : [HeaderNames -> Secrets \union {Absent}],
   queries : [QueryNames -> Secrets \union {Absent, Blank}]]

Elements(s) == {s[i] : i \in DOMAIN s}

-----------------------------------------------------------------------------
(* Proxies.                                                                *)

\* Either header makes the request one that comes through proxies.
ViaProxy(in) == in.forwarded # Absent \/ in.forwardedFor # Absent

\* prepareForwardedMetadata: what is there parses, and the two agree.
MetadataHolds(in) ==
  /\ Malformed \notin {in.forwarded, in.forwardedFor}
  /\ in.forwarded # Absent /\ in.forwardedFor # Absent => in.forwarded = in.forwardedFor

ProxyChain(in) == IF in.forwarded # Absent THEN in.forwarded ELSE in.forwardedFor

\* forwardedChainTrusted: every hop behind the client.
HopsTrusted(ep, chain) == \A i \in 2..Len(chain) : chain[i] \in ep.trusted

\* Mutant: only the peer has to be trusted.
PeerVouches(ep, in) == MetadataHolds(in) /\ in.peer \in ep.trusted

Vouched(ep, in) ==
  /\ MetadataHolds(in)
  /\ HopsTrusted(ep, ProxyChain(in))
  /\ in.peer \in ep.trusted

\* handleUntrustedProxy refuses the request, or in development only the headers.
ProxyRejected(ep, in) ==
  ViaProxy(in) /\ (in.peer = Malformed \/ (~Vouched(ep, in) /\ ~ep.development))

ProxyStripped(ep, in) ==
  ViaProxy(in) /\ in.peer # Malformed /\ ~Vouched(ep, in) /\ ep.development

Client(ep, in) ==
  IF ViaProxy(in) /\ in.peer # Malformed /\ Vouched(ep, in)
    THEN ProxyChain(in)[1] ELSE in.peer

NoProxyHeaders == [forwarded |-> Absent, forwardedFor |-> Absent, proto |-> FALSE]

\* The X-Forwarded and Forwarded headers left on the request.
ProxyHeaders(ep, in) ==
  IF ProxyStripped(ep, in) THEN NoProxyHeaders
  ELSE [forwarded |-> in.forwarded, forwardedFor |-> in.forwardedFor, proto |-> in.proto]

-----------------------------------------------------------------------------
(* Credentials.                                                            *)

Credential(kind, name, value) == [kind |-> kind, name |-> name, value |-> value]

CredentialsOf ==
  [kind : Schemes \union {"header", "query", "none"},
   name : HeaderNames \union QueryNames \union {Absent},
   value : Secrets \union {Absent}]

FromAuthorization(ep, in) ==
  {Credential(s, Absent, in.authorization.secret) : s \in
     {t \in ep.schemes : /\ in.authorization # Absent
                         /\ in.authorization.scheme = t
                         /\ in.authorization.secret # Blank}}

FromHeaders(ep, in) ==
  {Credential("header", n, in.headers[n]) : n \in
     {m \in Elements(ep.headers) : in.headers[m] # Absent}}

\* Mutant: a blank parameter is a credential.
FromAnyQuery(ep, in) ==
  {Credential("query", n, in.queries[n]) : n \in
     {m \in Elements(ep.queries) : in.queries[m] # Absent}}

FromQueries(ep, in) ==
  {Credential("query", n, in.queries[n]) : n \in
     {m \in Elements(ep.queries) : in.queries[m] \in Secrets}}

Anonymous(ep) == IF ep.none THEN {Credential("none", Absent, Absent)} ELSE {}

\* collectCredentials
Collected(ep, in) ==
  FromAuthorization(ep, in) \union FromHeaders(ep, in) \union FromQueries(ep, in)
    \union Anonymous(ep)

-----------------------------------------------------------------------------
(* The caller in the cache key: the first source that holds anything, the  *)
(* peer if none does.  The Authorization header counts as it stands, a     *)
(* query parameter even if it is blank.                                    *)

Source(kind, name, value) == [kind |-> kind, name |-> name, value |-> value]

AuthorizationCounts(ep, in) == ep.schemes # {} /\ in.authorization # Absent

\* The positions of the names that the request has a value for.
Held(names, values) == {i \in DOMAIN names : values[names[i]] # Absent}

FirstHeld(names, values) ==
  names[CHOOSE i \in Held(names, values) : \A j \in Held(names, values) : i <= j]

\* Mutant: query parameters are not looked at.
ExtractedButQuery(ep, in) ==
  IF AuthorizationCounts(ep, in)
    THEN Source("auth", in.authorization.scheme, in.authorization.secret)
  ELSE IF Held(ep.headers, in.headers) # {}
    THEN LET n == FirstHeld(ep.headers, in.headers) IN Source("header", n, in.headers[n])
  ELSE Source("ip", Absent, in.peer)

\* extractCredential
Extracted(ep, in) ==
  IF AuthorizationCounts(ep, in)
    THEN Source("auth", in.authorization.scheme, in.authorization.secret)
  ELSE IF Held(ep.headers, in.headers) # {}
    THEN LET n == FirstHeld(ep.headers, in.headers) IN Source("header", n, in.headers[n])
  ELSE IF Held(ep.queries, in.queries) # {}
    THEN LET n == FirstHeld(ep.queries, in.queries) IN Source("query", n, in.queries[n])
  ELSE Source("ip", Absent, in.peer)

\* deriveCacheKey and cacheKeyFromRequest, without the endpoint and the path.
CallerKey(ep, in) == IF ep.none THEN NoKey ELSE Extracted(ep, in)
=============================================================================
