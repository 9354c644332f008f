------------------------ MODULE RequestPipelineProofs ------------------------
(***************************************************************************)
(* RequestPipeline's type invariant and its safety properties, for any     *)
(* endpoints, requests and backends.                                       *)
(***************************************************************************)
EXTENDS RequestPipeline, FiniteSetTheorems, TLAPS

\* A sequence grows at its end only.
LEMMA AppendKeeps ==
  ASSUME NEW S, NEW s \in Seq(S), NEW x \in S
  PROVE  /\ Append(s, x) \in Seq(S)
         /\ Len(Append(s, x)) = Len(s) + 1
         /\ Append(s, x)[Len(s) + 1] = x
         /\ \A i \in 1..Len(s) : Append(s, x)[i] = s[i]
         /\ DOMAIN Append(s, x) = 1..(Len(s) + 1)
         /\ Append(s, x) # <<>>
  OBVIOUS

\* A sequence's length, domain and elements.
LEMMA SequenceType ==
  ASSUME NEW S, NEW s \in Seq(S)
  PROVE  Len(s) \in Nat /\ DOMAIN s = 1..Len(s) /\ \A i \in DOMAIN s : s[i] \in S
  OBVIOUS

\* The empty sequence is one over any set.
LEMMA EmptySequenceType == \A S : <<>> \in Seq(S) /\ Len(<<>>) = 0 /\ DOMAIN <<>> = {}
  OBVIOUS

\* A set of numbers has a least one.
LEMMA LeastNumber ==
  ASSUME NEW S, S \subseteq Nat, S # {}
  PROVE  \E i \in S : \A j \in S : i <= j
<1> DEFINE Below(i) == {j \in S : j < i}
           Belows == {Below(i) : i \in S}
<1>1. \A j \in S : j \in Nat
  OBVIOUS
<1>2. \A i \in S : Below(i) \in FiniteSubsetsOf(S)
  <2> TAKE i \in S
  <2>1. IsFiniteSet(0..i)
    BY FS_Interval
  <2>2. Below(i) \subseteq 0..i /\ Below(i) \subseteq S
    <3> SUFFICES ASSUME NEW j \in S, j < i PROVE j \in 0..i
      OBVIOUS
    <3> QED BY <1>1
  <2>3. IsFiniteSet(Below(i))
    BY <2>1, <2>2, FS_Subset
  <2> QED BY <2>2, <2>3 DEF FiniteSubsetsOf
<1>3. Belows \subseteq FiniteSubsetsOf(S) /\ Belows # {}
  BY <1>2
<1>4. IsWellFoundedOn(StrictSubsetOrdering(S), FiniteSubsetsOf(S))
  BY FS_StrictSubsetOrderingWellFounded
<1>5. PICK B \in Belows : \A C \in Belows : ~(<<C, B>> \in StrictSubsetOrdering(S))
  <2> HIDE DEF Belows
  <2> QED BY <1>3, <1>4, WFMin
<1>6. PICK i \in S : B = Below(i)
  BY <1>5
<1>7. ASSUME NEW j \in S, j < i PROVE FALSE
  <2>1. j \in Nat /\ i \in Nat
    BY <1>1
  <2>2. ~(j < j) /\ \A k \in S : k < j => k < i
    BY <1>1, <1>7, <2>1
  <2>3. Below(j) \subseteq Below(i) /\ j \in Below(i) /\ j \notin Below(j)
    BY <1>7, <2>1, <2>2
  <2>4. <<Below(j), B>> \in StrictSubsetOrdering(S)
    BY <1>6, <2>3 DEF StrictSubsetOrdering
  <2> QED BY <1>5, <2>4
<1> QED BY <1>1, <1>7

-----------------------------------------------------------------------------
(* The operators of Admission and RuleAuth.                                *)

\* The endpoint and the request are what CasesTyped says of them.
AsAsked == \E c \in Cases : ep = c.ep /\ in = c.in

\* Cases gives both their types.
LEMMA AskedType ==
  ASSUME AsAsked
  PROVE  /\ ep.required \in BOOLEAN /\ ep.none \in BOOLEAN
         /\ ep.schemes \subseteq Schemes
         /\ ep.headers \in Seq(HeaderNames) /\ ep.queries \in Seq(QueryNames)
         /\ ep.trusted \subseteq Addrs /\ ep.development \in BOOLEAN
         /\ ep.proxyHeaders \in BOOLEAN
         /\ ep.rules \in Seq(RuleDefs)
         /\ ep.reply \in [Outcomes \union {"challenge"} -> ReplyStatuses]
         /\ in \in Asks
  BY CasesTyped DEF AsAsked

\* Credentials are typed, and there is one at most of each kind and name.
LEMMA CollectedType ==
  ASSUME AsAsked
  PROVE  /\ Collected(ep, in) \subseteq CredentialsOf
         /\ \A c, d \in Collected(ep, in) : c.kind = d.kind /\ c.name = d.name => c = d
<1>1. \A c \in FromAuthorization(ep, in) :
        /\ c.kind = in.authorization.scheme /\ c.kind \in Schemes
        /\ c = Credential(in.authorization.scheme, Absent, in.authorization.secret)
        /\ c \in CredentialsOf
  BY AskedType DEF FromAuthorization, Credential, CredentialsOf, Asks, Authorizations
<1>2. \A c \in FromHeaders(ep, in) :
        /\ c.kind = "header" /\ c = Credential("header", c.name, in.headers[c.name])
        /\ c \in CredentialsOf
  <2> SUFFICES ASSUME NEW n \in Elements(ep.headers), in.headers[n] # Absent
               PROVE  Credential("header", n, in.headers[n]) \in CredentialsOf
    BY DEF FromHeaders, Credential
  <2>1. n \in HeaderNames
    BY AskedType DEF Elements
  <2> QED BY <2>1, AskedType DEF Credential, CredentialsOf, Asks
<1>3. \A c \in FromQueries(ep, in) :
        /\ c.kind = "query" /\ c = Credential("query", c.name, in.queries[c.name])
        /\ c \in CredentialsOf
  <2> SUFFICES ASSUME NEW n \in Elements(ep.queries), in.queries[n] \in Secrets
               PROVE  Credential("query", n, in.queries[n]) \in CredentialsOf
    BY DEF FromQueries, Credential
  <2>1. n \in QueryNames
    BY AskedType DEF Elements
  <2> QED BY <2>1, AskedType DEF Credential, CredentialsOf, Asks
<1>4. \A c \in Anonymous(ep) :
        /\ c.kind = "none" /\ c = Credential("none", Absent, Absent)
        /\ c \in CredentialsOf
  BY DEF Anonymous, Credential, CredentialsOf
<1> QED BY <1>1, <1>2, <1>3, <1>4 DEF Collected, Schemes

\* The client is an address, or the peer whatever it is.
LEMMA ClientType ==
  ASSUME AsAsked
  PROVE  /\ Client(ep, in) \in Addrs \union {Malformed}
         /\ ProxyHeaders(ep, in) \in ForwardHeaders
<1>1. in \in Asks
  BY AskedType
<1>2. ASSUME ViaProxy(in), Vouched(ep, in) PROVE ProxyChain(in)[1] \in Addrs
  <2>1. ProxyChain(in) \in Chains
    BY <1>1, <1>2 DEF ViaProxy, Vouched, MetadataHolds, ProxyChain, Asks
  <2> QED BY <2>1 DEF Chains
<1>3. Client(ep, in) \in Addrs \union {Malformed}
  BY <1>1, <1>2 DEF Client, Asks
<1>4. ProxyHeaders(ep, in) \in ForwardHeaders
  BY <1>1 DEF ProxyHeaders, NoProxyHeaders, ForwardHeaders, Asks
<1> QED BY <1>3, <1>4

\* If any proxy is named to a backend, or as the client, all of them are trusted.
LEMMA ProxiesVouchedFor ==
  ASSUME AsAsked, ~ProxyRejected(ep, in)
  PROVE  \A chain \in Told(ProxyHeaders(ep, in)) :
           /\ chain # Malformed
           /\ chain[1] = Client(ep, in)
           /\ {in.peer} \union {chain[i] : i \in 2..Len(chain)} \subseteq ep.trusted
<1> SUFFICES ASSUME NEW chain \in Told(ProxyHeaders(ep, in))
             PROVE  /\ chain # Malformed
                    /\ chain[1] = Client(ep, in)
                    /\ {in.peer} \union {chain[i] : i \in 2..Len(chain)} \subseteq ep.trusted
  OBVIOUS
<1>1. ~ProxyStripped(ep, in) /\ chain \in {in.forwarded, in.forwardedFor} \ {Absent}
  BY DEF Told, ProxyHeaders, NoProxyHeaders
<1>2. ViaProxy(in) /\ in.peer # Malformed /\ Vouched(ep, in)
  BY <1>1 DEF ViaProxy, ProxyRejected, ProxyStripped
<1>3. chain = ProxyChain(in) /\ chain # Malformed
  BY <1>1, <1>2 DEF Vouched, MetadataHolds, ProxyChain
<1>4. chain[1] = Client(ep, in)
  BY <1>2, <1>3 DEF Client
<1>5. {in.peer} \union {chain[i] : i \in 2..Len(chain)} \subseteq ep.trusted
  BY <1>2, <1>3 DEF Vouched, HopsTrusted
<1> QED BY <1>3, <1>4, <1>5

\* If the client is not the peer, trusted proxies name it.
LEMMA ClientVouchedFor ==
  ASSUME AsAsked, Client(ep, in) # in.peer
  PROVE  \A chain \in Told(in) :
           /\ chain # Malformed
           /\ chain[1] = Client(ep, in)
           /\ {in.peer} \union {chain[i] : i \in 2..Len(chain)} \subseteq ep.trusted
<1> SUFFICES ASSUME NEW chain \in Told(in)
             PROVE  /\ chain # Malformed
                    /\ chain[1] = Client(ep, in)
                    /\ {in.peer} \union {chain[i] : i \in 2..Len(chain)} \subseteq ep.trusted
  OBVIOUS
<1>1. ViaProxy(in) /\ in.peer # Malformed /\ Vouched(ep, in)
  BY DEF Client
<1>2. chain = ProxyChain(in) /\ chain # Malformed
  BY <1>1 DEF Told, Vouched, MetadataHolds, ProxyChain
<1> QED BY <1>1, <1>2 DEF Client, Vouched, HopsTrusted

\* What the selected group has, and the forwards made of it.
Warranted(auth, creds, applied) ==
  \/ auth = <<>> /\ applied = {}
  \/ \E g \in DOMAIN auth :
       /\ \A i \in DOMAIN auth[g].matchers :
            \/ auth[g].matchers[i].kind = "none"
            \/ \E c \in creds : Matches(auth[g].matchers[i], c)
       /\ \A c \in applied :
            IF auth[g].forwards = <<>>
              THEN /\ c \in creds
                   /\ \E i \in DOMAIN auth[g].matchers : Matches(auth[g].matchers[i], c)
              ELSE c \in Elements(auth[g].forwards)

\* A credential passed through is one that a matcher matches: no other has its
\* kind and name.
LEMMA PassThroughMatches ==
  ASSUME NEW group, NEW creds,
         \A c, d \in creds : c.kind = d.kind /\ c.name = d.name => c = d,
         AllMatchersHold(group, creds),
         NEW i \in DOMAIN group.matchers, PassThrough(group, creds)[i].kind # "none"
  PROVE  /\ PassThrough(group, creds)[i] \in creds
         /\ Matches(group.matchers[i], PassThrough(group, creds)[i])
<1> DEFINE m == group.matchers[i]
           about == {c \in creds : c.kind = m.kind /\ c.name = m.name}
<1>1. PassThrough(group, creds)[i] =
        IF m.kind = "none" \/ about = {} THEN NoForward ELSE CHOOSE c \in about : TRUE
  BY DEF PassThrough
<1>2. NoForward.kind = "none"
  BY DEF NoForward, Credential
<1>3. m.kind # "none" /\ about # {}
  BY <1>1, <1>2
<1>4. PICK c \in creds : Matches(m, c)
  BY <1>3 DEF AllMatchersHold
<1>5. PassThrough(group, creds)[i] \in about
  BY <1>1, <1>3
<1>6. PassThrough(group, creds)[i] = c
  BY <1>4, <1>5 DEF Matches
<1> QED BY <1>4, <1>6

\* Whatever a rule sends, the group it selected allows.
LEMMA ForwardsWarranted ==
  ASSUME NEW auth, NEW creds,
         \A c, d \in creds : c.kind = d.kind /\ c.name = d.name => c = d,
         ~AuthFails(auth, creds)
  PROVE  Warranted(auth, creds, Applied(Forwards(auth, creds)))
<1>1. CASE auth = <<>>
  BY <1>1 DEF Forwards, Applied, Warranted
<1>2. CASE auth # <<>>
  <2> DEFINE g == CHOOSE h \in Selected(auth, creds) : TRUE
  <2>1. g \in Selected(auth, creds)
    BY <1>2 DEF AuthFails
  <2>2. g \in DOMAIN auth /\ AllMatchersHold(auth[g], creds)
    BY <2>1 DEF Selected
  <2>3. TheGroup(auth, creds) = auth[g]
    BY DEF TheGroup
  <2> HIDE DEF g
  <2>4. ASSUME NEW c \in Applied(Forwards(auth, creds))
        PROVE  IF auth[g].forwards = <<>>
                 THEN /\ c \in creds
                      /\ \E i \in DOMAIN auth[g].matchers : Matches(auth[g].matchers[i], c)
                 ELSE c \in Elements(auth[g].forwards)
    <3>1. PICK i \in DOMAIN Forwards(auth, creds) :
            c = Forwards(auth, creds)[i] /\ Forwards(auth, creds)[i].kind # "none"
      BY DEF Applied
    <3>2. CASE auth[g].forwards = <<>>
      <4>1. Forwards(auth, creds) = PassThrough(auth[g], creds)
        BY <1>2, <2>3, <3>2 DEF Forwards, ExplicitForwards
      <4>2. DOMAIN PassThrough(auth[g], creds) = DOMAIN auth[g].matchers
        BY DEF PassThrough
      <4> QED BY <2>2, <3>1, <3>2, <4>1, <4>2, PassThroughMatches
    <3>3. CASE auth[g].forwards # <<>>
      <4>1. Forwards(auth, creds) = auth[g].forwards
        BY <1>2, <2>3, <3>3 DEF Forwards, ExplicitForwards
      <4> QED BY <3>1, <3>3, <4>1 DEF Elements
    <3> QED BY <3>2, <3>3
  <2> QED BY <2>2, <2>4 DEF Warranted, AllMatchersHold
<1> QED BY <1>1, <1>2

\* The credentials sent are typed.
LEMMA AppliedType ==
  ASSUME NEW auth \in Seq(Groups), NEW creds \in SUBSET CredentialsOf,
         \A c, d \in creds : c.kind = d.kind /\ c.name = d.name => c = d,
         ~AuthFails(auth, creds)
  PROVE  Applied(Forwards(auth, creds)) \subseteq CredentialsOf
<1> SUFFICES ASSUME NEW c \in Applied(Forwards(auth, creds)) PROVE c \in CredentialsOf
  OBVIOUS
<1>1. CASE auth = <<>>
  BY <1>1, ForwardsWarranted DEF Forwards, Applied
<1>2. CASE auth # <<>>
  <2>1. PICK g \in DOMAIN auth : IF auth[g].forwards = <<>> THEN c \in creds
                                 ELSE c \in Elements(auth[g].forwards)
    BY <1>2, ForwardsWarranted DEF Warranted
  <2>2. auth[g] \in Groups
    BY <2>1
  <2>3. auth[g].forwards \in Seq(CredentialsOf)
    BY <2>2 DEF Groups
  <2> QED BY <2>1, <2>3 DEF Elements
<1> QED BY <1>1, <1>2

-----------------------------------------------------------------------------
(* Types.  A rule is at hand while there is one to evaluate, its backend   *)
(* is called only if it has one, and a walk over pages begins with a page. *)

TypeInv ==
  /\ TypeOK
  /\ AsAsked
  /\ admission.credentials \in {{}, Collected(ep, in)}
  /\ pc \in {"admission", "forward", "chain"} => history = <<>>
  /\ pc \in {"rule", "backend"} => Len(history) < Len(ep.rules)
  /\ pc = "backend" =>
       /\ HasBackend(Rule) /\ Directed
       /\ fetch.pages = <<>> => fetch.link # NoURL

\* The ladder yields outcomes only.
LEMMA VerdictType ==
  ASSUME NEW def, NEW accepted, NEW o \in Verdicts(def, accepted)
  PROVE  o \in Outcomes
  BY DEF Verdicts, Verdict, Outcomes

\* While a rule is evaluated, the endpoint has it.
LEMMA RuleType ==
  ASSUME TypeInv, pc \in {"rule", "backend"}
  PROVE  /\ Rule \in RuleDefs
         /\ Rule.auth \in Seq(Groups)
         /\ Len(history) \in Nat /\ Len(history) + 1 \in 1..Len(ep.rules)
<1>1. ep.rules \in Seq(RuleDefs) /\ Len(history) < Len(ep.rules)
  BY AskedType DEF TypeInv
<1>2. history \in Seq(Verdicted)
  BY DEF TypeInv, TypeOK
<1>3. Len(history) \in Nat /\ Len(ep.rules) \in Nat
  BY <1>1, <1>2, SequenceType
<1>4. Len(history) + 1 \in 1..Len(ep.rules)
  BY <1>1, <1>3
<1>5. Rule \in RuleDefs
  BY <1>1, <1>4 DEF Rule
<1> QED BY <1>3, <1>4, <1>5 DEF RuleDefs

\* Admission's credentials are typed, one of each kind and name.
LEMMA CredentialsType ==
  ASSUME TypeInv
  PROVE  /\ admission.credentials \in SUBSET CredentialsOf
         /\ \A c, d \in admission.credentials : c.kind = d.kind /\ c.name = d.name => c = d
  BY CollectedType DEF TypeInv

\* A query parameter that is added to a URL has the value of a credential.
LEMMA CompletedType ==
  ASSUME NEW url \in URLs, NEW creds \in SUBSET CredentialsOf
  PROVE  Completed(url, creds) \in URLs
<1>1. ASSUME NEW n \in QueryNames PROVE QueryOf(creds, n) \in Secrets \union {Absent}
  <2> DEFINE c == {d \in creds : d.kind = "query" /\ d.name = n}
  <2>1. CASE c = {}
    BY <2>1 DEF QueryOf
  <2>2. CASE c # {}
    <3>1. (CHOOSE d \in c : TRUE) \in creds
      BY <2>2
    <3>2. QueryOf(creds, n) = (CHOOSE d \in c : TRUE).value
      BY <2>2 DEF QueryOf
    <3> QED BY <3>1, <3>2 DEF CredentialsOf
  <2> QED BY <2>1, <2>2
<1> DEFINE query == [n \in QueryNames |->
                       IF url.query[n] = Absent THEN QueryOf(creds, n) ELSE url.query[n]]
<1>2. query \in [QueryNames -> Secrets \union {Absent}]
  BY <1>1 DEF URLs
<1>3. Completed(url, creds) = [url EXCEPT !.query = query]
  BY DEF Completed
<1> QED BY <1>2, <1>3 DEF URLs

\* The call about to be made is typed.
LEMMA CallType ==
  ASSUME TypeInv, pc = "backend", More
  PROVE  Call \in Calls
<1>1. fetch.link \in URLs
  BY DEF TypeInv, TypeOK, More
<1>2. Applied(Given) \in SUBSET CredentialsOf
  BY RuleType, CredentialsType, AppliedType DEF TypeInv, Directed, Given
<1>3. Call.url \in URLs
  BY <1>1, <1>2, CompletedType DEF Call
<1>4. {c \in Applied(Given) : c.kind = "query" \/ FirstPage} \subseteq CredentialsOf
  BY <1>2
<1>5. forward \in ForwardHeaders /\ NoProxyHeaders \in ForwardHeaders
  BY DEF TypeInv, TypeOK, NoProxyHeaders, ForwardHeaders
<1>6. Len(history) + 1 \in Nat \ {0}
  BY RuleType
<1> QED BY <1>3, <1>4, <1>5, <1>6 DEF Call, Calls

\* What a rule's conclusion leaves, whatever it is.
LEMMA ConcludeType ==
  ASSUME TypeInv, pc \in {"rule", "backend"}, NEW o \in Outcomes,
         NEW by \in {"auth", "local", "cache", "failed", "backend"},
         NEW asker \in Asks, NEW b \in Backends, Conclude(o, by, asker, b),
         UNCHANGED <<request, admission, forward, response>>, sent' \in Seq(Calls)
  PROVE  TypeInv'
<1> DEFINE entry == [outcome |-> o, by |-> by, asker |-> asker, backend |-> b]
<1>1. entry \in Verdicted
  BY DEF Verdicted
<1>2. history' \in Seq(Verdicted) /\ Len(history') = Len(history) + 1
  <2>1. history \in Seq(Verdicted)
    BY DEF TypeInv, TypeOK
  <2>2. history' = Append(history, entry)
    BY DEF Conclude
  <2> QED BY <1>1, <2>1, <2>2, AppendKeeps
<1>3. pc' \in {"rule", "response"} /\ (pc' = "rule" => Len(history') < Len(ep.rules))
  BY <1>2 DEF Conclude, Continue
<1>4. fetch' \in [link : URLs \union {NoURL}, pages : Seq(Fetched)]
  BY EmptySequenceType DEF Conclude, NoFetch
<1>5. outcome' \in Outcomes \union {""} /\ backend' \in Backends
  BY DEF Conclude
<1>6. TypeOK'
  BY <1>2, <1>3, <1>4, <1>5 DEF TypeInv, TypeOK
<1>7. ep' = ep /\ in' = in /\ admission' = admission
  BY DEF request
<1> QED BY <1>2, <1>3, <1>6, <1>7 DEF TypeInv, AsAsked

\* A request begins typed.
LEMMA InitType == Init => TypeInv
<1> SUFFICES ASSUME Init PROVE TypeInv
  OBVIOUS
<1>1. admission \in Admissions
  BY DEF Init, NotAdmitted, Admissions
<1>2. forward \in ForwardHeaders
  BY DEF Init, NoProxyHeaders, ForwardHeaders
<1>3. backend \in Backends /\ fetch \in [link : URLs \union {NoURL}, pages : Seq(Fetched)]
  BY EmptySequenceType DEF Init, EmptyBackend, NoFetch, Backends
<1>4. history \in Seq(Verdicted) /\ sent \in Seq(Calls)
  BY EmptySequenceType DEF Init
<1>5. response \in [status : ReplyStatuses, outcome : Outcomes \union {""}]
  <2>1. response = [status |-> 0, outcome |-> ""]
    BY DEF Init
  <2>2. 0 \in ReplyStatuses
    BY DEF ReplyStatuses
  <2> QED BY <2>1, <2>2
<1>6. pc = "admission" /\ outcome = ""
  BY DEF Init
<1>7. TypeOK
  BY <1>1, <1>2, <1>3, <1>4, <1>5, <1>6 DEF TypeOK
<1> QED BY <1>7 DEF Init, TypeInv, AsAsked, NotAdmitted

\* The reset backend state is typed.
LEMMA EmptyBackendType ==
  /\ \A b : ResetBackend(b) \in Backends
  /\ \A b : [ResetBackend(b) EXCEPT !.accepted = TRUE] \in Backends
  BY EmptySequenceType DEF ResetBackend, EmptyBackend, Backends

\* Those who may have left a verdict are requests.
LEMMA AskersType == TypeInv => Askers \subseteq Asks
  BY CasesTyped DEF Askers

\* The agents before the rules, and after them.
LEMMA AgentsType ==
  ASSUME TypeInv,
         RejectProxy \/ Challenge \/ Admit \/ CurateHeaders \/ PlanRules
           \/ RenderResponse \/ Reply
  PROVE  TypeInv'
<1>1. ep.reply \in [Outcomes \union {"challenge"} -> ReplyStatuses]
      /\ ep.rules \in Seq(RuleDefs)
  BY AskedType DEF TypeInv
<1>2. \A b \in BOOLEAN : AdmissionOf(b, {}) \in Admissions
                       /\ AdmissionOf(b, Collected(ep, in)) \in Admissions
  <2>1. Client(ep, in) \in Addrs \union {Malformed, Absent}
    BY ClientType DEF TypeInv
  <2>2. ProxyStripped(ep, in) \in BOOLEAN
    BY DEF ProxyStripped
  <2>3. Collected(ep, in) \in SUBSET CredentialsOf
    BY CollectedType DEF TypeInv
  <2> QED BY <2>1, <2>2, <2>3 DEF AdmissionOf, Admissions
<1>3. /\ 401 \in ReplyStatuses /\ 500 \in ReplyStatuses
      /\ 200 \in ReplyStatuses /\ 403 \in ReplyStatuses /\ 502 \in ReplyStatuses
  BY DEF ReplyStatuses
<1>4. CASE RejectProxy
  BY <1>2, <1>4 DEF RejectProxy, TypeInv, TypeOK, AsAsked, request, AdmissionOf
<1>5. CASE Challenge
  <2> DEFINE status == IF ep.reply["challenge"] > 0 THEN ep.reply["challenge"] ELSE 401
  <2>1. response' = [status |-> status, outcome |-> ""]
    BY <1>5 DEF Challenge
  <2>2. status \in ReplyStatuses
    BY <1>1, <1>3
  <2> HIDE DEF status
  <2>3. response' \in [status : ReplyStatuses, outcome : Outcomes \union {""}]
    BY <2>1, <2>2
  <2> QED BY <1>2, <1>5, <2>3 DEF Challenge, TypeInv, TypeOK, AsAsked, request, AdmissionOf
<1>6. CASE Admit
  BY <1>2, <1>6 DEF Admit, TypeInv, TypeOK, AsAsked, request, AdmissionOf
<1>7. CASE CurateHeaders
  <2>1. forward' \in ForwardHeaders
    BY <1>7, ClientType DEF CurateHeaders, TypeInv, NoProxyHeaders, ForwardHeaders
  <2> QED BY <1>7, <2>1 DEF CurateHeaders, TypeInv, TypeOK, AsAsked, request
<1>8. CASE PlanRules
  <2>1. outcome' \in Outcomes \union {""} /\ pc' \in {"rule", "response"}
    BY <1>8 DEF PlanRules, Outcomes
  <2>2. TypeOK'
    BY <1>8, <2>1 DEF PlanRules, TypeInv, TypeOK, request
  <2>3. pc' = "rule" => Len(history') < Len(ep'.rules)
    <3> SUFFICES ASSUME pc' = "rule" PROVE Len(history') < Len(ep'.rules)
      OBVIOUS
    <3>1. ep.rules # <<>> /\ ep' = ep /\ history' = <<>>
      BY <1>8 DEF PlanRules, TypeInv, request
    <3>2. Len(ep.rules) \in Nat /\ Len(ep.rules) # 0
      BY <1>1, <3>1
    <3> QED BY <3>1, <3>2, EmptySequenceType
  <2> QED BY <1>8, <2>1, <2>2, <2>3 DEF PlanRules, TypeInv, AsAsked, request
<1>9. CASE RenderResponse
  <2>1. response' \in [status : ReplyStatuses, outcome : Outcomes \union {""}]
    <3>1. outcome \in Outcomes \union {""}
      BY DEF TypeInv, TypeOK
    <3>2. StatusFor(outcome) \in ReplyStatuses
      <4>1. CASE outcome = ""
        <5>1. StatusFor(outcome) = 500
          BY <4>1 DEF StatusFor
        <5> QED BY <1>3, <5>1
      <4>2. CASE outcome # ""
        <5>1. outcome \in Outcomes
          BY <3>1, <4>2
        <5>2. ep.reply[outcome] \in ReplyStatuses
          BY <1>1, <5>1
        <5>3. DefaultStatus[outcome] \in {200, 403, 502}
          BY <5>1 DEF DefaultStatus
        <5>4. DefaultStatus[outcome] \in ReplyStatuses
          BY <1>3, <5>3
        <5> QED BY <4>2, <5>2, <5>4 DEF StatusFor
      <4> QED BY <4>1, <4>2
    <3> QED BY <1>9, <3>1, <3>2 DEF RenderResponse, TypeInv, TypeOK
  <2> QED BY <1>9, <2>1 DEF RenderResponse, TypeInv, TypeOK, AsAsked, request
<1>10. CASE Reply
  <2>1. response' \in [status : ReplyStatuses, outcome : Outcomes \union {""}]
    <3>1. response \in [status : ReplyStatuses, outcome : Outcomes \union {""}]
      BY DEF TypeInv, TypeOK
    <3>2. 500 \in ReplyStatuses
      BY <1>3
    <3>3. response' = [response EXCEPT !.status = 500] \/ response' = response
      BY <1>10 DEF Reply
    <3> QED BY <3>1, <3>2, <3>3
  <2> QED BY <1>10, <2>1 DEF Reply, TypeInv, TypeOK, AsAsked, request
<1> QED BY <1>4, <1>5, <1>6, <1>7, <1>8, <1>9, <1>10

\* The page that arrives is typed, and the walk goes on.
LEMMA PageType ==
  ASSUME TypeInv, pc = "backend", More, NEW status \in Statuses, NEW next \in NextLinks
  PROVE  [link |-> fetch.link, url |-> Call.url, status |-> status,
          accepted |-> status \in Rule.accepts, next |-> next] \in Fetched
<1>1. fetch.link \in URLs
  BY DEF TypeInv, TypeOK, More
<1>2. Call.url \in URLs
  BY CallType DEF Calls
<1>3. next \in Links \union {NoURL}
  BY DEF NextLinks
<1> QED BY <1>1, <1>2, <1>3 DEF Fetched

\* At least one page is fetched, so that there is a last one when no more are.
LEMMA FirstPageIsFetched ==
  ASSUME TypeInv, pc = "backend", ~More
  PROVE  /\ fetch.pages \in Seq(Fetched)
         /\ fetch.pages # <<>> /\ Len(fetch.pages) \in DOMAIN fetch.pages
         /\ fetch.pages[Len(fetch.pages)] \in Fetched
<1>1. fetch.pages \in Seq(Fetched)
  BY DEF TypeInv, TypeOK
<1>2. Rule.maxPages \in Nat \ {0}
  BY RuleType DEF RuleDefs
<1>3. fetch.pages # <<>>
  <2> SUFFICES ASSUME fetch.pages = <<>> PROVE More
    OBVIOUS
  <2>1. fetch.link # NoURL
    BY DEF TypeInv
  <2> QED BY <1>2, <2>1, EmptySequenceType DEF More
<1> QED BY <1>1, <1>3

\* The actions that conclude a rule.
Concludes ==
  NoGroupMatches \/ RenderFails \/ DecideLocally \/ ReuseVerdict \/ FetchFails \/ Decide

\* They do so with a verdict that is typed, and call the backend only to fail.
LEMMA ConcludesType ==
  ASSUME TypeInv, Concludes
  PROVE  /\ pc \in {"rule", "backend"}
         /\ UNCHANGED <<request, admission, forward, response>>
         /\ sent' = sent \/ (FetchFails /\ sent' = Append(sent, Call))
         /\ \E o \in Outcomes, by \in {"auth", "local", "cache", "failed", "backend"},
               asker \in Asks, b \in Backends : Conclude(o, by, asker, b)
<1>1. in \in Asks /\ backend \in Backends
  BY AskedType DEF TypeInv, TypeOK
<1>2. \A accepted : \A o \in Verdicts(Rule, accepted) : o \in Outcomes
  BY VerdictType
<1>3. "fail" \in Outcomes /\ "error" \in Outcomes /\ "pass" \in Outcomes
  BY DEF Outcomes
<1>4. CASE NoGroupMatches
  BY <1>1, <1>3, <1>4, EmptyBackendType DEF NoGroupMatches
<1>5. CASE RenderFails
  BY <1>1, <1>3, <1>5, EmptyBackendType DEF RenderFails
<1>6. CASE DecideLocally
  BY <1>1, <1>2, <1>6, EmptyBackendType DEF DecideLocally
<1>7. CASE ReuseVerdict
  BY <1>3, <1>7, EmptyBackendType, AskersType DEF ReuseVerdict
<1>8. CASE FetchFails
  BY <1>1, <1>3, <1>8 DEF FetchFails
<1>9. CASE Decide
  <2> DEFINE answer == [requested |-> TRUE, pages |-> fetch.pages,
                        accepted |-> fetch.pages[Len(fetch.pages)].accepted]
  <2>1. answer \in Backends
    BY <1>9, FirstPageIsFetched DEF Decide, Backends, Fetched
  <2>2. \E o \in Verdicts(Rule, answer.accepted) : Conclude(o, "backend", in, answer)
    BY <1>9 DEF Decide
  <2> HIDE DEF answer
  <2> QED BY <1>1, <1>2, <1>9, <2>1, <2>2 DEF Decide
<1> QED BY <1>4, <1>5, <1>6, <1>7, <1>8, <1>9 DEF Concludes

\* Every step on a rule keeps the types.
LEMMA RulesType ==
  ASSUME TypeInv, CallBackend \/ FetchPage \/ Concludes
  PROVE  TypeInv'
<1>1. in \in Asks /\ sent \in Seq(Calls) /\ backend \in Backends /\ fetch.pages \in Seq(Fetched)
  BY AskedType DEF TypeInv, TypeOK
<1>2. CASE CallBackend
  <2>1. Rule.url \in URLs /\ HasBackend(Rule) /\ Directed
    BY <1>2, RuleType DEF CallBackend, Renders, HasBackend, RuleDefs
  <2>2. fetch' \in [link : URLs \union {NoURL}, pages : Seq(Fetched)] /\ fetch'.link # NoURL
    BY <1>2, <2>1, EmptySequenceType DEF CallBackend, HasBackend
  <2>3. backend' \in Backends
    BY <1>2, EmptyBackendType DEF CallBackend
  <2>4. TypeOK'
    BY <1>2, <2>2, <2>3 DEF CallBackend, TypeInv, TypeOK
  <2>5. /\ ep' = ep /\ in' = in /\ admission' = admission /\ history' = history
        /\ pc = "rule" /\ pc' = "backend"
    BY <1>2 DEF CallBackend, request
  <2>6. Rule' = Rule /\ Directed' /\ HasBackend(Rule)'
    BY <2>1, <2>5 DEF Rule, Directed, HasBackend
  <2>7. Len(history') < Len(ep'.rules)
    BY <2>5 DEF TypeInv
  <2> QED BY <2>2, <2>4, <2>5, <2>6, <2>7 DEF TypeInv, AsAsked
<1>3. CASE FetchPage
  <2> DEFINE page(status, next) ==
        [link |-> fetch.link, url |-> Call.url, status |-> status,
         accepted |-> status \in Rule.accepts, next |-> next]
  <2>1. PICK status \in Statuses, next \in NextLinks :
          /\ fetch' = [link |-> next, pages |-> Append(fetch.pages, page(status, next))]
          /\ backend' = [backend EXCEPT !.accepted = @ \/ page(status, next).accepted]
    BY <1>3 DEF FetchPage
  <2>2. page(status, next) \in Fetched
    BY <1>3, PageType DEF FetchPage
  <2>3. next \in URLs \union {NoURL}
    BY CasesTyped DEF NextLinks
  <2>4. page(status, next).accepted \in BOOLEAN
    BY <2>2 DEF Fetched
  <2> HIDE DEF page
  <2>5. /\ fetch' \in [link : URLs \union {NoURL}, pages : Seq(Fetched)]
        /\ fetch'.pages # <<>>
    <3>1. /\ Append(fetch.pages, page(status, next)) \in Seq(Fetched)
          /\ Len(Append(fetch.pages, page(status, next))) = Len(fetch.pages) + 1
          /\ Len(fetch.pages) \in Nat
      BY <1>1, <2>2, AppendKeeps, SequenceType
    <3>2. Append(fetch.pages, page(status, next)) # <<>>
      BY <1>1, <2>2, AppendKeeps
    <3> QED BY <2>1, <2>3, <3>1, <3>2
  <2>6. backend' \in Backends
    BY <1>1, <2>1, <2>4 DEF Backends
  <2>7. sent' \in Seq(Calls)
    BY <1>1, <1>3, CallType DEF FetchPage
  <2>8. /\ ep' = ep /\ in' = in /\ admission' = admission /\ history' = history
        /\ pc = "backend" /\ pc' = "backend" /\ forward' = forward /\ outcome' = outcome
        /\ response' = response
    BY <1>3 DEF FetchPage, request
  <2>9. TypeOK'
    BY <2>5, <2>6, <2>7, <2>8 DEF TypeInv, TypeOK
  <2>10. Rule' = Rule /\ Directed' /\ HasBackend(Rule)'
    BY <2>8 DEF TypeInv, Rule, Directed, HasBackend
  <2>11. Len(history') < Len(ep'.rules)
    BY <2>8 DEF TypeInv
  <2> QED BY <2>5, <2>8, <2>9, <2>10, <2>11 DEF TypeInv, AsAsked
<1>4. CASE Concludes
  <2>1. PICK o \in Outcomes, by \in {"auth", "local", "cache", "failed", "backend"},
             asker \in Asks, b \in Backends : Conclude(o, by, asker, b)
    BY <1>4, ConcludesType
  <2>2. sent' \in Seq(Calls)
    BY <1>1, <1>4, ConcludesType, CallType DEF FetchFails
  <2> QED BY <1>4, <2>1, <2>2, ConcludesType, ConcludeType
<1> QED BY <1>2, <1>3, <1>4

\* Every step keeps the types.
LEMMA StepType == TypeInv /\ [Next]_vars => TypeInv'
<1> SUFFICES ASSUME TypeInv, [Next]_vars PROVE TypeInv'
  OBVIOUS
<1>1. CASE UNCHANGED vars
  BY <1>1 DEF TypeInv, TypeOK, AsAsked, vars, request, Rule, Directed, HasBackend
<1>2. CASE Next /\ ~UNCHANGED vars
  BY <1>2, AgentsType, RulesType DEF Next, Done, Concludes
<1> QED BY <1>1, <1>2

\* The types hold throughout.
LEMMA TypeAlways == Spec => []TypeInv
  BY InitType, StepType, PTL DEF Spec

\* The state of a request keeps its type, whatever endpoints, requests and
\* backend answers there are. (ServeAuth and the agents)
THEOREM RequestTypeCorrect == Spec => []TypeOK
<1>1. TypeInv => TypeOK
  BY DEF TypeInv
<1> QED BY <1>1, TypeAlways, PTL

-----------------------------------------------------------------------------
(* Who is let through.  A request that was not admitted has done nothing,  *)
(* rules are evaluated while all before them passed, and only the last one *)
(* of the endpoint leaves a pass to the response.                          *)

AllPass == \A i \in DOMAIN history : history[i].outcome = "pass"

WholeChainPassed == AllPass /\ Len(history) = Len(ep.rules)

PassesAreAccepted ==
  \A i \in DOMAIN history :
    history[i].by = "backend" /\ history[i].outcome = "pass" /\ "pass" \notin ep.rules[i].conds =>
      history[i].backend.accepted

EarnedInv ==
  /\ pc = "admission" => ~admission.authenticated
  /\ pc \notin {"admission", "reply", "done"} => admission.authenticated
  /\ ~admission.authenticated => response.outcome = "" /\ history = <<>> /\ sent = <<>>
  /\ pc \notin {"reply", "done"} => response.outcome = ""
  /\ pc \in {"rule", "backend"} => AllPass
  /\ pc = "response" /\ outcome = "pass" => WholeChainPassed
  /\ response.outcome = "pass" => WholeChainPassed
  /\ PassesAreAccepted

\* Without a pass condition an answer that is not accepted does not pass.
LEMMA PassIsAccepted ==
  ASSUME NEW def, NEW accepted \in BOOLEAN, HasBackend(def), "pass" \notin def.conds,
         "pass" \in Verdicts(def, accepted)
  PROVE  accepted
  BY DEF Verdicts, Verdict, Listed

\* A rule's conclusion keeps EarnedInv.
LEMMA ConcludeEarned ==
  ASSUME TypeInv, EarnedInv, pc \in {"rule", "backend"},
         NEW o, NEW by, NEW asker, NEW b, Conclude(o, by, asker, b), TypeInv',
         by = "backend" /\ o = "pass" /\ "pass" \notin Rule.conds => b.accepted,
         UNCHANGED <<request, admission, forward, response>>
  PROVE  EarnedInv'
<1> DEFINE entry == [outcome |-> o, by |-> by, asker |-> asker, backend |-> b]
           n == Len(history)
<1>1. history' = Append(history, entry) /\ outcome' = o /\ pc' = Continue(o, n + 1)
  BY DEF Conclude
<1>2. n \in Nat /\ DOMAIN history = 1..n
  BY SequenceType DEF TypeInv, TypeOK
<1>3. /\ Len(history') = n + 1 /\ DOMAIN history' = 1..(n + 1)
      /\ history'[n + 1] = entry
      /\ \A i \in 1..n : history'[i] = history[i]
  <2>1. history \in Seq(Verdicted) /\ history' \in Seq(Verdicted)
    BY DEF TypeInv, TypeOK
  <2> QED BY <1>1, <1>2, <2>1
<1>4. /\ ep' = ep /\ admission' = admission /\ response' = response
      /\ n < Len(ep.rules) /\ Len(ep.rules) \in Nat
  BY AskedType, SequenceType DEF TypeInv, request
<1>5. admission.authenticated /\ response.outcome = "" /\ AllPass
  BY DEF EarnedInv
<1>6. pc' \in {"rule", "response"} /\ (pc' = "rule" => o = "pass")
      /\ (pc' = "response" /\ o = "pass" => n + 1 = Len(ep.rules))
  BY <1>1, <1>2, <1>4 DEF Continue
<1>7. o = "pass" => AllPass'
  <2> SUFFICES ASSUME o = "pass", NEW i \in 1..(n + 1) PROVE history'[i].outcome = "pass"
    BY <1>3 DEF AllPass
  <2>1. CASE i \in 1..n
    BY <1>2, <1>3, <1>5, <2>1 DEF AllPass
  <2>2. CASE i = n + 1
    BY <1>3, <2>2
  <2> QED BY <1>2, <2>1, <2>2
<1>8. PassesAreAccepted'
  <2> SUFFICES ASSUME NEW i \in 1..(n + 1),
                      history'[i].by = "backend", history'[i].outcome = "pass",
                      "pass" \notin ep.rules[i].conds
               PROVE  history'[i].backend.accepted
    BY <1>3, <1>4 DEF PassesAreAccepted
  <2>1. CASE i \in 1..n
    BY <1>2, <1>3, <2>1 DEF EarnedInv, PassesAreAccepted
  <2>2. CASE i = n + 1
    BY <1>3, <2>2 DEF Rule
  <2> QED BY <1>2, <2>1, <2>2
<1> HIDE DEF n
<1>9. pc' = "response" /\ outcome' = "pass" => WholeChainPassed'
  BY <1>1, <1>3, <1>4, <1>6, <1>7 DEF WholeChainPassed
<1> QED BY <1>1, <1>4, <1>5, <1>6, <1>7, <1>8, <1>9 DEF EarnedInv

\* So do the agents before the rules and after them.
LEMMA EarnedAgents ==
  ASSUME TypeInv, EarnedInv,
         RejectProxy \/ Challenge \/ Admit \/ CurateHeaders \/ PlanRules
           \/ RenderResponse \/ Reply
  PROVE  EarnedInv'
<1> USE DEF AllPass, WholeChainPassed, PassesAreAccepted, EarnedInv, request
<1>1. CASE RejectProxy
  BY <1>1 DEF RejectProxy, AdmissionOf
<1>2. CASE Challenge
  BY <1>2 DEF Challenge, AdmissionOf
<1>3. CASE Admit
  BY <1>3 DEF Admit, AdmissionOf
<1>4. CASE CurateHeaders
  BY <1>4 DEF CurateHeaders
<1>5. CASE PlanRules
  <2>1. history = <<>> /\ admission.authenticated
    BY <1>5 DEF PlanRules, TypeInv
  <2>2. pc' = "response" => ep.rules = <<>>
    BY <1>5, <2>1 DEF PlanRules
  <2>3. AllPass
    BY <2>1, EmptySequenceType
  <2>4. pc' = "response" => WholeChainPassed
    BY <2>1, <2>2, <2>3
  <2> QED BY <1>5, <2>1, <2>3, <2>4 DEF PlanRules
<1>6. CASE RenderResponse
  <2>1. response'.outcome = outcome \/ response' = response
    BY <1>6 DEF RenderResponse
  <2> QED BY <1>6, <2>1 DEF RenderResponse
<1>7. CASE Reply
  <2>1. response'.outcome = response.outcome
    BY <1>7 DEF Reply, TypeInv, TypeOK
  <2> QED BY <1>7, <2>1 DEF Reply
<1> QED BY <1>1, <1>2, <1>3, <1>4, <1>5, <1>6, <1>7

\* So does every step on a rule.
LEMMA EarnedRules ==
  ASSUME TypeInv, EarnedInv, TypeInv',
         NoGroupMatches \/ RenderFails \/ DecideLocally \/ ReuseVerdict
           \/ CallBackend \/ FetchPage \/ FetchFails \/ Decide
  PROVE  EarnedInv'
<1>1. CASE NoGroupMatches
  BY <1>1, ConcludeEarned DEF NoGroupMatches
<1>2. CASE RenderFails
  BY <1>2, ConcludeEarned DEF RenderFails
<1>3. CASE DecideLocally
  BY <1>3, ConcludeEarned DEF DecideLocally
<1>4. CASE ReuseVerdict
  BY <1>4, ConcludeEarned DEF ReuseVerdict
<1>5. CASE CallBackend
  BY <1>5 DEF CallBackend, EarnedInv, AllPass, WholeChainPassed, PassesAreAccepted, request
<1>6. CASE FetchPage
  BY <1>6 DEF FetchPage, EarnedInv, AllPass, WholeChainPassed, PassesAreAccepted, request
<1>7. CASE FetchFails
  BY <1>7, ConcludeEarned DEF FetchFails
<1>8. CASE Decide
  <2> DEFINE answer == [requested |-> TRUE, pages |-> fetch.pages,
                        accepted |-> fetch.pages[Len(fetch.pages)].accepted]
  <2>1. PICK o \in Verdicts(Rule, answer.accepted) : Conclude(o, "backend", in, answer)
    BY <1>8 DEF Decide
  <2>2. answer.accepted \in BOOLEAN
    BY <1>8, FirstPageIsFetched DEF Decide, Fetched
  <2>3. HasBackend(Rule) /\ pc \in {"rule", "backend"}
        /\ UNCHANGED <<request, admission, forward, response>>
    BY <1>8 DEF Decide, TypeInv
  <2> HIDE DEF answer
  <2>4. o = "pass" /\ "pass" \notin Rule.conds => answer.accepted
    BY <2>1, <2>2, <2>3, PassIsAccepted
  <2> QED BY <2>1, <2>3, <2>4, ConcludeEarned
<1> QED BY <1>1, <1>2, <1>3, <1>4, <1>5, <1>6, <1>7, <1>8

\* EarnedInv holds throughout.
LEMMA EarnedAlways == Spec => []EarnedInv
<1>1. Init => EarnedInv
  <2> SUFFICES ASSUME Init PROVE EarnedInv
    OBVIOUS
  <2>1. pc = "admission" /\ ~admission.authenticated /\ history = <<>> /\ sent = <<>>
        /\ response.outcome = ""
    BY DEF Init, NotAdmitted
  <2>2. PassesAreAccepted
    BY <2>1, EmptySequenceType DEF PassesAreAccepted
  <2> QED BY <2>1, <2>2 DEF EarnedInv
<1>2. TypeInv /\ TypeInv' /\ EarnedInv /\ [Next]_vars => EarnedInv'
  <2> SUFFICES ASSUME TypeInv, TypeInv', EarnedInv, [Next]_vars PROVE EarnedInv'
    OBVIOUS
  <2>1. CASE UNCHANGED vars
    BY <2>1 DEF EarnedInv, AllPass, WholeChainPassed, PassesAreAccepted, vars
  <2>2. CASE Next /\ ~UNCHANGED vars
    BY <2>2, EarnedAgents, EarnedRules DEF Next, Done
  <2> QED BY <2>1, <2>2
<1> QED BY <1>1, <1>2, TypeAlways, PTL DEF Spec

\* A response says pass only if every rule of the endpoint passed for an admitted
\* request, and a request that is not admitted has no outcome and reaches no
\* backend. (ServeAuth, rulechain, responsepolicy)
THEOREM PassesHaveBeenEarned == Spec => []PassIsEarned
<1>1. TypeInv /\ EarnedInv => PassIsEarned
  BY DEF EarnedInv, AllPass, WholeChainPassed, PassesAreAccepted, PassIsEarned
<1> QED BY <1>1, TypeAlways, EarnedAlways, PTL

-----------------------------------------------------------------------------
(* Whom backends are told the client is.  Nothing but the headers that     *)
(* admission left on the request is ever curated or sent.                  *)

VouchedInv ==
  /\ pc = "admission" => admission.client = Absent
  /\ pc # "admission" => admission.client = Client(ep, in)
  /\ admission.authenticated => ~ProxyRejected(ep, in)
  /\ forward \in {NoProxyHeaders, ProxyHeaders(ep, in)}
  /\ \A k \in DOMAIN sent : sent[k].proxy \in {NoProxyHeaders, ProxyHeaders(ep, in)}

\* A call joins those made before.
LEMMA SentGrows ==
  ASSUME TypeInv, Call \in Calls, sent' = Append(sent, Call)
  PROVE  /\ DOMAIN sent' = 1..(Len(sent) + 1) /\ Len(sent) \in Nat
         /\ DOMAIN sent = 1..Len(sent)
         /\ sent'[Len(sent) + 1] = Call
         /\ \A k \in DOMAIN sent : sent'[k] = sent[k]
<1>1. sent \in Seq(Calls)
  BY DEF TypeInv, TypeOK
<1> QED BY <1>1, AppendKeeps, SequenceType

\* A call names no proxies but those admission left.
LEMMA VouchedCall ==
  ASSUME TypeInv, VouchedInv, pc = "backend", More, sent' = Append(sent, Call),
         UNCHANGED <<request, admission, forward>>, pc' # "admission"
  PROVE  VouchedInv'
<1>1. Call \in Calls
  BY CallType
<1>2. Call.proxy \in {NoProxyHeaders, ProxyHeaders(ep, in)}
  BY DEF Call, VouchedInv
<1>3. \A k \in DOMAIN sent' : sent'[k].proxy \in {NoProxyHeaders, ProxyHeaders(ep, in)}
  BY <1>1, <1>2, SentGrows DEF VouchedInv
<1> QED BY <1>3 DEF VouchedInv, request

\* VouchedInv holds throughout.
LEMMA VouchedAlways == Spec => []VouchedInv
<1>1. Init => VouchedInv
  <2> SUFFICES ASSUME Init PROVE VouchedInv
    OBVIOUS
  <2>1. pc = "admission" /\ admission.client = Absent /\ ~admission.authenticated
        /\ forward = NoProxyHeaders /\ sent = <<>>
    BY DEF Init, NotAdmitted
  <2> QED BY <2>1, EmptySequenceType DEF VouchedInv
<1>2. TypeInv /\ VouchedInv /\ [Next]_vars => VouchedInv'
  <2> SUFFICES ASSUME TypeInv, VouchedInv, [Next]_vars PROVE VouchedInv'
    OBVIOUS
  <2> USE DEF VouchedInv, request
  <2>1. CASE UNCHANGED vars
    BY <2>1 DEF vars
  <2>2. CASE RejectProxy
    BY <2>2 DEF RejectProxy, AdmissionOf
  <2>3. CASE Challenge
    BY <2>3 DEF Challenge, AdmissionOf
  <2>4. CASE Admit
    BY <2>4 DEF Admit, AdmissionOf
  <2>5. CASE CurateHeaders
    BY <2>5 DEF CurateHeaders
  <2>6. CASE PlanRules
    BY <2>6 DEF PlanRules
  <2>7. CASE NoGroupMatches
    BY <2>7 DEF NoGroupMatches, Conclude, Continue
  <2>8. CASE RenderFails
    BY <2>8 DEF RenderFails, Conclude, Continue
  <2>9. CASE DecideLocally
    BY <2>9 DEF DecideLocally, Conclude, Continue
  <2>10. CASE ReuseVerdict
    BY <2>10 DEF ReuseVerdict, Conclude, Continue
  <2>11. CASE CallBackend
    BY <2>11 DEF CallBackend
  <2>12. CASE FetchPage
    BY <2>12, VouchedCall DEF FetchPage
  <2>13. CASE FetchFails
    BY <2>13, VouchedCall DEF FetchFails, Conclude, Continue
  <2>14. CASE Decide
    BY <2>14 DEF Decide, Conclude, Continue
  <2>15. CASE RenderResponse
    BY <2>15 DEF RenderResponse
  <2>16. CASE Reply
    BY <2>16 DEF Reply
  <2> QED BY <2>1, <2>2, <2>3, <2>4, <2>5, <2>6, <2>7, <2>8, <2>9, <2>10, <2>11, <2>12,
            <2>13, <2>14, <2>15, <2>16 DEF Next, Done
<1> QED BY <1>1, <1>2, TypeAlways, PTL DEF Spec

\* A client other than the peer, and the proxies a backend is told of, were
\* vouched for by proxies the endpoint trusts. (admission's Execute,
\* forwardpolicy, renderBackendRequest)
THEOREM ClientsAreVouchedFor == Spec => []ClientIsVouchedFor
<1>1. TypeInv /\ EarnedInv /\ VouchedInv => ClientIsVouchedFor
  <2> SUFFICES ASSUME TypeInv, EarnedInv, VouchedInv PROVE ClientIsVouchedFor
    OBVIOUS
  <2>1. ASSUME admission.client \notin {Absent, in.peer}, NEW chain \in Told(in)
        PROVE  chain # Malformed /\ Trustworthy(chain)
    BY <2>1, ClientVouchedFor DEF TypeInv, VouchedInv, Trustworthy
  <2>2. ASSUME NEW k \in DOMAIN sent, NEW chain \in Told(sent[k].proxy)
        PROVE  chain # Malformed /\ Trustworthy(chain)
    <3>1. sent # <<>>
      BY EmptySequenceType
    <3>2. admission.authenticated /\ pc # "admission"
      BY <3>1 DEF EarnedInv
    <3>3. Told(NoProxyHeaders) = {}
      BY DEF Told, NoProxyHeaders
    <3>4. chain \in Told(ProxyHeaders(ep, in))
      BY <2>2, <3>3 DEF VouchedInv
    <3> QED BY <3>2, <3>4, ProxiesVouchedFor DEF TypeInv, VouchedInv, Trustworthy
  <2> QED BY <2>1, <2>2 DEF ClientIsVouchedFor
<1> QED BY <1>1, TypeAlways, EarnedAlways, VouchedAlways, PTL

-----------------------------------------------------------------------------
(* What backends are asked with.                                           *)

WarrantedAfter(calls, verdicts) ==
  \A k \in DOMAIN calls :
    /\ calls[k].rule \in 1..(Len(verdicts) + 1)
    /\ \A i \in 1..(calls[k].rule - 1) : verdicts[i].outcome = "pass"
    /\ Warranted(ep.rules[calls[k].rule].auth, admission.credentials, calls[k].credentials)

CallsInv == WarrantedAfter(sent, history)

\* The call about to be made is one of these.
LEMMA CallWarranted ==
  ASSUME TypeInv, EarnedInv, CallsInv, pc = "backend", More, sent' = Append(sent, Call)
  PROVE  WarrantedAfter(sent', history)
<1>1. Call \in Calls
  BY CallType
<1>2. Warranted(Rule.auth, admission.credentials, Applied(Given))
  BY ForwardsWarranted, CredentialsType DEF TypeInv, Directed, Given
<1>3. Warranted(Rule.auth, admission.credentials, Call.credentials)
  <2>1. Call.credentials \subseteq Applied(Given)
    BY DEF Call
  <2> QED BY <1>2, <2>1 DEF Warranted
<1>4. Call.rule = Len(history) + 1 /\ Len(history) \in Nat /\ DOMAIN history = 1..Len(history)
  BY SequenceType DEF Call, TypeInv, TypeOK
<1>5. \A i \in 1..(Call.rule - 1) : history[i].outcome = "pass"
  <2>1. AllPass
    BY DEF EarnedInv
  <2>2. Call.rule - 1 = Len(history)
    BY <1>4
  <2> QED BY <1>4, <2>1, <2>2 DEF AllPass
<1>6. ep.rules[Call.rule].auth = Rule.auth
  BY <1>4 DEF Rule
<1>7. \A k \in DOMAIN sent : sent'[k] = sent[k]
  BY <1>1, SentGrows
<1> SUFFICES ASSUME NEW k \in DOMAIN sent'
             PROVE  /\ sent'[k].rule \in 1..(Len(history) + 1)
                    /\ \A i \in 1..(sent'[k].rule - 1) : history[i].outcome = "pass"
                    /\ Warranted(ep.rules[sent'[k].rule].auth, admission.credentials,
                                 sent'[k].credentials)
  BY DEF WarrantedAfter
<1>8. CASE k \in DOMAIN sent
  BY <1>7, <1>8 DEF CallsInv, WarrantedAfter
<1>9. CASE k \notin DOMAIN sent
  <2>1. sent'[k] = Call
    BY <1>1, <1>9, SentGrows
  <2>2. Call.rule \in 1..(Len(history) + 1)
    BY <1>4
  <2> QED BY <1>3, <1>5, <1>6, <2>1, <2>2
<1> QED BY <1>8, <1>9

\* A longer history does not disturb them.
LEMMA CallsStayWarranted ==
  ASSUME TypeInv, NEW calls, WarrantedAfter(calls, history), NEW entry \in Verdicted
  PROVE  WarrantedAfter(calls, Append(history, entry))
<1> DEFINE longer == Append(history, entry)
<1>1. Len(history) \in Nat /\ Len(longer) = Len(history) + 1
      /\ \A i \in 1..Len(history) : longer[i] = history[i]
  <2>1. history \in Seq(Verdicted)
    BY DEF TypeInv, TypeOK
  <2> QED BY <2>1, AppendKeeps, SequenceType
<1> HIDE DEF longer
<1>2. ASSUME NEW k \in DOMAIN calls
      PROVE  /\ calls[k].rule \in 1..(Len(longer) + 1)
             /\ \A i \in 1..(calls[k].rule - 1) : longer[i].outcome = "pass"
  <2>1. calls[k].rule \in 1..(Len(history) + 1)
        /\ \A i \in 1..(calls[k].rule - 1) : history[i].outcome = "pass"
    BY <1>2 DEF WarrantedAfter
  <2> QED BY <1>1, <2>1
<1>3. WarrantedAfter(calls, longer)
  BY <1>2 DEF WarrantedAfter
<1> QED BY <1>3 DEF longer

\* A rule's conclusion leaves the calls warranted.
LEMMA ConcludeWarranted ==
  ASSUME TypeInv, WarrantedAfter(sent', history), NEW o \in Outcomes,
         NEW by \in {"auth", "local", "cache", "failed", "backend"},
         NEW asker \in Asks, NEW b \in Backends, Conclude(o, by, asker, b),
         UNCHANGED <<request, admission>>
  PROVE  CallsInv'
<1> DEFINE entry == [outcome |-> o, by |-> by, asker |-> asker, backend |-> b]
<1>1. entry \in Verdicted
  BY DEF Verdicted
<1>2. history' = Append(history, entry)
  BY DEF Conclude
<1>3. WarrantedAfter(sent', history')
  BY <1>1, <1>2, CallsStayWarranted
<1> QED BY <1>3 DEF CallsInv, WarrantedAfter, request

\* CallsInv holds throughout.
LEMMA CallsAlways == Spec => []CallsInv
<1>1. Init => CallsInv
  <2> SUFFICES ASSUME Init PROVE CallsInv
    OBVIOUS
  <2>1. sent = <<>>
    BY DEF Init
  <2> QED BY <2>1, EmptySequenceType DEF CallsInv, WarrantedAfter
<1>2. TypeInv /\ EarnedInv /\ CallsInv /\ [Next]_vars => CallsInv'
  <2> SUFFICES ASSUME TypeInv, EarnedInv, CallsInv, [Next]_vars PROVE CallsInv'
    OBVIOUS
  <2>1. CASE UNCHANGED <<request, admission, history, sent>>
    BY <2>1 DEF CallsInv, WarrantedAfter, request
  <2>2. CASE RejectProxy \/ Challenge \/ Admit
    <3>1. sent = <<>> /\ sent' = sent
      BY <2>2 DEF EarnedInv, RejectProxy, Challenge, Admit
    <3> QED BY <3>1, EmptySequenceType DEF CallsInv, WarrantedAfter
  <2>3. CASE FetchPage
    <3>1. WarrantedAfter(sent', history)
      BY <2>3, CallWarranted DEF FetchPage
    <3> QED BY <2>3, <3>1 DEF FetchPage, CallsInv, WarrantedAfter, request
  <2>4. CASE Concludes
    <3>1. PICK o \in Outcomes, by \in {"auth", "local", "cache", "failed", "backend"},
               asker \in Asks, b \in Backends : Conclude(o, by, asker, b)
      BY <2>4, ConcludesType
    <3>2. WarrantedAfter(sent', history)
      BY <2>4, ConcludesType, CallWarranted DEF FetchFails, CallsInv
    <3> QED BY <2>4, <3>1, <3>2, ConcludesType, ConcludeWarranted
  <2> QED BY <2>1, <2>2, <2>3, <2>4
       DEF Next, Concludes, CurateHeaders, PlanRules, CallBackend, RenderResponse, Reply,
           Done, vars, request
<1> QED BY <1>1, <1>2, TypeAlways, EarnedAlways, PTL DEF Spec

\* A call the backend gets is made for an admitted request that every earlier
\* rule passed, and carries only credentials that a group all of whose matchers
\* hold allows. (prepareRuleAuth, applyAuthForwards, Execute of rule_execution)
THEOREM BackendCallsAreWarranted == Spec => []CallsAreWarranted
<1>1. TypeInv /\ EarnedInv /\ CallsInv => CallsAreWarranted
  <2> SUFFICES ASSUME TypeInv, EarnedInv, CallsInv, NEW k \in DOMAIN sent
               PROVE  CallIsWarranted(sent[k])
    BY DEF CallsAreWarranted
  <2>1. admission.authenticated
    BY EmptySequenceType DEF EarnedInv
  <2> QED BY <2>1 DEF CallsInv, WarrantedAfter, Warranted, CallIsWarranted
<1> QED BY <1>1, TypeAlways, EarnedAlways, CallsAlways, PTL

-----------------------------------------------------------------------------
(* The pages a rule is decided on.  While a walk is on, the state the rule *)
(* before left is gone, and the pages so far are a walk of the rule's own. *)

Judged(page, def) ==
  /\ page.accepted <=> page.status \in def.accepts
  /\ ~def.paging => page.next = NoURL

WalkOn(pages, link, def) ==
  /\ pages = <<>> => link = def.url
  /\ pages # <<>> => pages[1].link = def.url /\ link = pages[Len(pages)].next
  /\ Len(pages) <= IF def.paging THEN def.maxPages ELSE 1
  /\ \A i \in 1..(Len(pages) - 1) : pages[i + 1].link = pages[i].next
  /\ \A i, j \in DOMAIN pages : pages[i].link = pages[j].link => i = j
  /\ \A i \in DOMAIN pages : Judged(pages[i], def)

OwnPages(h, i) ==
  LET b == h[i].backend
  IN  IF h[i].by = "backend"
        THEN /\ IsWalk(b.pages, ep.rules[i])
             /\ b.accepted <=> b.pages[Len(b.pages)].status \in ep.rules[i].accepts
        ELSE b.pages = <<>> /\ ~b.requested

PagesInv ==
  /\ pc = "backend" => /\ WalkOn(fetch.pages, fetch.link, Rule)
                       /\ backend.pages = <<>> /\ ~backend.requested
  /\ \A i \in DOMAIN history : OwnPages(history, i)

\* A page more, which is the one linked to and was not visited yet.
LEMMA WalkGoesOn ==
  ASSUME NEW pages \in Seq(Fetched), NEW link, NEW def \in RuleDefs,
         WalkOn(pages, link, def), link # NoURL, Len(pages) < def.maxPages,
         \A i \in DOMAIN pages : pages[i].link # link,
         NEW page \in Fetched, page.link = link, Judged(page, def)
  PROVE  WalkOn(Append(pages, page), page.next, def)
<1> DEFINE n == Len(pages)
           more == Append(pages, page)
<1>1. /\ n \in Nat /\ DOMAIN pages = 1..n /\ (pages = <<>> <=> n = 0)
      /\ more \in Seq(Fetched) /\ Len(more) = n + 1 /\ DOMAIN more = 1..(n + 1)
      /\ more[n + 1] = page /\ more # <<>>
      /\ \A i \in 1..n : more[i] = pages[i]
  BY AppendKeeps, SequenceType, EmptySequenceType
<1>2. def.maxPages \in Nat /\ def.paging \in BOOLEAN
  BY DEF RuleDefs
<1> HIDE DEF n, more
<1>3. more[1].link = def.url
  <2>1. CASE n = 0
    BY <1>1, <2>1 DEF WalkOn
  <2>2. CASE n # 0
    <3>1. 1 \in 1..n
      BY <1>1, <2>2
    <3> QED BY <1>1, <2>2, <3>1 DEF WalkOn
  <2> QED BY <2>1, <2>2
<1>4. Len(more) <= IF def.paging THEN def.maxPages ELSE 1
  <2>1. CASE def.paging
    BY <1>1, <1>2, <2>1 DEF n
  <2>2. CASE ~def.paging
    <3>1. n = 0
      <4> SUFFICES ASSUME n # 0 PROVE FALSE
        OBVIOUS
      <4>1. n \in DOMAIN pages /\ link = pages[n].next
        BY <1>1 DEF WalkOn, n
      <4>2. Judged(pages[n], def)
        BY <4>1 DEF WalkOn
      <4> QED BY <2>2, <4>1, <4>2 DEF Judged
    <3> QED BY <1>1, <2>2, <3>1
  <2> QED BY <2>1, <2>2
<1>5. ASSUME NEW i \in 1..(Len(more) - 1) PROVE more[i + 1].link = more[i].next
  <2>1. i \in 1..n /\ i \in Nat
    BY <1>1
  <2>2. CASE i = n
    <3>1. pages # <<>> /\ link = pages[n].next
      BY <1>1, <2>1, <2>2 DEF WalkOn, n
    <3> QED BY <1>1, <2>1, <2>2, <3>1
  <2>3. CASE i # n
    <3>1. i \in 1..(n - 1) /\ i + 1 \in 1..n
      BY <1>1, <2>1, <2>3
    <3>2. pages[i + 1].link = pages[i].next
      BY <3>1 DEF WalkOn, n
    <3> QED BY <1>1, <2>1, <3>1, <3>2
  <2> QED BY <2>2, <2>3
<1>6. ASSUME NEW i \in DOMAIN more, NEW j \in DOMAIN more, more[i].link = more[j].link
      PROVE  i = j
  <2>1. CASE i \in 1..n /\ j \in 1..n
    BY <1>1, <1>6, <2>1 DEF WalkOn
  <2>2. CASE ~(i \in 1..n /\ j \in 1..n)
    BY <1>1, <1>6, <2>2
  <2> QED BY <2>1, <2>2
<1>7. ASSUME NEW i \in DOMAIN more PROVE Judged(more[i], def)
  <2>1. CASE i \in 1..n
    BY <1>1, <2>1 DEF WalkOn
  <2>2. CASE i = n + 1
    BY <1>1, <2>2
  <2> QED BY <1>1, <1>7, <2>1, <2>2
<1>8. more # <<>> /\ page.next = more[Len(more)].next
  BY <1>1
<1>9. WalkOn(more, page.next, def)
  BY <1>3, <1>4, <1>5, <1>6, <1>7, <1>8 DEF WalkOn
<1> QED BY <1>9 DEF more

\* When no page is to be fetched any more, the walk is complete.
LEMMA WalkEnds ==
  ASSUME TypeInv, PagesInv, pc = "backend", ~More
  PROVE  /\ IsWalk(fetch.pages, Rule)
         /\ fetch.pages[Len(fetch.pages)].accepted <=>
              fetch.pages[Len(fetch.pages)].status \in Rule.accepts
<1>1. WalkOn(fetch.pages, fetch.link, Rule)
  BY DEF PagesInv
<1>2. fetch.pages # <<>> /\ Len(fetch.pages) \in DOMAIN fetch.pages
  BY FirstPageIsFetched
<1>3. \/ fetch.link = NoURL \/ ~(Len(fetch.pages) < Rule.maxPages)
      \/ \E i \in DOMAIN fetch.pages : fetch.pages[i].link = fetch.link
  BY DEF More
<1>4. Judged(fetch.pages[Len(fetch.pages)], Rule)
  BY <1>1, <1>2 DEF WalkOn
<1>5. IsWalk(fetch.pages, Rule)
  <2> DEFINE pages == fetch.pages
             next  == pages[Len(pages)].next
  <2>1. /\ pages # <<>> /\ pages[1].link = Rule.url /\ fetch.link = next
        /\ Len(pages) <= IF Rule.paging THEN Rule.maxPages ELSE 1
        /\ \A i \in 1..(Len(pages) - 1) : pages[i + 1].link = pages[i].next
        /\ \A i, j \in DOMAIN pages : pages[i].link = pages[j].link => i = j
    BY <1>1, <1>2 DEF WalkOn
  <2>2. Rule.paging /\ Len(pages) < Rule.maxPages =>
          next = NoURL \/ \E i \in DOMAIN pages : pages[i].link = next
    BY <1>3, <2>1
  <2> QED BY <2>1, <2>2 DEF IsWalk
<1> QED BY <1>4, <1>5 DEF Judged

\* A verdict joins the history with its own pages, and the rules before it keep
\* theirs.
LEMMA ConcludePages ==
  ASSUME TypeInv, PagesInv, pc \in {"rule", "backend"},
         NEW o, NEW by, NEW asker, NEW b, Conclude(o, by, asker, b), TypeInv',
         IF by = "backend"
           THEN /\ IsWalk(b.pages, Rule)
                /\ b.accepted <=> b.pages[Len(b.pages)].status \in Rule.accepts
           ELSE b.pages = <<>> /\ ~b.requested,
         UNCHANGED request
  PROVE  PagesInv'
<1> DEFINE entry == [outcome |-> o, by |-> by, asker |-> asker, backend |-> b]
           n == Len(history)
<1>1. history' = Append(history, entry) /\ pc' \in {"rule", "response"} /\ ep' = ep
  BY DEF Conclude, Continue, request
<1>2. /\ n \in Nat /\ DOMAIN history = 1..n /\ DOMAIN history' = 1..(n + 1)
      /\ history'[n + 1] = entry
      /\ \A i \in 1..n : history'[i] = history[i]
  <2>1. history \in Seq(Verdicted) /\ history' \in Seq(Verdicted)
    BY DEF TypeInv, TypeOK
  <2> QED BY <1>1, <2>1
<1>3. OwnPages(history', n + 1)
  <2>1. history'[n + 1].by = by /\ history'[n + 1].backend = b /\ ep.rules[n + 1] = Rule
    BY <1>2 DEF Rule
  <2> QED BY <2>1 DEF OwnPages
<1> HIDE DEF n
<1>4. ASSUME NEW i \in 1..n PROVE OwnPages(history', i)
  <2>1. OwnPages(history, i) /\ history'[i] = history[i]
    BY <1>2, <1>4 DEF PagesInv
  <2> QED BY <2>1 DEF OwnPages
<1>5. \A i \in DOMAIN history' : OwnPages(history', i)
  BY <1>2, <1>3, <1>4
<1> QED BY <1>1, <1>5 DEF PagesInv, OwnPages

\* A walk begins with the rule's URL and goes on from page to page.
LEMMA PagesOfWalk ==
  ASSUME TypeInv, PagesInv, CallBackend \/ FetchPage
  PROVE  PagesInv'
<1>1. Rule' = Rule /\ UNCHANGED <<ep, history>>
  BY DEF CallBackend, FetchPage, request, Rule
<1>2. \A i \in DOMAIN history : OwnPages(history, i)'
  BY <1>1 DEF PagesInv, OwnPages
<1>3. CASE CallBackend
  <2>1. /\ fetch'.pages = <<>> /\ fetch'.link = Rule.url
        /\ backend'.pages = <<>> /\ ~backend'.requested
    BY <1>3 DEF CallBackend, ResetBackend, EmptyBackend
  <2>2. WalkOn(fetch'.pages, fetch'.link, Rule)
    <3>1. Rule.maxPages \in Nat \ {0}
      BY <1>3, RuleType DEF CallBackend, RuleDefs
    <3> QED BY <2>1, <3>1, EmptySequenceType DEF WalkOn
  <2> QED BY <1>1, <1>2, <2>1, <2>2 DEF PagesInv
<1>4. CASE FetchPage
  <2> DEFINE page(status, next) ==
        [link |-> fetch.link, url |-> Call.url, status |-> status,
         accepted |-> status \in Rule.accepts, next |-> next]
  <2>1. PICK status \in Statuses, next \in NextLinks :
          /\ fetch' = [link |-> next, pages |-> Append(fetch.pages, page(status, next))]
          /\ backend' = [backend EXCEPT !.accepted = @ \/ page(status, next).accepted]
    BY <1>4 DEF FetchPage
  <2>2. page(status, next) \in Fetched /\ fetch.pages \in Seq(Fetched) /\ Rule \in RuleDefs
    BY <1>4, PageType, RuleType DEF FetchPage, TypeInv, TypeOK
  <2>3. Judged(page(status, next), Rule)
    BY DEF Judged, NextLinks
  <2>4. page(status, next).link = fetch.link /\ page(status, next).next = next
    OBVIOUS
  <2>5. /\ fetch.link # NoURL /\ Len(fetch.pages) < Rule.maxPages
        /\ \A i \in DOMAIN fetch.pages : fetch.pages[i].link # fetch.link
        /\ WalkOn(fetch.pages, fetch.link, Rule)
        /\ backend.pages = <<>> /\ ~backend.requested
    BY <1>4 DEF FetchPage, More, PagesInv
  <2> HIDE DEF page
  <2>6. WalkOn(fetch'.pages, fetch'.link, Rule)
    BY <2>1, <2>2, <2>3, <2>4, <2>5, WalkGoesOn
  <2>7. backend'.pages = <<>> /\ ~backend'.requested
    <3>1. backend \in Backends
      BY DEF TypeInv, TypeOK
    <3> QED BY <2>1, <2>5, <3>1 DEF Backends
  <2> QED BY <1>1, <1>2, <2>6, <2>7 DEF PagesInv
<1> QED BY <1>3, <1>4

\* Whatever a rule concludes from, its pages are its own.
LEMMA PagesOfVerdicts ==
  ASSUME TypeInv, PagesInv, TypeInv', Concludes
  PROVE  PagesInv'
<1>1. pc \in {"rule", "backend"} /\ UNCHANGED request
  BY ConcludesType
<1>2. \A b : ResetBackend(b).pages = <<>> /\ ~ResetBackend(b).requested
  BY DEF ResetBackend, EmptyBackend
<1>3. CASE NoGroupMatches
  BY <1>1, <1>2, <1>3, ConcludePages DEF NoGroupMatches
<1>4. CASE RenderFails
  BY <1>1, <1>2, <1>4, ConcludePages DEF RenderFails
<1>5. CASE DecideLocally
  <2>1. PICK o : Conclude(o, "local", in, [ResetBackend(backend) EXCEPT !.accepted = TRUE])
    BY <1>5 DEF DecideLocally
  <2>2. /\ [ResetBackend(backend) EXCEPT !.accepted = TRUE].pages = <<>>
        /\ ~[ResetBackend(backend) EXCEPT !.accepted = TRUE].requested
    BY DEF ResetBackend, EmptyBackend
  <2> QED BY <1>1, <2>1, <2>2, ConcludePages
<1>6. CASE ReuseVerdict
  BY <1>1, <1>2, <1>6, ConcludePages DEF ReuseVerdict
<1>7. CASE FetchFails
  BY <1>1, <1>7, ConcludePages DEF FetchFails, PagesInv
<1>8. CASE Decide
  <2> DEFINE answer == [requested |-> TRUE, pages |-> fetch.pages,
                        accepted |-> fetch.pages[Len(fetch.pages)].accepted]
  <2>1. PICK o : Conclude(o, "backend", in, answer)
    BY <1>8 DEF Decide
  <2>2. /\ IsWalk(answer.pages, Rule)
        /\ answer.accepted <=> answer.pages[Len(answer.pages)].status \in Rule.accepts
    BY <1>8, WalkEnds DEF Decide
  <2> HIDE DEF answer
  <2> QED BY <1>1, <2>1, <2>2, ConcludePages
<1> QED BY <1>3, <1>4, <1>5, <1>6, <1>7, <1>8 DEF Concludes

\* PagesInv holds throughout.
LEMMA PagesAlways == Spec => []PagesInv
<1>1. Init => PagesInv
  <2> SUFFICES ASSUME Init PROVE PagesInv
    OBVIOUS
  <2>1. pc = "admission" /\ history = <<>>
    BY DEF Init
  <2> QED BY <2>1, EmptySequenceType DEF PagesInv
<1>2. TypeInv /\ TypeInv' /\ PagesInv /\ [Next]_vars => PagesInv'
  <2> SUFFICES ASSUME TypeInv, TypeInv', PagesInv, [Next]_vars PROVE PagesInv'
    OBVIOUS
  <2>1. CASE CallBackend \/ FetchPage
    BY <2>1, PagesOfWalk
  <2>2. CASE Concludes
    BY <2>2, PagesOfVerdicts
  <2>3. CASE UNCHANGED vars
    BY <2>3 DEF PagesInv, OwnPages, Rule, vars
  <2>4. CASE UNCHANGED <<request, history>> /\ pc' # "backend"
    BY <2>4 DEF PagesInv, OwnPages, request
  <2> QED BY <2>1, <2>2, <2>3, <2>4
       DEF Next, Concludes, RejectProxy, Challenge, Admit, CurateHeaders, PlanRules,
           RenderResponse, Reply, Done
<1> QED BY <1>1, <1>2, TypeAlways, PTL DEF Spec

\* Each rule is decided on all the pages of its own walk, and on no page of an
\* earlier rule or of a walk that failed. (backendInteractionAgent.Execute,
\* resetBackendState)
THEOREM PagesAreTheRulesOwn == Spec => []RulesReadTheirOwnPages
<1>1. PagesInv => RulesReadTheirOwnPages
  BY DEF PagesInv, OwnPages, RulesReadTheirOwnPages
<1> QED BY <1>1, PagesAlways, PTL

-----------------------------------------------------------------------------
(* Whose verdicts a request is given.  The key a request with one source   *)
(* is known by determines its credentials.                                 *)

CredentialsBehind(key) ==
  IF key.kind = "auth"
    THEN {Credential(s, Absent, key.value) : s \in {t \in ep.schemes : key.name = t /\ key.value # Blank}}
  ELSE IF key.kind = "header" THEN {Credential("header", key.name, key.value)}
  ELSE IF key.kind = "query" /\ key.value \in Secrets
    THEN {Credential("query", key.name, key.value)}
  ELSE {}

\* The first name held is one that is held.
LEMMA FirstHeldIsHeld ==
  ASSUME NEW N, NEW names \in Seq(N), NEW values, Held(names, values) # {}
  PROVE  FirstHeld(names, values) \in Elements(names) /\ values[FirstHeld(names, values)] # Absent
<1> DEFINE held == Held(names, values)
<1>1. held \subseteq DOMAIN names /\ \A i \in held : values[names[i]] # Absent
  BY DEF Held
<1>2. held \subseteq Nat
  BY <1>1, SequenceType
<1>3. \E i \in held : \A j \in held : i <= j
  <2>1. held # {}
    OBVIOUS
  <2> HIDE DEF held
  <2> QED BY <1>2, <2>1, LeastNumber
<1>4. PICK i \in held : FirstHeld(names, values) = names[i]
  BY <1>3 DEF FirstHeld
<1> QED BY <1>1, <1>4 DEF Elements

\* Without one, no name has a value.
LEMMA NoneHeld ==
  ASSUME NEW names, NEW values, Held(names, values) = {}
  PROVE  \A n \in Elements(names) : values[n] = Absent
  BY DEF Held, Elements

\* The credentials of a request with one source can be told from its key.
LEMMA CollectedBehindKey ==
  ASSUME AsAsked, NEW asked \in Asks, ~ep.none, OneSource(asked)
  PROVE  Collected(ep, asked) = CredentialsBehind(Extracted(ep, asked))
<1>1. /\ ep.headers \in Seq(HeaderNames) /\ ep.queries \in Seq(QueryNames)
      /\ Anonymous(ep) = {} /\ Absent \notin Secrets
  BY AskedType, SentinelsApart DEF Anonymous
<1>2. /\ Elements(ep.headers) \subseteq HeaderNames /\ Elements(ep.queries) \subseteq QueryNames
      /\ \A n \in Elements(ep.headers) : asked.headers[n] \in Secrets \union {Absent}
  BY <1>1, SequenceType DEF Elements, Asks
<1> DEFINE headers == {n \in Elements(ep.headers) : asked.headers[n] # Absent}
           queries == {n \in Elements(ep.queries) : asked.queries[n] # Absent}
<1>3. headers = {} => FromHeaders(ep, asked) = {}
  BY DEF FromHeaders
<1>4. queries = {} => FromQueries(ep, asked) = {}
  BY <1>1 DEF FromQueries
<1>5. ~AuthorizationCounts(ep, asked) => FromAuthorization(ep, asked) = {}
  BY DEF AuthorizationCounts, FromAuthorization
<1>6. CASE AuthorizationCounts(ep, asked)
  <2>1. headers = {} /\ queries = {}
    BY <1>6 DEF OneSource
  <2>2. Extracted(ep, asked) = Source("auth", asked.authorization.scheme, asked.authorization.secret)
    BY <1>6 DEF Extracted
  <2>3. Collected(ep, asked) = FromAuthorization(ep, asked)
    BY <1>1, <1>3, <1>4, <2>1 DEF Collected
  <2>4. FromAuthorization(ep, asked) =
          {Credential(s, Absent, asked.authorization.secret) :
             s \in {t \in ep.schemes : asked.authorization.scheme = t
                                       /\ asked.authorization.secret # Blank}}
    BY <1>6 DEF FromAuthorization, AuthorizationCounts
  <2> QED BY <2>2, <2>3, <2>4 DEF CredentialsBehind, Source
<1>7. CASE ~AuthorizationCounts(ep, asked) /\ Held(ep.headers, asked.headers) # {}
  <2> DEFINE n == FirstHeld(ep.headers, asked.headers)
  <2>1. n \in headers
    BY <1>1, <1>7, FirstHeldIsHeld
  <2>2. headers = {n} /\ queries = {}
    BY <2>1 DEF OneSource
  <2>3. Collected(ep, asked) = FromHeaders(ep, asked)
    BY <1>1, <1>4, <1>5, <1>7, <2>2 DEF Collected
  <2>4. FromHeaders(ep, asked) = {Credential("header", n, asked.headers[n])}
    <3>1. FromHeaders(ep, asked) = {Credential("header", m, asked.headers[m]) : m \in headers}
      BY DEF FromHeaders
    <3> HIDE DEF headers, n
    <3> QED BY <2>2, <3>1
  <2>5. Extracted(ep, asked) = Source("header", n, asked.headers[n])
    BY <1>7 DEF Extracted
  <2> QED BY <2>3, <2>4, <2>5 DEF CredentialsBehind, Source
<1>8. CASE /\ ~AuthorizationCounts(ep, asked) /\ Held(ep.headers, asked.headers) = {}
           /\ Held(ep.queries, asked.queries) # {}
  <2> DEFINE n == FirstHeld(ep.queries, asked.queries)
  <2>1. n \in queries
    BY <1>1, <1>8, FirstHeldIsHeld
  <2>2. queries = {n} /\ headers = {}
    BY <1>8, <2>1, NoneHeld DEF OneSource
  <2>3. Collected(ep, asked) = FromQueries(ep, asked)
    BY <1>1, <1>3, <1>5, <1>8, <2>2 DEF Collected
  <2>4. FromQueries(ep, asked) =
          {Credential("query", m, asked.queries[m]) : m \in {k \in queries : asked.queries[k] \in Secrets}}
    BY <1>1 DEF FromQueries
  <2>5. Extracted(ep, asked) = Source("query", n, asked.queries[n])
    BY <1>8 DEF Extracted
  <2>6. CredentialsBehind(Extracted(ep, asked)) =
          IF asked.queries[n] \in Secrets THEN {Credential("query", n, asked.queries[n])} ELSE {}
    BY <2>5 DEF CredentialsBehind, Source
  <2> HIDE DEF queries, n
  <2>7. {k \in queries : asked.queries[k] \in Secrets} =
          IF asked.queries[n] \in Secrets THEN {n} ELSE {}
    BY <2>2
  <2> QED BY <2>3, <2>4, <2>6, <2>7
<1>9. CASE /\ ~AuthorizationCounts(ep, asked) /\ Held(ep.headers, asked.headers) = {}
           /\ Held(ep.queries, asked.queries) = {}
  <2>1. headers = {} /\ queries = {}
    BY <1>9, NoneHeld
  <2>2. Collected(ep, asked) = {}
    BY <1>1, <1>3, <1>4, <1>5, <1>9, <2>1 DEF Collected
  <2>3. Extracted(ep, asked) = Source("ip", Absent, asked.peer)
    BY <1>9 DEF Extracted
  <2> QED BY <2>2, <2>3 DEF CredentialsBehind, Source
<1> QED BY <1>6, <1>7, <1>8, <1>9

\* The request itself, or one that is known by the same key.
KnownAlike(asker, asked, e) ==
  \/ asker = asked
  \/ asker \in Asks /\ ~e.none /\ CallerKey(e, asker) = CallerKey(e, asked)

CallerInv ==
  /\ admission.authenticated => admission.credentials = Collected(ep, in)
  /\ \A i \in DOMAIN history : KnownAlike(history[i].asker, in, ep)

\* A rule's conclusion keeps CallerInv.
LEMMA ConcludeCaller ==
  ASSUME TypeInv, CallerInv, NEW o, NEW by, NEW asker, NEW b, Conclude(o, by, asker, b),
         KnownAlike(asker, in, ep), TypeInv', UNCHANGED <<request, admission>>
  PROVE  CallerInv'
<1> DEFINE entry == [outcome |-> o, by |-> by, asker |-> asker, backend |-> b]
           n == Len(history)
<1>1. history \in Seq(Verdicted) /\ history' \in Seq(Verdicted) /\ history' = Append(history, entry)
  BY DEF Conclude, TypeInv, TypeOK
<1>2. /\ n \in Nat /\ DOMAIN history = 1..n /\ DOMAIN history' = 1..(n + 1)
      /\ history'[n + 1] = entry
      /\ \A i \in 1..n : history'[i] = history[i]
  BY <1>1
<1>3. ep' = ep /\ in' = in /\ admission' = admission
  BY DEF request
<1>4. ASSUME NEW i \in DOMAIN history' PROVE KnownAlike(history'[i].asker, in', ep')
  <2>1. CASE i \in 1..n
    BY <1>2, <1>3, <2>1 DEF CallerInv
  <2>2. CASE i = n + 1
    BY <1>2, <1>3, <2>2
  <2> QED BY <1>2, <1>4, <2>1, <2>2
<1> QED BY <1>3, <1>4 DEF CallerInv

\* CallerInv holds throughout.
LEMMA CallerAlways == Spec => []CallerInv
<1>1. Init => CallerInv
  <2> SUFFICES ASSUME Init PROVE CallerInv
    OBVIOUS
  <2>1. ~admission.authenticated /\ history = <<>>
    BY DEF Init, NotAdmitted
  <2> QED BY <2>1, EmptySequenceType DEF CallerInv
<1>2. TypeInv /\ TypeInv' /\ CallerInv /\ [Next]_vars => CallerInv'
  <2> SUFFICES ASSUME TypeInv, TypeInv', CallerInv, [Next]_vars PROVE CallerInv'
    OBVIOUS
  <2>1. ASSUME UNCHANGED <<request, history>>,
               admission' = admission \/ admission' = AdmissionOf(FALSE, {})
                 \/ admission' = AdmissionOf(TRUE, Collected(ep, in))
        PROVE  CallerInv'
    BY <2>1 DEF CallerInv, KnownAlike, request, AdmissionOf
  <2>2. CASE UNCHANGED vars
    BY <2>1, <2>2 DEF vars, request
  <2>3. CASE RejectProxy \/ Challenge \/ Admit
    BY <2>1, <2>3 DEF RejectProxy, Challenge, Admit
  <2>4. CASE CurateHeaders \/ PlanRules \/ RenderResponse \/ Reply
    BY <2>1, <2>4 DEF CurateHeaders, PlanRules, RenderResponse, Reply
  <2>5. CASE CallBackend \/ FetchPage
    BY <2>1, <2>5 DEF CallBackend, FetchPage
  <2>6. CASE NoGroupMatches \/ RenderFails \/ DecideLocally
    BY <2>6, ConcludeCaller DEF NoGroupMatches, RenderFails, DecideLocally, KnownAlike
  <2>7. CASE FetchFails \/ Decide
    BY <2>7, ConcludeCaller DEF FetchFails, Decide, KnownAlike
  <2>8. CASE ReuseVerdict
    <3>1. PICK o \in {"pass", "fail"}, asker \in Askers :
            Conclude(o, "cache", asker, ResetBackend(backend))
      BY <2>8 DEF ReuseVerdict
    <3>2. asker \in Asks
      BY <3>1, AskersType
    <3>3. ~ep.none /\ CallerKey(ep, asker) = CallerKey(ep, in)
      BY <3>1 DEF Askers, CallerKey
    <3> QED BY <2>8, <3>1, <3>2, <3>3, ConcludeCaller DEF ReuseVerdict, KnownAlike
  <2> QED BY <2>2, <2>3, <2>4, <2>5, <2>6, <2>7, <2>8 DEF Next, Done
<1> QED BY <1>1, <1>2, TypeAlways, PTL DEF Spec

\* A verdict found in the cache was reached for the credentials of the request
\* that is given it. (extractCredential, deriveCacheKey, checkRuleCache)
THEOREM CallersKeepTheirVerdicts == Spec => []VerdictsStayWithTheirCaller
<1>1. TypeInv /\ EarnedInv /\ CallerInv => VerdictsStayWithTheirCaller
  <2> SUFFICES ASSUME TypeInv, EarnedInv, CallerInv, NEW i \in DOMAIN history,
                      OneSource(in), OneSource(history[i].asker)
               PROVE  Collected(ep, history[i].asker) = admission.credentials
    BY DEF VerdictsStayWithTheirCaller
  <2>1. admission.authenticated
    BY EmptySequenceType DEF EarnedInv
  <2>2. admission.credentials = Collected(ep, in) /\ KnownAlike(history[i].asker, in, ep)
    BY <2>1 DEF CallerInv
  <2>3. AsAsked /\ in \in Asks
    BY AskedType DEF TypeInv
  <2> QED BY <2>2, <2>3, CollectedBehindKey DEF KnownAlike, CallerKey
<1> QED BY <1>1, TypeAlways, EarnedAlways, CallerAlways, PTL

-----------------------------------------------------------------------------
(* Verdicts and clients.                                                   *)

\* The request itself, or one whose proxies are the same wherever rule tells its
\* backend of them.
ProxiedAlike(asker, asked, e, rule) ==
  \/ asker = asked
  \/ /\ ~ProxyRejected(e, asker)
     /\ e.proxyHeaders /\ rule.proxyHeaders /\ rule.includeProxyHeaders =>
          ProxyHeaders(e, asker) = ProxyHeaders(e, asked)

ClientInv == \A i \in DOMAIN history : ProxiedAlike(history[i].asker, in, ep, ep.rules[i])

\* The proxy headers of a request, if admission has left them, tell its client.
LEMMA ProxiesTellClient ==
  ASSUME NEW e, NEW asker, NEW asked, ProxyHeaders(e, asker) = ProxyHeaders(e, asked),
         ~ProxyRejected(e, asker), ~ProxyRejected(e, asked),
         ViaProxy(asked), ~ProxyStripped(e, asked)
  PROVE  Client(e, asker) = Client(e, asked)
<1>1. ProxyHeaders(e, asked) =
        [forwarded |-> asked.forwarded, forwardedFor |-> asked.forwardedFor, proto |-> asked.proto]
  BY DEF ProxyHeaders
<1>2. ~ProxyStripped(e, asker)
  BY <1>1 DEF ProxyHeaders, NoProxyHeaders, ViaProxy
<1>3. asker.forwarded = asked.forwarded /\ asker.forwardedFor = asked.forwardedFor
  BY <1>1, <1>2 DEF ProxyHeaders
<1>4. ViaProxy(asker) /\ ProxyChain(asker) = ProxyChain(asked)
  BY <1>3 DEF ViaProxy, ProxyChain
<1>5. /\ asker.peer # Malformed /\ Vouched(e, asker)
      /\ asked.peer # Malformed /\ Vouched(e, asked)
  BY <1>2, <1>4 DEF ProxyRejected, ProxyStripped
<1> QED BY <1>4, <1>5 DEF Client

\* A rule's conclusion keeps ClientInv.
LEMMA ConcludeClient ==
  ASSUME TypeInv, TypeInv', ClientInv, NEW o, NEW by, NEW asker, NEW b,
         Conclude(o, by, asker, b), ProxiedAlike(asker, in, ep, Rule), UNCHANGED request
  PROVE  ClientInv'
<1> DEFINE entry == [outcome |-> o, by |-> by, asker |-> asker, backend |-> b]
           n == Len(history)
<1>1. history \in Seq(Verdicted) /\ history' \in Seq(Verdicted) /\ history' = Append(history, entry)
  BY DEF Conclude, TypeInv, TypeOK
<1>2. /\ n \in Nat /\ DOMAIN history = 1..n /\ DOMAIN history' = 1..(n + 1)
      /\ history'[n + 1] = entry
      /\ \A i \in 1..n : history'[i] = history[i]
  BY <1>1
<1>3. ep' = ep /\ in' = in
  BY DEF request
<1>4. ASSUME NEW i \in DOMAIN history'
      PROVE  ProxiedAlike(history'[i].asker, in', ep', ep'.rules[i])
  <2>1. CASE i \in 1..n
    BY <1>2, <1>3, <2>1 DEF ClientInv
  <2>2. CASE i = n + 1
    BY <1>2, <1>3, <2>2 DEF Rule
  <2> QED BY <1>2, <2>1, <2>2
<1> QED BY <1>4 DEF ClientInv

\* ClientInv holds throughout.
LEMMA ClientAlways == Spec => []ClientInv
<1>1. Init => ClientInv
  BY EmptySequenceType DEF Init, ClientInv
<1>2. TypeInv /\ TypeInv' /\ ClientInv /\ [Next]_vars => ClientInv'
  <2> SUFFICES ASSUME TypeInv, TypeInv', ClientInv, [Next]_vars PROVE ClientInv'
    OBVIOUS
  <2>1. ASSUME UNCHANGED <<request, history>> PROVE ClientInv'
    BY <2>1 DEF ClientInv, ProxiedAlike, request
  <2>2. CASE UNCHANGED vars
    BY <2>1, <2>2 DEF vars, request
  <2>3. CASE RejectProxy \/ Challenge \/ Admit
    BY <2>1, <2>3 DEF RejectProxy, Challenge, Admit
  <2>4. CASE CurateHeaders \/ PlanRules \/ RenderResponse \/ Reply
    BY <2>1, <2>4 DEF CurateHeaders, PlanRules, RenderResponse, Reply
  <2>5. CASE CallBackend \/ FetchPage
    BY <2>1, <2>5 DEF CallBackend, FetchPage
  <2>6. CASE NoGroupMatches \/ RenderFails \/ DecideLocally
    BY <2>6, ConcludeClient DEF NoGroupMatches, RenderFails, DecideLocally, ProxiedAlike
  <2>7. CASE FetchFails \/ Decide
    BY <2>7, ConcludeClient DEF FetchFails, Decide, ProxiedAlike
  <2>8. CASE ReuseVerdict
    <3>1. PICK o \in {"pass", "fail"}, asker \in Askers :
            Conclude(o, "cache", asker, ResetBackend(backend))
      BY <2>8 DEF ReuseVerdict
    <3>2. ~ProxyRejected(ep, asker) /\ ProxiesFor(asker) = ProxiesFor(in)
      BY <3>1 DEF Askers
    <3>3. ProxiedAlike(asker, in, ep, Rule)
      BY <3>2 DEF ProxiedAlike, ProxiesFor
    <3> QED BY <2>8, <3>1, <3>3, ConcludeClient DEF ReuseVerdict
  <2> QED BY <2>2, <2>3, <2>4, <2>5, <2>6, <2>7, <2>8 DEF Next, Done
<1> QED BY <1>1, <1>2, TypeAlways, PTL DEF Spec

\* A verdict found in the cache was reached for the client of the request that is
\* given it, wherever the backend is told of the client and the rule has not opted
\* out. (buildBackendHash, renderBackendRequest, forwardpolicy)
THEOREM ClientsKeepTheirVerdicts == Spec => []VerdictsStayWithTheirClient
<1>1. TypeInv /\ EarnedInv /\ VouchedInv /\ ClientInv => VerdictsStayWithTheirClient
  <2> SUFFICES ASSUME TypeInv, EarnedInv, VouchedInv, ClientInv, NEW i \in DOMAIN history,
                      ep.proxyHeaders, ep.rules[i].proxyHeaders,
                      ep.rules[i].includeProxyHeaders,
                      ViaProxy(in), ~ProxyStripped(ep, in)
               PROVE  Client(ep, history[i].asker) = admission.client
    BY DEF VerdictsStayWithTheirClient
  <2>1. admission.authenticated /\ pc # "admission"
    BY EmptySequenceType DEF EarnedInv
  <2>2. ~ProxyRejected(ep, in) /\ admission.client = Client(ep, in)
    BY <2>1 DEF VouchedInv
  <2>3. ProxiedAlike(history[i].asker, in, ep, ep.rules[i])
    BY DEF ClientInv
  <2> QED BY <2>2, <2>3, ProxiesTellClient DEF ProxiedAlike
<1> QED BY <1>1, TypeAlways, EarnedAlways, VouchedAlways, ClientAlways, PTL

-----------------------------------------------------------------------------
(* A request ends.  What is left of it is a natural number of agents, of   *)
(* rules and of steps of the rule at hand, and each step makes it less.    *)

\* No rule is decided twice.
LengthInv == Len(history) <= Len(ep.rules)

LEMMA LengthAlways == Spec => []LengthInv
<1>1. Init => LengthInv
  <2> SUFFICES ASSUME Init PROVE LengthInv
    OBVIOUS
  <2>1. ep.rules \in Seq(RuleDefs) /\ history = <<>>
    BY InitType, AskedType DEF Init, TypeInv
  <2> QED BY <2>1, SequenceType, EmptySequenceType DEF LengthInv
<1>2. TypeInv /\ LengthInv /\ [Next]_vars => LengthInv'
  <2> SUFFICES ASSUME TypeInv, LengthInv, [Next]_vars PROVE LengthInv'
    OBVIOUS
  <2>1. CASE Concludes
    <3>1. history \in Seq(Verdicted) /\ Len(history) < Len(ep.rules) /\ ep.rules \in Seq(RuleDefs)
      BY <2>1, ConcludesType, AskedType DEF TypeInv, TypeOK
    <3>2. PICK o \in Outcomes, by \in {"auth", "local", "cache", "failed", "backend"},
               asker \in Asks, b \in Backends : Conclude(o, by, asker, b)
      BY <2>1, ConcludesType
    <3>3. ep' = ep /\ Len(history') = Len(history) + 1
      <4>1. [outcome |-> o, by |-> by, asker |-> asker, backend |-> b] \in Verdicted
        BY DEF Verdicted
      <4>2. Len(history') = Len(history) + 1
        BY <3>1, <3>2, <4>1, AppendKeeps DEF Conclude
      <4> QED BY <2>1, <4>2, ConcludesType DEF request
    <3>4. Len(history) \in Nat /\ Len(ep.rules) \in Nat
      BY <3>1, SequenceType
    <3> QED BY <3>1, <3>3, <3>4 DEF LengthInv
  <2>2. CASE UNCHANGED <<request, history>>
    BY <2>2 DEF LengthInv, request
  <2> QED BY <2>1, <2>2
       DEF Next, Concludes, RejectProxy, Challenge, Admit, CurateHeaders, PlanRules,
           CallBackend, FetchPage, RenderResponse, Reply, Done, vars, request
<1> QED BY <1>1, <1>2, TypeAlways, PTL DEF Spec

RunOutInv == TypeInv /\ PagesInv /\ LengthInv

\* There is never less than nothing left.
WorkInv ==
  /\ AgentsLeft \in Nat /\ RulesLeft \in Nat /\ PagesLeft \in Nat
  /\ pc = "backend" => Len(fetch.pages) \in Nat /\ Len(fetch.pages) <= Rule.maxPages
  /\ pc \in {"rule", "backend"} => Rule.maxPages \in Nat \ {0}

LEMMA WorkIsNatural == RunOutInv => WorkInv
<1> SUFFICES ASSUME RunOutInv PROVE WorkInv
  OBVIOUS
<1>1. ep.rules \in Seq(RuleDefs) /\ history \in Seq(Verdicted) /\ fetch.pages \in Seq(Fetched)
  BY AskedType DEF RunOutInv, TypeInv, TypeOK
<1>2. Len(ep.rules) \in Nat /\ Len(history) \in Nat /\ Len(fetch.pages) \in Nat
  BY <1>1, SequenceType
<1>3. RulesLeft \in Nat
  BY <1>2 DEF RunOutInv, LengthInv, RulesLeft
<1>4. AgentsLeft \in Nat
  BY DEF RunOutInv, TypeInv, TypeOK, AgentsLeft
<1>5. pc \in {"rule", "backend"} => Rule.maxPages \in Nat \ {0} /\ Rule.paging \in BOOLEAN
  BY RuleType DEF RunOutInv, RuleDefs
<1>6. pc = "backend" => Len(fetch.pages) <= Rule.maxPages
  <2>1. pc = "backend" => Len(fetch.pages) <= IF Rule.paging THEN Rule.maxPages ELSE 1
    BY DEF RunOutInv, PagesInv, WalkOn
  <2> QED BY <1>2, <1>5, <2>1
<1>7. PagesLeft \in Nat
  BY <1>2, <1>5, <1>6 DEF PagesLeft
<1> QED BY <1>2, <1>3, <1>4, <1>5, <1>6, <1>7 DEF WorkInv

\* A verdict is one rule less, or the end of the chain.
LEMMA VerdictRunsOut ==
  ASSUME RunOutInv, Concludes
  PROVE  IsLess(WorkLeft', WorkLeft)
<1>1. pc \in {"rule", "backend"} /\ ep' = ep /\ history \in Seq(Verdicted)
      /\ ep.rules \in Seq(RuleDefs)
  BY ConcludesType, AskedType DEF RunOutInv, TypeInv, TypeOK, request
<1>2. PICK o \in Outcomes, by \in {"auth", "local", "cache", "failed", "backend"},
           asker \in Asks, b \in Backends : Conclude(o, by, asker, b)
  BY ConcludesType DEF RunOutInv
<1>3. Len(history') = Len(history) + 1
  <2>1. [outcome |-> o, by |-> by, asker |-> asker, backend |-> b] \in Verdicted
    BY DEF Verdicted
  <2> QED BY <1>1, <1>2, <2>1, AppendKeeps DEF Conclude
<1>4. Len(history) \in Nat /\ Len(ep.rules) \in Nat
  BY <1>1, SequenceType
<1>5. RulesLeft' < RulesLeft
  BY <1>1, <1>3, <1>4 DEF RulesLeft
<1>6. AgentsLeft = 3 /\ AgentsLeft' \in {2, 3}
  BY <1>1, <1>2 DEF AgentsLeft, Conclude, Continue
<1> QED BY <1>5, <1>6 DEF IsLess, WorkLeft

\* Every other step is one agent less, or a step of the rule at hand.
LEMMA StepRunsOut == RunOutInv /\ WorkInv /\ WorkInv' /\ [Next]_vars => [RunsOut]_vars
<1> SUFFICES ASSUME RunOutInv, WorkInv, WorkInv', Next, ~UNCHANGED vars PROVE RunsOut
  OBVIOUS
<1>1. WorkLeft' \in Nat \X Nat \X Nat
  BY DEF WorkInv, WorkLeft
<1>2. CASE Concludes
  BY <1>1, <1>2, VerdictRunsOut DEF RunsOut
<1>3. CASE RejectProxy \/ Challenge \/ Admit \/ CurateHeaders \/ PlanRules
             \/ RenderResponse \/ Reply
  <2>1. \/ pc = "admission" /\ pc' \in {"reply", "forward"}
        \/ pc = "forward" /\ pc' = "chain"
        \/ pc = "chain" /\ pc' \in {"rule", "response"}
        \/ pc = "response" /\ pc' = "reply"
        \/ pc = "reply" /\ pc' = "done"
    BY <1>3 DEF RejectProxy, Challenge, Admit, CurateHeaders, PlanRules, RenderResponse, Reply
  <2>2. AgentsLeft' < AgentsLeft
    BY <2>1 DEF AgentsLeft
  <2> QED BY <1>1, <2>2 DEF RunsOut, IsLess, WorkLeft
<1>4. CASE CallBackend \/ FetchPage
  <2>1. ep' = ep /\ history' = history /\ pc \in {"rule", "backend"} /\ pc' = "backend"
    BY <1>4 DEF CallBackend, FetchPage, request
  <2>2. AgentsLeft' = AgentsLeft /\ RulesLeft' = RulesLeft /\ Rule' = Rule
    BY <2>1 DEF AgentsLeft, RulesLeft, Rule
  <2>3. PagesLeft' = Rule.maxPages - Len(fetch'.pages) /\ Rule.maxPages \in Nat
    BY <2>1, <2>2 DEF PagesLeft, WorkInv
  <2>4. CASE CallBackend
    <3>1. Len(fetch'.pages) = 0 /\ PagesLeft = Rule.maxPages + 1
      BY <2>4, EmptySequenceType DEF CallBackend, PagesLeft
    <3> QED BY <1>1, <2>2, <2>3, <3>1 DEF RunsOut, IsLess, WorkLeft
  <2>5. CASE FetchPage
    <3>1. pc = "backend" /\ PagesLeft = Rule.maxPages - Len(fetch.pages) /\ Len(fetch.pages) \in Nat
      BY <2>5 DEF FetchPage, PagesLeft, WorkInv
    <3>2. Len(fetch'.pages) = Len(fetch.pages) + 1
      <4>1. PICK page : fetch'.pages = Append(fetch.pages, page)
        BY <2>5 DEF FetchPage
      <4>2. fetch.pages \in Seq(Fetched)
        BY DEF RunOutInv, TypeInv, TypeOK
      <4> QED BY <4>1, <4>2
    <3> QED BY <1>1, <2>2, <2>3, <3>1, <3>2 DEF RunsOut, IsLess, WorkLeft
  <2> QED BY <1>4, <2>4, <2>5
<1> QED BY <1>2, <1>3, <1>4 DEF Next, Done, Concludes

\* Every request ends, for whatever rules and pages: no step of it goes back to
\* what was done, and there is an end to what can be left. (ServeAuth, Execute)
THEOREM RequestRunsOut == Spec => RequestsRunOut
<1>1. TypeInv /\ PagesInv /\ LengthInv => RunOutInv
  BY DEF RunOutInv
<1> QED BY <1>1, TypeAlways, PagesAlways, LengthAlways, WorkIsNatural, StepRunsOut, PTL
        DEF Spec, RequestsRunOut
=============================================================================
