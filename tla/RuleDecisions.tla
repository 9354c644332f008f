---------------------------- MODULE RuleDecisions ----------------------------
(***************************************************************************)
(* What one rule definition decides beyond its verdict, without any state  *)
(* of its own: the variables a verdict exports, the lifetime of a cached   *)
(* verdict and the key it is cached under                                  *)
(* (internal/runtime/rule_execution_agent.go, rule_cache.go, cache/).      *)
(*                                                                         *)
(* A definition is a record:                                               *)
(*   name    the rule's name                                               *)
(*   url     the backend URL, NoURL when no backend is configured          *)
(*   auth    whether it has auth directives                                *)
(*   accepts the statuses the backend may answer with to be accepted       *)
(*   conds   which of the condition lists are not empty                    *)
(*   exports for each outcome, how its exported variable is computed       *)
(*   strict, follow, ttl   its cache block                                 *)
(*   proxied  its cache block's includeProxyHeaders, TRUE when absent      *)
(*                                                                         *)
(* What a request adds to the backend request is in four parts, which the  *)
(* cache key treats differently: the payload is always in it, the proxy    *)
(* headers when the definition includes them, the rest never.              *)
(***************************************************************************)
EXTENDS Integers, Sequences, VerdictLadder

CONSTANTS
  Names,         \* rule names
  URLs,          \* backend URLs
  Endpoints,     \* endpoint names
  Callers,       \* a credential together with the request path
  Payloads,      \* what a request adds to the backend's URL, body and other headers
  Proxies,       \* what it adds to the proxy and CDN headers
  Traces,        \* what it adds to the tracing, timing and correlation headers
  Queries,       \* what it adds to the query parameters
  Bodies,        \* backend response bodies the exported variables distinguish
  Statuses,      \* the backend statuses the definitions tell apart
  Controls,      \* the Cache-Control lines of a backend answer, each a sequence of parts
  TTLs,          \* the durations, in ticks, that definitions name
  ServerMaxTTL,  \* server.cache.ttlSeconds in ticks; no ceiling unless positive
  Second,        \* ticks in a second
  HalfRange,     \* a time.Duration runs from -HalfRange to HalfRange - 1
  NoProxies,     \* no proxy header at all
  NoValue, Blank, NoDirective, Bare, Garbled

\* A part of a Cache-Control header: its key, and its value, which is Bare when
\* the part has no "=" and Garbled when strconv.Atoi makes no seconds of it.
Parts ==
  [key : {"max-age", "s-maxage", "no-cache", "no-store", "private", "other"},
   value : Nat \union {Bare, Garbled}]

ASSUME DurationsTyped ==
  /\ ServerMaxTTL \in Int
  /\ TTLs \subseteq Int
  /\ Second \in Nat \ {0}
  /\ HalfRange \in Nat \ {0}
  /\ NoDirective \notin Int
  /\ Controls \subseteq Seq(Seq(Parts))

ASSUME ProxiesMayBeAbsent == NoProxies \in Proxies

\* What the exported variable of an outcome is computed from: nothing, the
\* request, the backend's status or text, a field of the backend's JSON body.
ExportKinds == {"none", "request", "text", "field"}

\* Blank is what an expression over an empty backend state yields: status 0,
\* the empty text, the missing header.
Values == Bodies \union Payloads \union {Blank}

MaybeValues == Values \union {NoValue}

RuleDefs ==
  [name    : Names,
   url     : URLs \union {NoURL},
   auth    : BOOLEAN,
   accepts : SUBSET Statuses,
   conds   : SUBSET {"error", "fail", "pass"},
   exports : [Outcomes -> ExportKinds],
   strict  : BOOLEAN,
   proxied : BOOLEAN,
   follow  : BOOLEAN,
   ttl     : [{"pass", "fail"} -> TTLs]]

-----------------------------------------------------------------------------
(* Exported variables. body is NoValue when the backend state was reset.   *)

ExportValue(kind, payload, body) ==
  CASE kind = "none"    -> NoValue
    [] kind = "request" -> payload
    [] kind = "text"    -> IF body = NoValue THEN Blank ELSE body
    [] kind = "field"   -> body      \* a field of no body is an evaluation error

\* evaluateExportedVariables leaves the variables alone when nothing is
\* exported or the evaluation fails.
Exported(vars, def, value) ==
  IF value = NoValue THEN vars ELSE [vars EXCEPT ![def.name] = value]

-----------------------------------------------------------------------------
(* Lifetime and key of a cached verdict.                                   *)

\* captureResponseHeaders keeps the first line only.
Captured(lines) == IF lines = <<>> THEN <<>> ELSE Head(lines)

\* Mutant: a directive that forbids caching gives way to a lifetime.
ForbidsIfSilent(parts) ==
  /\ \E i \in DOMAIN parts :
       parts[i].key \in {"no-cache", "no-store", "private"} /\ parts[i].value = Bare
  /\ \A i \in DOMAIN parts : parts[i].value = Bare

\* no-cache, no-store or private, and without a value.
Forbids(parts) ==
  \E i \in DOMAIN parts :
    parts[i].key \in {"no-cache", "no-store", "private"} /\ parts[i].value = Bare

\* The last part that names the key with a valid number of seconds: the loop of
\* ParseCacheControl overwrites what it found before. It has at most one element.
LastOf(parts, key) ==
  LET valid == {i \in DOMAIN parts : parts[i].key = key /\ parts[i].value \in Nat}
  IN  {i \in valid : \A j \in valid : j <= i}

\* s-maxage takes precedence over max-age.
Lifetimes(parts) ==
  IF LastOf(parts, "s-maxage") # {} THEN LastOf(parts, "s-maxage")
                                    ELSE LastOf(parts, "max-age")

Seconds(parts) == parts[CHOOSE i \in Lifetimes(parts) : TRUE].value

\* The product of seconds and time.Second, in a signed integer of its width.
AsDuration(ticks) == ((ticks + HalfRange) % (2 * HalfRange)) - HalfRange

\* ParseCacheControl and GetTTL: NoDirective when the header says nothing.
CacheControlTTL(parts) ==
  IF Forbids(parts) THEN 0
  ELSE IF Lifetimes(parts) = {} THEN NoDirective
  ELSE AsDuration(Seconds(parts) * Second)

\* Mutant: the server's ceiling is not applied.
Uncapped(ttl) == ttl

UnderCeiling(ttl) ==
  IF ServerMaxTTL > 0 /\ ServerMaxTTL < ttl THEN ServerMaxTTL ELSE ttl

\* Mutant: an error is given the lifetime of a fail.
ErrorsLive(def, outcome, parts) ==
  UnderCeiling(def.ttl[IF outcome = "error" THEN "fail" ELSE outcome])

\* CalculateEffectiveTTL; the endpoint's ceiling it is given is always empty. What
\* is not positive is not stored.
EffectiveTTL(def, outcome, parts) ==
  IF outcome = "error" THEN 0
  ELSE IF def.follow /\ CacheControlTTL(parts) # NoDirective
    THEN UnderCeiling(CacheControlTTL(parts))
  ELSE UnderCeiling(def.ttl[outcome])

NoVars == [n \in Names |-> NoValue]

\* What a rule evaluation reads from its request: who asks which endpoint, the
\* rendered backend request and the variables exported before it.
RuleInputs ==
  [endpoint : Endpoints, caller : Callers, rule : Names,
   url : URLs \union {NoURL}, payload : Payloads, proxy : Proxies,
   trace : Traces, query : Queries, upstream : [Names -> MaybeValues],
   strict : BOOLEAN, proxied : BOOLEAN]

CacheKeys ==
  [endpoint : Endpoints, caller : Callers, rule : Names,
   url : URLs \union {NoURL}, payload : Payloads, proxy : Proxies,
   upstream : [Names -> MaybeValues]]

\* Mutant: strict rules do not key on the exported variables either.
NoUpstreamKey(strict, upstream) == NoVars

\* buildUpstreamVarsHash: strict rules key on the exported variables.
UpstreamKey(strict, upstream) == IF strict THEN upstream ELSE NoVars

\* Mutant: proxy headers are left out of every key.
NeverProxyKey(proxied, proxy) == NoProxies

\* Mutant: includeProxyHeaders is not looked at.
AlwaysProxyKey(proxied, proxy) == proxy

\* The exclusion of proxy headers in buildBackendHash: what is left out hashes
\* like headers that are not there.
ProxyKey(proxied, proxy) == IF proxied THEN proxy ELSE NoProxies

\* buildBackendHash over the descriptor, which holds the method, URL, headers and
\* body but not the query parameters; tracing, timing and correlation headers
\* are left out of the hash.
RuleCacheKey(in) ==
  [endpoint |-> in.endpoint, caller |-> in.caller, rule |-> in.rule,
   url |-> in.url, payload |-> in.payload,
   proxy |-> ProxyKey(in.proxied, in.proxy),
   upstream |-> UpstreamKey(in.strict, in.upstream)]
=============================================================================
