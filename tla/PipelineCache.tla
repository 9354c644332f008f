---------------------------- MODULE PipelineCache ----------------------------
(***************************************************************************)
(* Concurrent auth requests evaluating rule chains against one decision    *)
(* cache, while the rules watcher reloads the bundle and time passes.      *)
(*                                                                         *)
(* A request is a ServeAuth goroutine whose admission passed.  It keeps    *)
(* the endpoint it looked up for its whole life; the cache is shared and   *)
(* each call on it is one step, because memoryCache holds its mutex for    *)
(* the call and Redis runs one command at a time.  Time is relative: an    *)
(* entry carries the ticks it has left, which Tick decrements.             *)
(*                                                                         *)
(* inputs, bundle and control of an entry, settled and quiet are history   *)
(* variables: nothing in the program reads them.                           *)
(***************************************************************************)
EXTENDS RuleDecisions

CONSTANTS
  Requests,      \* ServeAuth goroutines
  Bundles,       \* rule bundles a reload may install
  Chain,         \* Chain[b][e]: the rule definitions of endpoint e in bundle b
  Anonymous,     \* Anonymous[b]: endpoints of bundle b that allow no credential
  Backend,       \* the decision cache in use: "memory" or "redis"
  NoEntry, NoRequest

ASSUME ConstantsTyped ==
  /\ \A b \in Bundles : \A e \in DOMAIN Chain[b] : Chain[b][e] \in Seq(RuleDefs)
  /\ Anonymous \in [Bundles -> SUBSET Endpoints]
  /\ Backend \in {"memory", "redis"}

VARIABLES
  bundle,    \* the installed bundle (p.endpoints, under p.mu)
  reloader,  \* where Pipeline.Reload is: "idle", "purge" or "invalidate"
  cache,     \* the decision cache: at most one entry per key
  pc,        \* where each request is
  req,       \* what each request asks, and the bundle it took its endpoint from
  exported,  \* state.Variables.Rules of each request
  history,   \* state.Rule.History of each request
  pending,   \* the entry a request is about to store
  settled,   \* history: requests that began when no reload was running
  quiet      \* history: no request of another bundle ran when the bundle was installed

local == <<pc, req, exported, history, pending, settled>>
vars  == <<bundle, reloader, cache, local, quiet>>

-----------------------------------------------------------------------------
Asks ==
  [endpoint : Endpoints, caller : Callers, payload : Payloads, proxy : Proxies,
   trace : Traces, query : Queries, bundle : Bundles]

\* The parts of the line that is kept of a Cache-Control header.
Headers == {<<>>} \union {Captured(lines) : lines \in Controls}

Entries ==
  [key : CacheKeys, outcome : {"pass", "fail"}, value : MaybeValues,
   ttl : Nat, left : Int, inputs : RuleInputs, bundle : Bundles,
   control : Headers]

\* One rule of a request's history: the inputs it was evaluated with, and the
\* entry it was answered from, NoEntry when it was evaluated live.
Verdicted ==
  [inputs : RuleInputs, outcome : Outcomes, source : Entries \union {NoEntry}]

Answers ==
  [status : Statuses, body : Bodies \union {NoValue}, lines : Controls]

\* Mutant: a chain that a reload has not made shorter is looked up again.
RulesNow(r) ==
  LET b == IF Len(Chain[bundle][req[r].endpoint]) > Len(history[r])
             THEN bundle ELSE req[r].bundle
  IN  Chain[b][req[r].endpoint]

Rules(r) == Chain[req[r].bundle][req[r].endpoint]

\* The rule the chain loop is at.
Rule(r) == Rules(r)[Len(history[r]) + 1]

InputsOf(r) ==
  [endpoint |-> req[r].endpoint, caller |-> req[r].caller, rule |-> Rule(r).name,
   url |-> Rule(r).url, payload |-> req[r].payload, proxy |-> req[r].proxy,
   trace |-> req[r].trace, query |-> req[r].query, upstream |-> exported[r],
   strict |-> Rule(r).strict, proxied |-> Rule(r).proxied]

\* Mutant: the rule's strict flag is not looked at when storing.
StrictStoreKey(r, after) ==
  RuleCacheKey([InputsOf(r) EXCEPT !.upstream = after, !.strict = TRUE])

\* storeRuleCache computes the key again, over the variables as they are by then.
StoreKey(r, after) == RuleCacheKey([InputsOf(r) EXCEPT !.upstream = after])

\* Mutant: anonymous callers share a key.
CacheableAnonymously(r) == TRUE

\* deriveCacheKey yields no key for endpoints that allow anonymous callers.
Cacheable(r) == req[r].endpoint \notin Anonymous[req[r].bundle]

\* time.Now().After(ExpiresAt): the instant of expiry itself is still fresh.
Fresh(e) == e.left >= 0

Found(r) == {e \in cache : e.key = RuleCacheKey(InputsOf(r))}

-----------------------------------------------------------------------------
Init ==
  /\ bundle \in Bundles
  /\ reloader = "idle"
  /\ cache = {}
  /\ pc = [r \in Requests |-> "idle"]
  /\ req = [r \in Requests |-> NoRequest]
  /\ exported = [r \in Requests |-> NoVars]
  /\ history = [r \in Requests |-> <<>>]
  /\ pending = [r \in Requests |-> NoEntry]
  /\ settled = {}
  /\ quiet = TRUE

\* Mutant: requests are routed by a table that a reload does not replace.
BeginAnywhere(r) ==
  /\ pc[r] = "idle"
  /\ \E a \in Asks :
       /\ a.endpoint \in DOMAIN Chain[a.bundle]
       /\ req' = [req EXCEPT ![r] = a]
       /\ pc' = [pc EXCEPT ![r] = IF Chain[a.bundle][a.endpoint] = <<>>
                                    THEN "respond" ELSE "rule"]
  /\ settled' = IF reloader = "idle" THEN settled \union {r} ELSE settled
  /\ UNCHANGED <<bundle, reloader, cache, exported, history, pending, quiet>>

\* endpointForRequest under p.mu.RLock, deriveCacheKey and the agents before
\* rule_execution: admission passed and the plan is ready.
Begin(r) ==
  /\ pc[r] = "idle"
  /\ \E a \in Asks :
       /\ a.bundle = bundle
       /\ a.endpoint \in DOMAIN Chain[bundle]
       /\ req' = [req EXCEPT ![r] = a]
       /\ pc' = [pc EXCEPT ![r] = IF Chain[bundle][a.endpoint] = <<>>
                                    THEN "respond" ELSE "rule"]
  /\ settled' = IF reloader = "idle" THEN settled \union {r} ELSE settled
  /\ UNCHANGED <<bundle, reloader, cache, exported, history, pending, quiet>>

\* Mutant: the loop stops one rule early.
StopEarly(r, outcome, n) ==
  IF outcome = "pass" /\ n + 1 < Len(Rules(r)) THEN "rule" ELSE "respond"

\* The loop of Execute after its n-th rule: on after a pass, else out.
Continue(r, outcome, n) ==
  IF outcome = "pass" /\ n < Len(Rules(r)) THEN "rule" ELSE "respond"

\* finishRule: the outcome's variables are evaluated over the backend state as
\* it stands (body) and join the variables known; the loop records the rule.
Conclude(r, outcome, source, known, body) ==
  LET value == ExportValue(Rule(r).exports[outcome], req[r].payload, body)
  IN  /\ exported' = [exported EXCEPT ![r] = Exported(known, Rule(r), value)]
      /\ history' = [history EXCEPT ![r] = Append(@,
           [inputs |-> InputsOf(r), outcome |-> outcome, source |-> source])]

Finish(r, outcome, source, known, body) ==
  /\ Conclude(r, outcome, source, known, body)
  /\ pc' = [pc EXCEPT ![r] = Continue(r, outcome, Len(history[r]) + 1)]

\* prepareRuleAuth finds no match or cannot build the forwards, or the backend
\* request does not render.
RuleRejects(r) ==
  /\ pc[r] = "rule"
  /\ \E outcome \in {"fail", "error"} :
       /\ outcome = "fail" => Rule(r).auth
       /\ outcome = "error" => Rule(r).auth \/ HasBackend(Rule(r))
       /\ Finish(r, outcome, NoEntry, exported[r], NoValue)
  /\ UNCHANGED <<bundle, reloader, cache, req, pending, settled, quiet>>

\* A rule without a backend is decided by its conditions and never cached.
EvaluateLocally(r) ==
  /\ pc[r] = "rule"
  /\ ~HasBackend(Rule(r))
  /\ \E outcome \in Verdicts(Rule(r), TRUE) :
       Finish(r, outcome, NoEntry, exported[r], NoValue)
  /\ UNCHANGED <<bundle, reloader, cache, req, pending, settled, quiet>>

\* Mutant: a hit renews the entry's lifetime.
RenewOnHit(r) ==
  /\ pc[r] = "rule" /\ HasBackend(Rule(r)) /\ Cacheable(r)
  /\ \E e \in Found(r) :
       /\ Fresh(e)
       /\ cache' = (cache \ {e}) \union {[e EXCEPT !.left = e.ttl]}
       /\ Finish(r, e.outcome, e, Exported(exported[r], Rule(r), e.value), NoValue)
  /\ UNCHANGED <<bundle, reloader, req, pending, settled, quiet>>

\* checkRuleCache hits: restoreFromCache, then finishRule, which evaluates the
\* exported variables again over the backend state evaluateRule has reset.
ServeFromCache(r) ==
  /\ pc[r] = "rule"
  /\ HasBackend(Rule(r))
  /\ Cacheable(r)
  /\ \E e \in Found(r) :
       /\ Fresh(e)
       /\ Finish(r, e.outcome, e, Exported(exported[r], Rule(r), e.value), NoValue)
  /\ UNCHANGED <<bundle, reloader, cache, req, pending, settled, quiet>>

\* checkRuleCache misses and the backend is called. memoryCache.Lookup deletes
\* the expired entry it finds; a Redis error counts as a miss.
MissCache(r) ==
  /\ pc[r] = "rule"
  /\ HasBackend(Rule(r))
  /\ \/ ~Cacheable(r) /\ UNCHANGED cache
     \/ Cacheable(r) /\ Backend = "redis" /\ UNCHANGED cache
     \/ /\ Cacheable(r)
        /\ \A e \in Found(r) : ~Fresh(e)
        /\ cache' = cache \ Found(r)
  /\ pc' = [pc EXCEPT ![r] = "backend"]
  /\ UNCHANGED <<bundle, reloader, req, exported, history, pending, settled, quiet>>

\* Mutant: a failed backend call is tried again without end.
BackendRetries(r) ==
  /\ pc[r] = "backend"
  /\ pc' = [pc EXCEPT ![r] = "rule"]
  /\ UNCHANGED <<bundle, reloader, cache, req, exported, history, pending, settled, quiet>>

\* The backend call fails or times out: an error outcome, which is not stored.
BackendFails(r) ==
  /\ pc[r] = "backend"
  /\ Finish(r, "error", NoEntry, exported[r], NoValue)
  /\ UNCHANGED <<bundle, reloader, cache, req, pending, settled, quiet>>

\* The entry storeRuleCache makes of a verdict, its exported variables and
\* the backend's answer.
EntryOf(r, ans, outcome) ==
  LET ttl   == EffectiveTTL(Rule(r), outcome, Captured(ans.lines))
      value == ExportValue(Rule(r).exports[outcome], req[r].payload, ans.body)
  IN  [key |-> StoreKey(r, Exported(exported[r], Rule(r), value)),
       outcome |-> outcome, value |-> value, ttl |-> ttl, left |-> ttl,
       inputs |-> InputsOf(r), bundle |-> req[r].bundle,
       control |-> IF Rule(r).follow THEN Captured(ans.lines) ELSE <<>>]

\* Conditions and exported variables are evaluated over the answer, and the
\* verdict is about to be stored if it has a key and a lifetime.
Decide(r, ans, outcome) ==
  /\ Conclude(r, outcome, NoEntry, exported[r], ans.body)
  /\ IF Cacheable(r) /\ EffectiveTTL(Rule(r), outcome, Captured(ans.lines)) > 0
       THEN /\ pending' = [pending EXCEPT ![r] = EntryOf(r, ans, outcome)]
            /\ pc' = [pc EXCEPT ![r] = "store"]
       ELSE /\ pc' = [pc EXCEPT ![r] = Continue(r, outcome, Len(history[r]) + 1)]
            /\ UNCHANGED pending

BackendAnswers(r) ==
  /\ pc[r] = "backend"
  /\ \E ans \in Answers :
       \E outcome \in Verdicts(Rule(r), ans.status \in Rule(r).accepts) :
         Decide(r, ans, outcome)
  /\ UNCHANGED <<bundle, reloader, cache, req, settled, quiet>>

Stored(r) ==
  /\ pc' = [pc EXCEPT ![r] = Continue(r, pending[r].outcome, Len(history[r]))]
  /\ pending' = [pending EXCEPT ![r] = NoEntry]
  /\ UNCHANGED <<bundle, reloader, req, exported, history, settled, quiet>>

\* DecisionCache.Store: the entry replaces whatever the key held, even a
\* verdict whose backend answer is the more recent one.
Store(r) ==
  /\ pc[r] = "store"
  /\ cache' = {e \in cache : e.key # pending[r].key} \union {pending[r]}
  /\ Stored(r)

\* A Redis error is logged and the rule's outcome stands.
StoreFails(r) ==
  /\ pc[r] = "store"
  /\ Backend = "redis"
  /\ UNCHANGED cache
  /\ Stored(r)

\* responsepolicy renders the response; the request and its state are gone.
Respond(r) ==
  /\ pc[r] = "respond"
  /\ pc' = [pc EXCEPT ![r] = "idle"]
  /\ req' = [req EXCEPT ![r] = NoRequest]
  /\ exported' = [exported EXCEPT ![r] = NoVars]
  /\ history' = [history EXCEPT ![r] = <<>>]
  /\ settled' = settled \ {r}
  /\ UNCHANGED <<bundle, reloader, cache, pending, quiet>>

Request(r) ==
  \/ RuleRejects(r) \/ EvaluateLocally(r) \/ ServeFromCache(r) \/ MissCache(r)
  \/ BackendFails(r) \/ BackendAnswers(r) \/ Store(r) \/ StoreFails(r) \/ Respond(r)

-----------------------------------------------------------------------------
(* Pipeline.Reload runs in the watcher's goroutine, one at a time.         *)

\* The bundle is swapped under p.mu; the cache is purged after p.mu is released.
SwapBundle(b) ==
  /\ reloader = "idle"
  /\ bundle' = b
  /\ reloader' = "purge"
  /\ quiet' = \A r \in Requests : pc[r] = "idle" \/ req[r].bundle = b
  /\ UNCHANGED <<cache, local>>

\* Mutant: the prefix of the purge matches no key.
NothingPurged == cache

\* DeletePrefix with the namespace and epoch every key begins with; Redis does
\* nothing.
Purged == IF Backend = "memory" THEN {} ELSE cache

PurgePrefix ==
  /\ reloader = "purge"
  /\ cache' = Purged
  /\ reloader' = "invalidate"
  /\ UNCHANGED <<bundle, local, quiet>>

InvalidateOnReload ==
  /\ reloader = "invalidate"
  /\ cache' = Purged
  /\ reloader' = "idle"
  /\ UNCHANGED <<bundle, local, quiet>>

\* A tick of wall-clock time. Redis drops a key when its PX runs out; the memory
\* cache keeps the expired entry until it is looked up.
Tick ==
  /\ cache # {}
  /\ cache' = {[e EXCEPT !.left = IF @ >= 0 THEN @ - 1 ELSE @] :
                 e \in {f \in cache : Backend = "memory" \/ f.left > 0}}
  /\ UNCHANGED <<bundle, reloader, local, quiet>>

\* The process dies and comes back with some bundle, which run installs before
\* it serves. Redis outlives it.
Restart ==
  /\ bundle' \in Bundles
  /\ reloader' = "idle"
  /\ cache' = Purged
  /\ pc' = [r \in Requests |-> "idle"]
  /\ req' = [r \in Requests |-> NoRequest]
  /\ exported' = [r \in Requests |-> NoVars]
  /\ history' = [r \in Requests |-> <<>>]
  /\ pending' = [r \in Requests |-> NoEntry]
  /\ settled' = {}
  /\ quiet' = TRUE

Reload == PurgePrefix \/ InvalidateOnReload

Next ==
  \/ \E r \in Requests : Begin(r) \/ Request(r)
  \/ \E b \in Bundles : SwapBundle(b)
  \/ Reload
  \/ Tick
  \/ Restart

Spec == Init /\ [][Next]_vars

\* A goroutine that can run does: the http.Client gives a backend ten seconds,
\* so a call fails if it is not answered. Reload runs to its end and time passes.
Fairness ==
  /\ \A r \in Requests : WF_vars(Request(r))
  /\ WF_vars(Reload)
  /\ WF_vars(Tick)

FairSpec == Spec /\ Fairness

-----------------------------------------------------------------------------
TypeOK ==
  /\ bundle \in Bundles
  /\ reloader \in {"idle", "purge", "invalidate"}
  /\ cache \subseteq Entries
  /\ pc \in [Requests -> {"idle", "rule", "backend", "store", "respond"}]
  /\ req \in [Requests -> Asks \union {NoRequest}]
  /\ exported \in [Requests -> [Names -> MaybeValues]]
  /\ history \in [Requests -> Seq(Verdicted)]
  /\ pending \in [Requests -> Entries \union {NoEntry}]
  /\ settled \subseteq Requests
  /\ quiet \in BOOLEAN

\* The verdicts of a request that came from the cache.
Reused(r) ==
  {history[r][i] : i \in {j \in DOMAIN history[r] : history[r][j].source # NoEntry}}

SameQuestion(was, in) ==
  /\ was.endpoint = in.endpoint /\ was.caller = in.caller /\ was.rule = in.rule
  /\ was.url = in.url /\ was.payload = in.payload
  /\ was.proxied /\ in.proxied => was.proxy = in.proxy
  /\ was.strict /\ in.strict =>
       \A n \in Names \ {in.rule} : was.upstream[n] = in.upstream[n]

\* A verdict is reused only for the caller, path and endpoint it was given to, for
\* the same rule and the same URL, body and headers of the backend request.  The
\* proxy headers may differ only if the definition it was given by or the one it
\* is reused by leaves them out; tracing, timing and correlation headers and the
\* query parameters may differ always.  Between strict definitions the variables
\* of the other rules are the same. (checkRuleCache, deriveCacheKey,
\* buildBackendHash)
ReuseMatchesInputs ==
  \A r \in Requests : \A v \in Reused(r) : SameQuestion(v.source.inputs, v.inputs)

WithinLifetime(v) ==
  /\ v.outcome = v.source.outcome /\ v.outcome # "error"
  /\ v.source.left >= 0
  /\ ServerMaxTTL > 0 => v.source.ttl - v.source.left <= ServerMaxTTL

\* A reused verdict is the one that was reached, never an error, and no older
\* than the lifetime it was stored with nor the server's ceiling.
\* (CalculateEffectiveTTL, lookupRuleCache)
ReuseIsBounded == \A r \in Requests : \A v \in Reused(r) : WithinLifetime(v)

\* A later lifetime of the same key, or an s-maxage, takes the place of a lifetime.
Overridden(parts, i) ==
  \E j \in DOMAIN parts :
    /\ parts[j].value \in Nat
    /\ \/ parts[j].key = parts[i].key /\ j > i
       \/ parts[j].key = "s-maxage" /\ parts[i].key = "max-age"

\* What a Cache-Control header allows a verdict of some age.
Allows(parts, age) ==
  \A i \in DOMAIN parts :
    /\ parts[i].value = Bare => parts[i].key \notin {"no-cache", "no-store", "private"}
    /\ /\ parts[i].key \in {"max-age", "s-maxage"} /\ parts[i].value \in Nat
       /\ ~Overridden(parts, i)
       => age <= parts[i].value * Second

\* A verdict of a rule that follows the backend's Cache-Control is not reused
\* against it: never what a directive forbids to cache, and never beyond the
\* lifetime it names, even where the product of seconds overflows.
\* (ParseCacheControl, GetTTL, CalculateEffectiveTTL)
ReuseHonoursBackend ==
  \A r \in Requests : \A v \in Reused(r) :
    Allows(v.source.control, v.source.ttl - v.source.left)

FinalOutcome(r) ==
  IF history[r] = <<>> THEN "pass" ELSE history[r][Len(history[r])].outcome

\* A request is passed only when every rule of one bundle's chain passed, in the
\* chain's order, whatever reloads ran meanwhile. (Execute, ServeAuth)
PassNeedsWholeChain ==
  \A r \in Requests :
    pc[r] = "respond" /\ FinalOutcome(r) = "pass" =>
      /\ Len(history[r]) = Len(Rules(r))
      /\ \A i \in DOMAIN history[r] :
           history[r][i].inputs.rule = Rules(r)[i].name /\ history[r][i].outcome = "pass"

\* When no request of another bundle is running as Reload swaps the bundle, the
\* memory cache holds no verdict of another bundle once Reload has returned.
QuietReloadLeavesNothingStale ==
  Backend = "memory" /\ quiet /\ reloader = "idle" =>
    \A e \in cache : e.bundle = bundle

\* The same inputs in another session, and the proxy headers it may have then.
InSession(in, p, t, q) == [in EXCEPT !.proxy = p, !.trace = t, !.query = q]

OtherProxies(in) == IF in.proxied THEN {in.proxy} ELSE Proxies

FoundBySessions(e) ==
  \A p \in OtherProxies(e.inputs), t \in Traces, q \in Queries :
    e.key = RuleCacheKey(InSession(e.inputs, p, t, q))

\* A stored verdict is found again by a request that asks the same, whatever its
\* session-specific headers and, if the definition leaves them out, its proxy
\* headers are, unless a strict rule exported a variable: storeRuleCache computes
\* the key after the export and checkRuleCache before it. (buildBackendHash)
StoredIsFound ==
  \A e \in cache :
    ~(e.inputs.strict /\ e.value # NoValue) => FoundBySessions(e)

-----------------------------------------------------------------------------
(* The decision service this implements.                                   *)

\* What of an entry the service remembers.
AsVerdict(e) ==
  [question |-> [endpoint |-> e.inputs.endpoint, caller |-> e.inputs.caller,
                 payload |-> e.inputs.payload,
                 proxy |-> ProxyKey(e.inputs.proxied, e.inputs.proxy),
                 rule |-> e.inputs.rule, url |-> e.inputs.url],
   outcome |-> e.outcome, bundle |-> e.bundle]

GivenVerdicts ==
  [r \in Requests |-> [i \in DOMAIN history[r] |-> history[r][i].outcome]]

FreshVerdicts ==
  [r \in Requests |-> IF pending[r] = NoEntry THEN NoEntry ELSE AsVerdict(pending[r])]

CachedVerdicts == {AsVerdict(e) : e \in cache}

Service == INSTANCE DecisionService WITH
  URLs <- URLs \union {NoURL}, NoVerdict <- NoEntry, current <- bundle, asked <- req,
  verdicts <- GivenVerdicts, fresh <- FreshVerdicts, remembered <- CachedVerdicts

ASSUME SentinelsAreNoData ==
  /\ NoRequest \notin Asks
  /\ NoEntry \notin Entries
  /\ NoEntry \notin Service!Verdicts

\* However requests, reloads, purges, expiry and restarts interleave, a request
\* walks the chain of the bundle it began with, rule by rule until one does not
\* pass, and a verdict it did not get live is one that was given, not
\* anonymously and not as an error, for the same question. (Execute,
\* evaluateRule, checkRuleCache, storeRuleCache, Pipeline.Reload)
ImplementsService == Service!Spec

-----------------------------------------------------------------------------
\* Every request is answered.
RequestsAreAnswered ==
  \A r \in Requests : pc[r] # "idle" ~> pc[r] = "idle"

\* Once the bundle stays what it is, verdicts of earlier bundles stop being
\* served: those stored by requests the reload overtook run out.
StaleVerdictsDrain ==
  <>[][bundle' = bundle]_bundle =>
    <>[](\A e \in cache : Fresh(e) => e.bundle = bundle)

\* The steps a request has left: three at most for each rule and one to respond.
StepsLeft(r) ==
  LET rules == Len(Rules(r)) - Len(history[r])
  IN  CASE pc[r] = "idle" -> 0
        [] pc[r] = "respond" -> 1
        [] pc[r] = "backend" -> 3 * rules
        [] pc[r] = "rule" -> 3 * rules + 1
        [] pc[r] = "store" -> 3 * rules + 2

RunsDown(r) ==
  pc[r] # "idle" =>
    /\ StepsLeft(r)' \in Nat
    /\ \/ StepsLeft(r)' < StepsLeft(r)
       \/ StepsLeft(r)' = StepsLeft(r) /\ pc'[r] = pc[r] /\ history'[r] = history[r]

\* Each step of a request leaves it fewer, and nothing that happens meanwhile,
\* a reload to longer chains for one, gives it more: every request comes to its
\* end if it is let run. (Execute, ServeAuth, Pipeline.Reload)
RequestsRunDown == [][\A r \in Requests : RunsDown(r)]_vars

\* The requests and the verdicts a reload has overtaken.
Overtaken == {r \in Requests : pc[r] # "idle" /\ req[r].bundle # bundle}

Stale == {e \in cache : Fresh(e) /\ e.bundle # bundle}

Expire ==
  /\ Overtaken' \subseteq Overtaken
  /\ \A e \in Stale' :
       \/ e \in Stale
       \/ [e EXCEPT !.left = @ + 1] \in Stale
       \/ \E r \in Overtaken : pc[r] = "store" /\ pending[r] = e

\* While the bundle stays what it is no request joins those it has overtaken, and
\* a verdict of another bundle is served only if it was served before, and is no
\* younger, or such a request stores it now: reuse renews nothing, and what is
\* left of earlier bundles runs out. (Pipeline.Reload, storeRuleCache)
StaleVerdictsRunOut == [][bundle' = bundle => Expire]_vars

-----------------------------------------------------------------------------
(* What the documentation or a comment says and the code does not do.      *)

\* runtime.go, Reload: "clears cached decisions so subsequent requests evaluate
\* against the latest configuration snapshot".
SubsequentRequestsSeeLatest ==
  \A r \in settled :
    req[r].bundle = bundle /\ reloader = "idle" =>
      \A v \in Reused(r) : v.source.bundle = bundle

\* rule_execution_agent.go, evaluateRule: "Cache hit - restore cached outcome and
\* variables".
HitRestoresVariables ==
  \A r \in Requests : \A v \in Reused(r) :
    v.source.value # NoValue => exported[r][v.inputs.rule] = v.source.value

\* descriptor.go, BackendDescriptor: "It includes all components that affect the
\* backend response".
ReuseMatchesBackendRequest ==
  \A r \in Requests : \A v \in Reused(r) : v.source.inputs.query = v.inputs.query
=============================================================================
