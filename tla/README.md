# PassCtrl in TLA+

PassCtrl decides `/auth` requests of reverse proxies: an endpoint admits a
caller, evaluates a chain of rules, most of which ask a backend, and turns the
outcome into a response. Verdicts of rules are cached. Endpoints and rules come
from files that are watched and reloaded while requests run.

This directory holds a specification of the parts of it whose correctness
depends on order, concurrency, failure or configuration: TLA+ modules, the TLC
configurations that check them on small instances, and proofs, checked by
TLAPS, that hold for every instance. Paths below are relative to `src/`.

## The system

| Component | State | Operations | What makes it hard |
|---|---|---|---|
| Rule chain execution (`internal/runtime/rule_execution_agent.go`, `rulechain/`) | one `pipeline.State` per request: history, exported variables, backend answer | match auth directives, render, look up, call the backend, evaluate, export, store, go on | one goroutine per request; every rule reads what earlier rules exported, and shares the backend state with them; hits take a path of their own through it |
| Rule cache (`rule_cache.go`, `cache/`) | entries by key, each with an expiry | look up, store, purge, invalidate | shared by all requests; a lookup and the store that follows it are far apart; Redis outlives the process |
| Reload (`runtime.go`, `Reload`) | the installed bundle, under `p.mu` | swap, purge, invalidate | requests of the old bundle go on; the purge is outside the lock |
| Endpoint table (`runtime.go`, `configureEndpoints`; `server/router.go`) | `endpoints`, `defaultEndpoint`, `usingFallback` | rebuild, look up, report health | rebuilt in place and in random map order; readers take the lock several times |
| Rules watcher (`internal/config/watch.go`) | watched directories, debounce timer, context | first build, setup, events, reload, stop | files change during every step; the event queue is bounded |
| Rules loader (`internal/config/rules_loader.go`) | definitions that stand, definitions that are quarantined | merge, validate, prune | random map order, names defined any number of times |
| Configuration loader (`internal/config/loader.go`, `types.go`) | the configuration | validate, then merge | the rule documents come in after the validation |
| Rule compiler (`runtime.go`, `rulechain/agent.go`, `auth.go`) | compiled rules by name | convert, compile, look up a chain's rules | drops and passes over what it assumes was validated; one rule's error is all rules' |
| Admission (`runtime/admission/`, `helpers.go`) | the request's `state.Admission` | match credentials, trust proxies, derive the caller of the cache key | two places extract the caller's credential; two headers tell the client, and both may lie |
| Backend interaction (`backend_interaction_agent.go`) | the answer, the pages | request, follow pages | a loop with a limit and a visited set |
| Forward policy, response policy (`forwardpolicy/`, `responsepolicy/`) | the request's `state.Forward` and `state.Response` | pass proxy headers on, turn an outcome into a status | sequential; rely on what the agents before them left |
| Endpoint variables (`endpointvars/`) | the request's global variables | evaluate them | sequential |
| Process lifecycle (`cmd/main.go`, `server/server.go`) | listener, watcher, cache | start, serve, shut down | deferred calls against goroutines that still run; a deadline against handlers |
| Templates, expressions, metrics, logging | | | library calls |
| `resultcaching/` | | | not part of any pipeline |

`run` loads the configuration, builds the pipeline and starts the watcher and
the server. The watcher's goroutine calls `Pipeline.Reload` with a bundle of
the loader's; `Reload` compiles it, swaps the endpoint table and purges the
cache; request goroutines take an endpoint out of the table, keep it, and share
the cache. A signal stops the server, then the watcher, then the cache.

What has to be true of them:

* cache: a verdict is reused only for the question it answered, as far as the
  key is meant to tell questions apart, no longer than it may live and than the
  backend allows, and never if it is an error; what is stored can be found;
* admission: the client's address is one that trusted proxies vouch for, and
  the verdicts of one caller or client are not handed to another;
* chain: a request passes only if it was admitted and every rule of one
  bundle's chain passed; a backend gets only the credentials of directives that
  hold, and a rule is decided on its own backend's pages; every request is
  answered, whatever the backend and the cache do;
* reload: nothing of an old bundle is served for long after a reload;
* endpoint table: the table is what the bundle says, and no request sees it
  half built;
* watcher: the installed bundle follows the disk, and `Stop` returns;
* loader: the bundle does not depend on order, and what it leaves out is told;
* compiler: a validated rule is served as it was configured, and a chain is
  whole or not served;
* lifecycle: nothing reloads into a closed cache, the process ends, and its
  exit code tells whether it left requests unanswered.

PROJECT.json lists, under `hazards`, where in the code each of these could fail
and the property that would notice.

## Modules

| Module | Models |
|---|---|
| `VerdictLadder` | how a rule comes to its outcome |
| `RuleDecisions` | the other operators without state: exported variables, `Cache-Control`, lifetimes, keys; extends `VerdictLadder` |
| `Admission` | operators: proxies, credentials, and the caller the cache key is made of |
| `RuleAuth` | operators: matchers and forwards of auth directives; extends `Admission` |
| `RequestPipeline` | one request through all agents of its endpoint; extends `RuleAuth` and `VerdictLadder` |
| `PipelineCache` | requests, the decision cache and reloads; extends `RuleDecisions` |
| `DecisionService` | what `PipelineCache` promises, without keys, lifetimes and the steps of a reload |
| `EndpointTable` | the endpoint table, requests that are routed and health probes, reloads |
| `RoutingService` | what `EndpointTable` promises, without the lock, the order of builds and the default endpoint |
| `RulesWatcher` | the watcher's goroutine, its builds, and operators who edit the source |
| `RuleAggregator` | the merge of definitions into a bundle, and the bundle as it should be |
| `RuleCompiler` | a definition's way from the configuration to the endpoint table: validation, the merge of `RuleAggregator`, which it extends, and compilation |
| `Lifecycle` | the process from start to exit |
| `MC*` | values of the constants for TLC |
| `*Proofs` | inductive invariants, lemmas and theorems |

Definitions have the names of the code where it has one for them, and
PROJECT.json, under `map`, gives the lines each stands for. Operators whose
comment begins with `Mutant` are not part of a specification: each is another
form of the definition that follows it, with a mistake in it, that makes TLC
find a property violated.

`RequestPipeline` and `PipelineCache` look at the same requests from two sides.
The first has one request and all that its agents make of it, with the cache as
a choice among the verdicts that other requests may have left. The second has
any number of requests, the cache and reloads, and what a request is made of
only as far as keys and verdicts depend on it. They share `VerdictLadder`.
`RuleCompiler` and `EndpointTable` divide `configureEndpoints` in the same way:
the first has what becomes of a definition, in one step, the second the order
in which the table is built and read. `BundlesAreHandedOver` proves that they
fit. `Lifecycle` has the watcher's goroutine in outline, `RulesWatcher` has it
in full and instantiates `Lifecycle` as `Outline`: `FollowsOutline` says that
it takes no other steps.

### RequestPipeline

`pc` is the agent whose turn it is; the request's `pipeline.State` is in
`admission`, `forward`, `outcome`, `backend`, `history` and `response`. `fetch`
is the local state of the pagination loop.

| Action | Code |
|---|---|
| `RejectProxy`, `Challenge`, `Admit` | the three ways `admission.Agent.Execute` ends |
| `CurateHeaders` | `forwardpolicy.Agent.Execute` |
| `PlanRules` | `rulechain.Agent.Execute`, and `rule_execution` without rules |
| `NoGroupMatches` | `prepareRuleAuth` finds no group of directives that holds |
| `RenderFails` | `renderForward` or `renderBackendRequest` fails |
| `DecideLocally` | a rule without a backend |
| `ReuseVerdict` | `checkRuleCache` hits |
| `CallBackend`, `FetchPage`, `FetchFails`, `Decide` | `backendInteractionAgent.Execute`: before the loop, one turn of it, an error in it, its end and the conditions |
| `RenderResponse` | `responsepolicy.Agent.Execute` |
| `Reply` | the end of `ServeAuth` |

Abstractions. A behaviour has one request; others come in only as the `asker`
of a verdict in the cache, who is any request of `Cases` that would have stored
it under the same key: with the same caller and the same proxy headers to the
backend, unless the rule's `includeProxyHeaders` takes these out of the key.
Parsing is a choice of values: a header holds a chain of addresses, does not
parse, or is absent; a credential is blank, or one of `Secrets`. Names of
headers have no case. In development `stripForwardedHeaders` removes the
X-Forwarded headers before credentials are collected, but after
`deriveCacheKey` has looked for one; an endpoint that took a credential from a
header of that name would have it in the key and not among those collected.
Credentials and proxy headers have different names in the model, so that this
case is not in it. The peer is an address; the code's key for a caller without
credentials also has the port, which separates more than the model does. Of the
X-Forwarded headers only the two that tell a chain are judged; `proto` stands
for the rest, which are passed on or stripped with them. Headers and query
parameters that a rule copies from the request or renders are left out, as is
the body: what is followed is credentials and proxy headers. Forwards that a
rule names are credentials as rendered, and may fail to render. An accepted
status is one of `accepts`. A page is known by the link it was fetched by, as
in the code's visited set, and has the URL with the rendered query besides.
Answers of the conditions are a choice, by `VerdictLadder`.

### PipelineCache

A request is a goroutine of `ServeAuth` from the moment admission has passed.
`pc` says where it is: at the next rule (`rule`), waiting for the backend
(`backend`), about to store (`store`), out of the chain (`respond`). Steps are
as coarse as the shared state allows: between two calls on the cache or the
backend a request touches only its own state, so that all of it is one action.

| Action | Code |
|---|---|
| `Begin` | `ServeAuth`: the endpoint is looked up and the cache key derived |
| `RuleRejects` | `evaluateRule`: no credential matches, or the backend request does not render |
| `EvaluateLocally` | `evaluateRule`, for a rule without a backend |
| `ServeFromCache`, `MissCache` | `checkRuleCache`, `lookupRuleCache`, and what `evaluateRule` makes of the result |
| `BackendAnswers`, `BackendFails` | the backend call, the conditions and `finishRule` |
| `Store`, `StoreFails` | `DecisionCache.Store` |
| `Respond` | the end of `ServeAuth` |
| `SwapBundle`, `PurgePrefix`, `InvalidateOnReload` | the three steps of `Reload` |
| `Tick` | time; `Restart` is a crash or restart of the process |

Abstractions. Hashes and the joining of key parts are injective. Namespace,
epoch and salt do not change. A caller is one value that stands for the
credential and the path. What a request adds to a backend request is in four
parts, one value each, as the key treats them (`RuleCacheKey`, `ProxyKey`):
`payload`, its part of the URL, the body and the headers not named below, is
always in the key; `proxy`, the forwarding and CDN headers, is in it unless the
rule's `includeProxyHeaders` is false (`proxied`), and headers that are left
out hash like headers that are not there (`NoProxies`); `trace`, the tracing,
timing and correlation headers, is never in it, whatever header the
configuration names for correlation; nor is `query`. `SameQuestion` of
`ReuseMatchesInputs` says no more: two requests that share a verdict may differ
in `trace` and `query` always, and in `proxy` if the definition of one of them
leaves these headers out. Whether a backend answers by a header that the key
leaves out is nothing the code can know; that the query may matter is
`claim_query`. A body is a model value, and the status matters only as a class.
How conditions and variables evaluate is a choice among all results their
evaluation can have. Time is relative: an entry has ticks left, and one whose
ticks are 0 is still fresh, because the code treats the instant of expiry so. A
`Cache-Control` header is a sequence of lines and a line a sequence of parts,
each a key with a number, with a value that is no number, or with none; only
the first line is looked at, as in the code. A product of seconds wraps where a
`time.Duration` does, at `HalfRange`. `inputs`, `bundle` and `control` of an
entry, `settled` and `quiet` are history variables.

### DecisionService

What a caller may expect, without keys, lifetimes, exported variables, purges
and the steps of a reload: a request keeps the chain it began with; a rule of
it is judged, or a verdict is recalled that some request was given for the same
question (caller and endpoint, rule and URL, payload, and the proxy headers as
far as the rule includes them); what is remembered may be forgotten at any
time. `PipelineCache` implements it under the mapping `Service`: `AsVerdict`
makes a verdict of a cache entry without its key, ticks and exports,
`GivenVerdicts` is the history, and `FreshVerdicts` what a request is about to
store. `ImplementsService` says more than the invariants: that no step does
anything else, so that verdicts are given one at a time and never taken back,
nothing is remembered that was not given, and neither a purge nor a reload
touches a running request.

### EndpointTable

`Reload` takes `p.mu`, `BuildEndpoint` builds one endpoint, in any order,
`SettleDefault` or `InstallFallback` finishes and releases `p.mu`. Requests
(`Ask`, `CountEndpoints`, `LookupEndpoint`) and probes (`Probe`,
`EndpointExists`, `HealthSnapshot`, `EndpointNames`) read the table under
`p.mu`, each as often as the code does. A bundle is a constant: its endpoints
with the rules they refer to and whether the rest of them can be built, and its
rules with whether they compile. `seen` is a history variable.

### RoutingService

What requests and probes may rely on: there is one complete view of one bundle
at a time, with one endpoint of every key the bundle serves, or there is none
while the next one is prepared and whoever asks waits. A request is routed, and
a probe told of health or names, by the view there is at that moment; who names
no endpoint is routed if there is no choice. `EndpointTable` implements it
under the mapping `Routing`: `View` is what an unlocked pipeline shows, and the
two reads of a request are one phase (`Phase`).

### RulesWatcher

`pc` is where the goroutine is: its first build, its setup, the select loop, a
reload. A build reads the source directory by directory, the folder before
those in it (`ListSource`), and then loads the files it found one by one
(`LoadDocument`); files and directories change in between (`ChangeFile`,
`CreateDir`, `RemoveDir`). One directory is read in one step; directories of
the folder, and files, come in any order, where `WalkDir` and `buildRuleBundle`
have that of their names. A directory that has gone since its parent was read,
or that cannot be read, fails the build (`WalkFails`), as does a file
(`LoadDocument`, `ReadError`); nothing tries again before another event.
fsnotify is modelled from its use: it announces changes inside watched
directories, in order, into a queue that may overflow, and a watch ends with
its directory. `CreateDir` and `RemoveDir` also stand for directories that are
moved in and out with files in them. The debounce is `timer`; how long it runs
is not modelled. Directories are one level deep. `missed` is a history
variable: rule files whose change nothing will announce any more. A change gets
there in two ways: it has no event the loop gets to see, or its event led to a
build that failed on something else (`Dropped`). The second needs no failing
disk: a file changes and its event starts a reload; the reload reads the
folder; an empty subdirectory is removed; the walk fails on it; the Remove
event of a directory schedules nothing (`watch.go:216-218`). The folder loads
and no rule file changed unannounced, but the watcher rests on the bundle from
before the change, until the next event. `RestsUpToDate` and `ChangesArrive`
except the changes of such a build, and only these: once a build succeeds,
`missed` keeps only files that changed since it read them.

`Seen` is the goroutine as `Lifecycle` has it: it comes to be when the first
build succeeds, walking and waiting are `idle`, a reload is `building`, and a
purge, which this model does not have, is a part of it. Whoever cancels the
context is seen as the signal.

### RuleAggregator

`Add` merges one definition, in any order that keeps sources in order and a
source's endpoints before its rules. Names are taken without spaces around
them. `Standing` and `Reason` define the result without any order.

### RuleCompiler

| Action | Code |
|---|---|
| `ValidateConfig` | `Config.Validate`, called by `Load` on the server's own configuration (`Inline`) only |
| `Merge` | `buildRuleBundle`: the actions of `RuleAggregator` |
| `Install` | `configureEndpoints`, in one step |

A directive is a set of matchers and a sequence of forwards. A constraint of a
matcher is absent, values, a regular expression that does not compile, or
malformed, that is, neither a string nor a list of strings; these are what
validation, the loader's conversion and the compiler tell apart, each in its
own way. `checks` stands for the rest of a definition's validation, `renders`
for its templates, `builds` for an endpoint's variables and policies, `valid`
for its conditions, which the loader compiles. Definitions that only the names'
blanks tell apart are left out: which of them stays depends on the order of a
Go map. So it does for endpoints whose names differ in case only, and these are
not left out: the aggregator has both stand, `p.endpoints` has one key for both
(`Key`), and `table` is left with any one of those built (`KeptByKey`).
`ServedChainsAreWhole` therefore speaks of what is served under a name in
whatever case; an endpoint that stands, is built and has its rules need not be
served itself. Rules are looked up as they are spelled.

### Lifecycle

| Action | Code |
|---|---|
| `LoadFails`, `BuildPipeline`, `StartWatcher` | `run` up to `Server.Run` |
| `Listen`, `ListenerBreaks` | the goroutine of `Server.Run`, `ListenAndServe` |
| `Signal`, `Shutdown`, `ListenError` | `signal.NotifyContext` and the `select` of `Server.Run` |
| `Drained`, `DeadlineFires`, `DrainTimesOut` | `http.Server.Shutdown` with five seconds |
| `Stop`, `Stopped`, `CloseCache`, `Exit` | the deferred calls of `run`, and `main` |
| `StartReload`, `Build`, `Purge`, `WatcherExits` | `RulesWatcher.run` and `Reload`, in outline |
| `Accept`, `Answer` | `net/http` and its handlers |

`net/http` is external. The calls at startup are one action each, because
nothing else runs yet; a signal that comes meanwhile is seen where the code
looks at its context. `KeepClient`, `DrainIgnored`, `DrainForever` and
`StopWithoutWaiting` are mutants.

## Runs

| Run | Question | Instance |
|---|---|---|
| `reload` | do chains, purges and types hold while a bundle is reloaded; are requests answered and in how many steps, do old verdicts run out and what renews them; is it a decision service | memory cache, 2 requests, 2 bundles of 2 rules and 1 rule, lifetimes of 1 tick |
| `isolation` | are verdicts kept apart by caller, endpoint, payload, proxy headers and variables of earlier rules, and found again whatever the key leaves out; is it a decision service | 1 request, 2 callers, 2 payloads, with and without proxy headers, 2 traces; 2 endpoints, one of them for anonymous callers too; a loose rule that exports and leaves proxy headers out of its key, a strict one that reads and includes them; at most 2 verdicts in the cache, of one trace (`FewEntries`) |
| `redis` | is a verdict reused too long, or against the backend's header; do old verdicts run out when nothing purges them | Redis, 1 request, 2 bundles, lifetimes below, at and above a ceiling of 3 ticks; headers of each precedence, doubled, garbled, forbidding, and with products that wrap; a second is 2 ticks, a duration has 4 bits |
| `watch` | is the bundle the disk's when the watcher rests, does the last edit arrive, does `Stop` return; is it the watcher of `Lifecycle` | a folder and a subdirectory that comes and goes, also while it is walked, 2 files, a queue of 2 |
| `bundle` | is the bundle independent of order, is every omission told, is a rule served as it was configured, and each name by one endpoint with its whole chain | the server's configuration and 2 documents; 2 rules, one with every kind of sound, misplaced and broken directive, an endpoint over one or both, and one whose name differs from it in case only; each slot filled or empty |
| `request` | does a request reach a backend, a pass and another's verdict only where it should; is the client the right one, and are verdicts kept apart by caller and client; does it end | 5 endpoints, one of them with a rule that leaves proxy headers out of the key; requests through 3 kinds of peer with every pair of headers over 3 chains; every combination of an Authorization header, a header and a query parameter; 2 rules, 3 groups of matchers, up to 3 pages with 3 links |
| `lifecycle` | does the process end, in order, and does its exit code tell what it left | Redis, a rules folder, 2 requests |
| `endpoints` | is routing that of a bundle; is it a routing service | 4 bundles: whole, partly broken, with a rule that does not compile, with endpoints that differ in case; 1 reader |

Why the bounds are enough: a stale or foreign entry needs one question that
stores and one that reads. A request runs again after it has ended, so that one
request is a sequence of any length and two are needed only where they overlap,
which is around a reload (`reload`). A chain of two rules has a first, a last
and a next rule. Two callers, endpoints, payloads, proxy headers, traces or
variables are enough to confuse two questions. In `isolation` behaviours are
cut where a third verdict would be kept, or one of another trace than the one
there: a verdict is looked up on its own, whatever else the cache holds, so
that two show what many would, and a request with another trace than theirs may
still reuse them; the theorems have no such bound. Callers, payloads and traces
are symmetric there, since nothing compares them but for equality. One tick
distinguishes fresh from expired; `redis` has lifetimes on both sides of the
ceiling, and headers whose product of seconds wraps to a negative and to a
positive duration. An interleaving of a build with edits needs two files; a
queue of two overflows with the third event. The file mode of the watcher is in
the proofs, which cover both modes. A name has one definition, two (duplicates)
or three (a source that joins a quarantined name). In `lifecycle`, one of two
requests can be answered and the other cut. Readers of the endpoint table do
not act on each other, so that one shows what any does. In `request`, a chain
of two hops has a client and a proxy that may be trusted or not; a third page
is one after a page that is neither first nor last, and three links make a
circle, a dead end and a link that already has the query; groups of one and of
two matchers, with and without forwards of their own, are the cases of
`prepareRuleAuth`; the second rule, which has no backend, sees whatever the
first leaves.

Runs that expect a violation show where the code does something else than a
comment or document says; each is a finding in PROJECT.json:

| Run | Says | Does |
|---|---|---|
| `claim_reload` | after a reload, requests see the latest configuration | a verdict stored after the purge is reused; Redis is never purged |
| `claim_restore` | a hit restores variables | they are evaluated again over an empty backend state |
| `claim_query` | the descriptor has all that affects the answer | it lacks the query |
| `claim_matchers` | a directive with a constraint that does not parse is skipped, and validation sees to that | only the matcher is dropped, so that its group asks for less; rule documents are not validated |

More divergences have no run of their own:

* A strict rule that exports a variable stores under a key with the export and
  looks up under one without it, so that it never finds its own verdict:
  `StoredIsFound` excludes exactly these rules.
* `docs/configuration/rules.md:122` says that a backend 5xx is never cached.
  Only the outcome `error` is kept out (`rule_cache.go:199`); a 5xx that no
  condition turns into an error is a fail, and a fail with a lifetime is
  stored.
* `docs/configuration/endpoints.md:49` has a failed admission trigger the fail
  branch of the response policy. `ServeAuth` leaves the loop over the agents,
  so that the response is the challenge (401), or a server error (500) where an
  untrusted proxy is rejected and nothing was rendered: `RejectProxy`,
  `Challenge`, `Reply`.
* `design/decision-model.md:9-11` does not require the hops between client and
  peer to be trusted; `forwardedChainTrusted` does: `HopsTrusted`.
* `design/backend-agent-separation.md:404` has loops of visited URLs detected.
  The visited set has links before the rendered query is added, so that a page
  whose next link is itself, with that query, is asked for twice:
  `RulesReadTheirOwnPages` speaks of links, not of URLs.
* `helpers.go:30` says that the cache key's credential mirrors admission's. It
  is the first source that has something, while admission collects all of them;
  `VerdictsStayWithTheirCaller` is about requests with one source at most. What
  else a rule sends as a header is in the key by itself, a query parameter is
  not (`claim_query`).
* `docs/configuration/endpoints.md:31` calls a `rulesFile` static, while
  `watch.go` watches its directory and reloads it as it does a folder.
* `design/request-flows.md:48` has operators ask health whether an endpoint
  compiled, while `healthSnapshot` looks at what the loader left out and at the
  fallback, and not at endpoints that could not be built.
* `watch.go:15` has the callback run whenever definitions change. The first
  build is at line 64, before anything is watched: a change between the two is
  not picked up until another one comes, nor is one whose build failed on a
  subdirectory that vanished during the walk. `RestsUpToDate` counts both as
  `missed`.
* `design/config-structure.md:58` has an invalid template disable its rule.
  `configureEndpoints` leaves all rules out when one does not compile
  (`runtime.go:604`), and with them every endpoint with a chain:
  `CompiledRules`.
* Rule documents are merged after the validation (`loader.go:108`). What it
  refuses passes in them: an authorization header in a backend request
  (`types.go:527`), and constraints that belong to another kind of matcher,
  which are ignored. On the other hand an inline rule that validation lets
  through may still not compile, for it does not try templates and regular
  expressions.
* `docs/configuration/rules.md:119` names the lifetimes `cache.passTTL` and
  `cache.failTTL`; the code reads `cache.ttl.pass` and `cache.ttl.fail`
  (`types.go:271`, `277`).
* `docs/configuration/endpoints.md:135` lets `cache.resultTTL` limit an
  endpoint's verdicts; nothing reads it (`rule_execution_agent.go:407` is a
  TODO).
* `docs/configuration/rules.md:120` has backend directives honoured; of several
  `Cache-Control` lines only the first is looked at (`Captured`), and
  `ReuseHonoursBackend` speaks of that line.
* `design/cache-redis-valkey.md:75` has `Close` called with a deadline. `run`
  passes one of three seconds, which the client's `Close` ignores
  (`redis.go:139`).
* A drain that runs into its deadline ends in the message that startup failed
  (`main.go`, `log.Fatalf`), and a second signal does nothing; a watcher that
  cannot be set up leaves the process serving without one. When a signal and a
  listener's error come together, either may decide the exit code:
  `SuccessLeavesNobody` allows it.

### Fairness

`RequestPipeline`, `RuleAggregator`, `RuleCompiler` and `EndpointTable` have
safety properties only, and no fairness.

`PipelineCache`: each request's next step is weakly fair. Goroutines run, and a
backend call ends because the HTTP client has a timeout of ten seconds
(`BackendFails` is then enabled for good). The two steps after the swap are
weakly fair, and so is `Tick`. Nothing makes requests begin, reloads happen or
the process restart.

`RulesWatcher`: the goroutine and the timer are weakly fair. `Exit` and
`StartReload` are strongly fair: Go's `select` picks at random among the cases
that are ready, so that a case that is ready again and again is picked at last.
The disk, on the other hand, owes nothing; that edits come to an end is a
premise of `ChangesArrive`, and no premise of `StopReturns`.

`Lifecycle`: `run`, the listener's goroutine, the five seconds and the steps of
a reload are weakly fair, the last because builds and purges are bounded (a
purge that fails returns its error). `WatcherExits` is strongly fair, for
`select` picks at random. Clients and handlers owe nothing: a handler may run
for ever.

## Proofs

Each `*Proofs` module has an inductive invariant, a lemma for every action, and
theorems that follow by PTL. The assumptions are those named in the modules.

* `PipelineCacheProofs`. `TypeInv` adds to `TypeOK` where requests and entries
  are: a request that is not idle has an endpoint of its bundle, one at a rule
  has a rule left, one that stores has an entry. `InOrder` says that the
  history is a prefix of the chain, all passes but for the last, which gives
  `PassesAreEarned`. `SoundEntry` says of every entry, and of those about to be
  stored, that its key is the key of what was asked, with the rule's own export
  added and the headers `buildBackendHash` excludes left out, and that its
  lifetime obeys the ceiling; from it follow `ReuseIsSound`, `ReuseIsInTime`,
  `ReuseIsAllowed` (with the history variable `control`) and
  `StoredVerdictsAreFound`. `ReuseMatchesInputs` alone is not inductive, for it
  says nothing of entries nobody has read. `SameKeyForSessions` is what
  `StoredVerdictsAreFound` needs besides: requests that differ only in what the
  key leaves out have one key. `QuietInv` follows requests and entries through
  a quiet reload: `QuietReloadsPurge`. `RequestsEnd` counts the steps a request
  has left, by where it is and by the rules that are left of its own chain
  (`RequestMoves`), and shows that nobody else adds to them (`NothingIsAdded`).
  `StaleVerdictsExpire` has two sources of a stale entry, one that was there
  and a request that a reload overtook: the set of the latter (`Overtaken`)
  only shrinks until the next reload.
* `DecisionServiceProofs`. `ServiceInv` is `TypeInv`, `InOrder` and `CacheInv`
  of `PipelineCacheProofs` with `HandsInv`: a request holds a verdict only
  while it is about to store it. Under it every action is a step of the service
  or changes nothing the service sees, with a lemma for each (`BeginAsks`,
  `HitRecalls`, `AnswerJudges`, `StoreRemembers`, ...); `LoopDecides` shows
  that the code leaves the chain when the service has decided.
* `RulesWatcherProofs`. `RestsUpToDate` speaks of the watcher at rest. The
  invariant, `FollowInv`, says what holds before: a rule file whose content is
  not the installed one, or not the one the running build has read, has been
  missed or has an event or a timer pending; a failing walk or load keeps it by
  what it adds to `missed`. `BuildsFollow` is that of a build, `BundleFollows`
  of the installed bundle. `WatcherFollowsOutline` needs that nothing is left
  to be walked once the loop runs (`WalkInv`), which tells a goroutine that
  left from one that never came to be. `WorkRunsOut` is about a build and a
  walk as edits go on: the directories to read, of which the root adds the
  others once, and then the files to load get fewer, and so do the directories
  to watch.
* `RuleAggregatorProofs`. `MergeInv` gives, for any definitions merged so far,
  those that stand and the records of those that do not: it has no order in it.
  `MergeIsOrderless` and `EverySkipIsTold` are its cases at the end;
  `NamesStaySettled` follows from it too.
* `RuleCompilerProofs`. `LoadInv` adds to the invariant of the merge, which
  `LoadMerges` carries over, that past validation inline definitions are
  `Sound`. `SoundRuleIsKept` is the heart of `ValidatedRulesAreExact`: for a
  valid matcher the compiler's two omissions, `Kept` and `CompiledMatcher`,
  change nothing. `ChainsAreWhole` uses that the merge has settled which
  definitions stand, and `StandingIsBuilt` that of these exactly those with all
  their rules are built; whatever `KeptByKey` leaves of them has one of each
  key. `BundlesAreHandedOver` has the bundle in the form `EndpointTable` has
  it: it proves of it what is assumed there (`EndpointsAssumption`, that chains
  refer to rules of the bundle), and of the table what is the case there
  (`HandedOver`): it has endpoints that can be built, and one of every key.
* `RequestPipelineProofs`. `TypeInv` adds to `TypeOK` what `pc` implies: a rule
  left to evaluate, the request admitted. `EarnedInv` follows the chain: a
  request at a rule has passed all rules before it, one whose outcome is a pass
  has passed the whole chain, and one that was not admitted has done nothing.
  `VouchedInv` ties the client and the curated headers to the request.
  `CallsInv` says that each call was warranted by a prefix of the history,
  which later rules only extend (`WarrantedAfter`). `PagesInv` says of the loop
  what `IsWalk` says of a finished walk (`WalkOn`), and of every decided rule
  that its pages are its own. `CallerInv` says of every verdict from the cache
  that its asker has this request's key, of which `CollectedBehindKey` shows
  that it determines the credentials of a request with one source; `ClientInv`
  says it of the proxy headers, from which `ProxiesTellClient` gets the client.
  `RequestRunsOut` orders what is left of a request by agents, then rules, then
  pages: a page that links on is paid for by the limit, whatever it links to.
* `EndpointTableProofs`. `BuildInv` says which keys the table has while it is
  built, `SeenInv` that a busy reader has seen the installed bundle. They give
  `TableIsTheBundles` and `AnswersAreABundles`, and `ReportInv`, of a probe
  between its reads, gives `ReportsAreABundles`. For `TableImplementsRouting`
  the lemmas on the view say that the endpoints of an unlocked table are one
  for each key the bundle serves (`ShownIsComplete`) and that an entry and the
  default endpoint can be read off it (`ShownEntry`, `ShownDefault`). The end
  of a reload is then one step, the builds before it are none, and each read of
  a reader is a step or, for the first of a request that names its endpoint,
  none.
* `LifecycleProofs`. `WatcherInv` orders the deferred calls: once `run` is past
  `Stopped`, the watcher has exited or there never was one. `RequestInv` says
  that after a drain which came to its end nobody is handled and nobody comes.
  They give `WatcherStopsFirst` and `ExitCodeTells`. `WaitInv` says of the two
  places where `run` waits that what it waits for is on its way: the five
  seconds run, and the goroutine is there and cancelled. From it follows
  `EndIsInReach`: a process that has to end is never stuck.

Only model-checked: liveness (`RequestsAreAnswered`, `StaleVerdictsDrain`,
`ChangesArrive`, `StopReturns`, `ProcessEnds`), because fairness and ENABLED
are out of the prover's reach. What liveness rests on besides fairness is
proved of each but one: that requests have ever fewer steps left
(`RequestsEnd`, `RequestRunsOut`), that nothing renews a stale verdict
(`StaleVerdictsExpire`), that the watcher's builds and walks end
(`WorkRunsOut`), that the process has a way out (`EndIsInReach`).
`ChangesArrive` has `RestIsUpToDate` for its safe part: where the watcher rests
it is up to date. That it comes to rest, and that a count which only falls
reaches its end, is TLC's. All other properties of the runs that pass are
proved.

## Not modelled

Components with status `not_modelled` in PROJECT.json, and of the modelled
ones: what templates and CEL expressions yield, what a request copies into a
backend request besides credentials and proxy headers, parsing of headers,
documents and paths, bodies of responses, log lines, metrics and debug
snapshots.

Endpoint variables are evaluated once, in order of a request's own agents, by
expressions and templates whose results are the library's; a failure leaves an
empty value. Neither they nor the parts of a request that conditions read are
in the key of a verdict. That a condition may depend on them is a hazard no
property covers, because the model has no conditions that read anything: their
results are a choice.

## Plan

Done: `RuleDecisions` with the arithmetic of lifetimes and `Cache-Control`,
`PipelineCache` and the `DecisionService` it implements, `RulesWatcher` as
`Lifecycle` has it in outline, `RuleAggregator` and `RuleCompiler`,
`EndpointTable` and the `RoutingService` it implements, `RequestPipeline` with
`Admission` and `RuleAuth`, `Lifecycle`, each with its proofs. Left:

1. `RulesWatcher` with `PipelineCache`: from an edit to the verdict that
   follows it.
2. Endpoint variables and conditions that read them, which would give
   `PipelineCache` questions that the key leaves out.

The set of runs stays small: one per module or composition, and one for each
claim that no run which passes could show.
