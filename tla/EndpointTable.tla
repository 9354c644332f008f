---------------------------- MODULE EndpointTable ----------------------------
(***************************************************************************)
(* The endpoint table of Pipeline: configureEndpoints rebuilds it from the *)
(* bundle of every reload, in Go's random map order and under p.mu, while  *)
(* requests are routed to endpoints and health probes read its state       *)
(* (internal/runtime/runtime.go, internal/server/router.go).               *)
(*                                                                         *)
(* seen is a history variable: the bundles that were installed while a     *)
(* reader was busy.                                                        *)
(***************************************************************************)
EXTENDS Naturals

CONSTANTS
  Bundles,
  EndpointsOf,  \* the endpoints of each bundle: [name, refs, builds]
  RulesOf,      \* the rules of each bundle: [name, compiles]
  Skips,        \* the bundles the loader quarantined definitions of
  Names,        \* what an endpoint may be called
  Key,          \* its name in lower case
  Fallback,     \* the name of the fallback endpoint
  Readers,      \* requests for a decision and health probes
  Unnamed,      \* a request or probe that names no endpoint
  None

ASSUME EndpointsAssumption ==
  /\ Fallback \in Names
  /\ Unnamed \notin Names /\ None \notin Names
  /\ {"400", "404"} \intersect (Names \union {None}) = {}
  /\ \A b \in Bundles : \A e \in EndpointsOf[b] :
       /\ e.name \in Names
       \* pruneInvalidEndpoints
       /\ \A n \in e.refs : \E r \in RulesOf[b] : r.name = n

\* None is not what an unlocked pipeline shows.
ASSUME NoneAssumption == None \notin [bundle : Bundles, names : SUBSET Names]

VARIABLES
  locked,    \* whether a reload holds p.mu
  bundle,    \* the bundle that is, or is being, installed
  compiled,  \* the rules configureEndpoints goes by
  todo,      \* the endpoints it has yet to build
  table,     \* p.endpoints: the endpoint of every key, or None
  default,   \* p.defaultEndpoint, or None
  fallback,  \* p.usingFallback
  pc,        \* of each reader: "idle", "count", "lookup", "exists", "health",
             \* "names" or "done"
  ask,       \* the endpoint the reader names
  answer,    \* the endpoint it was routed to, "400" or "404"
  report,    \* the health it was told
  seen

pipeline == <<bundle, table, default, fallback>>
reload   == <<locked, compiled, todo>>
readers  == <<pc, ask, answer, report, seen>>
vars     == <<pipeline, reload, readers>>

Keys == {Key[n] : n \in Names}

Empty == [k \in Keys |-> None]

Listed == {k \in Keys : table[k] # None}

-----------------------------------------------------------------------------
(* Reload and NewPipeline.                                                 *)

\* compileConfiguredRules: one rule that does not compile leaves no rules.
Compiled(b) ==
  IF \A r \in RulesOf[b] : r.compiles THEN {r.name : r \in RulesOf[b]} ELSE {}

\* NewPipeline; a request that came this early would wait.
Init ==
  /\ locked = TRUE
  /\ bundle \in Bundles
  /\ compiled = Compiled(bundle)
  /\ todo = EndpointsOf[bundle]
  /\ table = Empty /\ default = None /\ fallback = FALSE
  /\ pc = [r \in Readers |-> "idle"]
  /\ ask = [r \in Readers |-> Unnamed]
  /\ answer = [r \in Readers |-> None]
  /\ report = [r \in Readers |-> None]
  /\ seen = [r \in Readers |-> {}]

\* Reload takes p.mu for configureEndpoints.
Reload(b) ==
  /\ ~locked
  /\ locked' = TRUE
  /\ bundle' = b
  /\ compiled' = Compiled(b)
  /\ todo' = EndpointsOf[b]
  /\ table' = Empty /\ default' = None /\ fallback' = FALSE
  /\ UNCHANGED readers

\* buildEndpointRuntime, which fails if a rule is not there or another part
\* of the endpoint cannot be built.
BuildEndpoint(e) ==
  /\ locked /\ e \in todo
  /\ todo' = todo \ {e}
  /\ IF e.refs \subseteq compiled /\ e.builds
       THEN /\ table' = [table EXCEPT ![Key[e.name]] = e.name]
            /\ default' = IF default = None THEN e.name ELSE default
       ELSE UNCHANGED <<table, default>>
  /\ UNCHANGED <<bundle, fallback, locked, compiled, readers>>

Unlock ==
  /\ locked' = FALSE
  /\ seen' = [r \in Readers |-> IF pc[r] \in {"idle", "done"} THEN seen[r]
                               ELSE seen[r] \union {bundle}]
  /\ UNCHANGED <<bundle, compiled, todo, pc, ask, answer, report>>

\* Mutant: the endpoint that was built first stays the default one.
KeepFirst ==
  /\ locked /\ todo = {} /\ Listed # {}
  /\ UNCHANGED <<table, default, fallback>>
  /\ Unlock

\* One endpoint is the default one, several have none.
SettleDefault ==
  /\ locked /\ todo = {} /\ Listed # {}
  /\ \/ \E k \in Listed : Listed = {k} /\ default' = table[k]
     \/ (\A k \in Listed : Listed # {k}) /\ default' = None
  /\ UNCHANGED <<table, fallback>>
  /\ Unlock

\* installFallbackEndpoint.
InstallFallback ==
  /\ locked /\ todo = {} /\ Listed = {}
  /\ table' = [table EXCEPT ![Key[Fallback]] = Fallback]
  /\ default' = Fallback
  /\ fallback' = TRUE
  /\ Unlock

-----------------------------------------------------------------------------
(* Requests for a decision.                                                *)

Start(r, n, step) ==
  /\ pc[r] \in {"idle", "done"}
  /\ pc' = [pc EXCEPT ![r] = step]
  /\ ask' = [ask EXCEPT ![r] = n]
  /\ answer' = [answer EXCEPT ![r] = None]
  /\ report' = [report EXCEPT ![r] = None]
  /\ seen' = [seen EXCEPT ![r] = IF locked THEN {} ELSE {bundle}]
  /\ UNCHANGED <<pipeline, reload>>

GoTo(r, step) ==
  /\ pc' = [pc EXCEPT ![r] = step]
  /\ UNCHANGED <<pipeline, reload, ask, answer, report, seen>>

Answer(r, a) ==
  /\ answer' = [answer EXCEPT ![r] = a]
  /\ pc' = [pc EXCEPT ![r] = "done"]
  /\ UNCHANGED <<pipeline, reload, ask, report, seen>>

\* /auth, where the query or a header may name the endpoint, and
\* /<endpoint>/auth.
Ask(r, n) ==
  \/ Start(r, n, "count")
  \/ n # Unnamed /\ Start(r, n, "lookup")

\* Mutant: the default endpoint is read once p.mu is released.
CountUnlocked(r) ==
  /\ pc[r] = "count"
  /\ \/ ask[r] # Unnamed /\ GoTo(r, "lookup")
     \/ ask[r] = Unnamed /\ Answer(r, IF default # None THEN default ELSE "400")

\* endpointForRequest reads the default endpoint; the table is never empty.
CountEndpoints(r) ==
  /\ pc[r] = "count" /\ ~locked
  /\ \/ ask[r] # Unnamed /\ GoTo(r, "lookup")
     \/ ask[r] = Unnamed /\ Answer(r, IF default # None THEN default ELSE "400")

Entry(n) == IF table[Key[n]] # None THEN table[Key[n]] ELSE "404"

\* Mutant: the table is read without p.mu.
LookupUnlocked(r) ==
  /\ pc[r] = "lookup"
  /\ Answer(r, Entry(ask[r]))

\* lookupEndpoint.
LookupEndpoint(r) ==
  /\ pc[r] = "lookup" /\ ~locked
  /\ Answer(r, Entry(ask[r]))

-----------------------------------------------------------------------------
(* Health probes, and those of explain.                                    *)

\* /healthz and /<endpoint>/healthz.
Probe(r, n) == Start(r, n, IF n = Unnamed THEN "health" ELSE "exists")

\* EndpointExists, before the router hands the probe over.
EndpointExists(r) ==
  /\ pc[r] = "exists" /\ ~locked
  /\ \/ Entry(ask[r]) = "404" /\ Answer(r, "404")
     \/ Entry(ask[r]) # "404" /\ GoTo(r, "health")

\* Mutant: the state is read without p.mu.
HealthUnlocked(r) ==
  /\ pc[r] = "health"
  /\ report' = [report EXCEPT ![r] =
       [bundle |-> bundle, fallback |-> fallback, names |-> {},
        status |-> IF fallback \/ bundle \in Skips THEN "degraded" ELSE "ok"]]
  /\ pc' = [pc EXCEPT ![r] = "names"]
  /\ UNCHANGED <<pipeline, reload, ask, answer, seen>>

\* healthSnapshot: the sources and the skipped definitions are the bundle's.
HealthSnapshot(r) ==
  /\ pc[r] = "health" /\ ~locked
  /\ report' = [report EXCEPT ![r] =
       [bundle |-> bundle, fallback |-> fallback, names |-> {},
        status |-> IF fallback \/ bundle \in Skips THEN "degraded" ELSE "ok"]]
  /\ pc' = [pc EXCEPT ![r] = "names"]
  /\ UNCHANGED <<pipeline, reload, ask, answer, seen>>

\* endpointNames takes p.mu again.
EndpointNames(r) ==
  /\ pc[r] = "names" /\ ~locked
  /\ report' = [report EXCEPT ![r].names = {table[k] : k \in Listed}]
  /\ pc' = [pc EXCEPT ![r] = "done"]
  /\ UNCHANGED <<pipeline, reload, ask, answer, seen>>

-----------------------------------------------------------------------------
Next ==
  \/ \E b \in Bundles : Reload(b)
  \/ \E e \in todo : BuildEndpoint(e)
  \/ SettleDefault \/ InstallFallback
  \/ \E r \in Readers :
       \/ \E n \in Names \union {Unnamed} : Ask(r, n) \/ Probe(r, n)
       \/ CountEndpoints(r) \/ LookupEndpoint(r)
       \/ EndpointExists(r) \/ HealthSnapshot(r) \/ EndpointNames(r)

Spec == Init /\ [][Next]_vars

-----------------------------------------------------------------------------
(* What a bundle serves, whatever the order.                               *)

Built(b) == {e.name : e \in {f \in EndpointsOf[b] : f.builds /\ f.refs \subseteq Compiled(b)}}

Served(b) == IF Built(b) = {} THEN {Fallback} ELSE Built(b)

\* The endpoints of one name, which differ in upper and lower case at most.
Namesakes(b, n) == {m \in Served(b) : Key[m] = Key[n]}

Alone(b) == \A m, n \in Served(b) : Key[m] = Key[n]

\* What a request for n may be answered while b is installed.
Answers(b, n) ==
  IF n = Unnamed THEN IF Alone(b) THEN Served(b) ELSE {"400"}
  ELSE IF Namesakes(b, n) = {} THEN {"404"} ELSE Namesakes(b, n)

\* Once a reload is through, the table serves what the bundle says, in whatever
\* order it was built: every key has an endpoint of that key if the bundle has
\* one, the default endpoint is the only one, and the fallback endpoint is there
\* exactly when nothing else is. (configureEndpoints)
TableMatchesBundle ==
  ~locked =>
    /\ \A n \in Names : table[Key[n]] \in IF Namesakes(bundle, n) = {} THEN {None}
                                          ELSE Namesakes(bundle, n)
    /\ IF Alone(bundle) THEN \E k \in Listed : default = table[k] ELSE default = None
    /\ fallback <=> Built(bundle) = {}

\* A request is answered as one of the bundles that were installed while it was
\* routed demands: never out of a table that is half built, and never 404 while
\* every bundle has the endpoint. (endpointForRequest, lookupEndpoint)
AnswersMatchABundle ==
  \A r \in Readers :
    answer[r] # None => \E b \in seen[r] : answer[r] \in Answers(b, ask[r])

\* What a probe reports of the fallback and of quarantined definitions is true of
\* one bundle, and a reload between healthSnapshot and endpointNames may only
\* make the list of names another one's. (ServeHealth, ServeExplain)
ReportsMatchABundle ==
  \A r \in Readers : pc[r] = "done" /\ report[r] # None =>
    /\ report[r].bundle \in seen[r]
    /\ report[r].fallback <=> Built(report[r].bundle) = {}
    /\ \E b \in seen[r] :
         /\ report[r].names \subseteq Served(b)
         /\ \A n \in Served(b) : \E m \in report[r].names : Key[m] = Key[n]

-----------------------------------------------------------------------------
(* The service that requests and probes see.                               *)

\* What an unlocked pipeline shows.
View == IF locked THEN None ELSE [bundle |-> bundle, names |-> {table[k] : k \in Listed}]

Phase(step) == IF step \in {"count", "lookup"} THEN "request" ELSE step

Routing == INSTANCE RoutingService WITH
  Builds <- [b \in Bundles |-> Built(b)],
  view <- View,
  phase <- [r \in Readers |-> Phase(pc[r])]

\* However many steps configureEndpoints takes, in whatever order, and however
\* often a reader takes p.mu, a reload is one that shows the whole bundle at once:
\* what every reader is told at a time is read off one complete view, which
\* stays as it is until the next reload. (Reload, endpointForRequest)
ImplementsRouting == Routing!Spec
=============================================================================
