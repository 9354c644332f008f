------------------------- MODULE EndpointTableProofs -------------------------
(***************************************************************************)
(* Requests are routed as one bundle demands, for any bundles and any      *)
(* number of readers.                                                      *)
(***************************************************************************)
EXTENDS EndpointTable, TLAPS

\* e is one of the endpoints the bundle serves.
Builds(e, b) == e \in EndpointsOf[b] /\ e.builds /\ e.refs \subseteq Compiled(b)

RoutingTypeOK ==
  /\ bundle \in Bundles
  /\ table \in [Keys -> Names \union {None}]
  /\ pc \in [Readers -> {"idle", "count", "lookup", "exists", "health", "names", "done"}]
  /\ ask \in [Readers -> Names \union {Unnamed}]
  /\ answer \in [Readers -> Names \union {None, "400", "404"}]
  /\ seen \in [Readers -> SUBSET Bundles]
  /\ locked \in BOOLEAN

\* While the table is built it has, of every key, an endpoint if one was built.
BuildInv ==
  locked =>
    /\ todo \subseteq EndpointsOf[bundle]
    /\ compiled = Compiled(bundle)
    /\ fallback = FALSE
    /\ \A k \in Keys : table[k] # None =>
         \E e \in EndpointsOf[bundle] : Builds(e, bundle) /\ e.name = table[k] /\ Key[e.name] = k
    /\ \A e \in EndpointsOf[bundle] \ todo : Builds(e, bundle) => table[Key[e.name]] # None

\* A reader that is busy has seen the bundle it reads the table of.
SeenInv == \A r \in Readers : ~locked /\ pc[r] \notin {"idle", "done"} => bundle \in seen[r]

\* Only names are looked up.
LookupInv == \A r \in Readers : pc[r] = "lookup" \/ pc[r] = "exists" => ask[r] \in Names

RoutingInv ==
  /\ RoutingTypeOK
  /\ BuildInv
  /\ TableMatchesBundle
  /\ SeenInv
  /\ LookupInv
  /\ AnswersMatchABundle

LEMMA RoutingInit == Init => RoutingInv
  <1> SUFFICES ASSUME Init PROVE RoutingInv
    OBVIOUS
  <1>1. RoutingTypeOK
    BY DEF Init, RoutingTypeOK, Empty
  <1>2. BuildInv
    BY DEF Init, BuildInv, Empty
  <1>3. TableMatchesBundle /\ SeenInv /\ LookupInv
    BY DEF Init, TableMatchesBundle, SeenInv, LookupInv
  <1>4. AnswersMatchABundle
    BY DEF Init, AnswersMatchABundle
  <1> QED BY <1>1, <1>2, <1>3, <1>4 DEF RoutingInv

\* What readers do to themselves leaves the table alone.
LEMMA PipelineKept ==
  ASSUME UNCHANGED <<pipeline, reload>>
  PROVE  /\ BuildInv => BuildInv'
         /\ TableMatchesBundle => TableMatchesBundle'
  <1>1. BuildInv => BuildInv'
    BY DEF pipeline, reload, BuildInv, Builds, Compiled
  <1>2. /\ Listed' = Listed /\ Alone(bundle)' = Alone(bundle)
        /\ Built(bundle)' = Built(bundle)
        /\ \A n \in Names : Namesakes(bundle, n)' = Namesakes(bundle, n)
    BY DEF pipeline, Listed, Alone, Built, Namesakes, Served, Compiled
  <1>3. TableMatchesBundle => TableMatchesBundle'
    BY <1>2 DEF pipeline, reload, TableMatchesBundle
  <1> QED BY <1>1, <1>3

\* What a reload does leaves what readers were told alone.
LEMMA ReadersKept ==
  ASSUME RoutingInv, UNCHANGED <<pc, ask, answer>>,
         \A r \in Readers : seen[r] \subseteq seen'[r]
  PROVE  LookupInv' /\ AnswersMatchABundle'
  <1>1. LookupInv'
    BY DEF RoutingInv, LookupInv
  <1>2. AnswersMatchABundle'
    <2>1. SUFFICES ASSUME NEW r \in Readers, answer'[r] # None
                   PROVE  \E b \in seen'[r] : answer'[r] \in Answers(b, ask'[r])
      BY DEF AnswersMatchABundle
    <2> QED BY <2>1 DEF RoutingInv, AnswersMatchABundle
  <1> QED BY <1>1, <1>2

LEMMA BuiltAreNames ==
  ASSUME NEW b \in Bundles
  PROVE  /\ \A n : n \in Built(b) <=> \E e \in EndpointsOf[b] : Builds(e, b) /\ e.name = n
         /\ Built(b) \subseteq Names /\ Served(b) \subseteq Names /\ Served(b) # {}
  BY EndpointsAssumption DEF Built, Builds, Served

\* When every endpoint was tried, the table has an endpoint of every key the
\* bundle has one of, and nothing else.
LEMMA TableComplete ==
  ASSUME RoutingInv, locked, todo = {}
  PROVE  /\ \A k \in Keys : table[k] # None => table[k] \in Built(bundle) /\ Key[table[k]] = k
         /\ \A n \in Built(bundle) : Key[n] \in Keys /\ table[Key[n]] # None
  <1>1. bundle \in Bundles /\ BuildInv
    BY DEF RoutingInv, RoutingTypeOK
  <1>2. \A k \in Keys : table[k] # None => table[k] \in Built(bundle) /\ Key[table[k]] = k
    BY <1>1, BuiltAreNames DEF BuildInv
  <1>3. \A n \in Built(bundle) : Key[n] \in Keys /\ table[Key[n]] # None
    BY <1>1, BuiltAreNames DEF BuildInv, Keys
  <1> QED BY <1>2, <1>3

\* Reload starts from the empty table.
LEMMA ReloadStep ==
  ASSUME RoutingInv, NEW b \in Bundles, Reload(b)
  PROVE  RoutingInv'
  <1>1. LookupInv' /\ AnswersMatchABundle'
    BY ReadersKept DEF Reload, readers
  <1>2. BuildInv'
    BY DEF Reload, BuildInv, Empty
  <1>3. RoutingTypeOK' /\ SeenInv' /\ TableMatchesBundle'
    BY DEF Reload, readers, RoutingInv, RoutingTypeOK, SeenInv, TableMatchesBundle, Empty
  <1> QED BY <1>1, <1>2, <1>3 DEF RoutingInv

\* One more endpoint is tried.
LEMMA BuildStep ==
  ASSUME RoutingInv, NEW e \in todo, BuildEndpoint(e)
  PROVE  RoutingInv'
  <1>1. /\ locked /\ locked' = locked /\ bundle' = bundle /\ compiled' = compiled
        /\ fallback' = fallback /\ todo' = todo \ {e} /\ UNCHANGED readers
        /\ bundle \in Bundles /\ table \in [Keys -> Names \union {None}]
        /\ todo \subseteq EndpointsOf[bundle] /\ compiled = Compiled(bundle)
    BY DEF BuildEndpoint, RoutingInv, RoutingTypeOK, BuildInv
  <1>2. e \in EndpointsOf[bundle] /\ e.name \in Names /\ e.name # None /\ Key[e.name] \in Keys
    BY <1>1, EndpointsAssumption DEF Keys
  <1>3. LookupInv' /\ AnswersMatchABundle'
    BY <1>1, ReadersKept DEF readers
  <1>4. BuildInv' /\ table' \in [Keys -> Names \union {None}]
    <2>1. CASE Builds(e, bundle)
      <3>1. table' = [table EXCEPT ![Key[e.name]] = e.name]
        BY <1>1, <2>1 DEF BuildEndpoint, Builds
      <3>2. table' \in [Keys -> Names \union {None}]
        BY <1>1, <1>2, <3>1
      <3>3. todo' \subseteq EndpointsOf[bundle'] /\ compiled' = Compiled(bundle')
        BY <1>1 DEF Compiled
      <3>4. fallback' = FALSE
        BY <1>1 DEF RoutingInv, BuildInv
      <3>5. \A k \in Keys : table'[k] # None =>
              \E d \in EndpointsOf[bundle'] :
                Builds(d, bundle') /\ d.name = table'[k] /\ Key[d.name] = k
        BY <1>1, <1>2, <2>1, <3>1 DEF RoutingInv, BuildInv, Builds, Compiled
      <3>6. \A d \in EndpointsOf[bundle'] \ todo' :
              Builds(d, bundle') => table'[Key[d.name]] # None
        BY <1>1, <1>2, <2>1, <3>1, EndpointsAssumption
        DEF RoutingInv, BuildInv, Builds, Compiled, Keys
      <3> QED BY <3>2, <3>3, <3>4, <3>5, <3>6 DEF BuildInv, Builds, Compiled
    <2>2. CASE ~Builds(e, bundle)
      <3>1. table' = table
        BY <1>1, <1>2, <2>2 DEF BuildEndpoint, Builds
      <3> QED BY <1>1, <1>2, <2>2, <3>1 DEF RoutingInv, BuildInv, Builds, Compiled
    <2> QED BY <2>1, <2>2
  <1>5. RoutingTypeOK' /\ SeenInv' /\ TableMatchesBundle'
    BY <1>1, <1>4 DEF readers, RoutingInv, RoutingTypeOK, SeenInv, TableMatchesBundle
  <1> QED BY <1>3, <1>4, <1>5 DEF RoutingInv

\* The end of configureEndpoints shows every reader the bundle.
LEMMA UnlockStep ==
  ASSUME RoutingInv, locked, Unlock
  PROVE  /\ LookupInv' /\ AnswersMatchABundle' /\ SeenInv' /\ BuildInv'
         /\ table' \in [Keys -> Names \union {None}] => RoutingTypeOK'
         /\ ~locked' /\ bundle' = bundle
  <1>1. RoutingTypeOK /\ seen \in [Readers -> SUBSET Bundles] /\ bundle \in Bundles
    BY DEF RoutingInv, RoutingTypeOK
  <1>2. \A r \in Readers : seen[r] \subseteq seen'[r] /\ seen'[r] \subseteq Bundles
    BY <1>1 DEF Unlock
  <1>3. LookupInv' /\ AnswersMatchABundle'
    BY <1>2, ReadersKept DEF Unlock
  <1>4. SeenInv' /\ BuildInv'
    BY <1>1 DEF Unlock, SeenInv, BuildInv
  <1>5. table' \in [Keys -> Names \union {None}] => RoutingTypeOK'
    BY <1>1 DEF Unlock, RoutingTypeOK
  <1> QED BY <1>3, <1>4, <1>5 DEF Unlock

LEMMA SettleStep ==
  ASSUME RoutingInv, SettleDefault
  PROVE  RoutingInv'
  <1>1. /\ locked /\ todo = {} /\ Listed # {} /\ Unlock
        /\ table' = table /\ fallback' = fallback /\ fallback = FALSE
        /\ bundle \in Bundles /\ table \in [Keys -> Names \union {None}]
    BY DEF SettleDefault, RoutingInv, RoutingTypeOK, BuildInv
  <1>2. bundle' = bundle /\ ~locked'
    BY <1>1, UnlockStep
  <1>3. Built(bundle) # {} /\ Served(bundle) = Built(bundle)
    BY <1>1, TableComplete DEF Listed, Served
  <1>4. \A n \in Names : table[Key[n]] \in IF Namesakes(bundle, n) = {} THEN {None}
                                            ELSE Namesakes(bundle, n)
    <2>1. SUFFICES ASSUME NEW n \in Names
                   PROVE  IF Namesakes(bundle, n) = {} THEN table[Key[n]] = None
                          ELSE table[Key[n]] \in Namesakes(bundle, n)
      OBVIOUS
    <2>2. Key[n] \in Keys
      BY DEF Keys
    <2>3. table[Key[n]] # None => table[Key[n]] \in Namesakes(bundle, n)
      BY <1>1, <1>3, <2>2, TableComplete DEF Namesakes
    <2>4. Namesakes(bundle, n) # {} => table[Key[n]] # None
      BY <1>1, <1>3, TableComplete DEF Namesakes
    <2> QED BY <2>3, <2>4
  <1>5. IF Alone(bundle) THEN \E k \in Listed : default' = table[k] ELSE default' = None
    <2>1. CASE Alone(bundle)
      <3>1. PICK k \in Listed : TRUE
        BY <1>1
      <3>2. \A j \in Listed : j = k
        BY <1>1, <1>3, <2>1, TableComplete DEF Alone, Listed
      <3>3. Listed = {k}
        BY <3>2
      <3> QED BY <1>1, <2>1, <3>1, <3>3 DEF SettleDefault
    <2>2. CASE ~Alone(bundle)
      <3>1. PICK m \in Built(bundle), n \in Built(bundle) : Key[m] # Key[n]
        BY <1>3, <2>2 DEF Alone
      <3>2. Key[m] \in Listed /\ Key[n] \in Listed
        BY <1>1, TableComplete DEF Listed
      <3>3. \A k \in Listed : Listed # {k}
        BY <3>1, <3>2
      <3> QED BY <2>2, <3>3 DEF SettleDefault
    <2> QED BY <2>1, <2>2
  <1>6. TableMatchesBundle'
    <2>1. Listed' = Listed
      BY <1>1 DEF Listed
    <2> QED BY <1>1, <1>2, <1>3, <1>4, <1>5, <2>1 DEF TableMatchesBundle
  <1> QED BY <1>1, <1>6, UnlockStep DEF RoutingInv

LEMMA FallbackStep ==
  ASSUME RoutingInv, InstallFallback
  PROVE  RoutingInv'
  <1>1. /\ locked /\ todo = {} /\ Listed = {} /\ Unlock
        /\ table' = [table EXCEPT ![Key[Fallback]] = Fallback]
        /\ default' = Fallback /\ fallback' = TRUE
        /\ bundle \in Bundles /\ table \in [Keys -> Names \union {None}]
    BY DEF InstallFallback, RoutingInv, RoutingTypeOK
  <1>2. bundle' = bundle /\ ~locked'
    BY <1>1, UnlockStep
  <1>3. Built(bundle) = {} /\ Served(bundle) = {Fallback}
    BY <1>1, TableComplete DEF Listed, Served
  <1>4. /\ Fallback \in Names /\ Fallback # None /\ Key[Fallback] \in Keys
        /\ \A k \in Keys : table[k] = None
    BY <1>1, EndpointsAssumption DEF Keys, Listed
  <1>5. table' \in [Keys -> Names \union {None}] /\ Listed' = {Key[Fallback]}
    BY <1>1, <1>4 DEF Listed
  <1>6. TableMatchesBundle'
    <2>1. \A n \in Names : Namesakes(bundle, n) = IF Key[n] = Key[Fallback] THEN {Fallback} ELSE {}
      BY <1>3 DEF Namesakes
    <2>2. \A n \in Names : table'[Key[n]] = IF Key[n] = Key[Fallback] THEN Fallback ELSE None
      BY <1>1, <1>4 DEF Keys
    <2>3. Alone(bundle)
      BY <1>3 DEF Alone
    <2>4. \E k \in Listed' : default' = table'[k]
      BY <1>1, <1>4, <1>5
    <2> QED BY <1>1, <1>2, <1>3, <1>4, <2>1, <2>2, <2>3, <2>4 DEF TableMatchesBundle
  <1> QED BY <1>1, <1>5, <1>6, UnlockStep DEF RoutingInv

\* A reader starts, with nothing answered yet.
LEMMA StartStep ==
  ASSUME RoutingInv, NEW r \in Readers, NEW n \in Names \union {Unnamed},
         NEW step \in {"count", "lookup", "exists", "health"}, Start(r, n, step),
         step \in {"lookup", "exists"} => n \in Names
  PROVE  RoutingInv'
  <1>1. BuildInv' /\ TableMatchesBundle'
    BY PipelineKept DEF Start, RoutingInv
  <1>2. RoutingTypeOK'
    BY DEF Start, pipeline, reload, RoutingInv, RoutingTypeOK
  <1>3. SeenInv' /\ LookupInv'
    BY DEF Start, pipeline, reload, RoutingInv, RoutingTypeOK, SeenInv, LookupInv
  <1>4. AnswersMatchABundle'
    BY DEF Start, RoutingInv, RoutingTypeOK, AnswersMatchABundle
  <1> QED BY <1>1, <1>2, <1>3, <1>4 DEF RoutingInv

\* A busy reader goes on without an answer.
LEMMA GoOnStep ==
  ASSUME RoutingInv, NEW r \in Readers, NEW step \in {"lookup", "health", "names", "done"},
         pc[r] \notin {"idle", "done"}, pc' = [pc EXCEPT ![r] = step],
         UNCHANGED <<pipeline, reload, ask, answer, seen>>,
         step = "lookup" => ask[r] \in Names
  PROVE  RoutingInv'
  <1>1. BuildInv' /\ TableMatchesBundle'
    BY PipelineKept DEF RoutingInv
  <1>2. RoutingTypeOK' /\ SeenInv' /\ LookupInv'
    BY DEF pipeline, reload, RoutingInv, RoutingTypeOK, SeenInv, LookupInv
  <1>3. AnswersMatchABundle'
    BY DEF RoutingInv, AnswersMatchABundle
  <1> QED BY <1>1, <1>2, <1>3 DEF RoutingInv

\* A busy reader is answered as the bundle that is installed demands.
LEMMA AnswerStep ==
  ASSUME RoutingInv, NEW r \in Readers, NEW a \in Names \union {"400", "404"}, ~locked,
         pc[r] \notin {"idle", "done"}, Answer(r, a), a \in Answers(bundle, ask[r])
  PROVE  RoutingInv'
  <1>1. BuildInv' /\ TableMatchesBundle'
    BY PipelineKept DEF Answer, RoutingInv
  <1>2. RoutingTypeOK' /\ SeenInv' /\ LookupInv'
    BY DEF Answer, pipeline, reload, RoutingInv, RoutingTypeOK, SeenInv, LookupInv
  <1>3. AnswersMatchABundle'
    <2>1. /\ seen' = seen /\ ask' = ask /\ answer' = [answer EXCEPT ![r] = a]
          /\ answer \in [Readers -> Names \union {None, "400", "404"}] /\ bundle \in seen[r]
      BY DEF Answer, RoutingInv, RoutingTypeOK, SeenInv
    <2>2. SUFFICES ASSUME NEW q \in Readers, answer'[q] # None
                   PROVE  \E b \in seen'[q] : answer'[q] \in Answers(b, ask'[q])
      BY DEF AnswersMatchABundle
    <2>3. CASE q = r
      BY <2>1, <2>3
    <2>4. CASE q # r
      BY <2>1, <2>2, <2>4 DEF RoutingInv, AnswersMatchABundle
    <2> QED BY <2>3, <2>4
  <1> QED BY <1>1, <1>2, <1>3 DEF RoutingInv

\* The default endpoint is the one to answer a request that names none.
LEMMA DefaultAnswers ==
  ASSUME RoutingInv, ~locked
  PROVE  LET a == IF default # None THEN default ELSE "400"
         IN  a \in Names \union {"400", "404"} /\ a \in Answers(bundle, Unnamed)
  <1>1. bundle \in Bundles /\ TableMatchesBundle /\ Served(bundle) \subseteq Names
    BY BuiltAreNames DEF RoutingInv, RoutingTypeOK
  <1>2. CASE Alone(bundle)
    <2>1. PICK k \in Keys : table[k] # None /\ default = table[k]
      BY <1>1, <1>2 DEF TableMatchesBundle, Listed
    <2>2. PICK n \in Names : k = Key[n]
      BY DEF Keys
    <2>3. default \in Served(bundle) /\ default # None
      BY <1>1, <2>1, <2>2 DEF TableMatchesBundle, Namesakes
    <2> QED BY <1>1, <1>2, <2>3 DEF Answers
  <1>3. CASE ~Alone(bundle)
    BY <1>1, <1>3 DEF TableMatchesBundle, Answers
  <1> QED BY <1>2, <1>3

\* The entry of a name, or 404, is the answer to a request for it.
LEMMA EntryAnswers ==
  ASSUME RoutingInv, ~locked, NEW n \in Names
  PROVE  Entry(n) \in Names \union {"400", "404"} /\ Entry(n) \in Answers(bundle, n)
  <1>1. /\ bundle \in Bundles /\ TableMatchesBundle /\ Served(bundle) \subseteq Names
        /\ None \notin Names /\ Unnamed \notin Names
    BY BuiltAreNames, EndpointsAssumption DEF RoutingInv, RoutingTypeOK
  <1>2. CASE Namesakes(bundle, n) = {}
    <2>1. table[Key[n]] = None
      BY <1>1, <1>2 DEF TableMatchesBundle
    <2> QED BY <1>1, <1>2, <2>1 DEF Entry, Answers
  <1>3. CASE Namesakes(bundle, n) # {}
    <2>1. table[Key[n]] \in Namesakes(bundle, n)
      BY <1>1, <1>3 DEF TableMatchesBundle
    <2>2. table[Key[n]] \in Names
      BY <1>1, <2>1 DEF Namesakes
    <2> QED BY <1>1, <1>3, <2>1, <2>2 DEF Entry, Answers
  <1> QED BY <1>2, <1>3

LEMMA ReaderStep ==
  ASSUME RoutingInv, NEW r \in Readers,
         \/ \E n \in Names \union {Unnamed} : Ask(r, n) \/ Probe(r, n)
         \/ CountEndpoints(r) \/ LookupEndpoint(r)
         \/ EndpointExists(r) \/ HealthSnapshot(r) \/ EndpointNames(r)
  PROVE  RoutingInv'
  <1>1. /\ ask[r] \in Names \union {Unnamed} /\ Unnamed \notin Names
        /\ pc[r] = "lookup" \/ pc[r] = "exists" => ask[r] \in Names
    BY EndpointsAssumption DEF RoutingInv, RoutingTypeOK, LookupInv
  <1>2. ASSUME NEW n \in Names \union {Unnamed}, Ask(r, n)
        PROVE  RoutingInv'
    BY <1>2, StartStep DEF Ask
  <1>3. ASSUME NEW n \in Names \union {Unnamed}, Probe(r, n)
        PROVE  RoutingInv'
    <2>1. CASE n = Unnamed
      BY <1>3, <2>1, StartStep DEF Probe
    <2>2. CASE n # Unnamed
      BY <1>3, <2>2, StartStep DEF Probe
    <2> QED BY <2>1, <2>2
  <1>4. CASE CountEndpoints(r)
    <2>1. CASE ask[r] # Unnamed /\ GoTo(r, "lookup")
      BY <1>1, <1>4, <2>1, GoOnStep DEF CountEndpoints, GoTo
    <2>2. CASE ask[r] = Unnamed /\ Answer(r, IF default # None THEN default ELSE "400")
      BY <1>4, <2>2, DefaultAnswers, AnswerStep DEF CountEndpoints
    <2> QED BY <1>4, <2>1, <2>2 DEF CountEndpoints
  <1>5. CASE LookupEndpoint(r)
    BY <1>1, <1>5, EntryAnswers, AnswerStep DEF LookupEndpoint
  <1>6. CASE EndpointExists(r)
    <2>1. CASE Entry(ask[r]) = "404" /\ Answer(r, "404")
      BY <1>1, <1>6, <2>1, EntryAnswers, AnswerStep DEF EndpointExists
    <2>2. CASE GoTo(r, "health")
      BY <1>6, <2>2, GoOnStep DEF EndpointExists, GoTo
    <2> QED BY <1>6, <2>1, <2>2 DEF EndpointExists
  <1>7. CASE HealthSnapshot(r)
    BY <1>7, GoOnStep DEF HealthSnapshot
  <1>8. CASE EndpointNames(r)
    BY <1>8, GoOnStep DEF EndpointNames
  <1> QED BY <1>2, <1>3, <1>4, <1>5, <1>6, <1>7, <1>8

LEMMA RoutingStep == RoutingInv /\ [Next]_vars => RoutingInv'
  <1> SUFFICES ASSUME RoutingInv, [Next]_vars PROVE RoutingInv'
    OBVIOUS
  <1>1. CASE UNCHANGED vars
    <2>1. UNCHANGED <<pipeline, reload, readers>>
      BY <1>1 DEF vars
    <2>2. BuildInv' /\ TableMatchesBundle'
      BY <2>1, PipelineKept DEF RoutingInv
    <2>3. LookupInv' /\ AnswersMatchABundle'
      BY <2>1, ReadersKept DEF readers
    <2>4. RoutingTypeOK' /\ SeenInv'
      BY <2>1 DEF pipeline, reload, readers, RoutingInv, RoutingTypeOK, SeenInv
    <2> QED BY <2>2, <2>3, <2>4 DEF RoutingInv
  <1> QED BY <1>1, ReloadStep, BuildStep, SettleStep, FallbackStep, ReaderStep DEF Next

\* Whatever order Go iterates the endpoints in, the table a reload leaves is the
\* one the bundle demands. (configureEndpoints)
THEOREM TableIsTheBundles == Spec => []TableMatchesBundle
  <1>1. RoutingInv => TableMatchesBundle
    BY DEF RoutingInv
  <1> QED BY <1>1, RoutingInit, RoutingStep, PTL DEF Spec

\* No request is routed by a table that is half built. (endpointForRequest)
THEOREM AnswersAreABundles == Spec => []AnswersMatchABundle
  <1>1. RoutingInv => AnswersMatchABundle
    BY DEF RoutingInv
  <1> QED BY <1>1, RoutingInit, RoutingStep, PTL DEF Spec

-----------------------------------------------------------------------------
(* What a probe is told.                                                   *)

Reports == [bundle : Bundles, fallback : BOOLEAN, names : SUBSET Names,
            status : {"ok", "degraded"}]

\* The names of one bundle that was installed while the probe ran.
NamesOneBundle(names, bundles) ==
  \E b \in bundles :
    /\ names \subseteq Served(b)
    /\ \A n \in Served(b) : \E m \in names : Key[m] = Key[n]

\* The snapshot is true of a bundle the probe has seen.
Tells(r) ==
  /\ report[r] \in Reports
  /\ report[r].bundle \in seen[r]
  /\ report[r].fallback <=> Built(report[r].bundle) = {}

ReportOf(r) ==
  /\ pc[r] \notin {"names", "done"} => report[r] = None
  /\ pc[r] = "names" => Tells(r)
  /\ pc[r] = "done" /\ report[r] # None =>
       Tells(r) /\ NamesOneBundle(report[r].names, seen[r])

ReportInv ==
  /\ report = [r \in Readers |-> report[r]]
  /\ fallback \in BOOLEAN
  /\ \A r \in Readers : ReportOf(r)

\* The table has the names of the bundle that is installed.
LEMMA NamesOfTable ==
  ASSUME RoutingInv, ~locked
  PROVE  NamesOneBundle({table[k] : k \in Listed}, {bundle})
  <1>1. /\ bundle \in Bundles /\ TableMatchesBundle /\ Served(bundle) \subseteq Names
        /\ None \notin Names
    BY BuiltAreNames, EndpointsAssumption DEF RoutingInv, RoutingTypeOK
  <1>2. \A k \in Listed : table[k] \in Served(bundle)
    <2> TAKE k \in Listed
    <2>1. PICK n \in Names : k = Key[n]
      BY DEF Listed, Keys
    <2> QED BY <1>1, <2>1 DEF TableMatchesBundle, Namesakes, Listed
  <1>3. \A n \in Served(bundle) : \E m \in {table[k] : k \in Listed} : Key[m] = Key[n]
    <2> TAKE n \in Served(bundle)
    <2>1. n \in Names /\ n \in Namesakes(bundle, n)
      BY <1>1 DEF Namesakes
    <2>2. table[Key[n]] \in Namesakes(bundle, n)
      BY <1>1, <2>1 DEF TableMatchesBundle
    <2>3. table[Key[n]] \in Names /\ Key[table[Key[n]]] = Key[n]
      BY <1>1, <2>2 DEF Namesakes
    <2>4. Key[n] \in Listed
      BY <1>1, <2>1, <2>3 DEF Listed, Keys
    <2> QED BY <2>3, <2>4
  <1> QED BY <1>2, <1>3 DEF NamesOneBundle

\* A reader that does nothing is told what it was told, of more bundles perhaps.
LEMMA ReportKept ==
  ASSUME NEW r \in Readers, ReportOf(r), pc'[r] = pc[r], report'[r] = report[r],
         seen[r] \subseteq seen'[r]
  PROVE  ReportOf(r)'
  <1>1. Tells(r) => Tells(r)'
    BY DEF Tells, Reports, Built, Compiled
  <1>2. ASSUME NamesOneBundle(report[r].names, seen[r])
        PROVE  NamesOneBundle(report[r].names, seen[r])'
    <2>1. NamesOneBundle(report'[r].names, seen'[r])
      BY <1>2 DEF NamesOneBundle
    <2> QED BY <2>1 DEF NamesOneBundle
  <1> QED BY <1>1, <1>2 DEF ReportOf

\* A reload shows every reader one more bundle at most.
LEMMA ReportUnderReload ==
  ASSUME RoutingInv, ReportInv, UNCHANGED <<pc, report>>, fallback' \in BOOLEAN,
         \A r \in Readers : seen[r] \subseteq seen'[r]
  PROVE  ReportInv'
  BY ReportKept DEF ReportInv

LEMMA ReportReaderStep ==
  ASSUME RoutingInv, ReportInv, NEW r \in Readers,
         \/ \E n \in Names \union {Unnamed} : Ask(r, n) \/ Probe(r, n)
         \/ CountEndpoints(r) \/ LookupEndpoint(r)
         \/ EndpointExists(r) \/ HealthSnapshot(r) \/ EndpointNames(r)
  PROVE  ReportInv'
  <1>1. /\ RoutingTypeOK /\ SeenInv /\ ReportOf(r)
        /\ report = [q \in Readers |-> report[q]] /\ fallback \in BOOLEAN
        /\ pc \in [Readers -> {"idle", "count", "lookup", "exists", "health", "names", "done"}]
        /\ seen \in [Readers -> SUBSET Bundles]
        /\ \A q \in Readers : ReportOf(q)
    BY DEF RoutingInv, RoutingTypeOK, ReportInv
  <1>2. ASSUME NEW step \in {"count", "lookup", "exists", "health"},
               NEW n \in Names \union {Unnamed}, Start(r, n, step)
        PROVE  ReportInv'
    <2>1. ReportOf(r)'
      BY <1>1, <1>2 DEF Start, ReportOf
    <2>2. \A q \in Readers \ {r} : ReportOf(q)'
      BY <1>1, <1>2, ReportKept DEF Start
    <2> QED BY <1>1, <1>2, <2>1, <2>2 DEF Start, pipeline, ReportInv
  <1>3. ASSUME NEW step \in {"lookup", "health"}, GoTo(r, step),
               pc[r] \in {"count", "exists"}
        PROVE  ReportInv'
    <2>1. ReportOf(r)'
      BY <1>1, <1>3 DEF GoTo, ReportOf
    <2>2. \A q \in Readers \ {r} : ReportOf(q)'
      BY <1>1, <1>3, ReportKept DEF GoTo
    <2> QED BY <1>1, <1>3, <2>1, <2>2 DEF GoTo, pipeline, ReportInv
  <1>4. ASSUME NEW a, Answer(r, a), pc[r] \in {"count", "lookup", "exists"}
        PROVE  ReportInv'
    <2>1. ReportOf(r)'
      BY <1>1, <1>4 DEF Answer, ReportOf
    <2>2. \A q \in Readers \ {r} : ReportOf(q)'
      BY <1>1, <1>4, ReportKept DEF Answer
    <2> QED BY <1>1, <1>4, <2>1, <2>2 DEF Answer, pipeline, ReportInv
  <1>5. CASE HealthSnapshot(r)
    <2>1. /\ bundle \in seen[r] /\ bundle \in Bundles /\ TableMatchesBundle /\ ~locked
      BY <1>1, <1>5 DEF HealthSnapshot, SeenInv, RoutingInv, RoutingTypeOK
    <2>2. /\ pc' = [pc EXCEPT ![r] = "names"] /\ seen' = seen
          /\ report' = [report EXCEPT ![r] =
               [bundle |-> bundle, fallback |-> fallback, names |-> {},
                status |-> IF fallback \/ bundle \in Skips THEN "degraded" ELSE "ok"]]
      BY <1>5 DEF HealthSnapshot
    <2>3. Tells(r)'
      BY <1>1, <2>1, <2>2 DEF Tells, Reports, TableMatchesBundle, Built, Compiled
    <2>4. ReportOf(r)'
      BY <1>1, <2>2, <2>3 DEF ReportOf
    <2>5. \A q \in Readers \ {r} : ReportOf(q)'
      BY <1>1, <2>2, ReportKept
    <2> QED BY <1>1, <1>5, <2>2, <2>4, <2>5 DEF HealthSnapshot, pipeline, ReportInv
  <1>6. CASE EndpointNames(r)
    <2>1. /\ bundle \in seen[r] /\ Tells(r) /\ ~locked /\ report[r] \in Reports
      BY <1>1, <1>6 DEF EndpointNames, SeenInv, ReportOf, Tells
    <2>2. /\ pc' = [pc EXCEPT ![r] = "done"] /\ seen' = seen
          /\ report' = [report EXCEPT ![r].names = {table[k] : k \in Listed}]
      BY <1>6 DEF EndpointNames
    <2>3. {table[k] : k \in Listed} \subseteq Names
      BY <1>1 DEF RoutingTypeOK, Listed
    <2>4. /\ report'[r] = [report[r] EXCEPT !.names = {table[k] : k \in Listed}]
          /\ report'[r] \in Reports
      BY <1>1, <2>1, <2>2, <2>3 DEF Reports
    <2>5. /\ report'[r].names = {table[k] : k \in Listed}
          /\ report'[r].bundle = report[r].bundle /\ report'[r].fallback = report[r].fallback
      BY <2>1, <2>4 DEF Reports
    <2>6. Tells(r)'
      BY <2>1, <2>2, <2>4, <2>5 DEF Tells, Built, Compiled
    <2>7. NamesOneBundle(report'[r].names, seen'[r])
      BY <2>1, <2>2, <2>5, NamesOfTable DEF NamesOneBundle
    <2>8. ReportOf(r)'
      BY <1>1, <2>2, <2>6, <2>7 DEF ReportOf, NamesOneBundle, Served, Built, Compiled
    <2>9. \A q \in Readers \ {r} : ReportOf(q)'
      BY <1>1, <2>2, ReportKept
    <2> QED BY <1>1, <1>6, <2>2, <2>8, <2>9 DEF EndpointNames, pipeline, ReportInv
  <1>7. ASSUME NEW n \in Names \union {Unnamed}, Ask(r, n) \/ Probe(r, n)
        PROVE  ReportInv'
    BY <1>2, <1>7 DEF Ask, Probe
  <1>8. CASE CountEndpoints(r)
    BY <1>3, <1>4, <1>8 DEF CountEndpoints
  <1>9. CASE LookupEndpoint(r)
    BY <1>4, <1>9 DEF LookupEndpoint
  <1>10. CASE EndpointExists(r)
    BY <1>3, <1>4, <1>10 DEF EndpointExists
  <1> QED BY <1>5, <1>6, <1>7, <1>8, <1>9, <1>10

LEMMA ReportStep == RoutingInv /\ ReportInv /\ [Next]_vars => ReportInv'
  <1> SUFFICES ASSUME RoutingInv, ReportInv, [Next]_vars PROVE ReportInv'
    OBVIOUS
  <1>1. seen \in [Readers -> SUBSET Bundles]
    BY DEF RoutingInv, RoutingTypeOK
  <1>2. CASE UNCHANGED vars
    BY <1>2, ReportUnderReload DEF vars, readers, pipeline, ReportInv
  <1>3. ASSUME NEW b \in Bundles, Reload(b)
        PROVE  ReportInv'
    BY <1>3, ReportUnderReload DEF Reload, readers
  <1>4. ASSUME NEW e \in todo, BuildEndpoint(e)
        PROVE  ReportInv'
    BY <1>4, ReportUnderReload DEF BuildEndpoint, readers, ReportInv
  <1>5. CASE SettleDefault \/ InstallFallback
    BY <1>1, <1>5, ReportUnderReload DEF SettleDefault, InstallFallback, Unlock, ReportInv
  <1> QED BY <1>2, <1>3, <1>4, <1>5, ReportReaderStep DEF Next

\* What a probe reports is true of bundles that were installed while it ran.
\* (healthSnapshot, endpointNames)
THEOREM ReportsAreABundles == Spec => []ReportsMatchABundle
  <1>1. Init => ReportInv
    BY DEF Init, ReportInv, ReportOf
  <1>2. ReportInv => ReportsMatchABundle
    BY DEF ReportInv, ReportOf, Tells, NamesOneBundle, ReportsMatchABundle
  <1> QED BY <1>1, <1>2, RoutingInit, RoutingStep, ReportStep, PTL DEF Spec

-----------------------------------------------------------------------------
(* A reload looks as if it happened at once.                               *)

\* The names that an unlocked table shows.
LEMMA ShownNames ==
  ASSUME RoutingInv, ~locked
  PROVE  /\ View = [bundle |-> bundle, names |-> {table[k] : k \in Listed}] /\ View # None
         /\ View.bundle = bundle /\ View.names = {table[k] : k \in Listed}
         /\ View.names \subseteq Served(bundle) /\ Served(bundle) \subseteq Names
         /\ \A k \in Listed : Key[table[k]] = k
         /\ \A m \in View.names : Key[m] \in Listed /\ table[Key[m]] = m
  <1>1. /\ bundle \in Bundles /\ TableMatchesBundle /\ Served(bundle) \subseteq Names
        /\ None \notin Names
    BY BuiltAreNames, EndpointsAssumption DEF RoutingInv, RoutingTypeOK
  <1>2. ASSUME NEW k \in Listed
        PROVE  table[k] \in Served(bundle) /\ Key[table[k]] = k
    <2>1. PICK n \in Names : k = Key[n]
      BY <1>2 DEF Listed, Keys
    <2>2. table[k] \in Namesakes(bundle, n)
      BY <1>1, <1>2, <2>1 DEF TableMatchesBundle, Listed
    <2> QED BY <2>1, <2>2 DEF Namesakes
  <1>3. View = [bundle |-> bundle, names |-> {table[k] : k \in Listed}]
    BY DEF View
  <1>4. View \in [bundle : Bundles, names : SUBSET Names]
    BY <1>1, <1>2, <1>3
  <1>5. View # None
    BY <1>4, NoneAssumption
  <1>6. View.bundle = bundle /\ View.names = {table[k] : k \in Listed}
    BY <1>3
  <1> QED BY <1>1, <1>2, <1>3, <1>5, <1>6

\* The entry of a name is what the view has for it.
LEMMA ShownEntry ==
  ASSUME RoutingInv, ~locked, NEW n \in Names
  PROVE  /\ Routing!For(View.names, n) = IF table[Key[n]] # None THEN {table[Key[n]]} ELSE {}
         /\ Routing!Routed(n) = {Entry(n)}
         /\ Entry(n) = "404" <=> Routing!Routed(n) = {"404"}
  <1>1. /\ n # Unnamed /\ Key[n] \in Keys /\ None \notin Names
        /\ table \in [Keys -> Names \union {None}]
    BY EndpointsAssumption DEF Keys, RoutingInv, RoutingTypeOK
  <1>2. Routing!For(View.names, n) = IF table[Key[n]] # None THEN {table[Key[n]]} ELSE {}
    <2>1. \A m \in View.names : Key[m] = Key[n] => m = table[Key[n]] /\ table[Key[n]] # None
      BY ShownNames DEF Listed
    <2>2. table[Key[n]] # None => table[Key[n]] \in View.names /\ Key[table[Key[n]]] = Key[n]
      BY <1>1, ShownNames DEF Listed
    <2> QED BY <2>1, <2>2 DEF Routing!For
  <1>3. Routing!Routed(n) = {Entry(n)}
    BY <1>1, <1>2 DEF Routing!Routed, Entry
  <1> QED BY <1>2, <1>3

\* What is shown is one endpoint of every key the bundle serves.
ShownInv == ~locked => View \in Routing!Views

LEMMA ShownIsComplete == RoutingInv => ShownInv
  <1> SUFFICES ASSUME RoutingInv, ~locked PROVE View \in Routing!Views
    BY DEF ShownInv
  <1>1. /\ bundle \in Bundles /\ TableMatchesBundle /\ Served(bundle) \subseteq Names
        /\ None \notin Names
    BY BuiltAreNames, EndpointsAssumption DEF RoutingInv, RoutingTypeOK
  <1>2. Routing!Serves(bundle) = Served(bundle)
    BY <1>1 DEF Routing!Serves, Served
  <1>3. ASSUME NEW n \in Served(bundle)
        PROVE  \E m \in View.names : Routing!For(View.names, n) = {m}
    <2>1. n \in Names /\ n \in Namesakes(bundle, n)
      BY <1>1, <1>3 DEF Namesakes
    <2>2. table[Key[n]] \in Namesakes(bundle, n)
      BY <1>1, <2>1 DEF TableMatchesBundle
    <2>3. table[Key[n]] # None
      BY <1>1, <2>2 DEF Namesakes
    <2>4. Routing!For(View.names, n) = {table[Key[n]]}
      BY <2>1, <2>3, ShownEntry
    <2>5. table[Key[n]] \in View.names
      BY <2>4 DEF Routing!For
    <2> QED BY <2>4, <2>5
  <1>4. View \in [bundle : Bundles, names : SUBSET Names]
    BY <1>1, ShownNames
  <1>5. Routing!Complete(View.names, View.bundle)
    BY <1>2, <1>3, ShownNames DEF Routing!Complete
  <1> QED BY <1>4, <1>5 DEF Routing!Views

\* The default endpoint is the only one there is.
LEMMA ShownDefault ==
  ASSUME RoutingInv, ~locked
  PROVE  Routing!Routed(Unnamed) = {IF default # None THEN default ELSE "400"}
  <1>1. /\ bundle \in Bundles /\ TableMatchesBundle /\ Served(bundle) \subseteq Names
        /\ None \notin Names /\ Served(bundle) # {}
    BY BuiltAreNames, EndpointsAssumption DEF RoutingInv, RoutingTypeOK
  <1>2. CASE Alone(bundle)
    <2>1. PICK k \in Listed : default = table[k]
      BY <1>1, <1>2 DEF TableMatchesBundle
    <2>2. \A j \in Listed : j = k
      BY <1>2, <2>1, ShownNames DEF Alone
    <2>3. View.names = {default} /\ default \in Names /\ default # None
      BY <1>1, <2>1, <2>2, ShownNames
    <2> QED BY <2>3 DEF Routing!Routed
  <1>3. CASE ~Alone(bundle)
    <2>1. default = None
      BY <1>1, <1>3 DEF TableMatchesBundle
    <2>2. PICK m \in Served(bundle), n \in Served(bundle) : Key[m] # Key[n]
      BY <1>3 DEF Alone
    <2>3. m \in Namesakes(bundle, m) /\ n \in Namesakes(bundle, n) /\ m \in Names /\ n \in Names
      BY <1>1 DEF Namesakes
    <2>4. /\ table[Key[m]] \in Namesakes(bundle, m) /\ table[Key[n]] \in Namesakes(bundle, n)
      BY <1>1, <2>3 DEF TableMatchesBundle
    <2>5. /\ table[Key[m]] # None /\ table[Key[n]] # None /\ table[Key[m]] # table[Key[n]]
      BY <1>1, <2>2, <2>4 DEF Namesakes
    <2>6. Key[m] \in Listed /\ Key[n] \in Listed
      BY <2>3, <2>5 DEF Listed, Keys
    <2>7. \A l \in Names : View.names # {l}
      BY <2>5, <2>6, ShownNames
    <2> QED BY <2>1, <2>7 DEF Routing!Routed
  <1> QED BY <1>2, <1>3

\* Nobody sees the steps of a reload but its first and its last.
LEMMA ReloadIsOneStep ==
  ASSUME RoutingInv, ShownInv',
         \/ \E b \in Bundles : Reload(b)
         \/ \E e \in todo : BuildEndpoint(e)
         \/ SettleDefault \/ InstallFallback
  PROVE  [Routing!Next]_(Routing!vars)
  <1>1. UNCHANGED <<pc, ask, answer, report>>
    BY DEF Reload, BuildEndpoint, SettleDefault, InstallFallback, Unlock, readers
  <1>2. [r \in Readers |-> Phase(pc[r])]' = [r \in Readers |-> Phase(pc[r])]
    BY <1>1 DEF Phase
  <1>3. ASSUME NEW b \in Bundles, Reload(b)
        PROVE  Routing!Withdraw
    BY <1>1, <1>2, <1>3, ShownNames DEF Reload, View, Routing!Withdraw
  <1>4. ASSUME NEW e \in todo, BuildEndpoint(e)
        PROVE  UNCHANGED Routing!vars
    BY <1>1, <1>2, <1>4 DEF BuildEndpoint, View, Routing!vars
  <1>5. CASE SettleDefault \/ InstallFallback
    <2>1. locked /\ ~locked'
      BY <1>5 DEF SettleDefault, InstallFallback, Unlock
    <2>2. View = None
      BY <2>1 DEF View
    <2>3. View' \in Routing!Views'
      BY <2>1 DEF ShownInv
    <2>4. Routing!Views' = Routing!Views
      BY DEF Routing!Views, Routing!Complete, Routing!Serves, Routing!For, Built, Compiled
    <2> QED BY <1>1, <1>2, <2>2, <2>3, <2>4 DEF Routing!Install, Routing!Next
  <1> QED BY <1>3, <1>4, <1>5 DEF Routing!Next

\* A reader is told at a time what the view says, or goes on unnoticed.
LEMMA ReaderIsOneStep ==
  ASSUME RoutingInv, ReportInv, NEW r \in Readers,
         \/ \E n \in Names \union {Unnamed} : Ask(r, n) \/ Probe(r, n)
         \/ CountEndpoints(r) \/ LookupEndpoint(r)
         \/ EndpointExists(r) \/ HealthSnapshot(r) \/ EndpointNames(r)
  PROVE  [Routing!Next]_(Routing!vars)
  <1> DEFINE phase == [q \in Readers |-> Phase(pc[q])]
  <1>1. /\ ask[r] \in Names \union {Unnamed} /\ Unnamed \notin Names
        /\ pc[r] = "lookup" \/ pc[r] = "exists" => ask[r] \in Names
        /\ pc \in [Readers -> {"idle", "count", "lookup", "exists", "health", "names", "done"}]
    BY EndpointsAssumption DEF RoutingInv, RoutingTypeOK, LookupInv
  <1>2. UNCHANGED <<pipeline, reload>>
    BY DEF Ask, Probe, Start, CountEndpoints, LookupEndpoint, EndpointExists, Answer, GoTo,
           HealthSnapshot, EndpointNames
  <1>3. View' = View
    BY <1>2 DEF pipeline, reload, View, Listed
  <1>4. ASSUME NEW step, pc' = [pc EXCEPT ![r] = step]
        PROVE  phase' = [phase EXCEPT ![r] = Phase(step)]
    BY <1>1, <1>4 DEF Phase
  <1>5. phase[r] = Phase(pc[r])
    OBVIOUS
  <1>6. ASSUME NEW n \in Names \union {Unnamed}, Ask(r, n) \/ Probe(r, n)
        PROVE  Routing!Arrive(r)
    <2>1. PICK step \in {"count", "lookup", "exists", "health"} :
            /\ Start(r, n, step)
            /\ Phase(step) \in {"request", IF n = Unnamed THEN "health" ELSE "exists"}
      BY <1>6 DEF Ask, Probe, Phase
    <2>2. phase' = [phase EXCEPT ![r] = Phase(step)]
      BY <1>4, <2>1 DEF Start
    <2>3. phase[r] \in {"idle", "done"}
      BY <1>5, <2>1 DEF Start, Phase
    <2> QED BY <1>3, <2>1, <2>2, <2>3 DEF Start, Routing!Arrive
  <1>7. ASSUME NEW step \in {"lookup"}, pc[r] = "count", GoTo(r, step)
        PROVE  UNCHANGED Routing!vars
    <2>1. phase' = phase
      BY <1>1, <1>7 DEF GoTo, Phase
    <2> QED BY <1>3, <1>7, <2>1 DEF GoTo, Routing!vars
  <1>8. ASSUME NEW a, Answer(r, a)
        PROVE  Routing!Answer(r, a)
    <2>1. phase' = [phase EXCEPT ![r] = "done"]
      BY <1>4, <1>8 DEF Answer, Phase
    <2> QED BY <1>3, <1>8, <2>1 DEF Answer, Routing!Answer
  <1>9. CASE CountEndpoints(r)
    <2>1. ~locked /\ pc[r] = "count" /\ phase[r] = "request" /\ View # None
      BY <1>5, <1>9, ShownNames DEF CountEndpoints, Phase
    <2>2. CASE ask[r] = Unnamed /\ Answer(r, IF default # None THEN default ELSE "400")
      BY <1>8, <2>1, <2>2, ShownDefault DEF Routing!Route, Routing!Next
    <2> QED BY <1>7, <1>9, <2>1, <2>2 DEF CountEndpoints
  <1>10. CASE LookupEndpoint(r)
    <2>1. ~locked /\ phase[r] = "request" /\ View # None /\ ask[r] \in Names
      BY <1>1, <1>5, <1>10, ShownNames DEF LookupEndpoint, Phase
    <2> QED BY <1>8, <1>10, <2>1, ShownEntry DEF LookupEndpoint, Routing!Route, Routing!Next
  <1>11. CASE EndpointExists(r)
    <2>1. ~locked /\ phase[r] = "exists" /\ View # None /\ ask[r] \in Names
      BY <1>1, <1>5, <1>11, ShownNames DEF EndpointExists, Phase
    <2>2. CASE Entry(ask[r]) = "404" /\ Answer(r, "404")
      BY <1>8, <2>1, <2>2, ShownEntry DEF Routing!Admit, Routing!Next
    <2>3. CASE Entry(ask[r]) # "404" /\ GoTo(r, "health")
      <3>1. phase' = [phase EXCEPT ![r] = "health"]
        BY <1>4, <2>3 DEF GoTo, Phase
      <3> QED BY <1>3, <2>1, <2>3, <3>1, ShownEntry DEF GoTo, Routing!Admit, Routing!Next
    <2> QED BY <1>11, <2>2, <2>3 DEF EndpointExists
  <1>12. CASE HealthSnapshot(r)
    <2>1. /\ ~locked /\ phase[r] = "health" /\ View # None /\ View.bundle = bundle
          /\ bundle \in Bundles /\ fallback = (Built(bundle) = {})
      BY <1>5, <1>12, ShownNames
      DEF HealthSnapshot, Phase, RoutingInv, RoutingTypeOK, TableMatchesBundle, ReportInv
    <2>2. phase' = [phase EXCEPT ![r] = "names"]
      BY <1>4, <1>12 DEF HealthSnapshot, Phase
    <2>3. report' = [report EXCEPT ![r] = Routing!Health(View.bundle)]
      BY <1>12, <2>1 DEF HealthSnapshot, Routing!Health
    <2> QED BY <1>3, <1>12, <2>1, <2>2, <2>3
            DEF HealthSnapshot, Routing!Report, Routing!Next
  <1>13. CASE EndpointNames(r)
    <2>1. ~locked /\ phase[r] = "names" /\ View # None /\ View.names = {table[k] : k \in Listed}
      BY <1>5, <1>13, ShownNames DEF EndpointNames, Phase
    <2>2. phase' = [phase EXCEPT ![r] = "done"]
      BY <1>4, <1>13 DEF EndpointNames, Phase
    <2> QED BY <1>3, <1>13, <2>1, <2>2 DEF EndpointNames, Routing!ListNames, Routing!Next
  <1> QED BY <1>6, <1>9, <1>10, <1>11, <1>12, <1>13 DEF Routing!Next

LEMMA RoutingStepIsOneStep ==
  RoutingInv /\ ReportInv /\ ShownInv' /\ [Next]_vars => [Routing!Next]_(Routing!vars)
  <1> SUFFICES ASSUME RoutingInv, ReportInv, ShownInv', [Next]_vars
               PROVE  [Routing!Next]_(Routing!vars)
    OBVIOUS
  <1>1. CASE UNCHANGED vars
    BY <1>1 DEF vars, pipeline, reload, readers, View, Listed, Phase, Routing!vars
  <1> QED BY <1>1, ReloadIsOneStep, ReaderIsOneStep DEF Next

\* With any bundles, built in any order, and any number of readers, configuring
\* the endpoints under p.mu is one step to whoever reads them, and what a reader
\* is told at a time is true of the whole view that was shown.
\* (Reload, endpointForRequest, EndpointExists, healthSnapshot)
THEOREM TableImplementsRouting == Spec => ImplementsRouting
  <1>1. Init => Routing!Init
    BY DEF Init, View, Phase, Routing!Init
  <1>2. Init => ReportInv
    BY DEF Init, ReportInv, ReportOf
  <1> QED BY <1>1, <1>2, RoutingInit, RoutingStep, ReportStep, ShownIsComplete,
             RoutingStepIsOneStep, PTL
          DEF Spec, ImplementsRouting, Routing!Spec
=============================================================================
