------------------------- MODULE RuleCompilerProofs -------------------------
(***************************************************************************)
(* What Config.Validate lets through is compiled to itself, and what is    *)
(* served comes whole out of the bundle, for any documents.                *)
(***************************************************************************)
EXTENDS RuleCompiler, RuleAggregatorProofs

Directives == [match : SUBSET Matchers, forwardAs : Seq(Targets)]

\* The server's configuration passed Validate before anything was merged; what
\* is installed was compiled from definitions that stand.
LoadInv ==
  /\ BundleInv
  /\ stage \in {"configured", "refused", "merging", "installed"}
  /\ stage \in {"merging", "installed"} => \A d \in defs : d.source = Inline => Sound(d)
  /\ stage # "installed" => served = {} /\ table = {}
  /\ InlineRulesAsConfigured
  /\ ServedChainsAreWhole

\* Loading a configuration is, to the definitions, a run of the aggregator.
LEMMA LoadStepMerges == [LoadNext]_loadVars => [Next]_vars
  BY DEF LoadNext, ValidateConfig, Merge, Install, loadVars, vars

LEMMA LoadMerges == LoadSpec => Spec
  <1>1. LoadInit => Init
    BY DEF LoadInit
  <1> QED BY <1>1, LoadStepMerges, PTL DEF LoadSpec, Spec

\* A valid matcher is neither dropped nor relieved of a constraint.
LEMMA ValidMatcherIsKept ==
  ASSUME NEW m \in Matchers, ValidMatcher(m)
  PROVE  /\ Parses(m.value) /\ Parses(m.username) /\ Parses(m.password)
         /\ CompiledMatcher(m) = m
  BY DEF Matchers, ValidMatcher, Parses, CompiledMatcher, Valued, Kinds

LEMMA ValidDirectiveIsKept ==
  ASSUME NEW d \in Directives, ValidDirective(d)
  PROVE  CompiledDirective(d) = d
  <1>1. \A m \in d.match : m \in Matchers /\ ValidMatcher(m)
    BY DEF Directives, ValidDirective
  <1>2. Kept(d.match) = d.match
    BY <1>1, ValidMatcherIsKept DEF Kept
  <1>3. {CompiledMatcher(m) : m \in d.match} = d.match
    BY <1>1, ValidMatcherIsKept
  <1>4. CompiledDirective(d) = [match |-> d.match, forwardAs |-> d.forwardAs]
    BY <1>2, <1>3 DEF CompiledDirective
  <1> QED BY <1>4 DEF Directives

\* So a rule that passed Validate is compiled to what it was configured to be.
LEMMA SoundRuleIsKept ==
  ASSUME NEW d \in Definitions, d.kind = "rule", Sound(d)
  PROVE  CompiledRule(d).auth = d.auth
  <1>1. d.auth \in Seq(Directives)
    BY RulesAssumption DEF Directives
  <1>2. \A i \in DOMAIN d.auth : d.auth[i] \in Directives /\ ValidDirective(d.auth[i])
    BY <1>1 DEF Sound
  <1>3. \A i \in DOMAIN d.auth : CompiledDirective(d.auth[i]) = d.auth[i]
    BY <1>2, ValidDirectiveIsKept
  <1>4. d.auth = [i \in DOMAIN d.auth |-> d.auth[i]]
    BY <1>1
  <1> QED BY <1>3, <1>4 DEF CompiledRule

LEMMA LoadInitInv == LoadInit => LoadInv
  BY BundleInit DEF LoadInit, LoadInv, InlineRulesAsConfigured, ServedChainsAreWhole

\* The steps that leave what is served alone.
LEMMA LoadKeeps ==
  ASSUME LoadInv, [Next]_vars, UNCHANGED <<served, table>>,
         \/ UNCHANGED stage
         \/ /\ stage' \in {"refused", "merging"} /\ stage = "configured" /\ UNCHANGED vars
            /\ stage' = "merging" => \A d \in defs : d.source = Inline => Sound(d)
  PROVE  LoadInv'
  <1>1. BundleInv'
    BY BundleStep DEF LoadInv
  <1>2. defs' = defs
    BY DEF Next, Add, Validate, Prune, vars
  <1>3. Standing' = Standing /\ Materialized' = Materialized
    BY <1>2 DEF Standing, Materialized, Unique, Rivals, Whole
  <1>4. InlineRulesAsConfigured'
    BY <1>2 DEF LoadInv, InlineRulesAsConfigured
  <1>5. ServedChainsAreWhole'
    BY <1>3 DEF LoadInv, ServedChainsAreWhole, Servable, HasItsRules
  <1> QED BY <1>1, <1>2, <1>4, <1>5 DEF LoadInv

\* The rules that are served, in a bundle that is done.
LEMMA RulesOfBundle ==
  ASSUME active = Standing
  PROVE  /\ {d \in active : d.kind = "rule"} = Materialized
         /\ (\A r \in Materialized : RuleCompiles(r)) =>
              CompiledRules = {CompiledRule(r) : r \in Materialized}
         /\ CompiledRules # {} => \A r \in Materialized : RuleCompiles(r)
  <1>1. {d \in active : d.kind = "rule"} = Materialized
    BY DEF Standing, Materialized, Whole
  <1> QED BY <1>1 DEF CompiledRules

\* Of the endpoints that stand, exactly those with what they need are built.
LEMMA StandingIsBuilt ==
  ASSUME active = Standing, NEW d \in Standing, d.kind = "endpoint"
  PROVE  Built(d, CompiledRules) <=> Servable(d)
  <1>1. \A n \in d.refs : \E r \in Materialized : r.name = n
    BY DEF Standing, Materialized, Whole
  <1>2. ASSUME \A r \in Materialized : RuleCompiles(r)
        PROVE  \A n \in d.refs : \E r \in CompiledRules : r.name = n
    <2>1. CompiledRules = {CompiledRule(r) : r \in Materialized}
      BY <1>2, RulesOfBundle
    <2>2. \A r : CompiledRule(r).name = r.name
      BY DEF CompiledRule
    <2> QED BY <1>1, <2>1, <2>2
  <1>3. ASSUME d.refs # {}, \A n \in d.refs : \E r \in CompiledRules : r.name = n
        PROVE  \A r \in Materialized : RuleCompiles(r)
    BY <1>3, RulesOfBundle
  <1> QED BY <1>2, <1>3 DEF Built, Servable, HasItsRules

\* What stands when the bundle is made.
LEMMA InstallStep == LoadInv /\ Install => LoadInv'
  <1> SUFFICES ASSUME LoadInv, Install PROVE LoadInv'
    OBVIOUS
  <1> DEFINE rules == {d \in active : d.kind = "rule"}
  <1>1. /\ stage = "merging" /\ stage' = "installed" /\ pc = "done"
        /\ served' = CompiledRules
        /\ defs' = defs /\ UNCHANGED vars
    BY DEF Install, vars
  <1>2. active = Standing /\ defs \in Documents
    BY <1>1 DEF LoadInv, BundleInv, DoneInv
  <1>3. defs \subseteq Definitions /\ Standing \subseteq defs
    BY <1>2, DocumentsAssumption DEF Standing, Materialized
  <1>4. \A r \in CompiledRules : \E d \in rules : r = CompiledRule(d)
    BY DEF CompiledRules
  <1>5. \A d : CompiledRule(d).name = d.name /\ CompiledRule(d).source = d.source
    BY DEF CompiledRule
  <1>6. BundleInv'
    BY <1>1, BundleStep DEF LoadInv
  <1>7. InlineRulesAsConfigured'
    <2> SUFFICES ASSUME NEW r \in CompiledRules, r.source = Inline
                 PROVE  \E d \in defs : Origin(r, d) /\ r.auth = d.auth
      BY <1>1 DEF InlineRulesAsConfigured, Origin
    <2>1. PICK d \in rules : r = CompiledRule(d)
      BY <1>4
    <2>2. d \in defs /\ d \in Definitions /\ d.kind = "rule" /\ d.source = Inline
      BY <1>2, <1>3, <1>5, <2>1
    <2>3. Sound(d)
      BY <1>1, <2>2 DEF LoadInv
    <2> QED BY <1>5, <2>1, <2>2, <2>3, SoundRuleIsKept DEF Origin
  <1>8. ServedChainsAreWhole'
    <2>1. Standing' = Standing /\ Materialized' = Materialized
      BY <1>1 DEF Standing, Materialized, Unique, Rivals, Whole, SameName
    <2>2. /\ table' \subseteq BuiltEndpoints
          /\ \A c, e \in table' : SameKey(c, e) => c = e
          /\ \A e \in BuiltEndpoints : \E c \in table' : SameKey(c, e)
      BY DEF Install, KeptByKey
    <2>3. \A d : Servable(d)' <=> Servable(d)
      BY <2>1 DEF Servable, HasItsRules
    <2>4. ASSUME NEW e \in table'
          PROVE  \E d \in Standing :
                   /\ Servable(d) /\ d.name = e.name /\ d.source = e.source
                   /\ d.refs = {r.name : r \in e.rules}
                   /\ \A r \in e.rules : \E c \in Materialized :
                        c.name = r.name /\ c.source = r.source
      <3>1. PICK d \in active : /\ d.kind = "endpoint" /\ Built(d, CompiledRules)
                                /\ e = BuiltEndpoint(d, CompiledRules)
        BY <2>2 DEF BuiltEndpoints
      <3>2. /\ e.name = d.name /\ e.source = d.source
            /\ e.rules = {r \in CompiledRules : r.name \in d.refs}
        BY <3>1 DEF BuiltEndpoint
      <3>3. d.refs = {r.name : r \in e.rules}
        BY <3>1, <3>2 DEF Built
      <3>4. \A r \in e.rules : \E c \in Materialized : c.name = r.name /\ c.source = r.source
        BY <1>2, <1>4, <1>5, <3>2, RulesOfBundle
      <3>5. Servable(d)
        BY <1>2, <3>1, StandingIsBuilt
      <3> QED BY <1>2, <3>1, <3>2, <3>3, <3>4, <3>5
    <2>5. ASSUME NEW d \in Standing, Servable(d)
          PROVE  \E e \in table' : SameKey(e, d)
      <3>1. d \in active /\ d.kind = "endpoint" /\ Built(d, CompiledRules)
        BY <1>2, <2>5, StandingIsBuilt DEF Servable
      <3>2. BuiltEndpoint(d, CompiledRules) \in BuiltEndpoints
        BY <3>1 DEF BuiltEndpoints
      <3>3. PICK e \in table' : SameKey(e, BuiltEndpoint(d, CompiledRules))
        BY <2>2, <3>2
      <3>4. SameKey(e, d)
        BY <3>3 DEF SameKey, BuiltEndpoint
      <3> QED BY <3>4
    <2> QED BY <2>1, <2>2, <2>3, <2>4, <2>5 DEF ServedChainsAreWhole, SameKey
  <1> QED BY <1>1, <1>6, <1>7, <1>8 DEF LoadInv

LEMMA LoadStep == LoadInv /\ [LoadNext]_loadVars => LoadInv'
  <1> SUFFICES ASSUME LoadInv, [LoadNext]_loadVars PROVE LoadInv'
    OBVIOUS
  <1>1. CASE UNCHANGED loadVars
    BY <1>1, LoadKeeps DEF loadVars, load
  <1>2. CASE ValidateConfig
    BY <1>2, LoadKeeps DEF ValidateConfig
  <1>3. CASE Merge
    BY <1>3, LoadKeeps DEF Merge, load
  <1> QED BY <1>1, <1>2, <1>3, InstallStep DEF LoadNext

LEMMA LoadInvariant == LoadSpec => []LoadInv
  BY LoadInitInv, LoadStep, PTL DEF LoadSpec

\* For any configuration that Validate accepts, with any documents beside it.
\* (validateAuthDirective, buildRuleAuthSpec, compileAuthMatcher)
THEOREM ValidatedRulesAreExact == LoadSpec => []InlineRulesAsConfigured
  <1>1. LoadInv => InlineRulesAsConfigured
    BY DEF LoadInv
  <1> QED BY <1>1, LoadInvariant, PTL

\* No chain is served short of a rule, or with a rule of a disputed name; and
\* where an endpoint has what it needs, one of its name, in whatever case, is
\* served, and one only. (pruneInvalidEndpoints, compileConfiguredRules,
\* buildEndpointRuntime, configureEndpoints)
THEOREM ChainsAreWhole == LoadSpec => []ServedChainsAreWhole
  <1>1. LoadInv => ServedChainsAreWhole
    BY DEF LoadInv
  <1> QED BY <1>1, LoadInvariant, PTL

\* The bundle a configuration is loaded from knows no order. (buildRuleBundle)
THEOREM LoadIsOrderless == LoadSpec => []BundleIsOrderless
  BY LoadMerges, MergeIsOrderless, PTL

-----------------------------------------------------------------------------
(* EndpointTable takes up where this model ends, and has bundles for       *)
(* constants.  These are the ones it gets, in the form it has them.        *)

HandedEndpoint(d) == [name |-> d.name, refs |-> d.refs, builds |-> d.builds]

HandedRule(d) == [name |-> d.name, compiles |-> RuleCompiles(d)]

HandedEndpoints == {HandedEndpoint(d) : d \in {e \in active : e.kind = "endpoint"}}

HandedRules == {HandedRule(d) : d \in {r \in active : r.kind = "rule"}}

\* Compiled and Built of EndpointTable.
HandedCompiled ==
  IF \A r \in HandedRules : r.compiles THEN {r.name : r \in HandedRules} ELSE {}

HandedBuilt ==
  {e.name : e \in {f \in HandedEndpoints : f.builds /\ f.refs \subseteq HandedCompiled}}

\* The last conjunct of EndpointsAssumption.
HandedIsWhole ==
  pc = "done" => \A e \in HandedEndpoints : \A n \in e.refs : \E r \in HandedRules : r.name = n

InstalledInv == stage = "installed" => table \in KeptByKey(BuiltEndpoints)

LEMMA InstalledStep == InstalledInv /\ [LoadNext]_loadVars => InstalledInv'
  <1> SUFFICES ASSUME InstalledInv, [LoadNext]_loadVars, stage' = "installed"
               PROVE  InstalledInv'
    BY DEF InstalledInv
  <1> USE DEF InstalledInv, KeptByKey, SameKey, BuiltEndpoints, BuiltEndpoint, CompiledRules, Built
  <1>1. CASE Install
    BY <1>1 DEF Install, vars
  <1>2. CASE UNCHANGED loadVars
    BY <1>2 DEF loadVars, load, vars
  <1>3. ~ValidateConfig /\ ~Merge
    BY DEF ValidateConfig, Merge, load
  <1> QED BY <1>1, <1>2, <1>3 DEF LoadNext

LEMMA HandedHas ==
  ASSUME NEW d
  PROVE  /\ HandedEndpoint(d).name = d.name
         /\ HandedEndpoint(d).refs = d.refs
         /\ HandedEndpoint(d).builds = d.builds
         /\ HandedRule(d).name = d.name
         /\ HandedRule(d).compiles = RuleCompiles(d)
  BY DEF HandedEndpoint, HandedRule

LEMMA HandedAreCompiled == {r.name : r \in CompiledRules} = HandedCompiled
  <1> DEFINE rules == {d \in active : d.kind = "rule"}
  <1>1. (\A r \in HandedRules : r.compiles) <=> \A d \in rules : RuleCompiles(d)
    <2>1. \A r \in HandedRules : \E d \in rules : r = HandedRule(d)
      BY DEF HandedRules
    <2>2. \A d \in rules : HandedRule(d) \in HandedRules
      BY DEF HandedRules
    <2> HIDE DEF rules
    <2> QED BY <2>1, <2>2, HandedHas
  <1>2. {r.name : r \in HandedRules} = {d.name : d \in rules}
    <2>1. HandedRules = {HandedRule(d) : d \in rules}
      BY DEF HandedRules
    <2> HIDE DEF rules
    <2> QED BY <2>1, HandedHas
  <1>3. \A d : CompiledRule(d).name = d.name
    BY DEF CompiledRule
  <1>4. CASE \A d \in rules : RuleCompiles(d)
    <2>1. CompiledRules = {CompiledRule(d) : d \in rules}
      BY <1>4 DEF CompiledRules
    <2> HIDE DEF rules
    <2>2. {r.name : r \in CompiledRules} = {d.name : d \in rules}
      BY <1>3, <2>1
    <2> QED BY <1>1, <1>2, <1>4, <2>2 DEF HandedCompiled
  <1>5. CASE ~\A d \in rules : RuleCompiles(d)
    BY <1>1, <1>5 DEF CompiledRules, HandedCompiled
  <1> QED BY <1>4, <1>5

\* What EndpointTable has a table hold for a bundle: endpoints that can be built,
\* and one of every key one of them has.
HandedOver ==
  stage = "installed" =>
    /\ \A e \in table : e.name \in HandedBuilt
    /\ \A n \in HandedBuilt : \E e \in table : Key[e.name] = Key[n]
    /\ \A c, e \in table : Key[c.name] = Key[e.name] => c = e

\* The two models of configureEndpoints fit: a bundle as the loader hands it
\* over is one EndpointTable is about, and the endpoints that are installed here
\* in one step are such as are left there of those built one by one.
\* (buildRuleBundle, configureEndpoints)
THEOREM BundlesAreHandedOver == LoadSpec => [](HandedIsWhole /\ HandedOver)
  <1>1. LoadInv => HandedIsWhole
    <2> SUFFICES ASSUME active = Standing PROVE HandedIsWhole
      BY DEF LoadInv, BundleInv, DoneInv, HandedIsWhole
    <2> SUFFICES ASSUME NEW d \in active, d.kind = "endpoint", NEW n \in d.refs
                 PROVE  \E r \in HandedRules : r.name = n
      BY HandedHas DEF HandedIsWhole, HandedEndpoints
    <2>1. PICK r \in Materialized : r.name = n
      BY DEF Standing, Materialized, Whole
    <2>2. r \in active /\ r.kind = "rule"
      BY <2>1 DEF Standing, Materialized
    <2>3. HandedRule(r) \in HandedRules /\ HandedRule(r).name = n
      BY <2>1, <2>2, HandedHas DEF HandedRules
    <2> QED BY <2>3
  <1>2. InstalledInv => HandedOver
    <2> SUFFICES ASSUME InstalledInv, stage = "installed" PROVE HandedOver
      BY DEF HandedOver
    <2> DEFINE built == {d \in active : d.kind = "endpoint" /\ Built(d, CompiledRules)}
    <2>1. /\ BuiltEndpoints = {BuiltEndpoint(e, CompiledRules) : e \in built}
          /\ table \subseteq BuiltEndpoints
          /\ \A c, e \in table : SameKey(c, e) => c = e
          /\ \A e \in BuiltEndpoints : \E c \in table : SameKey(c, e)
      BY DEF InstalledInv, KeptByKey, BuiltEndpoints
    <2>2. \A d : BuiltEndpoint(d, CompiledRules).name = d.name
      BY DEF BuiltEndpoint
    <2>3. \A d : Built(d, CompiledRules) <=> d.builds /\ d.refs \subseteq HandedCompiled
      <3>1. \A n : n \in HandedCompiled <=> \E r \in CompiledRules : r.name = n
        BY HandedAreCompiled
      <3> QED BY <3>1 DEF Built
    <2>4. HandedBuilt = {d.name : d \in built}
      <3>1. ASSUME NEW n \in HandedBuilt PROVE n \in {d.name : d \in built}
        <4>1. PICK e \in HandedEndpoints : e.builds /\ e.refs \subseteq HandedCompiled /\ n = e.name
          BY DEF HandedBuilt
        <4>2. PICK d \in active : d.kind = "endpoint" /\ e = HandedEndpoint(d)
          BY DEF HandedEndpoints
        <4>3. d.builds /\ d.refs \subseteq HandedCompiled /\ n = d.name
          BY <4>1, <4>2, HandedHas
        <4>4. d \in built
          BY <2>3, <4>2, <4>3
        <4> HIDE DEF built
        <4> QED BY <4>3, <4>4
      <3>2. ASSUME NEW d \in built PROVE d.name \in HandedBuilt
        <4>1. d \in active /\ d.kind = "endpoint" /\ d.builds /\ d.refs \subseteq HandedCompiled
          BY <2>3
        <4>2. HandedEndpoint(d) \in HandedEndpoints
          BY <4>1 DEF HandedEndpoints
        <4> QED BY <4>1, <4>2, HandedHas DEF HandedBuilt
      <3> HIDE DEF built
      <3> QED BY <3>1, <3>2
    <2>5. {e.name : e \in BuiltEndpoints} = HandedBuilt
      <3> HIDE DEF built
      <3> QED BY <2>1, <2>2, <2>4
    <2> QED BY <2>1, <2>5 DEF HandedOver, SameKey
  <1>3. LoadInit => InstalledInv
    BY DEF LoadInit, InstalledInv
  <1> QED BY <1>1, <1>2, <1>3, InstalledStep, LoadInvariant, PTL DEF LoadSpec
=============================================================================
