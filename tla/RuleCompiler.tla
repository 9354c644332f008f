---------------------------- MODULE RuleCompiler ----------------------------
(***************************************************************************)
(* The way of a definition from its source to the pipeline: Config.Validate*)
(* looks at the server's own configuration (internal/config/types.go,      *)
(* loader.go), RuleAggregator merges it with the rule documents, and       *)
(* configureEndpoints compiles what stands (internal/runtime/runtime.go,   *)
(* rulechain/agent.go, auth.go).                                           *)
(*                                                                         *)
(* A rule's definition also has                                            *)
(*   auth     a sequence of directives, each with match, a set of matchers,*)
(*            and forwardAs, a sequence of targets                         *)
(*   checks   whether Validate finds nothing wrong but, perhaps, its auth  *)
(*   renders  whether its templates parse                                  *)
(* and an endpoint's                                                       *)
(*   checks   whether validateEndpointAuthentication and                   *)
(*            validateVariableMap pass                                     *)
(*   builds   whether its variables and policies can be built              *)
(* A constraint is "absent", "values", or "regex" for values of which one  *)
(* is no regular expression, or "malformed": no string or list of strings. *)
(*                                                                         *)
(* Names are those left after trimming.  The aggregator and the rules of a *)
(* chain tell upper from lower case, p.endpoints does not.                 *)
(***************************************************************************)
EXTENDS RuleAggregator, Sequences

CONSTANTS
  Inline,  \* the server's own configuration, inline-config
  Key      \* the lower case of every endpoint's name

VARIABLES
  stage,   \* "configured", "refused", "merging" or "installed"
  served,  \* the compiled rules
  table    \* p.endpoints: the endpoints kept, each with its rules

load     == <<stage, served, table>>
loadVars == <<vars, load>>

Constraints == {"absent", "values", "regex", "malformed"}

Valued == {"header", "query", "bearer"}

Kinds == Valued \union {"basic", "none"}

\* What a directive may say; kinds no code supports are "other".
Matchers ==
  [kind : Kinds \union {"other"}, named : BOOLEAN,
   value : Constraints, username : Constraints, password : Constraints]

Targets == [kind : Kinds \union {"", "other"}, name : STRING]

ASSUME RulesAssumption ==
  \A d \in Definitions :
    /\ d.checks \in BOOLEAN
    /\ d.kind = "endpoint" => d.builds \in BOOLEAN
    /\ d.kind = "rule" =>
         /\ d.renders \in BOOLEAN
         /\ d.auth \in Seq([match : SUBSET Matchers, forwardAs : Seq(Targets)])

LoadInit ==
  /\ Init
  /\ stage = "configured"
  /\ served = {} /\ table = {}

-----------------------------------------------------------------------------
(* Config.Validate.                                                        *)

\* ParseValueConstraint: no constraint is fine, an empty list is not.
Parses(c) == c # "malformed"

\* A matcher for a header or a query parameter names it.
Named(m) == m.kind \in {"header", "query"} => m.named

\* Mutant: the constraints of basic credentials are not looked at.
ValidButBasic(m) ==
  /\ m.kind \in Kinds
  /\ Named(m)
  /\ m.kind \in Valued => Parses(m.value) /\ m.username = "absent" /\ m.password = "absent"
  /\ m.kind = "none" => m.value = "absent" /\ m.username = "absent" /\ m.password = "absent"

\* validateAuthMatcher
ValidMatcher(m) ==
  /\ m.kind \in Kinds
  /\ Named(m)
  /\ m.kind \in Valued => Parses(m.value) /\ m.username = "absent" /\ m.password = "absent"
  /\ m.kind = "basic" => m.value = "absent" /\ Parses(m.username) /\ Parses(m.password)
  /\ m.kind = "none" => m.value = "absent" /\ m.username = "absent" /\ m.password = "absent"

\* buildForwardKey: what a target overwrites.
ForwardKey(t) ==
  IF t.kind \in {"bearer", "basic"} THEN <<"authorization">>
  ELSE IF t.kind = "none" THEN <<"none">>
  ELSE <<t.kind, t.name>>

\* validateForwardAsArray
ValidForwards(forwards) ==
  /\ \A i \in DOMAIN forwards : forwards[i].kind \in Kinds
  /\ \A i, j \in DOMAIN forwards : ForwardKey(forwards[i]) = ForwardKey(forwards[j]) => i = j

\* validateAuthDirective
ValidDirective(d) ==
  /\ d.match # {}
  /\ \A m \in d.match : ValidMatcher(m)
  /\ \A m \in d.match : m.kind = "none" => d.match = {m}
  /\ ValidForwards(d.forwardAs)

Sound(d) ==
  /\ d.checks
  /\ d.kind = "rule" => \A i \in DOMAIN d.auth : ValidDirective(d.auth[i])

\* Load validates before it merges: the rule documents are never validated.
ValidateConfig ==
  /\ stage = "configured"
  /\ stage' = IF \A d \in defs : d.source = Inline => Sound(d) THEN "merging" ELSE "refused"
  /\ UNCHANGED <<vars, served, table>>

\* buildRuleBundle
Merge ==
  /\ stage = "merging"
  /\ Next
  /\ UNCHANGED load

-----------------------------------------------------------------------------
(* configureEndpoints.                                                     *)

\* buildRuleAuthSpec goes on to the next matcher when a constraint does not
\* parse, of whatever kind the matcher is.
Kept(match) == {m \in match : Parses(m.value) /\ Parses(m.username) /\ Parses(m.password)}

\* compileAuthMatcher fails for a kind it does not know, a name that is missing
\* and a regular expression that does not compile.
MatcherCompiles(m) ==
  /\ m.kind \in Kinds
  /\ Named(m)
  /\ m.kind \in Valued => m.value # "regex"
  /\ m.kind = "basic" => m.username # "regex" /\ m.password # "regex"

\* A constraint that is not one of the matcher's kind is passed over.
CompiledMatcher(m) ==
  [m EXCEPT !.value    = IF m.kind \in Valued THEN @ ELSE "absent",
            !.username = IF m.kind = "basic" THEN @ ELSE "absent",
            !.password = IF m.kind = "basic" THEN @ ELSE "absent"]

\* compileAuthDirective, compileAuthForward
DirectiveCompiles(d) ==
  /\ Kept(d.match) # {}
  /\ \A m \in Kept(d.match) : MatcherCompiles(m)
  /\ \A i \in DOMAIN d.forwardAs : d.forwardAs[i].kind # "other"

CompiledDirective(d) ==
  [match |-> {CompiledMatcher(m) : m \in Kept(d.match)}, forwardAs |-> d.forwardAs]

\* compileDefinition; the conditions compiled before, when rules were validated.
RuleCompiles(d) ==
  /\ \A i \in DOMAIN d.auth : DirectiveCompiles(d.auth[i])
  /\ d.renders

CompiledRule(d) ==
  [name |-> d.name, source |-> d.source,
   auth |-> [i \in DOMAIN d.auth |-> CompiledDirective(d.auth[i])]]

\* compileConfiguredRules: a rule that does not compile leaves no rules.
CompiledRules ==
  LET rules == {d \in active : d.kind = "rule"}
  IN  IF \A d \in rules : RuleCompiles(d) THEN {CompiledRule(d) : d \in rules} ELSE {}

\* Mutant: a rule that is not available is left out of the chain.
BuiltFromTheRest(e, rules) == e.builds

\* buildEndpointRuntime
Built(e, rules) == e.builds /\ \A n \in e.refs : \E r \in rules : r.name = n

BuiltEndpoint(e, rules) ==
  [name |-> e.name, source |-> e.source, rules |-> {r \in rules : r.name \in e.refs}]

BuiltEndpoints ==
  {BuiltEndpoint(e, CompiledRules) :
     e \in {d \in active : d.kind = "endpoint" /\ Built(d, CompiledRules)}}

SameKey(c, d) == Key[c.name] = Key[d.name]

\* Mutant: endpoints are kept by their names as they are spelled.
KeptByName(built) == {built}

\* What may be left of the endpoints built: one of every key, the one that Go's
\* random map order has come last.
KeptByKey(built) ==
  {kept \in SUBSET built :
     /\ \A c, e \in kept : SameKey(c, e) => c = e
     /\ \A e \in built : \E c \in kept : SameKey(c, e)}

\* Reload or NewPipeline. With no endpoint built the fallback is installed.
Install ==
  /\ stage = "merging" /\ pc = "done"
  /\ served' = CompiledRules
  /\ table' \in KeptByKey(BuiltEndpoints)
  /\ stage' = "installed"
  /\ UNCHANGED vars

LoadNext == ValidateConfig \/ Merge \/ Install

LoadSpec == LoadInit /\ [][LoadNext]_loadVars

-----------------------------------------------------------------------------
\* The definition a compiled rule was made of.
Origin(r, d) == d.kind = "rule" /\ d.name = r.name /\ d.source = r.source

\* A rule of the server's own configuration is served with every matcher and
\* every constraint it was configured with: what Validate lets through, the
\* compiler neither drops nor passes over. (validateAuthDirective,
\* buildRuleAuthSpec, compileAuthMatcher)
InlineRulesAsConfigured ==
  \A r \in served : r.source = Inline => \E d \in defs : Origin(r, d) /\ r.auth = d.auth

\* The rules an endpoint's chain is made of are there: compileConfiguredRules
\* has all rules that stand or, if one of them does not compile, none.
HasItsRules(d) == d.refs = {} \/ \A r \in Materialized : RuleCompiles(r)

\* The endpoints that are to be served: a rule that does not compile costs every
\* chain and no endpoint without one.
Servable(d) == d.kind = "endpoint" /\ d.builds /\ HasItsRules(d)

\* What is served under a name, in whatever case, is one endpoint that stands, is
\* built and has its rules, and something is whenever there is such an endpoint.
\* It is the only one of its name as it is spelled and runs its whole chain, of
\* rules that are each the only one of their name. (pruneInvalidEndpoints,
\* compileConfiguredRules, buildEndpointRuntime, configureEndpoints)
ServedChainsAreWhole ==
  /\ \A e \in table : \E d \in Standing :
       /\ Servable(d) /\ d.name = e.name /\ d.source = e.source
       /\ d.refs = {r.name : r \in e.rules}
       /\ \A r \in e.rules : \E c \in Materialized : c.name = r.name /\ c.source = r.source
  /\ \A c, e \in table : SameKey(c, e) => c = e
  /\ stage = "installed" =>
       \A d \in Standing : Servable(d) => \E e \in table : SameKey(e, d)

-----------------------------------------------------------------------------
(* What a comment says and the code does not do.                           *)

\* runtime.go, buildRuleAuthSpec: "Skip this directive if parsing fails
\* (validation should have caught this)".
MatchersAreKept ==
  \A r \in served : \E d \in defs :
    /\ Origin(r, d)
    /\ \A i \in DOMAIN d.auth : r.auth[i].match = {CompiledMatcher(m) : m \in d.auth[i].match}
=============================================================================
