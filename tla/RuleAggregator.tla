--------------------------- MODULE RuleAggregator ---------------------------
(***************************************************************************)
(* buildRuleBundle: the definitions of every source are merged into one    *)
(* bundle; names defined twice, rules that do not compile and endpoints    *)
(* that refer to rules that are not there are quarantined                  *)
(* (internal/config/rules_loader.go).                                      *)
(*                                                                         *)
(* Sources are merged in order, inline-config first; a source's endpoints  *)
(* come before its rules, and each of the two in Go's random map order.    *)
(***************************************************************************)
EXTENDS Naturals

CONSTANTS
  Definitions,  \* what documents may define: [kind, name, source, refs, valid]
  Documents,    \* the sets of definitions the sources may hold together
  Position      \* each source's place in the order of merging

ASSUME DocumentsAssumption ==
  /\ \A d \in Definitions : d.kind \in {"endpoint", "rule"} /\ Position[d.source] \in Nat
  /\ \A c, d \in Definitions : Position[c.source] = Position[d.source] => c.source = d.source
  /\ \A D \in Documents : D \subseteq Definitions
  \* A document is a map: it defines a name once.
  /\ \A D \in Documents : \A c, d \in D :
       c.kind = d.kind /\ c.name = d.name /\ c.source = d.source => c = d

VARIABLES
  defs,     \* the definitions the sources hold
  pc,       \* "merge", "validate", "prune" or "done"
  todo,     \* definitions not merged yet
  active,   \* a.endpoints and a.rules: the definitions that stand
  skipped   \* a.endpointSkips and a.ruleSkips

vars == <<defs, pc, todo, active, skipped>>

SameName(c, d) == c.kind = d.kind /\ c.name = d.name

Skip(d, reason, sources) ==
  [kind |-> d.kind, name |-> d.name, reason |-> reason, sources |-> sources]

Init ==
  /\ defs \in Documents
  /\ todo = defs
  /\ pc = "merge"
  /\ active = {} /\ skipped = {}

-----------------------------------------------------------------------------
\* d is one of the definitions addDocument may come to next.
Turn(d) ==
  /\ pc = "merge"
  /\ d \in todo
  /\ \A c \in todo :
       \/ Position[d.source] < Position[c.source]
       \/ d.source = c.source /\ (d.kind = "endpoint" \/ c.kind = "rule")

\* Mutant: a source that repeats a quarantined name is not recorded.
AddUnrecorded(d) ==
  /\ \E s \in skipped : SameName(s, d)
  /\ UNCHANGED <<active, skipped>>

\* The name was quarantined before: the source joins the others.
AddQuarantined(d) ==
  \E s \in skipped :
    /\ SameName(s, d)
    /\ skipped' = (skipped \ {s}) \union {Skip(d, s.reason, s.sources \union {d.source})}
    /\ UNCHANGED active

\* The name stands already: neither definition does from now on.
AddDuplicate(d) ==
  /\ \A s \in skipped : ~SameName(s, d)
  /\ \E p \in active :
       /\ SameName(p, d)
       /\ skipped' = skipped \union {Skip(d, "duplicate definition", {p.source, d.source})}
       /\ active' = active \ {p}

\* Mutant: quarantined names are not looked up.
AddAnyFirst(d) ==
  /\ \A p \in active : ~SameName(p, d)
  /\ active' = active \union {d}
  /\ UNCHANGED skipped

AddFirst(d) ==
  /\ \A s \in skipped : ~SameName(s, d)
  /\ \A p \in active : ~SameName(p, d)
  /\ active' = active \union {d}
  /\ UNCHANGED skipped

\* addEndpoint and addRule.
Add(d) ==
  /\ Turn(d)
  /\ AddQuarantined(d) \/ AddDuplicate(d) \/ AddFirst(d)
  /\ todo' = todo \ {d}
  /\ UNCHANGED <<defs, pc>>

\* Definitions dropped together, each with its source. No name among them is
\* quarantined already, so recordRuleSkip and recordEndpointSkip add records.
Drop(ds, reason) ==
  /\ active' = active \ ds
  /\ skipped' = skipped \union {Skip(d, reason, {d.source}) : d \in ds}

\* validateRuleExpressions, once every source is merged.
Validate ==
  /\ pc = "merge" /\ todo = {}
  /\ Drop({d \in active : d.kind = "rule" /\ ~d.valid}, "invalid rule expressions")
  /\ pc' = "prune"
  /\ UNCHANGED <<defs, todo>>

\* Mutant: endpoints are checked against every rule that was defined.
HasRulesDefined(d) == \A n \in d.refs : \E r \in defs : r.kind = "rule" /\ r.name = n

\* Every rule the endpoint's chain names stands.
HasRules(d) == \A n \in d.refs : \E r \in active : r.kind = "rule" /\ r.name = n

\* pruneInvalidEndpoints, and the bundle is made.
Prune ==
  /\ pc = "prune"
  /\ Drop({d \in active : d.kind = "endpoint" /\ ~HasRules(d)}, "missing rule dependencies")
  /\ pc' = "done"
  /\ UNCHANGED <<defs, todo>>

Next == (\E d \in Definitions : Add(d)) \/ Validate \/ Prune

Spec == Init /\ [][Next]_vars

-----------------------------------------------------------------------------
(* What the bundle should be, whatever the order.                          *)

Rivals(d) == {c \in defs : SameName(c, d)}

Unique(d) == Rivals(d) = {d}

Materialized == {d \in defs : d.kind = "rule" /\ Unique(d) /\ d.valid}

Whole(d) == d.kind = "endpoint" /\ \A n \in d.refs : \E r \in Materialized : r.name = n

Standing == Materialized \union {d \in defs : Unique(d) /\ Whole(d)}

Reason(d) ==
  IF ~Unique(d) THEN "duplicate definition"
  ELSE IF d.kind = "rule" THEN "invalid rule expressions"
  ELSE "missing rule dependencies"

\* A definition stands in the bundle exactly when it is the only one of its
\* name, it is valid and every rule it refers to stands too: whatever the order
\* maps were iterated in and however many sources repeat it. (buildRuleBundle)
BundleIsOrderless == pc = "done" => active = Standing

\* Every definition that does not stand is reported once, with its reason and
\* every source that defines its name. (recordRuleSkip, recordEndpointSkip)
SkipsTellAll ==
  pc = "done" =>
    skipped = {Skip(d, Reason(d), {c.source : c \in Rivals(d)}) : d \in defs \ active}

\* A name that stands is not quarantined, and no two definitions of it stand.
NamesAreSettled ==
  \A d \in active :
    /\ \A s \in skipped : ~SameName(s, d)
    /\ \A c \in active : SameName(c, d) => c = d
=============================================================================
