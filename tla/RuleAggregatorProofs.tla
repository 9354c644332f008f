------------------------ MODULE RuleAggregatorProofs ------------------------
(***************************************************************************)
(* The bundle is the same in whatever order definitions are merged, for    *)
(* any documents.                                                          *)
(***************************************************************************)
EXTENDS RuleAggregator, TLAPS

\* The definitions of d's name that are merged already.
Merged(d) == Rivals(d) \ todo

Sources(ds) == {c.source : c \in ds}

\* Its name is merged already, from another definition.
Repeated(d) == Merged(d) # {d}

Duplicate(d) == Skip(d, "duplicate definition", Sources(Merged(d)))

\* While sources are merged: a definition stands while it is the only one of
\* its name so far, and the others are quarantined with the sources so far.
MergeInv ==
  pc = "merge" =>
    /\ todo \subseteq defs
    /\ active = {d \in defs \ todo : ~Repeated(d)}
    /\ \A s \in skipped : \E d \in defs \ todo : Repeated(d) /\ s = Duplicate(d)
    /\ \A d \in defs \ todo : Repeated(d) => Duplicate(d) \in skipped

\* The definitions that stand once rules are validated.
Valid == {d \in defs : Unique(d) /\ (d.kind = "rule" => d.valid)}

Report(d) == Skip(d, Reason(d), Sources(Rivals(d)))

PruneInv == pc = "prune" => active = Valid /\ skipped = {Report(d) : d \in defs \ Valid}

DoneInv == pc = "done" => active = Standing /\ skipped = {Report(d) : d \in defs \ Standing}

BundleInv ==
  /\ pc \in {"merge", "prune", "done"}
  /\ defs \in Documents
  /\ MergeInv /\ PruneInv /\ DoneInv

LEMMA BundleInit == Init => BundleInv
  BY DEF Init, BundleInv, MergeInv, PruneInv, DoneInv

\* Definitions of one name have the same rivals.
LEMMA RivalsShared ==
  ASSUME NEW c, NEW d, SameName(c, d)
  PROVE  /\ Rivals(c) = Rivals(d) /\ Merged(c) = Merged(d)
         /\ \A r, S : Skip(c, r, S) = Skip(d, r, S)
  BY DEF SameName, Rivals, Merged, Skip

\* One more source.
LEMMA SourcesGrow ==
  ASSUME NEW ds, NEW d
  PROVE  Sources(ds \union {d}) = Sources(ds) \union {d.source}
  BY DEF Sources

\* Merging d changes what is merged of its own name only.
LEMMA MergedGrows ==
  ASSUME NEW d \in defs, d \in todo, defs' = defs, todo' = todo \ {d}
  PROVE  /\ \A c : ~SameName(c, d) => Merged(c)' = Merged(c)
         /\ \A c : SameName(c, d) => Merged(c)' = Merged(d) \union {d}
         /\ d \notin Merged(d)
  BY DEF Merged, Rivals, SameName

\* A merged definition is among the merged ones of its name.
LEMMA MergedSelf ==
  ASSUME NEW d \in defs \ todo
  PROVE  d \in Merged(d)
  BY DEF Merged, Rivals, SameName

\* The next definition of a document keeps MergeInv.
LEMMA AddStep ==
  ASSUME BundleInv, NEW d \in Definitions, Add(d)
  PROVE  BundleInv'
  <1>1. /\ pc = "merge" /\ pc' = pc /\ defs' = defs
        /\ d \in todo /\ todo' = todo \ {d}
        /\ AddQuarantined(d) \/ AddDuplicate(d) \/ AddFirst(d)
    BY DEF Add, Turn
  <1>2. todo \subseteq defs /\ todo' \subseteq defs /\ d \in defs
    BY <1>1 DEF BundleInv, MergeInv
  <1>3. /\ active = {x \in defs \ todo : ~Repeated(x)}
        /\ \A s \in skipped : \E x \in defs \ todo : Repeated(x) /\ s = Duplicate(x)
        /\ \A x \in defs \ todo : Repeated(x) => Duplicate(x) \in skipped
    BY <1>1 DEF BundleInv, MergeInv
  <1>4. /\ \A c : ~SameName(c, d) => Merged(c)' = Merged(c)
        /\ \A c : SameName(c, d) => Merged(c)' = Merged(d) \union {d}
        /\ d \notin Merged(d)
    BY <1>1, <1>2, MergedGrows
  <1>5. \A x : ~SameName(x, d) => (Repeated(x)' <=> Repeated(x)) /\ Duplicate(x)' = Duplicate(x)
    BY <1>4 DEF Repeated, Duplicate, Sources, Skip
  <1> DEFINE Now == Skip(d, "duplicate definition", Sources(Merged(d) \union {d}))
  <1>6. \A x : SameName(x, d) => Merged(x) = Merged(d) /\ Duplicate(x)' = Now
    <2>1. \A x : SameName(x, d) =>
            Duplicate(x)' = Skip(x, "duplicate definition", Sources(Merged(d) \union {d}))
      BY <1>4 DEF Duplicate, Sources, Skip
    <2>2. \A x : SameName(x, d) => Merged(x) = Merged(d)
      BY RivalsShared
    <2>3. \A x, S : SameName(x, d) =>
            Skip(x, "duplicate definition", S) = Skip(d, "duplicate definition", S)
      BY DEF SameName, Skip
    <2> QED BY <2>1, <2>2, <2>3
  <1>7. /\ \A x \in defs \ todo' : SameName(x, d) => x = d \/ x \in Merged(d)
        /\ \A x \in Merged(d) : SameName(x, d) /\ x \in defs \ todo
        /\ \A x : x \in defs \ todo' <=> x \in defs \ todo \/ x = d
        /\ SameName(d, d)
    BY <1>1, <1>2 DEF SameName, Merged, Rivals
  <1>8. \A x, y : SameName(Duplicate(x), y) <=> SameName(x, y)
    BY DEF SameName, Skip, Duplicate
  <1> HIDE DEF Now
  <1>9. SUFFICES /\ \A x : x \in active' <=> x \in defs \ todo' /\ ~Repeated(x)'
                 /\ \A s \in skipped' : \E x \in defs \ todo' : Repeated(x)' /\ s = Duplicate(x)'
                 /\ \A x \in defs \ todo' : Repeated(x)' => Duplicate(x)' \in skipped'
    <2>1. active' = {x \in defs' \ todo' : ~Repeated(x)'}
      BY <1>1, <1>9
    <2> QED BY <1>1, <1>2, <1>9, <2>1 DEF BundleInv, MergeInv, PruneInv, DoneInv
  <1>10. CASE AddFirst(d)
    <2>1. Merged(d) = {}
      <3>1. SUFFICES ASSUME NEW x \in Merged(d) PROVE FALSE
        OBVIOUS
      <3>2. SameName(x, d) /\ x \in defs \ todo
        BY <1>7
      <3>3. CASE Repeated(x)
        BY <1>3, <1>8, <1>10, <3>2, <3>3 DEF AddFirst
      <3>4. CASE ~Repeated(x)
        BY <1>3, <1>10, <3>2, <3>4 DEF AddFirst
      <3> QED BY <3>3, <3>4
    <2>2. \A x \in defs \ todo' : SameName(x, d) => x = d
      BY <1>7, <2>1
    <2>3. ~Repeated(d)'
      BY <1>4, <1>7, <2>1 DEF Repeated
    <2>4. active' = active \union {d} /\ skipped' = skipped
      BY <1>10 DEF AddFirst
    <2>5. \A s \in skipped : \E x \in defs \ todo : Repeated(x) /\ s = Duplicate(x) /\ ~SameName(x, d)
      BY <1>3, <1>8, <1>10 DEF AddFirst
    <2>6. \A x \in active : ~SameName(x, d)
      BY <1>10 DEF AddFirst
    <2> QED BY <1>3, <1>5, <1>7, <2>2, <2>3, <2>4, <2>5, <2>6
  <1>11. ASSUME \A x \in defs \ todo' : SameName(x, d) => Repeated(x)',
                \A x \in active' : ~SameName(x, d),
                \A x : ~SameName(x, d) => (x \in active' <=> x \in active),
                Now \in skipped',
                \A s \in skipped' : s # Now => s \in skipped /\ ~SameName(s, d),
                \A s \in skipped : ~SameName(s, d) => s \in skipped'
         PROVE  /\ \A x : x \in active' <=> x \in defs \ todo' /\ ~Repeated(x)'
                /\ \A s \in skipped' : \E x \in defs \ todo' : Repeated(x)' /\ s = Duplicate(x)'
                /\ \A x \in defs \ todo' : Repeated(x)' => Duplicate(x)' \in skipped'
    <2>1. \A x : x \in active' <=> x \in defs \ todo' /\ ~Repeated(x)'
      BY <1>3, <1>5, <1>7, <1>11
    <2>2. ASSUME NEW s \in skipped'
          PROVE  \E x \in defs \ todo' : Repeated(x)' /\ s = Duplicate(x)'
      <3>1. CASE s = Now
        BY <1>6, <1>7, <1>11, <3>1
      <3>2. CASE s # Now
        BY <1>3, <1>5, <1>7, <1>8, <1>11, <2>2, <3>2
      <3> QED BY <3>1, <3>2
    <2>3. ASSUME NEW x \in defs \ todo', Repeated(x)'
          PROVE  Duplicate(x)' \in skipped'
      <3>1. CASE SameName(x, d)
        BY <1>6, <1>11, <3>1
      <3>2. CASE ~SameName(x, d)
        BY <1>3, <1>5, <1>7, <1>8, <1>11, <2>3, <3>2
      <3> QED BY <3>1, <3>2
    <2> QED BY <2>1, <2>2, <2>3
  <1>12. CASE AddDuplicate(d)
    <2>1. PICK p \in active :
            /\ SameName(p, d)
            /\ skipped' = skipped \union {Skip(d, "duplicate definition", {p.source, d.source})}
            /\ active' = active \ {p}
      BY <1>12 DEF AddDuplicate
    <2>2. Merged(d) = {p} /\ p # d
      BY <1>3, <1>4, <1>6, <2>1 DEF Repeated
    <2>3. Skip(d, "duplicate definition", {p.source, d.source}) = Now
      BY <2>2 DEF Sources, Now
    <2>4. \A x \in defs \ todo' : SameName(x, d) => Repeated(x)'
      BY <1>4, <2>2 DEF Repeated
    <2>5. \A x \in active' : ~SameName(x, d)
      BY <1>3, <1>7, <2>1, <2>2, <1>1
    <2>6. \A s \in skipped : ~SameName(s, d)
      BY <1>12 DEF AddDuplicate
    <2> QED BY <1>11, <2>1, <2>3, <2>4, <2>5, <2>6
  <1>13. CASE AddQuarantined(d)
    <2>1. PICK s \in skipped :
            /\ SameName(s, d)
            /\ skipped' = (skipped \ {s}) \union {Skip(d, s.reason, s.sources \union {d.source})}
            /\ active' = active
      BY <1>13 DEF AddQuarantined
    <2>2. PICK e \in defs \ todo : Repeated(e) /\ s = Duplicate(e)
      BY <1>3
    <2>3. SameName(e, d) /\ Merged(e) = Merged(d) /\ e \in Merged(d)
      BY <1>6, <1>8, <2>1, <2>2, MergedSelf
    <2>4. s.reason = "duplicate definition" /\ s.sources = Sources(Merged(d))
      BY <2>2, <2>3 DEF Duplicate, Skip
    <2>5. Skip(d, s.reason, s.sources \union {d.source}) = Now
      BY <2>4, SourcesGrow DEF Now
    <2>6. \A x \in defs \ todo' : SameName(x, d) => Repeated(x)'
      BY <1>4, <2>3, <1>1 DEF Repeated
    <2>7. \A x \in active' : ~SameName(x, d)
      BY <1>3, <1>6, <2>1, <2>2, <2>3 DEF Repeated
    <2>8. \A t \in skipped : SameName(t, d) => t = s
      <3>1. SUFFICES ASSUME NEW t \in skipped, SameName(t, d) PROVE t = s
        OBVIOUS
      <3>2. PICK x \in defs \ todo : t = Duplicate(x)
        BY <1>3
      <3>3. SameName(x, d) /\ SameName(x, e)
        BY <1>8, <2>3, <3>1, <3>2 DEF SameName
      <3>4. Merged(x) = Merged(e)
        BY <3>3, RivalsShared
      <3> QED BY <2>2, <3>2, <3>3, <3>4 DEF Duplicate, Skip, SameName
    <2> QED BY <1>11, <2>1, <2>5, <2>6, <2>7, <2>8
  <1> QED BY <1>1, <1>10, <1>11, <1>12, <1>13
\* The reference bundle depends on the documents alone.
LEMMA ReferenceIsFixed ==
  ASSUME defs' = defs
  PROVE  /\ Valid' = Valid /\ Standing' = Standing
         /\ {Report(d) : d \in defs \ Valid}' = {Report(d) : d \in defs \ Valid}
         /\ {Report(d) : d \in defs \ Standing}' = {Report(d) : d \in defs \ Standing}
  <1>1. \A d : Rivals(d)' = Rivals(d)
    BY DEF Rivals
  <1>2. \A d : (Unique(d)' <=> Unique(d)) /\ Sources(Rivals(d))' = Sources(Rivals(d))
    BY <1>1 DEF Unique, Sources
  <1>3. Valid' = Valid /\ Materialized' = Materialized
    BY <1>2 DEF Valid, Materialized
  <1>4. Standing' = Standing
    BY <1>2, <1>3 DEF Standing, Whole
  <1>5. \A d : Reason(d)' = Reason(d)
    BY <1>2 DEF Reason
  <1>6. \A d : Report(d)' = Report(d)
    BY <1>2, <1>5 DEF Report, Skip
  <1> QED BY <1>3, <1>4, <1>6

\* Validating the rules turns the merged definitions into the valid ones.
LEMMA ValidateStep ==
  ASSUME BundleInv, Validate
  PROVE  BundleInv'
  <1> DEFINE Bad == {d \in active : d.kind = "rule" /\ ~d.valid}
  <1>1. /\ pc = "merge" /\ todo = {} /\ pc' = "prune" /\ defs' = defs
        /\ active' = active \ Bad
        /\ skipped' = skipped \union {Skip(d, "invalid rule expressions", {d.source}) : d \in Bad}
    BY DEF Validate, Drop
  <1>2. \A d : Merged(d) = Rivals(d)
    BY <1>1 DEF Merged
  <1>3. /\ active = {d \in defs : Unique(d)}
        /\ \A s \in skipped : \E d \in defs : ~Unique(d) /\ s = Report(d)
        /\ \A d \in defs : ~Unique(d) => Report(d) \in skipped
    BY <1>1, <1>2 DEF BundleInv, MergeInv, Repeated, Unique, Duplicate, Report, Reason
  <1>4. active' = Valid
    BY <1>1, <1>3 DEF Valid
  <1>5. \A d \in Bad : Skip(d, "invalid rule expressions", {d.source}) = Report(d)
    <2>1. SUFFICES ASSUME NEW d \in Bad
                   PROVE  Skip(d, "invalid rule expressions", {d.source}) = Report(d)
      OBVIOUS
    <2>2. Unique(d) /\ d.kind = "rule"
      BY <1>3
    <2>3. Sources(Rivals(d)) = {d.source}
      BY <2>2 DEF Unique, Sources
    <2> QED BY <2>2, <2>3 DEF Report, Reason
  <1>6. \A d \in defs : d \in defs \ Valid <=> ~Unique(d) \/ d \in Bad
    BY <1>3 DEF Valid
  <1> HIDE DEF Bad
  <1>7. skipped' = {Report(d) : d \in defs \ Valid}
    <2>1. \A s \in skipped' : \E d \in defs \ Valid : s = Report(d)
      BY <1>1, <1>3, <1>5, <1>6 DEF Bad
    <2>2. \A d \in defs \ Valid : Report(d) \in skipped'
      BY <1>1, <1>3, <1>5, <1>6
    <2> QED BY <2>1, <2>2
  <1> QED BY <1>1, <1>4, <1>7, ReferenceIsFixed DEF BundleInv, MergeInv, PruneInv, DoneInv

\* Pruning the endpoints turns the valid definitions into those that stand.
LEMMA PruneStep ==
  ASSUME BundleInv, Prune
  PROVE  BundleInv'
  <1> DEFINE Lacking == {d \in active : d.kind = "endpoint" /\ ~HasRules(d)}
  <1>1. /\ pc = "prune" /\ pc' = "done" /\ defs' = defs
        /\ active' = active \ Lacking
        /\ skipped' = skipped \union {Skip(d, "missing rule dependencies", {d.source}) : d \in Lacking}
        /\ active = Valid /\ skipped = {Report(d) : d \in defs \ Valid}
        /\ \A d \in defs : d.kind \in {"endpoint", "rule"}
    BY DocumentsAssumption DEF Prune, Drop, BundleInv, PruneInv
  <1>2. \A d : HasRules(d) <=> \A n \in d.refs : \E r \in Materialized : r.name = n
    BY <1>1 DEF HasRules, Valid, Materialized
  <1>3. active' = Standing
    BY <1>1, <1>2 DEF Valid, Standing, Materialized, Whole
  <1>4. \A d \in Lacking : Skip(d, "missing rule dependencies", {d.source}) = Report(d)
    <2>1. SUFFICES ASSUME NEW d \in Lacking
                   PROVE  Skip(d, "missing rule dependencies", {d.source}) = Report(d)
      OBVIOUS
    <2>2. Unique(d) /\ d.kind = "endpoint"
      BY <1>1 DEF Valid
    <2>3. Sources(Rivals(d)) = {d.source}
      BY <2>2 DEF Unique, Sources
    <2> QED BY <2>2, <2>3 DEF Report, Reason
  <1>5. Lacking \subseteq Valid /\ Standing = Valid \ Lacking /\ Valid \subseteq defs
    BY <1>1, <1>3 DEF Valid
  <1> HIDE DEF Lacking
  <1>6. skipped' = {Report(d) : d \in defs \ Standing}
    <2>1. \A s \in skipped' : \E d \in defs \ Standing : s = Report(d)
      BY <1>1, <1>4, <1>5
    <2>2. \A d \in defs \ Standing : Report(d) \in skipped'
      BY <1>1, <1>4, <1>5
    <2> QED BY <2>1, <2>2
  <1> QED BY <1>1, <1>3, <1>6, ReferenceIsFixed DEF BundleInv, MergeInv, PruneInv, DoneInv

LEMMA BundleStep == BundleInv /\ [Next]_vars => BundleInv'
  <1> SUFFICES ASSUME BundleInv, [Next]_vars PROVE BundleInv'
    OBVIOUS
  <1>1. CASE UNCHANGED vars
    <2>1. UNCHANGED <<defs, pc, todo, active, skipped>>
      BY <1>1 DEF vars
    <2>2. \A d : Merged(d)' = Merged(d)
      BY <2>1 DEF Merged, Rivals, SameName
    <2>3. \A d : (Repeated(d)' <=> Repeated(d)) /\ Duplicate(d)' = Duplicate(d)
      BY <2>2 DEF Repeated, Duplicate
    <2>4. MergeInv'
      <3>1. MergeInv
        BY DEF BundleInv
      <3> QED BY <2>1, <2>2, <2>3, <3>1 DEF MergeInv
    <2> QED BY <2>1, <2>4, ReferenceIsFixed DEF BundleInv, PruneInv, DoneInv
  <1> QED BY <1>1, AddStep, ValidateStep, PruneStep DEF Next

\* The order of sources and maps does not show in the bundle. (buildRuleBundle)
THEOREM MergeIsOrderless == Spec => []BundleIsOrderless
  <1>1. BundleInv => BundleIsOrderless
    BY DEF BundleInv, DoneInv, BundleIsOrderless
  <1> QED BY <1>1, BundleInit, BundleStep, PTL DEF Spec

\* Nothing is left out of the bundle without a record of it. (recordRuleSkip,
\* recordEndpointSkip)
THEOREM EverySkipIsTold == Spec => []SkipsTellAll
  <1>1. BundleInv => SkipsTellAll
    <2>1. SUFFICES ASSUME BundleInv, pc = "done"
                   PROVE  skipped = {Skip(d, Reason(d), {c.source : c \in Rivals(d)}) : d \in defs \ active}
      BY DEF SkipsTellAll
    <2>2. active = Standing /\ skipped = {Report(d) : d \in defs \ Standing}
      BY <2>1 DEF BundleInv, DoneInv
    <2> QED BY <2>2 DEF Report, Sources
  <1> QED BY <1>1, BundleInit, BundleStep, PTL DEF Spec

\* What stands and what is quarantined never share a name, at any point of the
\* build. (addEndpoint, addRule)
THEOREM NamesStaySettled == Spec => []NamesAreSettled
  <1>1. BundleInv => NamesAreSettled
    <2> SUFFICES ASSUME BundleInv, NEW d \in active
                 PROVE  /\ \A s \in skipped : ~SameName(s, d)
                        /\ \A c \in active : SameName(c, d) => c = d
      BY DEF NamesAreSettled
    <2>1. CASE pc = "merge"
      <3>1. /\ d \in defs \ todo /\ Merged(d) = {d}
            /\ \A c \in active : c \in defs \ todo
            /\ \A s \in skipped : \E x \in defs \ todo : Repeated(x) /\ s = Duplicate(x)
        BY <2>1 DEF BundleInv, MergeInv, Repeated
      <3>2. \A x \in defs \ todo : SameName(x, d) => x = d
        BY <3>1 DEF Merged, Rivals
      <3>3. \A x : SameName(Duplicate(x), d) <=> SameName(x, d)
        BY DEF SameName, Duplicate, Skip
      <3>4. ~Repeated(d)
        BY <3>1 DEF Repeated
      <3> QED BY <3>1, <3>2, <3>3, <3>4
    <2>2. ASSUME NEW stands, active = stands, stands \subseteq {x \in defs : Unique(x)},
                 skipped = {Report(x) : x \in defs \ stands}
          PROVE  /\ \A s \in skipped : ~SameName(s, d)
                 /\ \A c \in active : SameName(c, d) => c = d
      <3>1. \A x \in defs : SameName(x, d) => x = d
        BY <2>2 DEF Unique, Rivals
      <3>2. \A x : SameName(Report(x), d) <=> SameName(x, d)
        BY DEF SameName, Report, Skip
      <3> QED BY <2>2, <3>1, <3>2
    <2>3. CASE pc = "prune"
      <3>1. active = Valid /\ skipped = {Report(x) : x \in defs \ Valid}
        BY <2>3 DEF BundleInv, PruneInv
      <3>2. Valid \subseteq {x \in defs : Unique(x)}
        BY DEF Valid
      <3> QED BY <2>2, <3>1, <3>2
    <2>4. CASE pc = "done"
      <3>1. active = Standing /\ skipped = {Report(x) : x \in defs \ Standing}
        BY <2>4 DEF BundleInv, DoneInv
      <3>2. Standing \subseteq {x \in defs : Unique(x)}
        BY DEF Standing, Materialized
      <3> QED BY <2>2, <3>1, <3>2
    <2> QED BY <2>1, <2>3, <2>4 DEF BundleInv
  <1> QED BY <1>1, BundleInit, BundleStep, PTL DEF Spec
=============================================================================
