------------------------- MODULE PipelineCacheProofs -------------------------
(***************************************************************************)
(* Proofs about PipelineCache for every value of its constants.            *)
(***************************************************************************)
EXTENDS PipelineCache, SequenceTheorems, TLAPS

\* Where a request is agrees with what it holds: it has a rule to evaluate while
\* the chain loop runs, and an entry to store when it is about to store one.
Located ==
  \A r \in Requests :
    /\ pc[r] = "idle" => history[r] = <<>>
    /\ pc[r] # "idle" =>
         /\ req[r] \in Asks
         /\ req[r].endpoint \in DOMAIN Chain[req[r].bundle]
    /\ pc[r] \in {"rule", "backend"} => Len(history[r]) < Len(Rules(r))
    /\ pc[r] = "store" => pending[r] \in Entries

TypeInv == TypeOK /\ Located

-----------------------------------------------------------------------------
(* What the constant-level operators return.                               *)

LEMMA VerdictType ==
  ASSUME NEW def, NEW accepted, NEW outcome \in Verdicts(def, accepted)
  PROVE  outcome \in Outcomes
BY DEF Verdicts, Verdict, Outcomes

LEMMA ExportValueType ==
  ASSUME NEW kind \in ExportKinds, NEW payload \in Payloads,
         NEW body \in Bodies \union {NoValue}
  PROVE  ExportValue(kind, payload, body) \in MaybeValues
<1>1. CASE kind = "none"
  BY <1>1 DEF ExportValue, MaybeValues
<1>2. CASE kind = "request"
  BY <1>2 DEF ExportValue, MaybeValues, Values
<1>3. CASE kind = "text"
  BY <1>3 DEF ExportValue, MaybeValues, Values
<1>4. CASE kind = "field"
  BY <1>4 DEF ExportValue, MaybeValues, Values
<1> QED
  BY <1>1, <1>2, <1>3, <1>4 DEF ExportKinds

LEMMA ExportedType ==
  ASSUME NEW known \in [Names -> MaybeValues], NEW def \in RuleDefs,
         NEW value \in MaybeValues
  PROVE  Exported(known, def, value) \in [Names -> MaybeValues]
BY DEF Exported, RuleDefs

\* What GetTTL makes of a header is a duration or nothing.
LEMMA CapturedType ==
  ASSUME NEW lines \in Controls
  PROVE  Captured(lines) \in Headers
BY DEF Headers

LEMMA LifetimeType ==
  ASSUME NEW parts, Lifetimes(parts) # {}
  PROVE  /\ Seconds(parts) \in Nat
         /\ \E i \in Lifetimes(parts) : Seconds(parts) = parts[i].value
<1>1. (CHOOSE i \in Lifetimes(parts) : TRUE) \in Lifetimes(parts)
  OBVIOUS
<1>2. \A i \in Lifetimes(parts) : parts[i].value \in Nat
  BY DEF Lifetimes, LastOf
<1> QED
  BY <1>1, <1>2 DEF Seconds

\* A non-negative number of ticks only ever gets smaller as a duration.
LEMMA AsDurationBound ==
  ASSUME NEW n \in Nat
  PROVE  AsDuration(n) \in Int /\ AsDuration(n) <= n
<1> DEFINE a == n + HalfRange
           b == 2 * HalfRange
<1>1. a \in Nat /\ b \in Nat /\ b > 0
  BY DurationsTyped
<1>2. a % b \in Nat /\ a % b <= a
  <2> HIDE DEF a, b
  <2> QED
    BY <1>1
<1> QED
  BY <1>2, DurationsTyped DEF AsDuration

LEMMA CacheControlTTLType ==
  ASSUME NEW parts
  PROVE  CacheControlTTL(parts) \in Int \union {NoDirective}
<1>1. Lifetimes(parts) # {} => Seconds(parts) * Second \in Nat
  BY LifetimeType, DurationsTyped
<1> QED
  BY <1>1, AsDurationBound DEF CacheControlTTL

\* CalculateEffectiveTTL returns a duration, no error is given a positive one,
\* and the server's ceiling bounds it.
LEMMA EffectiveTTLType ==
  ASSUME NEW def \in RuleDefs, NEW outcome \in Outcomes, NEW parts
  PROVE  /\ EffectiveTTL(def, outcome, parts) \in Int
         /\ EffectiveTTL(def, outcome, parts) > 0 => outcome \in {"pass", "fail"}
         /\ ServerMaxTTL > 0 => EffectiveTTL(def, outcome, parts) <= ServerMaxTTL
<1>1. outcome # "error" => def.ttl[outcome] \in Int
  BY DurationsTyped DEF RuleDefs, Outcomes
<1>2. CacheControlTTL(parts) # NoDirective => CacheControlTTL(parts) \in Int
  BY CacheControlTTLType
<1>3. ASSUME NEW n \in Int
      PROVE  UnderCeiling(n) \in Int /\ (ServerMaxTTL > 0 => UnderCeiling(n) <= ServerMaxTTL)
  BY DurationsTyped DEF UnderCeiling
<1>4. CASE outcome = "error"
  BY <1>4, DurationsTyped DEF EffectiveTTL
<1>5. CASE outcome # "error" /\ def.follow /\ CacheControlTTL(parts) # NoDirective
  BY <1>2, <1>3, <1>5 DEF EffectiveTTL, Outcomes
<1>6. CASE outcome # "error" /\ ~(def.follow /\ CacheControlTTL(parts) # NoDirective)
  BY <1>1, <1>3, <1>6 DEF EffectiveTTL, Outcomes
<1> QED
  BY <1>4, <1>5, <1>6

LEMMA NoVarsType == NoVars \in [Names -> MaybeValues]
BY DEF NoVars, MaybeValues

LEMMA RuleCacheKeyType ==
  ASSUME NEW in \in RuleInputs
  PROVE  RuleCacheKey(in) \in CacheKeys
BY NoVarsType, ProxiesMayBeAbsent
   DEF RuleCacheKey, RuleInputs, CacheKeys, UpstreamKey, ProxyKey

-----------------------------------------------------------------------------
(* A request in the chain loop.                                            *)

LEMMA RuleType ==
  ASSUME TypeInv, NEW r \in Requests, pc[r] \in {"rule", "backend"}
  PROVE  /\ Rules(r) \in Seq(RuleDefs)
         /\ Rule(r) \in RuleDefs
         /\ InputsOf(r) \in RuleInputs
<1>1. req[r] \in Asks /\ req[r].endpoint \in DOMAIN Chain[req[r].bundle]
  BY DEF TypeInv, Located
<1>2. Rules(r) \in Seq(RuleDefs)
  BY <1>1, ConstantsTyped DEF Rules, Asks
<1>3. Len(history[r]) + 1 \in 1..Len(Rules(r))
  <2>1. Len(history[r]) < Len(Rules(r))
    BY DEF TypeInv, Located
  <2>2. Len(history[r]) \in Nat
    BY LenProperties DEF TypeInv, TypeOK
  <2>3. Len(Rules(r)) \in Nat
    BY <1>2, LenProperties
  <2> QED
    BY <2>1, <2>2, <2>3
<1>4. Rule(r) \in RuleDefs
  BY <1>2, <1>3, ElementOfSeq DEF Rule
<1>5. InputsOf(r) \in RuleInputs
  BY <1>1, <1>4 DEF InputsOf, RuleInputs, RuleDefs, Asks, TypeInv, TypeOK
<1> QED
  BY <1>2, <1>4, <1>5

\* What finishRule and the loop leave behind.
LEMMA ConcludeType ==
  ASSUME TypeInv, NEW r \in Requests, pc[r] \in {"rule", "backend"},
         NEW outcome \in Outcomes, NEW source \in Entries \union {NoEntry},
         NEW known \in [Names -> MaybeValues], NEW body \in Bodies \union {NoValue},
         Conclude(r, outcome, source, known, body)
  PROVE  /\ exported' \in [Requests -> [Names -> MaybeValues]]
         /\ history' \in [Requests -> Seq(Verdicted)]
         /\ \A q \in Requests \ {r} : history'[q] = history[q]
         /\ history'[r] = Append(history[r],
              [inputs |-> InputsOf(r), outcome |-> outcome, source |-> source])
         /\ Len(history'[r]) = Len(history[r]) + 1
<1> DEFINE value == ExportValue(Rule(r).exports[outcome], req[r].payload, body)
           record == [inputs |-> InputsOf(r), outcome |-> outcome, source |-> source]
<1>1. Rule(r) \in RuleDefs /\ InputsOf(r) \in RuleInputs
  BY RuleType
<1>2. req[r] \in Asks
  BY DEF TypeInv, Located
<1>3. value \in MaybeValues
  BY <1>1, <1>2, ExportValueType DEF RuleDefs, Asks
<1>4. Exported(known, Rule(r), value) \in [Names -> MaybeValues]
  BY <1>1, <1>3, ExportedType
<1>5. exported' \in [Requests -> [Names -> MaybeValues]]
  BY <1>4 DEF Conclude, TypeInv, TypeOK
<1>6. record \in Verdicted
  BY <1>1 DEF Verdicted
<1>7. history[r] \in Seq(Verdicted)
  BY DEF TypeInv, TypeOK
<1>8. /\ Append(history[r], record) \in Seq(Verdicted)
      /\ Len(Append(history[r], record)) = Len(history[r]) + 1
  BY <1>6, <1>7, AppendProperties
<1>9. history' = [history EXCEPT ![r] = Append(history[r], record)]
  BY DEF Conclude
<1> QED
  BY <1>5, <1>8, <1>9 DEF TypeInv, TypeOK

LEMMA FinishType ==
  ASSUME TypeInv, NEW r \in Requests, pc[r] \in {"rule", "backend"},
         NEW outcome \in Outcomes, NEW source \in Entries \union {NoEntry},
         NEW known \in [Names -> MaybeValues], NEW body \in Bodies \union {NoValue},
         Finish(r, outcome, source, known, body),
         UNCHANGED <<bundle, reloader, cache, req, pending, settled, quiet>>
  PROVE  TypeInv'
<1>1. /\ exported' \in [Requests -> [Names -> MaybeValues]]
      /\ history' \in [Requests -> Seq(Verdicted)]
      /\ \A q \in Requests \ {r} : history'[q] = history[q]
      /\ Len(history'[r]) = Len(history[r]) + 1
  BY ConcludeType DEF Finish
<1>2. /\ pc' = [pc EXCEPT ![r] = Continue(r, outcome, Len(history[r]) + 1)]
      /\ Continue(r, outcome, Len(history[r]) + 1) \in {"rule", "respond"}
  BY DEF Finish, Continue
<1>3. TypeOK'
  BY <1>1, <1>2 DEF TypeInv, TypeOK
<1>4. Located'
  <2> SUFFICES ASSUME NEW q \in Requests
               PROVE  /\ pc'[q] = "idle" => history'[q] = <<>>
                      /\ pc'[q] # "idle" =>
                           /\ req'[q] \in Asks
                           /\ req'[q].endpoint \in DOMAIN Chain[req'[q].bundle]
                      /\ pc'[q] \in {"rule", "backend"} => Len(history'[q]) < Len(Rules(q)')
                      /\ pc'[q] = "store" => pending'[q] \in Entries
    BY DEF Located
  <2>1. Rules(q)' = Rules(q)
    BY DEF Rules
  <2>2. CASE q = r
    BY <1>1, <1>2, <2>1, <2>2 DEF TypeInv, TypeOK, Located, Continue
  <2>3. CASE q # r
    BY <1>1, <1>2, <2>1, <2>3 DEF TypeInv, TypeOK, Located
  <2> QED
    BY <2>2, <2>3
<1> QED
  BY <1>3, <1>4 DEF TypeInv

\* The entry storeRuleCache builds from a backend's answer.
LEMMA EntryType ==
  ASSUME TypeInv, NEW r \in Requests, pc[r] = "backend",
         NEW ans \in Answers, NEW outcome \in Outcomes,
         EffectiveTTL(Rule(r), outcome, Captured(ans.lines)) > 0
  PROVE  EntryOf(r, ans, outcome) \in Entries
<1> DEFINE ttl   == EffectiveTTL(Rule(r), outcome, Captured(ans.lines))
           value == ExportValue(Rule(r).exports[outcome], req[r].payload, ans.body)
           after == Exported(exported[r], Rule(r), value)
<1>1. Rule(r) \in RuleDefs /\ InputsOf(r) \in RuleInputs /\ req[r] \in Asks
  BY RuleType DEF TypeInv, Located
<1>2. value \in MaybeValues
  BY <1>1, ExportValueType DEF RuleDefs, Asks, Answers
<1>3. exported[r] \in [Names -> MaybeValues]
  BY DEF TypeInv, TypeOK
<1>4. after \in [Names -> MaybeValues]
  BY <1>1, <1>2, <1>3, ExportedType
<1>5. ttl \in Nat /\ outcome \in {"pass", "fail"}
  BY <1>1, EffectiveTTLType DEF Answers
<1>6. StoreKey(r, after) \in CacheKeys
  <2>1. [InputsOf(r) EXCEPT !.upstream = after] \in RuleInputs
    BY <1>1, <1>4 DEF RuleInputs
  <2> QED
    BY <2>1, RuleCacheKeyType DEF StoreKey
<1>7. req[r].bundle \in Bundles
  BY <1>1 DEF Answers, Asks
<1>8. ttl \in Int
  BY <1>5
<1>9. EntryOf(r, ans, outcome) =
        [key |-> StoreKey(r, after), outcome |-> outcome, value |-> value,
         ttl |-> ttl, left |-> ttl, inputs |-> InputsOf(r),
         bundle |-> req[r].bundle,
         control |-> IF Rule(r).follow THEN Captured(ans.lines) ELSE <<>>]
  BY DEF EntryOf
<1>10. (IF Rule(r).follow THEN Captured(ans.lines) ELSE <<>>) \in Headers
  BY DEF Headers, Answers
<1> HIDE DEF ttl, value, after
<1> QED
  BY <1>1, <1>2, <1>5, <1>6, <1>7, <1>8, <1>9, <1>10 DEF Entries

\* Requests keep the types while the reloader or the clock steps.
LEMMA LocatedStutters ==
  ASSUME Located, UNCHANGED <<pc, req, history, pending>>
  PROVE  Located'
BY DEF Located, Rules

-----------------------------------------------------------------------------
(* Type correctness.                                                       *)

LEMMA TypeInit == Init => TypeInv
<1> SUFFICES ASSUME Init PROVE TypeInv
  OBVIOUS
<1>1. TypeOK
  BY NoVarsType, EmptySeq DEF Init, TypeOK
<1>2. Located
  BY DEF Init, Located
<1> QED
  BY <1>1, <1>2 DEF TypeInv

LEMMA TypeStep == TypeInv /\ [Next]_vars => TypeInv'
<1> SUFFICES ASSUME TypeInv, [Next]_vars PROVE TypeInv'
  OBVIOUS
<1>1. ASSUME NEW r \in Requests, Begin(r) PROVE TypeInv'
  <2> PICK a \in Asks :
        /\ a.bundle = bundle
        /\ a.endpoint \in DOMAIN Chain[bundle]
        /\ req' = [req EXCEPT ![r] = a]
        /\ pc' = [pc EXCEPT ![r] = IF Chain[bundle][a.endpoint] = <<>>
                                     THEN "respond" ELSE "rule"]
    BY <1>1 DEF Begin
  <2>1. TypeOK'
    BY <1>1 DEF Begin, TypeInv, TypeOK
  <2>2. Chain[bundle][a.endpoint] # <<>> => 0 < Len(Chain[bundle][a.endpoint])
    BY ConstantsTyped, EmptySeq, LenProperties DEF TypeInv, TypeOK
  <2>3. Located'
    BY <1>1, <2>2 DEF Begin, TypeInv, TypeOK, Located, Rules
  <2> QED
    BY <2>1, <2>3 DEF TypeInv
<1>2. ASSUME NEW r \in Requests, RuleRejects(r) PROVE TypeInv'
  BY <1>2, FinishType DEF RuleRejects, Outcomes, TypeInv, TypeOK
<1>3. ASSUME NEW r \in Requests, EvaluateLocally(r) PROVE TypeInv'
  BY <1>3, FinishType, VerdictType DEF EvaluateLocally, TypeInv, TypeOK
<1>4. ASSUME NEW r \in Requests, ServeFromCache(r) PROVE TypeInv'
  <2> PICK e \in Found(r) :
        Finish(r, e.outcome, e, Exported(exported[r], Rule(r), e.value), NoValue)
    BY <1>4 DEF ServeFromCache
  <2>1. e \in Entries /\ e.outcome \in Outcomes /\ e.value \in MaybeValues
    BY DEF Found, TypeInv, TypeOK, Entries, Outcomes
  <2>2. Exported(exported[r], Rule(r), e.value) \in [Names -> MaybeValues]
    BY <1>4, <2>1, RuleType, ExportedType DEF ServeFromCache, TypeInv, TypeOK
  <2> QED
    BY <1>4, <2>1, <2>2, FinishType DEF ServeFromCache
<1>5. ASSUME NEW r \in Requests, MissCache(r) PROVE TypeInv'
  <2>1. TypeOK'
    BY <1>5 DEF MissCache, TypeInv, TypeOK
  <2>2. Located'
    BY <1>5 DEF MissCache, TypeInv, TypeOK, Located, Rules
  <2> QED
    BY <2>1, <2>2 DEF TypeInv
<1>6. ASSUME NEW r \in Requests, BackendFails(r) PROVE TypeInv'
  BY <1>6, FinishType DEF BackendFails, Outcomes, TypeInv, TypeOK
<1>7. ASSUME NEW r \in Requests, BackendAnswers(r) PROVE TypeInv'
  <2> PICK ans \in Answers :
        \E outcome \in Verdicts(Rule(r), ans.status \in Rule(r).accepts) :
          Decide(r, ans, outcome)
    BY <1>7 DEF BackendAnswers
  <2> PICK outcome \in Verdicts(Rule(r), ans.status \in Rule(r).accepts) :
        Decide(r, ans, outcome)
    OBVIOUS
  <2>1. outcome \in Outcomes
    BY VerdictType
  <2>2. exported[r] \in [Names -> MaybeValues] /\ ans.body \in Bodies \union {NoValue}
    BY DEF TypeInv, TypeOK, Answers
  <2>3. CASE Cacheable(r) /\ EffectiveTTL(Rule(r), outcome, Captured(ans.lines)) > 0
    <3>1. /\ exported' \in [Requests -> [Names -> MaybeValues]]
          /\ history' \in [Requests -> Seq(Verdicted)]
          /\ \A q \in Requests \ {r} : history'[q] = history[q]
      BY <1>7, <2>1, <2>2, ConcludeType DEF BackendAnswers, Decide
    <3>2. /\ pending' = [pending EXCEPT ![r] = EntryOf(r, ans, outcome)]
          /\ pc' = [pc EXCEPT ![r] = "store"]
          /\ EntryOf(r, ans, outcome) \in Entries
      BY <1>7, <2>1, <2>3, EntryType DEF BackendAnswers, Decide
    <3>3. TypeOK'
      BY <1>7, <3>1, <3>2 DEF BackendAnswers, TypeInv, TypeOK
    <3>4. Located'
      BY <1>7, <3>1, <3>2 DEF BackendAnswers, TypeInv, TypeOK, Located, Rules
    <3> QED
      BY <3>3, <3>4 DEF TypeInv
  <2>4. CASE ~(Cacheable(r) /\ EffectiveTTL(Rule(r), outcome, Captured(ans.lines)) > 0)
    <3>1. Finish(r, outcome, NoEntry, exported[r], ans.body) /\ UNCHANGED pending
      BY <2>4 DEF Decide, Finish
    <3> QED
      BY <1>7, <2>1, <2>2, <3>1, FinishType DEF BackendAnswers
  <2> QED
    BY <2>3, <2>4
<1>8. ASSUME NEW r \in Requests, Store(r) \/ StoreFails(r) PROVE TypeInv'
  <2>1. pending[r] \in Entries /\ pc[r] = "store" /\ Stored(r)
    BY <1>8 DEF Store, StoreFails, TypeInv, Located
  <2>2. cache' \subseteq Entries
    BY <1>8, <2>1 DEF Store, StoreFails, TypeInv, TypeOK
  <2>3. TypeOK'
    BY <2>1, <2>2 DEF Stored, Continue, TypeInv, TypeOK
  <2>4. Located'
    BY <2>1 DEF Stored, Continue, TypeInv, TypeOK, Located, Rules
  <2> QED
    BY <2>3, <2>4 DEF TypeInv
<1>9. ASSUME NEW r \in Requests, Respond(r) PROVE TypeInv'
  <2>1. TypeOK'
    BY <1>9, NoVarsType, EmptySeq DEF Respond, TypeInv, TypeOK
  <2>2. Located'
    BY <1>9 DEF Respond, TypeInv, TypeOK, Located, Rules
  <2> QED
    BY <2>1, <2>2 DEF TypeInv
<1>10. ASSUME NEW b \in Bundles, SwapBundle(b) PROVE TypeInv'
  <2>1. TypeOK' 
    BY <1>10 DEF SwapBundle, local, TypeInv, TypeOK
  <2> QED
    BY <1>10, <2>1, LocatedStutters DEF SwapBundle, local, TypeInv
<1>11. CASE PurgePrefix \/ InvalidateOnReload
  <2>1. TypeOK' 
    BY <1>11 DEF PurgePrefix, InvalidateOnReload, Purged, local, TypeInv, TypeOK
  <2> QED
    BY <1>11, <2>1, LocatedStutters DEF PurgePrefix, InvalidateOnReload, local, TypeInv
<1>12. CASE Tick
  <2>1. cache' \subseteq Entries
    <3>1. \A e \in Entries : [e EXCEPT !.left = IF @ >= 0 THEN @ - 1 ELSE @] \in Entries
      BY DEF Entries
    <3> QED
      BY <1>12, <3>1 DEF Tick, TypeInv, TypeOK
  <2>2. TypeOK'
    BY <1>12, <2>1 DEF Tick, local, TypeInv, TypeOK
  <2> QED
    BY <1>12, <2>2, LocatedStutters DEF Tick, local, TypeInv
<1>13. CASE Restart
  <2>1. TypeOK'
    BY <1>13, NoVarsType, EmptySeq DEF Restart, Purged, TypeInv, TypeOK
  <2>2. Located'
    BY <1>13 DEF Restart, Located
  <2> QED
    BY <2>1, <2>2 DEF TypeInv
<1>14. CASE UNCHANGED vars
  <2>1. TypeOK'
    BY <1>14 DEF vars, local, TypeInv, TypeOK
  <2> QED
    BY <1>14, <2>1, LocatedStutters DEF vars, local, TypeInv
<1> QED
  BY <1>1, <1>2, <1>3, <1>4, <1>5, <1>6, <1>7, <1>8, <1>9, <1>10, <1>11, <1>12,
     <1>13, <1>14 DEF Next, Request, Reload

\* Every variable of the decision pipeline keeps its type: what ServeAuth, the
\* cache and Reload hand each other is always well formed.
THEOREM TypeCorrect == Spec => []TypeOK
<1>1. Init => TypeInv
  BY TypeInit
<1>2. TypeInv /\ [Next]_vars => TypeInv'
  BY TypeStep
<1>3. TypeInv => TypeOK
  BY DEF TypeInv
<1> QED
  BY <1>1, <1>2, <1>3, PTL DEF Spec

-----------------------------------------------------------------------------
(* The chain loop.                                                         *)

\* The history is a prefix of the chain in which every rule passed, but for the
\* last one once the loop has stopped.
InOrder ==
  \A r \in Requests :
    pc[r] # "idle" =>
      /\ Len(history[r]) <= Len(Rules(r))
      /\ \A i \in 1..Len(history[r]) :
           /\ history[r][i].inputs.rule = Rules(r)[i].name
           /\ i < Len(history[r]) \/ pc[r] \in {"rule", "backend"} =>
                history[r][i].outcome = "pass"
      /\ pc[r] = "store" =>
           /\ Len(history[r]) > 0
           /\ pending[r].outcome = history[r][Len(history[r])].outcome
      /\ pc[r] = "respond" =>
           \/ Len(history[r]) = Len(Rules(r))
           \/ Len(history[r]) > 0 /\ history[r][Len(history[r])].outcome # "pass"

LEMMA InOrderInit == Init => InOrder
BY DEF Init, InOrder

LEMMA InOrderStutters ==
  ASSUME InOrder, UNCHANGED <<pc, req, history, pending>>
  PROVE  InOrder'
BY DEF InOrder, Rules

\* Recording one more rule keeps the history in order, whether the loop goes on,
\* stops, or stores the verdict first.
LEMMA ConcludeInOrder ==
  ASSUME TypeInv, InOrder, NEW r \in Requests, pc[r] \in {"rule", "backend"},
         NEW outcome \in Outcomes, NEW source \in Entries \union {NoEntry},
         NEW known \in [Names -> MaybeValues], NEW body \in Bodies \union {NoValue},
         Conclude(r, outcome, source, known, body), UNCHANGED req,
         NEW next \in {"rule", "store", "respond"},
         pc' = [pc EXCEPT ![r] = next],
         next # "store" =>
           next = Continue(r, outcome, Len(history[r]) + 1) /\ UNCHANGED pending,
         next = "store" =>
           \E e : e.outcome = outcome /\ pending' = [pending EXCEPT ![r] = e]
  PROVE  InOrder'
<1> DEFINE n == Len(history[r])
           record == [inputs |-> InputsOf(r), outcome |-> outcome, source |-> source]
<1>1. /\ \A q \in Requests \ {r} : history'[q] = history[q]
      /\ history'[r] = Append(history[r], record)
      /\ Len(history'[r]) = n + 1
  BY ConcludeType
<1>2. n \in Nat /\ n < Len(Rules(r)) /\ Len(Rules(r)) \in Nat
  BY RuleType, LenProperties DEF TypeInv, TypeOK, Located
<1>3. /\ \A i \in 1..n : history'[r][i] = history[r][i]
      /\ history'[r][n + 1] = record
  BY <1>1, AppendProperties DEF TypeInv, TypeOK
<1>4. record.inputs.rule = Rules(r)[n + 1].name
  BY DEF InputsOf, Rule
<1>5. \A q \in Requests : Rules(q)' = Rules(q)
  BY DEF Rules
<1> SUFFICES ASSUME NEW q \in Requests, pc'[q] # "idle"
             PROVE  /\ Len(history'[q]) <= Len(Rules(q))
                    /\ \A i \in 1..Len(history'[q]) :
                         /\ history'[q][i].inputs.rule = Rules(q)[i].name
                         /\ i < Len(history'[q]) \/ pc'[q] \in {"rule", "backend"} =>
                              history'[q][i].outcome = "pass"
                    /\ pc'[q] = "store" =>
                         /\ Len(history'[q]) > 0
                         /\ pending'[q].outcome = history'[q][Len(history'[q])].outcome
                    /\ pc'[q] = "respond" =>
                         \/ Len(history'[q]) = Len(Rules(q))
                         \/ /\ Len(history'[q]) > 0
                            /\ history'[q][Len(history'[q])].outcome # "pass"
  BY <1>5 DEF InOrder
<1>6. CASE q # r
  BY <1>1, <1>6 DEF InOrder, TypeInv, TypeOK
<1>7. CASE q = r
  <2>1. pc'[r] = next
    BY DEF TypeInv, TypeOK
  <2>2. \A i \in 1..n :
          history[r][i].inputs.rule = Rules(r)[i].name /\ history[r][i].outcome = "pass"
    BY DEF InOrder
  <2>3. next = "rule" => outcome = "pass"
    BY DEF Continue
  <2>4. next = "respond" => n + 1 = Len(Rules(r)) \/ outcome # "pass"
    BY <1>2 DEF Continue
  <2>5. next = "store" => pending'[r].outcome = outcome
    BY DEF TypeInv, TypeOK
  <2> HIDE DEF record
  <2>6. record.outcome = outcome
    BY DEF record
  <2> HIDE DEF n
  <2>7. Len(history'[q]) = n + 1 /\ history'[q][n + 1].outcome = outcome
    BY <1>1, <1>3, <1>7, <2>6
  <2>8. ASSUME NEW i \in 1..Len(history'[q])
        PROVE  /\ history'[q][i].inputs.rule = Rules(q)[i].name
               /\ i < Len(history'[q]) \/ pc'[q] \in {"rule", "backend"} =>
                    history'[q][i].outcome = "pass"
    <3>1. CASE i = n + 1
      BY <1>2, <1>3, <1>4, <1>7, <2>1, <2>3, <2>7, <3>1
    <3>2. CASE i # n + 1
      <4>1. i \in 1..n
        BY <1>2, <2>7, <3>2
      <4> QED
        BY <1>3, <1>7, <2>2, <4>1
    <3> QED
      BY <3>1, <3>2
  <2>9. pc'[q] = "store" =>
          /\ Len(history'[q]) > 0
          /\ pending'[q].outcome = history'[q][Len(history'[q])].outcome
    BY <1>2, <1>7, <2>1, <2>5, <2>7
  <2>10. pc'[q] = "respond" =>
           \/ Len(history'[q]) = Len(Rules(q))
           \/ /\ Len(history'[q]) > 0
              /\ history'[q][Len(history'[q])].outcome # "pass"
    BY <1>2, <1>7, <2>1, <2>4, <2>7
  <2> QED
    BY <1>2, <1>7, <2>7, <2>8, <2>9, <2>10
<1> QED
  BY <1>6, <1>7

LEMMA FinishInOrder ==
  ASSUME TypeInv, InOrder, NEW r \in Requests, pc[r] \in {"rule", "backend"},
         NEW outcome \in Outcomes, NEW source \in Entries \union {NoEntry},
         NEW known \in [Names -> MaybeValues], NEW body \in Bodies \union {NoValue},
         Finish(r, outcome, source, known, body), UNCHANGED <<req, pending>>
  PROVE  InOrder'
<1> DEFINE next == Continue(r, outcome, Len(history[r]) + 1)
<1>1. next \in {"rule", "respond"} /\ pc' = [pc EXCEPT ![r] = next]
  BY DEF Finish, Continue
<1>2. Conclude(r, outcome, source, known, body)
  BY DEF Finish
<1> QED
  BY <1>1, <1>2, ConcludeInOrder

LEMMA InOrderStep == TypeInv /\ InOrder /\ [Next]_vars => InOrder'
<1> SUFFICES ASSUME TypeInv, InOrder, [Next]_vars PROVE InOrder'
  OBVIOUS
<1>1. ASSUME NEW r \in Requests, Begin(r) PROVE InOrder'
  <2> PICK a \in Asks :
        /\ a.bundle = bundle
        /\ a.endpoint \in DOMAIN Chain[bundle]
        /\ req' = [req EXCEPT ![r] = a]
        /\ pc' = [pc EXCEPT ![r] = IF Chain[bundle][a.endpoint] = <<>>
                                     THEN "respond" ELSE "rule"]
    BY <1>1 DEF Begin
  <2>1. history[r] = <<>> /\ history' = history /\ pending' = pending
    BY <1>1 DEF Begin, TypeInv, Located
  <2>2. Rules(r)' = Chain[bundle][a.endpoint]
    BY DEF Rules, TypeInv, TypeOK
  <2>3. Chain[bundle][a.endpoint] \in Seq(RuleDefs)
    BY ConstantsTyped DEF TypeInv, TypeOK
  <2>4. Len(Rules(r)') \in Nat /\ (Chain[bundle][a.endpoint] = <<>> => Len(Rules(r)') = 0)
    BY <2>2, <2>3, EmptySeq, LenProperties
  <2>5. \A q \in Requests \ {r} : Rules(q)' = Rules(q) /\ pc'[q] = pc[q]
    BY DEF Rules, TypeInv, TypeOK
  <2>6. pc'[r] \in {"rule", "respond"} /\ (pc'[r] = "respond" => Len(Rules(r)') = 0)
    BY <2>4 DEF TypeInv, TypeOK
  <2>7. Len(history[r]) = 0
    BY <2>1, EmptySeq
  <2> QED
    BY <2>1, <2>4, <2>5, <2>6, <2>7 DEF InOrder
<1>2. ASSUME NEW r \in Requests, RuleRejects(r) PROVE InOrder'
  BY <1>2, FinishInOrder DEF RuleRejects, Outcomes, TypeInv, TypeOK
<1>3. ASSUME NEW r \in Requests, EvaluateLocally(r) PROVE InOrder'
  BY <1>3, FinishInOrder, VerdictType DEF EvaluateLocally, TypeInv, TypeOK
<1>4. ASSUME NEW r \in Requests, ServeFromCache(r) PROVE InOrder'
  <2> PICK e \in Found(r) :
        Finish(r, e.outcome, e, Exported(exported[r], Rule(r), e.value), NoValue)
    BY <1>4 DEF ServeFromCache
  <2>1. e \in Entries /\ e.outcome \in Outcomes /\ e.value \in MaybeValues
    BY DEF Found, TypeInv, TypeOK, Entries, Outcomes
  <2>2. Exported(exported[r], Rule(r), e.value) \in [Names -> MaybeValues]
    BY <1>4, <2>1, RuleType, ExportedType DEF ServeFromCache, TypeInv, TypeOK
  <2> QED
    BY <1>4, <2>1, <2>2, FinishInOrder DEF ServeFromCache
<1>5. ASSUME NEW r \in Requests, MissCache(r) PROVE InOrder'
  BY <1>5 DEF MissCache, InOrder, Rules, TypeInv, TypeOK
<1>6. ASSUME NEW r \in Requests, BackendFails(r) PROVE InOrder'
  BY <1>6, FinishInOrder DEF BackendFails, Outcomes, TypeInv, TypeOK
<1>7. ASSUME NEW r \in Requests, BackendAnswers(r) PROVE InOrder'
  <2> PICK ans \in Answers :
        \E outcome \in Verdicts(Rule(r), ans.status \in Rule(r).accepts) :
          Decide(r, ans, outcome)
    BY <1>7 DEF BackendAnswers
  <2> PICK outcome \in Verdicts(Rule(r), ans.status \in Rule(r).accepts) :
        Decide(r, ans, outcome)
    OBVIOUS
  <2>1. outcome \in Outcomes
    BY VerdictType
  <2>2. exported[r] \in [Names -> MaybeValues] /\ ans.body \in Bodies \union {NoValue}
    BY DEF TypeInv, TypeOK, Answers
  <2>3. CASE Cacheable(r) /\ EffectiveTTL(Rule(r), outcome, Captured(ans.lines)) > 0
    <3>1. EntryOf(r, ans, outcome).outcome = outcome
      BY DEF EntryOf
    <3>2. /\ pc[r] = "backend" /\ UNCHANGED req
          /\ Conclude(r, outcome, NoEntry, exported[r], ans.body)
          /\ pending' = [pending EXCEPT ![r] = EntryOf(r, ans, outcome)]
          /\ pc' = [pc EXCEPT ![r] = "store"]
      BY <1>7, <2>3 DEF BackendAnswers, Decide
    <3> QED
      BY <2>1, <2>2, <3>1, <3>2, ConcludeInOrder
  <2>4. CASE ~(Cacheable(r) /\ EffectiveTTL(Rule(r), outcome, Captured(ans.lines)) > 0)
    BY <1>7, <2>1, <2>2, <2>4, FinishInOrder DEF BackendAnswers, Decide, Finish
  <2> QED
    BY <2>3, <2>4
<1>8. ASSUME NEW r \in Requests, Store(r) \/ StoreFails(r) PROVE InOrder'
  <2> DEFINE next == Continue(r, pending[r].outcome, Len(history[r]))
  <2>1. /\ pc[r] = "store" /\ pc' = [pc EXCEPT ![r] = next]
        /\ UNCHANGED <<req, history>>
        /\ pending' = [pending EXCEPT ![r] = NoEntry]
    BY <1>8 DEF Store, StoreFails, Stored
  <2>2. /\ next \in {"rule", "respond"}
        /\ next = "rule" => pending[r].outcome = "pass"
        /\ next = "respond" =>
             pending[r].outcome # "pass" \/ ~(Len(history[r]) < Len(Rules(r)))
    BY DEF Continue
  <2>3. Len(history[r]) \in Nat
    BY LenProperties DEF TypeInv, TypeOK
  <2>4. Len(Rules(r)) \in Nat
    BY <2>1, ConstantsTyped, LenProperties DEF Rules, TypeInv, Located, Asks
  <2> HIDE DEF next
  <2> SUFFICES ASSUME NEW q \in Requests, pc'[q] # "idle"
               PROVE  /\ Len(history[q]) <= Len(Rules(q))
                      /\ \A i \in 1..Len(history[q]) :
                           /\ history[q][i].inputs.rule = Rules(q)[i].name
                           /\ i < Len(history[q]) \/ pc'[q] \in {"rule", "backend"} =>
                                history[q][i].outcome = "pass"
                      /\ pc'[q] = "store" =>
                           /\ Len(history[q]) > 0
                           /\ pending'[q].outcome = history[q][Len(history[q])].outcome
                      /\ pc'[q] = "respond" =>
                           \/ Len(history[q]) = Len(Rules(q))
                           \/ /\ Len(history[q]) > 0
                              /\ history[q][Len(history[q])].outcome # "pass"
    BY <2>1 DEF InOrder, Rules
  <2>5. CASE q = r
    <3>1. pc'[q] = next
      BY <2>1, <2>5 DEF TypeInv, TypeOK
    <3> QED
      BY <2>1, <2>2, <2>3, <2>4, <2>5, <3>1 DEF InOrder
  <2>6. CASE q # r
    <3>1. pc'[q] = pc[q] /\ pending'[q] = pending[q]
      BY <2>1, <2>6 DEF TypeInv, TypeOK
    <3> QED
      BY <3>1 DEF InOrder
  <2> QED
    BY <2>5, <2>6
<1>9. ASSUME NEW r \in Requests, Respond(r) PROVE InOrder'
  <2>1. \A q \in Requests :
          pc'[q] # "idle" =>
            /\ pc'[q] = pc[q] /\ req'[q] = req[q]
            /\ history'[q] = history[q] /\ pending'[q] = pending[q]
    BY <1>9 DEF Respond, TypeInv, TypeOK
  <2> QED
    BY <1>9, <2>1 DEF Respond, InOrder, Rules
<1>10. ASSUME NEW b \in Bundles, SwapBundle(b) PROVE InOrder'
  BY <1>10, InOrderStutters DEF SwapBundle, local
<1>11. CASE PurgePrefix \/ InvalidateOnReload \/ Tick
  BY <1>11, InOrderStutters DEF PurgePrefix, InvalidateOnReload, Tick, local
<1>12. CASE Restart
  BY <1>12 DEF Restart, InOrder
<1>13. CASE UNCHANGED vars
  BY <1>13, InOrderStutters DEF vars, local
<1> QED
  BY <1>1, <1>2, <1>3, <1>4, <1>5, <1>6, <1>7, <1>8, <1>9, <1>10, <1>11, <1>12,
     <1>13 DEF Next, Request, Reload

\* A request is passed only after every rule of the chain it began with has
\* passed, in the chain's order, whatever is reloaded or restarted meanwhile:
\* the loop of Execute over the endpoint that ServeAuth looked up once.
THEOREM PassesAreEarned == Spec => []PassNeedsWholeChain
<1>1. Init => TypeInv /\ InOrder
  BY TypeInit, InOrderInit
<1>2. TypeInv /\ InOrder /\ [Next]_vars => TypeInv' /\ InOrder'
  BY TypeStep, InOrderStep
<1>3. TypeInv /\ InOrder => PassNeedsWholeChain
  <2> SUFFICES ASSUME TypeInv, InOrder,
                      NEW r \in Requests, pc[r] = "respond", FinalOutcome(r) = "pass"
               PROVE  /\ Len(history[r]) = Len(Rules(r))
                      /\ \A i \in DOMAIN history[r] :
                           /\ history[r][i].inputs.rule = Rules(r)[i].name
                           /\ history[r][i].outcome = "pass"
    BY DEF PassNeedsWholeChain
  <2>1. Len(history[r]) \in Nat /\ DOMAIN history[r] = 1..Len(history[r])
    BY LenProperties DEF TypeInv, TypeOK
  <2>2. history[r] # <<>> => history[r][Len(history[r])].outcome = "pass"
    BY DEF FinalOutcome
  <2>3. Len(history[r]) > 0 => history[r] # <<>>
    BY <2>1, EmptySeq
  <2> QED
    BY <2>1, <2>2, <2>3 DEF InOrder
<1> QED
  BY <1>1, <1>2, <1>3, PTL DEF Spec

-----------------------------------------------------------------------------
(* What the cache holds and what is reused from it.                        *)

\* The key of an entry says what the verdict was reached from, and the entry's
\* lifetime is bounded.
SoundEntry(e) ==
  /\ e.key.endpoint = e.inputs.endpoint /\ e.key.caller = e.inputs.caller
  /\ e.key.rule = e.inputs.rule /\ e.key.url = e.inputs.url
  /\ e.key.payload = e.inputs.payload
  /\ e.key.proxy = ProxyKey(e.inputs.proxied, e.inputs.proxy)
  /\ e.inputs.strict =>
       \A n \in Names \ {e.inputs.rule} : e.key.upstream[n] = e.inputs.upstream[n]
  /\ ~(e.inputs.strict /\ e.value # NoValue) => e.key = RuleCacheKey(e.inputs)
  /\ e.left <= e.ttl
  /\ ServerMaxTTL > 0 => e.ttl <= ServerMaxTTL
  /\ Allows(e.control, e.ttl)

SoundCache ==
  /\ \A e \in cache : SoundEntry(e)
  /\ \A r \in Requests : pc[r] = "store" => SoundEntry(pending[r])

SoundReuse(v) ==
  v.source # NoEntry =>
    /\ SameQuestion(v.source.inputs, v.inputs)
    /\ WithinLifetime(v)
    /\ Allows(v.source.control, v.source.ttl - v.source.left)

SoundReuses ==
  \A r \in Requests : \A i \in 1..Len(history[r]) : SoundReuse(history[r][i])

CacheInv == SoundCache /\ SoundReuses

\* A valid lifetime that nothing takes the place of is the one that is used.
LEMMA Uncontested ==
  ASSUME NEW parts \in Seq(Parts), NEW i \in DOMAIN parts,
         parts[i].key \in {"max-age", "s-maxage"}, parts[i].value \in Nat,
         ~Overridden(parts, i)
  PROVE  Lifetimes(parts) = {i}
<1>1. DOMAIN parts \subseteq Int
  OBVIOUS
<1>2. LastOf(parts, parts[i].key) = {i}
  <2>1. \A j \in DOMAIN parts :
          parts[j].key = parts[i].key /\ parts[j].value \in Nat => j <= i
    BY <1>1 DEF Overridden
  <2>2. i \in LastOf(parts, parts[i].key)
    BY <2>1 DEF LastOf
  <2>3. \A j \in LastOf(parts, parts[i].key) : i <= j /\ j <= i /\ j \in Int /\ i \in Int
    BY <1>1, <2>1 DEF LastOf
  <2> QED
    BY <2>2, <2>3
<1>3. parts[i].key = "max-age" => LastOf(parts, "s-maxage") = {}
  BY DEF LastOf, Overridden
<1> QED
  BY <1>2, <1>3 DEF Lifetimes

\* A lifetime that is stored is one the header allows, whatever overflowed.
LEMMA LifetimeIsAllowed ==
  ASSUME NEW def \in RuleDefs, NEW outcome \in Outcomes, NEW lines \in Controls,
         EffectiveTTL(def, outcome, Captured(lines)) > 0
  PROVE  Allows(IF def.follow THEN Captured(lines) ELSE <<>>,
                EffectiveTTL(def, outcome, Captured(lines)))
<1> DEFINE parts == Captured(lines)
           ttl   == EffectiveTTL(def, outcome, parts)
<1>1. parts \in Seq(Parts)
  <2>1. lines \in Seq(Seq(Parts))
    BY DurationsTyped
  <2>2. lines # <<>> => Head(lines) \in Seq(Parts)
    BY <2>1, HeadTailProperties
  <2> QED
    BY <2>2, EmptySeq DEF Captured
<1>2. ttl \in Int /\ ttl > 0 /\ outcome # "error"
  BY EffectiveTTLType
<1> HIDE DEF parts
<1>3. CASE ~def.follow
  BY <1>3 DEF Allows, parts
<1>4. CASE def.follow
  <2>1. CacheControlTTL(parts) # NoDirective => ttl <= CacheControlTTL(parts)
    BY <1>2, <1>4, CacheControlTTLType, DurationsTyped DEF EffectiveTTL, UnderCeiling
  <2>2. ~Forbids(parts)
    <3> SUFFICES ASSUME Forbids(parts) PROVE FALSE
      OBVIOUS
    <3>1. CacheControlTTL(parts) = 0 /\ CacheControlTTL(parts) # NoDirective
      BY DurationsTyped DEF CacheControlTTL
    <3> QED
      BY <1>2, <2>1, <3>1
  <2>3. ASSUME NEW i \in DOMAIN parts,
               parts[i].key \in {"max-age", "s-maxage"}, parts[i].value \in Nat,
               ~Overridden(parts, i)
        PROVE  ttl <= parts[i].value * Second
    <3>1. Lifetimes(parts) = {i}
      BY <1>1, <2>3, Uncontested
    <3>2. Seconds(parts) = parts[i].value
      BY <3>1, LifetimeType
    <3>3. parts[i].value * Second \in Nat
      BY <2>3, DurationsTyped
    <3>4. CacheControlTTL(parts) = AsDuration(parts[i].value * Second)
      BY <2>2, <3>1, <3>2 DEF CacheControlTTL
    <3>5. /\ CacheControlTTL(parts) \in Int
          /\ CacheControlTTL(parts) <= parts[i].value * Second
      BY <3>3, <3>4, AsDurationBound
    <3>6. CacheControlTTL(parts) # NoDirective
      BY <3>5, DurationsTyped
    <3> QED
      BY <1>2, <2>1, <3>3, <3>5, <3>6
  <2>4. Allows(parts, ttl)
    BY <2>2, <2>3 DEF Allows, Forbids
  <2> QED
    BY <1>4, <2>4 DEF parts
<1> QED
  BY <1>3, <1>4

\* What is allowed at some age is allowed before.
LEMMA AllowedEarlier ==
  ASSUME NEW parts, NEW old \in Int, NEW age \in Int, age <= old, Allows(parts, old)
  PROVE  Allows(parts, age)
<1> SUFFICES ASSUME NEW i \in DOMAIN parts,
                    parts[i].key \in {"max-age", "s-maxage"}, parts[i].value \in Nat,
                    ~Overridden(parts, i)
             PROVE  age <= parts[i].value * Second
  BY DEF Allows
<1>1. old <= parts[i].value * Second
  BY DEF Allows
<1>2. parts[i].value * Second \in Int
  BY DurationsTyped
<1> QED
  BY <1>1, <1>2

LEMMA StoredEntryIsSound ==
  ASSUME TypeInv, NEW r \in Requests, pc[r] = "backend",
         NEW ans \in Answers, NEW outcome \in Outcomes,
         EffectiveTTL(Rule(r), outcome, Captured(ans.lines)) > 0
  PROVE  SoundEntry(EntryOf(r, ans, outcome))
<1> DEFINE ttl   == EffectiveTTL(Rule(r), outcome, Captured(ans.lines))
           value == ExportValue(Rule(r).exports[outcome], req[r].payload, ans.body)
           after == Exported(exported[r], Rule(r), value)
           in    == InputsOf(r)
           control == IF Rule(r).follow THEN Captured(ans.lines) ELSE <<>>
           entry == [key |-> StoreKey(r, after), outcome |-> outcome, value |-> value,
                     ttl |-> ttl, left |-> ttl, inputs |-> in,
                     bundle |-> req[r].bundle, control |-> control]
<1>1. Rule(r) \in RuleDefs /\ in \in RuleInputs
  BY RuleType
<1>2. exported[r] \in [Names -> MaybeValues]
  BY DEF TypeInv, TypeOK
<1>3. ttl \in Int /\ (ServerMaxTTL > 0 => ttl <= ServerMaxTTL)
  BY <1>1, EffectiveTTLType
<1>11. Allows(control, ttl)
  BY <1>1, LifetimeIsAllowed DEF Answers
<1>4. in.rule = Rule(r).name /\ in.upstream = exported[r]
  BY DEF InputsOf
<1>5. /\ value = NoValue => after = in.upstream
      /\ \A n \in Names \ {in.rule} : after[n] = in.upstream[n]
  BY <1>1, <1>2, <1>4 DEF Exported, RuleDefs
<1>6. /\ in = [endpoint |-> in.endpoint, caller |-> in.caller, rule |-> in.rule,
               url |-> in.url, payload |-> in.payload, proxy |-> in.proxy,
               trace |-> in.trace, query |-> in.query, upstream |-> in.upstream,
               strict |-> in.strict, proxied |-> in.proxied]
      /\ StoreKey(r, after) =
           [endpoint |-> in.endpoint, caller |-> in.caller, rule |-> in.rule,
            url |-> in.url, payload |-> in.payload,
            proxy |-> ProxyKey(in.proxied, in.proxy),
            upstream |-> UpstreamKey(in.strict, after)]
  BY <1>1 DEF StoreKey, RuleCacheKey, RuleInputs
<1>7. EntryOf(r, ans, outcome) = entry
  BY DEF EntryOf
<1> HIDE DEF ttl, value, after, in, control
<1>8. ~(in.strict /\ value # NoValue) => StoreKey(r, after) = RuleCacheKey(in)
  BY <1>5, <1>6 DEF RuleCacheKey, UpstreamKey
<1>9. in.strict => UpstreamKey(in.strict, after) = after
  BY DEF UpstreamKey
<1>10. SoundEntry(entry)
  BY <1>3, <1>5, <1>6, <1>8, <1>9, <1>11 DEF SoundEntry
<1> QED
  BY <1>7, <1>10

LEMMA HitIsSound ==
  ASSUME TypeInv, SoundCache, NEW r \in Requests, pc[r] = "rule",
         NEW e \in Found(r), Fresh(e)
  PROVE  SoundReuse([inputs |-> InputsOf(r), outcome |-> e.outcome, source |-> e])
<1> DEFINE in == InputsOf(r)
<1>1. e \in Entries /\ in \in RuleInputs /\ e.key = RuleCacheKey(in) /\ SoundEntry(e)
  BY RuleType DEF Found, SoundCache, TypeInv, TypeOK
<1>2. e.outcome # "error" /\ e.left \in Int /\ e.ttl \in Nat /\ e.left >= 0
  BY <1>1 DEF Entries, Fresh
<1>3. /\ e.key.endpoint = in.endpoint /\ e.key.caller = in.caller
      /\ e.key.rule = in.rule /\ e.key.url = in.url /\ e.key.payload = in.payload
      /\ e.key.proxy = ProxyKey(in.proxied, in.proxy)
      /\ in.strict => e.key.upstream = in.upstream
  BY <1>1 DEF RuleCacheKey, UpstreamKey
<1> HIDE DEF in
<1>4. SameQuestion(e.inputs, in)
  BY <1>1, <1>3 DEF SoundEntry, SameQuestion, ProxyKey
<1>5. WithinLifetime([inputs |-> in, outcome |-> e.outcome, source |-> e])
  BY <1>1, <1>2, DurationsTyped DEF SoundEntry, WithinLifetime
<1>6. Allows(e.control, e.ttl - e.left)
  BY <1>1, <1>2, AllowedEarlier DEF SoundEntry
<1> QED
  BY <1>4, <1>5, <1>6 DEF in, SoundReuse

\* Recording a rule that was evaluated live, or soundly reused, keeps every
\* recorded reuse sound.
LEMMA ConcludeSound ==
  ASSUME TypeInv, SoundReuses, NEW r \in Requests, pc[r] \in {"rule", "backend"},
         NEW outcome \in Outcomes, NEW source \in Entries \union {NoEntry},
         NEW known \in [Names -> MaybeValues], NEW body \in Bodies \union {NoValue},
         Conclude(r, outcome, source, known, body),
         SoundReuse([inputs |-> InputsOf(r), outcome |-> outcome, source |-> source])
  PROVE  SoundReuses'
<1> DEFINE n == Len(history[r])
           record == [inputs |-> InputsOf(r), outcome |-> outcome, source |-> source]
<1>1. /\ \A q \in Requests \ {r} : history'[q] = history[q]
      /\ history'[r] = Append(history[r], record)
      /\ Len(history'[r]) = n + 1
  BY ConcludeType
<1>2. n \in Nat
  BY LenProperties DEF TypeInv, TypeOK
<1>3. /\ \A i \in 1..n : history'[r][i] = history[r][i]
      /\ history'[r][n + 1] = record
  BY <1>1, AppendProperties DEF TypeInv, TypeOK
<1>4. SoundReuse(record)
  OBVIOUS
<1> HIDE DEF record
<1> SUFFICES ASSUME NEW q \in Requests, NEW i \in 1..Len(history'[q])
             PROVE  SoundReuse(history'[q][i])
  BY DEF SoundReuses, SoundReuse, SameQuestion, WithinLifetime
<1>5. CASE q # r
  BY <1>1, <1>5 DEF SoundReuses
<1>6. CASE q = r /\ i # n + 1
  <2>1. i \in 1..n
    BY <1>1, <1>2, <1>6
  <2>2. history'[q][i] = history[r][i]
    BY <1>3, <1>6, <2>1
  <2>3. SoundReuse(history[r][i])
    BY <2>1 DEF SoundReuses
  <2> QED
    BY <2>2, <2>3 DEF SoundReuse
<1>7. CASE q = r /\ i = n + 1
  <2>1. history'[q][i] = record
    BY <1>3, <1>7
  <2> QED
    BY <1>4, <2>1 DEF SoundReuse
<1> QED
  BY <1>5, <1>6, <1>7

LEMMA LiveIsSound ==
  ASSUME NEW in, NEW outcome
  PROVE  SoundReuse([inputs |-> in, outcome |-> outcome, source |-> NoEntry])
BY DEF SoundReuse

\* A conclusion that stores nothing yet leaves the cache sound.
LEMMA FinishSound ==
  ASSUME TypeInv, CacheInv, NEW r \in Requests, pc[r] \in {"rule", "backend"},
         NEW outcome \in Outcomes, NEW source \in Entries \union {NoEntry},
         NEW known \in [Names -> MaybeValues], NEW body \in Bodies \union {NoValue},
         Finish(r, outcome, source, known, body), UNCHANGED <<cache, pending>>,
         SoundReuse([inputs |-> InputsOf(r), outcome |-> outcome, source |-> source])
  PROVE  CacheInv'
<1>1. SoundReuses'
  BY ConcludeSound DEF CacheInv, Finish
<1>2. \A q \in Requests : pc'[q] = "store" => pc[q] = "store"
  BY DEF Finish, Continue, TypeInv, TypeOK
<1>3. SoundCache'
  BY <1>2 DEF CacheInv, SoundCache, SoundEntry
<1> QED
  BY <1>1, <1>3 DEF CacheInv

LEMMA SoundReusesStutters ==
  ASSUME SoundReuses, UNCHANGED history PROVE SoundReuses'
<1>1. \A r \in Requests : \A i \in 1..Len(history'[r]) : SoundReuse(history'[r][i])
  BY DEF SoundReuses
<1> QED
  BY <1>1 DEF SoundReuses, SoundReuse, SameQuestion, WithinLifetime

LEMMA CacheInit == Init => CacheInv
<1> SUFFICES ASSUME Init PROVE CacheInv
  OBVIOUS
<1>1. SoundCache
  BY DEF Init, SoundCache
<1>2. SoundReuses
  BY EmptySeq DEF Init, SoundReuses
<1> QED
  BY <1>1, <1>2 DEF CacheInv

LEMMA CacheStep == TypeInv /\ CacheInv /\ [Next]_vars => CacheInv'
<1> SUFFICES ASSUME TypeInv, CacheInv, [Next]_vars PROVE CacheInv'
  OBVIOUS
<1>1. ASSUME NEW r \in Requests, Begin(r) PROVE CacheInv'
  <2>1. \A q \in Requests : pc'[q] = "store" => pc[q] = "store"
    BY <1>1 DEF Begin, TypeInv, TypeOK
  <2>2. SoundCache'
    BY <1>1, <2>1 DEF Begin, CacheInv, SoundCache, SoundEntry
  <2> QED
    BY <1>1, <2>2, SoundReusesStutters DEF Begin, CacheInv
<1>2. ASSUME NEW r \in Requests, RuleRejects(r) PROVE CacheInv'
  BY <1>2, FinishSound, LiveIsSound DEF RuleRejects, Outcomes, TypeInv, TypeOK
<1>3. ASSUME NEW r \in Requests, EvaluateLocally(r) PROVE CacheInv'
  BY <1>3, FinishSound, LiveIsSound, VerdictType DEF EvaluateLocally, TypeInv, TypeOK
<1>4. ASSUME NEW r \in Requests, ServeFromCache(r) PROVE CacheInv'
  <2> PICK e \in Found(r) :
        Fresh(e) /\ Finish(r, e.outcome, e, Exported(exported[r], Rule(r), e.value), NoValue)
    BY <1>4 DEF ServeFromCache
  <2>1. e \in Entries /\ e.outcome \in Outcomes /\ e.value \in MaybeValues
    BY DEF Found, TypeInv, TypeOK, Entries, Outcomes
  <2>2. Exported(exported[r], Rule(r), e.value) \in [Names -> MaybeValues]
    BY <1>4, <2>1, RuleType, ExportedType DEF ServeFromCache, TypeInv, TypeOK
  <2>3. SoundReuse([inputs |-> InputsOf(r), outcome |-> e.outcome, source |-> e])
    BY <1>4, HitIsSound DEF ServeFromCache, CacheInv
  <2> QED
    BY <1>4, <2>1, <2>2, <2>3, FinishSound DEF ServeFromCache
<1>5. ASSUME NEW r \in Requests, MissCache(r) PROVE CacheInv'
  <2>1. cache' \subseteq cache /\ history' = history /\ pending' = pending
    BY <1>5 DEF MissCache
  <2>2. \A q \in Requests : pc'[q] = "store" => pc[q] = "store"
    BY <1>5 DEF MissCache, TypeInv, TypeOK
  <2>3. SoundCache'
    BY <2>1, <2>2 DEF CacheInv, SoundCache, SoundEntry
  <2> QED
    BY <2>1, <2>3, SoundReusesStutters DEF CacheInv
<1>6. ASSUME NEW r \in Requests, BackendFails(r) PROVE CacheInv'
  BY <1>6, FinishSound, LiveIsSound DEF BackendFails, Outcomes, TypeInv, TypeOK
<1>7. ASSUME NEW r \in Requests, BackendAnswers(r) PROVE CacheInv'
  <2> PICK ans \in Answers :
        \E outcome \in Verdicts(Rule(r), ans.status \in Rule(r).accepts) :
          Decide(r, ans, outcome)
    BY <1>7 DEF BackendAnswers
  <2> PICK outcome \in Verdicts(Rule(r), ans.status \in Rule(r).accepts) :
        Decide(r, ans, outcome)
    OBVIOUS
  <2>1. outcome \in Outcomes
    BY VerdictType
  <2>2. exported[r] \in [Names -> MaybeValues] /\ ans.body \in Bodies \union {NoValue}
    BY DEF TypeInv, TypeOK, Answers
  <2>3. SoundReuses'
    BY <1>7, <2>1, <2>2, ConcludeSound, LiveIsSound DEF BackendAnswers, Decide, CacheInv
  <2>4. EffectiveTTL(Rule(r), outcome, Captured(ans.lines)) > 0 =>
          SoundEntry(EntryOf(r, ans, outcome))
    BY <1>7, <2>1, StoredEntryIsSound DEF BackendAnswers
  <2>5. \A q \in Requests :
          pc'[q] = "store" =>
            \/ pc[q] = "store" /\ pending'[q] = pending[q]
            \/ /\ EffectiveTTL(Rule(r), outcome, Captured(ans.lines)) > 0
               /\ pending'[q] = EntryOf(r, ans, outcome)
    BY <1>7 DEF BackendAnswers, Decide, Continue, TypeInv, TypeOK
  <2>6. \A q \in Requests : pc'[q] = "store" => SoundEntry(pending'[q])
    BY <2>4, <2>5 DEF CacheInv, SoundCache
  <2>7. cache' = cache
    BY <1>7 DEF BackendAnswers
  <2>8. SoundCache'
    BY <2>6, <2>7 DEF CacheInv, SoundCache, SoundEntry
  <2> QED
    BY <2>3, <2>8 DEF CacheInv
<1>8. ASSUME NEW r \in Requests, Store(r) \/ StoreFails(r) PROVE CacheInv'
  <2>1. cache' \subseteq cache \union {pending[r]} /\ pc[r] = "store" /\ Stored(r)
    BY <1>8 DEF Store, StoreFails
  <2>2. \A q \in Requests :
          pc'[q] = "store" => pc[q] = "store" /\ pending'[q] = pending[q]
    BY <2>1 DEF Stored, Continue, TypeInv, TypeOK
  <2>3. SoundCache'
    BY <2>1, <2>2 DEF CacheInv, SoundCache, SoundEntry
  <2> QED
    BY <2>1, <2>3, SoundReusesStutters DEF CacheInv, Stored
<1>9. ASSUME NEW r \in Requests, Respond(r) PROVE CacheInv'
  <2>1. \A q \in Requests : pc'[q] = "store" => pc[q] = "store"
    BY <1>9 DEF Respond, TypeInv, TypeOK
  <2>2. SoundCache'
    BY <1>9, <2>1 DEF Respond, CacheInv, SoundCache, SoundEntry
  <2>3. \A q \in Requests : history'[q] = history[q] \/ history'[q] = <<>>
    BY <1>9 DEF Respond, TypeInv, TypeOK
  <2>4. \A q \in Requests : \A i \in 1..Len(history'[q]) : SoundReuse(history'[q][i])
    <3> SUFFICES ASSUME NEW q \in Requests, NEW i \in 1..Len(history'[q])
                 PROVE  SoundReuse(history'[q][i])
      OBVIOUS
    <3>1. CASE history'[q] = history[q]
      BY <3>1 DEF CacheInv, SoundReuses
    <3>2. CASE history'[q] = <<>>
      BY <3>2, EmptySeq
    <3> QED
      BY <2>3, <3>1, <3>2
  <2>5. SoundReuses'
    BY <2>4 DEF SoundReuses, SoundReuse, SameQuestion, WithinLifetime
  <2> QED
    BY <2>2, <2>5 DEF CacheInv
<1>10. CASE \/ \E b \in Bundles : SwapBundle(b)
            \/ PurgePrefix \/ InvalidateOnReload \/ UNCHANGED vars
  <2>1. cache' \subseteq cache /\ UNCHANGED <<pc, pending, history>>
    BY <1>10 DEF SwapBundle, PurgePrefix, InvalidateOnReload, Purged, vars, local
  <2>2. SoundCache'
    BY <2>1 DEF CacheInv, SoundCache, SoundEntry
  <2> QED
    BY <2>1, <2>2, SoundReusesStutters DEF CacheInv
<1>11. CASE Tick
  <2>1. /\ cache' \subseteq {[e EXCEPT !.left = IF @ >= 0 THEN @ - 1 ELSE @] : e \in cache}
        /\ UNCHANGED <<pc, pending, history>>
    BY <1>11 DEF Tick, local
  <2>2. ASSUME NEW e \in cache
        PROVE  SoundEntry([e EXCEPT !.left = IF @ >= 0 THEN @ - 1 ELSE @])
    <3>1. SoundEntry(e) /\ e \in Entries
      BY DEF CacheInv, SoundCache, TypeInv, TypeOK
    <3> QED
      BY <3>1 DEF SoundEntry, Entries
  <2>3. \A e \in cache' : SoundEntry(e)
    BY <2>1, <2>2
  <2>4. \A r \in Requests : pc'[r] = "store" => SoundEntry(pending'[r])
    BY <2>1 DEF CacheInv, SoundCache
  <2>5. SoundCache'
    BY <2>3, <2>4 DEF SoundCache, SoundEntry
  <2> QED
    BY <2>1, <2>5, SoundReusesStutters DEF CacheInv
<1>12. CASE Restart
  <2>1. cache' \subseteq cache
    BY <1>12 DEF Restart, Purged
  <2> QED
    BY <1>12, <2>1, EmptySeq DEF Restart, CacheInv, SoundCache, SoundEntry, SoundReuses
<1> QED
  BY <1>1, <1>2, <1>3, <1>4, <1>5, <1>6, <1>7, <1>8, <1>9, <1>10, <1>11, <1>12
     DEF Next, Request, Reload

\* A verdict is reused only for who asked, at the same endpoint, about the same
\* rule and the same URL, body and headers of the backend request but for those
\* buildBackendHash excludes: tracing, timing and correlation headers, and the
\* proxy headers of a rule that leaves them out.  The key of checkRuleCache tells
\* the rest apart although storeRuleCache computes it over other variables, and
\* although the entry was stored by a concurrent request, under another bundle,
\* or before a restart.
THEOREM ReuseIsSound == Spec => []ReuseMatchesInputs
<1>1. Init => TypeInv /\ CacheInv
  BY TypeInit, CacheInit
<1>2. TypeInv /\ CacheInv /\ [Next]_vars => TypeInv' /\ CacheInv'
  BY TypeStep, CacheStep
<1>3. TypeInv /\ CacheInv => ReuseMatchesInputs
  <2>1. TypeInv => \A r \in Requests : DOMAIN history[r] = 1..Len(history[r])
    BY LenProperties DEF TypeInv, TypeOK
  <2> QED
    BY <2>1 DEF CacheInv, SoundReuses, SoundReuse, ReuseMatchesInputs, Reused
<1> QED
  BY <1>1, <1>2, <1>3, PTL DEF Spec

\* A reused verdict is within the lifetime CalculateEffectiveTTL gave it and
\* within server.cache.ttlSeconds, and is never an error.
THEOREM ReuseIsInTime == Spec => []ReuseIsBounded
<1>1. Init => TypeInv /\ CacheInv
  BY TypeInit, CacheInit
<1>2. TypeInv /\ CacheInv /\ [Next]_vars => TypeInv' /\ CacheInv'
  BY TypeStep, CacheStep
<1>3. TypeInv /\ CacheInv => ReuseIsBounded
  <2>1. TypeInv => \A r \in Requests : DOMAIN history[r] = 1..Len(history[r])
    BY LenProperties DEF TypeInv, TypeOK
  <2> QED
    BY <2>1 DEF CacheInv, SoundReuses, SoundReuse, ReuseIsBounded, Reused
<1> QED
  BY <1>1, <1>2, <1>3, PTL DEF Spec

\* ReuseHonoursBackend in every behaviour: no reused verdict is older than the
\* Cache-Control of the answer it was reached with allows.
THEOREM ReuseIsAllowed == Spec => []ReuseHonoursBackend
<1>1. TypeInv /\ CacheInv => ReuseHonoursBackend
  <2> SUFFICES ASSUME TypeInv, CacheInv, NEW r \in Requests, NEW v \in Reused(r)
               PROVE  Allows(v.source.control, v.source.ttl - v.source.left)
    BY DEF ReuseHonoursBackend
  <2> PICK i \in DOMAIN history[r] : history[r][i] = v /\ v.source # NoEntry
    BY DEF Reused
  <2>1. i \in 1..Len(history[r])
    BY LenProperties DEF TypeInv, TypeOK
  <2> QED
    BY <2>1 DEF CacheInv, SoundReuses, SoundReuse
<1> QED
  BY <1>1, TypeInit, TypeStep, CacheInit, CacheStep, PTL DEF Spec

\* The key tells no two sessions apart that differ in what buildBackendHash excludes.
LEMMA SameKeyForSessions ==
  ASSUME NEW was \in RuleInputs, NEW p \in OtherProxies(was), NEW t, NEW q
  PROVE  RuleCacheKey(InSession(was, p, t, q)) = RuleCacheKey(was)
<1> DEFINE in == InSession(was, p, t, q)
<1>1. was.proxied => p = was.proxy
  BY DEF OtherProxies
<1>2. /\ in.endpoint = was.endpoint /\ in.caller = was.caller /\ in.rule = was.rule
      /\ in.url = was.url /\ in.payload = was.payload /\ in.upstream = was.upstream
      /\ in.strict = was.strict /\ in.proxied = was.proxied /\ in.proxy = p
  BY DEF RuleInputs, InSession
<1> QED
  BY <1>1, <1>2 DEF RuleCacheKey, ProxyKey

\* The two keys of storeRuleCache and checkRuleCache agree, also for requests that
\* differ in headers buildBackendHash excludes, but for a strict rule that exports
\* a variable.
THEOREM StoredVerdictsAreFound == Spec => []StoredIsFound
<1>1. Init => TypeInv /\ CacheInv
  BY TypeInit, CacheInit
<1>2. TypeInv /\ CacheInv /\ [Next]_vars => TypeInv' /\ CacheInv'
  BY TypeStep, CacheStep
<1>3. TypeInv /\ CacheInv => StoredIsFound
  <2> SUFFICES ASSUME TypeInv, CacheInv, NEW e \in cache,
                      ~(e.inputs.strict /\ e.value # NoValue)
               PROVE  FoundBySessions(e)
    BY DEF StoredIsFound
  <2>1. e.inputs \in RuleInputs /\ e.key = RuleCacheKey(e.inputs)
    BY DEF TypeInv, TypeOK, Entries, CacheInv, SoundCache, SoundEntry
  <2> QED
    BY <2>1, SameKeyForSessions DEF FoundBySessions
<1> QED
  BY <1>1, <1>2, <1>3, PTL DEF Spec

-----------------------------------------------------------------------------
(* Reload over the memory cache.                                           *)

\* While no request runs that the last reload overtook, whatever is stored, or
\* will be, is of the installed bundle, from the purge on.
QuietInv ==
  /\ \A r \in Requests : pc[r] = "store" => pending[r].bundle = req[r].bundle
  /\ quiet =>
       /\ \A r \in Requests : pc[r] # "idle" => req[r].bundle = bundle
       /\ Backend = "memory" /\ reloader # "purge" => \A e \in cache : e.bundle = bundle

LEMMA QuietInit == Init => QuietInv
BY DEF Init, QuietInv

\* A request that goes on with what it has, and stores nothing.
LEMMA QuietGoesOn ==
  ASSUME QuietInv, UNCHANGED <<bundle, reloader, req, quiet>>, cache' \subseteq cache,
         \A r \in Requests : pc'[r] # "idle" => pc[r] # "idle",
         \A r \in Requests :
           pc'[r] = "store" => pc[r] = "store" /\ pending'[r] = pending[r]
  PROVE  QuietInv'
BY DEF QuietInv

LEMMA QuietStep == TypeInv /\ QuietInv /\ [Next]_vars => QuietInv'
<1> SUFFICES ASSUME TypeInv, QuietInv, [Next]_vars PROVE QuietInv'
  OBVIOUS
<1>1. ASSUME NEW r \in Requests, Begin(r) PROVE QuietInv'
  BY <1>1 DEF Begin, QuietInv, TypeInv, TypeOK
<1>2. ASSUME NEW r \in Requests,
             RuleRejects(r) \/ EvaluateLocally(r) \/ ServeFromCache(r) \/ BackendFails(r)
      PROVE  QuietInv'
  BY <1>2, QuietGoesOn DEF RuleRejects, EvaluateLocally, ServeFromCache, BackendFails,
     Finish, Continue, TypeInv, TypeOK
<1>3. ASSUME NEW r \in Requests, MissCache(r) PROVE QuietInv'
  BY <1>3, QuietGoesOn DEF MissCache, TypeInv, TypeOK
<1>4. ASSUME NEW r \in Requests, BackendAnswers(r) PROVE QuietInv'
  <2> PICK ans \in Answers :
        \E outcome \in Verdicts(Rule(r), ans.status \in Rule(r).accepts) :
          Decide(r, ans, outcome)
    BY <1>4 DEF BackendAnswers
  <2> PICK outcome \in Verdicts(Rule(r), ans.status \in Rule(r).accepts) :
        Decide(r, ans, outcome)
    OBVIOUS
  <2>1. EntryOf(r, ans, outcome).bundle = req[r].bundle
    BY DEF EntryOf
  <2>2. pc[r] = "backend" /\ UNCHANGED <<bundle, reloader, cache, req, quiet>>
    BY <1>4 DEF BackendAnswers
  <2>3. \/ /\ pending' = [pending EXCEPT ![r] = EntryOf(r, ans, outcome)]
           /\ pc' = [pc EXCEPT ![r] = "store"]
        \/ /\ pc' = [pc EXCEPT ![r] = Continue(r, outcome, Len(history[r]) + 1)]
           /\ UNCHANGED pending
    BY DEF Decide
  <2>4. Continue(r, outcome, Len(history[r]) + 1) \in {"rule", "respond"}
    BY DEF Continue
  <2>5. /\ \A q \in Requests : pc'[q] # "idle" => pc[q] # "idle"
        /\ \A q \in Requests :
             pc'[q] = "store" => \/ pc[q] = "store" /\ pending'[q] = pending[q]
                                 \/ q = r /\ pending'[q] = EntryOf(r, ans, outcome)
    <3>1. ASSUME NEW q \in Requests, q # r
          PROVE  pc'[q] = pc[q] /\ pending'[q] = pending[q]
      BY <2>3, <3>1 DEF TypeInv, TypeOK
    <3>2. \/ pc'[r] = "store" /\ pending'[r] = EntryOf(r, ans, outcome)
          \/ pc'[r] \in {"rule", "respond"}
      BY <2>3, <2>4 DEF TypeInv, TypeOK
    <3> SUFFICES ASSUME NEW q \in Requests
                 PROVE  /\ pc'[q] # "idle" => pc[q] # "idle"
                        /\ pc'[q] = "store" =>
                             \/ pc[q] = "store" /\ pending'[q] = pending[q]
                             \/ q = r /\ pending'[q] = EntryOf(r, ans, outcome)
      OBVIOUS
    <3>3. CASE q = r
      BY <2>2, <3>2, <3>3
    <3>4. CASE q # r
      BY <3>1, <3>4
    <3> QED
      BY <3>3, <3>4
  <2> QED
    BY <2>1, <2>2, <2>5 DEF QuietInv
<1>5. ASSUME NEW r \in Requests, Store(r) \/ StoreFails(r) PROVE QuietInv'
  <2>1. cache' \subseteq cache \union {pending[r]} /\ pc[r] = "store" /\ Stored(r)
    BY <1>5 DEF Store, StoreFails
  <2>2. \A q \in Requests :
          /\ pc'[q] = "store" => pc[q] = "store" /\ pending'[q] = pending[q]
          /\ pc'[q] # "idle" => pc[q] # "idle"
    BY <2>1 DEF Stored, Continue, TypeInv, TypeOK
  <2> QED
    BY <2>1, <2>2 DEF QuietInv, Stored
<1>6. ASSUME NEW r \in Requests, Respond(r) PROVE QuietInv'
  BY <1>6 DEF Respond, QuietInv, TypeInv, TypeOK
<1>7. ASSUME NEW b \in Bundles, SwapBundle(b) PROVE QuietInv'
  BY <1>7 DEF SwapBundle, local, QuietInv, TypeInv, TypeOK
<1>8. CASE PurgePrefix \/ InvalidateOnReload
  BY <1>8 DEF PurgePrefix, InvalidateOnReload, Purged, local, QuietInv
<1>9. CASE Tick
  <2>1. cache' \subseteq {[e EXCEPT !.left = IF @ >= 0 THEN @ - 1 ELSE @] : e \in cache}
    BY <1>9 DEF Tick
  <2>2. \A e \in cache :
          [e EXCEPT !.left = IF @ >= 0 THEN @ - 1 ELSE @].bundle = e.bundle
    BY DEF TypeInv, TypeOK, Entries
  <2>3. (\A e \in cache : e.bundle = bundle) => (\A e \in cache' : e.bundle = bundle)
    BY <2>1, <2>2
  <2> QED
    BY <1>9, <2>3 DEF Tick, local, QuietInv
<1>10. CASE Restart
  BY <1>10 DEF Restart, Purged, QuietInv
<1>11. CASE UNCHANGED vars
  BY <1>11 DEF vars, local, QuietInv
<1> QED
  BY <1>1, <1>2, <1>3, <1>4, <1>5, <1>6, <1>7, <1>8, <1>9, <1>10, <1>11
     DEF Next, Request, Reload

\* Reload does what it promises when it overtakes no request: with the memory
\* cache, nothing of an earlier bundle is left once it has returned.
THEOREM QuietReloadsPurge == Spec => []QuietReloadLeavesNothingStale
<1>1. Init => TypeInv /\ QuietInv
  BY TypeInit, QuietInit
<1>2. TypeInv /\ QuietInv /\ [Next]_vars => TypeInv' /\ QuietInv'
  BY TypeStep, QuietStep
<1>3. QuietInv => QuietReloadLeavesNothingStale
  BY DEF QuietInv, QuietReloadLeavesNothingStale
<1> QED
  BY <1>1, <1>2, <1>3, PTL DEF Spec

-----------------------------------------------------------------------------
(* What a step does to the request that takes it, and to others.           *)

\* A request disturbs no other, and no reload.
LEMMA RequestsKeepApart ==
  ASSUME TypeInv, NEW r \in Requests, Begin(r) \/ Request(r)
  PROVE  /\ bundle' = bundle
         /\ \A q \in Requests \ {r} :
              pc'[q] = pc[q] /\ history'[q] = history[q] /\ req'[q] = req[q]
<1>1. /\ pc \in [Requests -> {"idle", "rule", "backend", "store", "respond"}]
      /\ history \in [Requests -> Seq(Verdicted)]
      /\ req \in [Requests -> Asks \union {NoRequest}]
  BY DEF TypeInv, TypeOK
<1>2. CASE Begin(r)
  BY <1>1, <1>2 DEF Begin
<1>3. CASE RuleRejects(r) \/ EvaluateLocally(r) \/ ServeFromCache(r) \/ BackendFails(r)
  <2>1. UNCHANGED <<bundle, req>> /\ \E outcome, source, known, body :
          Finish(r, outcome, source, known, body)
    BY <1>3 DEF RuleRejects, EvaluateLocally, ServeFromCache, BackendFails
  <2> QED
    BY <1>1, <2>1 DEF Finish, Conclude
<1>4. CASE BackendAnswers(r)
  BY <1>1, <1>4 DEF BackendAnswers, Decide, Conclude
<1>5. CASE MissCache(r) \/ Store(r) \/ StoreFails(r) \/ Respond(r)
  BY <1>1, <1>5 DEF MissCache, Store, StoreFails, Stored, Respond
<1> QED
  BY <1>2, <1>3, <1>4, <1>5 DEF Request

\* The way of a request: each rule is decided and, if its verdict is to be kept,
\* stored, and the request keeps what it asked until it is answered.
Moves(r) ==
  \/ pc[r] = "respond" /\ pc'[r] = "idle"
  \/ /\ req'[r] = req[r]
     /\ \/ pc[r] = "rule" /\ pc'[r] = "backend" /\ history'[r] = history[r]
        \/ /\ pc[r] \in {"rule", "backend"} /\ Len(history'[r]) = Len(history[r]) + 1
           /\ pc'[r] \in {"rule", "respond"} \/ (pc[r] = "backend" /\ pc'[r] = "store")
        \/ /\ pc[r] = "store" /\ pc'[r] \in {"rule", "respond"}
           /\ history'[r] = history[r]

LEMMA RequestMoves ==
  ASSUME TypeInv, NEW r \in Requests, Request(r)
  PROVE  Moves(r)
<1>1. /\ pc \in [Requests -> {"idle", "rule", "backend", "store", "respond"}]
      /\ history[r] \in Seq(Verdicted) /\ history = [q \in Requests |-> history[q]]
      /\ req = [q \in Requests |-> req[q]]
  BY DEF TypeInv, TypeOK
<1>2. ASSUME NEW outcome, NEW source, NEW known, NEW body,
             Conclude(r, outcome, source, known, body)
      PROVE  Len(history'[r]) = Len(history[r]) + 1
  BY <1>1, <1>2 DEF Conclude
<1>3. CASE RuleRejects(r) \/ EvaluateLocally(r) \/ ServeFromCache(r) \/ BackendFails(r)
  <2>1. UNCHANGED req /\ pc[r] \in {"rule", "backend"}
        /\ \E outcome, source, known, body : Finish(r, outcome, source, known, body)
    BY <1>3 DEF RuleRejects, EvaluateLocally, ServeFromCache, BackendFails
  <2>2. pc'[r] \in {"rule", "respond"} /\ Len(history'[r]) = Len(history[r]) + 1
    BY <1>1, <1>2, <2>1 DEF Finish, Continue
  <2> QED
    BY <2>1, <2>2 DEF Moves
<1>4. CASE BackendAnswers(r)
  <2>1. /\ UNCHANGED req /\ pc[r] = "backend"
        /\ \E ans \in Answers : \E outcome : Decide(r, ans, outcome)
    BY <1>4 DEF BackendAnswers
  <2>2. PICK ans \in Answers : \E outcome : Decide(r, ans, outcome)
    BY <2>1
  <2>3. PICK outcome : Decide(r, ans, outcome)
    BY <2>2
  <2>4. Len(history'[r]) = Len(history[r]) + 1
    BY <1>2, <2>3 DEF Decide
  <2>5. pc'[r] \in {"rule", "respond", "store"}
    BY <1>1, <2>3 DEF Decide, Continue
  <2> QED
    BY <2>1, <2>4, <2>5 DEF Moves
<1>5. CASE MissCache(r) \/ Store(r) \/ StoreFails(r) \/ Respond(r)
  BY <1>1, <1>5 DEF MissCache, Store, StoreFails, Stored, Continue, Respond, Moves
<1> QED
  BY <1>3, <1>4, <1>5 DEF Request

-----------------------------------------------------------------------------
(* Requests run down.                                                      *)

\* How much is left is counted in rules that the chain has and the history has
\* not.
LEMMA RulesLeftType ==
  ASSUME TypeInv, InOrder, NEW r \in Requests, pc[r] # "idle"
  PROVE  /\ Len(history[r]) \in Nat /\ Len(Rules(r)) \in Nat
         /\ Len(history[r]) <= Len(Rules(r))
         /\ pc[r] \in {"rule", "backend"} => Len(history[r]) < Len(Rules(r))
         /\ pc[r] \in {"rule", "backend", "store", "respond"}
         /\ StepsLeft(r) \in Nat \ {0}
<1>1. req[r] \in Asks /\ req[r].endpoint \in DOMAIN Chain[req[r].bundle]
      /\ history[r] \in Seq(Verdicted) /\ pc[r] \in {"rule", "backend", "store", "respond"}
  BY DEF TypeInv, TypeOK, Located
<1>2. Rules(r) \in Seq(RuleDefs)
  BY <1>1, ConstantsTyped DEF Rules, Asks
<1>3. Len(history[r]) \in Nat /\ Len(Rules(r)) \in Nat
  BY <1>1, <1>2, LenProperties
<1>4. /\ Len(history[r]) <= Len(Rules(r))
      /\ pc[r] \in {"rule", "backend"} => Len(history[r]) < Len(Rules(r))
  BY DEF TypeInv, Located, InOrder
<1>5. StepsLeft(r) \in Nat \ {0}
  BY <1>1, <1>3, <1>4 DEF StepsLeft
<1> QED
  BY <1>1, <1>3, <1>4, <1>5

\* Whatever others do leaves a request as many steps as it had.
LEMMA NothingIsAdded ==
  ASSUME TypeInv, InOrder, NEW r \in Requests,
         pc'[r] = pc[r], history'[r] = history[r], req'[r] = req[r]
  PROVE  RunsDown(r)
<1>1. Rules(r)' = Rules(r)
  BY DEF Rules
<1>2. StepsLeft(r)' = StepsLeft(r)
  BY <1>1 DEF StepsLeft
<1> QED
  BY <1>2, RulesLeftType DEF RunsDown

\* A step of its own leaves it fewer.
LEMMA MovesRunDown ==
  ASSUME TypeInv, InOrder, NEW r \in Requests, Moves(r)
  PROVE  RunsDown(r)
<1> SUFFICES ASSUME pc[r] # "idle"
             PROVE  StepsLeft(r)' \in Nat /\ StepsLeft(r)' < StepsLeft(r)
  BY DEF RunsDown
<1>1. /\ Len(history[r]) \in Nat /\ Len(Rules(r)) \in Nat
      /\ Len(history[r]) <= Len(Rules(r))
      /\ pc[r] \in {"rule", "backend"} => Len(history[r]) < Len(Rules(r))
      /\ StepsLeft(r) \in Nat \ {0}
  BY RulesLeftType
<1>2. CASE pc'[r] = "idle"
  <2>1. StepsLeft(r)' = 0
    BY <1>2 DEF StepsLeft
  <2> QED
    BY <1>1, <2>1
<1>3. CASE pc'[r] # "idle"
  <2>1. Rules(r)' = Rules(r)
    BY <1>3 DEF Moves, Rules
  <2> DEFINE L == Len(Rules(r))  n == Len(history[r])  m == Len(history'[r])
  <2>2. /\ StepsLeft(r)' = CASE pc'[r] = "respond" -> 1
                             [] pc'[r] = "backend" -> 3 * (L - m)
                             [] pc'[r] = "rule" -> 3 * (L - m) + 1
                             [] pc'[r] = "store" -> 3 * (L - m) + 2
        /\ StepsLeft(r) = CASE pc[r] = "respond" -> 1
                            [] pc[r] = "backend" -> 3 * (L - n)
                            [] pc[r] = "rule" -> 3 * (L - n) + 1
                            [] pc[r] = "store" -> 3 * (L - n) + 2
    <3>1. pc'[r] \in {"rule", "backend", "store", "respond"}
      BY <1>3 DEF Moves
    <3>2. pc[r] \in {"rule", "backend", "store", "respond"}
      BY DEF TypeInv, TypeOK
    <3> QED
      BY <1>3, <2>1, <3>1, <3>2 DEF StepsLeft
  <2>3. \/ pc[r] = "rule" /\ pc'[r] = "backend" /\ m = n
        \/ pc[r] = "rule" /\ m = n + 1 /\ pc'[r] \in {"rule", "respond"}
        \/ pc[r] = "backend" /\ m = n + 1 /\ pc'[r] \in {"rule", "respond", "store"}
        \/ pc[r] = "store" /\ m = n /\ pc'[r] \in {"rule", "respond"}
    BY <1>3 DEF Moves
  <2>4. n \in Nat /\ L \in Nat /\ n <= L /\ (pc[r] \in {"rule", "backend"} => n < L)
    BY <1>1
  <2> HIDE DEF L, n, m
  <2> QED
    BY <2>2, <2>3, <2>4
<1> QED
  BY <1>2, <1>3

LEMMA RunDownStep ==
  TypeInv /\ InOrder /\ [Next]_vars => [\A r \in Requests : RunsDown(r)]_vars
<1> SUFFICES ASSUME TypeInv, InOrder, Next, NEW r \in Requests
             PROVE  RunsDown(r)
  OBVIOUS
<1>1. ASSUME NEW q \in Requests, Begin(q) \/ Request(q) PROVE RunsDown(r)
  <2>1. CASE q # r
    BY <1>1, <2>1, RequestsKeepApart, NothingIsAdded
  <2>2. CASE q = r /\ Begin(r)
    BY <2>2 DEF Begin, RunsDown
  <2>3. CASE q = r /\ Request(r)
    BY <2>3, RequestMoves, MovesRunDown
  <2> QED
    BY <1>1, <2>1, <2>2, <2>3
<1>2. CASE (\E b \in Bundles : SwapBundle(b)) \/ Reload \/ Tick
  BY <1>2, NothingIsAdded
     DEF SwapBundle, Reload, PurgePrefix, InvalidateOnReload, Tick, local
<1>3. CASE Restart
  <2>1. StepsLeft(r)' = 0
    BY <1>3 DEF Restart, StepsLeft
  <2> QED
    BY <2>1, RulesLeftType DEF RunsDown
<1> QED
  BY <1>1, <1>2, <1>3 DEF Next

\* Every request has an end that each of its steps brings nearer and no reload
\* puts off, for chains of any length and any number of requests. (Execute,
\* Pipeline.Reload)
THEOREM RequestsEnd == Spec => RequestsRunDown
<1> QED
  BY TypeInit, TypeStep, InOrderInit, InOrderStep, RunDownStep, PTL
     DEF Spec, RequestsRunDown

-----------------------------------------------------------------------------
(* What a reload has overtaken runs out.                                   *)

\* Entries that were there before, or fewer.
LEMMA NothingStaleIsAdded ==
  ASSUME bundle' = bundle, Overtaken' \subseteq Overtaken, cache' \subseteq cache
  PROVE  Expire
BY DEF Expire, Stale, Fresh

LEMMA ExpireStep == TypeInv /\ QuietInv /\ [Next]_vars => [bundle' = bundle => Expire]_vars
<1> SUFFICES ASSUME TypeInv, QuietInv, Next, bundle' = bundle
             PROVE  Expire
  OBVIOUS
<1>1. ASSUME NEW r \in Requests, Begin(r) PROVE Expire
  <2>1. Overtaken' \subseteq Overtaken
    <3>1. req'[r].bundle = bundle
      BY <1>1 DEF Begin, TypeInv, TypeOK
    <3> QED
      BY <1>1, <3>1, RequestsKeepApart DEF Overtaken
  <2> QED
    BY <1>1, <2>1, NothingStaleIsAdded DEF Begin
<1>2. ASSUME NEW r \in Requests, Request(r) PROVE Expire
  <2>1. Overtaken' \subseteq Overtaken
    <3>1. pc'[r] # "idle" => pc[r] # "idle" /\ req'[r] = req[r]
      BY <1>2, RequestMoves DEF Moves
    <3> QED
      BY <1>2, <3>1, RequestsKeepApart DEF Overtaken
  <2>2. CASE Store(r)
    <3>1. cache' \subseteq cache \union {pending[r]} /\ pc[r] = "store"
      BY <2>2 DEF Store
    <3>2. pending[r].bundle # bundle => r \in Overtaken
      BY <3>1 DEF QuietInv, Overtaken
    <3>3. ASSUME NEW e \in Stale'
          PROVE  e \in Stale \/ (r \in Overtaken /\ pending[r] = e)
      BY <3>1, <3>2 DEF Stale, Fresh
    <3> QED
      BY <2>1, <3>1, <3>3 DEF Expire
  <2>3. CASE ~Store(r)
    <3>1. cache' \subseteq cache
      BY <1>2, <2>3
         DEF Request, RuleRejects, EvaluateLocally, ServeFromCache, MissCache, BackendFails,
             BackendAnswers, StoreFails, Respond
    <3> QED
      BY <2>1, <3>1, NothingStaleIsAdded
  <2> QED
    BY <2>2, <2>3
<1>3. CASE (\E b \in Bundles : SwapBundle(b)) \/ Reload
  <2>1. Overtaken' \subseteq Overtaken /\ cache' \subseteq cache
    BY <1>3 DEF SwapBundle, Reload, PurgePrefix, InvalidateOnReload, Purged, local, Overtaken
  <2> QED
    BY <2>1, NothingStaleIsAdded
<1>4. CASE Tick
  <2>1. Overtaken' = Overtaken
    BY <1>4 DEF Tick, local, Overtaken
  <2>2. ASSUME NEW e \in Stale'
        PROVE  [e EXCEPT !.left = @ + 1] \in Stale
    <3>1. PICK f \in cache : e = [f EXCEPT !.left = IF @ >= 0 THEN @ - 1 ELSE @]
      BY <1>4 DEF Tick, Stale
    <3>2. f \in Entries /\ f.left \in Int
      BY DEF TypeInv, TypeOK, Entries
    <3>3. /\ e.bundle = f.bundle /\ e.left = IF f.left >= 0 THEN f.left - 1 ELSE f.left
          /\ e.left >= 0 /\ e.bundle # bundle
      BY <3>1, <3>2 DEF Stale, Fresh, Entries
    <3>4. f.left >= 0 /\ e.left + 1 = f.left
      BY <3>2, <3>3
    <3>5. [e EXCEPT !.left = @ + 1] = f
      BY <3>1, <3>2, <3>4 DEF Entries
    <3> QED
      BY <3>3, <3>4, <3>5 DEF Stale, Fresh
  <2> QED
    BY <2>1, <2>2 DEF Expire
<1>5. CASE Restart
  <2>1. Overtaken' = {} /\ cache' \subseteq cache
    BY <1>5 DEF Restart, Purged, Overtaken
  <2> QED
    BY <2>1, NothingStaleIsAdded
<1> QED
  BY <1>1, <1>2, <1>3, <1>4, <1>5 DEF Next

\* What a reload overtakes only runs out, with either cache and whatever requests
\* do: no verdict of an earlier bundle is renewed, and only requests that began
\* before the reload add to them. (Pipeline.Reload, storeRuleCache)
THEOREM StaleVerdictsExpire == Spec => StaleVerdictsRunOut
<1> QED
  BY TypeInit, TypeStep, QuietInit, QuietStep, ExpireStep, PTL
     DEF Spec, StaleVerdictsRunOut
=============================================================================
