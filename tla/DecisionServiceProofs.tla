------------------------ MODULE DecisionServiceProofs ------------------------
(***************************************************************************)
(* Proof that PipelineCache implements DecisionService: every step of the  *)
(* pipeline, its reloads, its clock and its restarts is a step of the      *)
(* service, or leaves the service's state alone.                           *)
(***************************************************************************)
EXTENDS PipelineCacheProofs

\* Only a request that is about to store holds an entry, and only an idle one asks
\* nothing.
HandsInv ==
  \A r \in Requests :
    /\ pending[r] # NoEntry => pc[r] = "store"
    /\ pc[r] = "idle" => req[r] = NoRequest

LEMMA HandsInit == Init => HandsInv
BY DEF Init, HandsInv

LEMMA HandsStep == TypeInv /\ HandsInv /\ [Next]_vars => HandsInv'
<1> SUFFICES ASSUME TypeInv, HandsInv, [Next]_vars PROVE HandsInv'
  OBVIOUS
<1> USE DEF HandsInv, TypeInv, TypeOK
<1>1. ASSUME NEW r \in Requests, Begin(r) PROVE HandsInv'
  BY <1>1 DEF Begin
<1>2. ASSUME NEW r \in Requests, RuleRejects(r) \/ EvaluateLocally(r)
      PROVE  HandsInv'
  BY <1>2 DEF RuleRejects, EvaluateLocally, Finish, Continue
<1>3. ASSUME NEW r \in Requests, ServeFromCache(r) PROVE HandsInv'
  BY <1>3 DEF ServeFromCache, Finish, Continue
<1>4. ASSUME NEW r \in Requests, MissCache(r) PROVE HandsInv'
  BY <1>4 DEF MissCache
<1>5. ASSUME NEW r \in Requests, BackendFails(r) PROVE HandsInv'
  BY <1>5 DEF BackendFails, Finish, Continue
<1>6. ASSUME NEW r \in Requests, BackendAnswers(r) PROVE HandsInv'
  BY <1>6 DEF BackendAnswers, Decide, Continue
<1>7. ASSUME NEW r \in Requests, Store(r) \/ StoreFails(r) PROVE HandsInv'
  BY <1>7 DEF Store, StoreFails, Stored, Continue
<1>8. ASSUME NEW r \in Requests, Respond(r) PROVE HandsInv'
  BY <1>8 DEF Respond
<1>9. CASE (\E b \in Bundles : SwapBundle(b)) \/ Reload \/ Tick \/ UNCHANGED vars
  BY <1>9 DEF SwapBundle, Reload, PurgePrefix, InvalidateOnReload, Tick, vars, local
<1>10. CASE Restart
  BY <1>10 DEF Restart
<1> QED
  BY <1>1, <1>2, <1>3, <1>4, <1>5, <1>6, <1>7, <1>8, <1>9, <1>10 DEF Next, Request

ServiceInv == TypeInv /\ InOrder /\ CacheInv /\ HandsInv

LEMMA ServiceInvStep == ServiceInv /\ [Next]_vars => ServiceInv'
BY TypeStep, InOrderStep, CacheStep, HandsStep DEF ServiceInv

-----------------------------------------------------------------------------
(* What the service sees of the pipeline's state.                          *)

LEMMA GivenType ==
  ASSUME TypeInv, NEW r \in Requests
  PROVE  /\ GivenVerdicts[r] \in Seq(Outcomes)
         /\ Len(GivenVerdicts[r]) = Len(history[r])
         /\ \A i \in 1..Len(history[r]) : GivenVerdicts[r][i] = history[r][i].outcome
<1>1. history[r] \in Seq(Verdicted)
  BY DEF TypeInv, TypeOK
<1>2. Len(history[r]) \in Nat /\ DOMAIN history[r] = 1..Len(history[r])
  BY <1>1, LenProperties
<1>3. \A i \in 1..Len(history[r]) : history[r][i].outcome \in Outcomes
  <2>1. \A i \in 1..Len(history[r]) : history[r][i] \in Verdicted
    BY <1>1, ElementOfSeq
  <2> QED
    BY <2>1 DEF Verdicted
<1>4. GivenVerdicts[r] = [i \in 1..Len(history[r]) |-> history[r][i].outcome]
  BY <1>2 DEF GivenVerdicts
<1> QED
  BY <1>2, <1>3, <1>4

\* Recording a rule in the history is giving one more verdict.
LEMMA GivenGrows ==
  ASSUME TypeInv, TypeInv', NEW r \in Requests, NEW record,
         history' = [history EXCEPT ![r] = Append(@, record)], record \in Verdicted
  PROVE  GivenVerdicts' = [GivenVerdicts EXCEPT ![r] = Append(@, record.outcome)]
<1>1. history[r] \in Seq(Verdicted) /\ history'[r] = Append(history[r], record)
  BY DEF TypeInv, TypeOK
<1>2. /\ Len(history'[r]) = Len(history[r]) + 1
      /\ \A i \in 1..Len(history[r]) : history'[r][i] = history[r][i]
      /\ history'[r][Len(history[r]) + 1] = record
  BY <1>1, AppendProperties
<1>3. record.outcome \in Outcomes
  BY DEF Verdicted
<1>4. /\ GivenVerdicts[r] \in Seq(Outcomes)
      /\ Len(GivenVerdicts[r]) = Len(history[r])
      /\ \A i \in 1..Len(history[r]) : GivenVerdicts[r][i] = history[r][i].outcome
  BY GivenType
<1>5. /\ GivenVerdicts'[r] \in Seq(Outcomes)
      /\ Len(GivenVerdicts'[r]) = Len(history'[r])
      /\ \A i \in 1..Len(history'[r]) : GivenVerdicts'[r][i] = history'[r][i].outcome
  <2>1. history'[r] \in Seq(Verdicted)
    BY DEF TypeInv, TypeOK
  <2>2. Len(history'[r]) \in Nat /\ DOMAIN history'[r] = 1..Len(history'[r])
    BY <2>1, LenProperties
  <2>3. \A i \in 1..Len(history'[r]) : history'[r][i].outcome \in Outcomes
    <3>1. \A i \in 1..Len(history'[r]) : history'[r][i] \in Verdicted
      BY <2>1, ElementOfSeq
    <3> QED
      BY <3>1 DEF Verdicted
  <2>4. GivenVerdicts'[r] = [i \in 1..Len(history'[r]) |-> history'[r][i].outcome]
    BY <2>2 DEF GivenVerdicts
  <2> QED
    BY <2>2, <2>3, <2>4
<1> DEFINE longer == Append(GivenVerdicts[r], record.outcome)
<1>6. /\ longer \in Seq(Outcomes)
      /\ Len(longer) = Len(history[r]) + 1
      /\ \A i \in 1..Len(history[r]) : longer[i] = history[r][i].outcome
      /\ longer[Len(history[r]) + 1] = record.outcome
  BY <1>3, <1>4, AppendProperties
<1>7. Len(history[r]) \in Nat
  BY <1>1, LenProperties
<1> HIDE DEF longer
<1>8. \A i \in 1..Len(longer) : GivenVerdicts'[r][i] = longer[i]
  BY <1>2, <1>5, <1>6, <1>7
<1>9. GivenVerdicts'[r] = longer
  BY <1>2, <1>5, <1>6, <1>8, SeqEqual
<1>10. \A q \in Requests \ {r} : GivenVerdicts'[q] = GivenVerdicts[q]
  BY DEF GivenVerdicts, TypeInv, TypeOK
<1> QED
  BY <1>9, <1>10 DEF GivenVerdicts, longer

LEMMA FreshStays == UNCHANGED pending => UNCHANGED FreshVerdicts
BY DEF FreshVerdicts

LEMMA GivenStays == UNCHANGED history => UNCHANGED GivenVerdicts
BY DEF GivenVerdicts

LEMMA CachedStays == UNCHANGED cache => UNCHANGED CachedVerdicts
BY DEF CachedVerdicts

\* Whatever entries disappear or grow older, what is left was remembered.
LEMMA CachedShrinks ==
  ASSUME \A f \in cache' : \E e \in cache : AsVerdict(f) = AsVerdict(e)
  PROVE  CachedVerdicts' \in SUBSET CachedVerdicts
<1>1. CachedVerdicts' = {AsVerdict(f) : f \in cache'}
  BY DEF CachedVerdicts, AsVerdict
<1> QED
  BY <1>1 DEF CachedVerdicts

LEMMA CachedPurged ==
  ASSUME cache' \subseteq cache
  PROVE  CachedVerdicts' \in SUBSET CachedVerdicts
BY DEF CachedVerdicts, AsVerdict

LEMMA AsVerdictType ==
  ASSUME NEW e \in Entries
  PROVE  AsVerdict(e) \in Service!Verdicts /\ AsVerdict(e) # NoEntry
BY SentinelsAreNoData, ProxiesMayBeAbsent
   DEF AsVerdict, Entries, RuleInputs, ProxyKey, Service!Verdicts, Service!Questions

\* In the chain loop a request is being decided.
LEMMA LoopDecides ==
  ASSUME ServiceInv, NEW r \in Requests, pc[r] \in {"rule", "backend"}
  PROVE  /\ Service!Deciding(r)
         /\ Service!Question(r) =
              [endpoint |-> InputsOf(r).endpoint, caller |-> InputsOf(r).caller,
               payload |-> InputsOf(r).payload,
               proxy |-> ProxyKey(InputsOf(r).proxied, InputsOf(r).proxy),
               rule |-> InputsOf(r).rule, url |-> InputsOf(r).url]
<1>1. req[r] # NoRequest
  BY SentinelsAreNoData DEF ServiceInv, TypeInv, Located
<1>2. FreshVerdicts[r] = NoEntry
  BY DEF FreshVerdicts, ServiceInv, HandsInv
<1>3. /\ GivenVerdicts[r] \in Seq(Outcomes)
      /\ Len(GivenVerdicts[r]) = Len(history[r])
      /\ \A i \in 1..Len(history[r]) : GivenVerdicts[r][i] = history[r][i].outcome
  BY GivenType DEF ServiceInv
<1>4. Len(history[r]) \in Nat /\ Len(history[r]) < Len(Rules(r))
  BY LenProperties DEF ServiceInv, TypeInv, TypeOK, Located
<1>5. Len(Rules(r)) \in Nat
  BY RuleType, LenProperties DEF ServiceInv
<1>6. \A i \in 1..Len(history[r]) : history[r][i].outcome = "pass"
  BY DEF ServiceInv, InOrder
<1>7. Service!Rules(r) = Rules(r)
  BY DEF Service!Rules, Rules
<1>8. ~Service!Decided(r)
  <2>1. GivenVerdicts[r] # <<>> => Len(history[r]) \in 1..Len(history[r])
    BY <1>3, <1>4, EmptySeq
  <2> QED
    BY <1>3, <1>4, <1>5, <1>6, <1>7, <2>1 DEF Service!Decided
<1>9. Service!Question(r) =
        [endpoint |-> InputsOf(r).endpoint, caller |-> InputsOf(r).caller,
         payload |-> InputsOf(r).payload,
         proxy |-> ProxyKey(InputsOf(r).proxied, InputsOf(r).proxy),
         rule |-> InputsOf(r).rule, url |-> InputsOf(r).url]
  BY <1>3, <1>7 DEF Service!Question, InputsOf, Rule, ProxyKey
<1> QED
  BY <1>1, <1>2, <1>8, <1>9 DEF Service!Deciding

\* finishRule gives the request one more verdict.
LEMMA ConcludeGives ==
  ASSUME ServiceInv, ServiceInv', NEW r \in Requests, pc[r] \in {"rule", "backend"},
         NEW outcome \in Outcomes, NEW source \in Entries \union {NoEntry},
         NEW known \in [Names -> MaybeValues], NEW body \in Bodies \union {NoValue},
         Conclude(r, outcome, source, known, body)
  PROVE  GivenVerdicts' = [GivenVerdicts EXCEPT ![r] = Append(@, outcome)]
<1> DEFINE record == [inputs |-> InputsOf(r), outcome |-> outcome, source |-> source]
<1>1. record \in Verdicted
  BY RuleType DEF Verdicted, ServiceInv
<1>2. history' = [history EXCEPT ![r] = Append(@, record)]
  BY DEF Conclude
<1>3. record.outcome = outcome
  OBVIOUS
<1> HIDE DEF record
<1> QED
  BY <1>1, <1>2, <1>3, GivenGrows DEF ServiceInv

\* A rule that is decided without a verdict to store is judged.
LEMMA FinishJudges ==
  ASSUME ServiceInv, ServiceInv', NEW r \in Requests, pc[r] \in {"rule", "backend"},
         NEW outcome \in Outcomes, NEW source \in Entries \union {NoEntry},
         NEW body \in Bodies \union {NoValue},
         Conclude(r, outcome, source, exported[r], body),
         UNCHANGED <<bundle, cache, req, pending>>
  PROVE  Service!Judge(r)
<1>1. exported[r] \in [Names -> MaybeValues]
  BY DEF ServiceInv, TypeInv, TypeOK
<1>2. GivenVerdicts' = [GivenVerdicts EXCEPT ![r] = Append(@, outcome)]
  BY <1>1, ConcludeGives
<1>3. Service!Deciding(r)
  BY LoopDecides
<1> QED
  BY <1>2, <1>3, FreshStays, CachedStays DEF Service!Judge, Outcomes

-----------------------------------------------------------------------------
(* Each action of the pipeline.                                            *)

LEMMA BeginAsks ==
  ASSUME ServiceInv, NEW r \in Requests, Begin(r)
  PROVE  Service!Ask(r)
BY GivenStays, FreshStays, CachedStays
   DEF Begin, Service!Ask, Service!Asks, Asks, ServiceInv, HandsInv

LEMMA HitRecalls ==
  ASSUME ServiceInv, ServiceInv', NEW r \in Requests, ServeFromCache(r)
  PROVE  Service!Recall(r)
<1> PICK e \in Found(r) :
      Finish(r, e.outcome, e, Exported(exported[r], Rule(r), e.value), NoValue)
  BY DEF ServeFromCache
<1>1. pc[r] = "rule" /\ Cacheable(r) /\ UNCHANGED <<bundle, cache, req, pending>>
  BY DEF ServeFromCache
<1>2. /\ e \in cache /\ e \in Entries /\ e.key = RuleCacheKey(InputsOf(r))
      /\ SoundEntry(e)
  BY DEF Found, ServiceInv, TypeInv, TypeOK, CacheInv, SoundCache
<1>3. e.outcome \in Outcomes /\ e.value \in MaybeValues
  BY <1>2 DEF Entries, Outcomes
<1>4. Exported(exported[r], Rule(r), e.value) \in [Names -> MaybeValues]
  BY <1>1, <1>3, RuleType, ExportedType DEF ServiceInv, TypeInv, TypeOK
<1>5. GivenVerdicts' = [GivenVerdicts EXCEPT ![r] = Append(@, e.outcome)]
  BY <1>1, <1>2, <1>3, <1>4, ConcludeGives DEF Finish
<1>6. Service!Deciding(r)
  BY <1>1, LoopDecides
<1>7. AsVerdict(e).question = Service!Question(r)
  <2>1. /\ e.inputs.endpoint = InputsOf(r).endpoint
        /\ e.inputs.caller = InputsOf(r).caller
        /\ e.inputs.payload = InputsOf(r).payload
        /\ e.inputs.rule = InputsOf(r).rule
        /\ e.inputs.url = InputsOf(r).url
        /\ ProxyKey(e.inputs.proxied, e.inputs.proxy) =
             ProxyKey(InputsOf(r).proxied, InputsOf(r).proxy)
    BY <1>2 DEF SoundEntry, RuleCacheKey
  <2> QED
    BY <1>1, <2>1, LoopDecides DEF AsVerdict
<1>8. AsVerdict(e).outcome = e.outcome /\ AsVerdict(e) \in CachedVerdicts
  BY <1>2 DEF AsVerdict, CachedVerdicts
<1> QED
  BY <1>1, <1>5, <1>6, <1>7, <1>8, FreshStays, CachedStays
     DEF Service!Recall, Cacheable

LEMMA AnswerJudges ==
  ASSUME ServiceInv, ServiceInv', NEW r \in Requests, BackendAnswers(r)
  PROVE  Service!Judge(r)
<1> PICK ans \in Answers :
      \E outcome \in Verdicts(Rule(r), ans.status \in Rule(r).accepts) :
        Decide(r, ans, outcome)
  BY DEF BackendAnswers
<1> PICK outcome \in Verdicts(Rule(r), ans.status \in Rule(r).accepts) :
      Decide(r, ans, outcome)
  OBVIOUS
<1>1. /\ pc[r] = "backend" /\ outcome \in Outcomes
      /\ ans.body \in Bodies \union {NoValue}
      /\ UNCHANGED <<bundle, cache, req>>
  BY VerdictType DEF BackendAnswers, Answers
<1>2. CASE UNCHANGED pending
  BY <1>1, <1>2, FinishJudges DEF Decide
<1>3. CASE /\ Cacheable(r) /\ EffectiveTTL(Rule(r), outcome, Captured(ans.lines)) > 0
           /\ pending' = [pending EXCEPT ![r] = EntryOf(r, ans, outcome)]
  <2>1. GivenVerdicts' = [GivenVerdicts EXCEPT ![r] = Append(@, outcome)]
    BY <1>1, ConcludeGives DEF Decide, ServiceInv, TypeInv, TypeOK
  <2>2. Service!Deciding(r)
    BY <1>1, LoopDecides
  <2>3. EntryOf(r, ans, outcome) \in Entries
    BY <1>1, <1>3, EntryType DEF ServiceInv
  <2>4. EntryOf(r, ans, outcome) # NoEntry /\ outcome # "error"
    BY <1>1, <1>3, <2>3, RuleType, EffectiveTTLType, SentinelsAreNoData DEF ServiceInv
  <2>5. AsVerdict(EntryOf(r, ans, outcome)) = Service!Given(r, outcome)
    <3>1. /\ EntryOf(r, ans, outcome).inputs = InputsOf(r)
          /\ EntryOf(r, ans, outcome).outcome = outcome
          /\ EntryOf(r, ans, outcome).bundle = req[r].bundle
      BY DEF EntryOf
    <3> QED
      BY <1>1, <3>1, LoopDecides DEF AsVerdict, Service!Given
  <2>6. FreshVerdicts' = [FreshVerdicts EXCEPT ![r] = Service!Given(r, outcome)]
    <3>1. pending'[r] = EntryOf(r, ans, outcome)
      BY <1>3 DEF ServiceInv, TypeInv, TypeOK
    <3>2. FreshVerdicts'[r] = Service!Given(r, outcome)
      BY <2>4, <2>5, <3>1 DEF FreshVerdicts, AsVerdict
    <3>3. \A q \in Requests \ {r} : FreshVerdicts'[q] = FreshVerdicts[q]
      BY <1>3 DEF FreshVerdicts, AsVerdict, ServiceInv, TypeInv, TypeOK
    <3> QED
      BY <3>2, <3>3 DEF FreshVerdicts
  <2>7. req[r].endpoint \notin Anonymous[req[r].bundle]
    BY <1>3 DEF Cacheable
  <2> QED
    BY <1>1, <2>1, <2>2, <2>4, <2>6, <2>7, CachedStays DEF Service!Judge, Outcomes
<1> QED
  BY <1>2, <1>3 DEF Decide

LEMMA StoreRemembers ==
  ASSUME ServiceInv, NEW r \in Requests, Store(r) \/ StoreFails(r)
  PROVE  Service!Remember(r)
<1>1. /\ pc[r] = "store" /\ pending' = [pending EXCEPT ![r] = NoEntry]
      /\ UNCHANGED <<bundle, req, history>>
  BY DEF Store, StoreFails, Stored
<1>2. pending[r] \in Entries
  BY <1>1 DEF ServiceInv, TypeInv, Located
<1>3. FreshVerdicts[r] = AsVerdict(pending[r]) /\ FreshVerdicts[r] # NoEntry
  BY <1>2, AsVerdictType, SentinelsAreNoData DEF FreshVerdicts
<1>4. FreshVerdicts' = [FreshVerdicts EXCEPT ![r] = NoEntry]
  BY <1>1 DEF FreshVerdicts, AsVerdict, ServiceInv, TypeInv, TypeOK
<1>5. CASE StoreFails(r)
  BY <1>1, <1>3, <1>4, <1>5, GivenStays, CachedStays DEF StoreFails, Service!Remember
<1>6. CASE Store(r)
  <2> DEFINE kept == {AsVerdict(e) : e \in {f \in cache : f.key # pending[r].key}}
  <2>1. kept \in SUBSET CachedVerdicts
    BY DEF CachedVerdicts
  <2>2. CachedVerdicts' = kept \union {FreshVerdicts[r]}
    BY <1>3, <1>6 DEF CachedVerdicts, AsVerdict, Store
  <2> HIDE DEF kept
  <2> QED
    BY <1>1, <1>3, <1>4, <2>1, <2>2, GivenStays DEF Service!Remember
<1> QED
  BY <1>5, <1>6

LEMMA RespondAnswers ==
  ASSUME ServiceInv, NEW r \in Requests, Respond(r)
  PROVE  Service!Answer(r)
<1>1. /\ pc[r] = "respond" /\ req' = [req EXCEPT ![r] = NoRequest]
      /\ history' = [history EXCEPT ![r] = <<>>]
      /\ UNCHANGED <<bundle, cache, pending>>
  BY DEF Respond
<1>2. req[r] # NoRequest /\ FreshVerdicts[r] = NoEntry
  BY <1>1, SentinelsAreNoData
     DEF ServiceInv, TypeInv, Located, HandsInv, FreshVerdicts
<1>3. /\ GivenVerdicts[r] \in Seq(Outcomes)
      /\ Len(GivenVerdicts[r]) = Len(history[r])
      /\ \A i \in 1..Len(history[r]) : GivenVerdicts[r][i] = history[r][i].outcome
  BY GivenType DEF ServiceInv
<1>4. Service!Rules(r) = Rules(r)
  BY DEF Service!Rules, Rules
<1>5. Len(history[r]) \in Nat
  BY LenProperties DEF ServiceInv, TypeInv, TypeOK
<1>6. Service!Decided(r)
  <2>1. CASE Len(history[r]) = Len(Rules(r))
    BY <1>3, <1>4, <2>1 DEF Service!Decided
  <2>2. CASE Len(history[r]) > 0 /\ history[r][Len(history[r])].outcome # "pass"
    BY <1>3, <1>5, <2>2, EmptySeq DEF Service!Decided
  <2> QED
    BY <1>1, <2>1, <2>2 DEF ServiceInv, InOrder
<1>7. GivenVerdicts' = [GivenVerdicts EXCEPT ![r] = <<>>]
  <2>1. history'[r] = <<>> /\ \A q \in Requests \ {r} : history'[q] = history[q]
    BY <1>1 DEF ServiceInv, TypeInv, TypeOK
  <2>2. GivenVerdicts'[r] = <<>>
    BY <2>1 DEF GivenVerdicts
  <2>3. \A q \in Requests \ {r} : GivenVerdicts'[q] = GivenVerdicts[q]
    BY <2>1 DEF GivenVerdicts
  <2> QED
    BY <2>2, <2>3 DEF GivenVerdicts
<1> QED
  BY <1>1, <1>2, <1>6, <1>7, FreshStays, CachedStays DEF Service!Answer

LEMMA TickForgets ==
  ASSUME ServiceInv, Tick
  PROVE  Service!Forget
<1>1. \A f \in cache' : \E e \in cache : AsVerdict(f) = AsVerdict(e)
  <2> SUFFICES ASSUME NEW f \in cache' PROVE \E e \in cache : AsVerdict(f) = AsVerdict(e)
    OBVIOUS
  <2> PICK e \in cache : f = [e EXCEPT !.left = IF @ >= 0 THEN @ - 1 ELSE @]
    BY DEF Tick
  <2>1. e \in Entries
    BY DEF ServiceInv, TypeInv, TypeOK
  <2>2. f.inputs = e.inputs /\ f.outcome = e.outcome /\ f.bundle = e.bundle
    BY <2>1 DEF Entries
  <2> QED
    BY <2>2 DEF AsVerdict
<1> QED
  BY <1>1, CachedShrinks, GivenStays, FreshStays DEF Tick, local, Service!Forget

LEMMA RestartCrashes ==
  ASSUME ServiceInv, Restart
  PROVE  Service!Crash
<1>1. GivenVerdicts' = [r \in Requests |-> <<>>]
  BY DEF Restart, GivenVerdicts
<1>2. FreshVerdicts' = [r \in Requests |-> NoEntry]
  BY DEF Restart, FreshVerdicts
<1>3. cache' \subseteq cache
  BY DEF Restart, Purged
<1> QED
  BY <1>1, <1>2, <1>3, CachedPurged DEF Restart, Service!Crash

-----------------------------------------------------------------------------
LEMMA InitImplements == Init => Service!Init
<1> SUFFICES ASSUME Init PROVE Service!Init
  OBVIOUS
<1>1. GivenVerdicts = [r \in Requests |-> <<>>]
  BY DEF Init, GivenVerdicts
<1>2. FreshVerdicts = [r \in Requests |-> NoEntry] /\ CachedVerdicts = {}
  BY DEF Init, FreshVerdicts, CachedVerdicts
<1> QED
  BY <1>1, <1>2 DEF Init, Service!Init

LEMMA StepImplements == ServiceInv /\ [Next]_vars => [Service!Next]_(Service!vars)
<1> SUFFICES ASSUME ServiceInv, [Next]_vars PROVE [Service!Next]_(Service!vars)
  OBVIOUS
<1> USE DEF Service!Next
<1>0. ServiceInv'
  BY ServiceInvStep
<1>1. ASSUME NEW r \in Requests, Begin(r) PROVE Service!Next
  BY <1>1, BeginAsks
<1>2. ASSUME NEW r \in Requests, RuleRejects(r) PROVE Service!Next
  BY <1>0, <1>2, FinishJudges DEF RuleRejects, Finish, Outcomes
<1>3. ASSUME NEW r \in Requests, EvaluateLocally(r) PROVE Service!Next
  BY <1>0, <1>3, FinishJudges, VerdictType DEF EvaluateLocally, Finish
<1>4. ASSUME NEW r \in Requests, ServeFromCache(r) PROVE Service!Next
  BY <1>0, <1>4, HitRecalls
<1>5. ASSUME NEW r \in Requests, MissCache(r) PROVE Service!Next
  <2>1. cache' \subseteq cache /\ UNCHANGED <<bundle, req, history, pending>>
    BY <1>5 DEF MissCache
  <2> QED
    BY <2>1, CachedPurged, GivenStays, FreshStays DEF Service!Forget
<1>6. ASSUME NEW r \in Requests, BackendFails(r) PROVE Service!Next
  BY <1>0, <1>6, FinishJudges DEF BackendFails, Finish, Outcomes
<1>7. ASSUME NEW r \in Requests, BackendAnswers(r) PROVE Service!Next
  BY <1>0, <1>7, AnswerJudges
<1>8. ASSUME NEW r \in Requests, Store(r) \/ StoreFails(r) PROVE Service!Next
  BY <1>8, StoreRemembers
<1>9. ASSUME NEW r \in Requests, Respond(r) PROVE Service!Next
  BY <1>9, RespondAnswers
<1>10. ASSUME NEW b \in Bundles, SwapBundle(b) PROVE Service!Next
  BY <1>10, GivenStays, FreshStays, CachedStays DEF SwapBundle, local, Service!Install
<1>11. ASSUME Reload PROVE Service!Next
  <2>1. cache' \subseteq cache /\ UNCHANGED <<bundle, req, history, pending>>
    BY <1>11 DEF Reload, PurgePrefix, InvalidateOnReload, Purged, local
  <2> QED
    BY <2>1, CachedPurged, GivenStays, FreshStays DEF Service!Forget
<1>12. ASSUME Tick PROVE Service!Next
  BY <1>12, TickForgets
<1>13. ASSUME Restart PROVE Service!Next
  BY <1>13, RestartCrashes
<1>14. CASE UNCHANGED vars
  BY <1>14, GivenStays, FreshStays, CachedStays DEF vars, local, Service!vars
<1> QED
  BY <1>1, <1>2, <1>3, <1>4, <1>5, <1>6, <1>7, <1>8, <1>9, <1>10, <1>11, <1>12,
     <1>13, <1>14 DEF Next, Request

\* ImplementsService in every behaviour: the pipeline implements the decision
\* service, whose question has what buildBackendHash identifies a backend request
\* by and none of the headers it excludes, for any chains, bundles, callers,
\* headers, lifetimes and either cache backend.
THEOREM PipelineImplementsService == Spec => ImplementsService
<1>1. Init => Service!Init /\ ServiceInv
  BY InitImplements, TypeInit, InOrderInit, CacheInit, HandsInit DEF ServiceInv
<1>2. ServiceInv /\ [Next]_vars => ServiceInv' /\ [Service!Next]_(Service!vars)
  BY ServiceInvStep, StepImplements
<1> QED
  BY <1>1, <1>2, PTL DEF Spec, ImplementsService, Service!Spec
=============================================================================
