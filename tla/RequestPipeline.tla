--------------------------- MODULE RequestPipeline ---------------------------
(***************************************************************************)
(* One auth request on its way through the agents of its endpoint: server, *)
(* admission, forward_request_policy, rule_chain, rule_execution with the  *)
(* backend's pages, response_policy (Pipeline.ServeAuth,                   *)
(* internal/runtime/runtime.go, and the agents' packages).                 *)
(*                                                                         *)
(* The state is that request's pipeline.State: agents of other requests    *)
(* share nothing with it but the decision cache, which PipelineCache       *)
(* models.  Here a verdict found there is one that some request of the     *)
(* same endpoint left under the same key.                                  *)
(*                                                                         *)
(* sent, and what a history entry has besides its outcome, are history     *)
(* variables.                                                              *)
(***************************************************************************)
EXTENDS RuleAuth, VerdictLadder

CONSTANTS
  Cases,     \* the endpoints and the requests they are asked: records [ep, in]
  Pages,     \* what a backend URL names apart from its query
  Links,     \* the URLs a backend's Link header may name as the next page
  Statuses   \* the backend statuses the rules tell apart

ReplyStatuses == 0..599

URLs == [page : Pages, query : [QueryNames -> Secrets \union {Absent}]]

\* A rule: its directives, its backend, whether the proxy headers it sends are
\* part of its cache key, and which condition lists it has.
RuleDefs ==
  [auth : Seq(Groups), url : URLs \union {NoURL}, accepts : SUBSET Statuses,
   paging : BOOLEAN, maxPages : Nat \ {0}, proxyHeaders : BOOLEAN,
   includeProxyHeaders : BOOLEAN, conds : SUBSET {"error", "fail", "pass"}]

\* An endpoint's proxyHeaders is its forward policy, and reply the statuses that
\* admission.response and responsePolicy configure, 0 for none.
ASSUME CasesTyped ==
  /\ Links \subseteq URLs
  /\ NoURL \notin URLs
  /\ \A c \in Cases :
       /\ c.ep.required \in BOOLEAN /\ c.ep.none \in BOOLEAN
       /\ c.ep.schemes \subseteq Schemes
       /\ c.ep.headers \in Seq(HeaderNames) /\ c.ep.queries \in Seq(QueryNames)
       /\ c.ep.trusted \subseteq Addrs /\ c.ep.development \in BOOLEAN
       /\ c.ep.proxyHeaders \in BOOLEAN
       /\ c.ep.rules \in Seq(RuleDefs)
       /\ c.ep.reply \in [Outcomes \union {"challenge"} -> ReplyStatuses]
       /\ c.in \in Asks

VARIABLES
  pc,         \* the agent whose turn it is
  ep, in,     \* the endpoint and the request
  admission,  \* state.Admission
  forward,    \* state.Forward.Headers
  outcome,    \* state.Rule.Outcome, "" when there is none
  backend,    \* state.Backend
  fetch,      \* the pagination loop: the next URL and the pages so far
  history,    \* state.Rule.History
  response,   \* state.Response
  sent        \* history: the backend requests made for this request

vars == <<pc, ep, in, admission, forward, outcome, backend, fetch, history, response, sent>>

request == <<ep, in>>

-----------------------------------------------------------------------------
NotAdmitted ==
  [client |-> Absent, stripped |-> FALSE, authenticated |-> FALSE, credentials |-> {}]

EmptyBackend == [requested |-> FALSE, pages |-> <<>>, accepted |-> FALSE]

NoFetch == [link |-> NoURL, pages |-> <<>>]

Init ==
  /\ pc = "admission"
  /\ \E c \in Cases : ep = c.ep /\ in = c.in
  /\ admission = NotAdmitted
  /\ forward = NoProxyHeaders
  /\ outcome = ""
  /\ backend = EmptyBackend
  /\ fetch = NoFetch
  /\ history = <<>>
  /\ response = [status |-> 0, outcome |-> ""]
  /\ sent = <<>>

-----------------------------------------------------------------------------
(* admission                                                               *)

AdmissionOf(authenticated, credentials) ==
  [client |-> Client(ep, in), stripped |-> ProxyStripped(ep, in),
   authenticated |-> authenticated, credentials |-> credentials]

\* The proxies are not to be trusted: finish(state, "fail"), no response is
\* rendered, and ServeAuth leaves the loop over the agents.
RejectProxy ==
  /\ pc = "admission"
  /\ ProxyRejected(ep, in)
  /\ admission' = AdmissionOf(FALSE, {})
  /\ pc' = "reply"
  /\ UNCHANGED <<request, forward, outcome, backend, fetch, history, response, sent>>

\* renderAdmissionFailure, and out of the loop over the agents.
Challenge ==
  /\ pc = "admission"
  /\ ~ProxyRejected(ep, in)
  /\ ep.required /\ Collected(ep, in) = {}
  /\ admission' = AdmissionOf(FALSE, {})
  /\ response' = [status |-> IF ep.reply["challenge"] > 0 THEN ep.reply["challenge"] ELSE 401,
                  outcome |-> ""]
  /\ pc' = "reply"
  /\ UNCHANGED <<request, forward, outcome, backend, fetch, history, sent>>

\* Optional credentials admit a request that has none.
Admit ==
  /\ pc = "admission"
  /\ ~ProxyRejected(ep, in)
  /\ Collected(ep, in) # {} \/ ~ep.required
  /\ admission' = AdmissionOf(TRUE, Collected(ep, in))
  /\ pc' = "forward"
  /\ UNCHANGED <<request, forward, outcome, backend, fetch, history, response, sent>>

-----------------------------------------------------------------------------
(* forward_request_policy and rule_chain                                   *)

CurateHeaders ==
  /\ pc = "forward"
  /\ forward' = IF ep.proxyHeaders THEN ProxyHeaders(ep, in) ELSE NoProxyHeaders
  /\ pc' = "chain"
  /\ UNCHANGED <<request, admission, outcome, backend, fetch, history, response, sent>>

\* Without rules rule_execution passes the request.
PlanRules ==
  /\ pc = "chain"
  /\ outcome' = IF ~admission.authenticated THEN "fail"
                ELSE IF ep.rules = <<>> THEN "pass" ELSE ""
  /\ pc' = IF admission.authenticated /\ ep.rules # <<>> THEN "rule" ELSE "response"
  /\ UNCHANGED <<request, admission, forward, backend, fetch, history, response, sent>>

-----------------------------------------------------------------------------
(* rule_execution                                                          *)

Rule == ep.rules[Len(history) + 1]

Directed == ~AuthFails(Rule.auth, admission.credentials)

Given == Forwards(Rule.auth, admission.credentials)

\* Mutant: the state of the rule before is kept.
KeepBackend(b) == b

\* evaluateRule begins with it, whatever becomes of the rule.
ResetBackend(b) == EmptyBackend

\* Mutant: a rule's fail does not end the chain.
FailsGoOn(o, n) ==
  IF o \in {"pass", "fail"} /\ n < Len(ep.rules) THEN "rule" ELSE "response"

\* The loop of Execute after its n-th rule.
Continue(o, n) == IF o = "pass" /\ n < Len(ep.rules) THEN "rule" ELSE "response"

\* by: what the outcome comes from; asker: the request it was reached for.
Conclude(o, by, asker, b) ==
  /\ history' = Append(history, [outcome |-> o, by |-> by, asker |-> asker, backend |-> b])
  /\ outcome' = o
  /\ backend' = b
  /\ fetch' = NoFetch
  /\ pc' = Continue(o, Len(history) + 1)

\* prepareRuleAuth finds no group that holds.
NoGroupMatches ==
  /\ pc = "rule"
  /\ ~Directed
  /\ Conclude("fail", "auth", in, ResetBackend(backend))
  /\ UNCHANGED <<request, admission, forward, response, sent>>

\* A forward or the body does not render, or a credential cannot be sent.
RenderFails ==
  /\ pc = "rule"
  /\ Directed
  /\ \/ HasBackend(Rule)
     \/ Rule.auth # <<>> /\ ExplicitForwards(Rule.auth, admission.credentials)
  /\ Conclude("error", "auth", in, ResetBackend(backend))
  /\ UNCHANGED <<request, admission, forward, response, sent>>

Renders == Directed /\ HasBackend(Rule) /\ ~Unsendable(Given)

DecideLocally ==
  /\ pc = "rule"
  /\ Directed /\ ~HasBackend(Rule)
  /\ \E o \in Verdicts(Rule, TRUE) :
       Conclude(o, "local", in, [ResetBackend(backend) EXCEPT !.accepted = TRUE])
  /\ UNCHANGED <<request, admission, forward, response, sent>>

\* What the backend request has of the credentials besides its query parameters.
HeadersFor(credentials) ==
  {c \in Applied(Forwards(Rule.auth, credentials)) : c.kind # "query"}

\* Mutant: proxy headers are in nobody's key.
KeysNoProxies(asked) == NoProxyHeaders

\* The proxy headers in the backend request that the key is made of.
ProxiesFor(asked) ==
  IF ep.proxyHeaders /\ Rule.proxyHeaders /\ Rule.includeProxyHeaders
    THEN ProxyHeaders(ep, asked) ELSE NoProxyHeaders

\* Requests whose verdict on this rule has the key this request looks up: the
\* caller of deriveCacheKey and the headers of buildBackendHash are the same.
Askers ==
  {c.in : c \in
     {d \in Cases :
        /\ d.ep = ep /\ ~ProxyRejected(ep, d.in)
        /\ CallerKey(ep, d.in) # NoKey /\ CallerKey(ep, d.in) = CallerKey(ep, in)
        /\ ~AuthFails(Rule.auth, Collected(ep, d.in))
        /\ HeadersFor(Collected(ep, d.in)) = HeadersFor(admission.credentials)
        /\ ProxiesFor(d.in) = ProxiesFor(in)}}

\* checkRuleCache hits: errors are never stored, and the backend state stays reset.
ReuseVerdict ==
  /\ pc = "rule"
  /\ Renders
  /\ \E o \in {"pass", "fail"}, asker \in Askers :
       Conclude(o, "cache", asker, ResetBackend(backend))
  /\ UNCHANGED <<request, admission, forward, response, sent>>

CallBackend ==
  /\ pc = "rule"
  /\ Renders
  /\ backend' = ResetBackend(backend)
  /\ fetch' = [link |-> Rule.url, pages |-> <<>>]
  /\ pc' = "backend"
  /\ UNCHANGED <<request, admission, forward, outcome, history, response, sent>>

-----------------------------------------------------------------------------
(* backendInteractionAgent.Execute                                         *)

\* The condition of the loop and its first two breaks.
More ==
  /\ fetch.link # NoURL
  /\ Len(fetch.pages) < Rule.maxPages
  /\ \A i \in DOMAIN fetch.pages : fetch.pages[i].link # fetch.link

FirstPage == fetch.pages = <<>>

QueryOf(credentials, n) ==
  LET c == {d \in credentials : d.kind = "query" /\ d.name = n}
  IN  IF c = {} THEN Absent ELSE (CHOOSE d \in c : TRUE).value

\* Query parameters join every page's URL, unless it has them.
Completed(url, credentials) ==
  [url EXCEPT !.query =
     [n \in QueryNames |->
        IF url.query[n] = Absent THEN QueryOf(credentials, n) ELSE url.query[n]]]

\* Headers are sent with the first page only.
Call ==
  [rule |-> Len(history) + 1,
   url |-> Completed(fetch.link, Applied(Given)),
   credentials |-> {c \in Applied(Given) : c.kind = "query" \/ FirstPage},
   proxy |-> IF FirstPage /\ Rule.proxyHeaders THEN forward ELSE NoProxyHeaders]

\* The Link header is looked at only if the rule says so.
NextLinks == {NoURL} \union (IF Rule.paging THEN Links ELSE {})

\* A page arrives. link is what the loop knows it by, next the Link it has.
FetchPage ==
  /\ pc = "backend"
  /\ More
  /\ \E status \in Statuses, next \in NextLinks :
       LET page == [link |-> fetch.link, url |-> Call.url, status |-> status,
                    accepted |-> status \in Rule.accepts, next |-> next]
       IN  /\ fetch' = [link |-> next, pages |-> Append(fetch.pages, page)]
           /\ backend' = [backend EXCEPT !.accepted = @ \/ page.accepted]
  /\ sent' = Append(sent, Call)
  /\ UNCHANGED <<pc, request, admission, forward, outcome, history, response>>

\* Mutant: a page that cannot be fetched is tried again.
FetchRetries ==
  /\ pc = "backend"
  /\ More
  /\ sent' = Append(sent, Call)
  /\ UNCHANGED <<pc, request, admission, forward, outcome, backend, fetch, history, response>>

\* The URL does not parse, the call fails, or its answer cannot be read: the pages
\* so far are lost.
FetchFails ==
  /\ pc = "backend"
  /\ More
  /\ sent' \in {sent, Append(sent, Call)}
  /\ Conclude("error", "failed", in, backend)
  /\ UNCHANGED <<request, admission, forward, response>>

\* The state is what the last page left, and the conditions are evaluated on it.
Decide ==
  /\ pc = "backend"
  /\ ~More
  /\ LET answer == [requested |-> TRUE, pages |-> fetch.pages,
                    accepted |-> fetch.pages[Len(fetch.pages)].accepted]
     IN  \E o \in Verdicts(Rule, answer.accepted) : Conclude(o, "backend", in, answer)
  /\ UNCHANGED <<request, admission, forward, response, sent>>

-----------------------------------------------------------------------------
(* response_policy and the end of ServeAuth                                *)

DefaultStatus == [o \in Outcomes |->
  IF o = "pass" THEN 200 ELSE IF o = "fail" THEN 403 ELSE 502]

\* The status of an outcome, unless the endpoint has one of its own.
StatusFor(o) ==
  IF o = "" THEN 500 ELSE IF ep.reply[o] > 0 THEN ep.reply[o] ELSE DefaultStatus[o]

RenderResponse ==
  /\ pc = "response"
  /\ response' = IF response.status > 0 THEN response
                 ELSE [status |-> StatusFor(outcome), outcome |-> outcome]
  /\ pc' = "reply"
  /\ UNCHANGED <<request, admission, forward, outcome, backend, fetch, history, sent>>

\* A response nobody rendered becomes a server error.
Reply ==
  /\ pc = "reply"
  /\ response' = IF response.status = 0 THEN [response EXCEPT !.status = 500] ELSE response
  /\ pc' = "done"
  /\ UNCHANGED <<request, admission, forward, outcome, backend, fetch, history, sent>>

Done == pc = "done" /\ UNCHANGED vars

Next ==
  \/ RejectProxy \/ Challenge \/ Admit
  \/ CurateHeaders \/ PlanRules
  \/ NoGroupMatches \/ RenderFails \/ DecideLocally \/ ReuseVerdict \/ CallBackend
  \/ FetchPage \/ FetchFails \/ Decide
  \/ RenderResponse \/ Reply
  \/ Done

Spec == Init /\ [][Next]_vars

-----------------------------------------------------------------------------
Admissions ==
  [client : Addrs \union {Malformed, Absent}, stripped : BOOLEAN,
   authenticated : BOOLEAN, credentials : SUBSET CredentialsOf]

ForwardHeaders ==
  [forwarded : Chains \union {Absent, Malformed},
   forwardedFor : Chains \union {Absent, Malformed}, proto : BOOLEAN]

Fetched ==
  [link : URLs, url : URLs, status : Statuses, accepted : BOOLEAN,
   next : Links \union {NoURL}]

Backends == [requested : BOOLEAN, pages : Seq(Fetched), accepted : BOOLEAN]

Verdicted ==
  [outcome : Outcomes, by : {"auth", "local", "cache", "failed", "backend"},
   asker : Asks, backend : Backends]

Calls ==
  [rule : Nat \ {0}, url : URLs, credentials : SUBSET CredentialsOf,
   proxy : ForwardHeaders]

TypeOK ==
  /\ pc \in {"admission", "forward", "chain", "rule", "backend", "response", "reply", "done"}
  /\ admission \in Admissions
  /\ forward \in ForwardHeaders
  /\ outcome \in Outcomes \union {""}
  /\ backend \in Backends
  /\ fetch \in [link : URLs \union {NoURL}, pages : Seq(Fetched)]
  /\ history \in Seq(Verdicted)
  /\ response \in [status : ReplyStatuses, outcome : Outcomes \union {""}]
  /\ sent \in Seq(Calls)

\* The chain names the client, and the peer and every proxy in it are trusted.
Trustworthy(chain) ==
  /\ chain[1] = admission.client
  /\ {in.peer} \union {chain[i] : i \in 2..Len(chain)} \subseteq ep.trusted

Told(headers) == {headers.forwarded, headers.forwardedFor} \ {Absent}

\* A client other than the peer, and a chain of proxies that a backend is told
\* of, were vouched for by proxies the endpoint trusts, in every header that tells
\* them, even if bad headers are only stripped.  (Execute of admission,
\* forwardpolicy and renderBackendRequest)
ClientIsVouchedFor ==
  /\ admission.client \notin {Absent, in.peer} =>
       \A chain \in Told(in) : chain # Malformed /\ Trustworthy(chain)
  /\ \A k \in DOMAIN sent : \A chain \in Told(sent[k].proxy) :
       chain # Malformed /\ Trustworthy(chain)

\* A call the backend gets is made for an admitted request that every earlier
\* rule passed, and carries nothing but credentials of a group all of whose
\* matchers hold: those matched, or those the rule has in their place.
\* (prepareRuleAuth, applyAuthForwards, Execute of rule_execution)
CallIsWarranted(call) ==
  /\ admission.authenticated
  /\ \A i \in 1..(call.rule - 1) : history[i].outcome = "pass"
  /\ LET auth == ep.rules[call.rule].auth
     IN  \/ auth = <<>> /\ call.credentials = {}
         \/ \E g \in DOMAIN auth :
              /\ \A i \in DOMAIN auth[g].matchers :
                   \/ auth[g].matchers[i].kind = "none"
                   \/ \E c \in admission.credentials : Matches(auth[g].matchers[i], c)
              /\ \A c \in call.credentials :
                   IF auth[g].forwards = <<>>
                     THEN /\ c \in admission.credentials
                          /\ \E i \in DOMAIN auth[g].matchers : Matches(auth[g].matchers[i], c)
                     ELSE c \in Elements(auth[g].forwards)

CallsAreWarranted == \A k \in DOMAIN sent : CallIsWarranted(sent[k])

\* The pages of one walk: each is the one the page before links to, none is
\* visited twice, there are at most as many as the rule allows, and the walk
\* ends no sooner than that.
IsWalk(pages, def) ==
  /\ pages # <<>> /\ pages[1].link = def.url
  /\ Len(pages) <= IF def.paging THEN def.maxPages ELSE 1
  /\ \A i \in 1..(Len(pages) - 1) : pages[i + 1].link = pages[i].next
  /\ \A i, j \in DOMAIN pages : pages[i].link = pages[j].link => i = j
  /\ def.paging /\ Len(pages) < def.maxPages =>
       LET next == pages[Len(pages)].next
       IN  next = NoURL \/ \E i \in DOMAIN pages : pages[i].link = next

\* Each rule is decided on its own backend's pages, all of them, and on no page
\* of an earlier rule or of a walk that failed.  (backendInteractionAgent.Execute,
\* resetBackendState)
RulesReadTheirOwnPages ==
  \A i \in DOMAIN history :
    LET b == history[i].backend IN
    IF history[i].by = "backend"
      THEN /\ IsWalk(b.pages, ep.rules[i])
           /\ b.accepted <=> b.pages[Len(b.pages)].status \in ep.rules[i].accepts
      ELSE b.pages = <<>> /\ ~b.requested

\* A response says pass only if the request was admitted and every rule of the
\* endpoint passed, with a backend's answer accepted where no condition decides;
\* a request that is not admitted gets no outcome and reaches no backend.
\* (ServeAuth, rulechain, responsepolicy)
PassIsEarned ==
  /\ response.outcome = "pass" =>
       /\ admission.authenticated
       /\ Len(history) = Len(ep.rules)
       /\ \A i \in DOMAIN history :
            /\ history[i].outcome = "pass"
            /\ history[i].by = "backend" /\ "pass" \notin ep.rules[i].conds =>
                 history[i].backend.accepted
  /\ pc \notin {"admission", "forward"} /\ ~admission.authenticated =>
       response.outcome = "" /\ history = <<>> /\ sent = <<>>

\* The request has a value in one of the places at most that the endpoint allows.
OneSource(asked) ==
  LET headers == {n \in Elements(ep.headers) : asked.headers[n] # Absent}
      queries == {n \in Elements(ep.queries) : asked.queries[n] # Absent}
  IN  /\ AuthorizationCounts(ep, asked) => headers = {} /\ queries = {}
      /\ headers = {} \/ queries = {}
      /\ \A m, n \in headers : m = n
      /\ \A m, n \in queries : m = n

\* A verdict found in the cache was left by a request with the same credentials,
\* when both present one source of those the endpoint allows.
\* (extractCredential, collectCredentials)
VerdictsStayWithTheirCaller ==
  \A i \in DOMAIN history :
    OneSource(in) /\ OneSource(history[i].asker) =>
      Collected(ep, history[i].asker) = admission.credentials

\* A backend that is told of the client, by a rule that has not opted out of it in
\* its cache key, decided on the client it is asked about: the verdict of another
\* client behind the same proxies is not this one's.
\* (buildBackendHash, renderBackendRequest, forwardpolicy)
VerdictsStayWithTheirClient ==
  \A i \in DOMAIN history :
    /\ ep.proxyHeaders /\ ep.rules[i].proxyHeaders /\ ep.rules[i].includeProxyHeaders
    /\ ViaProxy(in) /\ ~ProxyStripped(ep, in)
    => Client(ep, history[i].asker) = admission.client

\* What is left of a request: agents, rules of the chain, and steps of the rule
\* at hand, of which a page is one and looking for a cached verdict another.
AgentsLeft ==
  CASE pc = "admission" -> 6 [] pc = "forward" -> 5 [] pc = "chain" -> 4
    [] pc \in {"rule", "backend"} -> 3
    [] pc = "response" -> 2 [] pc = "reply" -> 1 [] pc = "done" -> 0

RulesLeft == Len(ep.rules) - Len(history)

PagesLeft ==
  CASE pc = "rule" -> Rule.maxPages + 1
    [] pc = "backend" -> Rule.maxPages - Len(fetch.pages)
    [] OTHER -> 0

WorkLeft == <<AgentsLeft, RulesLeft, PagesLeft>>

\* The lexicographic order, which is well founded on natural numbers.
IsLess(u, v) ==
  \/ u[1] < v[1]
  \/ u[1] = v[1] /\ u[2] < v[2]
  \/ u[1] = v[1] /\ u[2] = v[2] /\ u[3] < v[3]

RunsOut == WorkLeft' \in Nat \X Nat \X Nat /\ IsLess(WorkLeft', WorkLeft)

\* Whatever a backend links to, and however its pages fail, a request ends: each
\* step leaves less of it to be done, and what is left never goes below nothing.
\* (ServeAuth, Execute of rule_execution and of backendInteractionAgent)
RequestsRunOut == [][RunsOut]_vars
=============================================================================
