--------------------------- MODULE DecisionService ---------------------------
(***************************************************************************)
(* What the pipeline promises the requests it decides, without keys,       *)
(* lifetimes, exported variables or the steps of a reload.                 *)
(*                                                                         *)
(* A request walks the chain that its endpoint had when it began.  Each    *)
(* rule of the chain is judged for it, or its verdict is recalled: one     *)
(* that some request was given for the same question, that is no error and *)
(* that was not given anonymously.  What is remembered may be forgotten at *)
(* any time.                                                               *)
(*                                                                         *)
(* A question is who asks what of which rule: the caller and endpoint, the *)
(* rule and its backend URL, the payload, and the proxy headers as far as  *)
(* the rule includes them.  What else a request brings along, its query    *)
(* and its tracing, timing and correlation headers, is no part of it.      *)
(* PipelineCache is shown to implement this.                               *)
(***************************************************************************)
EXTENDS Naturals, Sequences

CONSTANTS
  Requests, Bundles, Endpoints, Callers, Payloads, Proxies, Traces, Queries,
  Names, URLs,
  NoProxies,  \* no proxy header that the rule includes
  Chain,      \* Chain[b][e]: the rules of endpoint e in bundle b
  Anonymous,  \* Anonymous[b]: endpoints of b whose verdicts are not remembered
  NoRequest, NoVerdict

VARIABLES
  current,    \* the bundle that new requests are decided by
  asked,      \* what each request asks, and the bundle it began with
  verdicts,   \* the verdicts given to each request so far, in the chain's order
  fresh,      \* the verdict a request was given and is about to remember
  remembered  \* the verdicts that may be recalled

vars == <<current, asked, verdicts, fresh, remembered>>

Asks ==
  [endpoint : Endpoints, caller : Callers, payload : Payloads, proxy : Proxies,
   trace : Traces, query : Queries, bundle : Bundles]

Questions ==
  [endpoint : Endpoints, caller : Callers, payload : Payloads, proxy : Proxies,
   rule : Names, url : URLs]

Verdicts == [question : Questions, outcome : {"pass", "fail"}, bundle : Bundles]

Rules(r) == Chain[asked[r].bundle][asked[r].endpoint]

\* A request is decided by the first verdict that is no pass, else by the last.
Decided(r) ==
  \/ Len(verdicts[r]) = Len(Rules(r))
  \/ verdicts[r] # <<>> /\ verdicts[r][Len(verdicts[r])] # "pass"

\* What the next rule of the chain is asked.
Question(r) ==
  LET rule == Rules(r)[Len(verdicts[r]) + 1]
  IN  [endpoint |-> asked[r].endpoint, caller |-> asked[r].caller,
       payload |-> asked[r].payload,
       proxy |-> IF rule.proxied THEN asked[r].proxy ELSE NoProxies,
       rule |-> rule.name, url |-> rule.url]

Given(r, outcome) ==
  [question |-> Question(r), outcome |-> outcome, bundle |-> asked[r].bundle]

Deciding(r) == asked[r] # NoRequest /\ fresh[r] = NoVerdict /\ ~Decided(r)

-----------------------------------------------------------------------------
Init ==
  /\ current \in Bundles
  /\ asked = [r \in Requests |-> NoRequest]
  /\ verdicts = [r \in Requests |-> <<>>]
  /\ fresh = [r \in Requests |-> NoVerdict]
  /\ remembered = {}

Ask(r) ==
  /\ asked[r] = NoRequest
  /\ \E a \in Asks :
       /\ a.bundle = current
       /\ a.endpoint \in DOMAIN Chain[current]
       /\ asked' = [asked EXCEPT ![r] = a]
  /\ UNCHANGED <<current, verdicts, fresh, remembered>>

\* The next rule is judged live.
Judge(r) ==
  /\ Deciding(r)
  /\ \E outcome \in {"pass", "fail", "error"} :
       /\ verdicts' = [verdicts EXCEPT ![r] = Append(@, outcome)]
       /\ \/ UNCHANGED fresh
          \/ /\ outcome # "error"
             /\ asked[r].endpoint \notin Anonymous[asked[r].bundle]
             /\ fresh' = [fresh EXCEPT ![r] = Given(r, outcome)]
  /\ UNCHANGED <<current, asked, remembered>>

\* The next rule's verdict is one remembered for the same question.
Recall(r) ==
  /\ Deciding(r)
  /\ asked[r].endpoint \notin Anonymous[asked[r].bundle]
  /\ \E v \in remembered :
       /\ v.question = Question(r)
       /\ verdicts' = [verdicts EXCEPT ![r] = Append(@, v.outcome)]
  /\ UNCHANGED <<current, asked, fresh, remembered>>

\* What was given is remembered, perhaps in the place of something else, or not.
Remember(r) ==
  /\ fresh[r] # NoVerdict
  /\ fresh' = [fresh EXCEPT ![r] = NoVerdict]
  /\ \/ UNCHANGED remembered
     \/ \E kept \in SUBSET remembered : remembered' = kept \union {fresh[r]}
  /\ UNCHANGED <<current, asked, verdicts>>

Answer(r) ==
  /\ asked[r] # NoRequest /\ fresh[r] = NoVerdict /\ Decided(r)
  /\ asked' = [asked EXCEPT ![r] = NoRequest]
  /\ verdicts' = [verdicts EXCEPT ![r] = <<>>]
  /\ UNCHANGED <<current, fresh, remembered>>

Forget ==
  /\ remembered' \in SUBSET remembered
  /\ UNCHANGED <<current, asked, verdicts, fresh>>

\* A new bundle decides the requests that have not begun.
Install ==
  /\ current' \in Bundles
  /\ UNCHANGED <<asked, verdicts, fresh, remembered>>

\* A crash loses the requests that are running.
Crash ==
  /\ current' \in Bundles
  /\ asked' = [r \in Requests |-> NoRequest]
  /\ verdicts' = [r \in Requests |-> <<>>]
  /\ fresh' = [r \in Requests |-> NoVerdict]
  /\ remembered' \in SUBSET remembered

Next ==
  \/ \E r \in Requests : Ask(r) \/ Judge(r) \/ Recall(r) \/ Remember(r) \/ Answer(r)
  \/ Forget \/ Install \/ Crash

Spec == Init /\ [][Next]_vars
=============================================================================
