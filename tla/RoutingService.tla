--------------------------- MODULE RoutingService ----------------------------
(***************************************************************************)
(* What requests and probes may rely on while endpoints are reconfigured:  *)
(* the service shows one view at a time, complete and all at once, or none *)
(* while the next one is prepared; whoever asks then waits.  EndpointTable *)
(* implements it (internal/runtime/runtime.go).                            *)
(***************************************************************************)
CONSTANTS
  Bundles,
  Builds,    \* the endpoints that can be built of each bundle
  Skips,     \* the bundles the loader quarantined definitions of
  Names,
  Key,       \* what identifies an endpoint: names of one key are one endpoint
  Fallback,  \* what is served when nothing can be built
  Readers,
  Unnamed,
  None

VARIABLES
  view,    \* the bundle that is shown and the endpoints it has, or None
  phase,   \* of each reader: "idle", "request", "exists", "health", "names", "done"
  ask, answer, report

vars == <<view, phase, ask, answer, report>>

Serves(b) == IF Builds[b] = {} THEN {Fallback} ELSE Builds[b]

\* The endpoint that names, one of each key, has for n.
For(names, n) == {m \in names : Key[m] = Key[n]}

\* One endpoint of every key the bundle serves; which one of several is free.
Complete(names, b) ==
  /\ names \subseteq Serves(b)
  /\ \A n \in Serves(b) : \E m \in names : For(names, n) = {m}

Views == {v \in [bundle : Bundles, names : SUBSET Names] : Complete(v.names, v.bundle)}

\* Nobody who names no endpoint is routed unless there is no choice.
Routed(n) ==
  IF n = Unnamed
    THEN IF \E m \in Names : view.names = {m} THEN view.names ELSE {"400"}
    ELSE IF For(view.names, n) = {} THEN {"404"} ELSE For(view.names, n)

Health(b) ==
  [bundle |-> b, fallback |-> Builds[b] = {}, names |-> {},
   status |-> IF Builds[b] = {} \/ b \in Skips THEN "degraded" ELSE "ok"]

-----------------------------------------------------------------------------
Init ==
  /\ view = None
  /\ phase = [r \in Readers |-> "idle"]
  /\ ask = [r \in Readers |-> Unnamed]
  /\ answer = [r \in Readers |-> None]
  /\ report = [r \in Readers |-> None]

Withdraw ==
  /\ view # None
  /\ view' = None
  /\ UNCHANGED <<phase, ask, answer, report>>

Install ==
  /\ view = None
  /\ view' \in Views
  /\ UNCHANGED <<phase, ask, answer, report>>

\* A request, a probe of an endpoint, or one of the whole service.
Arrive(r) ==
  /\ phase[r] \in {"idle", "done"}
  /\ \E n \in Names \union {Unnamed} :
       /\ ask' = [ask EXCEPT ![r] = n]
       /\ \E p \in {"request", IF n = Unnamed THEN "health" ELSE "exists"} :
            phase' = [phase EXCEPT ![r] = p]
  /\ answer' = [answer EXCEPT ![r] = None]
  /\ report' = [report EXCEPT ![r] = None]
  /\ UNCHANGED view

Answer(r, a) ==
  /\ answer' = [answer EXCEPT ![r] = a]
  /\ phase' = [phase EXCEPT ![r] = "done"]
  /\ UNCHANGED <<view, ask, report>>

Route(r) ==
  /\ phase[r] = "request" /\ view # None
  /\ \E a \in Routed(ask[r]) : Answer(r, a)

Admit(r) ==
  /\ phase[r] = "exists" /\ view # None
  /\ \/ Routed(ask[r]) = {"404"} /\ Answer(r, "404")
     \/ /\ Routed(ask[r]) # {"404"}
        /\ phase' = [phase EXCEPT ![r] = "health"]
        /\ UNCHANGED <<view, ask, answer, report>>

Report(r) ==
  /\ phase[r] = "health" /\ view # None
  /\ report' = [report EXCEPT ![r] = Health(view.bundle)]
  /\ phase' = [phase EXCEPT ![r] = "names"]
  /\ UNCHANGED <<view, ask, answer>>

ListNames(r) ==
  /\ phase[r] = "names" /\ view # None
  /\ report' = [report EXCEPT ![r].names = view.names]
  /\ phase' = [phase EXCEPT ![r] = "done"]
  /\ UNCHANGED <<view, ask, answer>>

Next ==
  \/ Withdraw \/ Install
  \/ \E r \in Readers : Arrive(r) \/ Route(r) \/ Admit(r) \/ Report(r) \/ ListNames(r)

Spec == Init /\ [][Next]_vars
=============================================================================
