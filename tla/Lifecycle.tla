----------------------------- MODULE Lifecycle ------------------------------
(***************************************************************************)
(* The process from start to exit: run in cmd/main.go, Server.Run in       *)
(* internal/server/server.go, and what they start and stop: the listener's *)
(* goroutine, the handlers of requests, the rules watcher's goroutine and  *)
(* the client of the shared cache.                                         *)
(*                                                                         *)
(* run's deferred calls make the end: the watcher is stopped, then the     *)
(* cache is closed, then the process exits with whatever still runs.       *)
(* net/http is external: Shutdown stops the listener and waits until no    *)
(* handler runs or its context is done; a handler never sees the signal.   *)
(***************************************************************************)
CONSTANTS
  Requests,   \* the requests of one run of the process
  Backend,    \* the configured cache: "memory" or "redis"
  HasSource   \* whether a rules file or folder is configured

ASSUME SetupAssumption ==
  /\ Backend \in {"memory", "redis"}
  /\ HasSource \in BOOLEAN

VARIABLES
  pc,         \* run: "load", "watch", "serve", "drain", "stop", "wait", "close",
              \* "leave" or "exited"
  signalled,  \* whether SIGINT or SIGTERM came: the signal context is done
  failure,    \* why run returns an error: "none", "load", "listen" or "deadline"
  listener,   \* "unopened", "open", "broken" or "closed"
  errCh,      \* whether the listener's goroutine sent an error
  deadline,   \* the five seconds of Shutdown: "off", "running" or "fired"
  watcher,    \* its goroutine: "none", "idle", "building", "purging" or "exited"
  stopping,   \* whether Stop cancelled the watcher's context
  client,     \* the shared cache's client: "none", "open" or "closed"
  request     \* each request: "outside", "handling", "answered" or "cut"

process == <<signalled, failure, listener, errCh, deadline>>
rules   == <<watcher, stopping>>
vars    == <<pc, process, rules, client, request>>

Handling == {r \in Requests : request[r] = "handling"}

Init ==
  /\ pc = "load"
  /\ signalled = FALSE
  /\ failure = "none"
  /\ listener = "unopened" /\ errCh = FALSE
  /\ deadline = "off"
  /\ watcher = "none" /\ stopping = FALSE
  /\ client = "none"
  /\ request = [r \in Requests |-> "outside"]

-----------------------------------------------------------------------------
(* run, up to the select of Server.Run.                                    *)

\* Load or the logger refuses the configuration, or Load sees the signal.
LoadFails ==
  /\ pc = "load"
  /\ failure' = "load"
  /\ pc' = "leave"
  /\ UNCHANGED <<signalled, listener, errCh, deadline, rules, client, request>>

\* Mutant: a client that cannot reach its Redis is kept.
KeepClient ==
  /\ pc = "load"
  /\ client' \in (IF Backend = "redis" THEN {"open", "unreachable"} ELSE {"none"})
  /\ pc' = IF HasSource THEN "watch" ELSE "serve"
  /\ UNCHANGED <<process, rules, request>>

\* A Redis that cannot be reached is replaced by the memory cache.
BuildPipeline ==
  /\ pc = "load"
  /\ client' \in (IF Backend = "redis" THEN {"open", "none"} ELSE {"none"})
  /\ pc' = IF HasSource THEN "watch" ELSE "serve"
  /\ UNCHANGED <<process, rules, request>>

\* WatchRules reloads once and starts its goroutine, or fails (for a signal, for
\* example): the process then serves without a watcher.
StartWatcher ==
  /\ pc = "watch"
  /\ watcher' \in {"idle", "none"}
  /\ pc' = "serve"
  /\ UNCHANGED <<process, stopping, client, request>>

-----------------------------------------------------------------------------
(* The listener's goroutine, and the handlers it starts.                   *)

Listen ==
  /\ pc = "serve"
  /\ listener = "unopened"
  /\ \/ listener' = "open" /\ UNCHANGED errCh
     \/ listener' = "closed" /\ errCh' = TRUE
  /\ UNCHANGED <<pc, signalled, failure, deadline, rules, client, request>>

\* Accept fails: ListenAndServe returns, the connections there are stay.
ListenerBreaks ==
  /\ listener = "open"
  /\ listener' = "broken"
  /\ errCh' = TRUE
  /\ UNCHANGED <<pc, signalled, failure, deadline, rules, client, request>>

\* A request on a new connection, or on one that was kept alive.
Accept(r) ==
  /\ pc # "exited"
  /\ listener \in {"open", "broken"}
  /\ request[r] = "outside"
  /\ request' = [request EXCEPT ![r] = "handling"]
  /\ UNCHANGED <<pc, process, rules, client>>

\* Nothing in a handler waits for the process to end, or ends it.
Answer(r) ==
  /\ pc # "exited"
  /\ request[r] = "handling"
  /\ request' = [request EXCEPT ![r] = "answered"]
  /\ UNCHANGED <<pc, process, rules, client>>

-----------------------------------------------------------------------------
(* Server.Run and run, from the signal on.                                 *)

\* NotifyContext: a second signal changes nothing.
Signal ==
  /\ pc # "exited" /\ ~signalled
  /\ signalled' = TRUE
  /\ UNCHANGED <<pc, failure, listener, errCh, deadline, rules, client, request>>

\* Either case of the select when both are ready. A listener that was not opened
\* yet never will be.
Shutdown ==
  /\ pc = "serve" /\ signalled
  /\ listener' = "closed"
  /\ deadline' = "running"
  /\ pc' = "drain"
  /\ UNCHANGED <<signalled, failure, errCh, rules, client, request>>

ListenError ==
  /\ pc = "serve" /\ errCh
  /\ failure' = "listen"
  /\ pc' = "stop"
  /\ UNCHANGED <<signalled, listener, errCh, deadline, rules, client, request>>

\* Run returns context.Canceled, which run takes for success.
Drained ==
  /\ pc = "drain"
  /\ Handling = {}
  /\ pc' = "stop"
  /\ UNCHANGED <<process, rules, client, request>>

DeadlineFires ==
  /\ deadline = "running"
  /\ deadline' = "fired"
  /\ UNCHANGED <<pc, signalled, failure, listener, errCh, rules, client, request>>

\* Mutant: the error of Shutdown is dropped.
DrainIgnored ==
  /\ pc = "drain" /\ deadline = "fired"
  /\ pc' = "stop"
  /\ UNCHANGED <<process, rules, client, request>>

\* Mutant: Shutdown is given a context that is never done.
DrainForever ==
  /\ FALSE
  /\ UNCHANGED vars

DrainTimesOut ==
  /\ pc = "drain" /\ deadline = "fired"
  /\ failure' = "deadline"
  /\ pc' = "stop"
  /\ UNCHANGED <<signalled, listener, errCh, deadline, rules, client, request>>

\* Mutant: Stop cancels and does not wait.
StopWithoutWaiting ==
  /\ pc = "stop"
  /\ stopping' = (watcher # "none")
  /\ pc' = "close"
  /\ UNCHANGED <<process, watcher, client, request>>

\* The deferred watcher.Stop, where there is a watcher.
Stop ==
  /\ pc = "stop"
  /\ stopping' = (watcher # "none")
  /\ pc' = IF watcher = "none" THEN "close" ELSE "wait"
  /\ UNCHANGED <<process, watcher, client, request>>

Stopped ==
  /\ pc = "wait" /\ watcher = "exited"
  /\ pc' = "close"
  /\ UNCHANGED <<process, rules, client, request>>

\* The deferred pipe.Close; the memory cache's Close does nothing. A handler
\* still running finds the client closed, which it takes for a miss.
CloseCache ==
  /\ pc = "close"
  /\ client' = IF client = "open" THEN "closed" ELSE client
  /\ pc' = "leave"
  /\ UNCHANGED <<process, rules, request>>

\* run returned: log.Fatalf or the end of main.
Exit ==
  /\ pc = "leave"
  /\ pc' = "exited"
  /\ request' = [r \in Requests |-> IF r \in Handling THEN "cut" ELSE request[r]]
  /\ UNCHANGED <<process, rules, client>>

-----------------------------------------------------------------------------
(* The watcher's goroutine; RulesWatcher has it in full.                   *)

Cancelled == signalled \/ stopping

\* select may take the timer's case although the context is done.
StartReload ==
  /\ pc # "exited" /\ watcher = "idle"
  /\ watcher' = "building"
  /\ UNCHANGED <<pc, process, stopping, client, request>>

\* buildRuleBundle fails or is cancelled, or onChange installs what it built
\* and goes on to the cache.
Build ==
  /\ pc # "exited" /\ watcher = "building"
  /\ watcher' \in {"idle", "purging"}
  /\ UNCHANGED <<pc, process, stopping, client, request>>

\* DeletePrefix succeeds or fails; Reload only logs which.
Purge ==
  /\ pc # "exited" /\ watcher = "purging"
  /\ watcher' = "idle"
  /\ UNCHANGED <<pc, process, stopping, client, request>>

WatcherExits ==
  /\ pc # "exited" /\ watcher = "idle" /\ Cancelled
  /\ watcher' = "exited"
  /\ UNCHANGED <<pc, process, stopping, client, request>>

-----------------------------------------------------------------------------
Main ==
  \/ LoadFails \/ BuildPipeline \/ StartWatcher
  \/ Shutdown \/ ListenError \/ Drained \/ DrainTimesOut
  \/ Stop \/ Stopped \/ CloseCache \/ Exit

Watch == StartReload \/ Build \/ Purge \/ WatcherExits

Next ==
  \/ Main \/ Watch \/ Signal \/ DeadlineFires \/ Listen
  \/ (pc # "exited" /\ ListenerBreaks)
  \/ \E r \in Requests : Accept(r) \/ Answer(r)

Spec == Init /\ [][Next]_vars

\* run and the two goroutines are scheduled, timers fire, and select picks at
\* random among the cases that are ready. Clients may stop sending and handlers
\* may take for ever.
Fairness ==
  /\ WF_vars(Main)
  /\ WF_vars(DeadlineFires)
  /\ WF_vars(Listen)
  /\ WF_vars(Build \/ Purge)
  /\ SF_vars(WatcherExits)

FairSpec == Spec /\ Fairness

-----------------------------------------------------------------------------
TypeOK ==
  /\ pc \in {"load", "watch", "serve", "drain", "stop", "wait", "close", "leave", "exited"}
  /\ signalled \in BOOLEAN /\ stopping \in BOOLEAN /\ errCh \in BOOLEAN
  /\ failure \in {"none", "load", "listen", "deadline"}
  /\ listener \in {"unopened", "open", "broken", "closed"}
  /\ deadline \in {"off", "running", "fired"}
  /\ watcher \in {"none", "idle", "building", "purging", "exited"}
  /\ client \in {"none", "open", "closed"}
  /\ request \in [Requests -> {"outside", "handling", "answered", "cut"}]

\* No reload reaches for a cache that is closed, and once the process has left
\* no reload is under way: a bundle is never left half installed at the end.
\* (run's deferred calls, RulesWatcher.Stop)
ReloadsEndBeforeTheCache ==
  client = "closed" \/ pc \in {"leave", "exited"} => watcher \notin {"building", "purging"}

\* When the process exits with success every request it accepted was answered;
\* one that was cut short shows in the exit code. (Server.Run, shutdown, run)
SuccessLeavesNobody ==
  (\E r \in Requests : request[r] = "cut") => failure \in {"listen", "deadline"}

\* A signal, or a listener that fails, ends the process, whatever handlers and
\* the rules source do. (Server.Run, RulesWatcher.Stop)
ProcessEnds == signalled \/ errCh ~> pc = "exited"
=============================================================================
