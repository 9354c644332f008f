-------------------------- MODULE LifecycleProofs ---------------------------
(***************************************************************************)
(* Proofs about Lifecycle: what the order of run's deferred calls and the  *)
(* errors of Server.Run promise about the end of the process.              *)
(***************************************************************************)
EXTENDS Lifecycle, Naturals, TLAPS

\* After Run returned, in the order of the deferred calls.
Ending == {"stop", "wait", "close", "leave", "exited"}

\* The watcher's goroutine starts after the pipeline and is gone before the
\* cache is closed.
WatcherInv ==
  /\ pc \in {"load", "watch"} => watcher = "none"
  /\ pc \in {"close", "leave", "exited"} => watcher \in {"none", "exited"}
  /\ client = "closed" => pc \in {"leave", "exited"}

\* Nobody is handled before the listener opens; from a successful drain on, and
\* after a failed start, nobody is handled and nobody comes.
RequestInv ==
  /\ listener = "unopened" => \A r \in Requests : request[r] = "outside"
  /\ pc \in {"load", "watch"} \/ failure = "load" => listener = "unopened"
  /\ failure = "load" => pc \in {"leave", "exited"}
  /\ pc \in {"load", "watch", "serve", "drain"} => failure = "none"
  /\ pc = "drain" => listener = "closed"
  /\ pc \in Ending /\ failure = "none" => listener = "closed" /\ Handling = {}
  /\ \A r \in Requests : request[r] = "cut" => failure \in {"listen", "deadline"}

LifecycleInv == TypeOK /\ WatcherInv /\ RequestInv

LEMMA LifecycleInit == Init => LifecycleInv
  BY SetupAssumption
  DEF Init, LifecycleInv, TypeOK, WatcherInv, RequestInv, Ending, Handling

\* The steps of run.
LEMMA MainStep == LifecycleInv /\ Main => LifecycleInv'
  <1> SUFFICES ASSUME LifecycleInv, Main PROVE LifecycleInv'
    OBVIOUS
  <1> USE DEF LifecycleInv, TypeOK, WatcherInv, RequestInv, Ending, Handling,
          process, rules
  <1>1. CASE LoadFails
    BY <1>1 DEF LoadFails
  <1>2. CASE BuildPipeline
    BY <1>2, SetupAssumption DEF BuildPipeline
  <1>3. CASE StartWatcher
    BY <1>3 DEF StartWatcher
  <1>4. CASE Shutdown
    BY <1>4 DEF Shutdown
  <1>5. CASE ListenError
    BY <1>5 DEF ListenError
  <1>6. CASE Drained
    BY <1>6 DEF Drained
  <1>7. CASE DrainTimesOut
    BY <1>7 DEF DrainTimesOut
  <1>8. CASE Stop
    BY <1>8 DEF Stop
  <1>9. CASE Stopped
    BY <1>9 DEF Stopped
  <1>10. CASE CloseCache
    BY <1>10 DEF CloseCache
  <1>11. CASE Exit
    BY <1>11 DEF Exit
  <1> QED
    BY <1>1, <1>2, <1>3, <1>4, <1>5, <1>6, <1>7, <1>8, <1>9, <1>10, <1>11
    DEF Main

\* The steps of the watcher's goroutine.
LEMMA WatchStep == LifecycleInv /\ Watch => LifecycleInv'
  BY DEF LifecycleInv, TypeOK, WatcherInv, RequestInv, Ending, Handling, process,
         rules, Watch, StartReload, Build, Purge, WatcherExits

\* The steps of the listener's goroutine, of handlers and of the outside.
LEMMA OutsideStep ==
  ASSUME LifecycleInv,
         \/ Signal \/ DeadlineFires \/ Listen \/ ListenerBreaks
         \/ \E r \in Requests : Accept(r) \/ Answer(r)
  PROVE  LifecycleInv'
  <1> USE DEF LifecycleInv, TypeOK, WatcherInv, RequestInv, Ending, Handling,
          process, rules
  <1>1. CASE Signal
    BY <1>1 DEF Signal
  <1>2. CASE DeadlineFires
    BY <1>2 DEF DeadlineFires
  <1>3. CASE Listen
    BY <1>3 DEF Listen
  <1>4. CASE ListenerBreaks
    BY <1>4 DEF ListenerBreaks
  <1>5. ASSUME NEW r \in Requests, Accept(r) PROVE LifecycleInv'
    BY <1>5 DEF Accept
  <1>6. ASSUME NEW r \in Requests, Answer(r) PROVE LifecycleInv'
    BY <1>6 DEF Answer
  <1> QED BY <1>1, <1>2, <1>3, <1>4, <1>5, <1>6

LEMMA LifecycleStep == LifecycleInv /\ [Next]_vars => LifecycleInv'
  <1> SUFFICES ASSUME LifecycleInv, [Next]_vars PROVE LifecycleInv'
    OBVIOUS
  <1>1. CASE UNCHANGED vars
    BY <1>1 DEF LifecycleInv, TypeOK, WatcherInv, RequestInv, Ending, Handling, vars,
                process, rules
  <1>2. CASE Next
    BY <1>2, MainStep, WatchStep, OutsideStep DEF Next
  <1> QED BY <1>1, <1>2

LEMMA LifecycleInvariant == Spec => []LifecycleInv
  BY LifecycleInit, LifecycleStep, PTL DEF Spec

\* The states of run, its goroutines and the requests are those the code names.
THEOREM LifecycleTypes == Spec => []TypeOK
  BY LifecycleInvariant, PTL DEF LifecycleInv

\* Stop waits for the goroutine before the deferred Close runs, for either cache
\* and with or without a rules source. (run, RulesWatcher.Stop)
THEOREM WatcherStopsFirst == Spec => []ReloadsEndBeforeTheCache
  <1>1. LifecycleInv => ReloadsEndBeforeTheCache
    BY DEF LifecycleInv, WatcherInv, ReloadsEndBeforeTheCache
  <1> QED BY <1>1, LifecycleInvariant, PTL

\* However many requests are under way, the exit code tells when one was cut
\* short. (Server.Run, run)
THEOREM ExitCodeTells == Spec => []SuccessLeavesNobody
  <1>1. LifecycleInv => SuccessLeavesNobody
    BY DEF LifecycleInv, RequestInv, SuccessLeavesNobody
  <1> QED BY <1>1, LifecycleInvariant, PTL

-----------------------------------------------------------------------------
(* What ProcessEnds rests on besides fairness.                             *)

\* Shutdown has its five seconds, and Stop waits for a goroutine that there is
\* and that it cancelled.
WaitInv ==
  /\ pc = "drain" => deadline # "off"
  /\ pc = "wait" => watcher # "none" /\ stopping

\* A step can be taken that brings the process nearer to its end, and neither a
\* client nor a handler has to take it: run's own, the end of the five seconds,
\* or the goroutine's, of which the context is done.
WayOut ==
  \/ pc \in {"load", "watch", "stop", "close", "leave", "exited"}
  \/ pc = "serve" /\ (signalled \/ errCh)
  \/ pc = "drain" /\ deadline \in {"running", "fired"}
  \/ pc = "wait" /\ watcher = "exited"
  \/ pc = "wait" /\ watcher \in {"idle", "building", "purging"} /\ Cancelled

Place ==
  [load |-> 0, watch |-> 1, serve |-> 2, drain |-> 3, stop |-> 4, wait |-> 5,
   close |-> 6, leave |-> 7, exited |-> 8]

\* run only goes forward, and a signal and an error stay until it has ended.
GoesForward ==
  /\ Place[pc'] >= Place[pc]
  /\ Main => Place[pc'] > Place[pc]
  /\ (signalled => signalled') /\ (errCh => errCh') /\ (stopping /\ pc = "wait" => stopping')

LEMMA WaitStep == LifecycleInv /\ WaitInv /\ [Next]_vars => WaitInv'
  <1> SUFFICES ASSUME LifecycleInv, WaitInv, [Next]_vars PROVE WaitInv'
    OBVIOUS
  <1> USE DEF WaitInv, process, rules
  <1>1. CASE Main
    BY <1>1 DEF Main, LoadFails, BuildPipeline, StartWatcher, Shutdown, ListenError, Drained,
                DrainTimesOut, Stop, Stopped, CloseCache, Exit
  <1>2. CASE Watch
    BY <1>2 DEF Watch, StartReload, Build, Purge, WatcherExits
  <1>3. CASE Signal \/ DeadlineFires \/ Listen \/ ListenerBreaks
    BY <1>3 DEF Signal, DeadlineFires, Listen, ListenerBreaks
  <1>4. CASE \E r \in Requests : Accept(r) \/ Answer(r)
    BY <1>4 DEF Accept, Answer
  <1>5. CASE UNCHANGED vars
    BY <1>5 DEF vars
  <1> QED BY <1>1, <1>2, <1>3, <1>4, <1>5 DEF Next

LEMMA ForwardStep == LifecycleInv /\ [Next]_vars => GoesForward
  <1> SUFFICES ASSUME LifecycleInv, [Next]_vars PROVE GoesForward
    OBVIOUS
  <1> USE DEF GoesForward, Place, process, rules
  <1>1. CASE Main
    BY <1>1 DEF Main, LoadFails, BuildPipeline, StartWatcher, Shutdown, ListenError, Drained,
                DrainTimesOut, Stop, Stopped, CloseCache, Exit
  <1>2. ASSUME ~Main PROVE UNCHANGED <<pc, stopping>>
                           /\ (signalled => signalled') /\ (errCh => errCh')
    <2>1. CASE Watch
      BY <2>1 DEF Watch, StartReload, Build, Purge, WatcherExits
    <2>2. CASE Signal \/ DeadlineFires \/ Listen \/ ListenerBreaks
      BY <2>2 DEF Signal, DeadlineFires, Listen, ListenerBreaks
    <2>3. CASE \E r \in Requests : Accept(r) \/ Answer(r)
      BY <2>3 DEF Accept, Answer
    <2>4. CASE UNCHANGED vars
      BY <2>4 DEF vars
    <2> QED BY <1>2, <2>1, <2>2, <2>3, <2>4 DEF Next
  <1>3. CASE ~Main
    <2>1. Place[pc] \in Nat
      BY DEF LifecycleInv, TypeOK
    <2> QED BY <1>2, <1>3, <2>1
  <1> QED BY <1>1, <1>3

\* A process that has to end is never stuck, whatever handlers and the rules
\* source do: a step that leads on is always there, and run, which has eight of
\* them at most, never goes back. (Server.Run, RulesWatcher.Stop, run)
THEOREM EndIsInReach ==
  Spec => []((signalled \/ errCh) => WayOut) /\ [][GoesForward]_vars
  <1>1. Init => WaitInv
    BY DEF Init, WaitInv
  <1>2. LifecycleInv /\ WaitInv => ((signalled \/ errCh) => WayOut)
    BY DEF LifecycleInv, TypeOK, WaitInv, WayOut, Cancelled
  <1>3. LifecycleInv /\ [Next]_vars => [GoesForward]_vars
    BY ForwardStep
  <1> QED BY <1>1, <1>2, <1>3, WaitStep, LifecycleInvariant, PTL DEF Spec
=============================================================================
