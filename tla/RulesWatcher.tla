---------------------------- MODULE RulesWatcher ----------------------------
(***************************************************************************)
(* WatchRules: the goroutine that watches the rules source and rebuilds    *)
(* the rule bundle when it changes (internal/config/watch.go), against     *)
(* operators who edit files and directories at any moment.                 *)
(*                                                                         *)
(* The goroutine is one select loop; a build reads the source directory by *)
(* directory and then loads the files it found one by one, while files and *)
(* directories go on changing.  fsnotify is external: a watch announces    *)
(* the changes inside one directory, the queue of events is bounded, and a *)
(* watch dies with its directory.                                          *)
(*                                                                         *)
(* missed is a history variable: the rule files whose change nothing will  *)
(* announce, because it had no event or because the build that was to pick *)
(* it up failed on something else, and that no bundle has caught up with.  *)
(***************************************************************************)
EXTENDS Naturals, Sequences

CONSTANTS
  Files,      \* files in the watched directories
  RuleFiles,  \* those the bundle is made of: the rules file, or every file of
              \* the rules folder with a supported extension
  Contents,   \* what a file may hold
  Broken,     \* the contents that do not parse
  Root,       \* the rules folder, or the directory of the rules file
  Subdirs,    \* directories that may be below the rules folder
  DirOf,      \* the directory of each file
  Mode,       \* "file" or "folder"
  QueueLen,   \* events the queue holds before it overflows
  Absent

ASSUME SourceAssumption ==
  /\ RuleFiles \subseteq Files
  /\ Broken \subseteq Contents
  /\ Absent \notin Contents
  /\ DirOf \in [Files -> Subdirs \union {Root}]
  /\ Root \notin Subdirs
  /\ Files \intersect (Subdirs \union {Root}) = {}
  /\ Mode \in {"file", "folder"}
  /\ Mode = "file" => \A f \in RuleFiles : DirOf[f] = Root
  /\ QueueLen \in Nat

VARIABLES
  disk,       \* what each file holds
  present,    \* the directories of Subdirs that exist
  watched,    \* directories with a live fsnotify watch
  dirs,       \* the directories addDir remembers
  events,     \* fsnotify's queue: a file that changed, or a directory created
  pc,         \* "initial", "setup", "select", "reload" or "exited"
  walk,       \* directories the watcher has yet to visit and watch
  unread,     \* directories the build has yet to read, of those it knows
  listed,     \* rule files found and yet to be loaded
  read,       \* what the build loaded from each rule file
  timer,      \* reloadTimer: "off", "running" or "fired"
  cancelled,  \* whether watchCtx is done
  installed,  \* the contents the installed bundle was built from
  missed

tree  == <<disk, present>>
build == <<unread, listed, read>>
vars  == <<tree, watched, dirs, events, pc, walk, build, timer, cancelled, installed, missed>>

Files0 == [f \in RuleFiles |-> Absent]

\* The part of a disk the bundle is made of.
Sources(d) == [f \in RuleFiles |-> d[f]]

\* Whether buildRuleBundle succeeds: a rules folder may lack any file, the
\* rules file must exist.
Loadable(d) ==
  \A f \in RuleFiles : d[f] \notin Broken /\ (Mode = "file" => d[f] # Absent)

Exists(d) == d = Root \/ d \in present

Init ==
  /\ present \in SUBSET Subdirs
  /\ disk \in [Files -> Contents \union {Absent}]
  /\ \A f \in Files : disk[f] # Absent => Exists(DirOf[f])
  /\ Loadable(disk)
  /\ installed = Sources(disk)    \* the bundle Loader.Load built
  /\ watched = {} /\ dirs = {} /\ walk = {Root}
  /\ events = <<>>
  /\ pc = "initial"
  /\ unread = {Root} /\ listed = {} /\ read = Files0
  /\ timer = "off"
  /\ cancelled = FALSE
  /\ missed = {}

-----------------------------------------------------------------------------
(* Operators edit the source.                                              *)

\* Mutant: an event is queued when the queue is full.
AnnounceUnbounded(dir, x, fs) ==
  IF dir \in watched /\ Len(events) <= QueueLen
    THEN events' = Append(events, x) /\ UNCHANGED missed
    ELSE missed' = missed \union (fs \intersect RuleFiles) /\ UNCHANGED events

\* fsnotify announces x if dir is watched and the queue has room. The Errors
\* case of the loop only logs an overflow, so the changes in fs are missed.
Announce(dir, x, fs) ==
  IF dir \in watched /\ Len(events) < QueueLen
    THEN events' = Append(events, x) /\ UNCHANGED missed
    ELSE missed' = missed \union (fs \intersect RuleFiles) /\ UNCHANGED events

Edit == UNCHANGED <<dirs, pc, walk, build, timer, cancelled, installed>>

\* A file is created, rewritten, truncated or deleted.
ChangeFile(f, c) ==
  /\ Exists(DirOf[f])
  /\ c # disk[f]
  /\ disk' = [disk EXCEPT ![f] = c]
  /\ Announce(DirOf[f], f, {f})
  /\ UNCHANGED <<present, watched>>
  /\ Edit

\* A directory is made, or moved in with files in it; its parent announces it,
\* nobody announces the files.
CreateDir(d, files) ==
  /\ d \notin present
  /\ present' = present \union {d}
  /\ disk' = [f \in Files |-> IF DirOf[f] = d THEN files[f] ELSE disk[f]]
  /\ LET arrived == {f \in RuleFiles : DirOf[f] = d /\ files[f] # Absent}
     IN  /\ missed' = missed \union arrived
         /\ events' = IF Root \in watched /\ Len(events) < QueueLen
                        THEN Append(events, d) ELSE events
  /\ UNCHANGED watched
  /\ Edit

\* A directory is removed, or moved out with files in it. The Remove or Rename
\* event of a directory is none of a rules file, and the loop skips it.
RemoveDir(d) ==
  /\ d \in present
  /\ present' = present \ {d}
  /\ watched' = watched \ {d}
  /\ disk' = [f \in Files |-> IF DirOf[f] = d THEN Absent ELSE disk[f]]
  /\ missed' = missed \union {f \in RuleFiles : DirOf[f] = d /\ disk[f] # Absent}
  /\ UNCHANGED events
  /\ Edit

Operator ==
  \/ \E f \in Files, c \in Contents \union {Absent} : ChangeFile(f, c)
  \/ \E d \in Subdirs, files \in [Files -> Contents \union {Absent}] : CreateDir(d, files)
  \/ \E d \in Subdirs : RemoveDir(d)

-----------------------------------------------------------------------------
(* buildRuleBundle, run before the loop starts and by every reload.        *)

Building == pc \in {"initial", "reload"}

\* WatchRules gives up when its first build fails; a reload goes back to the loop.
AfterFailure == IF pc = "initial" THEN "exited" ELSE "select"
AfterSuccess == IF pc = "initial" THEN "setup" ELSE "select"

Abandon ==
  /\ pc' = AfterFailure
  /\ unread' = {} /\ listed' = {} /\ read' = Files0

\* The changes this build was to pick up: what it fails on was not theirs, so that
\* nothing will announce them again.
Dropped == {f \in RuleFiles : installed[f] # disk[f]}

\* What is below a directory when it is read.
FilesIn(d) == {f \in RuleFiles : DirOf[f] = d /\ disk[f] # Absent}
DirsIn(d) == IF d = Root /\ Mode = "folder" THEN present ELSE {}

\* collectRuleSources: WalkDir reads a directory, whose rule files are found and
\* whose directories are yet to be read; a rules file is there or is not.
ListSource(d) ==
  /\ Building
  /\ d \in unread /\ Exists(d)
  /\ IF Mode = "file" /\ \E f \in RuleFiles : disk[f] = Absent
       THEN Abandon
       ELSE /\ unread' = (unread \ {d}) \union DirsIn(d)
            /\ listed' = listed \union FilesIn(d)
            /\ UNCHANGED <<pc, read>>
  /\ UNCHANGED <<tree, watched, dirs, events, walk, timer, cancelled, installed, missed>>

\* The source cannot be read, or a directory has gone since its parent was read:
\* WalkDir hands its callback the error, the callback returns it, and the build
\* fails. The Remove event of a directory schedules no other.
WalkFails(d) ==
  /\ Building
  /\ d \in unread
  /\ Abandon
  /\ missed' = missed \union Dropped
  /\ UNCHANGED <<tree, watched, dirs, events, walk, timer, cancelled, installed>>

\* loadRuleDocument: a file that went away or does not parse fails the build.
LoadDocument(f) ==
  /\ Building
  /\ unread = {} /\ f \in listed
  /\ IF disk[f] = Absent \/ disk[f] \in Broken
       THEN Abandon
       ELSE /\ listed' = listed \ {f}
            /\ read' = [read EXCEPT ![f] = disk[f]]
            /\ UNCHANGED <<pc, unread>>
  /\ UNCHANGED <<tree, watched, dirs, events, walk, timer, cancelled, installed, missed>>

\* The file is there and cannot be read: the build fails.
ReadError(f) ==
  /\ Building
  /\ unread = {} /\ f \in listed
  /\ Abandon
  /\ missed' = missed \union Dropped
  /\ UNCHANGED <<tree, watched, dirs, events, walk, timer, cancelled, installed>>

\* ctx.Done is looked at before the walk and before each file is loaded; the
\* reload returns without a word.
BuildCancelled ==
  /\ Building /\ cancelled
  /\ Root \in unread \/ (unread = {} /\ listed # {})
  /\ Abandon
  /\ UNCHANGED <<tree, watched, dirs, events, walk, timer, cancelled, installed, missed>>

\* Mutant: events that came in during the build are dropped.
PublishDraining ==
  /\ Building
  /\ unread = {} /\ listed = {}
  /\ installed' = read
  /\ missed' = {f \in missed : read[f] # disk[f]}
  /\ read' = Files0
  /\ pc' = AfterSuccess
  /\ events' = <<>>
  /\ UNCHANGED <<tree, watched, dirs, walk, unread, listed, timer, cancelled>>

\* onChange: Pipeline.Reload installs the bundle.
Publish ==
  /\ Building
  /\ unread = {} /\ listed = {}
  /\ installed' = read
  /\ missed' = {f \in missed : read[f] # disk[f]}
  /\ read' = Files0
  /\ pc' = AfterSuccess
  /\ UNCHANGED <<tree, watched, dirs, events, walk, unread, listed, timer, cancelled>>

-----------------------------------------------------------------------------
(* The goroutine.                                                          *)

\* addDir: a directory it remembers is not added again; watcher.Add may fail.
AddDir(d) ==
  \/ UNCHANGED <<watched, dirs>>
  \/ /\ d \notin dirs /\ Exists(d)
     /\ watched' = watched \union {d}
     /\ dirs' = dirs \union {d}

\* Before the loop: the directory of the rules file, or WalkDir over the folder.
Walk(d) ==
  /\ pc = "setup"
  /\ d \in walk
  /\ AddDir(d)
  /\ walk' = (walk \ {d}) \union DirsIn(d)
  /\ pc' = IF walk' = {} THEN "select" ELSE "setup"
  /\ UNCHANGED <<tree, events, build, timer, cancelled, installed, missed>>

\* Mutant: a Remove event is not among those that schedule a reload.
RemovalIgnored ==
  /\ pc = "select"
  /\ events # <<>>
  /\ events' = Tail(events)
  /\ timer' = IF Head(events) \in RuleFiles /\ disk[Head(events)] # Absent
                THEN "running" ELSE timer
  /\ IF Mode = "folder" /\ Head(events) \in present
       THEN AddDir(Head(events))
       ELSE UNCHANGED <<watched, dirs>>
  /\ UNCHANGED <<tree, pc, walk, build, cancelled, installed, missed>>

\* scheduleReload: each event puts the reload off by another 25 milliseconds.
HandleEvent ==
  /\ pc = "select"
  /\ events # <<>>
  /\ events' = Tail(events)
  /\ timer' = IF Head(events) \in RuleFiles THEN "running" ELSE timer
  /\ IF Mode = "folder" /\ Head(events) \in present
       THEN AddDir(Head(events))
       ELSE UNCHANGED <<watched, dirs>>
  /\ UNCHANGED <<tree, pc, walk, build, cancelled, installed, missed>>

TimerFires ==
  /\ timer = "running"
  /\ timer' = "fired"
  /\ UNCHANGED <<tree, watched, dirs, events, pc, walk, build, cancelled, installed, missed>>

StartReload ==
  /\ pc = "select"
  /\ timer = "fired"
  /\ timer' = "off"
  /\ pc' = "reload"
  /\ unread' = {Root}
  /\ UNCHANGED <<tree, watched, dirs, events, walk, listed, read, cancelled, installed, missed>>

\* Mutant: the loop wants to have nothing left to do before it leaves.
ExitWhenIdle ==
  /\ pc = "select" /\ cancelled
  /\ timer = "off" /\ events = <<>>
  /\ pc' = "exited"
  /\ watched' = {}
  /\ UNCHANGED <<tree, dirs, events, walk, build, timer, cancelled, installed, missed>>

\* Mutant: an error fsnotify reports ends the loop.
ExitOnError ==
  /\ pc = "select"
  /\ pc' = "exited"
  /\ timer' = "off"
  /\ watched' = {}
  /\ UNCHANGED <<tree, dirs, events, walk, build, cancelled, installed, missed>>

\* watchCtx is done: the deferred calls stop the timer and close the watcher.
Exit ==
  /\ pc = "select" /\ cancelled
  /\ pc' = "exited"
  /\ timer' = "off"
  /\ watched' = {}
  /\ UNCHANGED <<tree, dirs, events, walk, build, cancelled, installed, missed>>

\* Stop, or the context WatchRules was given.
Cancel ==
  /\ ~cancelled
  /\ cancelled' = TRUE
  /\ UNCHANGED <<tree, watched, dirs, events, pc, walk, build, timer, installed, missed>>

Build ==
  \/ \E d \in Subdirs \union {Root} : ListSource(d) \/ WalkFails(d)
  \/ \E f \in RuleFiles : LoadDocument(f) \/ ReadError(f)
  \/ BuildCancelled \/ Publish

Loop == HandleEvent \/ StartReload \/ Exit \/ \E d \in Subdirs \union {Root} : Walk(d)

Next == Operator \/ Build \/ Loop \/ TimerFires \/ Cancel

Spec == Init /\ [][Next]_vars

\* The goroutine runs and the timer fires; select picks at random among the
\* cases that are ready, so that none is passed over for ever.
Fairness ==
  /\ WF_vars(Build)
  /\ WF_vars(Loop)
  /\ WF_vars(TimerFires)
  /\ SF_vars(Exit)
  /\ SF_vars(StartReload)

FairSpec == Spec /\ Fairness

-----------------------------------------------------------------------------
TypeOK ==
  /\ disk \in [Files -> Contents \union {Absent}]
  /\ present \subseteq Subdirs
  /\ watched \subseteq Subdirs \union {Root}
  /\ dirs \subseteq Subdirs \union {Root}
  /\ events \in Seq(Files \union Subdirs) /\ Len(events) <= QueueLen
  /\ pc \in {"initial", "setup", "select", "reload", "exited"}
  /\ walk \subseteq Subdirs \union {Root}
  /\ unread \subseteq Subdirs \union {Root} /\ listed \subseteq RuleFiles
  /\ read \in [RuleFiles -> (Contents \ Broken) \union {Absent}]
  /\ timer \in {"off", "running", "fired"}
  /\ cancelled \in BOOLEAN
  /\ installed \in [RuleFiles -> (Contents \ Broken) \union {Absent}]
  /\ missed \subseteq RuleFiles

\* The loop has nothing to do until something else changes.
AtRest == pc = "select" /\ timer = "off" /\ events = <<>> /\ ~cancelled

\* The bundle that is installed is the one the disk holds.
UpToDate == installed = Sources(disk)

\* When the watcher comes to rest the installed bundle is the disk's, however
\* the changes fell between the reading of directories and the loading of files
\* of a build, unless the disk does not load, a change went unannounced, or the
\* build that was to pick it up failed on a directory or file that had gone or
\* could not be read. A later build that succeeds makes good for all of it.
\* (WatchRules, reload, collectRuleSources)
RestsUpToDate == AtRest /\ missed = {} => UpToDate \/ ~Loadable(disk)

\* Once the source stays what it is, the bundle it holds gets installed, unless it
\* does not load, or nothing announces a change any more. (scheduleReload, reload)
ChangesArrive ==
  <>[][tree' = tree]_tree /\ [](~cancelled) =>
    <>[](UpToDate \/ ~Loadable(disk) \/ missed # {} \/ pc = "exited")

\* Stop returns, even if files never stop changing. (Stop)
StopReturns == cancelled ~> pc = "exited"

-----------------------------------------------------------------------------
(* The goroutine as the process sees it.                                   *)

\* Lifecycle's watcher. A watcher whose first build failed never came to be:
\* its directories are still to be walked.
Seen ==
  CASE pc = "initial" \/ (pc = "exited" /\ walk # {}) -> "none"
    [] pc \in {"setup", "select"} -> "idle"
    [] pc = "reload" -> "building"
    [] pc = "exited" /\ walk = {} -> "exited"

\* Whoever cancels is seen as the signal, what a reload purges as a part of its
\* build, and run as on its way from WatchRules to the select of Server.Run.
Outline == INSTANCE Lifecycle WITH
  Requests <- {}, Backend <- "memory", HasSource <- TRUE,
  pc <- IF pc = "initial" THEN "watch" ELSE "serve",
  signalled <- cancelled, failure <- "none",
  listener <- "unopened", errCh <- FALSE, deadline <- "off",
  watcher <- Seen, stopping <- FALSE,
  client <- "none", request <- <<>>

\* Whatever the source does, the goroutine takes the steps the outline has of
\* it and no other: it comes to be once, by a build that succeeded, builds only
\* between two waits, and leaves only cancelled and never out of a build.
\* (WatchRules, reload)
FollowsOutline == [][Outline!Next]_(Outline!vars)
=============================================================================
