------------------------- MODULE RulesWatcherProofs -------------------------
(***************************************************************************)
(* RulesWatcher's type invariant and its main safety property, for every   *)
(* set of files and directories and every queue length.                    *)
(***************************************************************************)
EXTENDS RulesWatcher, TLAPS

\* A queue that is not empty loses its first event.
LEMMA TailOfQueue ==
  ASSUME NEW S, NEW s \in Seq(S), s # <<>>
  PROVE  /\ Head(s) \in S
         /\ Tail(s) \in Seq(S)
         /\ Len(Tail(s)) = Len(s) - 1
         /\ \A i \in DOMAIN s : i # 1 => i - 1 \in DOMAIN Tail(s) /\ Tail(s)[i - 1] = s[i]
         /\ Head(s) = s[1]
  OBVIOUS

\* An announcement leaves the queue typed and within its length.
LEMMA AnnounceType ==
  ASSUME TypeOK, NEW dir, NEW x \in Files \union Subdirs, NEW fs, Announce(dir, x, fs)
  PROVE  /\ events' \in Seq(Files \union Subdirs) /\ Len(events') <= QueueLen
         /\ missed' \subseteq RuleFiles
  <1>1. events \in Seq(Files \union Subdirs) /\ Len(events) <= QueueLen /\ missed \subseteq RuleFiles
    BY DEF TypeOK
  <1>2. QueueLen \in Nat
    BY SourceAssumption
  <1>3. CASE dir \in watched /\ Len(events) < QueueLen
    <2>1. events' = Append(events, x) /\ missed' = missed
      BY <1>3 DEF Announce
    <2>2. Append(events, x) \in Seq(Files \union Subdirs) /\ Len(Append(events, x)) = Len(events) + 1
      BY <1>1
    <2> QED BY <1>1, <1>2, <1>3, <2>1, <2>2
  <1>4. CASE ~(dir \in watched /\ Len(events) < QueueLen)
    <2>1. events' = events /\ missed' = missed \union (fs \intersect RuleFiles)
      BY <1>4 DEF Announce
    <2> QED BY <1>1, <2>1
  <1> QED BY <1>3, <1>4

\* The source itself stays typed as operators edit it.
LEMMA OperatorType == TypeOK /\ Operator => TypeOK'
  <1> SUFFICES ASSUME TypeOK, Operator PROVE TypeOK'
    OBVIOUS
  <1> USE SourceAssumption
  <1>1. ASSUME NEW f \in Files, NEW c \in Contents \union {Absent}, ChangeFile(f, c)
        PROVE  TypeOK'
    <2>1. events' \in Seq(Files \union Subdirs) /\ Len(events') <= QueueLen
          /\ missed' \subseteq RuleFiles
      BY <1>1, AnnounceType DEF ChangeFile
    <2> QED BY <1>1, <2>1 DEF ChangeFile, Edit, build, TypeOK
  <1>2. ASSUME NEW d \in Subdirs, NEW files \in [Files -> Contents \union {Absent}],
               CreateDir(d, files)
        PROVE  TypeOK'
    <2>1. events' \in Seq(Files \union Subdirs) /\ Len(events') <= QueueLen
      BY <1>2 DEF CreateDir, TypeOK
    <2>2. disk' \in [Files -> Contents \union {Absent}] /\ present' \subseteq Subdirs
          /\ missed' \subseteq RuleFiles
      BY <1>2 DEF CreateDir, TypeOK
    <2> QED BY <1>2, <2>1, <2>2 DEF CreateDir, Edit, build, TypeOK
  <1>3. ASSUME NEW d \in Subdirs, RemoveDir(d)
        PROVE  TypeOK'
    BY <1>3 DEF RemoveDir, Edit, build, TypeOK
  <1> QED BY <1>1, <1>2, <1>3 DEF Operator

\* A build stays typed: what it loads parses.
LEMMA BuildType == TypeOK /\ Build => TypeOK'
  <1> SUFFICES ASSUME TypeOK, Build PROVE TypeOK'
    OBVIOUS
  <1> USE SourceAssumption DEF tree, Files0, Abandon, AfterFailure, AfterSuccess
  <1>1. ASSUME NEW d \in Subdirs \union {Root}, ListSource(d) PROVE TypeOK'
    <2>1. pc' \in {"initial", "setup", "select", "reload", "exited"}
      BY <1>1 DEF ListSource, TypeOK
    <2>2. unread' \subseteq Subdirs \union {Root} /\ listed' \subseteq RuleFiles
          /\ read' \in [RuleFiles -> (Contents \ Broken) \union {Absent}]
      BY <1>1 DEF ListSource, FilesIn, DirsIn, TypeOK
    <2> QED BY <1>1, <2>1, <2>2 DEF ListSource, TypeOK
  <1>2. ASSUME NEW f \in RuleFiles, LoadDocument(f) PROVE TypeOK'
    <2>1. pc' \in {"initial", "setup", "select", "reload", "exited"}
      BY <1>2 DEF LoadDocument, TypeOK
    <2>2. unread' \subseteq Subdirs \union {Root} /\ listed' \subseteq RuleFiles
          /\ read' \in [RuleFiles -> (Contents \ Broken) \union {Absent}]
      BY <1>2 DEF LoadDocument, TypeOK
    <2> QED BY <1>2, <2>1, <2>2 DEF LoadDocument, TypeOK
  <1>3. ASSUME NEW f \in RuleFiles, ReadError(f) PROVE TypeOK'
    BY <1>3 DEF ReadError, Dropped, TypeOK
  <1>4. CASE BuildCancelled
    BY <1>4 DEF BuildCancelled, TypeOK
  <1>5. CASE Publish
    BY <1>5 DEF Publish, TypeOK
  <1>6. ASSUME NEW d \in Subdirs \union {Root}, WalkFails(d) PROVE TypeOK'
    BY <1>6 DEF WalkFails, Dropped, TypeOK
  <1> QED BY <1>1, <1>2, <1>3, <1>4, <1>5, <1>6 DEF Build

\* The loop stays typed.
LEMMA LoopType == TypeOK /\ Loop => TypeOK'
  <1> SUFFICES ASSUME TypeOK, Loop PROVE TypeOK'
    OBVIOUS
  <1> USE SourceAssumption DEF tree, build
  <1>1. CASE HandleEvent
    <2>1. /\ Head(events) \in Files \union Subdirs
          /\ events' \in Seq(Files \union Subdirs) /\ Len(events') <= QueueLen
      <3>1. /\ Head(events) \in Files \union Subdirs
            /\ Tail(events) \in Seq(Files \union Subdirs)
            /\ Len(Tail(events)) = Len(events) - 1
        BY <1>1, TailOfQueue DEF HandleEvent, TypeOK
      <3>2. Len(events) \in Nat /\ Len(events) <= QueueLen
        BY DEF TypeOK
      <3> QED BY <1>1, <3>1, <3>2 DEF HandleEvent
    <2>2. timer' \in {"off", "running", "fired"}
      BY <1>1 DEF HandleEvent, TypeOK
    <2>3. watched' \subseteq Subdirs \union {Root} /\ dirs' \subseteq Subdirs \union {Root}
      BY <1>1, <2>1 DEF HandleEvent, AddDir, TypeOK
    <2> QED BY <1>1, <2>1, <2>2, <2>3 DEF HandleEvent, TypeOK
  <1>2. CASE StartReload
    BY <1>2 DEF StartReload, TypeOK
  <1>3. CASE Exit
    BY <1>3 DEF Exit, TypeOK
  <1>4. ASSUME NEW d \in Subdirs \union {Root}, Walk(d) PROVE TypeOK'
    <2>1. watched' \subseteq Subdirs \union {Root} /\ dirs' \subseteq Subdirs \union {Root}
      BY <1>4 DEF Walk, AddDir, TypeOK
    <2>2. walk' \subseteq Subdirs \union {Root}
      BY <1>4 DEF Walk, DirsIn, TypeOK
    <2>3. pc' \in {"initial", "setup", "select", "reload", "exited"}
      BY <1>4 DEF Walk
    <2> QED BY <1>4, <2>1, <2>2, <2>3 DEF Walk, TypeOK
  <1> QED BY <1>1, <1>2, <1>3, <1>4 DEF Loop

LEMMA TypeInit == Init => TypeOK
  <1> SUFFICES ASSUME Init PROVE TypeOK
    OBVIOUS
  <1>1. installed \in [RuleFiles -> (Contents \ Broken) \union {Absent}]
    BY SourceAssumption DEF Init, Sources, Loadable
  <1>2. read \in [RuleFiles -> (Contents \ Broken) \union {Absent}]
    BY DEF Init, Files0
  <1>3. events \in Seq(Files \union Subdirs) /\ Len(events) <= QueueLen
    BY SourceAssumption DEF Init
  <1> QED BY <1>1, <1>2, <1>3 DEF Init, TypeOK

LEMMA TypeStep == TypeOK /\ [Next]_vars => TypeOK'
  <1> SUFFICES ASSUME TypeOK, [Next]_vars PROVE TypeOK'
    OBVIOUS
  <1>1. CASE TimerFires
    BY <1>1 DEF TimerFires, TypeOK, tree, build
  <1>2. CASE Cancel
    BY <1>2 DEF Cancel, TypeOK, tree, build
  <1>3. CASE UNCHANGED vars
    BY <1>3 DEF vars, tree, build, TypeOK
  <1> QED BY <1>1, <1>2, <1>3, OperatorType, BuildType, LoopType DEF Next

\* Every state of the watcher has its type. (WatchRules)
THEOREM WatcherTypeCorrect == Spec => []TypeOK
  BY TypeInit, TypeStep, PTL DEF Spec

-----------------------------------------------------------------------------
(* The inductive invariant behind RestsUpToDate.  A change is either       *)
(* missed or announced, and an announcement is pending until a reload that *)
(* looks at every file has begun after it.                                 *)

\* A reload is going to be started.
Pending == timer # "off" \/ \E i \in DOMAIN events : events[i] \in RuleFiles

\* A file is in a directory that exists.
Housed == \A f \in Files : disk[f] # Absent => Exists(DirOf[f])

\* The rule files a build may yet find: all, as long as it has not read the root.
Unlisted == {f \in RuleFiles : Root \in unread \/ DirOf[f] \in unread}

\* No build is left behind once it is over, and one that runs knows of no other
\* directory before it has read the root, and finds a file before it loads it.
BuildsEnd ==
  IF Building
    THEN /\ Root \in unread => unread = {Root}
         /\ Unlisted \intersect listed = {}
         /\ \A f \in Unlisted \union listed : read[f] = Absent
    ELSE unread = {} /\ listed = {} /\ read = Files0

\* What a build has found or loaded is the disk's, unless a reload is due.
BuildsFollow ==
  ~cancelled /\ Building /\ ~Pending =>
    \A f \in RuleFiles \ (Unlisted \union missed) :
      IF f \in listed THEN disk[f] # Absent ELSE read[f] = disk[f]

\* Outside a build the bundle is the disk's, unless a reload is due.
BundleFollows ==
  ~cancelled /\ pc \in {"setup", "select"} /\ missed = {} /\ ~Pending =>
    UpToDate \/ ~Loadable(disk)

FollowInv == TypeOK /\ Housed /\ BuildsEnd /\ BuildsFollow /\ BundleFollows

\* An announcement makes a reload due, and one that fails is missed.
LEMMA Announced ==
  ASSUME TypeOK, NEW dir, NEW f \in Files, Announce(dir, f, {f}), timer' = timer
  PROVE  /\ missed \subseteq missed'
         /\ Pending => Pending'
         /\ f \in RuleFiles => f \in missed' \/ Pending'
  <1>1. events \in Seq(Files \union Subdirs)
    BY DEF TypeOK
  <1>2. CASE dir \in watched /\ Len(events) < QueueLen
    <2>1. events' = Append(events, f) /\ missed' = missed
      BY <1>2 DEF Announce
    <2>2. /\ \A i \in DOMAIN events : i \in DOMAIN events' /\ events'[i] = events[i]
          /\ Len(events) + 1 \in DOMAIN events' /\ events'[Len(events) + 1] = f
      BY <1>1, <2>1
    <2> QED BY <2>1, <2>2 DEF Pending
  <1>3. CASE ~(dir \in watched /\ Len(events) < QueueLen)
    BY <1>3 DEF Announce, Pending
  <1> QED BY <1>2, <1>3

\* What every edit of the source has in common keeps the two halves of the
\* invariant: a rule file that changed is missed, or a reload is due.
LEMMA EditFollows ==
  ASSUME FollowInv, Edit,
         missed \subseteq missed', Pending => Pending',
         \A f \in RuleFiles : disk'[f] = disk[f] \/ f \in missed' \/ Pending'
  PROVE  BuildsFollow' /\ BundleFollows'
  <1>1. UNCHANGED <<pc, unread, listed, read, cancelled, installed>>
    BY DEF Edit, build
  <1>2. BuildsFollow'
    BY <1>1 DEF FollowInv, BuildsFollow, Building, Unlisted
  <1>3. ASSUME ~cancelled', pc' \in {"setup", "select"}, missed' = {}, ~Pending'
        PROVE  UpToDate' \/ ~Loadable(disk')
    <2>1. \A f \in RuleFiles : disk'[f] = disk[f]
      BY <1>3
    <2>2. UpToDate \/ ~Loadable(disk)
      BY <1>1, <1>3 DEF FollowInv, BundleFollows
    <2>3. Sources(disk') = Sources(disk) /\ (Loadable(disk') <=> Loadable(disk))
      BY <2>1 DEF Sources, Loadable
    <2> QED BY <1>1, <2>2, <2>3 DEF UpToDate
  <1> QED BY <1>2, <1>3 DEF BundleFollows

LEMMA OperatorFollows == FollowInv /\ Operator => FollowInv'
  <1> SUFFICES ASSUME FollowInv, Operator PROVE FollowInv'
    OBVIOUS
  <1>1. TypeOK /\ TypeOK' /\ Housed
    BY OperatorType DEF FollowInv
  <1>2. Edit
    BY DEF Operator, ChangeFile, CreateDir, RemoveDir
  <1>3. BuildsEnd'
    BY <1>2 DEF Edit, build, FollowInv, BuildsEnd, Building, Unlisted
  <1>4. ASSUME NEW f \in Files, NEW c \in Contents \union {Absent}, ChangeFile(f, c)
        PROVE  FollowInv'
    <2>1. /\ missed \subseteq missed'
          /\ Pending => Pending'
          /\ f \in RuleFiles => f \in missed' \/ Pending'
      BY <1>1, <1>4, Announced DEF ChangeFile, Edit
    <2>2. \A g \in RuleFiles : disk'[g] = disk[g] \/ g \in missed' \/ Pending'
      BY <1>1, <1>4, <2>1, SourceAssumption DEF ChangeFile, TypeOK
    <2>3. Housed'
      BY <1>1, <1>4 DEF ChangeFile, Housed, Exists, TypeOK
    <2> QED BY <1>1, <1>2, <1>3, <2>1, <2>2, <2>3, EditFollows DEF FollowInv
  <1>5. ASSUME NEW d \in Subdirs, NEW files \in [Files -> Contents \union {Absent}],
               CreateDir(d, files)
        PROVE  FollowInv'
    <2>1. missed \subseteq missed'
      BY <1>5 DEF CreateDir
    <2>2. Pending => Pending'
      <3>1. timer' = timer /\ events \in Seq(Files \union Subdirs)
        BY <1>1, <1>5 DEF CreateDir, Edit, TypeOK
      <3>2. events' = events \/ events' = Append(events, d)
        BY <1>5 DEF CreateDir
      <3>3. \A i \in DOMAIN events : i \in DOMAIN events' /\ events'[i] = events[i]
        BY <3>1, <3>2
      <3> QED BY <3>1, <3>3 DEF Pending
    <2>3. \A g \in RuleFiles : disk'[g] = disk[g] \/ g \in missed'
      BY <1>1, <1>5, SourceAssumption DEF CreateDir, Housed, Exists, TypeOK
    <2>4. Housed'
      BY <1>1, <1>5, SourceAssumption DEF CreateDir, Housed, Exists, TypeOK
    <2> QED BY <1>1, <1>2, <1>3, <2>1, <2>2, <2>3, <2>4, EditFollows DEF FollowInv
  <1>6. ASSUME NEW d \in Subdirs, RemoveDir(d)
        PROVE  FollowInv'
    <2>1. missed \subseteq missed' /\ (Pending => Pending')
      BY <1>6 DEF RemoveDir, Edit, Pending
    <2>2. \A g \in RuleFiles : disk'[g] = disk[g] \/ g \in missed'
      BY <1>6, SourceAssumption DEF RemoveDir
    <2>3. Housed'
      BY <1>1, <1>6 DEF RemoveDir, Housed, Exists
    <2> QED BY <1>1, <1>2, <1>3, <2>1, <2>2, <2>3, EditFollows DEF FollowInv
  <1> QED BY <1>4, <1>5, <1>6 DEF Operator

\* A build that is given up leaves nothing behind, and it is given up because
\* the disk does not load, a reload is due, or the change it was to pick up is
\* missed.
LEMMA AbandonFollows ==
  ASSUME FollowInv, TypeOK', Building, Abandon, UNCHANGED <<tree, cancelled>>,
         installed' = installed,
         ~cancelled /\ missed' = {} /\ ~Pending' => UpToDate \/ ~Loadable(disk)
  PROVE  FollowInv'
  <1>1. Housed'
    BY DEF FollowInv, Housed, Exists, tree
  <1>2. ~Building' /\ unread' = {} /\ listed' = {} /\ read' = Files0
    BY DEF Building, Abandon, AfterFailure
  <1>3. BundleFollows'
    BY DEF BundleFollows, UpToDate, tree
  <1> QED BY <1>1, <1>2, <1>3 DEF FollowInv, BuildsEnd, BuildsFollow

\* Reading a directory finds the files in it, and leaves those to be found that are
\* in directories yet to be read.
LEMMA ReadingListsFiles ==
  ASSUME TypeOK, Housed, Root \in unread => unread = {Root},
         NEW d \in unread, unread' = (unread \ {d}) \union DirsIn(d)
  PROVE  /\ Unlisted' \subseteq Unlisted
         /\ FilesIn(d) \subseteq Unlisted \ Unlisted'
         /\ \A f \in Unlisted \ Unlisted' : f \in FilesIn(d) \/ disk[f] = Absent
  <1>1. Root \notin present /\ RuleFiles \subseteq Files
    BY SourceAssumption DEF TypeOK
  <1>2. CASE d = Root
    <2>1. unread' = DirsIn(Root) /\ Root \notin unread'
      BY <1>1, <1>2 DEF DirsIn
    <2>2. Unlisted = RuleFiles /\ Unlisted' = {f \in RuleFiles : DirOf[f] \in unread'}
      BY <1>2, <2>1 DEF Unlisted
    <2>3. \A f \in RuleFiles : DirOf[f] = Root \/ DirOf[f] \in unread' \/ disk[f] = Absent
      BY <1>1, <2>1, SourceAssumption DEF DirsIn, Housed, Exists
    <2> QED BY <1>2, <2>1, <2>2, <2>3 DEF FilesIn
  <1>3. CASE d # Root
    <2>1. Root \notin unread /\ unread' = unread \ {d}
      BY <1>3 DEF DirsIn
    <2> QED BY <2>1 DEF Unlisted, FilesIn
  <1> QED BY <1>2, <1>3

LEMMA BuildFollows == FollowInv /\ Build => FollowInv'
  <1> SUFFICES ASSUME FollowInv, Build PROVE FollowInv'
    OBVIOUS
  <1>1. TypeOK /\ TypeOK'
    BY BuildType DEF FollowInv
  <1>2. Housed' /\ Building /\ (timer' = timer /\ events' = events)
    BY DEF FollowInv, Housed, Exists, tree, Build, ListSource, WalkFails, LoadDocument,
           ReadError, BuildCancelled, Publish
  <1>3. Pending' <=> Pending
    BY <1>2 DEF Pending
  <1>4. ASSUME NEW d \in Subdirs \union {Root}, ListSource(d) PROVE FollowInv'
    <2>1. CASE Mode = "file" /\ \E f \in RuleFiles : disk[f] = Absent
      <3>1. ~Loadable(disk)
        BY <2>1 DEF Loadable
      <3> QED BY <1>1, <1>2, <1>4, <2>1, <3>1, AbandonFollows DEF ListSource, tree
    <2>2. CASE ~(Mode = "file" /\ \E f \in RuleFiles : disk[f] = Absent)
      <3>1. /\ unread' = (unread \ {d}) \union DirsIn(d) /\ d \in unread
            /\ listed' = listed \union FilesIn(d)
            /\ UNCHANGED <<pc, read, disk, cancelled, missed, installed>>
        BY <1>4, <2>2 DEF ListSource, tree
      <3>2. Building'
        BY <1>2, <3>1 DEF Building
      <3>3. /\ Unlisted' \subseteq Unlisted
            /\ FilesIn(d) \subseteq Unlisted \ Unlisted'
            /\ \A f \in Unlisted \ Unlisted' : f \in FilesIn(d) \/ disk[f] = Absent
        BY <1>1, <1>2, <3>1, ReadingListsFiles DEF FollowInv, BuildsEnd
      <3>4. BuildsEnd'
        <4>1. Root \in unread' => unread' = {Root}
          BY <1>1, <1>2, <3>1, SourceAssumption DEF FollowInv, BuildsEnd, DirsIn, TypeOK
        <4> QED BY <1>2, <3>1, <3>2, <3>3, <4>1 DEF FollowInv, BuildsEnd
      <3>5. ASSUME ~cancelled', ~Pending',
                   NEW g \in RuleFiles, g \notin Unlisted' \union missed'
            PROVE  IF g \in listed' THEN disk[g] # Absent ELSE read[g] = disk[g]
        <4>1. CASE g \in Unlisted
          BY <1>2, <3>1, <3>3, <3>5, <4>1 DEF FollowInv, BuildsEnd, FilesIn
        <4>2. CASE g \notin Unlisted
          <5>1. g \notin Unlisted \union missed /\ (g \in listed' <=> g \in listed)
            BY <3>1, <3>3, <3>5, <4>2
          <5> QED BY <1>2, <1>3, <3>1, <3>5, <5>1 DEF FollowInv, BuildsFollow
        <4> QED BY <4>1, <4>2
      <3>6. BuildsFollow'
        BY <3>1, <3>5 DEF BuildsFollow
      <3>7. BundleFollows'
        BY <1>2, <3>1 DEF FollowInv, BundleFollows, Building
      <3> QED BY <1>1, <1>2, <3>4, <3>6, <3>7 DEF FollowInv
    <2> QED BY <2>1, <2>2
  <1>5. ASSUME NEW f \in RuleFiles, LoadDocument(f) PROVE FollowInv'
    <2>1. CASE disk[f] = Absent \/ disk[f] \in Broken
      <3>1. UNCHANGED <<tree, cancelled, installed, missed>> /\ Abandon /\ f \in listed /\ unread = {}
        BY <1>5, <2>1 DEF LoadDocument
      <3>2. ASSUME ~cancelled, missed' = {}, ~Pending' PROVE ~Loadable(disk)
        <4>1. disk[f] # Absent
          BY <1>2, <1>3, <3>1, <3>2 DEF FollowInv, BuildsFollow, Unlisted
        <4> QED BY <2>1, <4>1 DEF Loadable
      <3> QED BY <1>1, <1>2, <3>1, <3>2, AbandonFollows
    <2>2. CASE ~(disk[f] = Absent \/ disk[f] \in Broken)
      <3>1. /\ listed' = listed \ {f} /\ f \in listed /\ unread = {}
            /\ read' = [read EXCEPT ![f] = disk[f]]
            /\ UNCHANGED <<pc, unread, disk, cancelled, missed, installed>>
        BY <1>5, <2>2 DEF LoadDocument, tree
      <3>2. Building'
        BY <1>2, <3>1 DEF Building
      <3>3. BuildsFollow'
        BY <1>1, <1>2, <1>3, <3>1, <3>2 DEF FollowInv, BuildsFollow, TypeOK, Unlisted
      <3>4. BundleFollows' /\ BuildsEnd'
        BY <1>1, <1>2, <3>1, <3>2 DEF FollowInv, BundleFollows, BuildsEnd, Building, TypeOK, Unlisted
      <3> QED BY <1>1, <1>2, <3>3, <3>4 DEF FollowInv
    <2> QED BY <2>1, <2>2
  <1>6. ASSUME UNCHANGED <<tree, cancelled, installed>>, Abandon,
               missed' = missed \union Dropped
        PROVE  FollowInv'
    <2>1. missed' = {} => UpToDate
      BY <1>1, <1>6 DEF Dropped, UpToDate, Sources, TypeOK
    <2> QED BY <1>1, <1>2, <1>6, <2>1, AbandonFollows
  <1>7. ASSUME NEW f \in RuleFiles, ReadError(f) PROVE FollowInv'
    BY <1>6, <1>7 DEF ReadError
  <1>8. ASSUME NEW d \in Subdirs \union {Root}, WalkFails(d) PROVE FollowInv'
    BY <1>6, <1>8 DEF WalkFails
  <1>9. CASE BuildCancelled
    <2>1. UNCHANGED <<tree, cancelled, installed>> /\ Abandon /\ cancelled
      BY <1>9 DEF BuildCancelled
    <2> QED BY <1>1, <1>2, <2>1, AbandonFollows
  <1>10. CASE Publish
    <2>1. /\ unread = {} /\ listed = {} /\ installed' = read /\ read' = Files0
          /\ missed' = {f \in missed : read[f] # disk[f]}
          /\ UNCHANGED <<unread, listed, disk, cancelled>>
      BY <1>10 DEF Publish, tree
    <2>2. ~Building'
      BY <1>10 DEF Publish, AfterSuccess, Building
    <2>3. ASSUME ~cancelled', missed' = {}, ~Pending' PROVE installed' = Sources(disk')
      <3>1. \A f \in RuleFiles : read[f] = disk[f]
        BY <1>2, <1>3, <2>1, <2>3 DEF FollowInv, BuildsFollow, Unlisted
      <3> QED BY <1>1, <2>1, <3>1 DEF Sources, TypeOK
    <2>4. BundleFollows'
      BY <2>3 DEF BundleFollows, UpToDate
    <2> QED BY <1>1, <1>2, <2>1, <2>2, <2>4 DEF FollowInv, BuildsEnd, BuildsFollow
  <1> QED BY <1>4, <1>5, <1>7, <1>8, <1>9, <1>10 DEF Build

LEMMA LoopFollows == FollowInv /\ Loop => FollowInv'
  <1> SUFFICES ASSUME FollowInv, Loop PROVE FollowInv'
    OBVIOUS
  <1>1. TypeOK /\ TypeOK'
    BY LoopType DEF FollowInv
  <1>2. UNCHANGED <<tree, cancelled, installed, missed, listed, read>>
    BY DEF Loop, HandleEvent, StartReload, Exit, Walk, build
  <1>3. Housed' /\ ~Building /\ unread = {} /\ listed = {} /\ read = Files0
    BY <1>2 DEF FollowInv, Housed, Exists, tree, Loop, HandleEvent, StartReload, Exit, Walk,
                Building, BuildsEnd
  <1>4. CASE HandleEvent
    <2>1. Pending => Pending'
      <3>1. /\ events \in Seq(Files \union Subdirs) /\ events # <<>>
            /\ events' = Tail(events)
            /\ timer' = IF Head(events) \in RuleFiles THEN "running" ELSE timer
        BY <1>1, <1>4 DEF HandleEvent, TypeOK
      <3>2. /\ Head(events) = events[1]
            /\ \A i \in DOMAIN events : i # 1 => i - 1 \in DOMAIN events' /\ events'[i - 1] = events[i]
        BY <3>1, TailOfQueue
      <3> QED BY <3>1, <3>2 DEF Pending
    <2>2. UNCHANGED <<pc, unread>>
      BY <1>4 DEF HandleEvent, build
    <2> QED BY <1>1, <1>2, <1>3, <2>1, <2>2
            DEF FollowInv, BuildsEnd, BuildsFollow, BundleFollows, Building, UpToDate, tree
  <1>5. CASE StartReload
    <2>1. pc' = "reload" /\ unread' = {Root} /\ Unlisted' = RuleFiles
      BY <1>5 DEF StartReload, Unlisted
    <2>2. BuildsEnd'
      BY <1>2, <1>3, <2>1 DEF BuildsEnd, Building, Files0
    <2> QED BY <1>1, <1>2, <1>3, <2>1, <2>2 DEF FollowInv, BuildsFollow, BundleFollows
  <1>6. CASE Exit
    <2>1. pc' = "exited" /\ UNCHANGED unread
      BY <1>6 DEF Exit, build
    <2> QED BY <1>1, <1>2, <1>3, <2>1 DEF FollowInv, BuildsEnd, BuildsFollow, BundleFollows, Building
  <1>7. ASSUME NEW d \in Subdirs \union {Root}, Walk(d) PROVE FollowInv'
    <2>1. pc = "setup" /\ pc' \in {"setup", "select"} /\ UNCHANGED <<unread, events, timer>>
      BY <1>7 DEF Walk, build
    <2>2. Pending' <=> Pending
      BY <2>1 DEF Pending
    <2> QED BY <1>1, <1>2, <1>3, <2>1, <2>2
            DEF FollowInv, BuildsEnd, BuildsFollow, BundleFollows, Building, UpToDate, tree
  <1> QED BY <1>4, <1>5, <1>6, <1>7 DEF Loop

\* FollowInv is an invariant of the watcher.
LEMMA Followed == Spec => []FollowInv
  <1>1. Init /\ TypeOK => FollowInv
    BY DEF Init, FollowInv, Housed, BuildsEnd, BuildsFollow, BundleFollows, Building, Files0, Unlisted
  <1>2. FollowInv /\ [Next]_vars => FollowInv'
    <2> SUFFICES ASSUME FollowInv, TypeOK', [Next]_vars PROVE FollowInv'
      BY TypeStep DEF FollowInv
    <2>1. CASE TimerFires
      <3>1. Pending /\ Pending'
        BY <2>1 DEF TimerFires, Pending
      <3> QED BY <2>1, <3>1 DEF TimerFires, tree, build, FollowInv, Housed, Exists, BuildsEnd,
                                BuildsFollow, BundleFollows, Building, Unlisted
    <2>2. CASE Cancel
      BY <2>2 DEF Cancel, tree, build, FollowInv, Housed, Exists, BuildsEnd, BuildsFollow,
                  BundleFollows, Building, Unlisted
    <2>3. CASE UNCHANGED vars
      BY <2>3 DEF vars, tree, build, FollowInv, Housed, Exists, BuildsEnd, BuildsFollow,
                  BundleFollows, Building, Pending, UpToDate, Unlisted
    <2> QED BY <2>1, <2>2, <2>3, OperatorFollows, BuildFollows, LoopFollows DEF Next
  <1>3. Init => TypeOK
    BY TypeInit
  <1> QED BY <1>1, <1>2, <1>3, PTL DEF Spec

\* Whenever the watcher is at rest the installed bundle is the one on disk, unless
\* the disk does not load, a change was never announced, or the build that was to
\* pick it up failed on a directory or file that it could not read: WalkDir's
\* error path is in it. (WatchRules, collectRuleSources)
THEOREM RestIsUpToDate == Spec => []RestsUpToDate
  <1>1. FollowInv => RestsUpToDate
    BY DEF FollowInv, BundleFollows, Pending, RestsUpToDate, AtRest
  <1> QED BY <1>1, Followed, PTL

-----------------------------------------------------------------------------
(* The watcher takes the steps of the process's outline of it.  What the   *)
(* outline sees at the end depends on whether the directories were walked: *)
(* the watcher exits before that only when it never came to be.            *)

WalkInv ==
  /\ pc = "initial" => walk = {Root}
  /\ pc \in {"select", "reload"} => walk = {}

OutlineInv == TypeOK /\ WalkInv

\* A build is given up, or ends, where it was begun.
LEMMA BuildLeaves ==
  ASSUME OutlineInv, Build
  PROVE  /\ UNCHANGED <<walk, cancelled>>
         /\ Building
         /\ pc' \in {pc, AfterFailure, AfterSuccess}
  BY DEF Build, ListSource, WalkFails, LoadDocument, ReadError, BuildCancelled, Publish,
         Abandon

LEMMA WalkStep == OutlineInv /\ [Next]_vars => WalkInv'
  <1> SUFFICES ASSUME OutlineInv, [Next]_vars PROVE WalkInv'
    OBVIOUS
  <1> USE DEF OutlineInv, WalkInv
  <1>1. CASE Operator
    BY <1>1 DEF Operator, ChangeFile, CreateDir, RemoveDir, Edit
  <1>2. CASE Build
    BY <1>2, BuildLeaves DEF Building, AfterFailure, AfterSuccess
  <1>3. CASE HandleEvent
    BY <1>3 DEF HandleEvent
  <1>4. CASE StartReload
    BY <1>4 DEF StartReload
  <1>5. CASE Exit
    BY <1>5 DEF Exit
  <1>6. ASSUME NEW d \in Subdirs \union {Root}, Walk(d) PROVE WalkInv'
    BY <1>6 DEF Walk
  <1>7. CASE TimerFires
    BY <1>7 DEF TimerFires
  <1>8. CASE Cancel
    BY <1>8 DEF Cancel
  <1>9. CASE UNCHANGED vars
    BY <1>9 DEF vars
  <1> QED BY <1>1, <1>2, <1>3, <1>4, <1>5, <1>6, <1>7, <1>8, <1>9 DEF Next, Loop

\* A step that leaves alone what the outline sees is none of its steps.
LEMMA OutOfSight ==
  ASSUME Seen' = Seen, pc' = "initial" <=> pc = "initial", cancelled' = cancelled
  PROVE  UNCHANGED Outline!vars
  BY DEF Outline!vars, Outline!process, Outline!rules

LEMMA StepIsOutlined == OutlineInv /\ [Next]_vars => [Outline!Next]_(Outline!vars)
  <1> SUFFICES ASSUME OutlineInv, [Next]_vars PROVE Outline!Next \/ UNCHANGED Outline!vars
    OBVIOUS
  <1> USE DEF OutlineInv, WalkInv
  <1>1. CASE Operator
    <2>1. UNCHANGED <<pc, walk, cancelled>>
      BY <1>1 DEF Operator, ChangeFile, CreateDir, RemoveDir, Edit
    <2> QED BY <2>1, OutOfSight DEF Seen
  <1>2. CASE Build
    <2>1. CASE pc' = pc
      BY <1>2, <2>1, BuildLeaves, OutOfSight DEF Seen
    <2>2. CASE pc = "initial" /\ pc' # pc
      <3>1. pc' \in {"setup", "exited"} /\ walk' # {} /\ cancelled' = cancelled
        BY <1>2, <2>2, BuildLeaves DEF AfterFailure, AfterSuccess
      <3>2. Outline!StartWatcher
        BY <2>2, <3>1 DEF Outline!StartWatcher, Outline!process, Seen
      <3> QED BY <3>2 DEF Outline!Next, Outline!Main
    <2>3. CASE pc = "reload" /\ pc' # pc
      <3>1. pc' = "select" /\ cancelled' = cancelled
        BY <1>2, <2>3, BuildLeaves DEF AfterFailure, AfterSuccess
      <3>2. Outline!Build
        BY <2>3, <3>1 DEF Outline!Build, Outline!process, Seen
      <3> QED BY <3>2 DEF Outline!Next, Outline!Watch
    <2> QED BY <1>2, <2>1, <2>2, <2>3, BuildLeaves DEF Building
  <1>3. CASE HandleEvent
    BY <1>3, OutOfSight DEF HandleEvent, Seen
  <1>4. CASE StartReload
    <2>1. pc = "select" /\ pc' = "reload" /\ cancelled' = cancelled
      BY <1>4 DEF StartReload
    <2>2. Outline!StartReload
      BY <2>1 DEF Outline!StartReload, Outline!process, Seen
    <2> QED BY <2>2 DEF Outline!Next, Outline!Watch
  <1>5. CASE Exit
    <2>1. pc = "select" /\ pc' = "exited" /\ cancelled /\ walk' = {} /\ cancelled' = cancelled
      BY <1>5 DEF Exit
    <2>2. Outline!WatcherExits
      BY <2>1 DEF Outline!WatcherExits, Outline!Cancelled, Outline!process, Seen
    <2> QED BY <2>2 DEF Outline!Next, Outline!Watch
  <1>6. ASSUME NEW d \in Subdirs \union {Root}, Walk(d) PROVE UNCHANGED Outline!vars
    <2>1. pc = "setup" /\ pc' \in {"setup", "select"} /\ cancelled' = cancelled
      BY <1>6 DEF Walk
    <2> QED BY <2>1, OutOfSight DEF Seen
  <1>7. CASE TimerFires
    BY <1>7, OutOfSight DEF TimerFires, Seen
  <1>8. CASE Cancel
    <2>1. UNCHANGED <<pc, walk>> /\ ~cancelled /\ cancelled'
      BY <1>8 DEF Cancel
    <2>2. Outline!Signal
      BY <1>8, <2>1 DEF Outline!Signal, Outline!rules, Seen, Cancel
    <2> QED BY <2>2 DEF Outline!Next
  <1>9. CASE UNCHANGED vars
    BY <1>9, OutOfSight DEF vars, Seen
  <1> QED BY <1>1, <1>2, <1>3, <1>4, <1>5, <1>6, <1>7, <1>8, <1>9 DEF Next, Loop

\* Every step of the watcher is one the outline of the process has for it, or
\* one it does not see: the two models agree on when the goroutine comes to be,
\* builds, waits and leaves. (WatchRules, reload, RulesWatcher.Stop)
THEOREM WatcherFollowsOutline == Spec => FollowsOutline
  <1>1. Init => WalkInv
    BY DEF Init, WalkInv
  <1>2. OutlineInv /\ [Next]_vars => OutlineInv'
    BY WalkStep, TypeStep DEF OutlineInv
  <1>3. Init => OutlineInv
    BY <1>1, TypeInit DEF OutlineInv
  <1>4. OutlineInv /\ [Next]_vars => [Outline!Next]_(Outline!vars)
    BY StepIsOutlined
  <1> QED BY <1>2, <1>3, <1>4, PTL DEF Spec, FollowsOutline

-----------------------------------------------------------------------------
(* What StopReturns rests on besides fairness: the goroutine comes back to *)
(* its select, where it sees that it was cancelled.                        *)

\* A directory less to visit. The root, of which a walk has the others, is visited
\* once.
OneLess(before, after) ==
  /\ Root \notin before => Root \notin after
  /\ \/ Root \in before /\ Root \notin after
     \/ after \subseteq before /\ after # before

\* A directory less to read, or a file less to load.
BuildShrinks ==
  \/ OneLess(unread, unread')
  \/ unread' = unread /\ listed' \subseteq listed /\ listed' # listed

WalkShrinks == OneLess(walk, walk')

GoesOn ==
  \/ pc' # pc
  \/ Building /\ BuildShrinks /\ UNCHANGED walk
  \/ pc = "setup" /\ WalkShrinks /\ UNCHANGED build

Visit == \E d \in Subdirs \union {Root} : Walk(d)

LEMMA BuildGoesOn == TypeOK /\ BuildsEnd /\ Build => GoesOn
  <1> SUFFICES ASSUME TypeOK, BuildsEnd, Build PROVE GoesOn
    OBVIOUS
  <1>1. Building /\ UNCHANGED walk
    BY DEF Build, ListSource, WalkFails, LoadDocument, ReadError, BuildCancelled, Publish
  <1>2. ASSUME Abandon \/ Publish PROVE pc' # pc
    BY <1>1, <1>2 DEF Abandon, AfterFailure, Publish, AfterSuccess, Building
  <1>3. ASSUME NEW d \in Subdirs \union {Root}, ListSource(d) PROVE GoesOn
    <2>1. Root \notin present
      BY SourceAssumption DEF TypeOK
    <2>2. CASE d \in unread /\ unread' = (unread \ {d}) \union DirsIn(d)
      BY <1>1, <1>3, <2>1, <2>2 DEF ListSource, DirsIn, GoesOn, BuildShrinks, OneLess
    <2> QED BY <1>2, <1>3, <2>2 DEF ListSource, GoesOn
  <1>8. ASSUME NEW d \in Subdirs \union {Root}, WalkFails(d) PROVE GoesOn
    BY <1>2, <1>8 DEF WalkFails, GoesOn
  <1>4. ASSUME NEW f \in RuleFiles, LoadDocument(f) PROVE GoesOn
    BY <1>1, <1>2, <1>4 DEF LoadDocument, GoesOn, BuildShrinks
  <1>5. ASSUME NEW f \in RuleFiles, ReadError(f) PROVE GoesOn
    BY <1>2, <1>5 DEF ReadError, GoesOn
  <1>6. CASE BuildCancelled
    BY <1>2, <1>6 DEF BuildCancelled, GoesOn
  <1>7. CASE Publish
    BY <1>2, <1>7 DEF GoesOn
  <1> QED BY <1>3, <1>4, <1>5, <1>6, <1>7, <1>8 DEF Build

LEMMA VisitGoesOn == TypeOK /\ Visit => GoesOn
  <1> SUFFICES ASSUME TypeOK, NEW d \in Subdirs \union {Root}, Walk(d) PROVE GoesOn
    BY DEF Visit
  <1>1. pc = "setup" /\ d \in walk /\ UNCHANGED build
        /\ walk' = (walk \ {d}) \union DirsIn(d)
    BY DEF Walk
  <1>2. Root \notin present
    BY SourceAssumption DEF TypeOK
  <1>3. CASE d = Root
    BY <1>1, <1>2, <1>3 DEF GoesOn, WalkShrinks, OneLess, DirsIn
  <1>4. CASE d # Root
    BY <1>1, <1>4 DEF GoesOn, WalkShrinks, OneLess, DirsIn
  <1> QED BY <1>3, <1>4

\* The work in hand: nobody else adds to it.
LEMMA WorkIsLeftAlone ==
  ASSUME TypeOK, [Next]_vars, ~Build, ~Visit, pc # "select"
  PROVE  UNCHANGED <<pc, walk, build>>
  <1>1. CASE Operator
    BY <1>1 DEF Operator, ChangeFile, CreateDir, RemoveDir, Edit
  <1>2. CASE TimerFires \/ Cancel
    BY <1>2 DEF TimerFires, Cancel
  <1>3. CASE Loop
    BY <1>3 DEF Loop, Visit, HandleEvent, StartReload, Exit
  <1>4. CASE UNCHANGED vars
    BY <1>4 DEF vars
  <1> QED BY <1>1, <1>2, <1>3, <1>4 DEF Next

\* A build and a walk end: each of their steps leaves less to do, and neither
\* edits, however many there are, nor events add to what is to be done. With
\* WatcherFollowsOutline, which has the order of the phases, the goroutine is
\* back in its select after a bounded number of its steps. (buildRuleBundle)
THEOREM WorkRunsOut ==
  Spec => [][IF Build \/ Visit THEN GoesOn
             ELSE pc = "select" \/ UNCHANGED <<pc, walk, build>>]_vars
  <1>1. FollowInv => TypeOK /\ BuildsEnd
    BY DEF FollowInv
  <1>2. FollowInv /\ [Next]_vars =>
          [IF Build \/ Visit THEN GoesOn
           ELSE pc = "select" \/ UNCHANGED <<pc, walk, build>>]_vars
    BY <1>1, BuildGoesOn, VisitGoesOn, WorkIsLeftAlone
  <1> QED BY <1>2, Followed, PTL DEF Spec
=============================================================================
