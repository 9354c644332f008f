\* A rules folder with one subdirectory that comes and goes.
SPECIFICATION FairSpec
CONSTANTS
  Files = {top, nested}
  RuleFiles = {top, nested}
  Contents = {good, bad}
  Broken = {bad}
  Root = root
  Subdirs = {sub}
  Mode = "folder"
  QueueLen = 2
  Absent = Absent
  top = top
  nested = nested
  root = root
  sub = sub
  DirOf <- NestedDirOf
INVARIANTS
  TypeOK
  RestsUpToDate
PROPERTIES
  ChangesArrive
  StopReturns
  FollowsOutline
