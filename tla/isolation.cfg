\* A loose rule's exported variable reaches a strict rule, two callers share the
\* cache, and callers of e2 may be anonymous.
SPECIFICATION Spec
CONSTANTS
  Requests = {r1}
  Bundles = {b1}
  Names = {A, B}
  URLs = {u1}
  Endpoints = {e1, e2}
  Callers = {c1, c2}
  Payloads = {p1, p2}
  Proxies = {NoProxies, x1}
  Traces = {t1, t2}
  NoProxies = NoProxies
  Queries = {q1}
  Bodies = {x}
  Statuses = {"2xx"}
  Controls <- NoHeaders
  TTLs = {1}
  ServerMaxTTL = 1
  Second = 1
  HalfRange = 8
  NoURL = NoURL
  NoValue = NoValue
  Blank = Blank
  NoDirective = NoDirective
  Bare = Bare
  Garbled = Garbled
  NoEntry = NoEntry
  NoRequest = NoRequest
  b1 = b1
  b2 = b2
  e1 = e1
  e2 = e2
  A = A
  B = B
  u1 = u1
  u2 = u2
  Chain <- VariableChain
  Anonymous <- SecondAnonymous
  Backend = "memory"
SYMMETRY AskSymmetry
CONSTRAINT FewEntries
INVARIANTS
  ReuseMatchesInputs
  StoredIsFound
PROPERTIES
  ImplementsService
