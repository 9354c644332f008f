\* A loose rule that exports the backend's status.
SPECIFICATION Spec
CONSTANTS
  Requests = {r1, r2}
  Bundles = {b1}
  Names = {A}
  URLs = {u1}
  Endpoints = {e1}
  Callers = {c1}
  Payloads = {p1}
  Proxies = {NoProxies}
  Traces = {t1}
  NoProxies = NoProxies
  Queries = {q1}
  Bodies = {x}
  Statuses = {"2xx", "4xx"}
  Controls <- NoHeaders
  TTLs = {1}
  ServerMaxTTL = 1
  Second = 1
  HalfRange = 8
  NoURL = NoURL
  NoValue = NoValue
  Blank = Blank
  NoDirective = NoDirective
  Bare = Bare
  Garbled = Garbled
  NoEntry = NoEntry
  NoRequest = NoRequest
  b1 = b1
  b2 = b2
  e1 = e1
  e2 = e2
  A = A
  B = B
  u1 = u1
  u2 = u2
  Chain <- LooseExportChain
  Anonymous <- NoAnonymous
  Backend = "memory"
SYMMETRY RequestSymmetry
INVARIANTS
  HitRestoresVariables
