\* A backend that names lifetimes above and below the server's ceiling, and a
\* cache no reload and no restart purges.
SPECIFICATION FairSpec
CONSTANTS
  Requests = {r1}
  Bundles = {b1, b2}
  Names = {A}
  URLs = {u1}
  Endpoints = {e1}
  Callers = {c1}
  Payloads = {p1}
  Proxies = {NoProxies}
  Traces = {t1}
  NoProxies = NoProxies
  Queries = {q1}
  Bodies = {x}
  Statuses = {"2xx", "4xx"}
  Controls <- HeaderLines
  TTLs <- MixedTTLs
  ServerMaxTTL = 3
  Second = 2
  HalfRange = 8
  NoURL = NoURL
  NoValue = NoValue
  Blank = Blank
  NoDirective = NoDirective
  Bare = Bare
  Garbled = Garbled
  NoEntry = NoEntry
  NoRequest = NoRequest
  b1 = b1
  b2 = b2
  e1 = e1
  e2 = e2
  A = A
  B = B
  u1 = u1
  u2 = u2
  Chain <- LifetimeChain
  Anonymous <- NoAnonymous
  Backend = "redis"
INVARIANTS
  ReuseIsBounded
  ReuseHonoursBackend
PROPERTIES
  StaleVerdictsDrain
