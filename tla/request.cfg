\* Requests through trusted and untrusted proxies, with credentials of every
\* kind, and through a backend with pages.
SPECIFICATION Spec
CONSTANTS
  Addrs = {client, proxy, stranger}
  client = client
  proxy = proxy
  stranger = stranger
  Secrets = {s1, s2, halfBasic}
  s1 = s1
  s2 = s2
  halfBasic = halfBasic
  Partial <- MCPartial
  HeaderNames = {h1}
  h1 = h1
  QueryNames = {q1}
  q1 = q1
  Pages = {p1, p2}
  p1 = p1
  p2 = p2
  Links <- MCLinks
  Statuses = {"2xx", "4xx"}
  Absent = Absent
  Blank = Blank
  Malformed = Malformed
  NoKey = NoKey
  NoURL = NoURL
  Cases <- MCCases
INVARIANTS
  TypeOK
  ClientIsVouchedFor
  CallsAreWarranted
  RulesReadTheirOwnPages
  PassIsEarned
  VerdictsStayWithTheirCaller
  VerdictsStayWithTheirClient
PROPERTIES
  RequestsRunOut
