\* A reader while the pipeline goes from any bundle to any other.
SPECIFICATION Spec
CONSTANTS
  Bundles = {whole, partial, uncompiled, twins}
  Readers = {r1}
  Names = {e1, e2, E2, fb}
  Fallback = fb
  Skips = {twins}
  Unnamed = Unnamed
  None = None
  EndpointsOf <- MCEndpointsOf
  RulesOf <- MCRulesOf
  Key <- MCKey
  whole = whole
  partial = partial
  uncompiled = uncompiled
  twins = twins
  e1 = e1
  e2 = e2
  E2 = E2
  fb = fb
  A = A
  B = B
  k1 = k1
  k2 = k2
  kf = kf
  r1 = r1
INVARIANTS
  TableMatchesBundle
  AnswersMatchABundle
  ReportsMatchABundle
PROPERTIES
  ImplementsRouting
