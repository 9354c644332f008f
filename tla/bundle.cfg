\* What the configuration and two rule documents may hold together.
SPECIFICATION LoadSpec
CONSTANTS
  Definitions <- MCDefinitions
  Documents <- MCDocuments
  Position <- MCPosition
  Inline = s1
  Key <- MCKey
  A = A
  B = B
  E = E
  e = e
  s1 = s1
  s2 = s2
  s3 = s3
CHECK_DEADLOCK FALSE
INVARIANTS
  BundleIsOrderless
  SkipsTellAll
  NamesAreSettled
  InlineRulesAsConfigured
  ServedChainsAreWhole
