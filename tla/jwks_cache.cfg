SPECIFICATION Spec
CONSTANTS
  Keys = {k1, k2}
  Verifiers = {v1, v2}
  Freshness = 3
  Timeout = 2
  Horizon = 6
  NoKey = NoKey
  Never <- MinusOne
SYMMETRY Interchangeable
INVARIANT TypeOK
PROPERTIES
  TrustIsBounded
  UnknownIsRecent
CHECK_DEADLOCK FALSE
