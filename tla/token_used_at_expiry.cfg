SPECIFICATION Spec
CONSTANTS
  Callers = {c1, c2}
  Skew = 12
  FetchTime = 6
  OpTime = 8
  Lifetimes <- Long
  Horizon = 18
  NoToken = NoToken
  NoFlight = NoFlight
INVARIANT NeverUsedAtExpiry
CHECK_DEADLOCK FALSE
