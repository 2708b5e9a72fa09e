SPECIFICATION FairSpec
CONSTANTS
  Callers = {c1, c2}
  Skew = 4
  FetchTime = 2
  OpTime = 3
  Lifetimes <- LongAndShort
  Horizon = 7
  NoToken = NoToken
  NoFlight = NoFlight
INVARIANTS
  TypeOK
  FetchesOnlyWhenStale
  UseIsBounded
PROPERTY CallersReturn
CHECK_DEADLOCK FALSE
