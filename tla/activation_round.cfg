SPECIFICATION FairSpec
CONSTANTS
  Order <- FourRoles
  Limit = 2
  Request = request
  Operator = operator
  Requester = requester
  ServiceActor = service
  Handler = handler
  Email = email
  Invite = Invite
  NoRow = NoRow
  NoJob = NoJob
INVARIANTS
  TypeOK
  FitsOnboarding
  HonestResult
  LeavesNothingRunning
PROPERTIES
  StepsAreOnboardings
  FanOutEnds
CHECK_DEADLOCK FALSE
