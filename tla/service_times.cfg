SPECIFICATION FairServiceSpec
CONSTANTS
  Requests = {r1}
  Emails = {e1}
  Roles = {clerk, pilot}
  Subjects = {alice, bob}
  Approvers = {bob}
  ServiceActor = service
  Handlers = {h1, h2}
  Invite = Invite
  NoRow = NoRow
  NoJob = NoJob
  DecisionCheck <- CheckRepaired
  ExecWhileIterating = TRUE
  Lease = 12
  CallTime = 4
  TxTime = 2
  Period = 3
  Grace = 4
INVARIANTS
  TimersOK
  LeaseCoversHandler
  SettledInTime
PROPERTY SettledBetweenRestarts
CHECK_DEADLOCK FALSE
