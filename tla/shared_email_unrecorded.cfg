SPECIFICATION FairSpec
CONSTANTS
  Requests = {r1, r2}
  Emails = {e1}
  Roles = {clerk}
  Subjects = {alice, bob}
  Approvers = {alice, bob}
  ServiceActor = service
  Handlers = {h1}
  Invite = Invite
  NoRow = NoRow
  NoJob = NoJob
  DecisionCheck <- CheckRepaired
  ExecWhileIterating = TRUE
PROPERTY ResultRecorded
CHECK_DEADLOCK FALSE
