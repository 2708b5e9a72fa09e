SPECIFICATION FairSpec
CONSTANTS
  Requests = {r1}
  Emails = {e1}
  Roles = {clerk}
  Subjects = {alice, bob}
  Approvers = {alice, bob}
  ServiceActor = service
  Handlers = {h1}
  Invite = Invite
  NoRow = NoRow
  NoJob = NoJob
  DecisionCheck <- CheckRepaired
  ExecWhileIterating = FALSE
PROPERTY ResultRecorded
CHECK_DEADLOCK FALSE
