SPECIFICATION FairSpec
CONSTANTS
  Requests = {r1}
  Emails = {e1}
  Roles = {clerk}
  Subjects = {alice, bob}
  Approvers = {alice, bob}
  ServiceActor = service
  Handlers = {h1}
  Invite = Invite
  NoRow = NoRow
  NoJob = NoJob
  DecisionCheck <- CheckAsMigrated
  ExecWhileIterating = TRUE
PROPERTY ResultRecorded
CHECK_DEADLOCK FALSE
