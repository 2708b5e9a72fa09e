SPECIFICATION FairSpec
CONSTANTS
  Requests = {r1, r2}
  Emails = {e1, e2}
  Roles = {clerk}
  Subjects = {alice, bob}
  Approvers = {bob}
  ServiceActor = service
  Handlers = {h1, h2}
  Invite = Invite
  NoRow = NoRow
  NoJob = NoJob
  DecisionCheck <- CheckRepaired
  ExecWhileIterating = TRUE
INVARIANTS
  TypeOK
  TablesAgree
  ResultIsRecordable
  IndInv
PROPERTIES
  SettledForGood
  ImplementsLifecycle
  ResultRecordedUnlessShared
CHECK_DEADLOCK FALSE
