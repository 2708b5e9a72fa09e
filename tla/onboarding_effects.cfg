SPECIFICATION Spec
CONSTANTS
  Requests = {r1}
  Emails = {e1}
  Roles = {clerk, officer, pilot}
  Subjects = {alice, bob, carol}
  Approvers = {alice, bob}
  ServiceActor = service
  Handlers = {h1, h2}
  Invite = Invite
  NoRow = NoRow
  NoJob = NoJob
  DecisionCheck <- CheckRepaired
  ExecWhileIterating = TRUE
INVARIANTS
  EffectsAreApproved
  CallsReachKeycloakAtMostOnce
  RecordedSuccessIsReal
PROPERTY ImplementsLifecycle
CHECK_DEADLOCK FALSE
