SPECIFICATION Spec
CONSTANTS
  alice = alice
  bob = bob
  realm = realm
  desk = desk
  portal = portal
  clerk = clerk
  pilot = pilot
  approverRole = approverRole
  officer = officer
  Requests = {r1}
  Subjects = {alice, bob}
  Roles = {clerk, pilot}
  RoleLists <- SomeLists
  Grants <- GateGrants
  Environments <- SomeEnvironments
  Realm = realm
  Default = approverRole
  Unset = Unset
  Lifetime = 1
  Horizon = 2
  MaxInFlight = 1
  Down = Down
  NoToken = NoToken
  NoRow = NoRow
  Never = Never
INVARIANTS
  TypeOK
  AuthorityIsRecent
  AcceptedRolesAreAssignable
PROPERTY ImplementsLifecycle
CHECK_DEADLOCK FALSE
