SPECIFICATION Spec
CONSTANTS
  Activities = {a1}
  Subjects = {alice, bob, carol}
  Window = 1
  Horizon = 2
  MaxInFlight = 2
  NoActivity = NoActivity
  Never = Never
SYMMETRY Interchangeable
INVARIANTS
  TypeOK
  EvidenceIsTheTrail
  FourEyes
  ApprovalIsBounded
PROPERTIES
  DecidedForGood
  ImplementsRegister
CHECK_DEADLOCK FALSE
