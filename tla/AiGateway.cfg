SPECIFICATION Spec
CONSTANTS
  ErrorThreshold = 50
  w1 = w1
  w2 = w2
  user1 = user1
  Workers = {w1, w2}
  Users = {user1}
  Global = global
  HourlyLimit <- MCHourlyLimit
  PlanLimit <- MCPlanLimit
  MaxRequests = 3
  MaxCrashes = 1
SYMMETRY MCSymmetry
INVARIANTS
  OveruseBounded
  CountersExpire
PROPERTIES
  BreakerSpec
CHECK_DEADLOCK FALSE
