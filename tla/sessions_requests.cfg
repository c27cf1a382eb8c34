SPECIFICATION FairSpec
CONSTANTS
  a = a
  b = b
  Requests = {q1, q2, q3}
  Users = {u1, u2}
  Passwords = {a, b}
  Registered <- AllWithA
  None = None
INVARIANTS
  TypeOK
  FailureLeavesNothing
PROPERTIES
  ChangeEndsSessions
  EveryRequestEnds
CHECK_DEADLOCK FALSE
