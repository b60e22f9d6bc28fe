SPECIFICATION FairSpec
CONSTANTS
  s1 = s1
  s2 = s2
  u1 = u1
  u2 = u2
  o1 = o1
  Servers = {s1}
  Signups = {u1}
  Orders = {o1}
  Owner <- OfTheUser
  Kinds = {"closeOrder", "getClosedOrders"}
  MaxFaults = 1
  MaxUpsets = 1
INVARIANTS
  BackendTypeOK
  WaitersReleased
  NoAnswerMissed
  SignupConsistent
PROPERTIES
  CallsReturn
  ImplementsRemoteCall
CHECK_DEADLOCK FALSE
