SPECIFICATION Spec
CONSTANTS
  s1 = s1
  s2 = s2
  u1 = u1
  u2 = u2
  o1 = o1
  Servers = {s1, s2}
  Signups = {u1, u2}
  Orders = {}
  Owner <- OfTheUser
  Kinds = {}
  MaxFaults = 0
  MaxUpsets = 0
INVARIANTS
  ScalesOut
CHECK_DEADLOCK FALSE
