SPECIFICATION FairSpec
CONSTANTS
  p1 = p1
  w1 = w1
  w2 = w2
  Pages = {p1}
  ApiClients = {w1, w2}
  ClientId <- OneIdForBoth
  MaxMessages = 2
  MaxFailures = 1
INVARIANTS
  RealtimeTypeOK
  AuthenticatedAreHeard
PROPERTIES
  AuthenticatedOrClosed
  VanishedAreDropped
CHECK_DEADLOCK FALSE
