SPECIFICATION HistoryFairSpec
CONSTANTS
  o1 = o1
  p1 = p1
  p2 = p2
  Orders = {o1}
  Polls = {p1, p2}
  BatchSize = 2
  KeepLength = 1
  MaxStream = 2
  MaxFailures = 1
  MaxUpsets = 1
INVARIANTS
  HistoryTypeOK
  HistoryFaithful
  PageTruthful
PROPERTIES
  PageConverges
  SignedOutLeavesPage
CHECK_DEADLOCK FALSE
