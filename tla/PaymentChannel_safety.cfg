\* The payment of an order, or a refund that failed before there were operations with two
\* retries, one attempt of which is reported under two event numbers, under two invocations,
\* one of which may still work on an old attempt.
CONSTANTS
  Nil = Nil
  OrderPayments = {p1}
  Topups = {}
  Refunds = {r1}
  ExceptionRefunds = {}
  OldSources = {r1}
  RefusedBefore = {r1}
  MaxGeneration = 3
  EventIds = {e1, e2}
  Workers = {w1, w2}
  MaxFaults = 1
SPECIFICATION Spec
CONSTRAINT MCScope
SYMMETRY MCSymmetry
INVARIANTS
  FinalStatesAreVerified
  BooksFollowChannel
  RefundedOnce
PROPERTIES
  SuccessIsFinal
  LeaseIsRespected
