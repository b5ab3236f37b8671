\* A payment may expire between the check and the call.
CONSTANTS
  Nil = Nil
  OrderPayments = {p1}
  Topups = {}
  Refunds = {}
  ExceptionRefunds = {}
  OldSources = {}
  RefusedBefore = {}
  MaxGeneration = 1
  EventIds = {e1}
  Workers = {w1}
  MaxFaults = 0
SPECIFICATION Spec
PROPERTIES
  ExpiredIsNotStarted
