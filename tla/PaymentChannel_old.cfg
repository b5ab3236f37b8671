\* A refund that failed before PMS kept operations, simulated and retried.
CONSTANTS
  Nil = Nil
  OrderPayments = {}
  Topups = {}
  Refunds = {r1}
  ExceptionRefunds = {}
  OldSources = {r1}
  RefusedBefore = {r1}
  MaxGeneration = 2
  EventIds = {e1}
  Workers = {w1}
  MaxFaults = 0
SPECIFICATION Spec
INVARIANTS
  RetriedNumbersAreDead
