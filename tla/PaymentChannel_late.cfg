\* A payment that failed and succeeds late.
CONSTANTS
  Nil = Nil
  OrderPayments = {}
  Topups = {t1}
  Refunds = {}
  ExceptionRefunds = {}
  OldSources = {}
  RefusedBefore = {}
  MaxGeneration = 1
  EventIds = {e1}
  Workers = {w1}
  MaxFaults = 0
SPECIFICATION FairSpec
PROPERTIES
  LateSuccessReachesBooks
