\* The worker brings every outcome of the channel home.
CONSTANTS
  Nil = Nil
  OrderPayments = {}
  Topups = {t1}
  Refunds = {}
  ExceptionRefunds = {}
  OldSources = {}
  RefusedBefore = {}
  MaxGeneration = 1
  EventIds = {e1}
  Workers = {w1, w2}
  MaxFaults = 1
SPECIFICATION FairSpec
PROPERTIES
  ObservationsAreApplied
  SuccessReachesBooks
