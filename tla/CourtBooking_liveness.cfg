\* Orders with and without a price beside a manual occupancy, with the expiry
\* worker running: holds and reservations end although nobody acts.
CONSTANTS
  v1 = v1
  v2 = v2
  Nil = Nil
  Quotes = {q1, q2}
  Customers = {c1}
  Venues = {v1, v2}
  Intervals <- MCIntervals
  Selections <- MCFree
  Policies <- MCPolicies
  Blocks = {b1}
  Payments = {p1}
  Txns = {t1}
  EventIds = {e1}
  StaffHolds = {1}
  WalletParts = {0, 1, 2}
  Credited <- MCCredited
  MaxElapse = 0
  MaxTime = 3
SPECIFICATION FairSpec
PROPERTIES
  RevisionCoversContent
  HoldsEnd
