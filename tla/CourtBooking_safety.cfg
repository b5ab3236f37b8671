\* Two orders of one customer compete for a court and a wallet; provider events
\* come in any order and number.
CONSTANTS
  v1 = v1
  v2 = v2
  Nil = Nil
  Quotes = {q1, q2}
  Customers = {c1}
  Venues = {v1, v2}
  Intervals <- MCIntervals
  Selections <- MCSelections
  Policies <- MCPolicies
  Blocks = {b1}
  Payments = {p1, p2}
  Txns = {t1, t2}
  EventIds = {e1, e2}
  StaffHolds = {1}
  WalletParts = {0, 1, 2}
  Credited <- MCCredited
  MaxElapse = 1
  MaxTime = 3
SPECIFICATION Spec
SYMMETRY MCSymmetry
INVARIANTS
  TypeOK
  NoDoubleBooking
  InventoryMatchesOrders
  MoneyFollowsOrders
  CapturesAreAccounted
PROPERTIES
  LostOrdersStayLost
  ConfirmedWithinHold
  SettlementIsFinal
