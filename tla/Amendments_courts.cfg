\* Two amendments of a free order of two lines move it over its own courts while time
\* passes, a block competes and the opening rules change.
CONSTANTS
  Nil = Nil
  o1 = o1
  a1 = a1
  a2 = a2
  p1 = p1
  p2 = p2
  p3 = p3
  b1 = b1
  Orders = {o1}
  Lines = {1, 2}
  OrderOf <- MCOrderOf
  Bookings <- MCFreeBookings
  Offers <- MCCourtOffers
  Minimums = {1, 2}
  Amendments = {a1, a2}
  Payments = {p1}
  Blocks = {b1}
  BlockSlots <- MCBlockSlots
  RefundCents = {0, 1}
  WalletParts = {0, 1}
  OrderHold = 2
  QuoteMinutes = 1
  HoldMinutes = 2
  MaxElapse = 1
  MaxTime = 2
SPECIFICATION FairSpec
INVARIANTS
  CourtsFollowLines
  AwaitingKeepsItsCourts
  AmendmentsFollowPayments
PROPERTIES
  ChangesAreAgreed
  StagedHoldsEnd
