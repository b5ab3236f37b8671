\* An order of three lines is held, paid or lost, repriced and refunded.
CONSTANTS
  Nil = Nil
  o1 = o1
  a1 = a1
  a2 = a2
  p1 = p1
  p2 = p2
  p3 = p3
  b1 = b1
  Orders = {o1}
  Lines = {1, 2, 3}
  OrderOf <- MCOrderOf
  Bookings <- MCPriceBookings
  Offers <- MCPriceOffers
  Minimums = {1}
  Amendments = {a1}
  Payments = {p1, p2}
  Blocks = {}
  BlockSlots <- MCBlockSlots
  RefundCents = {1}
  WalletParts = {0}
  OrderHold = 1
  QuoteMinutes = 1
  HoldMinutes = 1
  MaxElapse = 0
  MaxTime = 1
SPECIFICATION Spec
SYMMETRY MCSymmetry
INVARIANT CapsAreFunded
