\* An order with an initial payment and a supplement, paid from two batches and the
\* channel, refunded in two groups.
CONSTANTS
  Nil = Nil
  Batches = {1, 2}
  Payments = {1, 2}
  Grants <- MCGrants
  Amounts = {0, 3, 4}
  MaxCents = 6
  Lines <- MCLines
  LineCents <- MCLineCents
  Supplements = {1}
  Asked = {0, 2}
  Groups = {1, 2}
  Numbers = {n1, n2}
SPECIFICATION Spec
SYMMETRY MCSymmetry
INVARIANTS
  NothingIsReturnedTwice
  LinesAgreeWithSources
  StatusFollowsMoney
  NumbersBackOneRefund
  BatchesAreConserved
  BalanceFits
PROPERTIES
  OldestFirst
  SharesAreFair
  ImplementsRefundedWallet
CHECK_DEADLOCK FALSE
