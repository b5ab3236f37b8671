\* An order and a top-up, two transactions, one of each kind of caller.
CONSTANTS
  Nil = Nil
  Orders = {o1}
  Topups = {p1}
  Txns = {t1, t2}
  Fitting <- MCFitting
  Employees = {m1}
  Feeds = {f1}
  Keys = {k1, k2}
  EventIds = {e1, e2}
  MaxAttempts = 2
SPECIFICATION Spec
CONSTRAINT MCScope
SYMMETRY MCSymmetry
INVARIANTS
  CashIsAccounted
  ReceiptsAgreeWithBooks
  RefundsFollowChannel
PROPERTY
  LinksAreAuthorised
