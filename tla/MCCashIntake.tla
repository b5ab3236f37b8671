----------------------------- MODULE MCCashIntake -----------------------------
(***************************************************************************)
(* A small instance of CashIntake.                                         *)
(***************************************************************************)
EXTENDS CashIntake, TLC

\* Every transaction fits every source.
MCFitting == Txns \X Sources

\* One exception is refunded, and receipts are not linked meanwhile: a refund reads
\* nothing of a receipt, and a receipt only finds the exception it is about.  Only
\* a failure is reported under two numbers.
MCScope ==
  /\ \A x, y \in exceptions : refunds[x] # Nil /\ refunds[y] # Nil => x = y
  /\ (\E x \in exceptions : refunds[x] # Nil) => \A c \in Callers : jobs[c] = Nil
  /\ \A o, p \in observed :
       o.attempt = p.attempt /\ o.id # p.id => refunds[o.exception].results[o.attempt] = "FAILED"

MCSymmetry == Permutations(Txns) \cup Permutations(Keys) \cup Permutations(EventIds)
=============================================================================
