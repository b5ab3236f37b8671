---------------------------- MODULE AbstractWallet ----------------------------
(***************************************************************************)
(* What the wallet promises a customer, without batches or the split into  *)
(* principal and gift: money is available, held for a payment that waits,  *)
(* or spent on one, it moves between these three only by whole amounts,    *)
(* and what was spent can come back at most once.  WalletStore and         *)
(* OrderRefunds implement this.                                            *)
(***************************************************************************)
EXTENDS TennisCents

CONSTANTS
  Payments,  \* identities of payments
  MaxCents   \* the largest amount of money: 2^53 - 1 in the code

VARIABLES
  balance,   \* cents that can be spent
  held,      \* cents held for each payment
  spent      \* cents spent on each payment and not returned

vars == <<balance, held, spent>>

Init ==
  /\ balance = 0
  /\ held = [p \in Payments |-> 0]
  /\ spent = [p \in Payments |-> 0]

Credit ==
  /\ balance' > balance
  /\ balance' + SumOf(held) + SumOf(spent) <= MaxCents
  /\ UNCHANGED <<held, spent>>

\* A payment takes money once, to hold it or to spend it.
Unused(p) == held[p] = 0 /\ spent[p] = 0

Hold(p, n) ==
  /\ Unused(p) /\ n <= balance
  /\ balance' = balance - n
  /\ held' = [held EXCEPT ![p] = n]
  /\ UNCHANGED spent

Pay(p, n) ==
  /\ Unused(p) /\ n <= balance
  /\ balance' = balance - n
  /\ spent' = [spent EXCEPT ![p] = n]
  /\ UNCHANGED held

Release(p) ==
  /\ balance' = balance + held[p]
  /\ held' = [held EXCEPT ![p] = 0]
  /\ UNCHANGED spent

Spend(p) ==
  /\ held[p] > 0
  /\ spent' = [spent EXCEPT ![p] = held[p]]
  /\ held' = [held EXCEPT ![p] = 0]
  /\ UNCHANGED balance

\* A refund of one order may return money of several payments.
Return ==
  /\ \A p \in Payments : spent'[p] \in 0 .. spent[p]
  /\ balance' + SumOf(spent') = balance + SumOf(spent)
  /\ UNCHANGED held

Next ==
  \/ Credit
  \/ \E p \in Payments :
       \/ \E n \in 1 .. balance : Hold(p, n) \/ Pay(p, n)
       \/ Release(p)
       \/ Spend(p)
  \/ Return

Spec == Init /\ [][Next]_vars
=============================================================================
