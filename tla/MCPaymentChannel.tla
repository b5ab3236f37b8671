--------------------------- MODULE MCPaymentChannel ---------------------------
(***************************************************************************)
(* Small instances of PaymentChannel: payments and a refund with its       *)
(* retries, under several invocations.                                     *)
(***************************************************************************)
EXTENDS PaymentChannel, TLC

\* Something happened to source s.
Concerned(s) ==
  \/ s \in overdue
  \/ source[s] # IF s \in RefusedBefore THEN "FAILED" ELSE IF s \in Refunds THEN "REQUESTED" ELSE "PENDING"
  \/ \E o \in Operation : o.source = s /\ (ledger[o] # {} \/ ops[o] \notin {Nil, Fresh})
  \/ \E o \in Operation : o.source = s /\ s \in OldSources /\ ops[o] # Nil
  \/ \E w \in Workers : Running(w) /\ jobs[w].op.source = s

\* Sources share nothing but the workers: they are explored one at a time.  Only a
\* refund is reported under two numbers, in one of its attempts, and without a fault.
\* Once anything was done with the first attempt at a refund that was refused before,
\* but to retry it, there are no faults and no second numbers.
Known == stored \cup ({jobs[w].event : w \in {v \in Workers : Running(v)}} \ {Nil})
TwoNumbers == \E e, f \in Known : e.id # f.id
Revived ==
  \E o \in Operation :
    /\ RefusedAsOld(o)
    /\ \/ ops[o] \notin {Nil, [Fresh EXCEPT !.state = "FAILED"]}
       \/ ledger[o] # {}
       \/ \E w \in Workers : Running(w) /\ jobs[w].op = o
MCScope ==
  /\ Cardinality({s \in Sources : Concerned(s)}) <= 1
  /\ \A e, f \in Known : e.id # f.id => IsRefund(e.op) /\ e.op = f.op
  /\ faults > 0 \/ TwoNumbers => ~Revived
  /\ faults > 0 => ~TwoNumbers

MCSymmetry == Permutations(Workers) \cup Permutations(EventIds)
=============================================================================
