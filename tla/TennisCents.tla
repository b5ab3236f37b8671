----------------------------- MODULE TennisCents -----------------------------
(***************************************************************************)
(* Exact division of money: allocateCents of                               *)
(* packages/domain/src/tennis-pricing.ts, by which the wallet, refunds and *)
(* amendments split an amount.                                             *)
(***************************************************************************)
EXTENDS Integers, FiniteSets, FiniteSetsExt

\* The sum of f[i] over the domain of f.
SumOf(f) == MapThenSumSet(LAMBDA i : f[i], DOMAIN f)

\* allocateCents: `total` in proportion to the weights, which are numbered in the
\* order the code takes them.  Everyone gets the whole cents of its share; the
\* cents that are left go, one each, to the largest remainders, the first of
\* equals first.
Fault_AllocateCents(total, weights) ==
  LET sum      == SumOf(weights)
      share(i) == (total * weights[i] + sum \div 2) \div sum
  IN [i \in DOMAIN weights |-> IF sum = 0 THEN 0 ELSE share(i)]
AllocateCents(total, weights) ==
  LET sum   == SumOf(weights)
      parts == {[index     |-> i,
                 amount    |-> (total * weights[i]) \div sum,
                 remainder |-> (total * weights[i]) % sum] : i \in DOMAIN weights}
      part(i)  == CHOOSE x \in parts : x.index = i
      ahead(x) == {y \in parts :
                     \/ y.remainder > x.remainder
                     \/ y.remainder = x.remainder /\ y.index < x.index}
      extra == total - SumOf([i \in DOMAIN weights |-> part(i).amount])
  IN [i \in DOMAIN weights |->
        IF sum = 0 THEN 0
        ELSE part(i).amount + IF Cardinality(ahead(part(i))) < extra THEN 1 ELSE 0]
=============================================================================
